---------------------------- MODULE SelectionScan ----------------------------
(***************************************************************************)
(* LosKernelSchedulerSelectNextTaskIndex, one loop iteration per step.     *)
(*                                                                         *)
(* The dispatch loop runs with interrupts enabled, so timer ticks land     *)
(* between two iterations: every waiting time grows and sleeping tasks     *)
(* become ready behind and ahead of the cursor, while PreferWakePending    *)
(* and the best entry keep what they were computed from.  Any table the    *)
(* scheduler can hold at that point may be the one that is scanned.        *)
(***************************************************************************)
EXTENDS SchedulerPolicy

CONSTANTS
  Waits,      \* waiting times of the tables that are scanned
  Sleeps,     \* remaining sleeps of their blocked tasks
  MaxTicks    \* bound on the ticks that land during one scan

ASSUME ScanAssumption ==
  /\ Waits \subseteq 0 .. WaitCap
  /\ Sleeps \subseteq Nat \ {0}
  /\ MaxTicks \in Nat

VARIABLES
  pc,            \* "start", "scan" or "chosen"
  offset,        \* Offset
  best,          \* BestIndex
  bestPriority,  \* BestPriority
  bestWait,      \* BestWaitTicks
  preferWake,    \* PreferWakePending
  ticks          \* ticks since the scan began

scanVars == <<pc, offset, best, bestPriority, bestWait, preferWake, ticks>>

vars == <<tableVars, scanVars>>

(* One task's entry.  No task runs while the scheduler selects, and the    *)
(* idle task never sleeps or exits.                                        *)
Entries(t) ==
  LET entry(s, l, w, b, u) == [state |-> s, left |-> l, wait |-> w, boost |-> b, user |-> u]
      ready == {entry("ready", NoWake, w, 0, "absent") : w \in Waits}
      woken == {entry("ready", NoWake, w, WakeResumeBoost, "absent") : w \in Waits}
      asleep == {entry("blocked", l, 0, 0, "absent") : l \in Sleeps}
      gone == {entry("unused", NoWake, 0, 0, "absent")}
      staged == {entry("ready", NoWake, w, 0, "created") : w \in Waits}
      prepared == {entry("blocked", NoWake, 0, 0, "prepared")}
      live == {entry("ready", NoWake, w, LiveResumeBoost, "live") : w \in Waits}
  IN CASE t = IdleTask -> ready
       [] t \in UserTasks -> gone \cup staged \cup prepared \cup live
       [] OTHER -> ready \cup woken \cup asleep \cup gone

Table == UNION {Entries(t) : t \in Tasks}

Init ==
  /\ \E table \in [Tasks -> Table] :
       /\ \A t \in Tasks : table[t] \in Entries(t)
       /\ state = [t \in Tasks |-> table[t].state]
       /\ sleepLeft = [t \in Tasks |-> table[t].left]
       /\ waited = [t \in Tasks |-> table[t].wait]
       /\ boost = [t \in Tasks |-> table[t].boost]
       /\ userState = [t \in Tasks |-> table[t].user]
  /\ lastSelected \in Tasks \cup {InvalidTask}
  /\ pc = "start"
  /\ offset = 0
  /\ best = InvalidTask
  /\ bestPriority = 0
  /\ bestWait = 0
  /\ preferWake = FALSE
  /\ ticks = 0

-----------------------------------------------------------------------------

BeginScan ==
  /\ pc = "start"
  /\ pc' = "scan"
  /\ preferWake' = SomeWakePending
  /\ UNCHANGED <<tableVars, offset, best, bestPriority, bestWait, ticks>>

CursorTask ==
  IF lastSelected = InvalidTask THEN offset ELSE (lastSelected + 1 + offset) % MaxTasks

(* Mutant of Considered: the wake preference is forgotten.                 *)
ConsideredAnyWake(t) == state[t] = "ready" /\ Eligible(t)

Considered(t) ==
  state[t] = "ready" /\ Eligible(t) /\ (preferWake => WakePending(t))

(* Mutants of BetterThanBest: no tie-break on the wait; the first          *)
(* candidate stays.                                                        *)
BetterByPriority(t) == best = InvalidTask \/ EffectivePriority(t) > bestPriority

BetterThanNone(t) == best = InvalidTask

BetterThanBest(t) ==
  \/ best = InvalidTask
  \/ EffectivePriority(t) > bestPriority
  \/ EffectivePriority(t) = bestPriority /\ waited[t] > bestWait

TakeEntry ==
  /\ pc = "scan"
  /\ offset < MaxTasks
  /\ Considered(CursorTask)
  /\ BetterThanBest(CursorTask)
  /\ best' = CursorTask
  /\ bestPriority' = EffectivePriority(CursorTask)
  /\ bestWait' = waited[CursorTask]
  /\ offset' = offset + 1
  /\ UNCHANGED <<tableVars, pc, preferWake, ticks>>

PassEntry ==
  /\ pc = "scan"
  /\ offset < MaxTasks
  /\ ~(Considered(CursorTask) /\ BetterThanBest(CursorTask))
  /\ offset' = offset + 1
  /\ UNCHANGED <<tableVars, pc, best, bestPriority, bestWait, preferWake, ticks>>

(* The second loop, taken when the first found nothing.                    *)
EndScan ==
  /\ pc = "scan"
  /\ offset = MaxTasks
  /\ pc' = "chosen"
  /\ best' \in IF best # InvalidTask \/ FallbackTasks = {} THEN {best} ELSE FallbackTasks
  /\ UNCHANGED <<tableVars, offset, bestPriority, bestWait, preferWake, ticks>>

(* LosKernelSchedulerOnTimerTick while InScheduler is set.                 *)
TickDuringScan ==
  /\ pc = "scan"
  /\ ticks < MaxTicks
  /\ ticks' = ticks + 1
  /\ state' = StateAfterTick
  /\ sleepLeft' = SleepLeftAfterTick
  /\ waited' = WaitedAfterTick
  /\ boost' = BoostAfterTick
  /\ UNCHANGED <<userState, lastSelected, pc, offset, best, bestPriority, bestWait, preferWake>>

Finished == pc = "chosen" /\ UNCHANGED vars

Next ==
  BeginScan \/ TakeEntry \/ PassEntry \/ EndScan \/ TickDuringScan \/ Finished

Spec == Init /\ [][Next]_vars

-----------------------------------------------------------------------------

(* A scan that no tick disturbed returns exactly the task the policy       *)
(* describes: of the candidates the one with the highest effective         *)
(* priority, then the longest wait, then the first after the last one      *)
(* selected.                                                               *)
QuietScanFollowsPolicy ==
  pc = "chosen" /\ ticks = 0 => best \in Selection

(* The wake preference read before the loop stays satisfiable through it:  *)
(* a scan that started with a woken task waiting ends on a woken task, and *)
(* never falls back to the idle task because the preference excluded all.  *)
(* Either way the task can be dispatched: it is ready, and live if it is a *)
(* user task.                                                              *)
WakePreferenceHonoured ==
  pc = "chosen" =>
    /\ best \in Tasks /\ state[best] = "ready" /\ Eligible(best)
    /\ preferWake => WakePending(best)

(* Ticks that land in the scan make it compare waiting times of different  *)
(* moments, but only by that much: a task the scan had to consider can be  *)
(* ahead of the chosen one by no more than the boosts those ticks moved.   *)
InversionBoundedByTicks ==
  pc = "chosen" =>
    \A u \in Tasks :
      state[u] = "ready" /\ Eligible(u) /\ WakePending(u) = WakePending(best)
        /\ waited[u] >= ticks
        => EffectivePriority(u) <=
             EffectivePriority(best)
               + (IF ticks = 0 THEN 0
                  ELSE WakePriorityBoost + (ticks + AgingInterval - 1) \div AgingInterval)

=============================================================================
