--------------------------- MODULE SchedulerPolicy ---------------------------
(***************************************************************************)
(* The task table of the kernel scheduler and the policy functions that    *)
(* read it (Kernel/C/SchedulerPolicy.c): which sleeping task a timer tick  *)
(* wakes, the effective priority of a ready task, and the task that the    *)
(* dispatch loop selects.                                                  *)
(*                                                                         *)
(* Times are kept relative to TickCount, so that the table is finite:      *)
(* sleepLeft is NextWakeTick - TickCount, waited is TickCount -            *)
(* ReadySinceTick.  WaitCap bounds waited; it is high enough that a longer *)
(* wait changes no effective priority.                                     *)
(***************************************************************************)
EXTENDS Integers, FiniteSets

CONSTANTS
  MaxTasks,       \* LOS_KERNEL_SCHEDULER_MAX_TASKS
  IdleTask,       \* the slot whose task has TASK_FLAG_IDLE
  UserTasks,      \* the slots whose task has TASK_FLAG_USER_MODE
  Priority,       \* base priority of each slot's task
  AgingInterval,  \* LOS_KERNEL_SCHEDULER_AGING_INTERVAL_TICKS
  MaxAgingBoost,  \* LOS_KERNEL_SCHEDULER_MAX_AGING_BOOST
  WakeBoostAge,   \* a woken task is favoured for this many ticks (8)
  WaitCap         \* bound on the waiting time the model distinguishes

Tasks == 0 .. MaxTasks - 1

ASSUME TableAssumption ==
  /\ MaxTasks \in Nat \ {0}
  /\ IdleTask \in Tasks
  /\ UserTasks \subseteq Tasks \ {IdleTask}

ASSUME PolicyAssumption ==
  /\ Priority \in [Tasks -> Nat]
  /\ AgingInterval \in Nat \ {0}
  /\ MaxAgingBoost \in Nat
  /\ WakeBoostAge \in Nat
  /\ WaitCap \in Nat
  /\ WaitCap >= AgingInterval * MaxAgingBoost
  /\ WaitCap > WakeBoostAge

VARIABLES
  state,         \* Task->State
  sleepLeft,     \* ticks until NextWakeTick; NoWake when NextWakeTick is 0
  waited,        \* ticks since ReadySinceTick, for a ready task
  boost,         \* ResumeBoostTicks; WakeDispatchPending is boost # 0
  userState,     \* how far a user-mode task is along its transition
  lastSelected   \* State->LastSelectedIndex

tableVars == <<state, sleepLeft, waited, boost, userState, lastSelected>>

TaskStates == {"unused", "ready", "running", "blocked", "terminated"}

UserStates == {"absent", "created", "prepared", "live", "complete"}

NoWake == -1

InvalidTask == -1

WakeResumeBoost == 2   \* the quantum a woken task may resume with

LiveResumeBoost == 4   \* the quantum of a user task that was made live

WakePriorityBoost == 2

Least(a, b) == IF a <= b THEN a ELSE b

-----------------------------------------------------------------------------
(* What a timer tick does to the table: every clock advances, then the     *)
(* tasks whose wake time was reached are made ready.                       *)

(* Mutant of DueTasks: NextWakeTick = 0 counts as a time that has passed.  *)
DueEvenUnarmed == {t \in Tasks : state[t] = "blocked" /\ sleepLeft[t] <= 1}

DueTasks == {t \in Tasks : state[t] = "blocked" /\ sleepLeft[t] = 1}

StateAfterTick ==
  [t \in Tasks |-> IF t \in DueTasks THEN "ready" ELSE state[t]]

(* Mutant of SleepLeftAfterTick: a wake time that is not set runs too.     *)
SleepLeftUnarmed ==
  [t \in Tasks |-> IF t \in DueTasks THEN NoWake ELSE sleepLeft[t] - 1]

SleepLeftAfterTick ==
  [t \in Tasks |->
     IF t \in DueTasks \/ sleepLeft[t] = NoWake THEN NoWake ELSE sleepLeft[t] - 1]

WaitedAfterTick ==
  [t \in Tasks |->
     IF state[t] = "ready" THEN Least(waited[t] + 1, WaitCap) ELSE 0]

BoostAfterTick ==
  [t \in Tasks |-> IF t \in DueTasks THEN WakeResumeBoost ELSE boost[t]]

-----------------------------------------------------------------------------
(* Selection.                                                              *)

WakePending(t) == boost[t] # 0

LiveUser(t) == t \in UserTasks /\ userState[t] = "live"

Eligible(t) == t \in UserTasks => userState[t] = "live"

(* Mutant of EffectivePriority: no aging.                                  *)
PriorityWithoutAging(t) ==
  Priority[t] + (IF WakePending(t) /\ waited[t] <= WakeBoostAge THEN WakePriorityBoost ELSE 0)

(* LastWakeTick and ReadySinceTick are stamped by the same wake and        *)
(* cleared by the same dispatch, so one age serves both.                   *)
EffectivePriority(t) ==
  Priority[t] + Least(waited[t] \div AgingInterval, MaxAgingBoost)
    + (IF WakePending(t) /\ waited[t] <= WakeBoostAge THEN WakePriorityBoost ELSE 0)

(* HasPendingWakeDispatch looks at every ready task, eligible or not.      *)
SomeWakePending == \E t \in Tasks : state[t] = "ready" /\ WakePending(t)

Candidates ==
  {t \in Tasks : /\ state[t] = "ready"
                 /\ Eligible(t)
                 /\ SomeWakePending => WakePending(t)}

Outranks(u, t) ==
  \/ EffectivePriority(u) > EffectivePriority(t)
  \/ EffectivePriority(u) = EffectivePriority(t) /\ waited[u] > waited[t]

Foremost == {t \in Candidates : \A u \in Candidates : ~Outranks(u, t)}

(* The position at which the scan meets t: it starts after the task        *)
(* selected last.                                                          *)
ScanOffset(t) == (t - lastSelected - 1) % MaxTasks

(* Of several foremost tasks the scan keeps the first.  Tasks that waited  *)
(* WaitCap ticks or more cannot be told apart by the model, so any of them *)
(* may be the one that waited longest.                                     *)
SelectableTasks ==
  {t \in Foremost :
     waited[t] = WaitCap \/ \A u \in Foremost : ScanOffset(t) <= ScanOffset(u)}

(* With no candidate the idle task is taken, whatever its state short of   *)
(* terminated.                                                             *)
FallbackTasks == {t \in {IdleTask} : state[t] # "terminated"}

Selection == IF Candidates # {} THEN SelectableTasks ELSE FallbackTasks

=============================================================================
