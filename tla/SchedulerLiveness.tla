-------------------------- MODULE SchedulerLiveness --------------------------
(***************************************************************************)
(* What the scheduler must eventually do, under the timing and fairness    *)
(* its environment provides.                                               *)
(*                                                                         *)
(* A pass of the dispatch loop, and the work of a thread between two calls *)
(* of the scheduler, take microseconds and a tick lasts ten milliseconds:  *)
(* no more than MaxStayTicks ticks land in one of them.  Only the threads  *)
(* that never call keep the processor for longer.                          *)
(***************************************************************************)
EXTENDS SchedulerDispatch

CONSTANT MaxStayTicks

ASSUME TimingAssumption == MaxStayTicks \in Nat

VARIABLE stayTicks   \* ticks since the processor went to whoever has it

timedVars == <<vars, stayTicks>>

TimedInit == Init /\ stayTicks = 0

NeverCalls(t) == SleepLengths[t] = {} /\ t \notin ExitingTasks

TimedProgramStep ==
  /\ ProgramStep
  /\ stayTicks' = IF cpu' = cpu THEN stayTicks ELSE 0

ShortStayTick ==
  /\ cpu \in Tasks => ~NeverCalls(cpu)
  /\ stayTicks < MaxStayTicks
  /\ TimerTick
  /\ stayTicks' = IF cpu' = cpu THEN stayTicks + 1 ELSE 0

LongStayTick ==
  /\ cpu \in Tasks
  /\ NeverCalls(cpu)
  /\ TimerTick
  /\ stayTicks' = 0

TimedNext == TimedProgramStep \/ ShortStayTick \/ LongStayTick

(* The processor executes the loop, and the PIT keeps ticking while a      *)
(* thread that never calls has the processor.  Any other thread that is    *)
(* dispatched gets to its next call.                                       *)
Fairness ==
  /\ WF_timedVars(LoopStep /\ TimedProgramStep)
  /\ SF_timedVars(LongStayTick)
  /\ \A t \in Tasks :
       /\ SF_timedVars(CallsOut(t) /\ TimedProgramStep)
       /\ SF_timedVars(LeaveThread(t) /\ TimedProgramStep)

FairSpec == TimedInit /\ [][TimedNext]_timedVars /\ Fairness

-----------------------------------------------------------------------------

(* The boot thread of the highest priority, the heartbeat, never stops     *)
(* getting the processor, whatever the busy worker does.                   *)
HeartbeatContinues ==
  \A t \in BootTasks :
    (\A u \in Tasks \ {t} : Priority[u] < Priority[t]) => []<>(cpu = t)

(* Neither the priority of the sleepers nor a thread that never gives up   *)
(* the processor starves another: whoever sleeps or is ready gets the      *)
(* processor again, by aging, the wake pass of the tick and preemption     *)
(* together.  Only the idle task has no such claim.                        *)
NobodyStarves ==
  \A t \in Tasks \ {IdleTask} :
    Kernel(t) /\ state[t] \in {"ready", "blocked"} ~> cpu = t

=============================================================================
