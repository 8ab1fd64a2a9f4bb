-------------------------- MODULE SchedulerDispatch --------------------------
(***************************************************************************)
(* The dispatch core of the kernel scheduler: the loop of                  *)
(* LosKernelSchedulerEnter, the timer interrupt that preempts threads and  *)
(* wakes sleepers, and the calls by which a thread gives up the processor  *)
(* (Kernel/C/SchedulerDispatchSections).                                   *)
(*                                                                         *)
(* One processor runs the scheduler, one thread, or nothing meaningful any *)
(* more.  Interrupts are enabled almost everywhere, so a tick may land     *)
(* between any two steps; the three places where it finds the scheduler's  *)
(* bookkeeping half done are named by Windows:                             *)
(*   "dispatch"  after InScheduler was cleared, before the new thread's    *)
(*               stack is loaded;                                          *)
(*   "return"    after a thread switched back to the scheduler's stack,    *)
(*               before InScheduler is set;                                *)
(*   "switch"    after a thread asked to stop running, before it left its  *)
(*               own stack.                                                *)
(* The code leaves all three open.  A window that is not in Windows        *)
(* describes the code with interrupts disabled there.                      *)
(*                                                                         *)
(* A tick in a window may take the processor from a task whose bookkeeping *)
(* is half done.  The history variable struck records these tasks, so that *)
(* the properties can say that such a tick harms nobody else.              *)
(***************************************************************************)
EXTENDS SchedulerPolicy

CONSTANTS
  BootTasks,      \* threads that exist when the scheduler is entered
  Creator,        \* the lifecycle thread, which creates the other tasks
  SleepLengths,   \* for each slot, the arguments its thread passes to Sleep
  ExitingTasks,   \* slots whose thread calls TerminateCurrent
  QuantumTicks,   \* Task->QuantumTicks
  Windows         \* where a tick may find the bookkeeping half done

ASSUME DispatchAssumption ==
  /\ BootTasks \subseteq Tasks \ UserTasks
  /\ IdleTask \in BootTasks
  /\ Creator \in BootTasks
  /\ SleepLengths \in [Tasks -> SUBSET Nat]
  /\ SleepLengths[IdleTask] = {}
  /\ ExitingTasks \subseteq Tasks \ (BootTasks \cup UserTasks)
  /\ QuantumTicks \in Nat \ {0}
  /\ Windows \subseteq {"dispatch", "return", "switch"}

VARIABLES
  quantum,             \* Task->RemainingQuantumTicks
  context,             \* whose stack Task->ExecutionContext points into
  phase,               \* "body", or "leaving" inside Yield/Sleep/Terminate
  struck,              \* history: tasks preempted in one of the windows
  cpu,                 \* what the processor executes
  loopPc,              \* where the dispatch loop stands
  inScheduler,         \* State->InScheduler
  current,             \* State->CurrentTaskIndex
  reschedulePending    \* State->ReschedulePending

taskVars == <<tableVars, quantum, context, phase, struck>>

cpuVars == <<cpu, loopPc, inScheduler, current, reschedulePending>>

vars == <<tableVars, quantum, context, phase, struck,
          cpu, loopPc, inScheduler, current, reschedulePending>>

Scheduler == -1   \* the dispatch loop, on the boot stack

Lost == -2        \* a context was loaded that no longer describes a stack

LoopSteps == {"clean", "select", "dispatch", "switch", "return"}

-----------------------------------------------------------------------------

(* LosKernelSchedulerInitialize and RegisterBootstrapTasks, then the entry *)
(* of the loop.                                                            *)
Init ==
  /\ state = [t \in Tasks |-> IF t \in BootTasks THEN "ready" ELSE "unused"]
  /\ sleepLeft = [t \in Tasks |-> NoWake]
  /\ waited = [t \in Tasks |-> 0]
  /\ boost = [t \in Tasks |-> 0]
  /\ userState = [t \in Tasks |-> "absent"]
  /\ lastSelected = InvalidTask
  /\ quantum = [t \in Tasks |-> IF t \in BootTasks THEN QuantumTicks ELSE 0]
  /\ context = [t \in Tasks |-> "own"]
  /\ phase = [t \in Tasks |-> "body"]
  /\ struck = {}
  /\ cpu = Scheduler
  /\ loopPc = "clean"
  /\ inScheduler = TRUE
  /\ current = InvalidTask
  /\ reschedulePending = FALSE

-----------------------------------------------------------------------------
(* The dispatch loop.                                                      *)

Reapable == {t \in Tasks : state[t] = "terminated"}

(* CleanupTerminatedTasks, in one critical section.  The process side of   *)
(* the reap belongs to SchedulerLifecycle.                                 *)
Clean ==
  /\ cpu = Scheduler
  /\ loopPc = "clean"
  /\ state' = [t \in Tasks |-> IF t \in Reapable THEN "unused" ELSE state[t]]
  /\ sleepLeft' = [t \in Tasks |-> IF t \in Reapable THEN NoWake ELSE sleepLeft[t]]
  /\ waited' = [t \in Tasks |-> IF t \in Reapable THEN 0 ELSE waited[t]]
  /\ boost' = [t \in Tasks |-> IF t \in Reapable THEN 0 ELSE boost[t]]
  /\ quantum' = [t \in Tasks |-> IF t \in Reapable THEN 0 ELSE quantum[t]]
  /\ struck' = struck \ Reapable
  /\ loopPc' = "select"
  /\ UNCHANGED <<userState, lastSelected, context, phase,
                 cpu, inScheduler, current, reschedulePending>>

ResumeQuantum(t) == IF boost[t] > QuantumTicks THEN boost[t] ELSE QuantumTicks

(* WakeDueTasks finds nothing here, since every tick has just run it, and  *)
(* the test for a user task that is not live fails, since selection made   *)
(* it.  With nothing to select the kernel halts.                           *)
Select(t) ==
  /\ cpu = Scheduler
  /\ loopPc = "select"
  /\ t \in Selection
  /\ state' = [state EXCEPT ![t] = "running"]
  /\ waited' = [waited EXCEPT ![t] = 0]
  /\ quantum' = [quantum EXCEPT ![t] = ResumeQuantum(t)]
  /\ boost' = [boost EXCEPT ![t] = 0]
  /\ lastSelected' = t
  /\ current' = t
  /\ reschedulePending' = FALSE
  /\ loopPc' = "dispatch"
  /\ UNCHANGED <<sleepLeft, userState, context, phase, struck, cpu, inScheduler>>

(* Mutant of LeaveLoop: InScheduler stays set.                             *)
LeaveLoopInScheduler ==
  /\ cpu = Scheduler
  /\ loopPc = "dispatch"
  /\ loopPc' = "switch"
  /\ UNCHANGED <<taskVars, cpu, inScheduler, current, reschedulePending>>

LeaveLoop ==
  /\ cpu = Scheduler
  /\ loopPc = "dispatch"
  /\ inScheduler' = FALSE
  /\ loopPc' = "switch"
  /\ UNCHANGED <<taskVars, cpu, current, reschedulePending>>

(* LosKernelSchedulerSwitchContext from the scheduler.  A context that     *)
(* was overwritten with a place in the scheduler's own stack, used since,  *)
(* leads nowhere.                                                          *)
SwitchToThread ==
  /\ cpu = Scheduler
  /\ loopPc = "switch"
  /\ cpu' = IF context[current] = "own" THEN current ELSE Lost
  /\ UNCHANGED <<taskVars, loopPc, inScheduler, current, reschedulePending>>

ReturnToLoop ==
  /\ cpu = Scheduler
  /\ loopPc = "return"
  /\ inScheduler' = TRUE
  /\ current' = InvalidTask
  /\ loopPc' = "clean"
  /\ UNCHANGED <<taskVars, cpu, reschedulePending>>

-----------------------------------------------------------------------------
(* What the running thread may do.                                         *)

Executing(t) == cpu = t /\ phase[t] = "body"

Kernel(t) == t \in Tasks \ UserTasks

(* LosKernelSchedulerYieldCurrent, also reached by SleepCurrent(0).        *)
Yield(t) ==
  /\ Kernel(t) /\ Executing(t)
  /\ 0 \in SleepLengths[t]
  /\ state' = [state EXCEPT ![t] = "ready"]
  /\ waited' = [waited EXCEPT ![t] = 0]
  /\ phase' = [phase EXCEPT ![t] = "leaving"]
  /\ reschedulePending' = TRUE
  /\ UNCHANGED <<sleepLeft, boost, userState, lastSelected, quantum, context,
                 struck, cpu, loopPc, inScheduler, current>>

Sleep(t) ==
  /\ Kernel(t) /\ Executing(t)
  /\ \E n \in SleepLengths[t] \ {0} : sleepLeft' = [sleepLeft EXCEPT ![t] = n]
  /\ state' = [state EXCEPT ![t] = "blocked"]
  /\ phase' = [phase EXCEPT ![t] = "leaving"]
  /\ reschedulePending' = TRUE
  /\ UNCHANGED <<waited, boost, userState, lastSelected, quantum, context,
                 struck, cpu, loopPc, inScheduler, current>>

Terminate(t) ==
  /\ Executing(t)
  /\ t \in ExitingTasks
  /\ state' = [state EXCEPT ![t] = "terminated"]
  /\ phase' = [phase EXCEPT ![t] = "leaving"]
  /\ reschedulePending' = TRUE
  /\ UNCHANGED <<sleepLeft, waited, boost, userState, lastSelected, quantum, context,
                 struck, cpu, loopPc, inScheduler, current>>

(* The SwitchContext call that ends each of the three: the saved context   *)
(* resumes after it.                                                       *)
LeaveThread(t) ==
  /\ cpu = t
  /\ phase[t] = "leaving"
  /\ context' = [context EXCEPT ![t] = "own"]
  /\ phase' = [phase EXCEPT ![t] = "body"]
  /\ cpu' = Scheduler
  /\ loopPc' = "return"
  /\ UNCHANGED <<tableVars, quantum, struck, inScheduler, current, reschedulePending>>

(* HandleUserModeInterrupt for the return vector or a fault, followed by   *)
(* PreemptIfNeededFromInterrupt, which leaves the terminated task.         *)
UserTrap(t) ==
  /\ t \in UserTasks
  /\ Executing(t)
  /\ userState[t] = "live"
  /\ state' = [state EXCEPT ![t] = "terminated"]
  /\ sleepLeft' = [sleepLeft EXCEPT ![t] = NoWake]
  /\ waited' = [waited EXCEPT ![t] = 0]
  /\ boost' = [boost EXCEPT ![t] = 0]
  /\ quantum' = [quantum EXCEPT ![t] = 0]
  /\ userState' = [userState EXCEPT ![t] = "complete"]
  /\ context' = [context EXCEPT ![t] = "own"]
  /\ reschedulePending' = TRUE
  /\ cpu' = Scheduler
  /\ loopPc' = "return"
  /\ UNCHANGED <<lastSelected, phase, struck, inScheduler, current>>

-----------------------------------------------------------------------------
(* What the lifecycle thread does to the table.                            *)

(* LosKernelSchedulerCreateTask: a slot that was freed is ready at once.   *)
Create(t) ==
  /\ Executing(Creator)
  /\ t \in Tasks \ BootTasks
  /\ state[t] = "unused"
  /\ t \in UserTasks => userState[t] = "absent"
  /\ state' = [state EXCEPT ![t] = "ready"]
  /\ waited' = [waited EXCEPT ![t] = 0]
  /\ quantum' = [quantum EXCEPT ![t] = QuantumTicks]
  /\ userState' = [userState EXCEPT ![t] = IF t \in UserTasks THEN "created" ELSE @]
  /\ context' = [context EXCEPT ![t] = "own"]
  /\ phase' = [phase EXCEPT ![t] = "body"]
  /\ UNCHANGED <<sleepLeft, boost, lastSelected, struck, cpuVars>>

(* The critical section of PrepareUserTransitionScaffold.                  *)
PrepareUser(t) ==
  /\ Executing(Creator)
  /\ t \in UserTasks
  /\ userState[t] = "created"
  /\ state' = [state EXCEPT ![t] = "blocked"]
  /\ sleepLeft' = [sleepLeft EXCEPT ![t] = NoWake]
  /\ waited' = [waited EXCEPT ![t] = 0]
  /\ quantum' = [quantum EXCEPT ![t] = QuantumTicks]
  /\ userState' = [userState EXCEPT ![t] = "prepared"]
  /\ UNCHANGED <<boost, lastSelected, context, phase, struck, cpuVars>>

(* MarkUserTransitionScaffoldLive, once the UserTransition stages are done. *)
MarkLive(t) ==
  /\ Executing(Creator)
  /\ t \in UserTasks
  /\ userState[t] = "prepared"
  /\ state[t] = "blocked"
  /\ state' = [state EXCEPT ![t] = "ready"]
  /\ waited' = [waited EXCEPT ![t] = 0]
  /\ boost' = [boost EXCEPT ![t] = LiveResumeBoost]
  /\ sleepLeft' = [sleepLeft EXCEPT ![t] = NoWake]
  /\ quantum' = [quantum EXCEPT ![t] = QuantumTicks]
  /\ userState' = [userState EXCEPT ![t] = "live"]
  /\ UNCHANGED <<lastSelected, context, phase, struck, cpuVars>>

-----------------------------------------------------------------------------
(* The timer interrupt: LosKernelSchedulerOnTimerTick, then                *)
(* LosKernelSchedulerPreemptIfNeededFromInterrupt.                         *)

TickPossible ==
  CASE cpu = Scheduler -> /\ loopPc = "switch" => "dispatch" \in Windows
                          /\ loopPc = "return" => "return" \in Windows
    [] cpu \in Tasks -> phase[cpu] = "leaving" => "switch" \in Windows
    [] OTHER -> FALSE

(* Only a running current task is charged for the tick.                    *)
Charged == IF inScheduler \/ current = InvalidTask THEN {}
           ELSE {t \in {current} : state[t] = "running"}

(* Mutant of QuantumAfterTick: decremented without the test for zero.      *)
QuantumUnderflows ==
  [t \in Tasks |-> IF t \in Charged THEN quantum[t] - 1 ELSE quantum[t]]

QuantumAfterTick ==
  [t \in Tasks |-> IF t \in Charged /\ quantum[t] > 0 THEN quantum[t] - 1 ELSE quantum[t]]

PendingAfterTick ==
  reschedulePending \/ \E t \in Charged : QuantumAfterTick[t] = 0

(* Mutant of DeferredUser: the deferral applies to every running task.     *)
DeferredAnyTask(t) == state[t] = "running"

DeferredUser(t) == LiveUser(t) /\ state[t] = "running"

(* Mutant of Preempted: without the test of the state, a task that has     *)
(* made itself READY is taken from the processor on its way out.           *)
PreemptedInAnyState ==
  IF inScheduler \/ ~PendingAfterTick \/ current = InvalidTask THEN {}
  ELSE {t \in {current} : ~DeferredUser(t)}

(* The task PreemptIfNeededFromInterrupt switches away from, if any.  Its  *)
(* context receives the interrupted stack.                                 *)
Preempted ==
  IF inScheduler \/ ~PendingAfterTick \/ current = InvalidTask THEN {}
  ELSE {t \in {current} : /\ ~DeferredUser(t)
                          /\ StateAfterTick[t] \in {"running", "blocked", "terminated"}}

ClockTick ==
  /\ sleepLeft' = SleepLeftAfterTick
  /\ boost' = BoostAfterTick
  /\ quantum' = QuantumAfterTick
  /\ reschedulePending' = PendingAfterTick
  /\ UNCHANGED <<userState, lastSelected, phase, inScheduler, current>>

TickWithoutSwitch ==
  /\ TickPossible
  /\ Preempted = {}
  /\ ClockTick
  /\ state' = StateAfterTick
  /\ waited' = WaitedAfterTick
  /\ UNCHANGED <<context, struck, cpu, loopPc>>

(* Mutant of PreemptedState: the preempted task is not made READY.         *)
PreemptedStaysRunning == StateAfterTick

PreemptedState ==
  [t \in Tasks |->
     IF t \in Preempted /\ state[t] = "running" THEN "ready" ELSE StateAfterTick[t]]

(* The tick interrupted the thread on its own stack: in its own code, or   *)
(* in the "switch" window, on its way out.                                 *)
TickPreemptsThread ==
  /\ TickPossible
  /\ cpu \in Preempted
  /\ ClockTick
  /\ state' = PreemptedState
  /\ waited' = WaitedAfterTick
  /\ context' = [context EXCEPT ![cpu] = "own"]
  /\ struck' = IF phase[cpu] = "leaving" THEN struck \cup {cpu} ELSE struck
  /\ cpu' = Scheduler
  /\ loopPc' = "return"

(* The tick interrupted the scheduler's stack.  The current task's context *)
(* is overwritten with a place in that stack, and the scheduler's context  *)
(* is loaded: depending on how far the switch had come it resumes the loop *)
(* after its call, or follows a return address the interrupt overwrote.    *)
TickPreemptsScheduler ==
  /\ TickPossible
  /\ cpu = Scheduler
  /\ Preempted # {}
  /\ ClockTick
  /\ state' = PreemptedState
  /\ waited' = WaitedAfterTick
  /\ context' = [t \in Tasks |-> IF t \in Preempted THEN "scheduler" ELSE context[t]]
  /\ struck' = struck \cup Preempted
  /\ cpu' \in {Scheduler, Lost}
  /\ loopPc' = "return"

TimerTick == TickWithoutSwitch \/ TickPreemptsThread \/ TickPreemptsScheduler

-----------------------------------------------------------------------------

LoopStep ==
  \/ Clean
  \/ \E t \in Tasks : Select(t)
  \/ LeaveLoop
  \/ SwitchToThread
  \/ ReturnToLoop

CallsOut(t) == Yield(t) \/ Sleep(t) \/ Terminate(t)

ThreadStep(t) == CallsOut(t) \/ LeaveThread(t)

LifecycleStep == \E t \in Tasks : Create(t) \/ PrepareUser(t) \/ MarkLive(t)

ProgramStep ==
  \/ LoopStep
  \/ \E t \in Tasks : ThreadStep(t) \/ UserTrap(t)
  \/ LifecycleStep

Next == ProgramStep \/ TimerTick

Spec == Init /\ [][Next]_vars

-----------------------------------------------------------------------------
(* Safety.                                                                 *)

(* The variables keep the ranges of the fields they stand for; in          *)
(* particular no unsigned counter is decremented below zero.               *)
TypeOK ==
  /\ state \in [Tasks -> TaskStates]
  /\ sleepLeft \in [Tasks -> Nat \cup {NoWake}]
  /\ waited \in [Tasks -> 0 .. WaitCap]
  /\ boost \in [Tasks -> {0, WakeResumeBoost, LiveResumeBoost}]
  /\ userState \in [Tasks -> UserStates]
  /\ lastSelected \in Tasks \cup {InvalidTask}
  /\ quantum \in [Tasks -> Nat]
  /\ context \in [Tasks -> {"own", "scheduler"}]
  /\ phase \in [Tasks -> {"body", "leaving"}]
  /\ struck \subseteq Tasks
  /\ cpu \in Tasks \cup {Scheduler, Lost}
  /\ loopPc \in LoopSteps
  /\ inScheduler \in BOOLEAN
  /\ current \in Tasks \cup {InvalidTask}
  /\ reschedulePending \in BOOLEAN

(* The thread on the processor is the one the scheduler believes to run:   *)
(* it is the current task, InScheduler is clear, its slot is not reusable, *)
(* and while it executes its own code its state is RUNNING.                *)
ExecutingTaskIsCurrent ==
  \A t \in Tasks :
    cpu = t => /\ current = t
               /\ ~inScheduler
               /\ state[t] # "unused"
               /\ phase[t] = "body" => state[t] = "running"

(* A task marked RUNNING is the current one.  Any other is stranded, since *)
(* neither the wake pass nor the selection ever looks at a RUNNING task;   *)
(* this can only happen to a task that a tick struck in a window.          *)
NoStrandedTask ==
  \A t \in Tasks : state[t] = "running" => t = current \/ t \in struck

(* The context of a task always lies in that task's own stack, so loading  *)
(* it resumes the task where it stopped.                                   *)
ContextPreserved ==
  cpu # Lost /\ \A t \in Tasks : state[t] # "unused" => context[t] = "own"

(* A kernel thread never executes its own code with its quantum used up or *)
(* a reschedule request outstanding: the tick that brings this about also  *)
(* takes the processor away.                                               *)
PreemptionIsPrompt ==
  \A t \in Tasks :
    Kernel(t) /\ Executing(t) => ~reschedulePending /\ quantum[t] > 0

(* Selection never comes up empty, and in particular the preference for    *)
(* woken tasks never excludes every task that could run: no user task that *)
(* is not live has a pending wake.  Otherwise the kernel halts or takes    *)
(* the idle task in a state that is not READY.                             *)
SelectionNeverEmpty ==
  cpu = Scheduler /\ loopPc = "select" => Candidates # {}

(* A thread that sleeps for n ticks wakes at the n-th tick, neither sooner *)
(* nor later: not when it is preempted on its way out, nor when the        *)
(* lifecycle thread releases tasks that are blocked without a wake time.   *)
WakesOnTime ==
  [][\A t \in Tasks :
       state[t] = "blocked" /\ sleepLeft[t] # NoWake =>
         (state'[t] # "blocked" <=> sleepLeft[t] = 1 /\ sleepLeft'[t] = NoWake)]_vars

(* The dispatcher keeps the promises of ThreadService: the loop, the       *)
(* quanta, the wake passes and the saved contexts implement one processor  *)
(* granted to one thread at a time and sleeps that end on time.  What a    *)
(* tick in a window breaks is confined to the task it struck, until the    *)
(* processor is switched to that task.                                     *)
Service == INSTANCE ThreadService WITH
  Threads <- Tasks, BootThreads <- BootTasks, Naps <- SleepLengths,
  status <- state, alarm <- sleepLeft, forsaken <- struck,
  machine <- IF cpu = Lost THEN "wrecked" ELSE "works"

ServesThreads == Service!ServiceSpec

-----------------------------------------------------------------------------
(* The inductive invariants behind these properties.                       *)

(* Who has the processor, for each place in the loop.                      *)
OwnerInv ==
  /\ cpu \in Tasks =>
       /\ current = cpu /\ ~inScheduler /\ loopPc = "switch"
       /\ state[cpu] # "unused"
       /\ phase[cpu] = "body" => state[cpu] = "running"
  /\ cpu = Scheduler /\ loopPc \in {"clean", "select"} =>
       current = InvalidTask /\ inScheduler
  /\ cpu = Scheduler /\ loopPc \in {"dispatch", "switch"} =>
       /\ current \in Tasks
       /\ state[current] = "running"
       /\ inScheduler <=> loopPc = "dispatch"

(* A kernel task that is about to run or runs its own code has time left.  *)
HasTime(t) == Kernel(t) => ~reschedulePending /\ quantum[t] > 0

QuantumInv ==
  /\ cpu = Scheduler /\ loopPc \in {"dispatch", "switch"} => HasTime(current)
  /\ \A t \in Tasks : Executing(t) => HasTime(t)

(* Only a blocked task has a wake time, never a user task, and a wake time *)
(* lies in the future.                                                     *)
SleepInv ==
  \A t \in Tasks :
    /\ state[t] = "blocked" => sleepLeft[t] # 0
    /\ state[t] # "blocked" \/ t \in UserTasks => sleepLeft[t] = NoWake

(* A user task that is not live is where its last transition left it, and  *)
(* the idle task can always run.                                           *)
StationInv ==
  /\ \A t \in UserTasks :
       /\ userState[t] = "created" => state[t] = "ready"
       /\ userState[t] = "prepared" => state[t] = "blocked"
       /\ userState[t] = "absent" => state[t] = "unused"
  /\ state[IdleTask] \in {"ready", "running"}

(* No user task has a pending wake unless it is live.                      *)
BoostInv == \A t \in UserTasks : userState[t] # "live" => boost[t] = 0

(* The idle task never gives up the processor, so that it is not stranded. *)
IdleInv ==
  /\ phase[IdleTask] = "body"
  /\ state[IdleTask] = "running" => current = IdleTask /\ loopPc # "return"

(* What an interrupt in one of the windows leaves alone: every task but    *)
(* the one it struck is whole.                                             *)
Whole(t) ==
  /\ state[t] = "running" => t = current /\ ~(cpu = Scheduler /\ loopPc = "return")
  /\ phase[t] = "leaving" => cpu = t /\ state[t] # "running"
  /\ context[t] = "own"

UnbrokenInv == \A t \in Tasks \ struck : state[t] # "unused" => Whole(t)

=============================================================================
