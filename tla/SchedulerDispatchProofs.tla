----------------------- MODULE SchedulerDispatchProofs -----------------------
(***************************************************************************)
(* Proofs about SchedulerDispatch, for every number of tasks, priority,    *)
(* quantum and sleep length, whatever windows are open.                    *)
(***************************************************************************)
EXTENDS SchedulerDispatch, TLAPS

(* What the proofs use of the constants.                                   *)
LEMMA ConstantFacts ==
  /\ Tasks \subseteq Int
  /\ IdleTask \in Tasks /\ Creator \in Tasks
  /\ IdleTask \notin UserTasks /\ Creator \notin UserTasks
  /\ IdleTask \in BootTasks /\ Creator \in BootTasks
  /\ UserTasks \subseteq Tasks
  /\ BootTasks \cap (UserTasks \cup ExitingTasks) = {}
  /\ ExitingTasks \cap UserTasks = {}
  /\ SleepLengths \in [Tasks -> SUBSET Nat] /\ SleepLengths[IdleTask] = {}
  /\ QuantumTicks \in Nat /\ QuantumTicks > 0
  /\ WaitCap \in Nat
  /\ Scheduler \notin Tasks /\ Lost \notin Tasks /\ InvalidTask \notin Tasks
BY TableAssumption, PolicyAssumption, DispatchAssumption
   DEF Tasks, Scheduler, Lost, InvalidTask

(***************************************************************************)
(* Type correctness.                                                       *)
(***************************************************************************)
LEMMA InitTypeOK == Init => TypeOK
<1> SUFFICES ASSUME Init
             PROVE  TypeOK
  OBVIOUS
<1>1. /\ state \in [Tasks -> TaskStates]
      /\ quantum \in [Tasks -> Nat]
  BY ConstantFacts DEF Init, TaskStates
<1>2. /\ sleepLeft \in [Tasks -> Nat \cup {NoWake}]
      /\ waited \in [Tasks -> 0 .. WaitCap]
      /\ boost \in [Tasks -> {0, WakeResumeBoost, LiveResumeBoost}]
      /\ userState \in [Tasks -> UserStates]
      /\ context \in [Tasks -> {"own", "scheduler"}]
      /\ phase \in [Tasks -> {"body", "leaving"}]
  BY ConstantFacts DEF Init, UserStates
<1>3. QED BY <1>1, <1>2 DEF Init, TypeOK, LoopSteps

LEMMA TickTypes ==
  ASSUME TypeOK
  PROVE  /\ StateAfterTick \in [Tasks -> TaskStates]
         /\ SleepLeftAfterTick \in [Tasks -> Nat \cup {NoWake}]
         /\ WaitedAfterTick \in [Tasks -> 0 .. WaitCap]
         /\ BoostAfterTick \in [Tasks -> {0, WakeResumeBoost, LiveResumeBoost}]
         /\ QuantumAfterTick \in [Tasks -> Nat]
         /\ PendingAfterTick \in BOOLEAN
<1>1. StateAfterTick \in [Tasks -> TaskStates]
  BY DEF TypeOK, StateAfterTick, TaskStates
<1>2. SleepLeftAfterTick \in [Tasks -> Nat \cup {NoWake}]
  BY DEF TypeOK, SleepLeftAfterTick, NoWake
<1>3. WaitedAfterTick \in [Tasks -> 0 .. WaitCap]
  BY ConstantFacts DEF TypeOK, WaitedAfterTick, Least
<1>4. BoostAfterTick \in [Tasks -> {0, WakeResumeBoost, LiveResumeBoost}]
  BY DEF TypeOK, BoostAfterTick
<1>5. QuantumAfterTick \in [Tasks -> Nat]
  BY DEF TypeOK, QuantumAfterTick
<1>6. PendingAfterTick \in BOOLEAN
  BY DEF TypeOK, PendingAfterTick
<1>7. QED BY <1>1, <1>2, <1>3, <1>4, <1>5, <1>6

LEMMA StepTypeOK == TypeOK /\ [Next]_vars => TypeOK'
<1> SUFFICES ASSUME TypeOK, [Next]_vars
             PROVE  TypeOK'
  OBVIOUS
<1> USE ConstantFacts DEF TypeOK, TaskStates, UserStates, LoopSteps
<1>1. CASE Clean
  <2>1. struck' \subseteq Tasks
    BY <1>1 DEF Clean
  <2>2. QED BY <1>1, <2>1 DEF Clean, NoWake
<1>2. ASSUME NEW t \in Tasks, Select(t)
      PROVE  TypeOK'
  <2>1. ResumeQuantum(t) \in Nat
    BY DEF ResumeQuantum, WakeResumeBoost, LiveResumeBoost
  <2>2. quantum' \in [Tasks -> Nat]
    BY <1>2, <2>1 DEF Select
  <2>3. /\ state' \in [Tasks -> TaskStates]
        /\ waited' \in [Tasks -> 0 .. WaitCap]
        /\ boost' \in [Tasks -> {0, WakeResumeBoost, LiveResumeBoost}]
    BY <1>2 DEF Select
  <2>4. QED BY <1>2, <2>2, <2>3 DEF Select
<1>3. CASE LeaveLoop
  BY <1>3 DEF LeaveLoop, taskVars, tableVars
<1>4. CASE SwitchToThread
  BY <1>4 DEF SwitchToThread, taskVars, tableVars, Scheduler, InvalidTask
<1>5. CASE ReturnToLoop
  BY <1>5 DEF ReturnToLoop, taskVars, tableVars
<1>6. ASSUME NEW t \in Tasks, Yield(t)
      PROVE  TypeOK'
  BY <1>6 DEF Yield
<1>7. ASSUME NEW t \in Tasks, Sleep(t)
      PROVE  TypeOK'
  BY <1>7 DEF Sleep
<1>8. ASSUME NEW t \in Tasks, Terminate(t)
      PROVE  TypeOK'
  BY <1>8 DEF Terminate
<1>9. ASSUME NEW t \in Tasks, LeaveThread(t)
      PROVE  TypeOK'
  BY <1>9 DEF LeaveThread, tableVars
<1>10. ASSUME NEW t \in Tasks, UserTrap(t)
       PROVE  TypeOK'
  BY <1>10 DEF UserTrap, NoWake
<1>11. ASSUME NEW t \in Tasks, Create(t)
       PROVE  TypeOK'
  BY <1>11 DEF Create, cpuVars
<1>12. ASSUME NEW t \in Tasks, PrepareUser(t)
       PROVE  TypeOK'
  BY <1>12 DEF PrepareUser, cpuVars, NoWake
<1>13. ASSUME NEW t \in Tasks, MarkLive(t)
       PROVE  TypeOK'
  BY <1>13 DEF MarkLive, cpuVars, NoWake
<1>14. CASE TickWithoutSwitch
  BY <1>14, TickTypes DEF TickWithoutSwitch, ClockTick
<1>15. PreemptedState \in [Tasks -> TaskStates]
  BY TickTypes DEF PreemptedState
<1>16. CASE TickPreemptsThread
  <2>1. cpu \in Tasks
    BY <1>16 DEF TickPreemptsThread, Preempted
  <2>2. QED BY <1>15, <1>16, <2>1, TickTypes DEF TickPreemptsThread, ClockTick
<1>17. CASE TickPreemptsScheduler
  <2>1. struck' \subseteq Tasks
    BY <1>17 DEF TickPreemptsScheduler, Preempted, InvalidTask
  <2>2. QED BY <1>15, <1>17, <2>1, TickTypes DEF TickPreemptsScheduler, ClockTick
<1>18. CASE UNCHANGED vars
  BY <1>18 DEF vars, tableVars
<1>19. QED
  BY <1>1, <1>2, <1>3, <1>4, <1>5, <1>6, <1>7, <1>8, <1>9, <1>10, <1>11, <1>12,
     <1>13, <1>14, <1>16, <1>17, <1>18
     DEF Next, ProgramStep, LoopStep, ThreadStep, CallsOut, LifecycleStep, TimerTick

(* The fields keep their ranges, and no unsigned counter wraps, in every   *)
(* behaviour of the dispatcher.                                            *)
THEOREM TypeCorrect == Spec => []TypeOK
<1>1. Init => TypeOK
  BY InitTypeOK
<1>2. TypeOK /\ [Next]_vars => TypeOK'
  BY StepTypeOK
<1>3. QED BY <1>1, <1>2, PTL DEF Spec

(***************************************************************************)
(* Who has the processor.                                                  *)
(***************************************************************************)

(* A tick makes blocked tasks ready and changes no other state; what it    *)
(* preempts is the current task, outside the scheduler.                    *)
LEMMA TickStates ==
  ASSUME TypeOK
  PROVE  /\ \A t \in Tasks : StateAfterTick[t] # state[t] =>
                state[t] = "blocked" /\ sleepLeft[t] = 1 /\ StateAfterTick[t] = "ready"
         /\ \A t \in Tasks : PreemptedState[t] # StateAfterTick[t] =>
                t = current /\ state[t] = "running" /\ PreemptedState[t] = "ready"
         /\ Preempted \subseteq Tasks
         /\ Preempted # {} => ~inScheduler /\ current \in Tasks /\ Preempted = {current}
<1>1. \A t \in Tasks : StateAfterTick[t] # state[t] =>
        state[t] = "blocked" /\ sleepLeft[t] = 1 /\ StateAfterTick[t] = "ready"
  BY DEF TypeOK, StateAfterTick, DueTasks
<1>2. Preempted \subseteq {current}
  BY DEF Preempted
<1>3. \A t \in Tasks : PreemptedState[t] # StateAfterTick[t] =>
        t = current /\ state[t] = "running" /\ PreemptedState[t] = "ready"
  BY <1>2 DEF TypeOK, PreemptedState
<1>4. Preempted # {} => ~inScheduler /\ current \in Tasks /\ Preempted = {current}
  BY <1>2 DEF Preempted, TypeOK
<1>5. QED BY <1>1, <1>2, <1>3, <1>4

LEMMA InitOwner == Init => OwnerInv
BY ConstantFacts DEF Init, OwnerInv

LEMMA StepOwner == TypeOK /\ OwnerInv /\ [Next]_vars => OwnerInv'
<1> SUFFICES ASSUME TypeOK, OwnerInv, [Next]_vars
             PROVE  OwnerInv'
  OBVIOUS
<1> USE ConstantFacts DEF OwnerInv
<1>1. CASE Clean
  BY <1>1 DEF Clean, TypeOK
<1>2. ASSUME NEW t \in Tasks, Select(t)
      PROVE  OwnerInv'
  BY <1>2 DEF Select, TypeOK
<1>3. CASE LeaveLoop
  BY <1>3 DEF LeaveLoop, taskVars, tableVars, TypeOK
<1>4. CASE SwitchToThread
  BY <1>4 DEF SwitchToThread, taskVars, tableVars, TypeOK, Scheduler, Lost, Tasks
<1>5. CASE ReturnToLoop
  BY <1>5 DEF ReturnToLoop, taskVars, tableVars, TypeOK
<1>6. ASSUME NEW t \in Tasks, Yield(t)
      PROVE  OwnerInv'
  BY <1>6 DEF Yield, Executing, TypeOK
<1>7. ASSUME NEW t \in Tasks, Sleep(t)
      PROVE  OwnerInv'
  BY <1>7 DEF Sleep, Executing, TypeOK
<1>8. ASSUME NEW t \in Tasks, Terminate(t)
      PROVE  OwnerInv'
  BY <1>8 DEF Terminate, Executing, TypeOK
<1>9. ASSUME NEW t \in Tasks, LeaveThread(t)
      PROVE  OwnerInv'
  BY <1>9 DEF LeaveThread, tableVars, TypeOK
<1>10. ASSUME NEW t \in Tasks, UserTrap(t)
       PROVE  OwnerInv'
  BY <1>10 DEF UserTrap, Executing, TypeOK
<1>11. ASSUME NEW t \in Tasks, Create(t)
       PROVE  OwnerInv'
  BY <1>11 DEF Create, Executing, cpuVars, TypeOK
<1>12. ASSUME NEW t \in Tasks, PrepareUser(t)
       PROVE  OwnerInv'
  BY <1>12 DEF PrepareUser, Executing, cpuVars, TypeOK
<1>13. ASSUME NEW t \in Tasks, MarkLive(t)
       PROVE  OwnerInv'
  BY <1>13 DEF MarkLive, Executing, cpuVars, TypeOK
<1>14. CASE TickWithoutSwitch
  BY <1>14, TickStates DEF TickWithoutSwitch, ClockTick, TypeOK
<1>15. CASE TickPreemptsThread
  BY <1>15 DEF TickPreemptsThread
<1>16. CASE TickPreemptsScheduler
  BY <1>16 DEF TickPreemptsScheduler
<1>17. CASE UNCHANGED vars
  BY <1>17 DEF vars, tableVars
<1>18. QED
  BY <1>1, <1>2, <1>3, <1>4, <1>5, <1>6, <1>7, <1>8, <1>9, <1>10, <1>11, <1>12,
     <1>13, <1>14, <1>15, <1>16, <1>17
     DEF Next, ProgramStep, LoopStep, ThreadStep, CallsOut, LifecycleStep, TimerTick

(* Whatever windows are open, the thread on the processor is the one the   *)
(* scheduler believes to run, and it runs with its state RUNNING.          *)
THEOREM ExecutingThreadIsCurrent == Spec => []ExecutingTaskIsCurrent
<1>1. Init => TypeOK /\ OwnerInv
  BY InitTypeOK, InitOwner
<1>2. TypeOK /\ OwnerInv /\ [Next]_vars => (TypeOK /\ OwnerInv)'
  BY StepTypeOK, StepOwner
<1>3. TypeOK /\ OwnerInv => ExecutingTaskIsCurrent
  BY DEF OwnerInv, ExecutingTaskIsCurrent
<1>4. QED BY <1>1, <1>2, <1>3, PTL DEF Spec

(***************************************************************************)
(* Preemption is prompt.                                                   *)
(***************************************************************************)

(* A tick that takes the processor from nobody leaves a running kernel     *)
(* task with time, if it had any.                                          *)
LEMMA TickLeavesTime ==
  ASSUME TypeOK, NEW t \in Tasks, t = current, state[t] = "running",
         HasTime(t), Preempted = {}
  PROVE  Kernel(t) => ~PendingAfterTick /\ QuantumAfterTick[t] > 0
<1> SUFFICES ASSUME Kernel(t)
             PROVE  ~PendingAfterTick /\ QuantumAfterTick[t] > 0
  OBVIOUS
<1> USE ConstantFacts
<1>1. ~reschedulePending /\ quantum[t] > 0 /\ quantum[t] \in Nat
  BY DEF HasTime, TypeOK
<1>2. CASE inScheduler
  <2>1. Charged = {}
    BY <1>2 DEF Charged
  <2>2. QED BY <1>1, <2>1 DEF QuantumAfterTick, PendingAfterTick
<1>3. CASE ~inScheduler
  <2>1. ~DeferredUser(t)
    BY DEF DeferredUser, LiveUser, Kernel
  <2>2. StateAfterTick[t] = "running"
    BY TickStates
  <2>3. ~PendingAfterTick
    BY <1>3, <2>1, <2>2 DEF Preempted
  <2>4. t \in Charged
    BY <1>3 DEF Charged
  <2>5. QED BY <1>1, <2>3, <2>4 DEF PendingAfterTick, QuantumAfterTick
<1>4. QED BY <1>2, <1>3

LEMMA StepQuantum == TypeOK /\ OwnerInv /\ QuantumInv /\ [Next]_vars => QuantumInv'
<1> SUFFICES ASSUME TypeOK, OwnerInv, QuantumInv, [Next]_vars
             PROVE  QuantumInv'
  OBVIOUS
<1> USE ConstantFacts DEF QuantumInv, HasTime, Executing
<1>1. CASE Clean
  BY <1>1 DEF Clean, TypeOK
<1>2. ASSUME NEW t \in Tasks, Select(t)
      PROVE  QuantumInv'
  <2>1. ResumeQuantum(t) > 0
    BY DEF ResumeQuantum, TypeOK, WakeResumeBoost, LiveResumeBoost
  <2>2. quantum'[t] > 0 /\ ~reschedulePending' /\ current' = t /\ cpu' = Scheduler
    BY <1>2, <2>1 DEF Select, TypeOK
  <2>3. QED BY <2>2
<1>3. CASE LeaveLoop
  BY <1>3 DEF LeaveLoop, taskVars, tableVars, TypeOK
<1>4. CASE SwitchToThread
  BY <1>4 DEF SwitchToThread, taskVars, tableVars, OwnerInv
<1>5. CASE ReturnToLoop
  BY <1>5 DEF ReturnToLoop, taskVars, tableVars
<1>6. ASSUME NEW t \in Tasks, Yield(t)
      PROVE  QuantumInv'
  BY <1>6 DEF Yield, TypeOK
<1>7. ASSUME NEW t \in Tasks, Sleep(t)
      PROVE  QuantumInv'
  BY <1>7 DEF Sleep, TypeOK
<1>8. ASSUME NEW t \in Tasks, Terminate(t)
      PROVE  QuantumInv'
  BY <1>8 DEF Terminate, TypeOK
<1>9. ASSUME NEW t \in Tasks, LeaveThread(t)
      PROVE  QuantumInv'
  BY <1>9 DEF LeaveThread
<1>10. ASSUME NEW t \in Tasks, UserTrap(t)
       PROVE  QuantumInv'
  BY <1>10 DEF UserTrap
<1>11. ASSUME NEW t \in Tasks, Create(t)
       PROVE  QuantumInv'
  BY <1>11 DEF Create, cpuVars, TypeOK, OwnerInv
<1>12. ASSUME NEW t \in Tasks, PrepareUser(t)
       PROVE  QuantumInv'
  BY <1>12 DEF PrepareUser, cpuVars, TypeOK, OwnerInv
<1>13. ASSUME NEW t \in Tasks, MarkLive(t)
       PROVE  QuantumInv'
  BY <1>13 DEF MarkLive, cpuVars, TypeOK, OwnerInv
<1>14. CASE TickWithoutSwitch
  <2>1. Preempted = {} /\ cpu' = cpu /\ loopPc' = loopPc /\ current' = current
        /\ phase' = phase /\ quantum' = QuantumAfterTick
        /\ reschedulePending' = PendingAfterTick
    BY <1>14 DEF TickWithoutSwitch, ClockTick
  <2>2. ASSUME cpu = Scheduler, loopPc \in {"dispatch", "switch"}
        PROVE  HasTime(current)'
    BY <2>1, <2>2, TickLeavesTime DEF OwnerInv, Kernel
  <2>3. ASSUME NEW t \in Tasks, Executing(t)
        PROVE  HasTime(t)'
    BY <2>1, <2>3, TickLeavesTime DEF OwnerInv, Kernel
  <2>4. QED BY <2>1, <2>2, <2>3
<1>15. CASE TickPreemptsThread
  BY <1>15 DEF TickPreemptsThread
<1>16. CASE TickPreemptsScheduler
  BY <1>16 DEF TickPreemptsScheduler
<1>17. CASE UNCHANGED vars
  BY <1>17 DEF vars, tableVars
<1>18. QED
  BY <1>1, <1>2, <1>3, <1>4, <1>5, <1>6, <1>7, <1>8, <1>9, <1>10, <1>11, <1>12,
     <1>13, <1>14, <1>15, <1>16, <1>17
     DEF Next, ProgramStep, LoopStep, ThreadStep, CallsOut, LifecycleStep, TimerTick

(* Whatever windows are open, a kernel thread never goes on executing with *)
(* its quantum used up or a reschedule request outstanding.                *)
THEOREM PromptPreemption == Spec => []PreemptionIsPrompt
<1>1. Init => TypeOK /\ OwnerInv /\ QuantumInv
  <2>1. Init => QuantumInv
    BY ConstantFacts DEF Init, QuantumInv, Executing
  <2>2. QED BY <2>1, InitTypeOK, InitOwner
<1>2. TypeOK /\ OwnerInv /\ QuantumInv /\ [Next]_vars => (TypeOK /\ OwnerInv /\ QuantumInv)'
  BY StepTypeOK, StepOwner, StepQuantum
<1>3. QuantumInv => PreemptionIsPrompt
  BY DEF QuantumInv, HasTime, PreemptionIsPrompt
<1>4. QED BY <1>1, <1>2, <1>3, PTL DEF Spec

(***************************************************************************)
(* Sleepers and stationary tasks.                                          *)
(***************************************************************************)

(* Whatever is selected can run, even when the fallback was taken.         *)
LEMMA SelectedTask ==
  ASSUME StationInv, NEW t \in Selection
  PROVE  /\ state[t] \in {"ready", "running"}
         /\ t \in UserTasks => userState[t] = "live"
<1>1. CASE t \in Candidates
  BY <1>1 DEF Candidates, Eligible
<1>2. CASE t = IdleTask
  BY <1>2, ConstantFacts DEF StationInv
<1>3. QED
  BY <1>1, <1>2 DEF Selection, SelectableTasks, Foremost, FallbackTasks

LEMMA StepSleep == TypeOK /\ OwnerInv /\ SleepInv /\ StationInv /\ [Next]_vars => SleepInv'
<1> SUFFICES ASSUME TypeOK, OwnerInv, SleepInv, StationInv, [Next]_vars
             PROVE  SleepInv'
  OBVIOUS
<1> USE ConstantFacts DEF SleepInv, TypeOK
<1>1. CASE Clean
  BY <1>1 DEF Clean
<1>2. ASSUME NEW t \in Tasks, Select(t)
      PROVE  SleepInv'
  BY <1>2, SelectedTask DEF Select
<1>3. CASE LeaveLoop
  BY <1>3 DEF LeaveLoop, taskVars, tableVars
<1>4. CASE SwitchToThread
  BY <1>4 DEF SwitchToThread, taskVars, tableVars
<1>5. CASE ReturnToLoop
  BY <1>5 DEF ReturnToLoop, taskVars, tableVars
<1>6. ASSUME NEW t \in Tasks, Yield(t)
      PROVE  SleepInv'
  BY <1>6 DEF Yield, Executing, OwnerInv
<1>7. ASSUME NEW t \in Tasks, Sleep(t)
      PROVE  SleepInv'
  BY <1>7 DEF Sleep, Kernel
<1>8. ASSUME NEW t \in Tasks, Terminate(t)
      PROVE  SleepInv'
  BY <1>8 DEF Terminate, Executing, OwnerInv
<1>9. ASSUME NEW t \in Tasks, LeaveThread(t)
      PROVE  SleepInv'
  BY <1>9 DEF LeaveThread, tableVars
<1>10. ASSUME NEW t \in Tasks, UserTrap(t)
       PROVE  SleepInv'
  BY <1>10 DEF UserTrap
<1>11. ASSUME NEW t \in Tasks, Create(t)
       PROVE  SleepInv'
  BY <1>11 DEF Create
<1>12. ASSUME NEW t \in Tasks, PrepareUser(t)
       PROVE  SleepInv'
  BY <1>12 DEF PrepareUser, NoWake
<1>13. ASSUME NEW t \in Tasks, MarkLive(t)
       PROVE  SleepInv'
  BY <1>13 DEF MarkLive
<1>14. ASSUME NEW t \in Tasks
       PROVE  /\ StateAfterTick[t] = "blocked" => SleepLeftAfterTick[t] # 0
              /\ StateAfterTick[t] # "blocked" \/ t \in UserTasks =>
                   SleepLeftAfterTick[t] = NoWake
  BY DEF StateAfterTick, SleepLeftAfterTick, DueTasks, NoWake
<1>15. CASE TickWithoutSwitch
  BY <1>14, <1>15 DEF TickWithoutSwitch, ClockTick
<1>16. ASSUME state' = PreemptedState, sleepLeft' = SleepLeftAfterTick
       PROVE  SleepInv'
  BY <1>14, <1>16, TickStates
<1>17. CASE TickPreemptsThread
  BY <1>16, <1>17 DEF TickPreemptsThread, ClockTick
<1>18. CASE TickPreemptsScheduler
  BY <1>16, <1>18 DEF TickPreemptsScheduler, ClockTick
<1>19. CASE UNCHANGED vars
  BY <1>19 DEF vars, tableVars
<1>20. QED
  BY <1>1, <1>2, <1>3, <1>4, <1>5, <1>6, <1>7, <1>8, <1>9, <1>10, <1>11, <1>12,
     <1>13, <1>15, <1>17, <1>18, <1>19
     DEF Next, ProgramStep, LoopStep, ThreadStep, CallsOut, LifecycleStep, TimerTick

LEMMA StepStation ==
  TypeOK /\ OwnerInv /\ SleepInv /\ StationInv /\ [Next]_vars => StationInv'
<1> SUFFICES ASSUME TypeOK, OwnerInv, SleepInv, StationInv, [Next]_vars
             PROVE  StationInv'
  OBVIOUS
<1> USE ConstantFacts DEF StationInv, TypeOK
<1>1. CASE Clean
  BY <1>1 DEF Clean, Reapable
<1>2. ASSUME NEW t \in Tasks, Select(t)
      PROVE  StationInv'
  <2>1. t \in UserTasks => userState[t] = "live"
    BY <1>2, SelectedTask DEF Select
  <2>2. QED BY <1>2, <2>1 DEF Select
<1>3. CASE LeaveLoop
  BY <1>3 DEF LeaveLoop, taskVars, tableVars
<1>4. CASE SwitchToThread
  BY <1>4 DEF SwitchToThread, taskVars, tableVars
<1>5. CASE ReturnToLoop
  BY <1>5 DEF ReturnToLoop, taskVars, tableVars
<1>6. ASSUME NEW t \in Tasks, Yield(t)
      PROVE  StationInv'
  BY <1>6 DEF Yield, Kernel
<1>7. ASSUME NEW t \in Tasks, Sleep(t)
      PROVE  StationInv'
  BY <1>7 DEF Sleep, Kernel
<1>8. ASSUME NEW t \in Tasks, Terminate(t)
      PROVE  StationInv'
  BY <1>8 DEF Terminate
<1>9. ASSUME NEW t \in Tasks, LeaveThread(t)
      PROVE  StationInv'
  BY <1>9 DEF LeaveThread, tableVars
<1>10. ASSUME NEW t \in Tasks, UserTrap(t)
       PROVE  StationInv'
  BY <1>10 DEF UserTrap
<1>11. ASSUME NEW t \in Tasks, Create(t)
       PROVE  StationInv'
  BY <1>11 DEF Create
<1>12. ASSUME NEW t \in Tasks, PrepareUser(t)
       PROVE  StationInv'
  BY <1>12 DEF PrepareUser
<1>13. ASSUME NEW t \in Tasks, MarkLive(t)
       PROVE  StationInv'
  BY <1>13 DEF MarkLive
<1>14. ASSUME NEW t \in UserTasks
       PROVE  StateAfterTick[t] = state[t]
  BY DEF StateAfterTick, DueTasks, SleepInv, NoWake
<1>15. StateAfterTick[IdleTask] = state[IdleTask]
  BY TickStates
<1>16. CASE TickWithoutSwitch
  BY <1>14, <1>15, <1>16 DEF TickWithoutSwitch, ClockTick
<1>17. ASSUME state' = PreemptedState, userState' = userState
       PROVE  StationInv'
  BY <1>14, <1>15, <1>17, TickStates
<1>18. CASE TickPreemptsThread
  BY <1>17, <1>18 DEF TickPreemptsThread, ClockTick
<1>19. CASE TickPreemptsScheduler
  BY <1>17, <1>19 DEF TickPreemptsScheduler, ClockTick
<1>20. CASE UNCHANGED vars
  BY <1>20 DEF vars, tableVars
<1>21. QED
  BY <1>1, <1>2, <1>3, <1>4, <1>5, <1>6, <1>7, <1>8, <1>9, <1>10, <1>11, <1>12,
     <1>13, <1>16, <1>18, <1>19, <1>20
     DEF Next, ProgramStep, LoopStep, ThreadStep, CallsOut, LifecycleStep, TimerTick

(***************************************************************************)
(* Selection always finds a candidate.                                     *)
(***************************************************************************)

LEMMA StepBoost == TypeOK /\ SleepInv /\ BoostInv /\ [Next]_vars => BoostInv'
<1> SUFFICES ASSUME TypeOK, SleepInv, BoostInv, [Next]_vars
             PROVE  BoostInv'
  OBVIOUS
<1> USE ConstantFacts DEF BoostInv, TypeOK
<1>1. CASE Clean
  BY <1>1 DEF Clean
<1>2. ASSUME NEW t \in Tasks, Select(t)
      PROVE  BoostInv'
  BY <1>2 DEF Select
<1>3. CASE LeaveLoop
  BY <1>3 DEF LeaveLoop, taskVars, tableVars
<1>4. CASE SwitchToThread
  BY <1>4 DEF SwitchToThread, taskVars, tableVars
<1>5. CASE ReturnToLoop
  BY <1>5 DEF ReturnToLoop, taskVars, tableVars
<1>6. ASSUME NEW t \in Tasks, Yield(t)
      PROVE  BoostInv'
  BY <1>6 DEF Yield
<1>7. ASSUME NEW t \in Tasks, Sleep(t)
      PROVE  BoostInv'
  BY <1>7 DEF Sleep
<1>8. ASSUME NEW t \in Tasks, Terminate(t)
      PROVE  BoostInv'
  BY <1>8 DEF Terminate
<1>9. ASSUME NEW t \in Tasks, LeaveThread(t)
      PROVE  BoostInv'
  BY <1>9 DEF LeaveThread, tableVars
<1>10. ASSUME NEW t \in Tasks, UserTrap(t)
       PROVE  BoostInv'
  BY <1>10 DEF UserTrap, Executing
<1>11. ASSUME NEW t \in Tasks, Create(t)
       PROVE  BoostInv'
  BY <1>11 DEF Create, cpuVars
<1>12. ASSUME NEW t \in Tasks, PrepareUser(t)
       PROVE  BoostInv'
  BY <1>12 DEF PrepareUser, cpuVars
<1>13. ASSUME NEW t \in Tasks, MarkLive(t)
       PROVE  BoostInv'
  BY <1>13 DEF MarkLive, cpuVars
<1>14. ASSUME TimerTick
       PROVE  BoostInv'
  <2>1. boost' = BoostAfterTick /\ userState' = userState
    BY <1>14 DEF TimerTick, TickWithoutSwitch, TickPreemptsThread, TickPreemptsScheduler, ClockTick
  <2>2. \A t \in UserTasks : t \notin DueTasks
    BY DEF SleepInv, DueTasks, NoWake
  <2>3. QED BY <2>1, <2>2 DEF BoostAfterTick
<1>15. CASE UNCHANGED vars
  BY <1>15 DEF vars, tableVars
<1>16. QED
  BY <1>1, <1>2, <1>3, <1>4, <1>5, <1>6, <1>7, <1>8, <1>9, <1>10, <1>11, <1>12,
     <1>13, <1>14, <1>15
     DEF Next, ProgramStep, LoopStep, ThreadStep, CallsOut, LifecycleStep

LEMMA StepIdle ==
  TypeOK /\ OwnerInv /\ StationInv /\ IdleInv /\ [Next]_vars => IdleInv'
<1> SUFFICES ASSUME TypeOK, OwnerInv, StationInv, IdleInv, [Next]_vars
             PROVE  IdleInv'
  OBVIOUS
<1> USE ConstantFacts DEF IdleInv, TypeOK
<1>1. CASE Clean
  BY <1>1 DEF Clean
<1>2. ASSUME NEW t \in Tasks, Select(t)
      PROVE  IdleInv'
  BY <1>2 DEF Select, OwnerInv
<1>3. CASE LeaveLoop
  BY <1>3 DEF LeaveLoop, taskVars, tableVars
<1>4. CASE SwitchToThread
  BY <1>4 DEF SwitchToThread, taskVars, tableVars
<1>5. CASE ReturnToLoop
  BY <1>5 DEF ReturnToLoop, taskVars, tableVars
<1>6. ASSUME NEW t \in Tasks, Yield(t)
      PROVE  IdleInv'
  BY <1>6 DEF Yield
<1>7. ASSUME NEW t \in Tasks, Sleep(t)
      PROVE  IdleInv'
  BY <1>7 DEF Sleep
<1>8. ASSUME NEW t \in Tasks, Terminate(t)
      PROVE  IdleInv'
  BY <1>8 DEF Terminate
<1>9. ASSUME NEW t \in Tasks, LeaveThread(t)
      PROVE  IdleInv'
  BY <1>9 DEF LeaveThread, tableVars, OwnerInv
<1>10. ASSUME NEW t \in Tasks, UserTrap(t)
       PROVE  IdleInv'
  BY <1>10 DEF UserTrap, Executing, OwnerInv
<1>11. ASSUME NEW t \in Tasks, Create(t)
       PROVE  IdleInv'
  BY <1>11 DEF Create, cpuVars
<1>12. ASSUME NEW t \in Tasks, PrepareUser(t)
       PROVE  IdleInv'
  BY <1>12 DEF PrepareUser, cpuVars
<1>13. ASSUME NEW t \in Tasks, MarkLive(t)
       PROVE  IdleInv'
  BY <1>13 DEF MarkLive, cpuVars
<1>14. CASE TickWithoutSwitch
  BY <1>14, TickStates DEF TickWithoutSwitch, ClockTick
<1>15. ASSUME Preempted # {}, state' = PreemptedState
       PROVE  state'[IdleTask] = "ready"
  BY <1>15, TickStates DEF PreemptedState, StationInv
<1>16. CASE TickPreemptsThread
  BY <1>15, <1>16 DEF TickPreemptsThread, ClockTick
<1>17. CASE TickPreemptsScheduler
  BY <1>15, <1>17 DEF TickPreemptsScheduler, ClockTick
<1>18. CASE UNCHANGED vars
  BY <1>18 DEF vars, tableVars
<1>19. QED
  BY <1>1, <1>2, <1>3, <1>4, <1>5, <1>6, <1>7, <1>8, <1>9, <1>10, <1>11, <1>12,
     <1>13, <1>14, <1>16, <1>17, <1>18
     DEF Next, ProgramStep, LoopStep, ThreadStep, CallsOut, LifecycleStep, TimerTick

(* Whatever windows are open, the loop never comes to a selection without  *)
(* a candidate: the kernel neither halts nor falls back to a task that is  *)
(* not ready, and the preference for woken tasks always leaves one.        *)
THEOREM SelectionFindsTask == Spec => []SelectionNeverEmpty
<1> DEFINE Inv == TypeOK /\ OwnerInv /\ SleepInv /\ StationInv /\ BoostInv /\ IdleInv
<1>1. Init => Inv
  <2>1. Init => SleepInv /\ StationInv /\ BoostInv /\ IdleInv
    BY ConstantFacts DEF Init, SleepInv, StationInv, BoostInv, IdleInv
  <2>2. QED BY <2>1, InitTypeOK, InitOwner
<1>2. Inv /\ [Next]_vars => Inv'
  BY StepTypeOK, StepOwner, StepSleep, StepStation, StepBoost, StepIdle
<1>3. Inv => SelectionNeverEmpty
  <2> SUFFICES ASSUME Inv, cpu = Scheduler, loopPc = "select"
               PROVE  Candidates # {}
    BY DEF SelectionNeverEmpty
  <2>1. state[IdleTask] = "ready"
    BY ConstantFacts DEF OwnerInv, StationInv, IdleInv
  <2>2. CASE SomeWakePending
    <3>1. PICK t \in Tasks : state[t] = "ready" /\ WakePending(t)
      BY <2>2 DEF SomeWakePending
    <3>2. Eligible(t)
      BY <3>1 DEF BoostInv, WakePending, Eligible
    <3>3. QED BY <3>1, <3>2 DEF Candidates
  <2>3. CASE ~SomeWakePending
    BY <2>1, <2>3, ConstantFacts DEF Candidates, Eligible
  <2>4. QED BY <2>2, <2>3
<1>4. QED BY <1>1, <1>2, <1>3, PTL DEF Spec

(***************************************************************************)
(* What a tick in a window breaks is confined to the task it struck.       *)
(***************************************************************************)

OpenInv == TypeOK /\ OwnerInv /\ SleepInv /\ StationInv /\ IdleInv /\ UnbrokenInv

LEMMA InitOpen == Init => OpenInv
<1> SUFFICES ASSUME Init
             PROVE  OpenInv
  OBVIOUS
<1>1. SleepInv /\ StationInv /\ IdleInv
  BY ConstantFacts DEF Init, SleepInv, StationInv, IdleInv
<1>2. UnbrokenInv
  BY ConstantFacts DEF Init, UnbrokenInv, Whole
<1>3. QED BY <1>1, <1>2, InitTypeOK, InitOwner DEF OpenInv

LEMMA StepUnbroken ==
  ASSUME OpenInv, [Next]_vars
  PROVE  UnbrokenInv'
<1> USE ConstantFacts DEF UnbrokenInv, Whole, TypeOK, OpenInv
<1>1. CASE Clean
  BY <1>1 DEF Clean, Reapable
<1>2. ASSUME NEW t \in Tasks, Select(t)
      PROVE  UnbrokenInv'
  <2>1. \A u \in Tasks \ struck : state[u] # "running"
    BY <1>2 DEF Select, OwnerInv
  <2>2. state[t] # "unused"
    BY <1>2, SelectedTask DEF Select
  <2>3. QED BY <1>2, <2>1, <2>2 DEF Select
<1>3. CASE LeaveLoop
  BY <1>3 DEF LeaveLoop, taskVars, tableVars
<1>4. CASE SwitchToThread
  BY <1>4 DEF SwitchToThread, taskVars, tableVars, OwnerInv
<1>5. CASE ReturnToLoop
  BY <1>5 DEF ReturnToLoop, taskVars, tableVars
<1>6. ASSUME NEW t \in Tasks, Yield(t)
      PROVE  UnbrokenInv'
  BY <1>6 DEF Yield, Executing, OwnerInv
<1>7. ASSUME NEW t \in Tasks, Sleep(t)
      PROVE  UnbrokenInv'
  BY <1>7 DEF Sleep, Executing, OwnerInv
<1>8. ASSUME NEW t \in Tasks, Terminate(t)
      PROVE  UnbrokenInv'
  BY <1>8 DEF Terminate, Executing, OwnerInv
<1>9. ASSUME NEW t \in Tasks, LeaveThread(t)
      PROVE  UnbrokenInv'
  BY <1>9 DEF LeaveThread, tableVars, OwnerInv
<1>10. ASSUME NEW t \in Tasks, UserTrap(t)
       PROVE  UnbrokenInv'
  BY <1>10 DEF UserTrap, Executing, OwnerInv
<1>11. ASSUME NEW t \in Tasks, Create(t)
       PROVE  UnbrokenInv'
  BY <1>11 DEF Create, Executing, cpuVars
<1>12. ASSUME NEW t \in Tasks, PrepareUser(t)
       PROVE  UnbrokenInv'
  BY <1>12 DEF PrepareUser, Executing, cpuVars, StationInv
<1>13. ASSUME NEW t \in Tasks, MarkLive(t)
       PROVE  UnbrokenInv'
  BY <1>13 DEF MarkLive, Executing, cpuVars
<1>14. CASE TickWithoutSwitch
  <2>1. \A t \in Tasks : state'[t] # state[t] => state[t] = "blocked" /\ state'[t] = "ready"
    BY <1>14, TickStates DEF TickWithoutSwitch
  <2>2. QED BY <1>14, <2>1 DEF TickWithoutSwitch, ClockTick
<1>15. CASE TickPreemptsThread
  <2>1. cpu \in Tasks /\ current = cpu /\ cpu \in Preempted
    BY <1>15, TickStates DEF TickPreemptsThread, OwnerInv
  <2>2. \A t \in Tasks : state'[t] # state[t] =>
          state[t] \in {"blocked", "running"} /\ state'[t] = "ready"
    BY <1>15, TickStates DEF TickPreemptsThread
  <2>3. state[cpu] = "running" => state'[cpu] = "ready"
    BY <1>15, <2>1 DEF TickPreemptsThread, PreemptedState
  <2>4. /\ cpu' = Scheduler /\ loopPc' = "return" /\ current' = current /\ phase' = phase
        /\ context' = [context EXCEPT ![cpu] = "own"]
        /\ struck' = IF phase[cpu] = "leaving" THEN struck \cup {cpu} ELSE struck
    BY <1>15 DEF TickPreemptsThread, ClockTick
  <2>5. phase[cpu] = "body" => state[cpu] = "running"
    BY <2>1 DEF OwnerInv
  <2>6. ASSUME NEW t \in Tasks, t \notin struck', state'[t] # "unused"
        PROVE  Whole(t)'
    <3>1. t \notin struck /\ state[t] # "unused"
      BY <2>2, <2>4, <2>6
    <3>2. CASE t = cpu
      BY <2>1, <2>3, <2>4, <2>5, <2>6, <3>1, <3>2
    <3>3. CASE t # cpu
      BY <2>1, <2>2, <2>4, <3>1, <3>3
    <3>4. QED BY <3>2, <3>3
  <2>7. QED BY <2>6
<1>16. CASE TickPreemptsScheduler
  <2>1. Preempted = {current} /\ current \in Tasks
    BY <1>16, TickStates DEF TickPreemptsScheduler
  <2>2. \A t \in Tasks : state'[t] # state[t] =>
          state[t] \in {"blocked", "running"} /\ state'[t] = "ready"
    BY <1>16, TickStates DEF TickPreemptsScheduler
  <2>3. /\ cpu = Scheduler /\ current' = current /\ phase' = phase
        /\ struck' = struck \cup {current}
        /\ \A t \in Tasks \ {current} : context'[t] = context[t]
    BY <1>16, <2>1 DEF TickPreemptsScheduler, ClockTick
  <2>4. ASSUME NEW t \in Tasks, t \notin struck', state'[t] # "unused"
        PROVE  Whole(t)'
    <3>1. t \notin struck /\ state[t] # "unused" /\ t # current
      BY <2>2, <2>3, <2>4
    <3>2. state[t] # "running" /\ phase[t] # "leaving" /\ context[t] = "own"
      BY <2>3, <3>1
    <3>3. QED BY <2>2, <2>3, <3>1, <3>2
  <2>5. QED BY <2>4
<1>17. CASE UNCHANGED vars
  BY <1>17 DEF vars, tableVars
<1>18. QED
  BY <1>1, <1>2, <1>3, <1>4, <1>5, <1>6, <1>7, <1>8, <1>9, <1>10, <1>11, <1>12,
     <1>13, <1>14, <1>15, <1>16, <1>17
     DEF Next, ProgramStep, LoopStep, ThreadStep, CallsOut, LifecycleStep, TimerTick

LEMMA StepOpen ==
  ASSUME OpenInv, [Next]_vars
  PROVE  OpenInv'
BY StepTypeOK, StepOwner, StepSleep, StepStation, StepIdle, StepUnbroken DEF OpenInv

(* Whatever windows are open, a task that is left RUNNING without being    *)
(* the current one has itself been preempted in a window.                  *)
THEOREM NobodyElseStranded == Spec => []NoStrandedTask
<1>1. Init => OpenInv
  BY InitOpen
<1>2. OpenInv /\ [Next]_vars => OpenInv'
  BY StepOpen
<1>3. OpenInv => NoStrandedTask
  BY DEF OpenInv, UnbrokenInv, Whole, NoStrandedTask
<1>4. QED BY <1>1, <1>2, <1>3, PTL DEF Spec

(***************************************************************************)
(* The dispatcher implements ThreadService.                                *)
(***************************************************************************)

(* The state of the machine as ThreadService sees it.                      *)
Machine == IF cpu = Lost THEN "wrecked" ELSE "works"

(* A tick is one of the service: it strikes only a task it stops, or one   *)
(* that is asleep or at its end.                                           *)
LEMMA ServesTick ==
  ASSUME OpenInv, TimerTick
  PROVE  Service!Tick /\ cpu # Lost
<1> USE ConstantFacts DEF OpenInv, TypeOK, Service!NoAlarm, NoWake, Service!Running, Machine
<1>1. Service!Ringing = DueTasks
  BY DEF Service!Ringing, DueTasks
<1>2. /\ sleepLeft' = [t \in Tasks |->
                         IF t \in Service!Ringing \/ sleepLeft[t] = Service!NoAlarm
                         THEN Service!NoAlarm ELSE sleepLeft[t] - 1]
      /\ cpu # Lost
  BY <1>1 DEF TimerTick, TickWithoutSwitch, TickPreemptsThread, TickPreemptsScheduler,
              ClockTick, TickPossible, SleepLeftAfterTick, Scheduler, Lost
<1>3. CASE TickWithoutSwitch
  <2>1. state' = [t \in Tasks |-> IF t \in {} \cup Service!Ringing THEN "ready" ELSE state[t]]
    BY <1>1, <1>3 DEF TickWithoutSwitch, StateAfterTick
  <2>2. struck' = struck \cup {} /\ cpu' = cpu
    BY <1>3 DEF TickWithoutSwitch
  <2>3. QED BY <1>2, <2>1, <2>2 DEF Service!Tick
<1>4. CASE TickPreemptsThread \/ TickPreemptsScheduler
  <2>1. PICK stopped \in SUBSET Service!Running : stopped = Preempted \cap Service!Running
    OBVIOUS
  <2>2. state' = [t \in Tasks |-> IF t \in stopped \cup Service!Ringing THEN "ready" ELSE state[t]]
    <3>1. \A t \in Tasks : t \in stopped <=> t \in Preempted /\ state[t] = "running"
      BY <2>1
    <3>2. QED BY <1>1, <1>4, <3>1
              DEF TickPreemptsThread, TickPreemptsScheduler, PreemptedState, StateAfterTick
  <2>3. /\ Preempted = {current} /\ current \in Tasks
        /\ StateAfterTick[current] \in {"running", "blocked", "terminated"}
    <3>1. Preempted # {}
      BY <1>4 DEF TickPreemptsThread, TickPreemptsScheduler
    <3>2. QED BY <3>1, TickStates DEF Preempted
  <2>4. current \in Service!Exposed(stopped)
    <3>1. StateAfterTick[current] = "running" => current \in stopped
      BY <2>1, <2>3, TickStates
    <3>2. current \notin Service!Ringing
      BY <1>1, <2>3 DEF StateAfterTick
    <3>3. StateAfterTick[current] = state[current]
      BY <1>1, <2>3, <3>2 DEF StateAfterTick
    <3>4. QED BY <2>3, <3>1, <3>2, <3>3 DEF Service!Exposed
  <2>5. PICK victims \in {{}} \cup {{t} : t \in Service!Exposed(stopped)} :
          /\ struck' = struck \cup victims
          /\ cpu' # Lost \/ victims # {}
    <3>1. CASE TickPreemptsThread
      <4>1. cpu = current /\ cpu' # Lost
        BY <2>3, <3>1 DEF TickPreemptsThread, Scheduler, Lost
      <4>2. struck' = struck \cup {} \/ struck' = struck \cup {current}
        BY <3>1, <4>1 DEF TickPreemptsThread
      <4>3. QED BY <2>4, <4>1, <4>2
    <3>2. CASE TickPreemptsScheduler
      <4>1. struck' = struck \cup {current}
        BY <2>3, <3>2 DEF TickPreemptsScheduler
      <4>2. {current} \in {{}} \cup {{t} : t \in Service!Exposed(stopped)}
        BY <2>4
      <4>3. QED BY <4>1, <4>2
    <3>3. QED BY <1>4, <3>1, <3>2
  <2>6. QED BY <1>2, <2>2, <2>5 DEF Service!Tick
<1>5. QED BY <1>3, <1>4 DEF TimerTick

(* Every step of the dispatcher is one of the service, or changes nothing  *)
(* that the service speaks of.                                             *)
LEMMA StepServes ==
  ASSUME OpenInv, OpenInv', [Next]_vars
  PROVE  [Service!ServiceNext]_<<state, sleepLeft, struck, Machine>>
<1> USE ConstantFacts DEF OpenInv, TypeOK, Service!NoAlarm, NoWake, Service!Running, Machine
<1>1. CASE Clean
  <2>1. state' = [t \in Tasks |-> IF state[t] = "terminated" THEN "unused" ELSE state[t]]
    BY <1>1 DEF Clean, Reapable
  <2>2. sleepLeft' = sleepLeft
    BY <1>1 DEF Clean, Reapable, SleepInv
  <2>3. struck' = {t \in struck : state[t] # "terminated"}
    BY <1>1 DEF Clean, Reapable
  <2>4. cpu' = cpu /\ cpu # Lost
    BY <1>1 DEF Clean, Scheduler, Lost
  <2>5. QED BY <2>1, <2>2, <2>3, <2>4 DEF Service!ServiceNext, Service!Reap
<1>2. ASSUME NEW t \in Tasks, Select(t)
      PROVE  Service!Grant(t) /\ cpu # Lost
  <2>1. \A u \in Tasks \ struck : state[u] # "running"
    BY <1>2 DEF Select, OwnerInv, UnbrokenInv, Whole
  <2>2. state[t] = "ready"
    <3>1. t \in Candidates => state[t] = "ready"
      BY DEF Candidates, Eligible
    <3>2. state[IdleTask] = "ready"
      BY <1>2 DEF Select, OwnerInv, IdleInv, StationInv
    <3>3. t \in Candidates \/ t = IdleTask
      BY <1>2 DEF Select, Selection, SelectableTasks, Foremost, FallbackTasks
    <3>4. QED BY <3>1, <3>2, <3>3
  <2>3. Service!Running \subseteq struck
    BY <2>1
  <2>4. /\ state' = [state EXCEPT ![t] = "running"] /\ sleepLeft' = sleepLeft
        /\ struck' = struck /\ cpu' = cpu /\ cpu # Lost
    BY <1>2 DEF Select, Scheduler, Lost
  <2>5. QED BY <2>2, <2>3, <2>4 DEF Service!Grant
<1>3. CASE LeaveLoop
  BY <1>3 DEF LeaveLoop, taskVars, tableVars
<1>4. CASE SwitchToThread
  <2>1. state' = state /\ sleepLeft' = sleepLeft /\ struck' = struck /\ cpu # Lost
    BY <1>4 DEF SwitchToThread, taskVars, tableVars, Scheduler, Lost
  <2>2. current \in Tasks /\ state[current] = "running"
    BY <1>4 DEF SwitchToThread, OwnerInv
  <2>3. CASE context[current] = "own"
    <3>1. cpu' # Lost
      BY <1>4, <2>2, <2>3 DEF SwitchToThread
    <3>2. QED BY <2>1, <3>1
  <2>4. CASE context[current] # "own"
    <3>1. cpu' = Lost
      BY <1>4, <2>4 DEF SwitchToThread
    <3>2. current \in struck
      BY <2>2, <2>4 DEF UnbrokenInv, Whole
    <3>3. Service!Wreck
      BY <2>1, <2>2, <3>1, <3>2 DEF Service!Wreck
    <3>4. QED BY <2>1, <3>3 DEF Service!ServiceNext
  <2>5. QED BY <2>3, <2>4
<1>5. CASE ReturnToLoop
  BY <1>5 DEF ReturnToLoop, taskVars, tableVars
<1>6. ASSUME NEW t \in Tasks, Yield(t)
      PROVE  Service!GiveUp(t) /\ cpu # Lost
  BY <1>6 DEF Yield, Executing, OwnerInv, Service!GiveUp
<1>7. ASSUME NEW t \in Tasks, Sleep(t)
      PROVE  Service!Nap(t) /\ cpu # Lost
  BY <1>7 DEF Sleep, Executing, OwnerInv, Service!Nap
<1>8. ASSUME NEW t \in Tasks, Terminate(t)
      PROVE  Service!Finish(t) /\ cpu # Lost
  BY <1>8 DEF Terminate, Executing, OwnerInv, Service!Finish
<1>9. ASSUME NEW t \in Tasks, LeaveThread(t)
      PROVE  UNCHANGED <<state, sleepLeft, struck, Machine>>
  BY <1>9 DEF LeaveThread, tableVars, Scheduler, Lost
<1>10. ASSUME NEW t \in Tasks, UserTrap(t)
       PROVE  Service!Finish(t) /\ cpu # Lost
  BY <1>10 DEF UserTrap, Executing, OwnerInv, SleepInv, Service!Finish, Scheduler, Lost
<1>11. ASSUME Executing(Creator)
       PROVE  Creator \in Service!Running /\ cpu # Lost
  BY <1>11 DEF Executing, OwnerInv
<1>12. ASSUME NEW t \in Tasks, Create(t)
       PROVE  Service!Start(t) /\ cpu # Lost
  BY <1>11, <1>12 DEF Create, cpuVars, Service!Start
<1>13. ASSUME NEW t \in Tasks, PrepareUser(t)
       PROVE  Service!Hold(t) /\ cpu # Lost
  <2>1. state[t] = "ready" /\ sleepLeft' = sleepLeft /\ t \notin BootTasks
    BY <1>13 DEF PrepareUser, StationInv, SleepInv
  <2>2. QED BY <1>11, <1>13, <2>1 DEF PrepareUser, cpuVars, Service!Hold
<1>14. ASSUME NEW t \in Tasks, MarkLive(t)
       PROVE  Service!Release(t) /\ cpu # Lost
  <2>1. sleepLeft[t] = NoWake /\ sleepLeft' = sleepLeft /\ t \notin BootTasks
    BY <1>14 DEF MarkLive, SleepInv
  <2>2. QED BY <1>11, <1>14, <2>1 DEF MarkLive, cpuVars, Service!Release
<1>15. Service!Ringing = DueTasks
  BY DEF Service!Ringing, DueTasks
<1>16. TimerTick => Service!Tick /\ cpu # Lost
  BY ServesTick DEF Machine
<1>17. CASE UNCHANGED vars
  BY <1>17 DEF vars, tableVars
<1>18. QED
  BY <1>1, <1>2, <1>3, <1>4, <1>5, <1>6, <1>7, <1>8, <1>9, <1>10, <1>12, <1>13,
     <1>14, <1>16, <1>17
     DEF Next, ProgramStep, LoopStep, ThreadStep, CallsOut, LifecycleStep,
         Service!ServiceNext, Service!ThreadChange

(* Whatever windows are open, the dispatch loop, its quanta, wake passes   *)
(* and saved contexts give the threads what ThreadService promises.        *)
THEOREM DispatcherServesThreads == Spec => ServesThreads
<1>1. Init => OpenInv /\ Service!Begin
  <2>1. Init => Service!Begin
    BY DEF Init, Service!Begin, Service!NoAlarm, NoWake, Scheduler, Lost
  <2>2. QED BY <2>1, InitOpen
<1>2. OpenInv /\ [Next]_vars => OpenInv'
  BY StepOpen
<1>3. OpenInv /\ OpenInv' /\ [Next]_vars => [Service!ServiceNext]_Service!serviceVars
  BY StepServes DEF Service!serviceVars, Machine
<1>4. QED
  BY <1>1, <1>2, <1>3, PTL DEF Spec, ServesThreads, Service!ServiceSpec

(* A sleeping thread wakes at the tick it asked for, whatever windows are  *)
(* open: at no other step does it stop being blocked, and at that one it   *)
(* does.                                                                   *)
THEOREM SleepersWakeOnTime == Spec => WakesOnTime
<1>1. Init => OpenInv
  BY InitOpen
<1>2. OpenInv /\ [Next]_vars => OpenInv'
  BY StepOpen
<1>3. OpenInv /\ OpenInv' /\ [Next]_vars =>
        [\A t \in Tasks :
           state[t] = "blocked" /\ sleepLeft[t] # NoWake =>
             (state'[t] # "blocked" <=> sleepLeft[t] = 1 /\ sleepLeft'[t] = NoWake)]_vars
  <2> SUFFICES ASSUME OpenInv, OpenInv', Next,
                      NEW t \in Tasks, state[t] = "blocked", sleepLeft[t] # NoWake
               PROVE  state'[t] # "blocked" <=> sleepLeft[t] = 1 /\ sleepLeft'[t] = NoWake
    OBVIOUS
  <2> USE ConstantFacts
      DEF OpenInv, TypeOK, Service!NoAlarm, NoWake, Service!Running
  <2>1. [Service!ServiceNext]_<<state, sleepLeft, struck, Machine>>
    BY StepServes
  <2>2. ASSUME NEW u \in Tasks, Service!ThreadChange(u)
        PROVE  state'[t] = "blocked" /\ sleepLeft'[t] = sleepLeft[t]
    <3>1. CASE Service!Grant(u) \/ Service!GiveUp(u) \/ Service!Finish(u)
      BY <3>1 DEF Service!Grant, Service!GiveUp, Service!Finish
    <3>2. CASE Service!Start(u) \/ Service!Hold(u) \/ Service!Release(u)
      BY <3>2 DEF Service!Start, Service!Hold, Service!Release
    <3>3. CASE Service!Nap(u)
      BY <3>3 DEF Service!Nap
    <3>4. QED BY <2>2, <3>1, <3>2, <3>3 DEF Service!ThreadChange
  <2>3. CASE Service!Reap
    BY <2>3 DEF Service!Reap
  <2>4. CASE Service!Wreck
    BY <2>4 DEF Service!Wreck
  <2>5. CASE Service!Tick
    BY <2>5 DEF Service!Tick, Service!Ringing
  <2>6. CASE UNCHANGED <<state, sleepLeft, struck, Machine>>
    BY <2>6
  <2>7. QED BY <2>1, <2>2, <2>3, <2>4, <2>5, <2>6 DEF Service!ServiceNext
<1>4. QED BY <1>1, <1>2, <1>3, PTL DEF Spec, WakesOnTime

=============================================================================
