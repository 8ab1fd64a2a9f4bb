-------------------------- MODULE SchedulerLifecycle --------------------------
(***************************************************************************)
(* Processes and tasks of the kernel scheduler over their lives: the       *)
(* lifecycle thread creates them in several critical sections              *)
(* (Kernel/C/SchedulerLifecycleSections), the dispatch loop runs them in   *)
(* their address spaces and reaps what terminated.  The lifecycle thread   *)
(* may lose the processor between any two of its steps, so a whole pass of *)
(* the loop can find a process half made.                                  *)
(*                                                                         *)
(* Scheduling is left open here: any task that could be selected may be    *)
(* (SchedulerDispatch says which one is).  Requests to the memory manager  *)
(* run with interrupts disabled until they are answered, so each is one    *)
(* step; it may fail.  The model starts with the memory manager ready;     *)
(* when it is not, nothing is ever created.                                *)
(***************************************************************************)
EXTENDS Integers, FiniteSets

CONSTANTS
  MaxTasks,       \* LOS_KERNEL_SCHEDULER_MAX_TASKS
  MaxProcesses,   \* LOS_KERNEL_SCHEDULER_MAX_PROCESSES
  BootCount,      \* tasks made by Initialize and RegisterBootstrapTasks
  Creator,        \* the slot of the lifecycle thread
  Spaces          \* the address spaces the memory manager has room for

Tasks == 0 .. MaxTasks - 1

Processes == 0 .. MaxProcesses - 1

KernelRoot == "kernelRoot"   \* the root that processes inherit

ASSUME LifecycleAssumption ==
  /\ MaxTasks \in Nat /\ MaxProcesses \in Nat \ {0}
  /\ BootCount \in 1 .. MaxTasks
  /\ Creator \in 0 .. BootCount - 1
  /\ IsFiniteSet(Spaces)
  /\ KernelRoot \notin Spaces   \* a new space has a root table of its own

VARIABLES
  process,        \* State->Processes
  task,           \* State->Tasks
  processCount,   \* State->ProcessCount
  taskCount,      \* State->TaskCount
  stacksUsed,     \* the Used flags of the two stack pools
  directPool,     \* DirectClaimStackPoolReady
  spaces,         \* address spaces alive in the memory manager
  cpu,            \* what the processor executes
  loopPc,         \* where the dispatch loop stands
  dispatched,     \* the loop's Process pointer across the context switch
  activeRoot,     \* ActiveRootTablePhysicalAddress, and CR3
  creatorPc,      \* where the lifecycle thread stands
  job,            \* what it is creating
  slot,           \* CreatedProcess
  newId,          \* the id of that process
  reply,          \* what the memory manager answered
  scaffoldReady,  \* UserTransitionScaffoldReady
  userLive        \* UserTransitionLiveCount # 0

tables == <<process, task, processCount, taskCount>>

resources == <<stacksUsed, directPool, spaces>>

processor == <<cpu, loopPc, dispatched, activeRoot>>

creation == <<creatorPc, job, slot, newId, reply>>

user == <<scaffoldReady, userLive>>

vars == <<tables, resources, processor, creation, user>>

Loop == -1

Nothing == -1

NoId == 0

EmptyProcess ==
  [state |-> "unused", id |-> NoId, kind |-> "none", root |-> KernelRoot,
   binding |-> FALSE, threads |-> 0]

EmptyTask == [state |-> "unused", pid |-> NoId, kind |-> "none", stack |-> <<>>]

KernelId == 1

Stacks(pool) == {pool} \X Tasks

Least(S) == CHOOSE n \in S : \A m \in S : n <= m

Owns(p) == process[p].root # KernelRoot

Used(t) == task[t].state # "unused"

(* FindProcessByIdMutable of SchedulerLifecycle sees READY processes only, *)
(* that of SchedulerDispatch every process that is not UNUSED.             *)
FindReady(id) == {p \in Processes : process[p].state = "ready" /\ process[p].id = id}

FindForDispatch(id) == {p \in Processes : process[p].state # "unused" /\ process[p].id = id}

(* NextProcessId never repeats a number.  The model uses again the numbers *)
(* nobody holds any more, which nobody can tell from new ones.             *)
HeldIds ==
  {newId} \cup {process[p].id : p \in Processes} \cup {task[t].pid : t \in Tasks}

FreshId == Least((1 .. MaxProcesses + MaxTasks + 2) \ HeldIds)

-----------------------------------------------------------------------------

(* Initialize and RegisterBootstrapTasks.  The direct-claim stack pool may *)
(* not have been reserved.                                                 *)
Init ==
  /\ directPool \in BOOLEAN
  /\ process = [p \in Processes |->
                  IF p = 0 THEN [EmptyProcess EXCEPT !.state = "ready", !.id = KernelId,
                                                     !.kind = "kernel", !.threads = BootCount]
                  ELSE EmptyProcess]
  /\ task = [t \in Tasks |->
               IF t < BootCount
               THEN [state |-> "live", pid |-> KernelId, kind |-> "kernel",
                     stack |-> <<IF directPool THEN "direct" ELSE "bootstrap", t>>]
               ELSE EmptyTask]
  /\ processCount = 1
  /\ taskCount = BootCount
  /\ stacksUsed = {task[t].stack : t \in 0 .. BootCount - 1}
  /\ spaces = {}
  /\ cpu = Loop
  /\ loopPc = "tasks"
  /\ dispatched = Nothing
  /\ activeRoot = KernelRoot
  /\ creatorPc = "scaffold"
  /\ job = "none"
  /\ slot = Nothing
  /\ newId = NoId
  /\ reply = KernelRoot
  /\ scaffoldReady = FALSE
  /\ userLive = FALSE

-----------------------------------------------------------------------------
(* One pass of the dispatch loop.                                          *)

Terminated == {t \in Tasks : task[t].state = "terminated"}

ThreadsLost(p) ==
  Cardinality({t \in Terminated : p \in FindReady(task[t].pid)})

(* Mutant of ReleasedStacks: only stacks of the direct-claim pool come     *)
(* back.                                                                   *)
ReleasedDirectStacks == {task[t].stack : t \in Terminated} \cap Stacks("direct")

(* ReleaseTaskStackResources, for the two pools in use.                    *)
ReleasedStacks == {task[t].stack : t \in Terminated}

(* A process other than the kernel's ends with its last thread.            *)
AfterThreadsLost(p) ==
  [process[p] EXCEPT
     !.threads = @ - ThreadsLost(p),
     !.state = IF /\ ThreadsLost(p) > 0
                  /\ process[p].threads = ThreadsLost(p)
                  /\ process[p].kind # "kernel"
               THEN "terminated" ELSE @]

CleanupTerminatedTasks ==
  /\ cpu = Loop /\ loopPc = "tasks"
  /\ process' = [p \in Processes |-> AfterThreadsLost(p)]
  /\ task' = [t \in Tasks |-> IF t \in Terminated THEN EmptyTask ELSE task[t]]
  /\ taskCount' = taskCount - Cardinality(Terminated)
  /\ stacksUsed' = stacksUsed \ ReleasedStacks
  /\ loopPc' = "processes"
  /\ UNCHANGED <<processCount, directPool, spaces, cpu, dispatched, activeRoot,
                 creation, user>>

(* Mutant of Reclaimable: threads are not waited for.                      *)
ReclaimableEarly == {p \in Processes : process[p].kind = "transient"}

Reclaimable == {p \in Processes : process[p].state = "terminated" /\ process[p].threads = 0}

(* CleanupTerminatedProcesses: a process whose address space the memory    *)
(* manager does not destroy stays for the next pass.                       *)
CleanupTerminatedProcesses(refused) ==
  LET reclaimed == Reclaimable \ refused
  IN /\ cpu = Loop /\ loopPc = "processes"
     /\ refused \subseteq {p \in Reclaimable : Owns(p)}
     /\ process' = [p \in Processes |-> IF p \in reclaimed THEN EmptyProcess ELSE process[p]]
     /\ processCount' = processCount - Cardinality(reclaimed)
     /\ spaces' = spaces \ {process[p].root : p \in reclaimed}
     /\ loopPc' = "bind"
     /\ UNCHANGED <<task, taskCount, stacksUsed, directPool, cpu, dispatched, activeRoot,
                    creation, user>>

(* Mutant of Unbound: neither the state of the process nor its flag        *)
(* BIND_IN_PROGRESS is looked at.                                          *)
UnboundInAnyState == {p \in Processes : process[p].kind \in {"user", "transient"} /\ ~Owns(p)}

Unbound ==
  {p \in Processes : /\ process[p].state = "ready"
                     /\ process[p].kind # "kernel"
                     /\ ~Owns(p) /\ ~process[p].binding}

(* BindPendingProcessAddressSpaces: each unbound process gets a space of   *)
(* its own if the memory manager grants it one.                            *)
BindPending ==
  /\ cpu = Loop /\ loopPc = "bind"
  /\ \E granted \in SUBSET Unbound :
       \E root \in [granted -> Spaces \ spaces] :
         /\ \A p, q \in granted : p # q => root[p] # root[q]
         /\ process' = [p \in Processes |->
                          IF p \in granted THEN [process[p] EXCEPT !.root = root[p]]
                          ELSE process[p]]
         /\ spaces' = spaces \cup {root[p] : p \in granted}
  /\ loopPc' = "select"
  /\ UNCHANGED <<task, processCount, taskCount, stacksUsed, directPool,
                 cpu, dispatched, activeRoot, creation, user>>

(* Selection and the switch to the thread, in its process's address space. *)
Dispatch(t) ==
  /\ cpu = Loop /\ loopPc = "select"
  /\ task[t].state = "live"
  /\ \E p \in FindForDispatch(task[t].pid) :
       /\ dispatched' = p
       /\ activeRoot' = process[p].root
  /\ cpu' = t
  /\ UNCHANGED <<tables, resources, loopPc, creation, user>>

(* Mutant of FinishSlice: the thread's address space stays active.         *)
FinishSliceInPlace ==
  /\ cpu = Loop /\ loopPc = "finish"
  /\ dispatched' = Nothing
  /\ loopPc' = "tasks"
  /\ UNCHANGED <<tables, resources, cpu, activeRoot, creation, user>>

(* FinalizeRunSliceAccounting charges the Process pointer taken before the *)
(* switch, then RestoreKernelAddressSpace.                                 *)
FinishSlice ==
  /\ cpu = Loop /\ loopPc = "finish"
  /\ \E p \in FindForDispatch(KernelId) : activeRoot' = process[p].root
  /\ dispatched' = Nothing
  /\ loopPc' = "tasks"
  /\ UNCHANGED <<tables, resources, cpu, creation, user>>

-----------------------------------------------------------------------------
(* Threads other than the lifecycle thread's own work.                     *)

BackToLoop == cpu' = Loop /\ loopPc' = "finish"

(* Preemption, Sleep and Yield.  A live user thread is not preempted.      *)
Leave(t) ==
  /\ cpu = t
  /\ task[t].kind # "user"
  /\ BackToLoop
  /\ UNCHANGED <<tables, resources, dispatched, activeRoot, creation, user>>

(* An ephemeral worker calls TerminateCurrent.                             *)
Exit(t) ==
  /\ cpu = t
  /\ task[t].kind = "transient"
  /\ task' = [task EXCEPT ![t].state = "terminated"]
  /\ BackToLoop
  /\ UNCHANGED <<process, processCount, taskCount, resources, dispatched, activeRoot,
                 creation, user>>

(* The user thread traps, and CompleteCurrentUserTransitionTask ends it.   *)
Trap(t) ==
  /\ cpu = t
  /\ task[t].kind = "user"
  /\ task' = [task EXCEPT ![t].state = "terminated"]
  /\ BackToLoop
  /\ UNCHANGED <<process, processCount, taskCount, resources, dispatched, activeRoot,
                 creation, user>>

-----------------------------------------------------------------------------
(* The lifecycle thread: LosKernelSchedulerLifecycleThread, through        *)
(* CreateProcess, BindOwnedProcessAddressSpace and CreateTask.  creatorPc  *)
(* names the next critical section.                                        *)

CreatorAt(pc) == cpu = Creator /\ creatorPc = pc

(* What follows PrepareUserTransitionScaffold, or an ephemeral process.    *)
AfterJob == IF job = "user" THEN "transient" ELSE "sleep"

HasActiveTransientProcess ==
  \E p \in Processes : process[p].kind = "transient" /\ process[p].state # "unused"

FreeProcesses == {p \in Processes : process[p].state = "unused"}

(* Mutant of ClaimedState: the process is visible before it is bound.      *)
ClaimedReady == "ready"

ClaimedState == "initializing"

(* The first critical section of CreateProcess.                            *)
ClaimProcess(kind) ==
  LET p == Least(FreeProcesses)
  IN /\ FreeProcesses # {}
     /\ process' = [process EXCEPT ![p] =
                      [EmptyProcess EXCEPT !.state = ClaimedState, !.id = FreshId, !.kind = kind]]
     /\ slot' = p
     /\ newId' = FreshId
     /\ job' = kind
     /\ creatorPc' = "bind"
     /\ UNCHANGED <<task, processCount, taskCount, resources, processor, reply, user>>

NoProcessSlot(next) ==
  /\ FreeProcesses = {}
  /\ creatorPc' = next
  /\ UNCHANGED <<tables, resources, processor, job, slot, newId, reply, user>>

PrepareScaffold ==
  /\ CreatorAt("scaffold")
  /\ ~scaffoldReady
  /\ ClaimProcess("user") \/ NoProcessSlot("transient")

(* One of the UserTransition stages short of the last, or its refusal.     *)
AdvanceScaffold ==
  /\ CreatorAt("scaffold")
  /\ scaffoldReady
  /\ creatorPc' = "transient"
  /\ UNCHANGED <<tables, resources, processor, job, slot, newId, reply, user>>

MarkLive(t) ==
  /\ CreatorAt("scaffold")
  /\ scaffoldReady
  /\ task[t].state = "held"
  /\ FindReady(task[t].pid) # {}
  /\ task' = [task EXCEPT ![t].state = "live"]
  /\ userLive' = TRUE
  /\ creatorPc' = "transient"
  /\ UNCHANGED <<process, processCount, taskCount, resources, processor,
                 job, slot, newId, reply, scaffoldReady>>

(* Mutant of MayCreateTransient: a process that awaits its reaping is not  *)
(* counted.                                                                *)
NoTransientAlive ==
  ~userLive /\ ~\E p \in Processes : process[p].kind = "transient"
                                       /\ process[p].state \in {"initializing", "ready"}

MayCreateTransient == ~HasActiveTransientProcess /\ ~userLive

CreateTransient ==
  /\ CreatorAt("transient")
  /\ MayCreateTransient
  /\ ClaimProcess("transient") \/ NoProcessSlot("sleep")

Refrain ==
  /\ CreatorAt("transient")
  /\ ~MayCreateTransient
  /\ creatorPc' = "sleep"
  /\ UNCHANGED <<tables, resources, processor, job, slot, newId, reply, user>>

SleepPeriod ==
  /\ CreatorAt("sleep")
  /\ creatorPc' = "scaffold"
  /\ BackToLoop
  /\ UNCHANGED <<tables, resources, dispatched, activeRoot, job, slot, newId, reply, user>>

NeedsNoBinding(p) == process[p].state \in {"unused", "terminated"} \/ Owns(p)

(* BindOwnedProcessAddressSpace up to the request: it may find nothing to  *)
(* do, and fails if another bind is under way.                             *)
MarkBinding ==
  /\ CreatorAt("bind")
  /\ creatorPc' = CASE NeedsNoBinding(slot) -> "publish"
                    [] process[slot].binding -> "abandon"
                    [] OTHER -> "request"
  /\ process' = IF creatorPc' = "request" THEN [process EXCEPT ![slot].binding = TRUE]
                ELSE process
  /\ UNCHANGED <<task, processCount, taskCount, resources, processor,
                 job, slot, newId, reply, user>>

(* LosMemoryManagerSendCreateAddressSpace.                                 *)
RequestSpace ==
  /\ CreatorAt("request")
  /\ \/ /\ reply' \in Spaces \ spaces
        /\ spaces' = spaces \cup {reply'}
     \/ /\ reply' = KernelRoot
        /\ UNCHANGED spaces
  /\ creatorPc' = "install"
  /\ UNCHANGED <<tables, stacksUsed, directPool, processor, job, slot, newId, user>>

(* The rest of it: the space is installed unless the slot was freed.       *)
InstallSpace ==
  /\ CreatorAt("install")
  /\ process' = IF process[slot].state = "unused" THEN process
                ELSE [process EXCEPT ![slot].binding = FALSE, ![slot].root = reply]
  /\ reply' = KernelRoot
  /\ creatorPc' = IF reply = KernelRoot \/ process[slot].state = "unused"
                  THEN "abandon" ELSE "publish"
  /\ UNCHANGED <<task, processCount, taskCount, resources, processor, job, slot, newId, user>>

(* Mutant of AbandonedSlot: the slot is not given back.                    *)
AbandonedSlotKept == process[slot]

AbandonedSlot == IF process[slot].threads = 0 THEN EmptyProcess ELSE process[slot]

Counted(p) == process[p].state \in {"ready", "terminated"}

(* AbandonCreatedProcess.                                                  *)
AbandonProcess ==
  /\ CreatorAt("abandon")
  /\ process' = [process EXCEPT ![slot] = AbandonedSlot]
  /\ processCount' = IF Counted(slot) /\ process[slot].threads = 0
                     THEN processCount - 1 ELSE processCount
  /\ creatorPc' = AfterJob
  /\ UNCHANGED <<task, taskCount, resources, processor,
                 job, slot, newId, reply, user>>

PublishProcess ==
  /\ CreatorAt("publish")
  /\ process' = IF process[slot].state = "initializing"
                THEN [process EXCEPT ![slot].state = "ready"] ELSE process
  /\ processCount' = IF process' = process THEN processCount ELSE processCount + 1
  /\ creatorPc' = "task"
  /\ UNCHANGED <<task, taskCount, resources, processor, job, slot, newId, reply, user>>

FreeTasks == {t \in Tasks : ~Used(t)}

FreeStacks ==
  ((IF directPool THEN Stacks("direct") ELSE {}) \cup Stacks("bootstrap")) \ stacksUsed

(* The first free stack of the direct-claim pool, or else of the bootstrap *)
(* pool.  Stacks of the memory manager are disabled.                       *)
AllocatedStack ==
  LET pool == IF \E s \in FreeStacks : s[1] = "direct" THEN "direct" ELSE "bootstrap"
  IN <<pool, Least({s[2] : s \in FreeStacks \cap Stacks(pool)})>>

TaskPossible == FreeTasks # {} /\ FreeStacks # {} /\ FindReady(newId) # {}

CreateTask ==
  LET t == Least(FreeTasks)
  IN /\ CreatorAt("task")
     /\ TaskPossible
     /\ \E p \in FindReady(newId) : process' = [process EXCEPT ![p].threads = @ + 1]
     /\ task' = [task EXCEPT ![t] =
                   [state |-> IF job = "user" THEN "held" ELSE "live",
                    pid |-> newId, kind |-> job, stack |-> AllocatedStack]]
     /\ stacksUsed' = stacksUsed \cup {AllocatedStack}
     /\ taskCount' = taskCount + 1
     /\ creatorPc' = IF job = "user" THEN "prepare" ELSE "sleep"
     /\ UNCHANGED <<processCount, directPool, spaces, processor, job, slot, newId, reply, user>>

(* CreateTask fails, and the caller marks the process terminated in        *)
(* another critical section.                                               *)
TaskRefused ==
  /\ CreatorAt("task")
  /\ ~TaskPossible
  /\ creatorPc' = "terminate"
  /\ UNCHANGED <<tables, resources, processor, job, slot, newId, reply, user>>

MarkProcessTerminated ==
  /\ CreatorAt("terminate")
  /\ process' = [p \in Processes |->
                   IF p \in FindReady(newId) /\ process[p].kind # "kernel"
                   THEN [process[p] EXCEPT !.state = "terminated"] ELSE process[p]]
  /\ creatorPc' = AfterJob
  /\ UNCHANGED <<task, processCount, taskCount, resources, processor,
                 job, slot, newId, reply, user>>

(* The last critical section of PrepareUserTransitionScaffold.             *)
FinishScaffold ==
  /\ CreatorAt("prepare")
  /\ scaffoldReady' = TRUE
  /\ creatorPc' = "transient"
  /\ UNCHANGED <<tables, resources, processor, job, slot, newId, reply, userLive>>

-----------------------------------------------------------------------------

LoopStep ==
  \/ CleanupTerminatedTasks
  \/ \E refused \in SUBSET Processes : CleanupTerminatedProcesses(refused)
  \/ BindPending
  \/ \E t \in Tasks : Dispatch(t)
  \/ FinishSlice

ThreadStep(t) == Leave(t) \/ Exit(t) \/ Trap(t)

CreatorStep ==
  \/ PrepareScaffold \/ AdvanceScaffold \/ \E t \in Tasks : MarkLive(t)
  \/ CreateTransient \/ Refrain \/ SleepPeriod
  \/ MarkBinding \/ RequestSpace \/ InstallSpace \/ AbandonProcess \/ PublishProcess
  \/ CreateTask \/ TaskRefused \/ MarkProcessTerminated \/ FinishScaffold

Next == LoopStep \/ (\E t \in Tasks : ThreadStep(t)) \/ CreatorStep

Spec == Init /\ [][Next]_vars

(* The processor keeps executing the loop, every live task is selected     *)
(* again (SchedulerLiveness: NobodyStarves), a worker gets to its end and  *)
(* the lifecycle thread on, and the memory manager does not refuse to      *)
(* destroy spaces for ever.  Nothing makes a user thread trap.             *)
Fairness ==
  /\ WF_vars(LoopStep)
  /\ \A t \in Tasks \ {0} : SF_vars(Dispatch(t)) /\ SF_vars(Exit(t))
  /\ \A t \in Tasks : WF_vars(Leave(t))
  /\ SF_vars(CreatorStep)
  /\ SF_vars(CleanupTerminatedProcesses({}))

FairSpec == Spec /\ Fairness

-----------------------------------------------------------------------------
(* Safety.                                                                 *)

CreatorPlaces ==
  {"scaffold", "transient", "sleep", "bind", "request", "install", "abandon",
   "publish", "task", "terminate", "prepare"}

(* The variables keep the ranges of the fields they stand for; in          *)
(* particular no unsigned counter of the tables is decremented below zero. *)
TypeOK ==
  /\ process \in [Processes ->
       [state : {"unused", "initializing", "ready", "terminated"}, id : Nat,
        kind : {"none", "kernel", "user", "transient"}, root : Spaces \cup {KernelRoot},
        binding : BOOLEAN, threads : Nat]]
  /\ task \in [Tasks ->
       [state : {"unused", "held", "live", "terminated"}, pid : Nat,
        kind : {"none", "kernel", "user", "transient"},
        stack : Stacks("direct") \cup Stacks("bootstrap") \cup {<<>>}]]
  /\ processCount \in 0 .. MaxProcesses
  /\ taskCount \in 0 .. MaxTasks
  /\ stacksUsed \subseteq Stacks("direct") \cup Stacks("bootstrap")
  /\ directPool \in BOOLEAN
  /\ spaces \subseteq Spaces
  /\ cpu \in Tasks \cup {Loop}
  /\ loopPc \in {"tasks", "processes", "bind", "select", "finish"}
  /\ dispatched \in Processes \cup {Nothing}
  /\ activeRoot \in Spaces \cup {KernelRoot}
  /\ creatorPc \in CreatorPlaces
  /\ job \in {"none", "user", "transient"}
  /\ slot \in Processes \cup {Nothing}
  /\ newId \in Nat
  /\ reply \in Spaces \cup {KernelRoot}
  /\ scaffoldReady \in BOOLEAN
  /\ userLive \in BOOLEAN

TasksOf(p) == {t \in Tasks : Used(t) /\ task[t].pid = process[p].id}

(* ProcessCount, TaskCount and every ThreadCount agree with the tables,    *)
(* however creation, termination and reaping interleave.  A ThreadCount    *)
(* that drifts frees a process under its threads, or never frees it; the   *)
(* process of a task is always one the READY-only lookup finds, or the     *)
(* reap would not give the thread back to its count.                       *)
CountsAgree ==
  /\ processCount = Cardinality({p \in Processes : Counted(p)})
  /\ taskCount = Cardinality({t \in Tasks : Used(t)})
  /\ \A p \in Processes :
       process[p].state # "unused" => process[p].threads = Cardinality(TasksOf(p))
  /\ \A t \in Tasks : Used(t) => Cardinality(FindReady(task[t].pid)) = 1

(* Every address space alive in the memory manager is the root of exactly  *)
(* one process, or is the reply the lifecycle thread is about to install:  *)
(* none leaks when a creation fails half way, none is shared, and no       *)
(* process keeps a root that was destroyed.                                *)
SpacesAccountedFor ==
  LET owners == {p \in Processes : Owns(p)}
      inFlight == {reply} \ {KernelRoot}
  IN /\ spaces = {process[p].root : p \in owners} \cup inFlight
     /\ \A p, q \in owners : process[p].root = process[q].root => p = q
     /\ \A p \in owners : process[p].root \notin inFlight

(* Scheduler.md: the lifecycle manager keeps to one transient owned-root   *)
(* process at a time, from its claim until it has been reaped.             *)
OneTransientProcess ==
  Cardinality({p \in Processes : process[p].kind = "transient"}) <= 1

(* A thread runs in its own process's address space, and the Process       *)
(* pointer that the loop keeps across the context switch still means that  *)
(* process when the accounting writes through it.  The loop cleans up, and *)
(* so destroys address spaces, in the kernel's.                            *)
AddressSpaceFollowsThread ==
  /\ cpu = Loop /\ loopPc # "finish" => activeRoot = KernelRoot
  /\ cpu \in Tasks => /\ process[dispatched].state = "ready"
                      /\ process[dispatched].id = task[cpu].pid
                      /\ activeRoot = process[dispatched].root
  /\ activeRoot \in spaces \cup {KernelRoot}

(* No two tasks share a stack, and the Used flags are those of the stacks  *)
(* the tasks have: a flag that stays set is a stack lost for ever.         *)
StacksAccountedFor ==
  /\ stacksUsed = {task[t].stack : t \in {u \in Tasks : Used(u)}}
  /\ Cardinality(stacksUsed) = Cardinality({t \in Tasks : Used(t)})

(* An address space is destroyed only when it is not the active one and    *)
(* none of the tasks that remain would be switched to it.                  *)
DestroyedSpaceIsUnused ==
  [][\A s \in spaces \ spaces' :
       /\ s # activeRoot
       /\ \A t \in Tasks : Used(t) =>
            \A p \in FindForDispatch(task[t].pid) : process[p].root # s]_vars

-----------------------------------------------------------------------------
(* Liveness.                                                               *)

UserThreadRuns == cpu \in Tasks /\ task[cpu].kind = "user"

HalfMade == \E p \in Processes : process[p].state = "initializing"

(* Every process that was claimed is published or its slot is given back,  *)
(* and every transient one comes to its end and is reaped, unless a user   *)
(* thread, which is never preempted, keeps the processor.                  *)
LifecycleCompletes ==
  /\ HasActiveTransientProcess ~> (~HasActiveTransientProcess \/ UserThreadRuns)
  /\ HalfMade ~> (~HalfMade \/ UserThreadRuns)

=============================================================================
