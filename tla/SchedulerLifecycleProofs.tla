----------------------- MODULE SchedulerLifecycleProofs -----------------------
(***************************************************************************)
(* Proofs about SchedulerLifecycle, for every number of tasks, processes   *)
(* and address spaces, and every point at which the lifecycle thread loses *)
(* the processor.                                                          *)
(***************************************************************************)
EXTENDS SchedulerLifecycle, FiniteSetTheorems, WellFoundedInduction, TLAPS

LEMMA ConstantFacts ==
  /\ MaxTasks \in Nat /\ MaxProcesses \in Nat /\ MaxProcesses > 0
  /\ BootCount \in Nat /\ BootCount > 0 /\ BootCount <= MaxTasks
  /\ Tasks \subseteq Nat /\ Processes \subseteq Nat
  /\ Creator \in Tasks /\ Creator < BootCount /\ 0 \in Tasks /\ 0 \in Processes
  /\ Loop \notin Tasks /\ Nothing \notin Processes
  /\ KernelRoot \notin Spaces
<1>1. KernelRoot \notin Spaces
  BY LifecycleAssumption DEF KernelRoot
<1>2. /\ MaxTasks \in Nat /\ MaxProcesses \in Nat /\ MaxProcesses > 0
      /\ BootCount \in Nat /\ BootCount > 0 /\ BootCount <= MaxTasks
  BY LifecycleAssumption
<1>3. Creator \in Nat /\ Creator < BootCount
  BY <1>2, LifecycleAssumption
<1>4. QED BY <1>1, <1>2, <1>3 DEF Tasks, Processes, Loop, Nothing

LEMMA FiniteTables ==
  /\ IsFiniteSet(Tasks) /\ Cardinality(Tasks) = MaxTasks
  /\ IsFiniteSet(Processes) /\ Cardinality(Processes) = MaxProcesses
BY ConstantFacts, FS_Interval DEF Tasks, Processes

-----------------------------------------------------------------------------
(* Choices: the first of some slots, and a number nobody holds.            *)

LEMMA LeastIsMember ==
  ASSUME NEW S \in SUBSET Nat, S # {}
  PROVE  Least(S) \in S
<1>1. \E n \in S : \A m \in S : ~(<<m, n>> \in OpToRel(<, Nat))
  BY NatLessThanWellFounded, WFMin
<1>2. PICK n \in S : \A m \in S : ~(m < n)
  BY <1>1 DEF OpToRel
<1>3. \E k \in S : \A m \in S : k <= m
  BY <1>2
<1>4. QED BY <1>3 DEF Least

(* The image of a finite set, without an operator parameter.               *)
LEMMA ImageIsSmall ==
  ASSUME NEW S, IsFiniteSet(S), NEW f, f = [x \in S |-> f[x]]
  PROVE  /\ IsFiniteSet({f[x] : x \in S})
         /\ Cardinality({f[x] : x \in S}) <= Cardinality(S)
<1> DEFINE T == {f[x] : x \in S}
<1>1. f \in [S -> T] /\ \A t \in T : \E x \in S : f[x] = t
  OBVIOUS
<1> HIDE DEF T
<1>2. f \in Surjection(S, T)
  BY <1>1 DEF Surjection
<1>3. IsFiniteSet(T) /\ Cardinality(T) <= Cardinality(S)
  BY <1>2, FS_Surjection
<1>4. QED BY <1>3 DEF T

LEMMA FreshIdIsFresh ==
  ASSUME newId \in Nat
  PROVE  FreshId \in Nat /\ FreshId # NoId /\ FreshId \notin HeldIds
<1> DEFINE ofProcesses == [p \in Processes |-> process[p].id]
           ofTasks == [t \in Tasks |-> task[t].pid]
           A == {process[p].id : p \in Processes}
           B == {task[t].pid : t \in Tasks}
           ids == 1 .. MaxProcesses + MaxTasks + 2
<1>1. IsFiniteSet(A) /\ Cardinality(A) <= MaxProcesses
  <2>1. A = {ofProcesses[p] : p \in Processes} /\ ofProcesses = [p \in Processes |-> ofProcesses[p]]
    OBVIOUS
  <2> HIDE DEF A, ofProcesses
  <2>2. QED BY <2>1, FiniteTables, ImageIsSmall
<1>2. IsFiniteSet(B) /\ Cardinality(B) <= MaxTasks
  <2>1. B = {ofTasks[t] : t \in Tasks} /\ ofTasks = [t \in Tasks |-> ofTasks[t]]
    OBVIOUS
  <2> HIDE DEF B, ofTasks
  <2>2. QED BY <2>1, FiniteTables, ImageIsSmall
<1>3. HeldIds = (A \cup B) \cup {newId}
  BY DEF HeldIds
<1> HIDE DEF A, B
<1>4. /\ IsFiniteSet(A \cup B) /\ IsFiniteSet(HeldIds)
      /\ Cardinality(HeldIds) <= MaxProcesses + MaxTasks + 1
  <2>1. /\ IsFiniteSet(A \cup B)
        /\ Cardinality(A \cup B) = Cardinality(A) + Cardinality(B) - Cardinality(A \cap B)
    BY <1>1, <1>2, FS_Union
  <2>2. Cardinality(A) \in Nat /\ Cardinality(B) \in Nat /\ Cardinality(A \cap B) \in Nat
    <3>1. IsFiniteSet(A \cap B)
      BY <1>1, FS_Intersection
    <3>2. QED BY <1>1, <1>2, <3>1, FS_CardinalityType
  <2>3. /\ IsFiniteSet(HeldIds)
        /\ Cardinality(HeldIds) \in {Cardinality(A \cup B), Cardinality(A \cup B) + 1}
    BY <1>3, <2>1, FS_AddElement
  <2>4. QED BY <1>1, <1>2, <2>1, <2>2, <2>3, ConstantFacts
<1>5. IsFiniteSet(ids) /\ Cardinality(ids) = MaxProcesses + MaxTasks + 2
  BY ConstantFacts, FS_Interval
<1>6. ids \ HeldIds # {}
  <2> SUFFICES ASSUME ids \subseteq HeldIds
               PROVE  FALSE
    OBVIOUS
  <2>1. Cardinality(ids) <= Cardinality(HeldIds)
    <3> HIDE DEF ids
    <3>1. QED BY <1>4, FS_Subset
  <2>2. Cardinality(HeldIds) \in Nat
    BY <1>4, FS_CardinalityType
  <2>3. QED BY <1>4, <1>5, <2>1, <2>2, ConstantFacts
<1>7. FreshId \in ids \ HeldIds
  <2>1. ids \ HeldIds \in SUBSET Nat
    BY ConstantFacts
  <2>2. QED BY <1>6, <2>1, LeastIsMember DEF FreshId
<1>8. QED BY <1>7, ConstantFacts DEF NoId

-----------------------------------------------------------------------------
(* The inductive invariant.                                                *)

ProcessRecord ==
  [state : {"unused", "initializing", "ready", "terminated"}, id : Nat,
   kind : {"none", "kernel", "user", "transient"}, root : Spaces \cup {KernelRoot},
   binding : BOOLEAN, threads : Nat]

TaskRecord ==
  [state : {"unused", "held", "live", "terminated"}, pid : Nat,
   kind : {"none", "kernel", "user", "transient"},
   stack : Stacks("direct") \cup Stacks("bootstrap") \cup {<<>>}]

(* TypeOK without the two counts, whose ranges follow from Counts.         *)
TableTypes ==
  /\ process \in [Processes -> ProcessRecord]
  /\ task \in [Tasks -> TaskRecord]

OtherTypes ==
  /\ directPool \in BOOLEAN
  /\ spaces \subseteq Spaces
  /\ cpu \in Tasks \cup {Loop}
  /\ loopPc \in {"tasks", "processes", "bind", "select", "finish"}
  /\ dispatched \in Processes \cup {Nothing}
  /\ activeRoot \in Spaces \cup {KernelRoot}
  /\ creatorPc \in CreatorPlaces
  /\ job \in {"none", "user", "transient"}
  /\ slot \in Processes \cup {Nothing}
  /\ newId \in Nat
  /\ reply \in Spaces \cup {KernelRoot}
  /\ scaffoldReady \in BOOLEAN
  /\ userLive \in BOOLEAN

Alive(p) == process[p].state # "unused"

(* The kernel's process keeps its slot, its root and its boot threads; the *)
(* processes in use have different ids, and every task in use belongs to a *)
(* READY one.                                                              *)
Kernel ==
  /\ process[0].state = "ready" /\ process[0].id = KernelId
  /\ process[0].kind = "kernel" /\ process[0].root = KernelRoot
  /\ \A t \in Tasks :
       IF t < BootCount
       THEN task[t].state = "live" /\ task[t].pid = KernelId /\ task[t].kind = "kernel"
       ELSE task[t].kind # "kernel"

Identities ==
  /\ \A p \in Processes : /\ process[p].kind = "kernel" => p = 0
                          /\ IF Alive(p) THEN process[p].id # NoId
                             ELSE process[p] = EmptyProcess
  /\ \A p, q \in Processes : Alive(p) /\ Alive(q) /\ process[p].id = process[q].id => p = q
  /\ \A t \in Tasks : Used(t) =>
       \E p \in Processes : process[p].state = "ready" /\ process[p].id = task[t].pid

Claimed == {"bind", "request", "install", "abandon", "publish"}

Published == {"task", "terminate"}

(* The process in the making is the one INITIALIZING process, in the slot  *)
(* the lifecycle thread remembers, and has no task before CreateTask.      *)
Making ==
  /\ creatorPc \in Claimed \cup Published =>
       /\ slot \in Processes \ {0} /\ job \in {"user", "transient"}
       /\ process[slot].id = newId
       /\ process[slot].state = IF creatorPc \in Claimed THEN "initializing" ELSE "ready"
       /\ \A t \in Tasks : Used(t) => task[t].pid # newId
  /\ creatorPc = "bind" => ~process[slot].binding
  /\ \A p \in Processes : process[p].state = "initializing" => p = slot /\ creatorPc \in Claimed

(* Whatever is published owns its root from then until it is reclaimed.    *)
Ownership ==
  /\ creatorPc \in Claimed => (Owns(slot) <=> creatorPc = "publish")
  /\ \A p \in Processes : process[p].state \in {"ready", "terminated"} /\ p # 0 => Owns(p)
  /\ reply # KernelRoot => creatorPc = "install"
  /\ spaces = {process[p].root : p \in {q \in Processes : Owns(q)}}
                \cup ({reply} \ {KernelRoot})
  /\ \A p, q \in Processes : Owns(p) /\ process[p].root = process[q].root => p = q
  /\ \A p \in Processes : Owns(p) => process[p].root # reply

AtMostOneTransient ==
  \A p, q \in Processes :
    process[p].kind = "transient" /\ process[q].kind = "transient" => p = q

OnProcessor ==
  /\ cpu = Loop /\ loopPc # "finish" => activeRoot = KernelRoot
  /\ cpu \in Tasks => /\ loopPc = "select" /\ task[cpu].state = "live"
                      /\ dispatched \in Processes /\ process[dispatched].state = "ready"
                      /\ process[dispatched].id = task[cpu].pid
                      /\ activeRoot = process[dispatched].root
  /\ activeRoot \in spaces \cup {KernelRoot}

StackFlags ==
  /\ stacksUsed = {task[t].stack : t \in {u \in Tasks : Used(u)}}
  /\ \A t \in Tasks : Used(t) => task[t].stack \in Stacks("direct") \cup Stacks("bootstrap")
  /\ \A t, u \in Tasks : Used(t) /\ Used(u) /\ task[t].stack = task[u].stack => t = u

CountedProcesses == {p \in Processes : Counted(p)}

UsedTasks == {t \in Tasks : Used(t)}

Counts ==
  /\ processCount = Cardinality(CountedProcesses)
  /\ taskCount = Cardinality(UsedTasks)
  /\ \A p \in Processes : Alive(p) => process[p].threads = Cardinality(TasksOf(p))

LifeInv ==
  /\ TableTypes /\ OtherTypes /\ Kernel /\ Identities /\ Making /\ Ownership
  /\ AtMostOneTransient /\ OnProcessor /\ StackFlags /\ Counts

-----------------------------------------------------------------------------
(* Facts the steps share.                                                  *)

(* A task's process is the READY one with its id, and no other in use has  *)
(* that id.                                                                *)
LEMMA ProcessOfTask ==
  ASSUME Identities, NEW t \in Tasks, Used(t)
  PROVE  \E p \in Processes :
           /\ process[p].state = "ready" /\ process[p].id = task[t].pid
           /\ FindReady(task[t].pid) = {p} /\ FindForDispatch(task[t].pid) = {p}
<1>1. PICK p \in Processes : process[p].state = "ready" /\ process[p].id = task[t].pid
  BY DEF Identities
<1>2. \A q \in Processes : Alive(q) /\ process[q].id = task[t].pid => q = p
  BY <1>1 DEF Identities, Alive
<1>3. FindReady(task[t].pid) = {p} /\ FindForDispatch(task[t].pid) = {p}
  BY <1>1, <1>2 DEF FindReady, FindForDispatch, Alive
<1>4. QED BY <1>1, <1>3

(* A process in use that is not READY has no task.                         *)
LEMMA OnlyReadyHasTasks ==
  ASSUME Identities, NEW p \in Processes, Alive(p), process[p].state # "ready"
  PROVE  TasksOf(p) = {}
BY DEF Identities, Alive, TasksOf

LEMMA SameTables ==
  ASSUME LifeInv, UNCHANGED tables
  PROVE  /\ TableTypes' /\ Kernel' /\ Identities' /\ AtMostOneTransient' /\ Counts'
         /\ UNCHANGED stacksUsed => StackFlags'
<1> USE DEF LifeInv, tables
<1>1. TableTypes' /\ Kernel'
  BY DEF TableTypes, Kernel
<1>2. Identities'
  BY DEF Identities, Alive, Used
<1>3. AtMostOneTransient'
  BY DEF AtMostOneTransient
<1>4. Counts'
  BY DEF Counts, CountedProcesses, Counted, UsedTasks, Used, Alive, TasksOf
<1>5. UNCHANGED stacksUsed => StackFlags'
  BY DEF StackFlags, Used
<1>6. QED BY <1>1, <1>2, <1>3, <1>4, <1>5

LEMMA SameTasks ==
  ASSUME StackFlags, UNCHANGED <<task, stacksUsed>>
  PROVE  StackFlags'
BY DEF StackFlags, Used

(* The lifecycle thread is one of the kernel's: while it runs, the loop's  *)
(* Process pointer is the kernel process, which no step of it touches.     *)
LEMMA CreatorRunsInKernel ==
  ASSUME LifeInv, cpu = Creator
  PROVE  /\ loopPc = "select" /\ dispatched = 0 /\ activeRoot = KernelRoot
         /\ task[Creator].state = "live" /\ task[Creator].pid = KernelId
<1>1. /\ Creator \in Tasks
      /\ task[Creator].state = "live" /\ task[Creator].pid = KernelId
  BY ConstantFacts DEF LifeInv, Kernel
<1>2. /\ loopPc = "select" /\ dispatched \in Processes
      /\ process[dispatched].state = "ready" /\ process[dispatched].id = KernelId
      /\ activeRoot = process[dispatched].root
  BY <1>1 DEF LifeInv, OnProcessor
<1>3. process[0].state = "ready" /\ process[0].id = KernelId /\ process[0].root = KernelRoot
  BY DEF LifeInv, Kernel
<1>4. dispatched = 0
  BY <1>2, <1>3, ConstantFacts DEF LifeInv, Identities, Alive
<1>5. QED BY <1>1, <1>2, <1>3, <1>4

LEMMA CreatorKeepsProcessor ==
  ASSUME LifeInv, cpu = Creator, UNCHANGED processor,
         process'[0] = process[0],
         task'[Creator].state = "live", task'[Creator].pid = KernelId
  PROVE  OnProcessor'
<1>1. /\ loopPc = "select" /\ dispatched = 0 /\ activeRoot = KernelRoot
  BY CreatorRunsInKernel
<1>2. process[0].state = "ready" /\ process[0].id = KernelId /\ process[0].root = KernelRoot
  BY DEF LifeInv, Kernel
<1>3. cpu \in Tasks /\ cpu # Loop /\ 0 \in Processes
  BY ConstantFacts
<1>4. QED BY <1>1, <1>2, <1>3 DEF OnProcessor, processor

(* A step rewrites the entry of one process that has no task.              *)
Rewritten(p, r) == process' = [process EXCEPT ![p] = r]

LEMMA RewriteTasklessProcess ==
  ASSUME LifeInv, UNCHANGED task,
         NEW p \in Processes \ {0}, NEW r \in ProcessRecord, Rewritten(p, r),
         Alive(p) => TasksOf(p) = {},
         r.kind # "kernel",
         r.state = "unused" => r = EmptyProcess,
         r.state # "unused" =>
           /\ r.id # NoId /\ r.threads = 0
           /\ \A q \in Processes : q # p /\ Alive(q) => process[q].id # r.id
           /\ \A t \in Tasks : Used(t) => task[t].pid # r.id
  PROVE  /\ TableTypes' /\ Kernel' /\ Identities'
         /\ \A q \in Processes : Alive(q)' => process'[q].threads = Cardinality(TasksOf(q)')
<1> USE DEF LifeInv
<1>1. /\ process'[p] = r /\ \A q \in Processes : q # p => process'[q] = process[q]
      /\ process' \in [Processes -> ProcessRecord]
  BY DEF Rewritten, TableTypes
<1>2. TableTypes'
  BY <1>1 DEF TableTypes
<1>3. Kernel'
  BY <1>1, ConstantFacts DEF Kernel
<1>4. Identities'
  <2>1. ASSUME NEW q \in Processes
        PROVE  /\ process'[q].kind = "kernel" => q = 0
               /\ IF Alive(q)' THEN process'[q].id # NoId ELSE process'[q] = EmptyProcess
    BY <1>1 DEF Identities, Alive
  <2>2. ASSUME NEW q \in Processes, NEW u \in Processes, Alive(q)', Alive(u)',
               process'[q].id = process'[u].id
        PROVE  q = u
    BY <1>1, <2>2 DEF Identities, Alive
  <2>3. ASSUME NEW t \in Tasks, Used(t)'
        PROVE  \E q \in Processes : process'[q].state = "ready" /\ process'[q].id = task'[t].pid
    <3>1. PICK q \in Processes : process[q].state = "ready" /\ process[q].id = task[t].pid
      BY <2>3 DEF Identities, Used
    <3>2. q # p
      BY <2>3, <3>1 DEF Alive, TasksOf, Used
    <3>3. QED BY <1>1, <3>1, <3>2
  <2>4. QED BY <2>1, <2>2, <2>3 DEF Identities
<1>5. ASSUME NEW q \in Processes, Alive(q)'
      PROVE  process'[q].threads = Cardinality(TasksOf(q)')
  <2>1. CASE q = p
    <3>1. TasksOf(q)' = {}
      BY <1>1, <1>5, <2>1 DEF TasksOf, Used, Alive
    <3>2. process'[q].threads = 0
      BY <1>1, <1>5, <2>1 DEF Alive
    <3>3. QED BY <3>1, <3>2, FS_EmptySet
  <2>2. CASE q # p
    <3>1. process'[q] = process[q]
      BY <1>1, <2>2
    <3>2. TasksOf(q)' = TasksOf(q)
      BY <3>1 DEF TasksOf, Used
    <3>3. QED BY <1>5, <3>1, <3>2 DEF Counts, Alive
  <2>3. QED BY <2>1, <2>2
<1>6. QED BY <1>2, <1>3, <1>4, <1>5

(* ... and the number of processes that count changes with it.             *)
LEMMA RewriteCounted ==
  ASSUME LifeInv, NEW p \in Processes, NEW r \in ProcessRecord, Rewritten(p, r)
  PROVE  Cardinality(CountedProcesses)' =
           Cardinality(CountedProcesses)
             + (IF r.state \in {"ready", "terminated"} THEN 1 ELSE 0)
             - (IF Counted(p) THEN 1 ELSE 0)
<1>1. /\ process'[p] = r /\ \A q \in Processes : q # p => process'[q] = process[q]
  BY DEF Rewritten, LifeInv, TableTypes
<1>2. IsFiniteSet(CountedProcesses)
  BY FiniteTables, FS_Subset DEF CountedProcesses
<1>3. Cardinality(CountedProcesses) \in Nat
  BY <1>2, FS_CardinalityType
<1> DEFINE rest == CountedProcesses \ {p}
<1>4. /\ IsFiniteSet(rest)
      /\ Cardinality(rest) =
           Cardinality(CountedProcesses) - (IF Counted(p) THEN 1 ELSE 0)
  <2>1. p \in CountedProcesses <=> Counted(p)
    BY DEF CountedProcesses
  <2>2. QED BY <1>2, <1>3, <2>1, FS_RemoveElement
<1>5. CASE r.state \in {"ready", "terminated"}
  <2>1. CountedProcesses' = rest \cup {p}
    BY <1>1, <1>5 DEF CountedProcesses, Counted
  <2>2. Cardinality(rest \cup {p}) = Cardinality(rest) + 1
    BY <1>4, FS_AddElement
  <2>3. QED BY <1>3, <1>4, <1>5, <2>1, <2>2
<1>6. CASE r.state \notin {"ready", "terminated"}
  <2>1. CountedProcesses' = rest
    BY <1>1, <1>6 DEF CountedProcesses, Counted
  <2>2. QED BY <1>3, <1>4, <1>6, <2>1
<1>7. QED BY <1>5, <1>6

LEMMA CountsFollow ==
  ASSUME LifeInv, UNCHANGED <<task, taskCount>>,
         processCount' = Cardinality(CountedProcesses)',
         \A q \in Processes : Alive(q)' => process'[q].threads = Cardinality(TasksOf(q)')
  PROVE  Counts'
<1>1. UsedTasks' = UsedTasks
  BY DEF UsedTasks, Used
<1>2. QED BY <1>1 DEF LifeInv, Counts

-----------------------------------------------------------------------------
(* The invariant holds when the boot is over.                              *)

LEMMA InitLifeInv == Init => LifeInv
<1> SUFFICES ASSUME Init
             PROVE  LifeInv
  OBVIOUS
<1> USE ConstantFacts
<1> DEFINE boot == 0 .. BootCount - 1
<1>1. /\ process[0] = [state |-> "ready", id |-> KernelId, kind |-> "kernel",
                       root |-> KernelRoot, binding |-> FALSE, threads |-> BootCount]
      /\ \A p \in Processes : p # 0 => process[p] = EmptyProcess
      /\ DOMAIN process = Processes /\ process = [p \in Processes |-> process[p]]
  BY DEF Init, EmptyProcess
<1>2. /\ \A t \in Tasks : t < BootCount =>
           task[t] = [state |-> "live", pid |-> KernelId, kind |-> "kernel",
                      stack |-> <<IF directPool THEN "direct" ELSE "bootstrap", t>>]
      /\ \A t \in Tasks : ~(t < BootCount) => task[t] = EmptyTask
      /\ task = [t \in Tasks |-> task[t]]
  BY DEF Init
<1>3. directPool \in BOOLEAN
  BY DEF Init
<1>4. TableTypes
  <2>1. \A p \in Processes : process[p] \in ProcessRecord
    <3>1. EmptyProcess \in ProcessRecord
      BY DEF ProcessRecord, EmptyProcess, NoId
    <3>2. [state |-> "ready", id |-> KernelId, kind |-> "kernel", root |-> KernelRoot,
           binding |-> FALSE, threads |-> BootCount] \in ProcessRecord
      BY DEF ProcessRecord, KernelId
    <3>3. QED BY <1>1, <3>1, <3>2
  <2>2. ASSUME NEW t \in Tasks
        PROVE  task[t] \in TaskRecord
    <3>1. CASE t < BootCount
      <4> DEFINE s == <<IF directPool THEN "direct" ELSE "bootstrap", t>>
      <4>1. s \in Stacks("direct") \cup Stacks("bootstrap")
        BY DEF Stacks
      <4>2. task[t] = [state |-> "live", pid |-> KernelId, kind |-> "kernel", stack |-> s]
        BY <1>2, <3>1
      <4> HIDE DEF s
      <4>3. [state |-> "live", pid |-> KernelId, kind |-> "kernel", stack |-> s] \in TaskRecord
        BY <4>1 DEF TaskRecord, KernelId
      <4>4. QED BY <4>2, <4>3
    <3>2. CASE ~(t < BootCount)
      BY <1>2, <3>2 DEF TaskRecord, EmptyTask, NoId
    <3>3. QED BY <3>1, <3>2
  <2>3. QED BY <1>1, <1>2, <2>1, <2>2 DEF TableTypes
<1>5. OtherTypes
  BY DEF Init, OtherTypes, CreatorPlaces, NoId
<1>6. Kernel
  BY <1>1, <1>2 DEF Kernel, EmptyTask
<1>7. \A t \in Tasks : Used(t) <=> t < BootCount
  BY <1>2 DEF Used, EmptyTask
<1>8. Identities
  BY <1>1, <1>2, <1>7 DEF Identities, Alive, EmptyProcess, KernelId, NoId
<1>9. \A p \in Processes : p # 0 => ~Owns(p) /\ process[p].state = "unused"
                                      /\ process[p].kind = "none"
  BY <1>1 DEF Owns, EmptyProcess
<1>10. ~Owns(0)
  BY <1>1 DEF Owns
<1>11. Making
  <2>1. creatorPc = "scaffold"
    BY DEF Init
  <2>2. QED BY <1>1, <1>9, <2>1 DEF Making, Claimed, Published
<1>12. Ownership
  <2>1. creatorPc = "scaffold" /\ spaces = {} /\ reply = KernelRoot
    BY DEF Init
  <2>2. \A p \in Processes : ~Owns(p)
    BY <1>9, <1>10
  <2>3. QED BY <1>9, <2>1, <2>2 DEF Ownership, Claimed
<1>13. AtMostOneTransient
  BY <1>1, <1>9 DEF AtMostOneTransient
<1>14. OnProcessor
  BY DEF Init, OnProcessor
<1>15. StackFlags
  <2>1. stacksUsed = {task[t].stack : t \in {u \in Tasks : Used(u)}}
    <3>1. {u \in Tasks : Used(u)} = 0 .. BootCount - 1
      BY <1>7 DEF Tasks
    <3>2. QED BY <3>1 DEF Init
  <2>2. \A t \in Tasks : Used(t) => task[t].stack \in Stacks("direct") \cup Stacks("bootstrap")
    BY <1>2, <1>7 DEF Stacks
  <2>3. ASSUME NEW t \in Tasks, NEW u \in Tasks, Used(t), Used(u), task[t].stack = task[u].stack
        PROVE  t = u
    <3>1. task[t].stack[2] = t /\ task[u].stack[2] = u
      BY <1>2, <1>7, <2>3
    <3>2. QED BY <2>3, <3>1
  <2>4. QED BY <2>1, <2>2, <2>3 DEF StackFlags
<1>16. Counts
  <2>1. IsFiniteSet(boot) /\ Cardinality(boot) = BootCount
    BY FS_Interval
  <2>2. UsedTasks = boot
    BY <1>7 DEF UsedTasks, Tasks
  <2>3. CountedProcesses = {0}
    BY <1>1, <1>9 DEF CountedProcesses, Counted
  <2>4. TasksOf(0) = boot
    BY <1>1, <1>2, <1>7 DEF TasksOf, Tasks
  <2>5. Cardinality({0}) = 1
    BY FS_Singleton
  <2>6. process[0].threads = BootCount
    BY <1>1
  <2>7. processCount = 1 /\ taskCount = BootCount
    BY DEF Init
  <2> HIDE DEF boot
  <2>8. \A p \in Processes : Alive(p) => p = 0
    BY <1>9 DEF Alive
  <2>9. QED BY <2>1, <2>2, <2>3, <2>4, <2>5, <2>6, <2>7, <2>8 DEF Counts
<1>17. QED
  BY <1>4, <1>5, <1>6, <1>8, <1>11, <1>12, <1>13, <1>14, <1>15, <1>16 DEF LifeInv

-----------------------------------------------------------------------------
(* The steps of the lifecycle thread.                                      *)

(* Steps that only move it on while no process is in the making.           *)
LEMMA NothingInTheMaking ==
  ASSUME LifeInv, UNCHANGED <<tables, stacksUsed, spaces, job, slot, newId, reply>>,
         creatorPc \notin Claimed \cup Published,
         creatorPc' \notin Claimed \cup Published
  PROVE  Making' /\ Ownership'
<1> USE DEF LifeInv, tables
<1>1. Making'
  BY DEF Making, Claimed, Published
<1>2. reply = KernelRoot
  BY DEF Ownership, Claimed
<1>3. Ownership'
  BY <1>2 DEF Ownership, Owns
<1>4. QED BY <1>1, <1>3

LEMMA MoveOn ==
  ASSUME LifeInv, cpu = Creator,
         UNCHANGED <<tables, resources, processor, job, slot, newId, reply, userLive>>,
         creatorPc \notin Claimed \cup Published,
         creatorPc' \in CreatorPlaces \ (Claimed \cup Published),
         scaffoldReady' \in BOOLEAN
  PROVE  LifeInv'
<1> USE DEF LifeInv
<1>1. UNCHANGED <<tables, stacksUsed, directPool, spaces>>
  BY DEF resources
<1>2. TableTypes' /\ Kernel' /\ Identities' /\ AtMostOneTransient' /\ Counts' /\ StackFlags'
  BY <1>1, SameTables
<1>3. Making' /\ Ownership'
  BY <1>1, NothingInTheMaking
<1>4. OtherTypes'
  BY <1>1 DEF OtherTypes, processor
<1>5. OnProcessor'
  BY CreatorKeepsProcessor, CreatorRunsInKernel DEF tables
<1>6. QED BY <1>2, <1>3, <1>4, <1>5

LEMMA CreatorMovesOn ==
  ASSUME LifeInv,
         \/ AdvanceScaffold \/ Refrain \/ FinishScaffold
         \/ PrepareScaffold /\ NoProcessSlot("transient")
         \/ CreateTransient /\ NoProcessSlot("sleep")
  PROVE  LifeInv'
<1> USE MoveOn DEF CreatorAt, CreatorPlaces, Claimed, Published, LifeInv, OtherTypes, user
<1>1. CASE AdvanceScaffold
  BY <1>1 DEF AdvanceScaffold
<1>2. CASE Refrain
  BY <1>2 DEF Refrain
<1>3. CASE FinishScaffold
  BY <1>3 DEF FinishScaffold
<1>4. CASE PrepareScaffold /\ NoProcessSlot("transient")
  BY <1>4 DEF PrepareScaffold, NoProcessSlot
<1>5. CASE CreateTransient /\ NoProcessSlot("sleep")
  BY <1>5 DEF CreateTransient, NoProcessSlot
<1>6. QED BY <1>1, <1>2, <1>3, <1>4, <1>5

LEMMA SleepKeepsInv ==
  ASSUME LifeInv, SleepPeriod
  PROVE  LifeInv'
<1> USE DEF LifeInv
<1>1. /\ cpu = Creator /\ creatorPc = "sleep" /\ creatorPc' = "scaffold"
      /\ cpu' = Loop /\ loopPc' = "finish"
      /\ UNCHANGED <<tables, stacksUsed, directPool, spaces, dispatched, activeRoot,
                     job, slot, newId, reply, user>>
  BY DEF SleepPeriod, CreatorAt, BackToLoop, resources
<1>2. TableTypes' /\ Kernel' /\ Identities' /\ AtMostOneTransient' /\ Counts' /\ StackFlags'
  BY <1>1, SameTables
<1>3. Making' /\ Ownership'
  BY <1>1, NothingInTheMaking DEF Claimed, Published
<1>4. OtherTypes'
  BY <1>1 DEF OtherTypes, user, CreatorPlaces
<1>5. OnProcessor'
  BY <1>1, ConstantFacts DEF OnProcessor
<1>6. QED BY <1>2, <1>3, <1>4, <1>5

LEMMA TaskRefusedKeepsInv ==
  ASSUME LifeInv, TaskRefused
  PROVE  LifeInv'
<1> USE DEF LifeInv
<1>1. /\ cpu = Creator /\ creatorPc = "task" /\ creatorPc' = "terminate"
      /\ UNCHANGED <<tables, stacksUsed, directPool, spaces, processor,
                     job, slot, newId, reply, user>>
  BY DEF TaskRefused, CreatorAt, resources
<1>2. TableTypes' /\ Kernel' /\ Identities' /\ AtMostOneTransient' /\ Counts' /\ StackFlags'
  BY <1>1, SameTables
<1>3. Making'
  BY <1>1 DEF Making, Claimed, Published, tables, Used
<1>4. Ownership'
  BY <1>1 DEF Ownership, Claimed, tables, Owns
<1>5. OtherTypes'
  BY <1>1 DEF OtherTypes, user, processor, CreatorPlaces
<1>6. OnProcessor'
  BY <1>1, CreatorKeepsProcessor, CreatorRunsInKernel DEF tables
<1>7. QED BY <1>2, <1>3, <1>4, <1>5, <1>6

(* The process in the making: nobody else has its id, and it has no task.  *)
LEMMA InTheMaking ==
  ASSUME LifeInv, creatorPc \in Claimed \cup Published
  PROVE  /\ slot \in Processes \ {0} /\ process[slot] \in ProcessRecord
         /\ process[slot].state = IF creatorPc \in Claimed THEN "initializing" ELSE "ready"
         /\ process[slot].id = newId /\ newId # NoId
         /\ process[slot].kind # "kernel" /\ process[slot].threads = 0
         /\ job \in {"user", "transient"}
         /\ TasksOf(slot) = {}
         /\ \A t \in Tasks : Used(t) => task[t].pid # newId
         /\ \A q \in Processes : q # slot /\ Alive(q) => process[q].id # newId
<1> USE DEF LifeInv
<1>1. /\ slot \in Processes \ {0} /\ job \in {"user", "transient"}
      /\ process[slot].id = newId
      /\ process[slot].state = IF creatorPc \in Claimed THEN "initializing" ELSE "ready"
      /\ \A t \in Tasks : Used(t) => task[t].pid # newId
  BY DEF Making
<1>2. process[slot] \in ProcessRecord
  BY <1>1 DEF TableTypes
<1>3. Alive(slot)
  BY <1>1 DEF Alive
<1>4. process[slot].kind # "kernel" /\ process[slot].id # NoId
  BY <1>1, <1>3 DEF Identities
<1>5. TasksOf(slot) = {}
  BY <1>1 DEF TasksOf
<1>6. process[slot].threads = 0
  BY <1>1, <1>3, <1>5, FS_EmptySet DEF Counts
<1>7. \A q \in Processes : q # slot /\ Alive(q) => process[q].id # newId
  BY <1>1, <1>3 DEF Identities
<1>8. QED BY <1>1, <1>2, <1>4, <1>5, <1>6, <1>7

(* A step of the lifecycle thread that rewrites the process in the making. *)
LEMMA RewriteSlot ==
  ASSUME LifeInv, cpu = Creator, creatorPc \in Claimed \cup Published,
         NEW r \in ProcessRecord, Rewritten(slot, r),
         UNCHANGED <<task, taskCount, stacksUsed, processor>>,
         processCount' = processCount
                           + (IF r.state \in {"ready", "terminated"} THEN 1 ELSE 0)
                           - (IF Counted(slot) THEN 1 ELSE 0),
         \/ r = EmptyProcess
         \/ r.state # "unused" /\ r.id = newId /\ r.threads = 0 /\ r.kind = process[slot].kind
  PROVE  /\ TableTypes' /\ Kernel' /\ Identities' /\ AtMostOneTransient' /\ Counts'
         /\ StackFlags' /\ OnProcessor'
         /\ process'[slot] = r
         /\ \A q \in Processes : q # slot => process'[q] = process[q]
<1> USE DEF LifeInv
<1>1. /\ slot \in Processes \ {0} /\ process[slot] \in ProcessRecord
      /\ newId # NoId /\ process[slot].kind # "kernel"
      /\ TasksOf(slot) = {}
      /\ \A t \in Tasks : Used(t) => task[t].pid # newId
      /\ \A q \in Processes : q # slot /\ Alive(q) => process[q].id # newId
  BY InTheMaking
<1>2. /\ process'[slot] = r /\ \A q \in Processes : q # slot => process'[q] = process[q]
  BY <1>1 DEF Rewritten, TableTypes
<1>3. r.kind # "kernel" /\ (r.state = "unused" => r = EmptyProcess)
  BY <1>1 DEF EmptyProcess
<1>4. r.state # "unused" => r.id = newId /\ r.threads = 0
  BY DEF EmptyProcess
<1>5. /\ TableTypes' /\ Kernel' /\ Identities'
      /\ \A q \in Processes : Alive(q)' => process'[q].threads = Cardinality(TasksOf(q)')
  BY <1>1, <1>3, <1>4, RewriteTasklessProcess
<1>6. AtMostOneTransient'
  BY <1>2 DEF AtMostOneTransient, EmptyProcess
<1>7. Counts'
  <2>1. processCount' = Cardinality(CountedProcesses)'
    BY <1>1, RewriteCounted DEF Counts
  <2>2. QED BY <1>5, <2>1, CountsFollow
<1>8. StackFlags'
  BY SameTasks
<1>9. OnProcessor'
  <2>1. process'[0] = process[0]
    BY <1>1, <1>2, ConstantFacts
  <2>2. QED BY <2>1, CreatorKeepsProcessor, CreatorRunsInKernel
<1>10. QED BY <1>2, <1>5, <1>6, <1>7, <1>8, <1>9

LEMMA MarkBindingKeepsInv ==
  ASSUME LifeInv, MarkBinding
  PROVE  LifeInv'
<1> USE DEF LifeInv
<1> DEFINE r == [process[slot] EXCEPT !.binding = TRUE]
<1>1. /\ cpu = Creator /\ creatorPc = "bind"
      /\ UNCHANGED <<task, processCount, taskCount, stacksUsed, directPool, spaces, processor,
                     job, slot, newId, reply, user>>
  BY DEF MarkBinding, CreatorAt, resources
<1>2. /\ slot \in Processes \ {0} /\ process[slot] \in ProcessRecord
      /\ process[slot].state = "initializing" /\ process[slot].id = newId
      /\ process[slot].threads = 0
  BY <1>1, InTheMaking DEF Claimed
<1>3. ~process[slot].binding /\ ~Owns(slot)
  BY <1>1 DEF Making, Ownership, Claimed
<1>4. creatorPc' = "request" /\ Rewritten(slot, r)
  BY <1>2, <1>3 DEF MarkBinding, NeedsNoBinding, Rewritten, TableTypes
<1>5. /\ r \in ProcessRecord /\ r.state = "initializing" /\ r.id = newId /\ r.threads = 0
      /\ r.kind = process[slot].kind /\ r.root = process[slot].root
  BY <1>2 DEF ProcessRecord
<1> HIDE DEF r
<1>6. processCount' = processCount + (IF r.state \in {"ready", "terminated"} THEN 1 ELSE 0)
                        - (IF Counted(slot) THEN 1 ELSE 0)
  <2>1. processCount \in Nat
    BY FiniteTables, FS_Subset, FS_CardinalityType DEF Counts, CountedProcesses
  <2>2. QED BY <1>1, <1>2, <1>5, <2>1 DEF Counted
<1>7. /\ TableTypes' /\ Kernel' /\ Identities' /\ AtMostOneTransient' /\ Counts'
      /\ StackFlags' /\ OnProcessor'
      /\ process'[slot] = r
      /\ \A q \in Processes : q # slot => process'[q] = process[q]
  BY <1>1, <1>4, <1>5, <1>6, RewriteSlot DEF Claimed
<1>8. Making'
  BY <1>1, <1>2, <1>4, <1>5, <1>7 DEF Making, Claimed, Published, Used
<1>9. Ownership'
  <2>1. \A q \in Processes : /\ process'[q].root = process[q].root
                             /\ process'[q].state = process[q].state
                             /\ Owns(q)' = Owns(q)
    BY <1>2, <1>5, <1>7 DEF Owns
  <2>2. reply = KernelRoot
    BY <1>1 DEF Ownership
  <2>3. {q \in Processes : Owns(q)}' = {q \in Processes : Owns(q)}
    BY <2>1
  <2>4. spaces' = {process'[p].root : p \in {q \in Processes : Owns(q)}'}
                    \cup ({reply'} \ {KernelRoot})
    BY <1>1, <2>1, <2>3 DEF Ownership
  <2>5. Owns(slot)' = FALSE
    BY <1>1, <1>2, <1>3, <2>1
  <2>6. QED BY <1>1, <1>4, <2>1, <2>2, <2>4, <2>5 DEF Ownership, Claimed
<1>10. OtherTypes'
  BY <1>1, <1>4 DEF OtherTypes, user, processor, CreatorPlaces
<1>11. QED BY <1>7, <1>8, <1>9, <1>10

LEMMA RequestSpaceKeepsInv ==
  ASSUME LifeInv, RequestSpace
  PROVE  LifeInv'
<1> USE DEF LifeInv
<1>1. /\ cpu = Creator /\ creatorPc = "request" /\ creatorPc' = "install"
      /\ UNCHANGED <<tables, stacksUsed, directPool, processor, job, slot, newId, user>>
      /\ \/ reply' \in Spaces \ spaces /\ spaces' = spaces \cup {reply'}
         \/ reply' = KernelRoot /\ spaces' = spaces
  BY DEF RequestSpace, CreatorAt
<1>2. TableTypes' /\ Kernel' /\ Identities' /\ AtMostOneTransient' /\ Counts' /\ StackFlags'
  BY <1>1, SameTables
<1>3. reply = KernelRoot
  BY <1>1 DEF Ownership
<1>4. spaces = {process[p].root : p \in {q \in Processes : Owns(q)}}
  BY <1>3 DEF Ownership
<1>5. Making'
  BY <1>1 DEF Making, Claimed, Published, tables, Used
<1>6. Ownership'
  <2>1. /\ process' = process /\ slot' = slot
        /\ \A q \in Processes : Owns(q)' = Owns(q)
    BY <1>1 DEF tables, Owns
  <2>2. Owns(slot)' = Owns(slot)
    BY <1>1 DEF tables, Owns
  <2>3. ~Owns(slot)
    BY <1>1 DEF Ownership, Claimed
  <2>4. spaces' = spaces \cup ({reply'} \ {KernelRoot})
    BY <1>1, ConstantFacts
  <2>5. {q \in Processes : Owns(q)}' = {q \in Processes : Owns(q)}
    BY <2>1
  <2>6. spaces' = {process'[p].root : p \in {q \in Processes : Owns(q)}'}
                    \cup ({reply'} \ {KernelRoot})
    BY <1>4, <2>1, <2>4, <2>5
  <2>7. ASSUME NEW p \in Processes, Owns(p)
        PROVE  process[p].root # reply'
    BY <1>1, <1>4, <2>7 DEF Owns
  <2>8. QED BY <1>1, <2>1, <2>2, <2>3, <2>6, <2>7 DEF Ownership
<1>7. OtherTypes'
  BY <1>1 DEF OtherTypes, user, processor, CreatorPlaces
<1>8. OnProcessor'
  BY <1>1, CreatorKeepsProcessor, CreatorRunsInKernel DEF tables
<1>9. QED BY <1>2, <1>5, <1>6, <1>7, <1>8

LEMMA CountIsNatural ==
  ASSUME LifeInv
  PROVE  /\ processCount \in Nat /\ IsFiniteSet(CountedProcesses)
         /\ taskCount \in Nat /\ IsFiniteSet(UsedTasks)
         /\ \A p \in Processes : IsFiniteSet(TasksOf(p))
<1>1. IsFiniteSet(CountedProcesses)
  BY FiniteTables, FS_Subset DEF CountedProcesses
<1>2. IsFiniteSet(UsedTasks)
  BY FiniteTables, FS_Subset DEF UsedTasks
<1>3. ASSUME NEW p \in Processes
      PROVE  IsFiniteSet(TasksOf(p))
  BY FiniteTables, FS_Subset DEF TasksOf
<1>4. QED BY <1>1, <1>2, <1>3, FS_CardinalityType DEF LifeInv, Counts

LEMMA InstallSpaceKeepsInv ==
  ASSUME LifeInv, InstallSpace
  PROVE  LifeInv'
<1> USE DEF LifeInv
<1> DEFINE r == process'[slot]
<1>1. /\ cpu = Creator /\ creatorPc = "install" /\ reply' = KernelRoot
      /\ UNCHANGED <<task, processCount, taskCount, stacksUsed, directPool, spaces, processor,
                     job, slot, newId, user>>
  BY DEF InstallSpace, CreatorAt, resources
<1>2. /\ slot \in Processes \ {0} /\ process[slot] \in ProcessRecord
      /\ process[slot].state = "initializing" /\ process[slot].id = newId
      /\ process[slot].threads = 0
  BY <1>1, InTheMaking DEF Claimed
<1>3. /\ process' = [process EXCEPT ![slot].binding = FALSE, ![slot].root = reply]
      /\ creatorPc' = IF reply = KernelRoot THEN "abandon" ELSE "publish"
  BY <1>2 DEF InstallSpace
<1>4. /\ r.state = "initializing" /\ r.id = newId /\ r.threads = 0
      /\ r.kind = process[slot].kind /\ r.root = reply
  BY <1>2, <1>3 DEF TableTypes, ProcessRecord
<1>5. r \in ProcessRecord
  BY <1>2, <1>3 DEF TableTypes, OtherTypes, ProcessRecord
<1>6. Rewritten(slot, r)
  BY <1>2, <1>3 DEF Rewritten, TableTypes
<1> HIDE DEF r
<1>7. processCount' = processCount + (IF r.state \in {"ready", "terminated"} THEN 1 ELSE 0)
                        - (IF Counted(slot) THEN 1 ELSE 0)
  BY <1>1, <1>2, <1>4, CountIsNatural DEF Counted
<1>8. /\ TableTypes' /\ Kernel' /\ Identities' /\ AtMostOneTransient' /\ Counts'
      /\ StackFlags' /\ OnProcessor'
      /\ process'[slot] = r
      /\ \A q \in Processes : q # slot => process'[q] = process[q]
  BY <1>1, <1>4, <1>5, <1>6, <1>7, RewriteSlot DEF Claimed
<1>9. Making'
  BY <1>1, <1>2, <1>3, <1>4, <1>8 DEF Making, Claimed, Published, Used
<1>10. Ownership'
  <2>1. /\ \A q \in Processes : q # slot => Owns(q)' = Owns(q)
        /\ ~Owns(slot)
    BY <1>1, <1>8 DEF Ownership, Claimed, Owns
  <2>2. process'[slot].root = reply /\ slot' = slot
    BY <1>1, <1>4, <1>8
  <2>3. Owns(slot)' <=> creatorPc' = "publish"
    BY <1>3, <2>2 DEF Owns
  <2>4. \A q \in Processes : process'[q].state \in {"ready", "terminated"} /\ q # 0 => Owns(q)'
    BY <1>4, <1>8, <2>1 DEF Ownership
  <2>5. spaces' = {process'[p].root : p \in {q \in Processes : Owns(q)}'}
                    \cup ({reply'} \ {KernelRoot})
    <3>1. CASE reply = KernelRoot
      <4>1. {q \in Processes : Owns(q)}' = {q \in Processes : Owns(q)}
        BY <1>2, <2>1, <2>2, <3>1 DEF Owns
      <4>2. \A q \in Processes : Owns(q) => process'[q].root = process[q].root
        BY <1>8, <2>1
      <4>3. QED BY <1>1, <3>1, <4>1, <4>2 DEF Ownership
    <3>2. CASE reply # KernelRoot
      <4>1. {q \in Processes : Owns(q)}' = {q \in Processes : Owns(q)} \cup {slot}
        BY <1>2, <2>1, <2>2, <3>2 DEF Owns
      <4>2. \A q \in Processes : Owns(q) => process'[q].root = process[q].root
        BY <1>8, <2>1
      <4>3. spaces = {process[p].root : p \in {q \in Processes : Owns(q)}} \cup {reply}
        BY <3>2 DEF Ownership
      <4>4. QED BY <1>1, <2>2, <4>1, <4>2, <4>3
    <3>3. QED BY <3>1, <3>2
  <2>6. ASSUME NEW p \in Processes, NEW q \in Processes, Owns(p)',
               process'[p].root = process'[q].root
        PROVE  p = q
    <3>1. CASE p # slot /\ q # slot
      BY <1>8, <2>1, <2>6, <3>1 DEF Ownership
    <3>2. CASE p = slot /\ q # slot
      <4>1. Owns(q) /\ process[q].root = reply
        BY <1>8, <2>2, <2>6, <3>2 DEF Owns
      <4>2. QED BY <4>1 DEF Ownership
    <3>3. CASE p # slot /\ q = slot
      <4>1. Owns(p) /\ process[p].root = reply
        BY <1>8, <2>1, <2>2, <2>6, <3>3
      <4>2. QED BY <4>1 DEF Ownership
    <3>4. QED BY <3>1, <3>2, <3>3
  <2>7. ASSUME NEW p \in Processes, Owns(p)'
        PROVE  process'[p].root # reply'
    BY <1>1, <2>7 DEF Owns
  <2>8. QED BY <1>1, <1>8, <2>2, <2>3, <2>4, <2>5, <2>6, <2>7 DEF Ownership, Claimed, Owns
<1>11. OtherTypes'
  BY <1>1, <1>3 DEF OtherTypes, user, processor, CreatorPlaces
<1>12. QED BY <1>8, <1>9, <1>10, <1>11

LEMMA PublishKeepsInv ==
  ASSUME LifeInv, PublishProcess
  PROVE  LifeInv'
<1> USE DEF LifeInv
<1> DEFINE r == [process[slot] EXCEPT !.state = "ready"]
<1>1. /\ cpu = Creator /\ creatorPc = "publish" /\ creatorPc' = "task"
      /\ UNCHANGED <<task, taskCount, stacksUsed, directPool, spaces, processor,
                     job, slot, newId, reply, user>>
  BY DEF PublishProcess, CreatorAt, resources
<1>2. /\ slot \in Processes \ {0} /\ process[slot] \in ProcessRecord
      /\ process[slot].state = "initializing" /\ process[slot].id = newId
      /\ process[slot].threads = 0
      /\ \A t \in Tasks : Used(t) => task[t].pid # newId
  BY <1>1, InTheMaking DEF Claimed
<1>3. Rewritten(slot, r)
  BY <1>2 DEF PublishProcess, Rewritten, TableTypes
<1>4. /\ r \in ProcessRecord /\ r.state = "ready" /\ r.id = newId /\ r.threads = 0
      /\ r.kind = process[slot].kind /\ r.root = process[slot].root
      /\ r.binding = process[slot].binding
  BY <1>2 DEF ProcessRecord
<1>5. process'[slot] = r
  BY <1>2, <1>3 DEF Rewritten, TableTypes
<1>6. processCount' = processCount + 1
  BY <1>2, <1>4, <1>5 DEF PublishProcess
<1> HIDE DEF r
<1>7. processCount' = processCount + (IF r.state \in {"ready", "terminated"} THEN 1 ELSE 0)
                        - (IF Counted(slot) THEN 1 ELSE 0)
  BY <1>2, <1>4, <1>6, CountIsNatural DEF Counted
<1>8. /\ TableTypes' /\ Kernel' /\ Identities' /\ AtMostOneTransient' /\ Counts'
      /\ StackFlags' /\ OnProcessor'
      /\ \A q \in Processes : q # slot => process'[q] = process[q]
  BY <1>1, <1>3, <1>4, <1>7, RewriteSlot DEF Claimed
<1>9. Making'
  BY <1>1, <1>2, <1>4, <1>5, <1>8 DEF Making, Claimed, Published, Used
<1>10. Ownership'
  <2>1. \A q \in Processes : process'[q].root = process[q].root /\ Owns(q)' = Owns(q)
    BY <1>4, <1>5, <1>8 DEF Owns
  <2>2. Owns(slot) /\ reply = KernelRoot
    BY <1>1 DEF Ownership, Claimed
  <2>3. {q \in Processes : Owns(q)}' = {q \in Processes : Owns(q)}
    BY <2>1
  <2>4. spaces' = {process'[p].root : p \in {q \in Processes : Owns(q)}'}
                    \cup ({reply'} \ {KernelRoot})
    BY <1>1, <2>1, <2>3 DEF Ownership
  <2>5. \A q \in Processes : process'[q].state \in {"ready", "terminated"} /\ q # 0 => Owns(q)'
    BY <1>8, <2>1, <2>2 DEF Ownership
  <2>6. QED BY <1>1, <2>1, <2>2, <2>4, <2>5 DEF Ownership, Claimed
<1>11. OtherTypes'
  BY <1>1 DEF OtherTypes, user, processor, CreatorPlaces
<1>12. QED BY <1>8, <1>9, <1>10, <1>11

LEMMA AbandonKeepsInv ==
  ASSUME LifeInv, AbandonProcess
  PROVE  LifeInv'
<1> USE DEF LifeInv
<1>1. /\ cpu = Creator /\ creatorPc = "abandon" /\ creatorPc' = AfterJob
      /\ UNCHANGED <<task, taskCount, stacksUsed, directPool, spaces, processor,
                     job, slot, newId, reply, user>>
  BY DEF AbandonProcess, CreatorAt, resources
<1>2. /\ slot \in Processes \ {0} /\ process[slot] \in ProcessRecord
      /\ process[slot].state = "initializing" /\ process[slot].threads = 0
  BY <1>1, InTheMaking DEF Claimed
<1>3. Rewritten(slot, EmptyProcess) /\ processCount' = processCount
  BY <1>2 DEF AbandonProcess, AbandonedSlot, Rewritten, Counted
<1>4. EmptyProcess \in ProcessRecord /\ EmptyProcess.state = "unused"
  BY DEF ProcessRecord, EmptyProcess, NoId
<1>5. processCount' = processCount
                        + (IF EmptyProcess.state \in {"ready", "terminated"} THEN 1 ELSE 0)
                        - (IF Counted(slot) THEN 1 ELSE 0)
  BY <1>2, <1>3, <1>4, CountIsNatural DEF Counted
<1>6. /\ TableTypes' /\ Kernel' /\ Identities' /\ AtMostOneTransient' /\ Counts'
      /\ StackFlags' /\ OnProcessor'
      /\ process'[slot] = EmptyProcess
      /\ \A q \in Processes : q # slot => process'[q] = process[q]
  BY <1>1, <1>3, <1>4, <1>5, RewriteSlot DEF Claimed
<1>7. creatorPc' \in {"transient", "sleep"}
  BY <1>1 DEF AfterJob
<1>8. Making'
  BY <1>1, <1>4, <1>6, <1>7 DEF Making, Claimed, Published
<1>9. Ownership'
  <2>1. ~Owns(slot) /\ reply = KernelRoot
    BY <1>1 DEF Ownership, Claimed
  <2>2. \A q \in Processes : Owns(q)' = Owns(q) /\ (Owns(q) => process'[q].root = process[q].root)
    BY <1>6, <2>1 DEF Owns, EmptyProcess
  <2>3. {q \in Processes : Owns(q)}' = {q \in Processes : Owns(q)}
    BY <2>2
  <2>4. spaces' = {process'[p].root : p \in {q \in Processes : Owns(q)}'}
                    \cup ({reply'} \ {KernelRoot})
    BY <1>1, <2>2, <2>3 DEF Ownership
  <2>5. \A q \in Processes : process'[q].state \in {"ready", "terminated"} /\ q # 0 => Owns(q)'
    BY <1>4, <1>6, <2>2 DEF Ownership
  <2>6. ASSUME NEW p \in Processes, NEW q \in Processes, Owns(p)',
               process'[p].root = process'[q].root
        PROVE  p = q
    <3>1. Owns(p) /\ Owns(q)'
      BY <2>2, <2>6 DEF Owns
    <3>2. QED BY <2>2, <2>6, <3>1 DEF Ownership
  <2>7. QED BY <1>1, <1>7, <2>1, <2>2, <2>4, <2>5, <2>6 DEF Ownership, Claimed, Owns
<1>10. OtherTypes'
  BY <1>1, <1>7 DEF OtherTypes, user, processor, CreatorPlaces
<1>11. QED BY <1>6, <1>8, <1>9, <1>10

LEMMA TerminateKeepsInv ==
  ASSUME LifeInv, MarkProcessTerminated
  PROVE  LifeInv'
<1> USE DEF LifeInv
<1> DEFINE r == [process[slot] EXCEPT !.state = "terminated"]
<1>1. /\ cpu = Creator /\ creatorPc = "terminate" /\ creatorPc' = AfterJob
      /\ UNCHANGED <<task, processCount, taskCount, stacksUsed, directPool, spaces, processor,
                     job, slot, newId, reply, user>>
  BY DEF MarkProcessTerminated, CreatorAt, resources
<1>2. /\ slot \in Processes \ {0} /\ process[slot] \in ProcessRecord
      /\ process[slot].state = "ready" /\ process[slot].id = newId
      /\ process[slot].threads = 0 /\ process[slot].kind # "kernel"
      /\ \A q \in Processes : q # slot /\ Alive(q) => process[q].id # newId
  BY <1>1, InTheMaking DEF Claimed, Published
<1>3. FindReady(newId) = {slot}
  BY <1>2 DEF FindReady, Alive
<1>4. Rewritten(slot, r)
  BY <1>2, <1>3 DEF MarkProcessTerminated, Rewritten, TableTypes
<1>5. /\ r \in ProcessRecord /\ r.state = "terminated" /\ r.id = newId /\ r.threads = 0
      /\ r.kind = process[slot].kind /\ r.root = process[slot].root
  BY <1>2 DEF ProcessRecord
<1> HIDE DEF r
<1>6. processCount' = processCount + (IF r.state \in {"ready", "terminated"} THEN 1 ELSE 0)
                        - (IF Counted(slot) THEN 1 ELSE 0)
  BY <1>1, <1>2, <1>5, CountIsNatural DEF Counted
<1>7. /\ TableTypes' /\ Kernel' /\ Identities' /\ AtMostOneTransient' /\ Counts'
      /\ StackFlags' /\ OnProcessor'
      /\ process'[slot] = r
      /\ \A q \in Processes : q # slot => process'[q] = process[q]
  BY <1>1, <1>4, <1>5, <1>6, RewriteSlot DEF Published
<1>8. creatorPc' \in {"transient", "sleep"}
  BY <1>1 DEF AfterJob
<1>9. Making'
  BY <1>1, <1>5, <1>7, <1>8 DEF Making, Claimed, Published
<1>10. Ownership'
  <2>1. \A q \in Processes : process'[q].root = process[q].root /\ Owns(q)' = Owns(q)
    BY <1>5, <1>7 DEF Owns
  <2>2. Owns(slot) /\ reply = KernelRoot
    BY <1>1, <1>2 DEF Ownership
  <2>3. {q \in Processes : Owns(q)}' = {q \in Processes : Owns(q)}
    BY <2>1
  <2>4. spaces' = {process'[p].root : p \in {q \in Processes : Owns(q)}'}
                    \cup ({reply'} \ {KernelRoot})
    BY <1>1, <2>1, <2>3 DEF Ownership
  <2>5. \A q \in Processes : process'[q].state \in {"ready", "terminated"} /\ q # 0 => Owns(q)'
    BY <1>7, <2>1, <2>2 DEF Ownership
  <2>6. QED BY <1>1, <1>8, <2>1, <2>2, <2>4, <2>5 DEF Ownership, Claimed
<1>11. OtherTypes'
  BY <1>1, <1>8 DEF OtherTypes, user, processor, CreatorPlaces
<1>12. QED BY <1>7, <1>9, <1>10, <1>11

(* CreateProcess claims the first free slot, under a number nobody holds.  *)
LEMMA ClaimKeepsInv ==
  ASSUME LifeInv, cpu = Creator, creatorPc \in {"scaffold", "transient"},
         NEW kind \in {"user", "transient"},
         kind = "transient" => ~HasActiveTransientProcess,
         ClaimProcess(kind)
  PROVE  LifeInv'
<1> USE DEF LifeInv
<1> DEFINE p == Least(FreeProcesses)
           r == [EmptyProcess EXCEPT !.state = ClaimedState, !.id = FreshId, !.kind = kind]
<1>1. /\ FreeProcesses # {}
      /\ process' = [process EXCEPT ![p] = r]
      /\ slot' = p /\ newId' = FreshId /\ job' = kind /\ creatorPc' = "bind"
      /\ UNCHANGED <<task, processCount, taskCount, stacksUsed, directPool, spaces, processor,
                     reply, user>>
  BY DEF ClaimProcess, resources
<1>2. p \in Processes \ {0} /\ ~Alive(p)
  <2>1. FreeProcesses \in SUBSET Nat
    BY ConstantFacts DEF FreeProcesses
  <2>2. p \in FreeProcesses
    BY <1>1, <2>1, LeastIsMember
  <2>3. QED BY <2>2 DEF FreeProcesses, Alive, Kernel
<1>3. FreshId \in Nat /\ FreshId # NoId /\ FreshId \notin HeldIds
  BY FreshIdIsFresh DEF OtherTypes
<1>4. /\ r.state = "initializing" /\ r.id = FreshId /\ r.kind = kind
      /\ r.root = KernelRoot /\ r.binding = FALSE /\ r.threads = 0
  BY DEF EmptyProcess, ClaimedState
<1>5. r \in ProcessRecord
  BY <1>3 DEF ProcessRecord, EmptyProcess, ClaimedState
<1> HIDE DEF p, r
<1>6. Rewritten(p, r)
  BY <1>1 DEF Rewritten
<1>7. /\ process'[p] = r /\ \A q \in Processes : q # p => process'[q] = process[q]
  BY <1>1, <1>2 DEF TableTypes
<1>8. /\ \A q \in Processes : process[q].id # FreshId
      /\ \A t \in Tasks : task[t].pid # FreshId
  BY <1>3 DEF HeldIds
<1>9. /\ TableTypes' /\ Kernel' /\ Identities'
      /\ \A q \in Processes : Alive(q)' => process'[q].threads = Cardinality(TasksOf(q)')
  <2>1. r.state # "unused" /\ r.kind # "kernel"
    BY <1>4
  <2>2. /\ r.id # NoId /\ r.threads = 0
        /\ \A q \in Processes : q # p /\ Alive(q) => process[q].id # r.id
        /\ \A t \in Tasks : Used(t) => task[t].pid # r.id
    BY <1>3, <1>4, <1>8
  <2>3. QED BY <1>1, <1>2, <1>5, <1>6, <2>1, <2>2, RewriteTasklessProcess
<1>10. Counts'
  <2>1. ~Counted(p) /\ r.state \notin {"ready", "terminated"}
    BY <1>2, <1>4 DEF Alive, Counted
  <2>2. Cardinality(CountedProcesses)' = processCount + 0 - 0
    BY <1>2, <1>5, <1>6, <2>1, RewriteCounted DEF Counts
  <2>3. processCount' = Cardinality(CountedProcesses)'
    BY <1>1, <2>2, CountIsNatural
  <2>4. QED BY <1>1, <1>9, <2>3, CountsFollow
<1>11. AtMostOneTransient'
  <2>1. CASE kind = "transient"
    <3>1. \A q \in Processes : process[q].kind # "transient"
      BY <2>1 DEF HasActiveTransientProcess, Identities, Alive, EmptyProcess
    <3>2. QED BY <1>7, <3>1 DEF AtMostOneTransient
  <2>2. CASE kind = "user"
    BY <1>4, <1>7, <2>2 DEF AtMostOneTransient
  <2>3. QED BY <2>1, <2>2
<1>12. StackFlags'
  BY <1>1, SameTasks
<1>13. OnProcessor'
  <2>1. process'[0] = process[0]
    BY <1>2, <1>7, ConstantFacts
  <2>2. QED BY <1>1, <2>1, CreatorKeepsProcessor, CreatorRunsInKernel
<1>14. Making'
  <2>1. \A q \in Processes : process[q].state # "initializing"
    BY DEF Making, Claimed
  <2>2. \A t \in Tasks : task'[t].pid # newId'
    BY <1>1, <1>8
  <2>3. QED BY <1>1, <1>2, <1>4, <1>7, <2>1, <2>2 DEF Making, Claimed, Published
<1>15. Ownership'
  <2>1. reply = KernelRoot
    BY DEF Ownership
  <2>2. ~Owns(p)
    BY <1>2 DEF Identities, EmptyProcess, Owns
  <2>3. \A q \in Processes : process'[q].root = process[q].root /\ Owns(q)' = Owns(q)
    BY <1>4, <1>7, <2>2 DEF Owns
  <2>4. {q \in Processes : Owns(q)}' = {q \in Processes : Owns(q)}
    BY <2>3
  <2>5. spaces' = {process'[u].root : u \in {q \in Processes : Owns(q)}'}
                    \cup ({reply'} \ {KernelRoot})
    BY <1>1, <2>3, <2>4 DEF Ownership
  <2>6. \A q \in Processes : process'[q].state \in {"ready", "terminated"} /\ q # 0 => Owns(q)'
    BY <1>4, <1>7, <2>3 DEF Ownership
  <2>7. Owns(slot)' = FALSE
    BY <1>1, <1>4, <1>7 DEF Owns
  <2>8. QED BY <1>1, <2>1, <2>3, <2>5, <2>6, <2>7 DEF Ownership
<1>16. OtherTypes'
  BY <1>1, <1>2, <1>3 DEF OtherTypes, user, processor, CreatorPlaces
<1>17. QED BY <1>9, <1>10, <1>11, <1>12, <1>13, <1>14, <1>15, <1>16

LEMMA AllocatedStackIsFree ==
  ASSUME FreeStacks # {}
  PROVE  AllocatedStack \in FreeStacks
<1> DEFINE pool == IF \E s \in FreeStacks : s[1] = "direct" THEN "direct" ELSE "bootstrap"
           offers == FreeStacks \cap Stacks(pool)
           indexes == {s[2] : s \in offers}
<1>1. FreeStacks \subseteq Stacks("direct") \cup Stacks("bootstrap")
  BY DEF FreeStacks
<1>2. \A s \in FreeStacks : /\ s[1] \in {"direct", "bootstrap"} /\ s \in Stacks(s[1])
                            /\ s[2] \in Nat
  BY <1>1, ConstantFacts DEF Stacks
<1>3. offers # {}
  <2>1. CASE \E s \in FreeStacks : s[1] = "direct"
    BY <1>2, <2>1
  <2>2. CASE ~\E s \in FreeStacks : s[1] = "direct"
    BY <1>2, <2>2
  <2>3. QED BY <2>1, <2>2
<1>4. indexes \in SUBSET Nat /\ indexes # {}
  BY <1>2, <1>3
<1> HIDE DEF indexes
<1>5. Least(indexes) \in indexes
  BY <1>4, LeastIsMember
<1>6. PICK s \in offers : s[2] = Least(indexes)
  BY <1>5 DEF indexes
<1>7. s = <<pool, Least(indexes)>>
  BY <1>6 DEF Stacks
<1>8. AllocatedStack = <<pool, Least(indexes)>>
  BY DEF AllocatedStack, indexes
<1>9. QED BY <1>6, <1>7, <1>8

(* CreateTask: the one thread of the process just published.               *)
LEMMA CreateTaskKeepsInv ==
  ASSUME LifeInv, CreateTask
  PROVE  LifeInv'
<1> USE DEF LifeInv
<1> DEFINE t == Least(FreeTasks)
           s == AllocatedStack
           r == [process[slot] EXCEPT !.threads = 1]
           e == [state |-> IF job = "user" THEN "held" ELSE "live",
                 pid |-> newId, kind |-> job, stack |-> s]
<1>1. /\ cpu = Creator /\ creatorPc = "task" /\ TaskPossible
      /\ task' = [task EXCEPT ![t] = e]
      /\ stacksUsed' = stacksUsed \cup {s} /\ taskCount' = taskCount + 1
      /\ creatorPc' \in {"prepare", "sleep"}
      /\ UNCHANGED <<processCount, directPool, spaces, processor, job, slot, newId, reply, user>>
  BY DEF CreateTask, CreatorAt
<1>2. /\ slot \in Processes \ {0} /\ process[slot] \in ProcessRecord
      /\ process[slot].state = "ready" /\ process[slot].id = newId /\ newId # NoId
      /\ process[slot].kind # "kernel" /\ process[slot].threads = 0
      /\ job \in {"user", "transient"} /\ TasksOf(slot) = {}
      /\ \A u \in Tasks : Used(u) => task[u].pid # newId
      /\ \A q \in Processes : q # slot /\ Alive(q) => process[q].id # newId
  BY <1>1, InTheMaking DEF Claimed, Published
<1>3. t \in Tasks /\ ~Used(t)
  <2>1. FreeTasks \in SUBSET Nat /\ FreeTasks # {}
    BY <1>1, ConstantFacts DEF FreeTasks, TaskPossible
  <2>2. t \in FreeTasks
    BY <2>1, LeastIsMember
  <2>3. QED BY <2>2 DEF FreeTasks
<1>4. /\ s \in Stacks("direct") \cup Stacks("bootstrap") /\ s \notin stacksUsed
  <2>1. s \in FreeStacks
    BY <1>1, AllocatedStackIsFree DEF TaskPossible
  <2>2. QED BY <2>1 DEF FreeStacks
<1>5. process' = [process EXCEPT ![slot] = r]
  <2>1. FindReady(newId) = {slot}
    BY <1>2 DEF FindReady, Alive
  <2>2. process' = [process EXCEPT ![slot].threads = process[slot].threads + 1]
    BY <2>1 DEF CreateTask
  <2>3. QED BY <1>2, <2>2
<1>6. /\ r \in ProcessRecord /\ r.state = "ready" /\ r.id = newId /\ r.threads = 1
      /\ r.kind = process[slot].kind /\ r.root = process[slot].root
  BY <1>2 DEF ProcessRecord
<1>7. /\ e.state \in {"held", "live"} /\ e.pid = newId /\ e.kind # "kernel" /\ e.stack = s
  BY <1>2
<1> HIDE DEF s
<1>8. e \in TaskRecord
  BY <1>2, <1>4 DEF TaskRecord, OtherTypes
<1> HIDE DEF t, r, e
<1>9. /\ process'[slot] = r /\ \A q \in Processes : q # slot => process'[q] = process[q]
      /\ process' \in [Processes -> ProcessRecord]
  BY <1>2, <1>5, <1>6 DEF TableTypes
<1>10. /\ task'[t] = e /\ \A u \in Tasks : u # t => task'[u] = task[u]
       /\ task' \in [Tasks -> TaskRecord]
  BY <1>1, <1>3, <1>8 DEF TableTypes
<1>11. \A u \in Tasks : Used(u)' <=> Used(u) \/ u = t
  BY <1>7, <1>10 DEF Used
<1>12. TableTypes'
  BY <1>9, <1>10 DEF TableTypes
<1>13. ~(t < BootCount)
  BY <1>3 DEF Kernel, Used
<1>14. Kernel'
  BY <1>2, <1>7, <1>9, <1>10, <1>13, ConstantFacts DEF Kernel
<1>15. \A q \in Processes : /\ process'[q].state = process[q].state
                            /\ process'[q].id = process[q].id
                            /\ process'[q].kind = process[q].kind
                            /\ process'[q].root = process[q].root
                            /\ Alive(q)' = Alive(q) /\ Owns(q)' = Owns(q)
  BY <1>2, <1>6, <1>9 DEF Alive, Owns
<1>16. Identities'
  <2>1. ASSUME NEW q \in Processes
        PROVE  /\ process'[q].kind = "kernel" => q = 0
               /\ IF Alive(q)' THEN process'[q].id # NoId ELSE process'[q] = EmptyProcess
    BY <1>2, <1>9, <1>15 DEF Identities, Alive
  <2>2. ASSUME NEW u \in Tasks, Used(u)'
        PROVE  \E q \in Processes : process'[q].state = "ready" /\ process'[q].id = task'[u].pid
    <3>1. CASE u = t
      BY <1>2, <1>6, <1>7, <1>9, <1>10, <3>1
    <3>2. CASE u # t
      BY <1>10, <1>11, <1>15, <2>2, <3>2 DEF Identities
    <3>3. QED BY <3>1, <3>2
  <2>3. QED BY <1>15, <2>1, <2>2 DEF Identities
<1>17. Making'
  BY <1>1, <1>15 DEF Making, Claimed, Published
<1>18. Ownership'
  <2>1. reply = KernelRoot
    BY <1>1 DEF Ownership
  <2>2. {q \in Processes : Owns(q)}' = {q \in Processes : Owns(q)}
    BY <1>15
  <2>3. spaces' = {process'[u].root : u \in {q \in Processes : Owns(q)}'}
                    \cup ({reply'} \ {KernelRoot})
    BY <1>1, <1>15, <2>2 DEF Ownership
  <2>4. QED BY <1>1, <1>15, <2>1, <2>3 DEF Ownership, Claimed
<1>19. AtMostOneTransient'
  BY <1>15 DEF AtMostOneTransient
<1>20. OnProcessor'
  <2>1. process'[0] = process[0]
    BY <1>2, <1>9, ConstantFacts
  <2>2. task'[Creator] = task[Creator]
    BY <1>10, <1>13, ConstantFacts
  <2>3. QED BY <1>1, <2>1, <2>2, CreatorKeepsProcessor, CreatorRunsInKernel
<1>21. StackFlags'
  <2>1. \A u \in Tasks : Used(u) => task[u].stack \in stacksUsed
    BY DEF StackFlags
  <2>2. stacksUsed' = {task'[u].stack : u \in {v \in Tasks : Used(v)}'}
    <3>1. {v \in Tasks : Used(v)}' = {v \in Tasks : Used(v)} \cup {t}
      BY <1>3, <1>11
    <3>2. \A v \in Tasks : Used(v) => task'[v].stack = task[v].stack
      BY <1>3, <1>10
    <3>3. task'[t].stack = s
      BY <1>7, <1>10
    <3>4. QED BY <1>1, <3>1, <3>2, <3>3 DEF StackFlags
  <2>3. \A u \in Tasks : Used(u)' =>
          task'[u].stack \in Stacks("direct") \cup Stacks("bootstrap")
    BY <1>4, <1>7, <1>10, <1>11 DEF StackFlags
  <2>4. ASSUME NEW u \in Tasks, NEW v \in Tasks, Used(u)', Used(v)',
               task'[u].stack = task'[v].stack
        PROVE  u = v
    BY <1>3, <1>4, <1>7, <1>10, <1>11, <2>1, <2>4 DEF StackFlags
  <2>5. QED BY <2>2, <2>3, <2>4 DEF StackFlags
<1>22. Counts'
  <2>1. CountedProcesses' = CountedProcesses
    BY <1>15 DEF CountedProcesses, Counted
  <2>2. UsedTasks' = UsedTasks \cup {t} /\ t \notin UsedTasks
    BY <1>3, <1>11 DEF UsedTasks
  <2>3. Cardinality(UsedTasks)' = Cardinality(UsedTasks) + 1
    BY <2>2, CountIsNatural, FS_AddElement
  <2>4. ASSUME NEW q \in Processes, Alive(q)'
        PROVE  process'[q].threads = Cardinality(TasksOf(q)')
    <3>1. CASE q = slot
      <4>1. TasksOf(q)' = {t}
        BY <1>2, <1>3, <1>6, <1>7, <1>9, <1>10, <1>11, <3>1 DEF TasksOf
      <4>2. QED BY <1>6, <1>9, <3>1, <4>1, FS_Singleton
    <3>2. CASE q # slot
      <4>1. Alive(q) /\ process[q].id # newId
        BY <1>2, <1>15, <2>4, <3>2
      <4>2. TasksOf(q)' = TasksOf(q)
        BY <1>3, <1>7, <1>10, <1>11, <1>15, <4>1 DEF TasksOf
      <4>3. QED BY <1>9, <3>2, <4>1, <4>2 DEF Counts
    <3>3. QED BY <3>1, <3>2
  <2>5. QED BY <1>1, <2>1, <2>3, <2>4 DEF Counts
<1>23. OtherTypes'
  BY <1>1 DEF OtherTypes, user, processor, CreatorPlaces
<1>24. QED
  BY <1>12, <1>14, <1>16, <1>17, <1>18, <1>19, <1>20, <1>21, <1>22, <1>23

-----------------------------------------------------------------------------
(* Steps that only move a task on in its life.                             *)

LEMMA TaskStateMoves ==
  ASSUME LifeInv, UNCHANGED <<process, processCount, taskCount, stacksUsed>>,
         NEW t \in Tasks, NEW st \in {"live", "terminated"},
         Used(t), task[t].kind # "kernel",
         task' = [task EXCEPT ![t].state = st]
  PROVE  /\ TableTypes' /\ Kernel' /\ Identities' /\ AtMostOneTransient' /\ StackFlags'
         /\ Counts'
         /\ \A u \in Tasks : /\ task'[u].pid = task[u].pid /\ task'[u].kind = task[u].kind
                             /\ Used(u)' = Used(u) /\ (u # t => task'[u] = task[u])
<1> USE DEF LifeInv
<1>1. /\ task' \in [Tasks -> TaskRecord]
      /\ task'[t].state = st /\ \A u \in Tasks : u # t => task'[u] = task[u]
      /\ task'[t].pid = task[t].pid /\ task'[t].kind = task[t].kind
      /\ task'[t].stack = task[t].stack
  BY DEF TableTypes, TaskRecord
<1>2. \A u \in Tasks : /\ task'[u].pid = task[u].pid /\ task'[u].kind = task[u].kind
                       /\ task'[u].stack = task[u].stack
                       /\ Used(u)' = Used(u)
  BY <1>1 DEF Used
<1>3. TableTypes'
  BY <1>1 DEF TableTypes
<1>4. ~(t < BootCount)
  BY DEF Kernel
<1>5. Kernel'
  BY <1>1, <1>2, <1>4 DEF Kernel
<1>6. Identities'
  BY <1>2 DEF Identities, Alive
<1>7. AtMostOneTransient'
  BY DEF AtMostOneTransient
<1>8. StackFlags'
  <2>1. {v \in Tasks : Used(v)}' = {v \in Tasks : Used(v)}
    BY <1>2
  <2>2. stacksUsed' = {task'[u].stack : u \in {v \in Tasks : Used(v)}'}
    BY <1>2, <2>1 DEF StackFlags
  <2>3. QED BY <1>2, <2>2 DEF StackFlags
<1>9. Counts'
  <2>1. CountedProcesses' = CountedProcesses /\ UsedTasks' = UsedTasks
    BY <1>2 DEF CountedProcesses, Counted, UsedTasks
  <2>2. \A p \in Processes : TasksOf(p)' = TasksOf(p) /\ Alive(p)' = Alive(p)
    BY <1>2 DEF TasksOf, Alive
  <2>3. QED BY <2>1, <2>2 DEF Counts
<1>10. QED BY <1>1, <1>2, <1>3, <1>5, <1>6, <1>7, <1>8, <1>9

LEMMA MarkLiveKeepsInv ==
  ASSUME LifeInv, NEW t \in Tasks, MarkLive(t)
  PROVE  LifeInv'
<1> USE DEF LifeInv
<1>1. /\ cpu = Creator /\ creatorPc = "scaffold" /\ creatorPc' = "transient"
      /\ task[t].state = "held" /\ task' = [task EXCEPT ![t].state = "live"]
      /\ userLive' = TRUE
      /\ UNCHANGED <<process, processCount, taskCount, stacksUsed, directPool, spaces, processor,
                     job, slot, newId, reply, scaffoldReady>>
  BY DEF MarkLive, CreatorAt, resources
<1>2. Used(t) /\ task[t].kind # "kernel"
  BY <1>1 DEF Used, Kernel
<1>3. /\ TableTypes' /\ Kernel' /\ Identities' /\ AtMostOneTransient' /\ StackFlags' /\ Counts'
      /\ \A u \in Tasks : u # t => task'[u] = task[u]
  BY <1>1, <1>2, TaskStateMoves
<1>4. Making'
  BY <1>1 DEF Making, Claimed, Published
<1>5. Ownership'
  BY <1>1 DEF Ownership, Claimed, Owns
<1>6. OtherTypes'
  BY <1>1 DEF OtherTypes, processor, CreatorPlaces
<1>7. OnProcessor'
  <2>1. Creator # t
    BY <1>1, CreatorRunsInKernel
  <2>2. task'[Creator] = task[Creator]
    BY <1>3, <2>1, ConstantFacts
  <2>3. QED BY <1>1, <2>2, CreatorKeepsProcessor, CreatorRunsInKernel
<1>8. QED BY <1>3, <1>4, <1>5, <1>6, <1>7

LEMMA LeaveKeepsInv ==
  ASSUME LifeInv, NEW t \in Tasks, Leave(t)
  PROVE  LifeInv'
<1> USE DEF LifeInv
<1>1. /\ cpu' = Loop /\ loopPc' = "finish"
      /\ UNCHANGED <<tables, stacksUsed, directPool, spaces, dispatched, activeRoot,
                     creatorPc, job, slot, newId, reply, user>>
  BY DEF Leave, BackToLoop, resources, creation
<1>2. TableTypes' /\ Kernel' /\ Identities' /\ AtMostOneTransient' /\ Counts' /\ StackFlags'
  BY <1>1, SameTables
<1>3. Making'
  BY <1>1 DEF Making, Claimed, Published, tables, Used
<1>4. Ownership'
  BY <1>1 DEF Ownership, Claimed, tables, Owns
<1>5. OtherTypes'
  BY <1>1 DEF OtherTypes, user
<1>6. OnProcessor'
  BY <1>1, ConstantFacts DEF OnProcessor
<1>7. QED BY <1>2, <1>3, <1>4, <1>5, <1>6

LEMMA EndKeepsInv ==
  ASSUME LifeInv, NEW t \in Tasks, Exit(t) \/ Trap(t)
  PROVE  LifeInv'
<1> USE DEF LifeInv
<1>1. /\ cpu = t /\ cpu' = Loop /\ loopPc' = "finish"
      /\ task[t].kind # "kernel"
      /\ task' = [task EXCEPT ![t].state = "terminated"]
      /\ UNCHANGED <<process, processCount, taskCount, stacksUsed, directPool, spaces,
                     dispatched, activeRoot, creatorPc, job, slot, newId, reply, user>>
  BY DEF Exit, Trap, BackToLoop, resources, creation
<1>2. Used(t)
  BY <1>1, ConstantFacts DEF OnProcessor, Used
<1>3. /\ TableTypes' /\ Kernel' /\ Identities' /\ AtMostOneTransient' /\ StackFlags' /\ Counts'
      /\ \A u \in Tasks : Used(u)' = Used(u) /\ task'[u].pid = task[u].pid
  BY <1>1, <1>2, TaskStateMoves
<1>4. Making'
  BY <1>1, <1>3 DEF Making, Claimed, Published
<1>5. Ownership'
  BY <1>1 DEF Ownership, Claimed, Owns
<1>6. OtherTypes'
  BY <1>1 DEF OtherTypes, user
<1>7. OnProcessor'
  BY <1>1, ConstantFacts DEF OnProcessor
<1>8. QED BY <1>3, <1>4, <1>5, <1>6, <1>7

-----------------------------------------------------------------------------
(* The steps of the dispatch loop.                                         *)

(* What CleanupTerminatedTasks finds: the terminated tasks of a process    *)
(* are some of its tasks, and they are all of them only when its last      *)
(* threads go.                                                             *)
LEMMA LostThreads ==
  ASSUME LifeInv, NEW p \in Processes
  PROVE  /\ ThreadsLost(p) \in Nat
         /\ process[p].state # "ready" => ThreadsLost(p) = 0
         /\ TasksOf(p) \cap Terminated = {} => ThreadsLost(p) = 0
         /\ Alive(p) =>
              /\ ThreadsLost(p) <= process[p].threads
              /\ process[p].threads - ThreadsLost(p) = Cardinality(TasksOf(p) \ Terminated)
              /\ process[p].threads = ThreadsLost(p) => TasksOf(p) \subseteq Terminated
<1> USE DEF LifeInv
<1> DEFINE lost == {t \in Terminated : p \in FindReady(task[t].pid)}
<1>1. lost = IF process[p].state = "ready" THEN TasksOf(p) \cap Terminated ELSE {}
  BY DEF FindReady, TasksOf, Terminated, Used
<1>2. ThreadsLost(p) = Cardinality(lost)
  BY DEF ThreadsLost
<1> HIDE DEF lost
<1>3. process[p].state # "ready" => ThreadsLost(p) = 0
  BY <1>1, <1>2, FS_EmptySet
<1>4. TasksOf(p) \cap Terminated = {} => ThreadsLost(p) = 0
  BY <1>1, <1>2, FS_EmptySet
<1>5. IsFiniteSet(TasksOf(p)) /\ Cardinality(TasksOf(p)) \in Nat
  BY CountIsNatural, FS_CardinalityType
<1>6. lost \subseteq TasksOf(p) /\ IsFiniteSet(lost) /\ Cardinality(lost) \in Nat
  BY <1>1, <1>5, FS_Subset, FS_EmptySet, FS_CardinalityType
<1>7. ASSUME Alive(p)
      PROVE  /\ ThreadsLost(p) <= process[p].threads
             /\ process[p].threads - ThreadsLost(p) = Cardinality(TasksOf(p) \ Terminated)
             /\ process[p].threads = ThreadsLost(p) => TasksOf(p) \subseteq Terminated
  <2>1. TasksOf(p) \cap lost = lost /\ TasksOf(p) \ lost = TasksOf(p) \ Terminated
    <3>1. CASE process[p].state = "ready"
      BY <1>1, <3>1
    <3>2. CASE process[p].state # "ready"
      BY <1>1, <1>7, <3>2, OnlyReadyHasTasks
    <3>3. QED BY <3>1, <3>2
  <2>2. process[p].threads = Cardinality(TasksOf(p))
    BY <1>7 DEF Counts
  <2>3. Cardinality(TasksOf(p) \ lost) = Cardinality(TasksOf(p)) - Cardinality(lost)
    BY <1>5, <2>1, FS_Difference
  <2>4. Cardinality(lost) <= Cardinality(TasksOf(p))
    BY <1>5, <1>6, FS_Subset
  <2>5. Cardinality(TasksOf(p)) = Cardinality(lost) => TasksOf(p) = lost
    BY <1>5, <1>6, FS_Subset
  <2>6. QED BY <1>2, <2>1, <2>2, <2>3, <2>4, <2>5
<1>8. QED BY <1>2, <1>3, <1>4, <1>6, <1>7

LEMMA CleanupTasksKeepsInv ==
  ASSUME LifeInv, CleanupTerminatedTasks
  PROVE  LifeInv'
<1> USE DEF LifeInv
<1>1. /\ cpu = Loop /\ loopPc = "tasks" /\ loopPc' = "processes"
      /\ process' = [p \in Processes |-> AfterThreadsLost(p)]
      /\ task' = [t \in Tasks |-> IF t \in Terminated THEN EmptyTask ELSE task[t]]
      /\ taskCount' = taskCount - Cardinality(Terminated)
      /\ stacksUsed' = stacksUsed \ ReleasedStacks
      /\ UNCHANGED <<processCount, directPool, spaces, cpu, dispatched, activeRoot,
                     creatorPc, job, slot, newId, reply, user>>
  BY DEF CleanupTerminatedTasks, creation
<1>2. \A p \in Processes : process[p] \in ProcessRecord
  BY DEF TableTypes
<1>3. ASSUME NEW p \in Processes
      PROVE  /\ process'[p].state =
                  IF ThreadsLost(p) > 0 /\ process[p].threads = ThreadsLost(p)
                       /\ process[p].kind # "kernel"
                  THEN "terminated" ELSE process[p].state
             /\ process'[p].threads = process[p].threads - ThreadsLost(p)
             /\ process'[p].id = process[p].id /\ process'[p].kind = process[p].kind
             /\ process'[p].root = process[p].root /\ process'[p].binding = process[p].binding
  BY <1>1, <1>2 DEF AfterThreadsLost, ProcessRecord
<1>4. ASSUME NEW p \in Processes, ThreadsLost(p) = 0
      PROVE  process'[p] = process[p]
  <2>1. process[p].threads - ThreadsLost(p) = process[p].threads
    BY <1>2, <1>4 DEF ProcessRecord
  <2>2. ~(ThreadsLost(p) > 0)
    BY <1>4
  <2>3. AfterThreadsLost(p) = [process[p] EXCEPT !.threads = process[p].threads,
                                                 !.state = process[p].state]
    BY <1>2, <2>1, <2>2 DEF AfterThreadsLost, ProcessRecord
  <2>4. QED BY <1>1, <1>2, <2>3 DEF ProcessRecord
<1>5. ASSUME NEW p \in Processes
      PROVE  /\ process'[p] \in ProcessRecord
             /\ Alive(p)' = Alive(p) /\ Owns(p)' = Owns(p) /\ Counted(p)' = Counted(p)
  <2>1. CASE process[p].state = "ready"
    <3>1. ThreadsLost(p) \in Nat /\ ThreadsLost(p) <= process[p].threads
      BY <2>1, LostThreads DEF Alive
    <3>2. process[p].threads - ThreadsLost(p) \in Nat
      BY <1>2, <3>1 DEF ProcessRecord
    <3> DEFINE n == process[p].threads - ThreadsLost(p)
               st == process'[p].state
    <3>3. n \in Nat /\ st \in {"ready", "terminated"}
      BY <1>3, <2>1, <3>2
    <3>4. process'[p] = [process[p] EXCEPT !.threads = n, !.state = st]
      BY <1>1, <1>3, <2>1 DEF AfterThreadsLost
    <3> HIDE DEF n, st
    <3>5. [process[p] EXCEPT !.threads = n, !.state = st] \in ProcessRecord
      BY <1>2, <3>3 DEF ProcessRecord
    <3>6. Owns(p)' = Owns(p)
      BY <1>3 DEF Owns
    <3>7. QED BY <2>1, <3>3, <3>4, <3>5, <3>6 DEF Alive, Counted, st
  <2>2. CASE process[p].state # "ready"
    <3>1. process'[p] = process[p]
      BY <1>4, <2>2, LostThreads
    <3>2. QED BY <1>2, <3>1 DEF Alive, Owns, Counted
  <2>3. QED BY <2>1, <2>2
<1>6. \A t \in Tasks : /\ Used(t)' <=> Used(t) /\ t \notin Terminated
                       /\ t \notin Terminated => task'[t] = task[t]
  BY <1>1 DEF Used, EmptyTask
<1>7. TableTypes'
  <2>1. EmptyTask \in TaskRecord
    BY DEF EmptyTask, TaskRecord, NoId
  <2>2. task' \in [Tasks -> TaskRecord]
    BY <1>1, <2>1 DEF TableTypes
  <2>3. process' \in [Processes -> ProcessRecord]
    BY <1>1, <1>5
  <2>4. QED BY <2>2, <2>3 DEF TableTypes
<1>8. Kernel'
  <2>1. /\ process'[0].state = "ready" /\ process'[0].id = KernelId
        /\ process'[0].kind = "kernel" /\ process'[0].root = KernelRoot
    BY <1>3, ConstantFacts DEF Kernel
  <2>2. ASSUME NEW t \in Tasks
        PROVE  IF t < BootCount
               THEN task'[t].state = "live" /\ task'[t].pid = KernelId
                      /\ task'[t].kind = "kernel"
               ELSE task'[t].kind # "kernel"
    <3>1. t \in Terminated => ~(t < BootCount) /\ task'[t].kind = "none"
      BY <1>1 DEF Terminated, Kernel, EmptyTask
    <3>2. QED BY <1>6, <3>1 DEF Kernel
  <2>3. QED BY <2>1, <2>2 DEF Kernel
<1>9. Identities'
  <2>1. ASSUME NEW q \in Processes
        PROVE  /\ process'[q].kind = "kernel" => q = 0
               /\ IF Alive(q)' THEN process'[q].id # NoId ELSE process'[q] = EmptyProcess
    <3>1. ~Alive(q) => process'[q] = process[q]
      BY <1>4, LostThreads DEF Alive
    <3>2. QED BY <1>3, <1>5, <3>1 DEF Identities
  <2>2. ASSUME NEW p \in Processes, NEW q \in Processes, Alive(p)', Alive(q)',
               process'[p].id = process'[q].id
        PROVE  p = q
    BY <1>3, <1>5, <2>2 DEF Identities
  <2>3. ASSUME NEW t \in Tasks, Used(t)'
        PROVE  \E q \in Processes : process'[q].state = "ready" /\ process'[q].id = task'[t].pid
    <3>1. Used(t) /\ t \notin Terminated /\ task'[t] = task[t]
      BY <1>6, <2>3
    <3>2. PICK q \in Processes : process[q].state = "ready" /\ process[q].id = task[t].pid
      BY <3>1 DEF Identities
    <3>3. t \in TasksOf(q)
      BY <3>1, <3>2 DEF TasksOf
    <3>4. process[q].threads # ThreadsLost(q)
      BY <3>1, <3>2, <3>3, LostThreads DEF Alive
    <3>5. process'[q].state = "ready"
      BY <1>3, <3>2, <3>4
    <3>6. QED BY <1>3, <3>1, <3>2, <3>5
  <2>4. QED BY <2>1, <2>2, <2>3 DEF Identities
<1>10. Making'
  <2>1. ASSUME creatorPc \in Claimed \cup Published
        PROVE  process'[slot] = process[slot]
    <3>1. slot \in Processes /\ TasksOf(slot) = {}
      BY <2>1, InTheMaking
    <3>2. ThreadsLost(slot) = 0
      BY <3>1, LostThreads
    <3>3. QED BY <1>4, <3>1, <3>2
  <2>2. \A q \in Processes : process'[q].state = "initializing" =>
                               process[q].state = "initializing"
    BY <1>3
  <2>3. \A t \in Tasks : Used(t)' => Used(t) /\ task'[t] = task[t]
    BY <1>6
  <2>4. creatorPc = "bind" => ~process'[slot].binding
    BY <2>1 DEF Making, Claimed
  <2>5. QED BY <1>1, <2>1, <2>2, <2>3, <2>4 DEF Making
<1>11. Ownership'
  <2>1. {q \in Processes : Owns(q)}' = {q \in Processes : Owns(q)}
    BY <1>5
  <2>2. spaces' = {process'[u].root : u \in {q \in Processes : Owns(q)}'}
                    \cup ({reply'} \ {KernelRoot})
    BY <1>1, <1>3, <2>1 DEF Ownership
  <2>3. \A q \in Processes : process'[q].state \in {"ready", "terminated"} =>
                               process[q].state \in {"ready", "terminated"}
    BY <1>5 DEF Counted
  <2>4. creatorPc \in Claimed => (Owns(slot)' <=> Owns(slot))
    <3>1. creatorPc \in Claimed => slot \in Processes
      BY DEF Making
    <3>2. slot' = slot
      BY <1>1
    <3>3. QED BY <1>3, <3>1, <3>2 DEF Owns
  <2>5. QED BY <1>1, <1>3, <1>5, <2>2, <2>3, <2>4 DEF Ownership
<1>12. AtMostOneTransient'
  BY <1>3 DEF AtMostOneTransient
<1>13. OnProcessor'
  BY <1>1, ConstantFacts DEF OnProcessor
<1>14. StackFlags'
  <2>1. Terminated \subseteq {u \in Tasks : Used(u)}
    BY DEF Terminated, Used
  <2>2. stacksUsed' = {task[u].stack : u \in {v \in Tasks : Used(v) /\ v \notin Terminated}}
    <3>1. ASSUME NEW u \in Tasks, Used(u), u \notin Terminated
          PROVE  task[u].stack \notin ReleasedStacks
      BY <2>1, <3>1 DEF ReleasedStacks, StackFlags
    <3>2. QED BY <1>1, <2>1, <3>1 DEF ReleasedStacks, StackFlags
  <2>3. {v \in Tasks : Used(v)}' = {v \in Tasks : Used(v) /\ v \notin Terminated}
    BY <1>6
  <2>4. stacksUsed' = {task'[u].stack : u \in {v \in Tasks : Used(v)}'}
    BY <1>6, <2>2, <2>3
  <2>5. QED BY <1>6, <2>4 DEF StackFlags
<1>15. Counts'
  <2>1. CountedProcesses' = CountedProcesses
    BY <1>5 DEF CountedProcesses
  <2>2. UsedTasks' = UsedTasks \ Terminated /\ UsedTasks \cap Terminated = Terminated
    BY <1>6 DEF UsedTasks, Terminated, Used
  <2>3. Cardinality(UsedTasks)' = taskCount - Cardinality(Terminated)
    <3>1. Cardinality(UsedTasks \ Terminated) =
            Cardinality(UsedTasks) - Cardinality(UsedTasks \cap Terminated)
      BY CountIsNatural, FS_Difference
    <3>2. QED BY <2>2, <3>1 DEF Counts
  <2>4. ASSUME NEW q \in Processes, Alive(q)'
        PROVE  process'[q].threads = Cardinality(TasksOf(q)')
    <3>1. TasksOf(q)' = TasksOf(q) \ Terminated
      BY <1>3, <1>6 DEF TasksOf
    <3>2. Alive(q)
      BY <1>5, <2>4
    <3>3. QED BY <1>3, <3>1, <3>2, LostThreads
  <2>5. QED BY <1>1, <2>1, <2>3, <2>4 DEF Counts
<1>16. OtherTypes'
  BY <1>1 DEF OtherTypes, user
<1>17. QED
  BY <1>7, <1>8, <1>9, <1>10, <1>11, <1>12, <1>13, <1>14, <1>15, <1>16

LEMMA CleanupProcessesKeepsInv ==
  ASSUME LifeInv, NEW refused \in SUBSET Processes, CleanupTerminatedProcesses(refused)
  PROVE  LifeInv'
<1> USE DEF LifeInv
<1> DEFINE gone == Reclaimable \ refused
<1>1. /\ cpu = Loop /\ loopPc = "processes" /\ loopPc' = "bind"
      /\ process' = [p \in Processes |-> IF p \in gone THEN EmptyProcess ELSE process[p]]
      /\ processCount' = processCount - Cardinality(gone)
      /\ spaces' = spaces \ {process[p].root : p \in gone}
      /\ UNCHANGED <<task, taskCount, stacksUsed, directPool, cpu, dispatched, activeRoot,
                     creatorPc, job, slot, newId, reply, user>>
  BY DEF CleanupTerminatedProcesses, creation
<1>2. ASSUME NEW p \in gone
      PROVE  /\ p \in Processes \ {0} /\ process[p].state = "terminated"
             /\ Alive(p) /\ Owns(p) /\ TasksOf(p) = {}
  <2>1. p \in Processes /\ process[p].state = "terminated"
    BY DEF Reclaimable
  <2>2. p # 0
    BY <2>1 DEF Kernel
  <2>3. Alive(p) /\ Owns(p)
    BY <2>1, <2>2 DEF Alive, Ownership
  <2>4. QED BY <2>1, <2>2, <2>3, OnlyReadyHasTasks
<1> HIDE DEF gone
<1>3. /\ \A p \in Processes : p \notin gone => process'[p] = process[p]
      /\ \A p \in Processes : p \in gone => process'[p] = EmptyProcess
  BY <1>1
<1>4. \A p \in Processes : /\ Alive(p)' <=> Alive(p) /\ p \notin gone
                           /\ Owns(p)' <=> Owns(p) /\ p \notin gone
                           /\ Counted(p)' <=> Counted(p) /\ p \notin gone
  BY <1>3 DEF Alive, Owns, Counted, EmptyProcess
<1>5. TableTypes'
  <2>1. EmptyProcess \in ProcessRecord
    BY DEF EmptyProcess, ProcessRecord, NoId
  <2>2. process' \in [Processes -> ProcessRecord]
    BY <1>1, <2>1 DEF TableTypes
  <2>3. QED BY <1>1, <2>2 DEF TableTypes
<1>6. Kernel'
  BY <1>1, <1>2, <1>3, ConstantFacts DEF Kernel
<1>7. Identities'
  <2>1. ASSUME NEW q \in Processes
        PROVE  /\ process'[q].kind = "kernel" => q = 0
               /\ IF Alive(q)' THEN process'[q].id # NoId ELSE process'[q] = EmptyProcess
    <3>1. CASE q \in gone
      <4>1. process'[q] = EmptyProcess
        BY <1>3, <3>1
      <4>2. QED BY <4>1 DEF EmptyProcess, Alive
    <3>2. CASE q \notin gone
      BY <1>3, <1>4, <3>2 DEF Identities
    <3>3. QED BY <3>1, <3>2
  <2>2. ASSUME NEW p \in Processes, NEW q \in Processes, Alive(p)', Alive(q)',
               process'[p].id = process'[q].id
        PROVE  p = q
    BY <1>3, <1>4, <2>2 DEF Identities
  <2>3. ASSUME NEW t \in Tasks, Used(t)'
        PROVE  \E q \in Processes : process'[q].state = "ready" /\ process'[q].id = task'[t].pid
    <3>1. PICK q \in Processes : process[q].state = "ready" /\ process[q].id = task[t].pid
      BY <1>1, <2>3 DEF Identities, Used
    <3>2. q \notin gone
      BY <1>2, <3>1
    <3>3. QED BY <1>1, <1>3, <3>1, <3>2
  <2>4. QED BY <2>1, <2>2, <2>3 DEF Identities
<1>8. creatorPc \in Claimed \cup Published => slot \in Processes /\ slot \notin gone
  <2>1. creatorPc \in Claimed \cup Published =>
          slot \in Processes /\ process[slot].state # "terminated"
    BY DEF Making
  <2>2. QED BY <1>2, <2>1
<1>9. Making'
  <2>1. creatorPc \in Claimed \cup Published => process'[slot] = process[slot]
    BY <1>3, <1>8
  <2>2. \A q \in Processes : process'[q].state = "initializing" =>
                               process[q].state = "initializing"
    BY <1>3 DEF EmptyProcess
  <2>3. creatorPc = "bind" => ~process'[slot].binding
    BY <2>1 DEF Making, Claimed
  <2>4. QED BY <1>1, <2>1, <2>2, <2>3 DEF Making, Used
<1>10. Ownership'
  <2>1. \A p, q \in Processes : Owns(p) /\ process[p].root = process[q].root => p = q
    BY DEF Ownership
  <2>2. \A p \in Processes : Owns(p) => process[p].root # reply
    BY DEF Ownership
  <2>3. spaces' = {process[u].root : u \in {q \in Processes : Owns(q) /\ q \notin gone}}
                    \cup ({reply} \ {KernelRoot})
    <3>1. \A u \in gone : u \in Processes /\ Owns(u)
      BY <1>2
    <3>2. spaces = {process[u].root : u \in {q \in Processes : Owns(q)}}
                     \cup ({reply} \ {KernelRoot})
      BY DEF Ownership
    <3>3. QED BY <1>1, <2>1, <2>2, <3>1, <3>2
  <2>4. {q \in Processes : Owns(q)}' = {q \in Processes : Owns(q) /\ q \notin gone}
    BY <1>4
  <2>5. spaces' = {process'[u].root : u \in {q \in Processes : Owns(q)}'}
                    \cup ({reply'} \ {KernelRoot})
    BY <1>1, <1>3, <2>3, <2>4
  <2>6. ASSUME NEW p \in Processes, NEW q \in Processes, Owns(p)',
               process'[p].root = process'[q].root
        PROVE  p = q
    <3>1. Owns(p) /\ process'[p] = process[p] /\ Owns(q)'
      BY <1>3, <1>4, <2>6 DEF Owns
    <3>2. process'[q] = process[q]
      BY <1>3, <1>4, <3>1
    <3>3. QED BY <2>1, <2>6, <3>1, <3>2
  <2>7. \A q \in Processes : process'[q].state \in {"ready", "terminated"} /\ q # 0 => Owns(q)'
    BY <1>3, <1>4 DEF Ownership, EmptyProcess
  <2>8. \A q \in Processes : Owns(q)' => process'[q].root # reply'
    BY <1>1, <1>3, <1>4, <2>2
  <2>9. creatorPc \in Claimed => (Owns(slot)' <=> Owns(slot))
    BY <1>1, <1>3, <1>8 DEF Owns
  <2>10. QED BY <1>1, <2>5, <2>6, <2>7, <2>8, <2>9 DEF Ownership
<1>11. AtMostOneTransient'
  BY <1>3 DEF AtMostOneTransient, EmptyProcess
<1>12. OnProcessor'
  BY <1>1, ConstantFacts DEF OnProcessor
<1>13. StackFlags'
  BY <1>1, SameTasks
<1>14. Counts'
  <2>1. gone \subseteq CountedProcesses
    BY <1>2 DEF CountedProcesses, Counted
  <2>2. CountedProcesses' = CountedProcesses \ gone /\ CountedProcesses \cap gone = gone
    BY <1>4, <2>1 DEF CountedProcesses
  <2>3. processCount' = Cardinality(CountedProcesses)'
    <3>1. Cardinality(CountedProcesses \ gone) =
            Cardinality(CountedProcesses) - Cardinality(CountedProcesses \cap gone)
      BY CountIsNatural, FS_Difference
    <3>2. QED BY <1>1, <2>2, <3>1 DEF Counts
  <2>4. ASSUME NEW q \in Processes, Alive(q)'
        PROVE  process'[q].threads = Cardinality(TasksOf(q)')
    <3>1. Alive(q) /\ process'[q] = process[q]
      BY <1>3, <1>4, <2>4
    <3>2. TasksOf(q)' = TasksOf(q)
      BY <1>1, <3>1 DEF TasksOf, Used
    <3>3. QED BY <3>1, <3>2 DEF Counts
  <2>5. QED BY <1>1, <2>3, <2>4, CountsFollow
<1>15. OtherTypes'
  BY <1>1 DEF OtherTypes, user
<1>16. QED
  BY <1>5, <1>6, <1>7, <1>9, <1>10, <1>11, <1>12, <1>13, <1>14, <1>15

(* Nothing that is published is unbound: the thread that publishes it has  *)
(* bound it, or has given its slot back.                                   *)
LEMMA NothingUnbound ==
  ASSUME LifeInv
  PROVE  Unbound = {}
BY DEF LifeInv, Ownership, Kernel, Unbound

LEMMA LoopMovesOn ==
  ASSUME LifeInv, BindPending \/ FinishSlice \/ \E t \in Tasks : Dispatch(t)
  PROVE  LifeInv'
<1> USE DEF LifeInv
<1>1. ASSUME UNCHANGED <<tables, stacksUsed, directPool, spaces, creation, user>>
      PROVE  /\ TableTypes' /\ Kernel' /\ Identities' /\ AtMostOneTransient' /\ Counts'
             /\ StackFlags' /\ Making' /\ Ownership'
  <2>1. TableTypes' /\ Kernel' /\ Identities' /\ AtMostOneTransient' /\ Counts' /\ StackFlags'
    BY <1>1, SameTables
  <2>2. Making'
    BY <1>1 DEF Making, Claimed, Published, tables, creation, Used
  <2>3. Ownership'
    BY <1>1 DEF Ownership, Claimed, tables, creation, Owns
  <2>4. QED BY <2>1, <2>2, <2>3
<1>2. CASE BindPending
  <2>1. PICK granted \in SUBSET Unbound : \E root \in [granted -> Spaces \ spaces] :
          /\ process' = [p \in Processes |->
                           IF p \in granted THEN [process[p] EXCEPT !.root = root[p]]
                           ELSE process[p]]
          /\ spaces' = spaces \cup {root[p] : p \in granted}
    BY <1>2 DEF BindPending
  <2>2. granted = {}
    BY NothingUnbound
  <2>3. process' = [p \in Processes |-> process[p]] /\ spaces' = spaces
    BY <2>1, <2>2
  <2>4. process' = process
    BY <2>3 DEF TableTypes
  <2>5. /\ cpu = Loop /\ loopPc = "bind" /\ loopPc' = "select"
        /\ UNCHANGED <<task, processCount, taskCount, stacksUsed, directPool,
                       cpu, dispatched, activeRoot, creation, user>>
    BY <1>2 DEF BindPending
  <2>6. OtherTypes'
    BY <2>3, <2>5 DEF OtherTypes, creation, user
  <2>7. OnProcessor'
    BY <2>3, <2>5, ConstantFacts DEF OnProcessor
  <2>8. UNCHANGED <<tables, stacksUsed, directPool, spaces, creation, user>>
    BY <2>3, <2>4, <2>5 DEF tables
  <2>9. QED BY <1>1, <2>6, <2>7, <2>8
<1>3. CASE FinishSlice
  <2>1. FindForDispatch(KernelId) = {0}
    BY ConstantFacts DEF FindForDispatch, Kernel, Identities, Alive
  <2>2. /\ cpu = Loop /\ loopPc' = "tasks" /\ dispatched' = Nothing
        /\ activeRoot' = KernelRoot
        /\ UNCHANGED <<tables, stacksUsed, directPool, spaces, cpu, creation, user>>
    BY <1>3, <2>1 DEF FinishSlice, Kernel, resources
  <2>3. OtherTypes'
    BY <2>2 DEF OtherTypes, creation, user
  <2>4. OnProcessor'
    BY <2>2, ConstantFacts DEF OnProcessor
  <2>5. QED BY <1>1, <2>2, <2>3, <2>4
<1>4. ASSUME NEW t \in Tasks, Dispatch(t)
      PROVE  LifeInv'
  <2>1. /\ cpu = Loop /\ loopPc = "select" /\ task[t].state = "live" /\ cpu' = t
        /\ UNCHANGED <<tables, stacksUsed, directPool, spaces, loopPc, creation, user>>
    BY <1>4 DEF Dispatch, resources
  <2>2. PICK p \in Processes :
          /\ process[p].state = "ready" /\ process[p].id = task[t].pid
          /\ FindForDispatch(task[t].pid) = {p}
    BY <2>1, ProcessOfTask DEF Used
  <2>3. dispatched' = p /\ activeRoot' = process[p].root
    BY <1>4, <2>2 DEF Dispatch
  <2>4. process[p].root \in spaces \cup {KernelRoot}
    BY DEF Ownership, Owns
  <2>5. OtherTypes'
    BY <2>1, <2>2, <2>3, <2>4 DEF OtherTypes, creation, user
  <2>6. OnProcessor'
    BY <2>1, <2>2, <2>3, <2>4, ConstantFacts DEF OnProcessor, tables
  <2>7. QED BY <1>1, <2>1, <2>5, <2>6
<1>5. QED BY <1>2, <1>3, <1>4

-----------------------------------------------------------------------------

LEMMA CreatorKeepsInv ==
  ASSUME LifeInv, CreatorStep
  PROVE  LifeInv'
<1>1. CASE PrepareScaffold
  <2>1. CASE ClaimProcess("user")
    BY <1>1, <2>1, ClaimKeepsInv DEF PrepareScaffold, CreatorAt
  <2>2. CASE NoProcessSlot("transient")
    BY <1>1, <2>2, CreatorMovesOn
  <2>3. QED BY <1>1, <2>1, <2>2 DEF PrepareScaffold
<1>2. CASE CreateTransient
  <2>1. CASE ClaimProcess("transient")
    BY <1>2, <2>1, ClaimKeepsInv DEF CreateTransient, CreatorAt, MayCreateTransient
  <2>2. CASE NoProcessSlot("sleep")
    BY <1>2, <2>2, CreatorMovesOn
  <2>3. QED BY <1>2, <2>1, <2>2 DEF CreateTransient
<1>3. CASE AdvanceScaffold \/ Refrain \/ FinishScaffold
  BY <1>3, CreatorMovesOn
<1>4. CASE SleepPeriod
  BY <1>4, SleepKeepsInv
<1>5. CASE MarkBinding \/ RequestSpace \/ InstallSpace \/ AbandonProcess \/ PublishProcess
  BY <1>5, MarkBindingKeepsInv, RequestSpaceKeepsInv, InstallSpaceKeepsInv, AbandonKeepsInv,
     PublishKeepsInv
<1>6. CASE CreateTask \/ TaskRefused \/ MarkProcessTerminated
  BY <1>6, CreateTaskKeepsInv, TaskRefusedKeepsInv, TerminateKeepsInv
<1>7. CASE \E t \in Tasks : MarkLive(t)
  BY <1>7, MarkLiveKeepsInv
<1>8. QED BY <1>1, <1>2, <1>3, <1>4, <1>5, <1>6, <1>7 DEF CreatorStep

LEMMA NextKeepsLifeInv == LifeInv /\ [Next]_vars => LifeInv'
<1> SUFFICES ASSUME LifeInv, [Next]_vars
             PROVE  LifeInv'
  OBVIOUS
<1>1. CASE LoopStep
  BY <1>1, CleanupTasksKeepsInv, CleanupProcessesKeepsInv, LoopMovesOn DEF LoopStep
<1>2. CASE \E t \in Tasks : ThreadStep(t)
  BY <1>2, LeaveKeepsInv, EndKeepsInv DEF ThreadStep
<1>3. CASE CreatorStep
  BY <1>3, CreatorKeepsInv
<1>4. CASE UNCHANGED vars
  <2> USE <1>4 DEF LifeInv, vars, resources, creation, processor
  <2>1. TableTypes' /\ Kernel' /\ Identities' /\ AtMostOneTransient' /\ Counts' /\ StackFlags'
    BY SameTables
  <2>2. Making' /\ Ownership'
    BY DEF Making, Ownership, Claimed, Published, tables, Used, Owns
  <2>3. OtherTypes' /\ OnProcessor'
    BY DEF OtherTypes, OnProcessor, user, tables
  <2>4. QED BY <2>1, <2>2, <2>3
<1>5. QED BY <1>1, <1>2, <1>3, <1>4 DEF Next

(* The invariant of every reachable state.                                 *)
LEMMA LifeInvariant == Spec => []LifeInv
BY InitLifeInv, NextKeepsLifeInv, PTL DEF Spec

-----------------------------------------------------------------------------
(* The theorems.                                                           *)

(* The fields of the process and task tables keep their ranges: no counter *)
(* is ever decremented below zero or above its table, whatever the reaping *)
(* and the creation do to it between each other's critical sections.       *)
THEOREM LifecycleTypes == Spec => []TypeOK
<1>1. ASSUME LifeInv
      PROVE  TypeOK
  <2> USE <1>1 DEF LifeInv
  <2>1. processCount \in 0 .. MaxProcesses
    <3>1. Cardinality(CountedProcesses) <= Cardinality(Processes)
      BY FiniteTables, FS_Subset DEF CountedProcesses
    <3>2. QED BY <3>1, FiniteTables, CountIsNatural, ConstantFacts DEF Counts
  <2>2. taskCount \in 0 .. MaxTasks
    <3>1. Cardinality(UsedTasks) <= Cardinality(Tasks)
      BY FiniteTables, FS_Subset DEF UsedTasks
    <3>2. QED BY <3>1, FiniteTables, CountIsNatural, ConstantFacts DEF Counts
  <2>3. stacksUsed \subseteq Stacks("direct") \cup Stacks("bootstrap")
    BY DEF StackFlags
  <2>4. QED BY <2>1, <2>2, <2>3 DEF TypeOK, TableTypes, ProcessRecord, TaskRecord, OtherTypes
<1>2. QED BY <1>1, LifeInvariant, PTL

(* ProcessCount, TaskCount and every ThreadCount are the numbers of slots  *)
(* in use, and every task in use belongs to exactly one READY process.     *)
THEOREM CountsAlwaysAgree == Spec => []CountsAgree
<1>1. ASSUME LifeInv
      PROVE  CountsAgree
  <2> USE <1>1 DEF LifeInv
  <2>1. processCount = Cardinality({p \in Processes : Counted(p)})
    BY DEF Counts, CountedProcesses
  <2>2. taskCount = Cardinality({t \in Tasks : Used(t)})
    BY DEF Counts, UsedTasks
  <2>3. ASSUME NEW t \in Tasks, Used(t)
        PROVE  Cardinality(FindReady(task[t].pid)) = 1
    BY <2>3, ProcessOfTask, FS_Singleton
  <2>4. QED BY <2>1, <2>2, <2>3 DEF CountsAgree, Counts, Alive
<1>2. QED BY <1>1, LifeInvariant, PTL

(* No address space leaks, is shared or is left dangling: those alive in   *)
(* the memory manager are the roots of the processes that own one, one     *)
(* each, and the reply about to be installed.                              *)
THEOREM SpacesAlwaysAccountedFor == Spec => []SpacesAccountedFor
<1>1. ASSUME LifeInv
      PROVE  SpacesAccountedFor
  BY <1>1 DEF LifeInv, Ownership, SpacesAccountedFor, Owns
<1>2. QED BY <1>1, LifeInvariant, PTL

(* The lifecycle thread keeps to one transient process at a time.          *)
THEOREM OneTransientProcessAtATime == Spec => []OneTransientProcess
<1>1. ASSUME LifeInv
      PROVE  OneTransientProcess
  <2> DEFINE S == {p \in Processes : process[p].kind = "transient"}
  <2>1. \A p, q \in S : p = q
    BY <1>1 DEF LifeInv, AtMostOneTransient
  <2>2. S = {} \/ \E p : S = {p}
    BY <2>1
  <2> HIDE DEF S
  <2>3. Cardinality(S) <= 1
    <3>1. CASE S = {}
      BY <3>1, FS_EmptySet
    <3>2. CASE \E p : S = {p}
      <4>1. Cardinality(S) = 1
        BY <3>2, FS_Singleton
      <4>2. QED BY <4>1
    <3>3. QED BY <2>2, <3>1, <3>2
  <2>4. QED BY <2>3 DEF OneTransientProcess, S
<1>2. QED BY <1>1, LifeInvariant, PTL

(* A thread runs in the address space of its own process, and the loop in  *)
(* the kernel's, whatever the lifecycle thread does to the process table   *)
(* across the context switch.                                              *)
THEOREM SpaceFollowsThread == Spec => []AddressSpaceFollowsThread
<1>1. LifeInv => AddressSpaceFollowsThread
  BY DEF LifeInv, OnProcessor, AddressSpaceFollowsThread
<1>2. QED BY <1>1, LifeInvariant, PTL

(* No two tasks share a stack and no stack's Used flag is lost.            *)
THEOREM StacksAlwaysAccountedFor == Spec => []StacksAccountedFor
<1>1. ASSUME LifeInv
      PROVE  StacksAccountedFor
  <2> DEFINE f == [t \in UsedTasks |-> task[t].stack]
  <2>1. stacksUsed = {task[t].stack : t \in {u \in Tasks : Used(u)}}
    BY <1>1 DEF LifeInv, StackFlags
  <2>2. f \in Bijection(UsedTasks, stacksUsed)
    <3>1. f \in [UsedTasks -> stacksUsed]
      BY <2>1 DEF UsedTasks
    <3>2. \A t, u \in UsedTasks : f[t] = f[u] => t = u
      BY <1>1 DEF LifeInv, StackFlags, UsedTasks
    <3>3. \A s \in stacksUsed : \E t \in UsedTasks : f[t] = s
      BY <2>1 DEF UsedTasks
    <3> HIDE DEF f
    <3>4. QED BY <3>1, <3>2, <3>3 DEF Bijection, Injection, IsInjective, Surjection
  <2>3. Cardinality(stacksUsed) = Cardinality(UsedTasks)
    BY <1>1, <2>2, CountIsNatural, FS_Bijection DEF ExistsBijection
  <2>4. QED BY <2>1, <2>3 DEF StacksAccountedFor, UsedTasks
<1>2. QED BY <1>1, LifeInvariant, PTL

(* No step destroys an address space that is active, or that a remaining   *)
(* task would be switched to.                                              *)
THEOREM OnlyUnusedSpacesDie == Spec => DestroyedSpaceIsUnused
<1> DEFINE Unused == \A s \in spaces \ spaces' :
                       /\ s # activeRoot
                       /\ \A t \in Tasks : Used(t) =>
                            \A p \in FindForDispatch(task[t].pid) : process[p].root # s
<1>1. ASSUME LifeInv, Next
      PROVE  Unused
  <2> USE <1>1 DEF LifeInv
  <2>1. CASE spaces \subseteq spaces'
    BY <2>1
  <2>2. ASSUME NEW refused \in SUBSET Processes, CleanupTerminatedProcesses(refused)
        PROVE  Unused
    <3> SUFFICES ASSUME NEW s \in spaces \ spaces'
                 PROVE  /\ s # activeRoot
                        /\ \A t \in Tasks : Used(t) =>
                             \A p \in FindForDispatch(task[t].pid) : process[p].root # s
      OBVIOUS
    <3>1. PICK g \in Reclaimable : process[g].root = s
      BY <2>2 DEF CleanupTerminatedProcesses
    <3>2. g \in Processes /\ process[g].state = "terminated" /\ Owns(g)
      BY <3>1 DEF Reclaimable, Ownership, Kernel
    <3>3. activeRoot = KernelRoot
      BY <2>2 DEF CleanupTerminatedProcesses, OnProcessor
    <3>4. ASSUME NEW t \in Tasks, Used(t), NEW p \in FindForDispatch(task[t].pid)
          PROVE  process[p].root # s
      <4>1. p \in Processes /\ process[p].state = "ready"
        BY <3>4, ProcessOfTask
      <4>2. QED BY <3>1, <3>2, <4>1 DEF Ownership
    <3>5. QED BY <3>1, <3>2, <3>3, <3>4 DEF Owns
  <2>3. CASE ~\E refused \in SUBSET Processes : CleanupTerminatedProcesses(refused)
    <3>1. spaces \subseteq spaces'
      <4>1. CASE LoopStep
        BY <2>3, <4>1 DEF LoopStep, CleanupTerminatedTasks, BindPending, Dispatch, FinishSlice,
           resources
      <4>2. CASE \E t \in Tasks : ThreadStep(t)
        BY <4>2 DEF ThreadStep, Leave, Exit, Trap, resources
      <4>3. CASE CreatorStep
        BY <4>3 DEF CreatorStep, PrepareScaffold, AdvanceScaffold, MarkLive, CreateTransient,
           Refrain, SleepPeriod, MarkBinding, RequestSpace, InstallSpace, AbandonProcess,
           PublishProcess, CreateTask, TaskRefused, MarkProcessTerminated, FinishScaffold,
           ClaimProcess, NoProcessSlot, resources
      <4>4. QED BY <4>1, <4>2, <4>3 DEF Next
    <3>2. QED BY <2>1, <3>1
  <2>4. QED BY <2>2, <2>3
<1>2. LifeInv /\ [Next]_vars => [Unused]_vars
  BY <1>1
<1>3. QED BY <1>2, LifeInvariant, PTL DEF Spec, DestroyedSpaceIsUnused

=============================================================================
