------------------------ MODULE MemoryManagerChannel ------------------------
(***************************************************************************)
(* The kernel brings up the memory-manager service and then calls it       *)
(* through two mailboxes (Kernel/C/MemoryManagerBootstrap*,                *)
(* Services/MemoryManager/C/MemoryManager{Lifecycle,Dispatch*,Policy}.c).  *)
(*                                                                         *)
(* The service has no thread of its own.  A caller that wants an answer    *)
(* disables interrupts, posts its request, and switches to the root and    *)
(* the stack of the service, which handles the request at the head of its  *)
(* mailbox and returns.  Before interrupts are off a worker can lose the   *)
(* processor to the dispatch loop, which makes calls of its own; the loop  *)
(* itself is never interrupted by a worker.  The boot thread makes the     *)
(* first call alone.                                                       *)
(*                                                                         *)
(* Physical and virtual addresses are the names of what they lead to.      *)
(***************************************************************************)
EXTENDS Mailbox, Sequences, FiniteSets

CONSTANTS
  Boot, Loop, Workers,  \* the threads of the kernel that call
  Operations,           \* operations called after the attach
  FrameOperations,      \* those that need the capability memory/allocate or memory/query
  LocalOperations,      \* those RequestRequiresRealServiceReply leaves out
  CapabilitiesLinked,   \* the weak capability functions resolve in the service
  StepBudget,           \* service steps a call may take
  IdCount               \* 2^64, the width of NextRequestId

Callers == {Boot, Loop} \cup Workers

ASSUME ChannelAssumption ==
  /\ Boot # Loop /\ {Boot, Loop} \cap Workers = {}
  /\ FrameOperations \subseteq Operations
  /\ LocalOperations \subseteq Operations \ FrameOperations
  /\ "attach" \notin Operations /\ "none" \notin Operations
  /\ CapabilitiesLinked \in BOOLEAN
  /\ StepBudget \in Nat \ {0}
  /\ IdCount \in Nat \ {0, 1}

VARIABLES
  info,        \* State->Info: stage, flags and addresses
  claimed,     \* how many of Objects have their pages
  mapped,      \* how many of Objects are mapped
  launch,      \* the launch block the service reads
  endpoint,    \* the three endpoint objects
  space,       \* the service's address-space object
  serviceTask, \* the service's task object
  service,     \* the service's own state
  requests, responses, events,   \* the mailboxes
  nextId,      \* NextRequestId
  attachId,    \* BootstrapAttachRequestId
  pc,          \* where each caller stands
  loaded,      \* the id it read to increment
  mine,        \* its request, then its answer
  attempts,    \* steps taken for the call in progress
  exchange,    \* who has interrupts disabled
  halted,      \* who stopped the machine
  executed     \* how often the service carried out the call of each caller

kernelVars == <<info, claimed, mapped, launch, endpoint>>
objects == <<space, serviceTask, service>>
mail == <<requests, responses, events>>
calls == <<nextId, attachId, pc, loaded, mine, attempts, exchange>>
vars == <<kernelVars, objects, mail, calls, halted, executed>>

Objects == <<"requests", "responses", "events", "receive", "reply", "event",
             "space", "task", "launch block", "stack">>

MailboxOf == [receive |-> "requests", reply |-> "responses", event |-> "events"]

Endpoints == DOMAIN MailboxOf

NoMessage == [id |-> 0, op |-> "none", from |-> "none", root |-> "none", status |-> "none"]

Request(c, id, op, root) ==
  [NoMessage EXCEPT !.id = id, !.op = op, !.from = c, !.root = root]

Answer(m, status) == [m EXCEPT !.status = status]

Stages == <<"defined", "launched", "image ready", "staged", "prepared", "online", "ready">>

Init ==
  /\ info = [stage |-> "defined", flags |-> {}, root |-> "none",
             image |-> "embedded", entry |-> "none"]
  /\ claimed = 0 /\ mapped = 0
  /\ launch = [flags |-> {}, root |-> "none", image |-> "none", entry |-> "none",
               stackTop |-> "none", mailbox |-> [e \in Endpoints |-> "none"]]
  /\ endpoint = [e \in Endpoints |-> [state |-> "offline", mailbox |-> "none"]]
  /\ space = [state |-> "offline", root |-> "none", kernelRoot |-> "none",
              image |-> "none", hasImage |-> FALSE, hasStack |-> FALSE]
  /\ serviceTask = [state |-> "offline", entry |-> "none", stackTop |-> "none",
                    hosted |-> FALSE, ready |-> FALSE]
  /\ service = [online |-> FALSE, attached |-> FALSE, root |-> "none"]
  /\ requests = EmptyMailbox /\ responses = EmptyMailbox /\ events = EmptyMailbox
  /\ nextId = 1 /\ attachId = 0
  /\ pc = [c \in Callers |-> IF c = Boot THEN "launch" ELSE "idle"]
  /\ loaded = [c \in Callers |-> 0]
  /\ mine = [c \in Callers |-> NoMessage]
  /\ attempts = 0
  /\ exchange = {}
  /\ halted = "no"
  /\ executed = [c \in Callers |-> 0]

Running == halted = "no"

Halt(who) == halted' = who

Goto(c, place) == pc' = [pc EXCEPT ![c] = place]

-----------------------------------------------------------------------------
(* The boot thread prepares everything the service will read.              *)

(* ValidateServiceImage, after LAUNCHED: the embedded ELF image gives the  *)
(* entry.                                                                  *)
ValidateServiceImage ==
  /\ Running /\ pc[Boot] = "launch"
  /\ \/ /\ info' = [info EXCEPT !.stage = "image ready", !.flags = @ \cup {"image ready"},
                                !.entry = "entry"]
        /\ Goto(Boot, "stage")
        /\ UNCHANGED halted
     \/ /\ info' = [info EXCEPT !.stage = "launched"]
        /\ Halt("kernel")
        /\ UNCHANGED pc
  /\ UNCHANGED <<claimed, mapped, launch, endpoint, objects, mail, nextId, attachId,
                 loaded, mine, attempts, exchange, executed>>

(* StageTransport claims the pages of every object, then maps all of them  *)
(* but the stack; the first failure stops the machine.                     *)
ClaimBootstrapPages ==
  /\ Running /\ pc[Boot] = "stage"
  /\ claimed < Len(Objects)
  /\ \/ claimed' = claimed + 1 /\ UNCHANGED halted
     \/ Halt("kernel") /\ UNCHANGED claimed
  /\ UNCHANGED <<info, mapped, launch, endpoint, objects, mail, calls, executed>>

MapBootstrapObject ==
  /\ Running /\ pc[Boot] = "stage"
  /\ claimed = Len(Objects) /\ mapped < Len(Objects) - 1
  /\ \/ mapped' = mapped + 1 /\ UNCHANGED halted
     \/ Halt("kernel") /\ UNCHANGED mapped
  /\ UNCHANGED <<info, claimed, launch, endpoint, objects, mail, calls, executed>>

InitializeEndpointObject(e) == [state |-> "bound", mailbox |-> MailboxOf[e]]

InitializeAddressSpaceObject ==
  [state |-> "ready", root |-> "none", kernelRoot |-> "none", image |-> info.image,
   hasImage |-> FALSE, hasStack |-> FALSE]

InitializeTaskObject ==
  [state |-> "ready", entry |-> info.entry, stackTop |-> "none", hosted |-> TRUE, ready |-> FALSE]

(* The rest of StageTransport, and PublishLaunchReady: all objects get     *)
(* their contents, and the endpoints are bound.                            *)
StageTransport ==
  /\ Running /\ pc[Boot] = "stage"
  /\ mapped = Len(Objects) - 1
  /\ LET flags == info.flags \cup {"transport ready", "launch block ready", "stack ready",
                                   "entry published", "launch prepared"}
     IN  /\ info' = [info EXCEPT !.stage = "prepared", !.flags = flags]
         /\ launch' = [flags |-> flags, root |-> info.root, image |-> info.image,
                       entry |-> info.entry, stackTop |-> "none", mailbox |-> MailboxOf]
  /\ requests' = EmptyMailbox /\ responses' = EmptyMailbox /\ events' = EmptyMailbox
  /\ endpoint' = [e \in Endpoints |-> InitializeEndpointObject(e)]
  /\ space' = InitializeAddressSpaceObject
  /\ serviceTask' = InitializeTaskObject
  /\ Goto(Boot, "probe")
  /\ UNCHANGED <<claimed, mapped, service, nextId, attachId, loaded, mine, attempts, exchange,
                 halted, executed>>

-----------------------------------------------------------------------------
(* A call, up to the point where interrupts go off.                        *)

(* The loop runs between two steps of a worker, never the other way round, *)
(* and nobody runs between two steps of an exchange.                       *)
MayRun(c) ==
  /\ Running
  /\ exchange \subseteq {c}
  /\ c # Boot => pc[Boot] = "done"
  /\ c \in Workers => pc[Loop] = "idle"

(* The service gets a root of its own only in the first service step, so   *)
(* the attach request usually names none.                                  *)
PopulateBootstrapAttachRequest(c) == Request(c, nextId, "attach", space.root)

(* NextRequestId is read, then read again, incremented and written, all    *)
(* with interrupts enabled: two callers can get the same id.               *)
BeginCall(c, op) ==
  /\ MayRun(c)
  /\ IF c = Boot THEN pc[c] = "probe" /\ op = "attach" /\ attachId = 0
                 ELSE pc[c] = "idle" /\ op \in Operations
  /\ mine' = [mine EXCEPT ![c] = IF op = "attach" THEN PopulateBootstrapAttachRequest(c)
                                                 ELSE Request(c, nextId, op, "none")]
  /\ Goto(c, "id read")
  /\ executed' = [executed EXCEPT ![c] = 0]
  /\ UNCHANGED <<kernelVars, objects, mail, nextId, attachId, loaded, attempts, exchange, halted>>

LoadNextId(c) ==
  /\ MayRun(c) /\ pc[c] = "id read"
  /\ loaded' = [loaded EXCEPT ![c] = nextId]
  /\ Goto(c, "next id loaded")
  /\ UNCHANGED <<kernelVars, objects, mail, nextId, attachId, mine, attempts, exchange,
                 halted, executed>>

StoreNextId(c) ==
  /\ MayRun(c) /\ pc[c] = "next id loaded"
  /\ nextId' = (loaded[c] + 1) % IdCount
  /\ attachId' = IF c = Boot THEN mine[c].id ELSE attachId
  /\ Goto(c, "numbered")
  /\ UNCHANGED <<kernelVars, objects, mail, loaded, mine, attempts, exchange, halted, executed>>

-----------------------------------------------------------------------------
(* SendRequestAndAwaitResponse.  Interrupts are off from here to Finish.   *)

UsableOnline(e) == endpoint[e].state = "online" /\ endpoint[e].mailbox = MailboxOf[e]

Usable(e) ==
  endpoint[e].state \in {"ready", "bound", "online"} /\ endpoint[e].mailbox = MailboxOf[e]

EnqueueRequest(c) ==
  /\ MayRun(c) /\ pc[c] = "numbered"
  /\ IF Usable("receive") /\ CanPut(requests)
     THEN /\ requests' = Put(requests, mine[c])
          /\ exchange' = {c}
          /\ attempts' = 0
          /\ Goto(c, "posted")
          /\ UNCHANGED halted
     ELSE /\ Halt("kernel")
          /\ UNCHANGED <<requests, exchange, attempts, pc>>
  /\ UNCHANGED <<kernelVars, objects, responses, events, nextId, attachId, loaded, mine, executed>>

HostedServiceTaskReady ==
  serviceTask.state \in {"ready", "launched", "online"} /\ space.state \in {"ready", "active"}

ServiceCanStep == HostedServiceTaskReady /\ AtHead(requests) # {}

NeedsService(op) == op \notin LocalOperations

Budget(op) == IF NeedsService(op) THEN StepBudget ELSE 1

(* The kernel's own handlers, LosMemoryManagerBootstrapDispatch: the       *)
(* request at the head, whoever posted it, is answered without the service.*)
LocalReplies ==
  IF Usable("receive") /\ Usable("reply") /\ CanPut(responses)
  THEN {Put(responses, Answer(m, "answered by the kernel")) : m \in AtHead(requests)}
  ELSE {}

TakesReply(c, box) ==
  /\ mine' = [mine EXCEPT ![c] = CHOOSE m \in box.slots[FirstAnswer(box, mine[c].id)] : TRUE]
  /\ responses' = TakeAnswer(box, mine[c].id)
  /\ Goto(c, "answered")

(* A step brought no reply.  Out of steps, the kernel stops, or answers an *)
(* operation itself that does not need the service.                        *)
NoReply(c) ==
  IF attempts + 1 < Budget(mine[c].op)
  THEN /\ attempts' = attempts + 1
       /\ Goto(c, "posted")
       /\ UNCHANGED <<requests, responses, mine, halted>>
  ELSE LET boxes == {box \in LocalReplies : Answering(box, mine[c].id) # {}}
       IN  /\ IF NeedsService(mine[c].op) \/ boxes = {}
              THEN Halt("no reply") /\ UNCHANGED <<requests, responses, mine, pc>>
              ELSE /\ \E box \in boxes : TakesReply(c, box)
                   /\ requests' = TakeHead(requests)
                   /\ UNCHANGED halted
           /\ UNCHANGED attempts

(* What gives the service its root, its image and its stack.  Each of the  *)
(* four can run out of pages.                                              *)
CloneCurrentRootPageMap(s) ==
  LET root == IF s.info.root # "none" THEN s.info.root ELSE "service root"
  IN  [s EXCEPT !.info.root = root, !.info.flags = @ \cup {"isolated root"},
                !.launch.root = root, !.space.root = root, !.space.kernelRoot = "kernel root"]

StageServiceImageInPhysicalMemory(s) ==
  [s EXCEPT !.info.image = "staged", !.launch.image = "staged", !.space.image = "staged"]

MapStagedServiceImageIntoAddressSpace(s) == [s EXCEPT !.space.hasImage = TRUE]

MapServiceStackIntoAddressSpace(s) ==
  [s EXCEPT !.info.flags = @ \cup {"image mapped"}, !.space.hasStack = TRUE,
            !.launch.stackTop = "stack top", !.task.stackTop = "stack top"]

AfterSteps(s, reached) ==
  CASE reached = 0 -> s
    [] reached = 1 -> CloneCurrentRootPageMap(s)
    [] reached = 2 -> StageServiceImageInPhysicalMemory(CloneCurrentRootPageMap(s))
    [] reached = 3 -> MapStagedServiceImageIntoAddressSpace(
                        StageServiceImageInPhysicalMemory(CloneCurrentRootPageMap(s)))
    [] reached = 4 -> MapServiceStackIntoAddressSpace(MapStagedServiceImageIntoAddressSpace(
                        StageServiceImageInPhysicalMemory(CloneCurrentRootPageMap(s))))

(* HostedServiceStep begins with these, once; the kernel stops with what   *)
(* was reached.                                                            *)
MapServiceImageIntoOwnAddressSpace(c) ==
  /\ pc[c] = "posted" /\ Running
  /\ ServiceCanStep
  /\ "image mapped" \notin info.flags
  /\ endpoint' = [e \in Endpoints |-> [endpoint[e] EXCEPT !.state = "online"]]
  /\ \E reached \in 0 .. 4 :
       LET before == [info |-> info, launch |-> launch, space |-> space, task |-> serviceTask]
           after == AfterSteps(before, reached)
       IN  /\ info' = after.info
           /\ launch' = [after.launch EXCEPT !.flags = after.info.flags]
           /\ space' = after.space
           /\ serviceTask' = after.task
           /\ halted' = IF reached = 4 THEN halted ELSE "kernel"
  /\ UNCHANGED <<claimed, mapped, service, mail, calls, executed>>

(* InvokeServiceEntry: the processor goes to the service.                  *)
EnterService(c) ==
  /\ pc[c] = "posted" /\ Running
  /\ ServiceCanStep => "image mapped" \in info.flags
  /\ IF ServiceCanStep
     THEN /\ endpoint' = [e \in Endpoints |-> [endpoint[e] EXCEPT !.state = "online"]]
          /\ space' = [space EXCEPT !.state = "active"]
          /\ serviceTask' = [serviceTask EXCEPT !.state = "running"]
          /\ info' = [info EXCEPT !.flags = @ \cup {"context switched"}]
          /\ launch' = [launch EXCEPT !.flags = info'.flags]
          /\ Goto(c, IF service.online THEN "service polls" ELSE "service attaches")
          /\ UNCHANGED <<requests, responses, mine, attempts, halted>>
     ELSE /\ IF attempts = 0 /\ NeedsService(mine[c].op)
             THEN Halt("kernel") /\ UNCHANGED <<requests, responses, mine, attempts, pc>>
             ELSE NoReply(c)
          /\ UNCHANGED <<endpoint, space, serviceTask, info, launch>>
  /\ UNCHANGED <<claimed, mapped, service, events, nextId, attachId, loaded, exchange, executed>>

-----------------------------------------------------------------------------
(* The service, on the caller's time.                                      *)

ValidLaunchBlock ==
  /\ launch.root # "none" /\ launch.entry # "none" /\ launch.stackTop # "none"
  /\ \A e \in Endpoints : launch.mailbox[e] # "none"

ValidEndpoint(e) == endpoint[e].mailbox = launch.mailbox[e]

ValidAddressSpace ==
  /\ space.state \in {"ready", "active"}
  /\ space.image = launch.image
  /\ space.root = launch.root
  /\ space.kernelRoot # "none"

ValidTask == serviceTask.entry = launch.entry /\ serviceTask.stackTop = launch.stackTop

LaunchIsValid ==
  /\ ValidLaunchBlock
  /\ \A e \in Endpoints : ValidEndpoint(e)
  /\ ValidAddressSpace
  /\ ValidTask

PostEvent(what) ==
  IF CanPut(events) THEN Put(events, [NoMessage EXCEPT !.op = what]) ELSE events

(* LosMemoryManagerServiceAttach, on the first entry.  A launch block that *)
(* does not check out, or a memory view or heap that cannot be built,      *)
(* leaves the processor in the service for good.                           *)
ServiceAttach(c) ==
  /\ pc[c] = "service attaches" /\ Running
  /\ \/ /\ LaunchIsValid
        /\ service' = [online |-> TRUE, attached |-> FALSE, root |-> launch.root]
        /\ endpoint' = [e \in Endpoints |-> [endpoint[e] EXCEPT !.state = "online"]]
        /\ space' = [space EXCEPT !.state = "active"]
        /\ serviceTask' = [serviceTask EXCEPT !.state = "online"]
        /\ events' = PostEvent("service online")
        /\ Goto(c, "service polls")
        /\ UNCHANGED halted
     \/ /\ Halt(IF LaunchIsValid THEN "service memory" ELSE "service refuses")
        /\ UNCHANGED <<service, endpoint, space, serviceTask, events, pc>>
  /\ UNCHANGED <<info, claimed, mapped, launch, requests, responses, nextId, attachId, loaded,
                 mine, attempts, exchange, executed>>

(* ServiceMayHandleOperation                                               *)
MayHandle(op) == op = "attach" \/ (service.attached /\ op \in Operations)

(* ServiceAuthorizeRequest: without the capability functions nobody may.   *)
Authorized(op) == op \notin FrameOperations \/ CapabilitiesLinked

(* ValidateBootstrapAttachRequest                                          *)
AttachStatus(m) ==
  LET root == IF m.root # "none" THEN m.root ELSE launch.root
  IN  IF service.attached THEN "conflict"
      ELSE IF root # service.root THEN "invalid"
      ELSE "success"

(* The statuses ServicePoll may give; what an operation does to frames and *)
(* address spaces is the matter of other modules.                          *)
Statuses(m) ==
  IF ~MayHandle(m.op) THEN {"not supported"}
  ELSE IF m.op = "attach" THEN {AttachStatus(m)}
  ELSE IF ~Authorized(m.op) THEN {"access denied"}
  ELSE {"success", "failure"}

(* CompleteRequest: the answer is posted and the request freed, or neither *)
CompleteAndKeep(m, status) ==
  responses' = Put(responses, Answer(m, status)) /\ UNCHANGED requests

CompleteRequest(m, status) ==
  IF CanPut(responses)
  THEN /\ responses' = Put(responses, Answer(m, status))
       /\ requests' = TakeHead(requests)
  ELSE UNCHANGED <<responses, requests>>

(* PopulateBootstrapAttachResponse, with success.                          *)
BecomeReady ==
  /\ service' = [service EXCEPT !.attached = TRUE]
  /\ serviceTask' = [serviceTask EXCEPT !.ready = TRUE]
  /\ launch' = [launch EXCEPT !.flags = @ \cup {"attach complete"}]
  /\ events' = PostEvent("service ready")

(* RunServiceStep, which polls the request mailbox once.                   *)
ServicePoll(c) ==
  /\ pc[c] = "service polls" /\ Running
  /\ \E m \in AtHead(requests) : \E status \in Statuses(m) :
       /\ CompleteRequest(m, status)
       /\ executed' = [executed EXCEPT ![m.from] = @ + 1]
       /\ IF m.op = "attach" /\ status = "success"
          THEN BecomeReady
          ELSE UNCHANGED <<service, serviceTask, launch, events>>
  /\ Goto(c, "service returns")
  /\ UNCHANGED <<info, claimed, mapped, endpoint, space, nextId, attachId, loaded, mine,
                 attempts, exchange, halted>>

(* LosMemoryManagerHardFail, a stop inside an operation.                   *)
ServiceStops(c) ==
  /\ pc[c] = "service polls" /\ Running
  /\ \E m \in AtHead(requests) : m.op \in Operations /\ "success" \in Statuses(m)
  /\ Halt("service memory")
  /\ UNCHANGED <<kernelVars, objects, mail, calls, executed>>

-----------------------------------------------------------------------------
(* Back in the kernel: the reply with the caller's id is looked for.       *)
DequeueResponse(c) ==
  /\ pc[c] = "service returns" /\ Running
  /\ serviceTask' = [serviceTask EXCEPT !.state = "online", !.hosted = FALSE]
  /\ info' = [info EXCEPT !.stage = "online", !.flags = @ \cup {"entry invoked", "service online"}]
  /\ launch' = [launch EXCEPT !.flags = info.flags \cup {"entry invoked"}]
  /\ IF Usable("reply") /\ Answering(responses, mine[c].id) # {}
     THEN TakesReply(c, responses) /\ UNCHANGED <<requests, attempts, halted>>
     ELSE NoReply(c)
  /\ UNCHANGED <<claimed, mapped, endpoint, space, service, events, nextId, attachId, loaded,
                 exchange, executed>>

KeepInterruptsOff == UNCHANGED exchange

RestoreInterrupts == exchange' = {}

(* Interrupts are restored, and the answer goes back to the caller; the    *)
(* boot thread goes on only if the service is attached (RunProbe).         *)
Finish(c) ==
  /\ pc[c] = "answered" /\ Running
  /\ RestoreInterrupts
  /\ IF c # Boot
     THEN Goto(c, "idle") /\ UNCHANGED <<info, halted>>
     ELSE IF mine[c].status = "success"
     THEN /\ info' = [info EXCEPT !.stage = "ready",
                         !.flags = @ \cup {"probe complete", "attach complete"}]
          /\ Goto(c, "done")
          /\ UNCHANGED halted
     ELSE Halt("kernel") /\ UNCHANGED <<info, pc>>
  /\ attempts' = 0
  /\ UNCHANGED <<claimed, mapped, launch, endpoint, objects, mail, nextId, attachId, loaded,
                 mine, executed>>

-----------------------------------------------------------------------------

BootStep == ValidateServiceImage \/ ClaimBootstrapPages \/ MapBootstrapObject \/ StageTransport

CallStep(c) == LoadNextId(c) \/ StoreNextId(c) \/ EnqueueRequest(c)

ExchangeStep(c) ==
  MapServiceImageIntoOwnAddressSpace(c) \/ EnterService(c) \/ ServiceAttach(c)
  \/ ServicePoll(c) \/ DequeueResponse(c) \/ Finish(c)

Next ==
  \/ BootStep
  \/ \E c \in Callers :
       \/ \E op \in Operations \cup {"attach"} : BeginCall(c, op)
       \/ CallStep(c)
       \/ ExchangeStep(c)
       \/ ServiceStops(c)

Spec == Init /\ [][Next]_vars

(* The processor is given to whoever may run; the dispatch loop comes back *)
(* to every worker (NobodyStarves of SchedulerLiveness), so a worker that  *)
(* can go on again and again does.                                         *)
FairSpec ==
  /\ Spec
  /\ WF_vars(BootStep)
  /\ WF_vars(BeginCall(Boot, "attach"))
  /\ \A c \in Callers : SF_vars(CallStep(c)) /\ WF_vars(ExchangeStep(c))

-----------------------------------------------------------------------------

AnswerStatuses ==
  {"none", "success", "failure", "conflict", "invalid", "not supported", "access denied",
   "answered by the kernel"}

Messages ==
  [id : 0 .. IdCount - 1,
   op : Operations \cup {"attach", "none", "service online", "service ready"},
   from : Callers \cup {"none"}, root : {"none", "service root"},
   status : AnswerStatuses]

TypeOK ==
  /\ claimed \in 0 .. Len(Objects) /\ mapped \in 0 .. Len(Objects) - 1
  /\ info.stage \in {Stages[i] : i \in DOMAIN Stages}
  /\ requests.produce \in Slots /\ requests.consume \in Slots
  /\ responses.produce \in Slots /\ responses.consume \in Slots
  /\ nextId \in 0 .. IdCount - 1
  /\ mine \in [Callers -> Messages]
  /\ loaded \in [Callers -> 0 .. IdCount - 1]
  /\ attempts \in 0 .. StepBudget
  /\ exchange \in {{}} \cup {{c} : c \in Callers}
  /\ executed \in [Callers -> Nat]

(* Between two exchanges nothing is left in either mailbox and producer    *)
(* and consumer stand at the same slot, so that no call can meet the       *)
(* remains of another, not even one that was given the same id.            *)
MailboxesDrained ==
  exchange = {} =>
    \A box \in {requests, responses} : Ready(box) = {} /\ box.produce = box.consume

(* What the kernel staged and prepared, over four files and in two phases, *)
(* is what the service checks before it attaches; and once the kernel is   *)
(* past the launch, no call finds a mailbox full or a service that cannot  *)
(* step.  That a posted reply reaches its caller is not claimed: the model *)
(* has one view of the mailboxes for all roots, and the comment at         *)
(* SchedulerLifecycleSection01.c:80 expects replies to be lost in some.    *)
ServiceTakesRequests ==
  /\ halted # "service refuses"
  /\ halted = "kernel" =>
       \/ pc[Boot] \in {"launch", "stage"}
       \/ pc[Boot] = "posted" /\ "image mapped" \notin info.flags

(* Each call is carried out once, by the service, and its caller gets the  *)
(* answer to that call; before the attach nothing else is carried out.     *)
AnswersOf(c) == {m \in UNION {responses.slots[i] : i \in Slots} : m.from = c}

Phase(c) ==
  IF pc[c] \in {"idle", "launch", "stage", "probe", "done"} THEN "idle"
  ELSE IF pc[c] = "answered" \/ AnswersOf(c) # {} THEN "answered"
  ELSE "asked"

CallOf(c) ==
  [op |-> IF Phase(c) = "idle" THEN "none" ELSE mine[c].op,
   phase |-> Phase(c),
   status |-> IF pc[c] = "answered" THEN mine[c].status
              ELSE IF Phase(c) = "answered" THEN (CHOOSE m \in AnswersOf(c) : TRUE).status
              ELSE "none",
   times |-> executed[c]]

MayAnswer(op, isAttached) ==
  IF op = "attach" THEN {IF isAttached THEN "conflict" ELSE "success"}
  ELSE IF ~isAttached THEN {"not supported"}
  ELSE IF ~Authorized(op) THEN {"access denied"}
  ELSE {"success", "failure"}

Contract ==
  INSTANCE RequestService WITH
    Operations <- Operations \cup {"attach"}, AttachOperation <- "attach",
    call <- [c \in Callers |-> CallOf(c)], attached <- service.attached

KeepsContract == Contract!ServiceSpec

(* Every call returns to its caller, the attach of the boot thread and the *)
(* calls of a worker that the loop keeps interrupting included, and every  *)
(* exchange gives the interrupts back, unless the machine was stopped.     *)
EveryCallReturns ==
  /\ \A c \in Callers : pc[c] \in {"probe", "id read"} ~> pc[c] \in {"idle", "done"} \/ ~Running
  /\ exchange # {} ~> exchange = {} \/ ~Running

=============================================================================
