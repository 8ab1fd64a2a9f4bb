--------------------- MODULE MemoryManagerChannelProofs ---------------------
(***************************************************************************)
(* Proofs about MemoryManagerChannel, for every set of workers and         *)
(* operations, mailbox size, id width and step budget: its safety          *)
(* invariants, and that it implements the contract of RequestService.      *)
(*                                                                         *)
(* The first part is about a mailbox that is empty or holds one message,   *)
(* which is all the channel ever needs of one.  The second part is the     *)
(* inductive invariant, the third the refinement.                          *)
(***************************************************************************)
EXTENDS MemoryManagerChannel, TLAPS

-----------------------------------------------------------------------------
(* A mailbox with nothing in it, its indices at the same slot, and one     *)
(* with m as its only message, at the slot the consumer is to read.        *)
Mailboxes == [slots : [Slots -> SUBSET Messages], produce : Slots, consume : Slots]

Drained(box) ==
  /\ box \in Mailboxes
  /\ box.produce = box.consume
  /\ \A i \in Slots : box.slots[i] = {}

Holds(box, m) ==
  /\ box \in Mailboxes /\ m \in Messages
  /\ box.produce = After(box.consume)
  /\ \A i \in Slots : box.slots[i] = IF i = box.consume THEN {m} ELSE {}

LEMMA ConstantFacts ==
  /\ SlotCount \in Nat /\ SlotCount > 0
  /\ Boot \in Callers /\ Loop \in Callers /\ Boot # Loop
  /\ StepBudget \in Nat /\ StepBudget > 0
  /\ IdCount \in Nat /\ IdCount > 1
  /\ "attach" \notin Operations /\ "none" \notin Operations
BY SlotAssumption, ChannelAssumption DEF Callers

LEMMA AfterInSlots ==
  ASSUME NEW k \in Slots
  PROVE  After(k) \in Slots
BY SlotAssumption DEF Slots, After

LEMMA EmptyMailboxIsDrained == Drained(EmptyMailbox)
BY SlotAssumption DEF EmptyMailbox, Drained, Mailboxes, Slots

(* Putting a message into a drained mailbox, and taking it out again.      *)
LEMMA PutIntoDrained ==
  ASSUME NEW box, NEW m \in Messages, Drained(box)
  PROVE  CanPut(box) /\ Holds(Put(box, m), m)
<1>1. CanPut(box)
  BY DEF CanPut, Drained, Mailboxes
<1>2. Put(box, m) \in Mailboxes
  BY AfterInSlots DEF Put, Drained, Mailboxes
<1>3. QED BY <1>1, <1>2 DEF Put, Drained, Holds, Mailboxes

LEMMA HeadOfHolds ==
  ASSUME NEW box, NEW m, Holds(box, m)
  PROVE  AtHead(box) = {m} /\ Drained(TakeHead(box))
<1>1. AtHead(box) = {m}
  BY DEF AtHead, Holds, Mailboxes
<1>2. TakeHead(box) \in Mailboxes
  BY AfterInSlots DEF TakeHead, Holds, Mailboxes
<1>3. QED BY <1>1, <1>2 DEF TakeHead, Drained, Holds, Mailboxes

LEMMA AnswerOfHolds ==
  ASSUME NEW box, NEW m, Holds(box, m)
  PROVE  /\ Answering(box, m.id) # {}
         /\ box.slots[FirstAnswer(box, m.id)] = {m}
         /\ Drained(TakeAnswer(box, m.id))
<1>1. box.consume \in Slots
  BY DEF Holds, Mailboxes
<1>2. Answering(box, m.id) = {box.consume}
  BY <1>1 DEF Answering, Holds
<1>3. FirstAnswer(box, m.id) = box.consume
  <2>1. From(box, box.consume) <= From(box, box.consume)
    BY <1>1, SlotAssumption DEF From, Slots
  <2>2. QED BY <1>2, <2>1 DEF FirstAnswer
<1>4. box.slots[FirstAnswer(box, m.id)] = {m}
  BY <1>1, <1>3 DEF Holds
<1>5. TakeAnswer(box, m.id) \in Mailboxes
  BY <1>1, <1>3, AfterInSlots DEF TakeAnswer, Holds, Mailboxes
<1>6. Drained(TakeAnswer(box, m.id))
  BY <1>1, <1>3, <1>5 DEF TakeAnswer, Drained, Holds, Mailboxes
<1>7. QED BY <1>2, <1>4, <1>6

-----------------------------------------------------------------------------
(* The inductive invariant.                                                *)

InService == {"service attaches", "service polls", "service returns"}

InExchange == {"posted", "answered"} \cup InService

InCall == {"id read", "next id loaded", "numbered"} \cup InExchange

AllPlaces == {"idle", "launch", "stage", "probe", "done"} \cup InCall

Staged == pc[Boot] \notin {"launch", "stage"}

ImageMapped == "image mapped" \in info.flags

StageNames == {Stages[i] : i \in DOMAIN Stages}

Flags ==
  {"image ready", "transport ready", "launch block ready", "stack ready", "entry published",
   "launch prepared", "isolated root", "image mapped", "context switched", "entry invoked",
   "service online", "probe complete", "attach complete"}

Roots == {"none", "service root"}
Images == {"none", "embedded", "staged"}
Entries == {"none", "entry"}
StackTops == {"none", "stack top"}
MailboxNames == {"none", "requests", "responses", "events"}

InfoRecords ==
  [stage : StageNames, flags : SUBSET Flags, root : Roots, image : Images, entry : Entries]

LaunchBlocks ==
  [flags : SUBSET Flags, root : Roots, image : Images, entry : Entries, stackTop : StackTops,
   mailbox : [Endpoints -> MailboxNames]]

EndpointObjects == [state : {"offline", "bound", "online"}, mailbox : MailboxNames]

SpaceObjects ==
  [state : {"offline", "ready", "active"}, root : Roots, kernelRoot : {"none", "kernel root"},
   image : Images, hasImage : BOOLEAN, hasStack : BOOLEAN]

TaskObjects ==
  [state : {"offline", "ready", "running", "online"}, entry : Entries, stackTop : StackTops,
   hosted : BOOLEAN, ready : BOOLEAN]

StagedTypes ==
  /\ info \in InfoRecords
  /\ launch \in LaunchBlocks
  /\ endpoint \in [Endpoints -> EndpointObjects]
  /\ space \in SpaceObjects
  /\ serviceTask \in TaskObjects
  /\ service \in [online : BOOLEAN, attached : BOOLEAN, root : Roots]

CallTypes ==
  /\ claimed \in 0 .. Len(Objects) /\ mapped \in 0 .. Len(Objects) - 1
  /\ nextId \in 0 .. IdCount - 1
  /\ mine \in [Callers -> Messages]
  /\ loaded \in [Callers -> 0 .. IdCount - 1]
  /\ attempts = 0
  /\ executed \in [Callers -> Nat]

(* Who stands where: the boot thread is done before anyone else calls, and *)
(* interrupts are off for the one caller inside an exchange.               *)
Places ==
  /\ pc \in [Callers -> AllPlaces]
  /\ pc[Boot] \in {"launch", "stage", "probe", "done"} \cup InCall
  /\ \A c \in Callers \ {Boot} :
       /\ pc[c] \in {"idle"} \cup InCall
       /\ pc[c] # "idle" => pc[Boot] = "done"
  /\ exchange \in {{}} \cup {{c} : c \in Callers}
  /\ \A c \in Callers : c \in exchange <=> pc[c] \in InExchange

(* A request names its caller, and never a root.                           *)
Requested ==
  \A c \in Callers : pc[c] \in InCall =>
    /\ mine[c].from = c /\ mine[c].root = "none"
    /\ IF c = Boot THEN mine[c].op = "attach" ELSE mine[c].op \in Operations

(* What is in the two mailboxes at each place of an exchange.              *)
Contents ==
  /\ exchange = {} => Drained(requests) /\ Drained(responses)
  /\ \A c \in Callers :
       /\ pc[c] \in {"posted", "service attaches", "service polls"} =>
            Holds(requests, mine[c]) /\ Drained(responses)
       /\ pc[c] = "service returns" =>
            /\ Drained(requests)
            /\ \E s \in AnswerStatuses : /\ Holds(responses, Answer(mine[c], s))
                                         /\ c = Boot => s = "success"
       /\ pc[c] = "answered" =>
            /\ Drained(requests) /\ Drained(responses)
            /\ c = Boot => mine[c].status = "success"

(* What the kernel has prepared for the service, phase by phase.           *)
Preparation ==
  /\ pc[Boot] = "stage" => info.entry = "entry"
  /\ pc[Boot] \in {"launch", "stage", "probe"} => space.root = "none" /\ info.root = "none"
  /\ ~Staged => ~ImageMapped
  /\ Staged =>
       /\ \A e \in Endpoints : /\ endpoint[e].state \in {"bound", "online"}
                               /\ endpoint[e].mailbox = MailboxOf[e]
       /\ launch.mailbox = MailboxOf
       /\ launch.entry = "entry" /\ serviceTask.entry = "entry"
       /\ space.state \in {"ready", "active"}
       /\ (\A c \in Callers : pc[c] \notin InService) => serviceTask.state \in {"ready", "online"}
  /\ ImageMapped =>
       /\ launch.root # "none" /\ space.root = launch.root /\ space.kernelRoot # "none"
       /\ space.image = launch.image
       /\ launch.stackTop = "stack top" /\ serviceTask.stackTop = "stack top"

(* How far the service has come.                                           *)
Progress ==
  /\ \A c \in Callers :
       /\ pc[c] \in InService \cup {"answered"} => ImageMapped
       /\ pc[c] \in {"service polls", "service returns", "answered"} => service.online
       /\ pc[c] = "service attaches" => ~service.online
  /\ service.online => ImageMapped /\ service.root = launch.root
  /\ service.attached => service.online
  /\ service.attached <=> pc[Boot] \in {"service returns", "answered", "done"}

ChannelInv ==
  /\ StagedTypes /\ CallTypes
  /\ Places /\ Requested /\ Contents /\ Preparation /\ Progress
  /\ ServiceTakesRequests

-----------------------------------------------------------------------------
(* The invariant holds initially, and every action keeps it.               *)

LEMMA StageNamesAre ==
  StageNames = {"defined", "launched", "image ready", "staged", "prepared", "online", "ready"}
<1>1. DOMAIN Stages = 1 .. 7
  BY DEF Stages
<1>2. StageNames = {Stages[1], Stages[2], Stages[3], Stages[4], Stages[5], Stages[6], Stages[7]}
  BY <1>1 DEF StageNames
<1>3. QED BY <1>2 DEF Stages

LEMMA ObjectCount == Len(Objects) = 10
BY DEF Objects

LEMMA InitChannelInv == Init => ChannelInv
<1> SUFFICES ASSUME Init
             PROVE  ChannelInv
  OBVIOUS
<1> USE ConstantFacts
<1>1. StagedTypes
  BY StageNamesAre DEF Init, StagedTypes, InfoRecords, LaunchBlocks, EndpointObjects,
       SpaceObjects, TaskObjects, Roots, Images, Entries, StackTops, MailboxNames
<1>2. NoMessage \in Messages
  BY DEF NoMessage, Messages, AnswerStatuses
<1>3. CallTypes
  BY <1>2, ObjectCount DEF Init, CallTypes
<1>4. /\ pc \in [Callers -> AllPlaces]
      /\ pc[Boot] = "launch"
      /\ \A c \in Callers : pc[c] \in {"launch", "idle"}
      /\ \A c \in Callers \ {Boot} : pc[c] = "idle"
  BY DEF Init, AllPlaces
<1>5. Places /\ Requested
  BY <1>4 DEF Init, Places, Requested, InCall, InExchange, InService
<1>6. Contents
  BY <1>4, EmptyMailboxIsDrained DEF Init, Contents
<1>7. Preparation
  BY <1>4 DEF Init, Preparation, Staged, ImageMapped
<1>8. Progress
  BY <1>4 DEF Init, Progress, InService
<1>9. ServiceTakesRequests
  BY DEF Init, ServiceTakesRequests
<1>10. QED BY <1>1, <1>3, <1>5, <1>6, <1>7, <1>8, <1>9 DEF ChannelInv

(* Inside an exchange a caller is alone.                                   *)
LEMMA AloneInExchange ==
  ASSUME Places, NEW c \in Callers, pc[c] \in InExchange
  PROVE  /\ exchange = {c}
         /\ \A d \in Callers \ {c} : pc[d] \notin InExchange
         /\ c # Boot => pc[Boot] = "done"
<1>1. exchange = {c}
  BY DEF Places
<1>2. \A d \in Callers \ {c} : pc[d] \notin InExchange
  BY <1>1 DEF Places
<1>3. c # Boot => pc[Boot] = "done"
  BY DEF Places, InExchange, InService, InCall
<1>4. QED BY <1>1, <1>2, <1>3

LEMMA LaunchKeepsInv ==
  ASSUME ChannelInv, ValidateServiceImage
  PROVE  ChannelInv'
<1> USE ConstantFacts DEF ChannelInv
<1>1. pc[Boot] = "launch" /\ Running /\ pc[Boot] \notin InCall /\ pc[Boot] # "done"
  BY DEF ValidateServiceImage, InCall, InExchange, InService
<1>2. /\ pc' \in [Callers -> AllPlaces]
      /\ pc'[Boot] \in {"launch", "stage"}
      /\ \A c \in Callers \ {Boot} : pc'[c] = pc[c] /\ pc'[c] = "idle"
  BY <1>1 DEF ValidateServiceImage, Goto, Places, AllPlaces
<1>3. exchange = {}
  BY <1>1, <1>2 DEF Places, InExchange, InService
<1>4. /\ info' \in InfoRecords
      /\ info'.root = info.root /\ info'.flags \subseteq info.flags \cup {"image ready"}
      /\ pc'[Boot] = "stage" => info'.entry = "entry"
  <2>1. info \in InfoRecords
    BY DEF StagedTypes
  <2>2. CASE info' = [info EXCEPT !.stage = "image ready", !.flags = @ \cup {"image ready"},
                                  !.entry = "entry"]
    BY <2>1, <2>2, StageNamesAre DEF InfoRecords, Flags, Entries
  <2>3. CASE info' = [info EXCEPT !.stage = "launched"] /\ UNCHANGED pc
    BY <1>1, <2>1, <2>3, StageNamesAre DEF InfoRecords
  <2>4. QED BY <2>2, <2>3 DEF ValidateServiceImage
<1>5. StagedTypes' /\ CallTypes'
  BY <1>4 DEF ValidateServiceImage, StagedTypes, CallTypes, objects
<1>6. Places' /\ Requested'
  BY <1>2, <1>3 DEF ValidateServiceImage, Places, Requested, InCall, InExchange, InService
<1>7. Contents'
  BY <1>2, <1>3 DEF ValidateServiceImage, Contents, mail
<1>8. Preparation'
  BY <1>1, <1>2, <1>4 DEF ValidateServiceImage, Preparation, Staged, ImageMapped, objects
<1>9. Progress'
  BY <1>1, <1>2, <1>4 DEF ValidateServiceImage, Progress, Preparation, Staged, ImageMapped,
                          objects, InService
<1>10. ServiceTakesRequests'
  BY <1>1, <1>2 DEF ValidateServiceImage, ServiceTakesRequests, Halt, Running
<1>11. QED BY <1>5, <1>6, <1>7, <1>8, <1>9, <1>10

(* Most actions leave most variables alone.                                *)
LEMMA UntouchedStagedTypes ==
  ASSUME StagedTypes, UNCHANGED <<info, launch, endpoint, objects>>
  PROVE  StagedTypes'
BY DEF StagedTypes, objects

LEMMA StagingKeepsInv ==
  ASSUME ChannelInv, ClaimBootstrapPages \/ MapBootstrapObject
  PROVE  ChannelInv'
<1> USE DEF ChannelInv
<1>1. UNCHANGED <<info, launch, endpoint, objects, mail, calls, executed>> /\ pc[Boot] = "stage"
  BY DEF ClaimBootstrapPages, MapBootstrapObject
<1>2. StagedTypes'
  BY <1>1, UntouchedStagedTypes
<1>3. CallTypes'
  <2>1. claimed' \in 0 .. 10 /\ mapped' \in 0 .. 9
    BY ObjectCount DEF ClaimBootstrapPages, MapBootstrapObject, CallTypes
  <2>2. QED BY <1>1, <2>1, ObjectCount DEF CallTypes, calls
<1>4. Places' /\ Requested'
  BY <1>1 DEF Places, Requested, calls
<1>5. Contents'
  BY <1>1 DEF Contents, calls, mail
<1>6. Preparation' /\ Progress'
  BY <1>1 DEF Preparation, Progress, Staged, ImageMapped, calls, objects
<1>7. ServiceTakesRequests'
  BY <1>1 DEF ClaimBootstrapPages, MapBootstrapObject, ServiceTakesRequests, Halt, Running,
              calls
<1>8. QED BY <1>2, <1>3, <1>4, <1>5, <1>6, <1>7

LEMMA StageTransportKeepsInv ==
  ASSUME ChannelInv, StageTransport
  PROVE  ChannelInv'
<1> USE ConstantFacts DEF ChannelInv
<1> DEFINE flags == info.flags \cup {"transport ready", "launch block ready", "stack ready",
                                     "entry published", "launch prepared"}
<1>1. pc[Boot] = "stage" /\ Running /\ pc[Boot] \notin InCall /\ pc[Boot] # "done"
  BY DEF StageTransport, InCall, InExchange, InService
<1>2. /\ pc' \in [Callers -> AllPlaces]
      /\ pc'[Boot] = "probe"
      /\ \A c \in Callers \ {Boot} : pc'[c] = pc[c] /\ pc'[c] = "idle"
  BY <1>1 DEF StageTransport, Goto, Places, AllPlaces
<1>3. exchange = {} /\ exchange' = {}
  BY <1>1, <1>2 DEF StageTransport, Places, InExchange, InService
<1>4. info \in InfoRecords /\ info.entry = "entry" /\ info.root = "none" /\ ~ImageMapped
  BY <1>1 DEF StagedTypes, Preparation, Staged
<1>5. flags \in SUBSET Flags /\ "image mapped" \notin flags
  BY <1>4 DEF InfoRecords, Flags, ImageMapped
<1>6. info' \in InfoRecords /\ info'.root = "none" /\ info'.flags = flags
  <2>1. info' = [info EXCEPT !.stage = "prepared", !.flags = flags]
    BY DEF StageTransport
  <2>2. QED BY <1>4, <1>5, <2>1, StageNamesAre DEF InfoRecords
<1>7. /\ launch' \in LaunchBlocks
      /\ launch'.mailbox = MailboxOf /\ launch'.entry = "entry"
  <2>1. launch' = [flags |-> flags, root |-> info.root, image |-> info.image,
                   entry |-> info.entry, stackTop |-> "none", mailbox |-> MailboxOf]
    BY DEF StageTransport
  <2>2. MailboxOf \in [Endpoints -> MailboxNames]
    BY DEF MailboxOf, Endpoints, MailboxNames
  <2>3. info.root \in Roots /\ info.image \in Images /\ info.entry \in Entries /\ "none" \in StackTops
    BY <1>4 DEF InfoRecords, StackTops
  <2> HIDE DEF flags
  <2>4. QED BY <1>4, <1>5, <2>1, <2>2, <2>3 DEF LaunchBlocks
<1>8. /\ endpoint' \in [Endpoints -> EndpointObjects]
      /\ \A e \in Endpoints : endpoint'[e].state = "bound" /\ endpoint'[e].mailbox = MailboxOf[e]
  <2>1. MailboxOf \in [Endpoints -> MailboxNames]
    BY DEF MailboxOf, Endpoints, MailboxNames
  <2>2. QED BY <2>1 DEF StageTransport, InitializeEndpointObject, EndpointObjects
<1>9. space' \in SpaceObjects /\ space'.state = "ready" /\ space'.root = "none"
  BY <1>4 DEF StageTransport, InitializeAddressSpaceObject, SpaceObjects, InfoRecords, Roots
<1>10. serviceTask' \in TaskObjects /\ serviceTask'.state = "ready" /\ serviceTask'.entry = "entry"
  BY <1>4 DEF StageTransport, InitializeTaskObject, TaskObjects, InfoRecords, StackTops
<1>11. UNCHANGED <<service, claimed, mapped, nextId, loaded, mine, attempts, executed, halted>>
  BY DEF StageTransport
<1>12. StagedTypes'
  BY <1>6, <1>7, <1>8, <1>9, <1>10, <1>11 DEF StagedTypes
<1>13. CallTypes'
  BY <1>11 DEF CallTypes
<1>14. Places' /\ Requested'
  BY <1>2, <1>3, <1>11 DEF Places, Requested, InCall, InExchange, InService
<1>15. Contents'
  <2>1. Drained(requests') /\ Drained(responses')
    BY EmptyMailboxIsDrained DEF StageTransport
  <2>2. QED BY <1>2, <1>3, <2>1 DEF Contents
<1>16. Preparation'
  <2>1. ~ImageMapped'
    BY <1>5, <1>6 DEF ImageMapped
  <2>2. QED BY <1>2, <1>6, <1>7, <1>8, <1>9, <1>10, <2>1 DEF Preparation, Staged
<1>17. Progress'
  BY <1>1, <1>2, <1>4, <1>11 DEF Progress, InService
<1>18. ServiceTakesRequests'
  BY <1>1, <1>11 DEF ServiceTakesRequests, Running
<1>19. QED BY <1>12, <1>13, <1>14, <1>15, <1>16, <1>17, <1>18

(* A step of a call before its exchange moves the caller and nothing that  *)
(* the service or the kernel keeps.                                        *)
LEMMA MoveBeforeExchange ==
  ASSUME ChannelInv, NEW c \in Callers, NEW place \in {"id read", "next id loaded", "numbered"},
         MayRun(c),
         pc[c] \in {"probe", "idle", "id read", "next id loaded"},
         c # Boot => pc[c] # "probe",
         Goto(c, place),
         UNCHANGED <<kernelVars, objects, mail, exchange, halted>>
  PROVE  (StagedTypes /\ Places /\ Contents /\ Preparation /\ Progress
           /\ ServiceTakesRequests)'
<1> USE ConstantFacts DEF ChannelInv
<1>1. /\ pc' \in [Callers -> AllPlaces] /\ pc'[c] = place
      /\ \A d \in Callers \ {c} : pc'[d] = pc[d]
  BY DEF Goto, Places, AllPlaces, InCall
<1>2. /\ c = Boot => pc[c] # "idle"
      /\ c # Boot => pc[Boot] = "done"
      /\ pc[c] \notin InExchange /\ pc'[c] \notin InExchange /\ pc'[c] \in InCall
      /\ pc[Boot] \notin {"launch", "stage"}
  BY <1>1 DEF MayRun, Places, InCall, InExchange, InService
<1>3. exchange = {}
  BY <1>2 DEF MayRun, Places
<1>4. \A d \in Callers : pc[d] \notin InExchange /\ pc'[d] \notin InExchange
  BY <1>1, <1>2, <1>3 DEF Places
<1>5. StagedTypes'
  BY UntouchedStagedTypes DEF kernelVars
<1>6. Places'
  BY <1>1, <1>2, <1>3, <1>4 DEF Places
<1>7. Contents'
  BY <1>3, <1>4 DEF Contents, mail, InExchange, InService
<1>8. Preparation'
  BY <1>1, <1>2, <1>4 DEF Preparation, Staged, ImageMapped, kernelVars, objects, InExchange
<1>9. Progress'
  BY <1>1, <1>2, <1>4 DEF Progress, ImageMapped, kernelVars, objects, InExchange, InService
<1>10. ServiceTakesRequests'
  BY DEF ServiceTakesRequests, MayRun, Running
<1>11. QED BY <1>5, <1>6, <1>7, <1>8, <1>9, <1>10

LEMMA BeginCallKeepsInv ==
  ASSUME ChannelInv, NEW c \in Callers, NEW op \in Operations \cup {"attach"}, BeginCall(c, op)
  PROVE  ChannelInv'
<1> USE ConstantFacts DEF ChannelInv
<1>1. /\ c = Boot => pc[c] = "probe" /\ op = "attach"
      /\ c # Boot => pc[c] = "idle" /\ op \in Operations
  BY DEF BeginCall
<1>2. (StagedTypes /\ Places /\ Contents /\ Preparation /\ Progress
        /\ ServiceTakesRequests)'
  BY <1>1, MoveBeforeExchange DEF BeginCall
<1>3. mine' = [mine EXCEPT ![c] = Request(c, nextId, op, "none")]
  <2>1. CASE op = "attach"
    BY <1>1, <2>1 DEF BeginCall, PopulateBootstrapAttachRequest, Preparation
  <2>2. CASE op # "attach"
    BY <2>2 DEF BeginCall
  <2>3. QED BY <2>1, <2>2
<1>4. /\ Request(c, nextId, op, "none") \in Messages
      /\ Request(c, nextId, op, "none").from = c
      /\ Request(c, nextId, op, "none").op = op
      /\ Request(c, nextId, op, "none").root = "none"
  BY DEF Request, NoMessage, Messages, AnswerStatuses, CallTypes
<1>5. CallTypes'
  <2>1. mine' \in [Callers -> Messages]
    BY <1>3, <1>4 DEF CallTypes
  <2>2. executed' \in [Callers -> Nat]
    BY DEF BeginCall, CallTypes
  <2>3. QED BY <2>1, <2>2 DEF BeginCall, CallTypes, kernelVars
<1>6. Requested'
  <2>1. /\ mine'[c] = Request(c, nextId, op, "none")
        /\ \A d \in Callers \ {c} : mine'[d] = mine[d] /\ pc'[d] = pc[d]
    BY <1>3 DEF BeginCall, Goto, CallTypes, Places
  <2>2. QED BY <1>1, <1>4, <2>1 DEF Requested
<1>7. QED BY <1>2, <1>5, <1>6

LEMMA NumberingKeepsInv ==
  ASSUME ChannelInv, NEW c \in Callers, LoadNextId(c) \/ StoreNextId(c)
  PROVE  ChannelInv'
<1> USE ConstantFacts DEF ChannelInv
<1>1. /\ MayRun(c) /\ pc[c] \in {"id read", "next id loaded"}
      /\ Goto(c, "next id loaded") \/ Goto(c, "numbered")
      /\ UNCHANGED <<kernelVars, objects, mail, mine, attempts, exchange, halted, executed>>
  BY DEF LoadNextId, StoreNextId
<1>2. (StagedTypes /\ Places /\ Contents /\ Preparation /\ Progress
        /\ ServiceTakesRequests)'
  BY <1>1, MoveBeforeExchange
<1>3. nextId' \in 0 .. IdCount - 1 /\ loaded' \in [Callers -> 0 .. IdCount - 1]
  <2>1. CASE LoadNextId(c)
    BY <2>1 DEF LoadNextId, CallTypes
  <2>2. CASE StoreNextId(c)
    <3>1. loaded[c] \in 0 .. IdCount - 1
      BY DEF CallTypes
    <3>2. (loaded[c] + 1) % IdCount \in 0 .. IdCount - 1
      BY <3>1
    <3>3. QED BY <2>2, <3>2 DEF StoreNextId, CallTypes
  <2>3. QED BY <2>1, <2>2
<1>4. CallTypes'
  BY <1>1, <1>3 DEF CallTypes, kernelVars
<1>5. Requested'
  <2>1. pc[c] \in InCall /\ \A d \in Callers \ {c} : pc'[d] = pc[d]
    BY <1>1 DEF Goto, Places, InCall
  <2>2. QED BY <1>1, <2>1 DEF Requested
<1>6. QED BY <1>2, <1>4, <1>5

LEMMA EndpointsUsable ==
  ASSUME Preparation, Staged, NEW e \in Endpoints
  PROVE  Usable(e)
BY DEF Preparation, Usable

LEMMA EnqueueKeepsInv ==
  ASSUME ChannelInv, NEW c \in Callers, EnqueueRequest(c)
  PROVE  ChannelInv'
<1> USE ConstantFacts DEF ChannelInv
<1>1. /\ pc[c] = "numbered" /\ pc[c] \notin InExchange /\ pc[c] \in InCall /\ exchange \subseteq {c}
      /\ Running /\ (c # Boot => pc[Boot] = "done")
  BY DEF EnqueueRequest, MayRun, InCall, InExchange, InService
<1>2. exchange = {} /\ \A d \in Callers : pc[d] \notin InExchange
  BY <1>1 DEF Places
<1>3. Usable("receive")
  <2>1. Staged
    BY <1>1 DEF Staged
  <2>2. "receive" \in Endpoints
    BY DEF Endpoints, MailboxOf
  <2>3. QED BY <2>1, <2>2, EndpointsUsable
<1>4. mine[c] \in Messages
  BY DEF CallTypes
<1>5. CanPut(requests) /\ Holds(Put(requests, mine[c]), mine[c]) /\ Drained(responses)
  BY <1>2, <1>4, PutIntoDrained DEF Contents
<1>6. /\ requests' = Put(requests, mine[c]) /\ exchange' = {c} /\ attempts' = 0
      /\ Goto(c, "posted") /\ halted' = halted
      /\ UNCHANGED <<kernelVars, objects, responses, nextId, loaded, mine, executed>>
  BY <1>3, <1>5 DEF EnqueueRequest
<1>7. /\ pc' \in [Callers -> AllPlaces] /\ pc'[c] = "posted"
      /\ \A d \in Callers \ {c} : pc'[d] = pc[d]
  BY <1>6 DEF Goto, Places, AllPlaces, InCall, InExchange
<1>8. \A d \in Callers \ {c} : pc'[d] \notin InExchange
  BY <1>2, <1>7
<1>9. StagedTypes'
  BY <1>6, UntouchedStagedTypes DEF kernelVars
<1>10. CallTypes'
  BY <1>6 DEF CallTypes, kernelVars
<1>11. Places'
  BY <1>1, <1>6, <1>7, <1>8 DEF Places, InCall, InExchange
<1>12. Requested'
  BY <1>1, <1>6, <1>7 DEF Requested
<1>13. Contents'
  BY <1>5, <1>6, <1>7, <1>8 DEF Contents, InExchange, InService
<1>14. Preparation'
  BY <1>1, <1>2, <1>6, <1>7, <1>8 DEF Preparation, Staged, ImageMapped, kernelVars, objects,
                                      InExchange, InService
<1>15. Progress'
  BY <1>1, <1>2, <1>6, <1>7, <1>8 DEF Progress, ImageMapped, kernelVars, objects, InExchange,
                                      InService
<1>16. ServiceTakesRequests'
  BY <1>1, <1>6 DEF ServiceTakesRequests, Running
<1>17. QED BY <1>9, <1>10, <1>11, <1>12, <1>13, <1>14, <1>15, <1>16

(* The steps that give the service its root, image and stack, one by one.  *)
LaunchRecords ==
  [info : InfoRecords, launch : LaunchBlocks, space : SpaceObjects, task : TaskObjects]

SameEntries(s, t) ==
  /\ t.info.entry = s.info.entry
  /\ t.launch.entry = s.launch.entry /\ t.launch.mailbox = s.launch.mailbox
  /\ t.space.state = s.space.state
  /\ t.task.entry = s.task.entry /\ t.task.state = s.task.state

HasRoot(s) ==
  s.launch.root # "none" /\ s.space.root = s.launch.root /\ s.space.kernelRoot # "none"

MappedIn(s) == "image mapped" \in s.info.flags

LEMMA CloneStep ==
  ASSUME NEW s \in LaunchRecords
  PROVE  LET t == CloneCurrentRootPageMap(s)
         IN  /\ t \in LaunchRecords /\ SameEntries(s, t) /\ HasRoot(t)
             /\ "image mapped" \in t.info.flags => "image mapped" \in s.info.flags
<1> DEFINE root == IF s.info.root # "none" THEN s.info.root ELSE "service root"
           t == CloneCurrentRootPageMap(s)
<1>1. root \in Roots /\ root # "none"
  BY DEF LaunchRecords, InfoRecords, Roots
<1>2. /\ t.info = [s.info EXCEPT !.root = root, !.flags = @ \cup {"isolated root"}]
      /\ t.launch = [s.launch EXCEPT !.root = root]
      /\ t.space = [s.space EXCEPT !.root = root, !.kernelRoot = "kernel root"]
      /\ t.task = s.task
  BY DEF CloneCurrentRootPageMap, LaunchRecords
<1>3. t \in [info : {t.info}, launch : {t.launch}, space : {t.space}, task : {t.task}]
  BY DEF CloneCurrentRootPageMap, LaunchRecords
<1> HIDE DEF root, t
<1>4. /\ s.info \in InfoRecords /\ s.launch \in LaunchBlocks /\ s.space \in SpaceObjects
      /\ s.task \in TaskObjects
  BY DEF LaunchRecords
<1>5. /\ t.info \in InfoRecords /\ t.info.entry = s.info.entry
      /\ "image mapped" \in t.info.flags => "image mapped" \in s.info.flags
  <2>1. s.info.flags \cup {"isolated root"} \in SUBSET Flags
    BY <1>4 DEF InfoRecords, Flags
  <2>2. /\ t.info.flags = s.info.flags \cup {"isolated root"}
        /\ t.info.entry = s.info.entry
    BY <1>2, <1>4 DEF InfoRecords
  <2>3. t.info \in InfoRecords
    BY <1>1, <1>2, <1>4, <2>1 DEF InfoRecords
  <2>4. QED BY <2>2, <2>3
<1>6. /\ t.launch \in LaunchBlocks /\ t.launch.root = root
      /\ t.launch.entry = s.launch.entry /\ t.launch.mailbox = s.launch.mailbox
  BY <1>1, <1>2, <1>4 DEF LaunchBlocks
<1>7. /\ t.space \in SpaceObjects /\ t.space.root = root /\ t.space.kernelRoot = "kernel root"
      /\ t.space.state = s.space.state
  BY <1>1, <1>2, <1>4 DEF SpaceObjects
<1>8. t \in LaunchRecords
  BY <1>2, <1>3, <1>4, <1>5, <1>6, <1>7 DEF LaunchRecords
<1>9. QED BY <1>1, <1>2, <1>5, <1>6, <1>7, <1>8 DEF SameEntries, HasRoot, t

LEMMA StageAndMapSteps ==
  ASSUME NEW s \in LaunchRecords,
         NEW t, t = StageServiceImageInPhysicalMemory(s)
                \/ t = MapStagedServiceImageIntoAddressSpace(s)
  PROVE  /\ t \in LaunchRecords /\ SameEntries(s, t)
         /\ HasRoot(s) => HasRoot(t)
         /\ t.info.flags = s.info.flags
         /\ t = StageServiceImageInPhysicalMemory(s) => t.launch.image = t.space.image
         /\ t = MapStagedServiceImageIntoAddressSpace(s) =>
              t.launch.image = s.launch.image /\ t.space.image = s.space.image
<1>1. /\ s.info \in InfoRecords /\ s.launch \in LaunchBlocks /\ s.space \in SpaceObjects
      /\ s.task \in TaskObjects
  BY DEF LaunchRecords
<1>2. CASE t = StageServiceImageInPhysicalMemory(s)
  <2>1. /\ t.info = [s.info EXCEPT !.image = "staged"]
        /\ t.launch = [s.launch EXCEPT !.image = "staged"]
        /\ t.space = [s.space EXCEPT !.image = "staged"]
        /\ t.task = s.task
    BY <1>2 DEF StageServiceImageInPhysicalMemory, LaunchRecords
  <2>2. t \in [info : {t.info}, launch : {t.launch}, space : {t.space}, task : {t.task}]
    BY <1>2 DEF StageServiceImageInPhysicalMemory, LaunchRecords
  <2>3. t.info \in InfoRecords /\ t.info.entry = s.info.entry /\ t.info.flags = s.info.flags
    BY <1>1, <2>1 DEF InfoRecords, Images
  <2>4. /\ t.launch \in LaunchBlocks /\ t.launch.root = s.launch.root /\ t.launch.image = "staged"
        /\ t.launch.entry = s.launch.entry /\ t.launch.mailbox = s.launch.mailbox
    BY <1>1, <2>1 DEF LaunchBlocks, Images
  <2>5. /\ t.space \in SpaceObjects /\ t.space.root = s.space.root /\ t.space.image = "staged"
        /\ t.space.kernelRoot = s.space.kernelRoot /\ t.space.state = s.space.state
    BY <1>1, <2>1 DEF SpaceObjects, Images
  <2>6. t \in LaunchRecords
    BY <1>1, <2>1, <2>2, <2>3, <2>4, <2>5 DEF LaunchRecords
  <2>7. t = MapStagedServiceImageIntoAddressSpace(s) => t.launch = s.launch
    BY DEF MapStagedServiceImageIntoAddressSpace, LaunchRecords
  <2>8. t = MapStagedServiceImageIntoAddressSpace(s) => t.space = [s.space EXCEPT !.hasImage = TRUE]
    BY DEF MapStagedServiceImageIntoAddressSpace, LaunchRecords
  <2>9. t = MapStagedServiceImageIntoAddressSpace(s) => t.space.image = s.space.image
    BY <1>1, <2>8 DEF SpaceObjects
  <2>10. QED BY <2>1, <2>3, <2>4, <2>5, <2>6, <2>7, <2>9 DEF SameEntries, HasRoot
<1>3. CASE t # StageServiceImageInPhysicalMemory(s) /\ t = MapStagedServiceImageIntoAddressSpace(s)
  <2>1. /\ t.info = s.info /\ t.launch = s.launch /\ t.task = s.task
        /\ t.space = [s.space EXCEPT !.hasImage = TRUE]
    BY <1>3 DEF MapStagedServiceImageIntoAddressSpace, LaunchRecords
  <2>2. t \in [info : {t.info}, launch : {t.launch}, space : {t.space}, task : {t.task}]
    BY <1>3 DEF MapStagedServiceImageIntoAddressSpace, LaunchRecords
  <2>3. /\ t.space \in SpaceObjects /\ t.space.root = s.space.root
        /\ t.space.image = s.space.image
        /\ t.space.kernelRoot = s.space.kernelRoot /\ t.space.state = s.space.state
    BY <1>1, <2>1 DEF SpaceObjects
  <2>4. t \in LaunchRecords
    BY <1>1, <2>1, <2>2, <2>3 DEF LaunchRecords
  <2>5. QED BY <1>3, <2>1, <2>3, <2>4 DEF SameEntries, HasRoot
<1>4. QED BY <1>2, <1>3

LEMMA StackStep ==
  ASSUME NEW s \in LaunchRecords
  PROVE  LET t == MapServiceStackIntoAddressSpace(s)
         IN  /\ t \in LaunchRecords /\ SameEntries(s, t)
             /\ HasRoot(s) => HasRoot(t)
             /\ s.launch.image = s.space.image => t.launch.image = t.space.image
             /\ "image mapped" \in t.info.flags
             /\ t.launch.stackTop = "stack top" /\ t.task.stackTop = "stack top"
<1> DEFINE t == MapServiceStackIntoAddressSpace(s)
<1>1. /\ s.info \in InfoRecords /\ s.launch \in LaunchBlocks /\ s.space \in SpaceObjects
      /\ s.task \in TaskObjects
  BY DEF LaunchRecords
<1>2. /\ t.info = [s.info EXCEPT !.flags = @ \cup {"image mapped"}]
      /\ t.launch = [s.launch EXCEPT !.stackTop = "stack top"]
      /\ t.space = [s.space EXCEPT !.hasStack = TRUE]
      /\ t.task = [s.task EXCEPT !.stackTop = "stack top"]
  BY DEF MapServiceStackIntoAddressSpace, LaunchRecords
<1>3. t \in [info : {t.info}, launch : {t.launch}, space : {t.space}, task : {t.task}]
  BY DEF MapServiceStackIntoAddressSpace, LaunchRecords
<1> HIDE DEF t
<1>4. /\ t.info \in InfoRecords /\ t.info.entry = s.info.entry
      /\ "image mapped" \in t.info.flags
  <2>1. s.info.flags \cup {"image mapped"} \in SUBSET Flags
    BY <1>1 DEF InfoRecords, Flags
  <2>2. /\ t.info.flags = s.info.flags \cup {"image mapped"}
        /\ t.info.entry = s.info.entry
    BY <1>1, <1>2 DEF InfoRecords
  <2>3. t.info \in InfoRecords
    BY <1>1, <1>2, <2>1 DEF InfoRecords
  <2>4. QED BY <2>2, <2>3
<1>5. /\ t.launch \in LaunchBlocks /\ t.launch.root = s.launch.root
      /\ t.launch.image = s.launch.image /\ t.launch.stackTop = "stack top"
      /\ t.launch.entry = s.launch.entry /\ t.launch.mailbox = s.launch.mailbox
  BY <1>1, <1>2 DEF LaunchBlocks, StackTops
<1>6. /\ t.space \in SpaceObjects /\ t.space.root = s.space.root /\ t.space.image = s.space.image
      /\ t.space.kernelRoot = s.space.kernelRoot /\ t.space.state = s.space.state
  BY <1>1, <1>2 DEF SpaceObjects
<1>7. /\ t.task \in TaskObjects /\ t.task.stackTop = "stack top"
      /\ t.task.entry = s.task.entry /\ t.task.state = s.task.state
  BY <1>1, <1>2 DEF TaskObjects, StackTops
<1>8. t \in LaunchRecords
  BY <1>3, <1>4, <1>5, <1>6, <1>7 DEF LaunchRecords
<1>9. QED BY <1>4, <1>5, <1>6, <1>7, <1>8 DEF SameEntries, HasRoot, t

LEMMA NaturalsUpToFour ==
  ASSUME NEW n \in 0 .. 4
  PROVE  n = 0 \/ n = 1 \/ n = 2 \/ n = 3 \/ n = 4
OBVIOUS

(* What the steps add up to: all four give the service everything it will  *)
(* check, fewer leave it without "image mapped".                           *)
LEMMA StepsReached ==
  ASSUME NEW s \in LaunchRecords, NEW reached \in 0 .. 4, ~MappedIn(s)
  PROVE  LET t == AfterSteps(s, reached)
         IN  /\ t \in LaunchRecords /\ SameEntries(s, t)
             /\ MappedIn(t) <=> reached = 4
             /\ reached = 4 => /\ HasRoot(t) /\ t.launch.image = t.space.image
                               /\ t.launch.stackTop = "stack top"
                               /\ t.task.stackTop = "stack top"
<1> DEFINE one == CloneCurrentRootPageMap(s)
           two == StageServiceImageInPhysicalMemory(one)
           three == MapStagedServiceImageIntoAddressSpace(two)
           four == MapServiceStackIntoAddressSpace(three)
<1>1. /\ one \in LaunchRecords /\ SameEntries(s, one) /\ HasRoot(one)
      /\ ~MappedIn(one)
  BY CloneStep DEF MappedIn
<1> HIDE DEF one
<1>2. /\ two \in LaunchRecords /\ SameEntries(one, two) /\ HasRoot(two)
      /\ ~MappedIn(two) /\ two.launch.image = two.space.image
  BY <1>1, StageAndMapSteps DEF MappedIn
<1> HIDE DEF two
<1>3. /\ three \in LaunchRecords /\ SameEntries(two, three) /\ HasRoot(three)
      /\ ~MappedIn(three) /\ three.launch.image = three.space.image
  BY <1>2, StageAndMapSteps DEF MappedIn
<1> HIDE DEF three
<1>4. /\ four \in LaunchRecords /\ SameEntries(three, four) /\ HasRoot(four)
      /\ MappedIn(four) /\ four.launch.image = four.space.image
      /\ four.launch.stackTop = "stack top" /\ four.task.stackTop = "stack top"
  BY <1>3, StackStep DEF MappedIn
<1> HIDE DEF four
<1>5. AfterSteps(s, reached) = CASE reached = 0 -> s [] reached = 1 -> one [] reached = 2 -> two
                                 [] reached = 3 -> three [] reached = 4 -> four
  BY DEF AfterSteps, one, two, three, four
<1>6. SameEntries(s, s) /\ SameEntries(s, two) /\ SameEntries(s, three) /\ SameEntries(s, four)
  BY <1>1, <1>2, <1>3, <1>4 DEF SameEntries
<1>7. reached = 0 \/ reached = 1 \/ reached = 2 \/ reached = 3 \/ reached = 4
  BY NaturalsUpToFour
<1>8. CASE reached = 0
  <2>1. AfterSteps(s, reached) = s
    BY <1>5, <1>8
  <2>2. QED BY <1>8, <2>1, <1>6
<1>9. CASE reached = 1
  <2>1. AfterSteps(s, reached) = one
    BY <1>5, <1>9
  <2>2. QED BY <1>9, <2>1, <1>1
<1>10. CASE reached = 2
  <2>1. AfterSteps(s, reached) = two
    BY <1>5, <1>10
  <2>2. QED BY <1>10, <2>1, <1>2, <1>6
<1>11. CASE reached = 3
  <2>1. AfterSteps(s, reached) = three
    BY <1>5, <1>11
  <2>2. QED BY <1>11, <2>1, <1>3, <1>6
<1>12. CASE reached = 4
  <2>1. AfterSteps(s, reached) = four
    BY <1>5, <1>12
  <2>2. QED BY <1>12, <2>1, <1>4, <1>6
<1>13. QED BY <1>7, <1>8, <1>9, <1>10, <1>11, <1>12

(* A step inside an exchange moves its caller; nobody else is inside one.  *)
LEMMA MoveInExchange ==
  ASSUME Places, NEW c \in Callers, pc[c] \in InExchange, NEW place \in InExchange,
         Goto(c, place), UNCHANGED exchange
  PROVE  /\ Places' /\ exchange' = {c} /\ pc'[c] = place
         /\ \A d \in Callers \ {c} : pc'[d] = pc[d] /\ pc'[d] \notin InExchange
         /\ c # Boot => pc'[Boot] = "done"
<1>1. /\ pc' \in [Callers -> AllPlaces] /\ pc'[c] = place
      /\ \A d \in Callers \ {c} : pc'[d] = pc[d]
  BY DEF Goto, Places, AllPlaces, InCall
<1>2. exchange' = {c} /\ \A d \in Callers \ {c} : pc'[d] \notin InExchange
  BY <1>1, AloneInExchange
<1>3. c # Boot => pc[Boot] = "done" /\ pc'[Boot] = "done"
  BY <1>1, AloneInExchange, ConstantFacts
<1>4. pc'[Boot] \in {"launch", "stage", "probe", "done"} \cup InCall
  BY <1>1, <1>3, ConstantFacts DEF InCall
<1>5. \A d \in Callers \ {Boot} : /\ pc'[d] \in {"idle"} \cup InCall
                                  /\ pc'[d] # "idle" => pc'[Boot] = "done"
  <2> SUFFICES ASSUME NEW d \in Callers \ {Boot}
               PROVE  pc'[d] \in {"idle"} \cup InCall /\ (pc'[d] # "idle" => pc'[Boot] = "done")
    OBVIOUS
  <2>1. CASE d = c
    BY <1>1, <1>3, <2>1 DEF InCall
  <2>2. CASE d # c
    <3>1. pc'[d] = pc[d] /\ pc[d] \in {"idle"} \cup InCall
      BY <1>1, <2>2 DEF Places
    <3>2. pc[d] # "idle" => pc[Boot] = "done" /\ pc[Boot] \notin InExchange
      BY DEF Places, InExchange, InService
    <3>3. pc[d] # "idle" => pc'[Boot] = "done"
      BY <1>1, <3>2, ConstantFacts
    <3>4. QED BY <3>1, <3>3
  <2>3. QED BY <2>1, <2>2
<1>6. Places'
  <2>1. \A d \in Callers : d \in exchange' <=> pc'[d] \in InExchange
    BY <1>1, <1>2
  <2>2. exchange' \in {{}} \cup {{d} : d \in Callers}
    BY <1>2
  <2>3. QED BY <1>1, <1>4, <1>5, <2>1, <2>2 DEF Places
<1>7. QED BY <1>1, <1>2, <1>3, <1>6

(* A service that could step would find the endpoints, the objects and one *)
(* request, whoever calls.                                                 *)
LEMMA PostedCanStep ==
  ASSUME ChannelInv, NEW c \in Callers, pc[c] = "posted"
  PROVE  /\ Staged /\ ServiceCanStep /\ pc[c] \in InExchange
         /\ ~ImageMapped => c = Boot /\ ~service.online
<1> USE DEF ChannelInv
<1>1. pc[c] \in InExchange /\ pc[c] \notin InService
  BY DEF InExchange, InService
<1>2. \A d \in Callers : pc[d] \notin InService
  BY <1>1, AloneInExchange DEF InExchange
<1>3. c # Boot => pc[Boot] = "done"
  BY <1>1, AloneInExchange
<1>4. Staged
  BY <1>3 DEF Staged
<1>5. AtHead(requests) = {mine[c]}
  BY HeadOfHolds DEF Contents
<1>6. ServiceCanStep
  BY <1>2, <1>4, <1>5 DEF Preparation, ServiceCanStep, HostedServiceTaskReady
<1>7. ~ImageMapped => c = Boot /\ ~service.online
  BY <1>3 DEF Progress
<1>8. QED BY <1>1, <1>4, <1>6, <1>7

LEMMA MapServiceImageKeepsInv ==
  ASSUME ChannelInv, NEW c \in Callers, MapServiceImageIntoOwnAddressSpace(c)
  PROVE  ChannelInv'
<1> USE ConstantFacts DEF ChannelInv
<1>1. pc[c] = "posted" /\ Running /\ ~ImageMapped
  BY DEF MapServiceImageIntoOwnAddressSpace, ImageMapped
<1>2. Staged /\ c = Boot /\ ~service.online /\ pc[c] \in InExchange
  BY <1>1, PostedCanStep
<1> DEFINE before == [info |-> info, launch |-> launch, space |-> space, task |-> serviceTask]
<1>3. before \in LaunchRecords /\ ~MappedIn(before)
  BY <1>1 DEF LaunchRecords, StagedTypes, MappedIn, ImageMapped
<1>4. PICK reached \in 0 .. 4 :
         /\ info' = AfterSteps(before, reached).info
         /\ launch' = [AfterSteps(before, reached).launch EXCEPT
                         !.flags = AfterSteps(before, reached).info.flags]
         /\ space' = AfterSteps(before, reached).space
         /\ serviceTask' = AfterSteps(before, reached).task
         /\ halted' = IF reached = 4 THEN halted ELSE "kernel"
  BY DEF MapServiceImageIntoOwnAddressSpace
<1> DEFINE after == AfterSteps(before, reached)
<1>5. /\ after \in LaunchRecords /\ SameEntries(before, after)
      /\ MappedIn(after) <=> reached = 4
      /\ reached = 4 => /\ HasRoot(after) /\ after.launch.image = after.space.image
                        /\ after.launch.stackTop = "stack top"
                        /\ after.task.stackTop = "stack top"
  BY <1>3, StepsReached
<1>6. /\ before.info = info /\ before.launch = launch /\ before.space = space
      /\ before.task = serviceTask
  OBVIOUS
<1>7. /\ endpoint' = [e \in Endpoints |-> [endpoint[e] EXCEPT !.state = "online"]]
      /\ UNCHANGED <<claimed, mapped, service, mail, calls, executed>>
  BY DEF MapServiceImageIntoOwnAddressSpace
<1>8. /\ info' = after.info /\ space' = after.space /\ serviceTask' = after.task
      /\ launch' = [after.launch EXCEPT !.flags = after.info.flags]
  BY <1>4
<1> HIDE DEF before, after
<1>9. /\ after.info \in InfoRecords /\ after.launch \in LaunchBlocks
      /\ after.space \in SpaceObjects /\ after.task \in TaskObjects
  BY <1>5 DEF LaunchRecords
<1>10. /\ launch' \in LaunchBlocks
       /\ launch'.root = after.launch.root /\ launch'.image = after.launch.image
       /\ launch'.stackTop = after.launch.stackTop
       /\ launch'.entry = launch.entry /\ launch'.mailbox = launch.mailbox
  <2>1. after.info.flags \in SUBSET Flags
    BY <1>9 DEF InfoRecords
  <2>2. QED BY <1>5, <1>6, <1>8, <1>9, <2>1 DEF LaunchBlocks, SameEntries
<1>11. /\ endpoint' \in [Endpoints -> EndpointObjects]
       /\ \A e \in Endpoints : /\ endpoint'[e].state = "online"
                               /\ endpoint'[e].mailbox = endpoint[e].mailbox
  BY <1>7 DEF StagedTypes, EndpointObjects
<1>12. StagedTypes'
  BY <1>7, <1>8, <1>9, <1>10, <1>11 DEF StagedTypes
<1>13. CallTypes' /\ Places' /\ Requested' /\ Contents'
  BY <1>7 DEF CallTypes, Places, Requested, Contents, calls, mail
<1>14. ImageMapped' <=> reached = 4
  BY <1>5, <1>8 DEF ImageMapped, MappedIn
<1>15. Preparation'
  <2>1. pc'[Boot] = "posted" /\ Staged'
    BY <1>1, <1>2, <1>7 DEF calls, Staged
  <2>2. /\ space'.state = space.state
        /\ serviceTask'.entry = serviceTask.entry /\ serviceTask'.state = serviceTask.state
    BY <1>5, <1>6, <1>8 DEF SameEntries
  <2>3. ImageMapped' =>
          /\ launch'.root # "none" /\ space'.root = launch'.root /\ space'.kernelRoot # "none"
          /\ space'.image = launch'.image
          /\ launch'.stackTop = "stack top" /\ serviceTask'.stackTop = "stack top"
    BY <1>5, <1>8, <1>10, <1>14 DEF HasRoot
  <2>4. \A d \in Callers : pc'[d] = pc[d]
    BY <1>7 DEF calls
  <2>5. QED BY <1>2, <1>10, <1>11, <2>1, <2>2, <2>3, <2>4 DEF Preparation
<1>16. Progress'
  <2>1. \A d \in Callers : pc[d] \notin InService \cup {"answered"}
    BY <1>1, <1>2, AloneInExchange DEF InExchange, InService
  <2>2. QED BY <1>1, <1>2, <1>7, <2>1 DEF Progress, calls, InService
<1>17. ServiceTakesRequests'
  <2>1. halted' # "service refuses" /\ (halted' = "kernel" => ~ImageMapped')
    BY <1>1, <1>4, <1>14 DEF Running
  <2>2. QED BY <1>1, <1>2, <1>7, <2>1 DEF ServiceTakesRequests, ImageMapped, calls
<1>18. QED BY <1>12, <1>13, <1>15, <1>16, <1>17

LEMMA EnterServiceKeepsInv ==
  ASSUME ChannelInv, NEW c \in Callers, EnterService(c)
  PROVE  ChannelInv'
<1> USE ConstantFacts DEF ChannelInv
<1>1. pc[c] = "posted" /\ Running
  BY DEF EnterService
<1>2. Staged /\ ServiceCanStep /\ pc[c] \in InExchange
  BY <1>1, PostedCanStep
<1> DEFINE place == IF service.online THEN "service polls" ELSE "service attaches"
<1>3. /\ ImageMapped
      /\ endpoint' = [e \in Endpoints |-> [endpoint[e] EXCEPT !.state = "online"]]
      /\ space' = [space EXCEPT !.state = "active"]
      /\ serviceTask' = [serviceTask EXCEPT !.state = "running"]
      /\ info' = [info EXCEPT !.flags = @ \cup {"context switched"}]
      /\ launch' = [launch EXCEPT !.flags = info'.flags]
      /\ Goto(c, place)
      /\ UNCHANGED <<requests, responses, mine, attempts, halted, claimed, mapped, service,
                     nextId, loaded, exchange, executed>>
  BY <1>2 DEF EnterService, ImageMapped
<1>4. place \in InExchange /\ place \in InService
  BY DEF InExchange, InService
<1>5. /\ Places' /\ pc'[c] = place
      /\ \A d \in Callers \ {c} : pc'[d] = pc[d] /\ pc'[d] \notin InExchange
      /\ c # Boot => pc'[Boot] = "done"
  BY <1>2, <1>3, <1>4, MoveInExchange
<1>6. /\ info \in InfoRecords /\ launch \in LaunchBlocks /\ space \in SpaceObjects
      /\ serviceTask \in TaskObjects /\ endpoint \in [Endpoints -> EndpointObjects]
  BY DEF StagedTypes
<1>7. info' \in InfoRecords /\ info'.flags = info.flags \cup {"context switched"}
  <2>1. info.flags \cup {"context switched"} \in SUBSET Flags
    BY <1>6 DEF InfoRecords, Flags
  <2>2. QED BY <1>3, <1>6, <2>1 DEF InfoRecords
<1>8. /\ launch' \in LaunchBlocks
      /\ launch'.root = launch.root /\ launch'.image = launch.image
      /\ launch'.stackTop = launch.stackTop
      /\ launch'.entry = launch.entry /\ launch'.mailbox = launch.mailbox
  <2>1. info'.flags \in SUBSET Flags
    BY <1>7 DEF InfoRecords
  <2>2. QED BY <1>3, <1>6, <2>1 DEF LaunchBlocks
<1>9. /\ space' \in SpaceObjects /\ space'.state = "active"
      /\ space'.root = space.root /\ space'.image = space.image
      /\ space'.kernelRoot = space.kernelRoot
  BY <1>3, <1>6 DEF SpaceObjects
<1>10. /\ serviceTask' \in TaskObjects /\ serviceTask'.entry = serviceTask.entry
       /\ serviceTask'.stackTop = serviceTask.stackTop
  BY <1>3, <1>6 DEF TaskObjects
<1>11. /\ endpoint' \in [Endpoints -> EndpointObjects]
       /\ \A e \in Endpoints : /\ endpoint'[e].state = "online"
                               /\ endpoint'[e].mailbox = endpoint[e].mailbox
  BY <1>3, <1>6 DEF EndpointObjects
<1>12. StagedTypes'
  BY <1>3, <1>7, <1>8, <1>9, <1>10, <1>11 DEF StagedTypes
<1>13. CallTypes'
  BY <1>3 DEF CallTypes
<1>14. Requested'
  BY <1>2, <1>3, <1>5 DEF Requested, InCall
<1>15. Contents'
  <2>1. Holds(requests, mine[c]) /\ Drained(responses)
    BY <1>1 DEF Contents
  <2>2. exchange' # {}
    BY <1>4, <1>5 DEF Places
  <2>3. QED BY <1>3, <1>5, <2>1, <2>2 DEF Contents, InExchange, InService
<1>16. ImageMapped'
  BY <1>3, <1>7 DEF ImageMapped
<1>17. Preparation'
  <2>1. pc'[c] \in InService /\ pc'[Boot] \notin {"launch", "stage", "probe"}
    BY <1>4, <1>5 DEF InService
  <2>2. Staged'
    BY <2>1 DEF Staged
  <2>3. ~ \A d \in Callers : pc'[d] \notin InService
    BY <2>1
  <2>4. /\ ImageMapped /\ serviceTask'.entry = "entry"
        /\ launch'.entry = "entry" /\ launch'.mailbox = MailboxOf
    BY <1>2, <1>3, <1>8, <1>10 DEF Preparation
  <2>5. \A e \in Endpoints : /\ endpoint'[e].state \in {"bound", "online"}
                             /\ endpoint'[e].mailbox = MailboxOf[e]
    BY <1>2, <1>11 DEF Preparation
  <2>6. /\ launch'.root # "none" /\ space'.root = launch'.root /\ space'.kernelRoot # "none"
        /\ space'.image = launch'.image
        /\ launch'.stackTop = "stack top" /\ serviceTask'.stackTop = "stack top"
    BY <1>8, <1>9, <1>10, <2>4 DEF Preparation
  <2>7. QED BY <1>9, <2>1, <2>2, <2>3, <2>4, <2>5, <2>6 DEF Preparation
<1>18. Progress'
  <2>1. pc[Boot] \notin {"service returns", "answered"} /\ pc'[Boot] \notin {"service returns", "answered"}
        /\ (pc[Boot] = "done" <=> pc'[Boot] = "done")
    BY <1>1, <1>2, <1>5, AloneInExchange DEF InExchange, InService
  <2>2. \A d \in Callers \ {c} : pc'[d] \notin InService \cup {"answered"}
    BY <1>5 DEF InExchange
  <2>3. QED BY <1>3, <1>5, <1>8, <1>16, <2>1, <2>2 DEF Progress, InService
<1>19. ServiceTakesRequests'
  BY <1>1, <1>3 DEF ServiceTakesRequests, Running
<1>20. QED BY <1>5, <1>12, <1>13, <1>14, <1>15, <1>17, <1>18, <1>19

LEMMA LaunchChecksOut ==
  ASSUME Preparation, Staged, ImageMapped
  PROVE  LaunchIsValid
<1>1. \A e \in Endpoints : launch.mailbox[e] # "none" /\ endpoint[e].mailbox = launch.mailbox[e]
  BY DEF Preparation, MailboxOf, Endpoints
<1>2. ValidLaunchBlock
  BY <1>1 DEF Preparation, ValidLaunchBlock
<1>3. ValidAddressSpace /\ ValidTask
  BY DEF Preparation, ValidAddressSpace, ValidTask
<1>4. QED BY <1>1, <1>2, <1>3 DEF LaunchIsValid, ValidEndpoint

LEMMA ServiceAttachKeepsInv ==
  ASSUME ChannelInv, NEW c \in Callers, ServiceAttach(c)
  PROVE  ChannelInv'
<1> USE ConstantFacts DEF ChannelInv
<1>1. pc[c] = "service attaches" /\ Running /\ pc[c] \in InExchange /\ pc[c] \in InService
  BY DEF ServiceAttach, InExchange, InService
<1>2. c # Boot => pc[Boot] = "done"
  BY <1>1, AloneInExchange
<1>3. Staged /\ ImageMapped /\ ~service.online /\ c = Boot
  BY <1>1, <1>2 DEF Progress, Staged
<1>4. LaunchIsValid
  BY <1>3, LaunchChecksOut
<1>5. CASE halted' = "service memory"
           /\ UNCHANGED <<service, endpoint, space, serviceTask, pc, info, claimed, mapped, launch,
                          requests, responses, nextId, loaded, mine, attempts, exchange, executed>>
  BY <1>1, <1>5 DEF StagedTypes, CallTypes, Places, Requested, Contents, Preparation, Progress,
                    Staged, ImageMapped, ServiceTakesRequests
<1>6. CASE /\ service' = [online |-> TRUE, attached |-> FALSE, root |-> launch.root]
           /\ endpoint' = [e \in Endpoints |-> [endpoint[e] EXCEPT !.state = "online"]]
           /\ space' = [space EXCEPT !.state = "active"]
           /\ serviceTask' = [serviceTask EXCEPT !.state = "online"]
           /\ Goto(c, "service polls")
           /\ UNCHANGED <<halted, info, claimed, mapped, launch, requests, responses, nextId,
                          loaded, mine, attempts, exchange, executed>>
  <2> "service polls" \in InExchange
    BY DEF InExchange, InService
  <2>1. /\ Places' /\ exchange' = {c} /\ pc'[c] = "service polls"
        /\ \A d \in Callers \ {c} : pc'[d] = pc[d] /\ pc'[d] \notin InExchange
    BY <1>1, <1>6, MoveInExchange
  <2>2. /\ info \in InfoRecords /\ launch \in LaunchBlocks /\ space \in SpaceObjects
        /\ serviceTask \in TaskObjects /\ endpoint \in [Endpoints -> EndpointObjects]
    BY DEF StagedTypes
  <2>3. /\ service' \in [online : BOOLEAN, attached : BOOLEAN, root : Roots]
        /\ service'.online = TRUE /\ service'.attached = FALSE /\ service'.root = launch.root
    BY <1>6, <2>2 DEF LaunchBlocks
  <2>4. /\ endpoint' \in [Endpoints -> EndpointObjects]
        /\ \A e \in Endpoints : /\ endpoint'[e].state = "online"
                                /\ endpoint'[e].mailbox = endpoint[e].mailbox
    BY <1>6, <2>2 DEF EndpointObjects
  <2>5. /\ space' \in SpaceObjects /\ space'.state = "active"
        /\ space'.root = space.root /\ space'.image = space.image
        /\ space'.kernelRoot = space.kernelRoot
    BY <1>6, <2>2 DEF SpaceObjects
  <2>6. /\ serviceTask' \in TaskObjects /\ serviceTask'.state = "online"
        /\ serviceTask'.entry = serviceTask.entry
        /\ serviceTask'.stackTop = serviceTask.stackTop
    BY <1>6, <2>2 DEF TaskObjects
  <2>7. StagedTypes'
    BY <1>6, <2>2, <2>3, <2>4, <2>5, <2>6 DEF StagedTypes
  <2>8. CallTypes'
    BY <1>6 DEF CallTypes
  <2>9. Requested'
    BY <1>1, <1>6, <2>1 DEF Requested, InCall
  <2>10. Contents'
    <3>1. Holds(requests, mine[c]) /\ Drained(responses)
      BY <1>1 DEF Contents
    <3>2. QED BY <1>6, <2>1, <3>1 DEF Contents, InExchange, InService
  <2>11. ImageMapped'
    BY <1>3, <1>6 DEF ImageMapped
  <2>12. Preparation'
    <3>1. pc'[Boot] = "service polls"
      BY <1>3, <2>1
    <3>2. Staged'
      BY <3>1 DEF Staged
    <3>3. \A e \in Endpoints : endpoint'[e].mailbox = MailboxOf[e]
      BY <1>3, <2>4 DEF Preparation
    <3>4. /\ launch'.mailbox = MailboxOf /\ launch'.entry = "entry"
          /\ serviceTask'.entry = "entry"
          /\ launch'.root # "none" /\ space'.root = launch'.root /\ space'.kernelRoot # "none"
          /\ space'.image = launch'.image
          /\ launch'.stackTop = "stack top" /\ serviceTask'.stackTop = "stack top"
      BY <1>3, <1>6, <2>5, <2>6 DEF Preparation
    <3>5. QED BY <2>4, <2>5, <2>6, <2>11, <3>1, <3>2, <3>3, <3>4 DEF Preparation
  <2>13. Progress'
    <3>1. \A d \in Callers \ {c} : pc'[d] \notin InService \cup {"answered"}
      BY <2>1 DEF InExchange
    <3>2. QED BY <1>3, <1>6, <2>1, <2>3, <2>11, <3>1 DEF Progress, InService
  <2>14. ServiceTakesRequests'
    BY <1>1, <1>6 DEF ServiceTakesRequests, Running
  <2>15. QED BY <2>1, <2>7, <2>8, <2>9, <2>10, <2>12, <2>13, <2>14
<1>7. QED BY <1>4, <1>5, <1>6 DEF ServiceAttach, Halt

(* The service finds the request of the caller it runs for, and gives the  *)
(* boot thread's attach nothing but success.                               *)
LEMMA PolledRequest ==
  ASSUME ChannelInv, NEW c \in Callers, pc[c] = "service polls"
  PROVE  /\ AtHead(requests) = {mine[c]} /\ Drained(responses)
         /\ mine[c] \in Messages /\ mine[c].from = c
         /\ Statuses(mine[c]) \subseteq AnswerStatuses
         /\ c = Boot => /\ mine[c].op = "attach" /\ ~service.attached
                        /\ Statuses(mine[c]) = {"success"}
         /\ c # Boot => mine[c].op \in Operations /\ service.attached
         /\ ImageMapped /\ service.online /\ Staged
<1> USE ConstantFacts DEF ChannelInv
<1>1. pc[c] \in InExchange /\ pc[c] \in InCall
  BY DEF InCall, InExchange, InService
<1>2. c # Boot => pc[Boot] = "done"
  BY <1>1, AloneInExchange
<1>3. AtHead(requests) = {mine[c]} /\ Drained(responses)
  BY HeadOfHolds DEF Contents
<1>4. mine[c] \in Messages
  BY DEF CallTypes
<1>5. /\ mine[c].from = c /\ mine[c].root = "none"
      /\ c = Boot => mine[c].op = "attach"
      /\ c # Boot => mine[c].op \in Operations
  BY <1>1 DEF Requested
<1>6. ImageMapped /\ service.online /\ service.root = launch.root
  BY DEF Progress
<1>7. (c = Boot => ~service.attached) /\ (c # Boot => service.attached)
  BY <1>2 DEF Progress
<1>8. c = Boot => Statuses(mine[c]) = {"success"}
  BY <1>5, <1>6, <1>7 DEF Statuses, MayHandle, AttachStatus
<1>9. Statuses(mine[c]) \subseteq AnswerStatuses
  BY DEF Statuses, AttachStatus, AnswerStatuses
<1>10. Staged
  BY <1>2 DEF Staged
<1>11. QED BY <1>3, <1>4, <1>5, <1>6, <1>7, <1>8, <1>9, <1>10

LEMMA AnswerIsMessage ==
  ASSUME NEW m \in Messages, NEW s \in AnswerStatuses
  PROVE  /\ Answer(m, s) \in Messages
         /\ Answer(m, s).id = m.id /\ Answer(m, s).op = m.op /\ Answer(m, s).from = m.from
         /\ Answer(m, s).root = m.root /\ Answer(m, s).status = s
BY DEF Answer, Messages

LEMMA ServicePollKeepsInv ==
  ASSUME ChannelInv, NEW c \in Callers, ServicePoll(c)
  PROVE  ChannelInv'
<1> USE ConstantFacts DEF ChannelInv
<1>1. pc[c] = "service polls" /\ Running /\ pc[c] \in InExchange /\ pc[c] \in InCall
  BY DEF ServicePoll, InCall, InExchange, InService
<1>2. /\ AtHead(requests) = {mine[c]} /\ Drained(responses)
      /\ mine[c] \in Messages /\ mine[c].from = c
      /\ Statuses(mine[c]) \subseteq AnswerStatuses
      /\ c = Boot => /\ mine[c].op = "attach" /\ ~service.attached
                     /\ Statuses(mine[c]) = {"success"}
      /\ c # Boot => mine[c].op \in Operations /\ service.attached
      /\ ImageMapped /\ service.online /\ Staged
  BY <1>1, PolledRequest
<1>3. PICK status \in Statuses(mine[c]) :
        /\ CompleteRequest(mine[c], status)
        /\ executed' = [executed EXCEPT ![c] = @ + 1]
        /\ IF mine[c].op = "attach" /\ status = "success"
           THEN BecomeReady ELSE UNCHANGED <<service, serviceTask, launch, events>>
  BY <1>2 DEF ServicePoll
<1>4. /\ Goto(c, "service returns")
      /\ UNCHANGED <<info, claimed, mapped, endpoint, space, nextId, loaded, mine, attempts,
                     exchange, halted>>
  BY DEF ServicePoll
<1>5. "service returns" \in InExchange
  BY DEF InExchange, InService
<1>6. /\ Places' /\ exchange' = {c} /\ pc'[c] = "service returns"
      /\ \A d \in Callers \ {c} : pc'[d] = pc[d] /\ pc'[d] \notin InExchange
      /\ c # Boot => pc'[Boot] = "done"
  BY <1>1, <1>4, <1>5, MoveInExchange
<1>7. status \in AnswerStatuses /\ (c = Boot => status = "success")
  BY <1>2, <1>3
<1>8. Holds(responses', Answer(mine[c], status)) /\ Drained(requests')
  <2>1. Answer(mine[c], status) \in Messages
    BY <1>2, <1>7, AnswerIsMessage
  <2>2. CanPut(responses) /\ Holds(Put(responses, Answer(mine[c], status)), Answer(mine[c], status))
    BY <1>2, <2>1, PutIntoDrained
  <2>3. Drained(TakeHead(requests))
    BY <1>1, HeadOfHolds DEF Contents
  <2>4. QED BY <1>3, <2>2, <2>3 DEF CompleteRequest
<1>9. /\ launch \in LaunchBlocks /\ serviceTask \in TaskObjects
      /\ service \in [online : BOOLEAN, attached : BOOLEAN, root : Roots]
  BY DEF StagedTypes
<1>10. /\ service' \in [online : BOOLEAN, attached : BOOLEAN, root : Roots]
       /\ service'.online = service.online /\ service'.root = service.root /\ service'.attached
       /\ serviceTask' \in TaskObjects
       /\ serviceTask'.state = serviceTask.state /\ serviceTask'.entry = serviceTask.entry
       /\ serviceTask'.stackTop = serviceTask.stackTop
       /\ launch' \in LaunchBlocks
       /\ launch'.root = launch.root /\ launch'.image = launch.image
       /\ launch'.stackTop = launch.stackTop /\ launch'.entry = launch.entry
       /\ launch'.mailbox = launch.mailbox
  <2>1. CASE c = Boot
    <3>1. BecomeReady
      BY <1>2, <1>3, <1>7, <2>1
    <3>2. /\ service' \in [online : BOOLEAN, attached : BOOLEAN, root : Roots]
          /\ service'.online = service.online /\ service'.root = service.root /\ service'.attached
      BY <1>9, <3>1 DEF BecomeReady
    <3>3. /\ serviceTask' \in TaskObjects
          /\ serviceTask'.state = serviceTask.state /\ serviceTask'.entry = serviceTask.entry
          /\ serviceTask'.stackTop = serviceTask.stackTop
      BY <1>9, <3>1 DEF BecomeReady, TaskObjects
    <3>4. launch.flags \cup {"attach complete"} \in SUBSET Flags
      BY <1>9 DEF LaunchBlocks, Flags
    <3>5. /\ launch' \in LaunchBlocks
          /\ launch'.root = launch.root /\ launch'.image = launch.image
          /\ launch'.stackTop = launch.stackTop /\ launch'.entry = launch.entry
          /\ launch'.mailbox = launch.mailbox
      BY <1>9, <3>1, <3>4 DEF BecomeReady, LaunchBlocks
    <3>6. QED BY <3>2, <3>3, <3>5
  <2>2. CASE c # Boot
    <3>1. UNCHANGED <<service, serviceTask, launch>>
      BY <1>2, <1>3, <2>2
    <3>2. QED BY <1>2, <1>9, <2>2, <3>1
  <2>3. QED BY <2>1, <2>2
<1>11. StagedTypes'
  BY <1>4, <1>10 DEF StagedTypes
<1>12. CallTypes'
  <2>1. executed' \in [Callers -> Nat]
    BY <1>3 DEF CallTypes
  <2>2. QED BY <1>4, <2>1 DEF CallTypes
<1>13. Requested'
  BY <1>1, <1>4, <1>6 DEF Requested
<1>14. Contents'
  BY <1>4, <1>6, <1>7, <1>8 DEF Contents, InExchange, InService
<1>15. Preparation'
  <2>1. pc'[Boot] \in {"service returns", "done"} /\ pc'[c] \in InService
    BY <1>6 DEF InService
  <2>2. Staged'
    BY <2>1 DEF Staged
  <2>3. ~ \A d \in Callers : pc'[d] \notin InService
    BY <2>1
  <2>4. QED BY <1>2, <1>4, <1>10, <2>1, <2>2, <2>3 DEF Preparation, ImageMapped
<1>16. Progress'
  <2>1. \A d \in Callers \ {c} : pc'[d] \notin InService \cup {"answered"}
    BY <1>6 DEF InExchange
  <2>2. service.root = launch.root
    BY <1>2 DEF Progress
  <2>3. ImageMapped'
    BY <1>2, <1>4 DEF ImageMapped
  <2>4. pc'[Boot] \in {"service returns", "answered", "done"}
    BY <1>6
  <2>5. QED BY <1>2, <1>6, <1>10, <2>1, <2>2, <2>3, <2>4 DEF Progress
<1>17. ServiceTakesRequests'
  BY <1>1, <1>4 DEF ServiceTakesRequests, Running
<1>18. QED BY <1>6, <1>11, <1>12, <1>13, <1>14, <1>15, <1>16, <1>17

LEMMA ServiceStopsKeepsInv ==
  ASSUME ChannelInv, NEW c \in Callers, ServiceStops(c)
  PROVE  ChannelInv'
<1> USE DEF ChannelInv
<1>1. halted' = "service memory" /\ UNCHANGED <<kernelVars, objects, mail, calls, executed>>
  BY DEF ServiceStops, Halt
<1>2. StagedTypes'
  BY <1>1, UntouchedStagedTypes DEF kernelVars
<1>3. (CallTypes /\ Places /\ Requested /\ Contents)'
  BY <1>1 DEF CallTypes, Places, Requested, Contents, kernelVars, mail, calls
<1>4. (Preparation /\ Progress)'
  BY <1>1 DEF Preparation, Progress, Staged, ImageMapped, kernelVars, objects, calls
<1>5. ServiceTakesRequests'
  BY <1>1 DEF ServiceTakesRequests
<1>6. QED BY <1>2, <1>3, <1>4, <1>5

(* The reply is always there when the kernel looks for it.                 *)
LEMMA DequeueTakesReply ==
  ASSUME ChannelInv, NEW c \in Callers, DequeueResponse(c)
  PROVE  /\ Running /\ pc[c] = "service returns"
         /\ \E s \in AnswerStatuses : /\ Holds(responses, Answer(mine[c], s))
                                      /\ mine' = [mine EXCEPT ![c] = Answer(mine[c], s)]
                                      /\ c = Boot => s = "success"
         /\ Drained(requests) /\ Drained(responses')
         /\ Goto(c, "answered") /\ Staged
         /\ serviceTask' = [serviceTask EXCEPT !.state = "online", !.hosted = FALSE]
         /\ info' = [info EXCEPT !.stage = "online", !.flags = @ \cup {"entry invoked", "service online"}]
         /\ launch' = [launch EXCEPT !.flags = info.flags \cup {"entry invoked"}]
         /\ UNCHANGED <<requests, attempts, halted, claimed, mapped, endpoint, space, service,
                        nextId, loaded, exchange, executed>>
<1> USE ConstantFacts DEF ChannelInv
<1>1. Running /\ pc[c] = "service returns" /\ pc[c] \in InExchange
  BY DEF DequeueResponse, InExchange, InService
<1>2. PICK s \in AnswerStatuses : /\ Holds(responses, Answer(mine[c], s))
                                  /\ c = Boot => s = "success"
  BY <1>1 DEF Contents
<1>3. mine[c] \in Messages
  BY DEF CallTypes
<1>4. Answer(mine[c], s).id = mine[c].id
  BY <1>3, AnswerIsMessage
<1>5. Staged
  <2>1. c # Boot => pc[Boot] = "done"
    BY <1>1, AloneInExchange
  <2>2. QED BY <1>1, <2>1 DEF Staged
<1>6. Usable("reply")
  <2>1. "reply" \in Endpoints
    BY DEF Endpoints, MailboxOf
  <2>2. QED BY <1>5, <2>1, EndpointsUsable
<1>7. /\ Answering(responses, mine[c].id) # {}
      /\ responses.slots[FirstAnswer(responses, mine[c].id)] = {Answer(mine[c], s)}
      /\ Drained(TakeAnswer(responses, mine[c].id))
  BY <1>2, <1>4, AnswerOfHolds
<1>8. TakesReply(c, responses) /\ UNCHANGED <<requests, attempts, halted>>
  BY <1>6, <1>7 DEF DequeueResponse
<1>9. mine' = [mine EXCEPT ![c] = Answer(mine[c], s)]
  <2>1. (CHOOSE m \in {Answer(mine[c], s)} : TRUE) = Answer(mine[c], s)
    OBVIOUS
  <2>2. QED BY <1>7, <1>8, <2>1 DEF TakesReply
<1>10. Drained(responses') /\ Goto(c, "answered")
  BY <1>7, <1>8 DEF TakesReply
<1>11. Drained(requests)
  BY <1>1 DEF Contents
<1>12. QED BY <1>1, <1>2, <1>5, <1>8, <1>9, <1>10, <1>11 DEF DequeueResponse

LEMMA DequeueKeepsInv ==
  ASSUME ChannelInv, NEW c \in Callers, DequeueResponse(c)
  PROVE  ChannelInv'
<1> USE ConstantFacts DEF ChannelInv
<1>1. /\ Running /\ pc[c] = "service returns"
      /\ Drained(requests) /\ Drained(responses')
      /\ Goto(c, "answered") /\ Staged
      /\ serviceTask' = [serviceTask EXCEPT !.state = "online", !.hosted = FALSE]
      /\ info' = [info EXCEPT !.stage = "online", !.flags = @ \cup {"entry invoked", "service online"}]
      /\ launch' = [launch EXCEPT !.flags = info.flags \cup {"entry invoked"}]
      /\ UNCHANGED <<requests, attempts, halted, claimed, mapped, endpoint, space, service,
                     nextId, loaded, exchange, executed>>
  BY DequeueTakesReply
<1>2. PICK s \in AnswerStatuses : /\ mine' = [mine EXCEPT ![c] = Answer(mine[c], s)]
                                  /\ c = Boot => s = "success"
  BY DequeueTakesReply
<1>3. pc[c] \in InExchange /\ pc[c] \in InCall /\ "answered" \in InExchange
  BY <1>1 DEF InCall, InExchange, InService
<1>4. /\ Places' /\ exchange' = {c} /\ pc'[c] = "answered"
      /\ \A d \in Callers \ {c} : pc'[d] = pc[d] /\ pc'[d] \notin InExchange
      /\ c # Boot => pc'[Boot] = "done"
  BY <1>1, <1>3, MoveInExchange
<1>5. /\ mine' \in [Callers -> Messages] /\ mine'[c] = Answer(mine[c], s)
      /\ \A d \in Callers \ {c} : mine'[d] = mine[d]
      /\ mine'[c].op = mine[c].op /\ mine'[c].from = mine[c].from /\ mine'[c].root = mine[c].root
      /\ mine'[c].status = s
  <2>1. mine \in [Callers -> Messages]
    BY DEF CallTypes
  <2>2. mine[c] \in Messages
    BY <2>1
  <2>3. Answer(mine[c], s) \in Messages
    BY <2>2, AnswerIsMessage
  <2>4. mine'[c] = Answer(mine[c], s)
    BY <1>2, <2>1
  <2>5. QED BY <1>2, <2>1, <2>2, <2>3, <2>4, AnswerIsMessage
<1>6. /\ info \in InfoRecords /\ launch \in LaunchBlocks /\ serviceTask \in TaskObjects
  BY DEF StagedTypes
<1>7. info' \in InfoRecords /\ info'.flags = info.flags \cup {"entry invoked", "service online"}
  <2>1. info.flags \cup {"entry invoked", "service online"} \in SUBSET Flags
    BY <1>6 DEF InfoRecords, Flags
  <2>2. QED BY <1>1, <1>6, <2>1, StageNamesAre DEF InfoRecords
<1>8. /\ launch' \in LaunchBlocks
      /\ launch'.root = launch.root /\ launch'.image = launch.image
      /\ launch'.stackTop = launch.stackTop
      /\ launch'.entry = launch.entry /\ launch'.mailbox = launch.mailbox
  <2>1. info.flags \cup {"entry invoked"} \in SUBSET Flags
    BY <1>6 DEF InfoRecords, Flags
  <2>2. QED BY <1>1, <1>6, <2>1 DEF LaunchBlocks
<1>9. /\ serviceTask' \in TaskObjects /\ serviceTask'.entry = serviceTask.entry
      /\ serviceTask'.stackTop = serviceTask.stackTop /\ serviceTask'.state = "online"
  BY <1>1, <1>6 DEF TaskObjects
<1>10. StagedTypes'
  BY <1>1, <1>7, <1>8, <1>9 DEF StagedTypes
<1>11. CallTypes'
  BY <1>1, <1>5 DEF CallTypes
<1>12. Requested'
  <2>1. /\ mine[c].from = c /\ mine[c].root = "none"
        /\ IF c = Boot THEN mine[c].op = "attach" ELSE mine[c].op \in Operations
    BY <1>3 DEF Requested
  <2>2. QED BY <1>4, <1>5, <2>1 DEF Requested
<1>13. Contents'
  BY <1>1, <1>2, <1>4, <1>5 DEF Contents, InExchange, InService
<1>14. ImageMapped /\ ImageMapped'
  BY <1>1, <1>7 DEF Progress, ImageMapped, InService
<1>15. Preparation'
  <2>1. pc'[Boot] \in {"answered", "done"}
    BY <1>4
  <2>2. Staged'
    BY <2>1 DEF Staged
  <2>3. QED BY <1>1, <1>8, <1>9, <1>14, <2>1, <2>2 DEF Preparation
<1>16. Progress'
  <2>1. \A d \in Callers \ {c} : pc'[d] \notin InService \cup {"answered"}
    BY <1>4 DEF InExchange
  <2>2. service.online /\ service.root = launch.root
    BY <1>1 DEF Progress
  <2>3. service.attached
    BY <1>1, <1>3, AloneInExchange DEF Progress
  <2>4. pc'[Boot] \in {"service returns", "answered", "done"}
    BY <1>4
  <2>5. QED BY <1>1, <1>4, <1>8, <1>14, <2>1, <2>2, <2>3, <2>4 DEF Progress, InService
<1>17. ServiceTakesRequests'
  BY <1>1 DEF ServiceTakesRequests, Running
<1>18. QED BY <1>4, <1>10, <1>11, <1>12, <1>13, <1>15, <1>16, <1>17

LEMMA FinishKeepsInv ==
  ASSUME ChannelInv, NEW c \in Callers, Finish(c)
  PROVE  ChannelInv'
<1> USE ConstantFacts DEF ChannelInv
<1>1. Running /\ pc[c] = "answered" /\ pc[c] \in InExchange
  BY DEF Finish, InExchange
<1>2. /\ \A d \in Callers \ {c} : pc[d] \notin InExchange
      /\ c # Boot => pc[Boot] = "done"
  BY <1>1, AloneInExchange
<1>3. Drained(requests) /\ Drained(responses) /\ (c = Boot => mine[c].status = "success")
  BY <1>1 DEF Contents
<1> DEFINE place == IF c = Boot THEN "done" ELSE "idle"
<1>4. /\ exchange' = {} /\ attempts' = 0 /\ Goto(c, place) /\ UNCHANGED halted
      /\ info' = IF c = Boot
                 THEN [info EXCEPT !.stage = "ready",
                                   !.flags = @ \cup {"probe complete", "attach complete"}]
                 ELSE info
      /\ UNCHANGED <<claimed, mapped, launch, endpoint, objects, mail, nextId, loaded, mine,
                     executed>>
  BY <1>3 DEF Finish, RestoreInterrupts
<1>5. /\ pc' \in [Callers -> AllPlaces] /\ pc'[c] = place
      /\ \A d \in Callers \ {c} : pc'[d] = pc[d]
  BY <1>4 DEF Goto, Places, AllPlaces
<1>6. pc'[Boot] = "done" /\ pc'[c] \notin InCall /\ pc'[c] \notin InExchange
  BY <1>2, <1>5 DEF InCall, InExchange, InService
<1>7. \A d \in Callers : pc'[d] \notin InExchange
  BY <1>2, <1>5, <1>6
<1>8. /\ info' \in InfoRecords /\ (ImageMapped => ImageMapped')
  <2>1. info \in InfoRecords
    BY DEF StagedTypes
  <2>2. info.flags \cup {"probe complete", "attach complete"} \in SUBSET Flags
    BY <2>1 DEF InfoRecords, Flags
  <2>3. CASE c = Boot
    <3>1. info'.flags = info.flags \cup {"probe complete", "attach complete"}
      BY <1>4, <2>1, <2>3 DEF InfoRecords
    <3>2. info' \in InfoRecords
      BY <1>4, <2>1, <2>2, <2>3, StageNamesAre DEF InfoRecords
    <3>3. QED BY <3>1, <3>2 DEF ImageMapped
  <2>4. CASE c # Boot
    BY <1>4, <2>1, <2>4 DEF ImageMapped
  <2>5. QED BY <2>3, <2>4
<1>9. StagedTypes'
  BY <1>4, <1>8 DEF StagedTypes, objects
<1>10. CallTypes'
  BY <1>4 DEF CallTypes
<1>11. Places'
  <2>1. \A d \in Callers \ {Boot} : pc'[d] \in {"idle"} \cup InCall
    BY <1>5 DEF Places
  <2>2. QED BY <1>4, <1>5, <1>6, <1>7, <2>1 DEF Places
<1>12. Requested'
  BY <1>4, <1>5, <1>6 DEF Requested
<1>13. Contents'
  BY <1>3, <1>4, <1>7 DEF Contents, InExchange, InService, mail
<1>14. ImageMapped /\ ImageMapped'
  BY <1>1, <1>8 DEF Progress
<1>15. Preparation'
  <2>1. Staged /\ Staged'
    BY <1>1, <1>2, <1>6 DEF Staged
  <2>2. \A d \in Callers : pc[d] \notin InService
    BY <1>1, <1>2 DEF InExchange, InService
  <2>3. QED BY <1>4, <1>6, <1>14, <2>1, <2>2 DEF Preparation, objects
<1>16. Progress'
  <2>1. service.attached
    BY <1>1, <1>2 DEF Progress
  <2>2. \A d \in Callers : pc'[d] \notin InService \cup {"answered"}
    BY <1>7 DEF InExchange
  <2>3. QED BY <1>4, <1>6, <1>14, <2>1, <2>2 DEF Progress, objects, InService
<1>17. ServiceTakesRequests'
  BY <1>1, <1>4 DEF ServiceTakesRequests, Running
<1>18. QED BY <1>9, <1>10, <1>11, <1>12, <1>13, <1>15, <1>16, <1>17

LEMMA StutterKeepsInv ==
  ASSUME ChannelInv, UNCHANGED vars
  PROVE  ChannelInv'
<1> USE DEF ChannelInv, vars, kernelVars, objects, mail, calls
<1>1. StagedTypes'
  BY DEF StagedTypes
<1>2. (CallTypes /\ Places /\ Requested /\ Contents)'
  BY DEF CallTypes, Places, Requested, Contents
<1>3. (Preparation /\ Progress)'
  BY DEF Preparation, Progress, Staged, ImageMapped
<1>4. ServiceTakesRequests'
  BY DEF ServiceTakesRequests
<1>5. QED BY <1>1, <1>2, <1>3, <1>4

LEMMA NextKeepsInv ==
  ASSUME ChannelInv, [Next]_vars
  PROVE  ChannelInv'
<1>1. CASE BootStep
  BY <1>1, LaunchKeepsInv, StagingKeepsInv, StageTransportKeepsInv DEF BootStep
<1>2. CASE \E c \in Callers : \E op \in Operations \cup {"attach"} : BeginCall(c, op)
  BY <1>2, BeginCallKeepsInv
<1>3. CASE \E c \in Callers : CallStep(c)
  BY <1>3, NumberingKeepsInv, EnqueueKeepsInv DEF CallStep
<1>4. CASE \E c \in Callers : ExchangeStep(c)
  BY <1>4, MapServiceImageKeepsInv, EnterServiceKeepsInv, ServiceAttachKeepsInv,
     ServicePollKeepsInv, DequeueKeepsInv, FinishKeepsInv DEF ExchangeStep
<1>5. CASE \E c \in Callers : ServiceStops(c)
  BY <1>5, ServiceStopsKeepsInv
<1>6. CASE UNCHANGED vars
  BY <1>6, StutterKeepsInv
<1>7. QED BY <1>1, <1>2, <1>3, <1>4, <1>5, <1>6 DEF Next

LEMMA ChannelInvariant == Spec => []ChannelInv
BY InitChannelInv, NextKeepsInv, PTL DEF Spec

-----------------------------------------------------------------------------
(* The safety properties.                                                  *)

(* Inside an exchange or not, each mailbox is drained or holds one message.*)
LEMMA MailboxTypes ==
  ASSUME ChannelInv
  PROVE  requests \in Mailboxes /\ responses \in Mailboxes
<1>1. CASE exchange = {}
  BY <1>1 DEF ChannelInv, Contents, Drained
<1>2. CASE exchange # {}
  <2>1. PICK c \in Callers : pc[c] \in InExchange
    BY <1>2 DEF ChannelInv, Places
  <2>2. QED BY <2>1 DEF ChannelInv, Contents, Drained, Holds, InExchange, InService
<1>3. QED BY <1>1, <1>2

(* Type correctness of the channel: the stages, the indices of both        *)
(* mailboxes, the requests and ids of the callers, the steps taken and the *)
(* one caller with interrupts off.                                         *)
THEOREM ChannelTypes == Spec => []TypeOK
<1>1. ChannelInv => TypeOK
  <2> SUFFICES ASSUME ChannelInv
               PROVE  TypeOK
    OBVIOUS
  <2>1. requests.produce \in Slots /\ requests.consume \in Slots
    BY MailboxTypes DEF Mailboxes
  <2>2. responses.produce \in Slots /\ responses.consume \in Slots
    BY MailboxTypes DEF Mailboxes
  <2>3. info.stage \in StageNames
    BY DEF ChannelInv, StagedTypes, InfoRecords
  <2>4. attempts \in 0 .. StepBudget
    BY ConstantFacts DEF ChannelInv, CallTypes
  <2>5. QED BY <2>1, <2>2, <2>3, <2>4 DEF TypeOK, ChannelInv, CallTypes, Places, StageNames
<1>2. QED BY <1>1, ChannelInvariant, PTL

(* Between two exchanges nothing is left in either mailbox, however many   *)
(* callers there are, however often the mailboxes and the ids have wrapped *)
(* and whichever calls were given the same id.                             *)
THEOREM MailboxesStayDrained == Spec => []MailboxesDrained
<1>1. ChannelInv => MailboxesDrained
  BY DEF ChannelInv, Contents, MailboxesDrained, Drained, Ready
<1>2. QED BY <1>1, ChannelInvariant, PTL

(* What was staged is what the service checks, and no call past the launch *)
(* stops the kernel because its request could not be handed over: the      *)
(* mailbox is never full, and the service can always step.                 *)
THEOREM RequestsAreTaken == Spec => []ServiceTakesRequests
<1>1. ChannelInv => ServiceTakesRequests
  BY DEF ChannelInv
<1>2. QED BY <1>1, ChannelInvariant, PTL

-----------------------------------------------------------------------------
(* The channel implements RequestService.                                  *)

(* What a caller at a place, with m in hand, has asked and been answered.  *)
SeenCall(place, m, times) ==
  [op |-> IF place \in InCall THEN m.op ELSE "none",
   phase |-> IF place \notin InCall THEN "idle"
             ELSE IF place = "answered" THEN "answered" ELSE "asked",
   status |-> IF place = "answered" THEN m.status ELSE "none",
   times |-> times]

LEMMA DrainedAnswersNobody ==
  ASSUME Drained(responses), NEW c
  PROVE  AnswersOf(c) = {}
BY DEF AnswersOf, Drained

LEMMA HeldAnswers ==
  ASSUME NEW m, Holds(responses, m), NEW c
  PROVE  AnswersOf(c) = IF m.from = c THEN {m} ELSE {}
<1>1. responses.consume \in Slots
  BY DEF Holds, Mailboxes
<1>2. UNION {responses.slots[i] : i \in Slots} = {m}
  BY <1>1 DEF Holds
<1>3. QED BY <1>2 DEF AnswersOf

(* Nobody but the caller about to get it has an answer waiting.            *)
LEMMA SeenOutsideReturn ==
  ChannelInv => \A c \in Callers :
    pc[c] # "service returns" => CallOf(c) = SeenCall(pc[c], mine[c], executed[c])
<1> SUFFICES ASSUME ChannelInv, NEW c \in Callers, pc[c] # "service returns"
             PROVE  CallOf(c) = SeenCall(pc[c], mine[c], executed[c])
  OBVIOUS
<1> USE ConstantFacts DEF ChannelInv
<1>1. AnswersOf(c) = {}
  <2>1. CASE \A d \in Callers : pc[d] # "service returns"
    <3>1. Drained(responses)
      BY <2>1 DEF Contents, Places, InExchange, InService
    <3>2. QED BY <3>1, DrainedAnswersNobody
  <2>2. CASE \E d \in Callers : pc[d] = "service returns"
    <3>1. PICK d \in Callers : pc[d] = "service returns"
      BY <2>2
    <3>2. PICK s \in AnswerStatuses : Holds(responses, Answer(mine[d], s))
      BY <3>1 DEF Contents
    <3>3. Answer(mine[d], s).from = d
      <4>1. pc[d] \in InCall /\ mine[d] \in Messages
        BY <3>1 DEF CallTypes, InCall, InExchange, InService
      <4>2. QED BY <4>1, AnswerIsMessage DEF Requested
    <3>4. QED BY <3>1, <3>2, <3>3, HeldAnswers
  <2>3. QED BY <2>1, <2>2
<1>2. pc[c] \in {"idle", "launch", "stage", "probe", "done"} <=> pc[c] \notin InCall
  BY DEF Places, AllPlaces, InCall, InExchange, InService
<1>3. Phase(c) = IF pc[c] \notin InCall THEN "idle"
                 ELSE IF pc[c] = "answered" THEN "answered" ELSE "asked"
  BY <1>1, <1>2 DEF Phase
<1>4. "answered" \in InCall
  BY DEF InCall, InExchange
<1>5. QED BY <1>3, <1>4 DEF CallOf, SeenCall

LEMMA SeenAtReturn ==
  ChannelInv => \A c \in Callers : \A s \in AnswerStatuses :
    pc[c] = "service returns" /\ Holds(responses, Answer(mine[c], s)) =>
      CallOf(c) = SeenCall("answered", Answer(mine[c], s), executed[c])
<1> SUFFICES ASSUME ChannelInv, NEW c \in Callers, NEW s \in AnswerStatuses,
                    pc[c] = "service returns", Holds(responses, Answer(mine[c], s))
             PROVE  CallOf(c) = SeenCall("answered", Answer(mine[c], s), executed[c])
  OBVIOUS
<1> DEFINE m == Answer(mine[c], s)
<1>1. pc[c] \in InCall /\ "answered" \in InCall
  BY DEF InCall, InExchange, InService
<1>2. m.from = c /\ m.op = mine[c].op /\ m.status = s
  BY <1>1, AnswerIsMessage DEF ChannelInv, Requested, CallTypes
<1>3. AnswersOf(c) = {m}
  BY <1>2, HeldAnswers
<1>4. Phase(c) = "answered"
  BY <1>3 DEF Phase
<1>5. (CHOOSE x \in AnswersOf(c) : TRUE) = m
  BY <1>3
<1> HIDE DEF m
<1>6. CallOf(c) = SeenCall("answered", m, executed[c])
  <2>1. CallOf(c) = [op |-> mine[c].op, phase |-> "answered", status |-> m.status,
                     times |-> executed[c]]
    BY <1>4, <1>5 DEF CallOf
  <2>2. QED BY <1>1, <1>2, <2>1 DEF SeenCall
<1>7. QED BY <1>6 DEF m

LEMMA InitRefines == Init => Contract!ServiceInit
<1> SUFFICES ASSUME Init
             PROVE  Contract!ServiceInit
  OBVIOUS
<1>1. ChannelInv
  BY InitChannelInv
<1>2. ASSUME NEW c \in Callers
      PROVE  CallOf(c) = Contract!Idle(0)
  <2>1. pc[c] \notin InCall /\ pc[c] # "answered" /\ executed[c] = 0 /\ pc[c] # "service returns"
    BY DEF Init, InCall, InExchange, InService
  <2>2. CallOf(c) = SeenCall(pc[c], mine[c], executed[c])
    BY <1>1, <2>1, SeenOutsideReturn
  <2>3. QED BY <2>1, <2>2 DEF SeenCall, Contract!Idle, Contract!Call
<1>3. service.attached = FALSE
  BY DEF Init
<1>4. QED BY <1>2, <1>3 DEF Contract!ServiceInit

LEMMA SeenNext ==
  ASSUME ChannelInv'
  PROVE  /\ \A c \in Callers :
              pc'[c] # "service returns" => CallOf(c)' = SeenCall(pc'[c], mine'[c], executed'[c])
         /\ \A c \in Callers : \A s \in AnswerStatuses :
              pc'[c] = "service returns" /\ Holds(responses', Answer(mine'[c], s)) =>
                CallOf(c)' = SeenCall("answered", Answer(mine'[c], s), executed'[c])
<1>1. (\A c \in Callers :
         pc[c] # "service returns" => CallOf(c) = SeenCall(pc[c], mine[c], executed[c]))'
  BY SeenOutsideReturn, PTL
<1>2. (\A c \in Callers : \A s \in AnswerStatuses :
         pc[c] = "service returns" /\ Holds(responses, Answer(mine[c], s)) =>
           CallOf(c) = SeenCall("answered", Answer(mine[c], s), executed[c]))'
  BY SeenAtReturn, PTL
<1>3. QED BY <1>1, <1>2

(* What a step of one caller leaves of the others.                         *)
OnlyMoves(c) ==
  \A d \in Callers \ {c} : /\ pc'[d] = pc[d] /\ pc[d] # "service returns"
                           /\ mine'[d] = mine[d] /\ executed'[d] = executed[d]

LEMMA OthersSeenAlike ==
  ASSUME ChannelInv, ChannelInv', NEW c \in Callers, OnlyMoves(c)
  PROVE  \A d \in Callers \ {c} : CallOf(d)' = CallOf(d)
<1> SUFFICES ASSUME NEW d \in Callers \ {c}
             PROVE  CallOf(d)' = CallOf(d)
  OBVIOUS
<1>1. /\ pc'[d] = pc[d] /\ pc[d] # "service returns"
      /\ mine'[d] = mine[d] /\ executed'[d] = executed[d]
  BY DEF OnlyMoves
<1>2. CallOf(d) = SeenCall(pc[d], mine[d], executed[d])
  BY <1>1, SeenOutsideReturn
<1>3. CallOf(d)' = SeenCall(pc'[d], mine'[d], executed'[d])
  BY <1>1, SeenNext
<1>4. QED BY <1>1, <1>2, <1>3

LEMMA Unseen ==
  ASSUME \A d \in Callers : CallOf(d)' = CallOf(d), service'.attached = service.attached
  PROVE  UNCHANGED Contract!serviceVars
BY DEF Contract!serviceVars

LEMMA SeenStep ==
  ASSUME NEW c \in Callers, NEW seen, CallOf(c)' = seen,
         \A d \in Callers \ {c} : CallOf(d)' = CallOf(d)
  PROVE  [d \in Callers |-> CallOf(d)]' = [[d \in Callers |-> CallOf(d)] EXCEPT ![c] = seen]
OBVIOUS

(* Callers that were at the places of a call before its answer stay asked. *)
Asked == InCall \ {"service returns", "answered"}

LEMMA QuietStep ==
  ASSUME ChannelInv, ChannelInv', NEW c \in Callers, OnlyMoves(c),
         \/ pc[c] \in Asked /\ pc'[c] \in Asked
         \/ pc[c] \notin InCall /\ pc'[c] \notin InCall,
         mine'[c] = mine[c] /\ executed'[c] = executed[c],
         service'.attached = service.attached
  PROVE  UNCHANGED Contract!serviceVars
<1>1. \A d \in Callers \ {c} : CallOf(d)' = CallOf(d)
  BY OthersSeenAlike
<1>2. /\ pc[c] \notin {"service returns", "answered"} /\ pc'[c] \notin {"service returns", "answered"}
      /\ pc[c] \in InCall <=> pc'[c] \in InCall
  BY DEF Asked, InCall, InExchange, InService
<1>3. /\ CallOf(c) = SeenCall(pc[c], mine[c], executed[c])
      /\ CallOf(c)' = SeenCall(pc'[c], mine'[c], executed'[c])
  BY <1>2, SeenOutsideReturn, SeenNext
<1>4. SeenCall(pc'[c], mine'[c], executed'[c]) = SeenCall(pc[c], mine[c], executed[c])
  <2>1. CASE pc[c] \in InCall
    BY <1>2, <2>1 DEF SeenCall
  <2>2. CASE pc[c] \notin InCall
    BY <1>2, <2>2 DEF SeenCall
  <2>3. QED BY <2>1, <2>2
<1>5. QED BY <1>1, <1>3, <1>4, Unseen

(* Nobody else is in the service while a caller may run.                   *)
LEMMA NobodyElseReturns ==
  ASSUME ChannelInv, NEW c \in Callers, MayRun(c) \/ pc[c] \in InExchange,
         NEW d \in Callers \ {c}
  PROVE  pc[d] \notin InExchange /\ pc[d] # "service returns"
<1>1. pc[d] \notin InExchange
  BY AloneInExchange DEF ChannelInv, MayRun, Places
<1>2. QED BY <1>1 DEF InExchange, InService

LEMMA BootRefines ==
  ASSUME ChannelInv, ChannelInv', BootStep
  PROVE  UNCHANGED Contract!serviceVars
<1> USE ConstantFacts
<1>1. /\ pc[Boot] \in {"launch", "stage"} /\ pc'[Boot] \in {"launch", "stage", "probe"}
      /\ UNCHANGED <<mine, executed, service>>
      /\ \A d \in Callers \ {Boot} : pc'[d] = pc[d]
  BY DEF BootStep, ValidateServiceImage, ClaimBootstrapPages, MapBootstrapObject, StageTransport,
         Goto, ChannelInv, Places, calls, objects
<1>2. /\ pc[Boot] # "done" /\ pc[Boot] \notin InCall /\ pc'[Boot] \notin InCall
  BY <1>1 DEF InCall, InExchange, InService
<1>3. \A d \in Callers \ {Boot} : pc[d] = "idle"
  BY <1>2 DEF ChannelInv, Places
<1>4. OnlyMoves(Boot)
  BY <1>1, <1>3 DEF OnlyMoves
<1>5. QED BY <1>1, <1>2, <1>4, QuietStep

LEMMA BeginRefines ==
  ASSUME ChannelInv, ChannelInv', NEW c \in Callers, NEW op \in Operations \cup {"attach"},
         BeginCall(c, op)
  PROVE  Contract!Ask(c)
<1> USE ConstantFacts
<1>1. /\ MayRun(c) /\ pc[c] \in {"idle", "probe"} /\ pc'[c] = "id read"
      /\ executed'[c] = 0 /\ UNCHANGED service
      /\ \A d \in Callers \ {c} : pc'[d] = pc[d] /\ executed'[d] = executed[d] /\ mine'[d] = mine[d]
  BY DEF BeginCall, Goto, ChannelInv, Places, CallTypes, objects
<1>2. mine'[c].op = op
  <2>1. mine[c] \in Messages /\ mine \in [Callers -> Messages]
    BY DEF ChannelInv, CallTypes
  <2>2. PICK root : mine' = [mine EXCEPT ![c] = Request(c, nextId, op, root)]
    BY DEF BeginCall, PopulateBootstrapAttachRequest
  <2>3. Request(c, nextId, op, root).op = op
    BY DEF Request, NoMessage
  <2>4. QED BY <2>1, <2>2, <2>3
<1>3. OnlyMoves(c)
  BY <1>1, NobodyElseReturns DEF OnlyMoves
<1>4. pc[c] \notin InCall /\ pc[c] # "service returns" /\ "id read" \in InCall
  BY <1>1 DEF InCall, InExchange, InService
<1>5. CallOf(c).phase = "idle"
  <2>1. CallOf(c) = SeenCall(pc[c], mine[c], executed[c])
    BY <1>4, SeenOutsideReturn
  <2>2. SeenCall(pc[c], mine[c], executed[c]).phase = "idle"
    BY <1>4 DEF SeenCall
  <2>3. QED BY <2>1, <2>2
<1>6. CallOf(c)' = Contract!Call(op, "asked", "none", 0)
  <2>1. CallOf(c)' = SeenCall(pc'[c], mine'[c], executed'[c])
    BY <1>1, SeenNext
  <2>2. QED BY <1>1, <1>2, <1>4, <2>1 DEF SeenCall, Contract!Call
<1>7. [d \in Callers |-> CallOf(d)]' =
        [[d \in Callers |-> CallOf(d)] EXCEPT ![c] = Contract!Call(op, "asked", "none", 0)]
  BY <1>3, <1>6, OthersSeenAlike, SeenStep
<1>8. QED BY <1>1, <1>5, <1>7 DEF Contract!Ask

LEMMA CallStepRefines ==
  ASSUME ChannelInv, ChannelInv', NEW c \in Callers, CallStep(c)
  PROVE  UNCHANGED Contract!serviceVars
<1>1. /\ MayRun(c) /\ pc[c] \in {"id read", "next id loaded", "numbered"}
      /\ pc'[c] \in {"next id loaded", "numbered", "posted"}
      /\ \A d \in Callers \ {c} : pc'[d] = pc[d]
      /\ UNCHANGED <<mine, executed, service>>
  <2>1. CASE LoadNextId(c) \/ StoreNextId(c)
    BY <2>1 DEF LoadNextId, StoreNextId, Goto, ChannelInv, Places, objects
  <2>2. CASE EnqueueRequest(c)
    <3>1. Goto(c, "posted") \/ UNCHANGED pc
      BY <2>2 DEF EnqueueRequest
    <3>2. QED BY <2>2, <3>1 DEF EnqueueRequest, Goto, ChannelInv, Places, objects
  <2>3. QED BY <2>1, <2>2 DEF CallStep
<1>2. pc[c] \in Asked /\ pc'[c] \in Asked
  BY <1>1 DEF Asked, InCall, InExchange, InService
<1>3. OnlyMoves(c)
  BY <1>1, NobodyElseReturns DEF OnlyMoves
<1>4. QED BY <1>1, <1>2, <1>3, QuietStep

LEMMA EnteringRefines ==
  ASSUME ChannelInv, ChannelInv', NEW c \in Callers,
         MapServiceImageIntoOwnAddressSpace(c) \/ EnterService(c) \/ ServiceAttach(c)
  PROVE  UNCHANGED Contract!serviceVars
<1>1. /\ pc[c] \in {"posted", "service attaches"}
      /\ pc'[c] \in {"posted", "service attaches", "service polls"}
      /\ \A d \in Callers \ {c} : pc'[d] = pc[d]
      /\ UNCHANGED <<mine, executed>> /\ service'.attached = service.attached
  <2>1. CASE MapServiceImageIntoOwnAddressSpace(c)
    BY <2>1 DEF MapServiceImageIntoOwnAddressSpace, calls
  <2>2. CASE EnterService(c)
    <3>1. pc[c] = "posted"
      BY <2>2 DEF EnterService
    <3>2. ServiceCanStep
      BY <3>1, PostedCanStep
    <3>3. /\ Goto(c, "service polls") \/ Goto(c, "service attaches")
          /\ UNCHANGED <<mine, executed, service>>
      BY <2>2, <3>2 DEF EnterService
    <3>4. QED BY <3>1, <3>3 DEF Goto, ChannelInv, Places
  <2>3. CASE ServiceAttach(c)
    <3>1. ~service.attached
      BY <2>3 DEF ServiceAttach, ChannelInv, Progress
    <3>2. service.attached \in BOOLEAN
      BY DEF ChannelInv, StagedTypes
    <3>3. /\ pc[c] = "service attaches" /\ UNCHANGED <<mine, executed>>
          /\ \/ Goto(c, "service polls") /\ service'.attached = FALSE
             \/ UNCHANGED <<pc, service>>
      <4>1. pc[c] = "service attaches" /\ UNCHANGED <<mine, executed>>
        BY <2>3 DEF ServiceAttach
      <4>2. \/ /\ service' = [online |-> TRUE, attached |-> FALSE, root |-> launch.root]
               /\ Goto(c, "service polls")
            \/ UNCHANGED <<pc, service>>
        BY <2>3 DEF ServiceAttach
      <4>3. CASE service' = [online |-> TRUE, attached |-> FALSE, root |-> launch.root]
                 /\ Goto(c, "service polls")
        <5>1. service'.attached = FALSE
          BY <4>3
        <5>2. QED BY <4>1, <4>3, <5>1
      <4>4. CASE UNCHANGED <<pc, service>>
        BY <4>1, <4>4
      <4>5. QED BY <4>2, <4>3, <4>4
    <3>4. QED BY <3>1, <3>2, <3>3 DEF Goto, ChannelInv, Places
  <2>4. QED BY <2>1, <2>2, <2>3
<1>2. pc[c] \in Asked /\ pc'[c] \in Asked /\ pc[c] \in InExchange
  BY <1>1 DEF Asked, InCall, InExchange, InService
<1>3. OnlyMoves(c)
  BY <1>1, <1>2, NobodyElseReturns DEF OnlyMoves
<1>4. QED BY <1>1, <1>2, <1>3, QuietStep

(* The service carries out what was asked, and answers as it may.          *)
LEMMA PollRefines ==
  ASSUME ChannelInv, ChannelInv', NEW c \in Callers, ServicePoll(c)
  PROVE  Contract!Perform(c)
<1> USE ConstantFacts
<1>1. /\ pc[c] = "service polls" /\ pc[c] \in InExchange /\ pc[c] \in InCall
      /\ pc[c] # "service returns" /\ "answered" \in InCall
  BY DEF ServicePoll, InCall, InExchange, InService
<1>2. /\ AtHead(requests) = {mine[c]} /\ Drained(responses)
      /\ mine[c] \in Messages /\ mine[c].from = c
      /\ Statuses(mine[c]) \subseteq AnswerStatuses
      /\ c = Boot => /\ mine[c].op = "attach" /\ ~service.attached
                     /\ Statuses(mine[c]) = {"success"}
      /\ c # Boot => mine[c].op \in Operations /\ service.attached
  BY <1>1, PolledRequest
<1>3. PICK status \in Statuses(mine[c]) :
        /\ CompleteRequest(mine[c], status)
        /\ executed' = [executed EXCEPT ![c] = @ + 1]
        /\ IF mine[c].op = "attach" /\ status = "success"
           THEN BecomeReady ELSE UNCHANGED <<service, serviceTask, launch, events>>
  BY <1>2 DEF ServicePoll
<1>4. /\ pc'[c] = "service returns" /\ mine' = mine
      /\ executed'[c] = executed[c] + 1
      /\ \A d \in Callers \ {c} : pc'[d] = pc[d] /\ executed'[d] = executed[d]
  BY <1>3 DEF ServicePoll, Goto, ChannelInv, Places, CallTypes
<1>5. OnlyMoves(c)
  BY <1>1, <1>4, NobodyElseReturns DEF OnlyMoves
<1> DEFINE m == Answer(mine[c], status)
<1>6. status \in AnswerStatuses /\ m \in Messages /\ m.op = mine[c].op /\ m.status = status
  BY <1>2, <1>3, AnswerIsMessage
<1>7. Holds(responses', m)
  <2>1. CanPut(responses) /\ Holds(Put(responses, m), m)
    BY <1>2, <1>6, PutIntoDrained
  <2>2. responses' = Put(responses, m)
    BY <1>3, <2>1 DEF CompleteRequest
  <2>3. QED BY <2>1, <2>2
<1>8. CallOf(c)' = SeenCall("answered", m, executed[c] + 1)
  <2>1. Holds(responses', Answer(mine'[c], status))
    BY <1>4, <1>7
  <2>2. CallOf(c)' = SeenCall("answered", Answer(mine'[c], status), executed'[c])
    BY <1>4, <1>6, <2>1, SeenNext
  <2>3. QED BY <1>4, <2>2
<1>9. /\ CallOf(c) = SeenCall(pc[c], mine[c], executed[c])
      /\ SeenCall(pc[c], mine[c], executed[c]) =
           [op |-> mine[c].op, phase |-> "asked", status |-> "none", times |-> executed[c]]
  BY <1>1, SeenOutsideReturn DEF SeenCall
<1>10. CallOf(c).op = mine[c].op /\ CallOf(c).phase = "asked" /\ CallOf(c).times = executed[c]
  BY <1>9
<1>11. SeenCall("answered", m, executed[c] + 1) =
         Contract!Call(CallOf(c).op, "answered", status, CallOf(c).times + 1)
  <2> HIDE DEF m
  <2>1. QED BY <1>1, <1>6, <1>10 DEF SeenCall, Contract!Call
<1>12. [d \in Callers |-> CallOf(d)]' =
         [[d \in Callers |-> CallOf(d)] EXCEPT
            ![c] = Contract!Call(CallOf(c).op, "answered", status, CallOf(c).times + 1)]
  <2>1. \A d \in Callers \ {c} : CallOf(d)' = CallOf(d)
    BY <1>5, OthersSeenAlike
  <2>2. CallOf(c)' = Contract!Call(CallOf(c).op, "answered", status, CallOf(c).times + 1)
    BY <1>8, <1>11
  <2>3. QED BY <2>1, <2>2, SeenStep
<1>13. status \in MayAnswer(mine[c].op, service.attached)
  BY <1>2, <1>3 DEF MayAnswer, Statuses, MayHandle
<1>14. service'.attached = (service.attached \/ (mine[c].op = "attach" /\ status = "success"))
  <2>1. service.attached \in BOOLEAN /\ service \in [online : BOOLEAN, attached : BOOLEAN, root : Roots]
    BY DEF ChannelInv, StagedTypes
  <2>2. CASE c = Boot
    <3>1. BecomeReady /\ status = "success"
      BY <1>2, <1>3, <2>2
    <3>2. service'.attached = TRUE
      BY <2>1, <3>1 DEF BecomeReady
    <3>3. QED BY <1>2, <2>2, <3>1, <3>2
  <2>3. CASE c # Boot
    <3>1. mine[c].op # "attach" /\ service' = service
      BY <1>2, <1>3, <2>3
    <3>2. QED BY <2>1, <3>1
  <2>4. QED BY <2>2, <2>3
<1>15. [d \in Callers |-> CallOf(d)][c] = CallOf(c)
  OBVIOUS
<1>16. QED BY <1>10, <1>12, <1>13, <1>14, <1>15 DEF Contract!Perform

LEMMA DequeueRefines ==
  ASSUME ChannelInv, ChannelInv', NEW c \in Callers, DequeueResponse(c)
  PROVE  UNCHANGED Contract!serviceVars
<1>1. /\ pc[c] = "service returns" /\ Goto(c, "answered")
      /\ UNCHANGED <<service, executed>>
  BY DequeueTakesReply
<1>2. PICK s \in AnswerStatuses : /\ Holds(responses, Answer(mine[c], s))
                                  /\ mine' = [mine EXCEPT ![c] = Answer(mine[c], s)]
  BY DequeueTakesReply
<1>3. /\ pc'[c] = "answered" /\ mine'[c] = Answer(mine[c], s)
      /\ \A d \in Callers \ {c} : pc'[d] = pc[d] /\ mine'[d] = mine[d] /\ executed'[d] = executed[d]
  BY <1>1, <1>2 DEF Goto, ChannelInv, Places, CallTypes
<1>4. pc[c] \in InExchange
  BY <1>1 DEF InExchange, InService
<1>5. OnlyMoves(c)
  BY <1>3, <1>4, NobodyElseReturns DEF OnlyMoves
<1>6. CallOf(c) = SeenCall("answered", Answer(mine[c], s), executed[c])
  BY <1>1, <1>2, SeenAtReturn
<1>7. CallOf(c)' = SeenCall("answered", mine'[c], executed'[c])
  BY <1>3, SeenNext
<1>8. CallOf(c)' = CallOf(c)
  BY <1>1, <1>3, <1>6, <1>7
<1>9. QED BY <1>1, <1>5, <1>8, OthersSeenAlike, Unseen

LEMMA FinishRefines ==
  ASSUME ChannelInv, ChannelInv', NEW c \in Callers, Finish(c)
  PROVE  Contract!Return(c)
<1> USE ConstantFacts
<1>1. /\ pc[c] = "answered" /\ pc[c] \in InExchange /\ pc[c] \in InCall
  BY DEF Finish, InCall, InExchange
<1>2. c = Boot => mine[c].status = "success"
  BY <1>1 DEF ChannelInv, Contents
<1>3. /\ pc'[c] \in {"done", "idle"} /\ UNCHANGED <<mine, executed, service>>
      /\ \A d \in Callers \ {c} : pc'[d] = pc[d]
  BY <1>2 DEF Finish, Goto, ChannelInv, Places, objects
<1>4. OnlyMoves(c)
  BY <1>1, <1>3, NobodyElseReturns DEF OnlyMoves
<1>5. /\ CallOf(c) = SeenCall(pc[c], mine[c], executed[c])
      /\ SeenCall(pc[c], mine[c], executed[c]) =
           [op |-> mine[c].op, phase |-> "answered", status |-> mine[c].status,
            times |-> executed[c]]
  BY <1>1, SeenOutsideReturn DEF SeenCall
<1>6. CallOf(c).phase = "answered" /\ CallOf(c).times = executed[c]
  BY <1>5
<1>7. pc'[c] \notin InCall /\ pc'[c] # "service returns" /\ pc'[c] # "answered"
  BY <1>3 DEF InCall, InExchange, InService
<1>8. /\ CallOf(c)' = SeenCall(pc'[c], mine'[c], executed'[c])
      /\ SeenCall(pc'[c], mine'[c], executed'[c]) = Contract!Idle(executed[c])
  BY <1>3, <1>7, SeenNext DEF SeenCall, Contract!Idle, Contract!Call
<1>9. [d \in Callers |-> CallOf(d)]' =
        [[d \in Callers |-> CallOf(d)] EXCEPT ![c] = Contract!Idle(CallOf(c).times)]
  <2>1. \A d \in Callers \ {c} : CallOf(d)' = CallOf(d)
    BY <1>4, OthersSeenAlike
  <2>2. CallOf(c)' = Contract!Idle(CallOf(c).times)
    BY <1>6, <1>8
  <2>3. QED BY <2>1, <2>2, SeenStep
<1>10. [d \in Callers |-> CallOf(d)][c] = CallOf(c)
  OBVIOUS
<1>11. QED BY <1>3, <1>6, <1>9, <1>10 DEF Contract!Return

LEMMA StopRefines ==
  ASSUME UNCHANGED vars \/ \E c \in Callers : ServiceStops(c)
  PROVE  UNCHANGED Contract!serviceVars
<1>1. UNCHANGED <<pc, mine, executed, responses, service>>
  BY DEF ServiceStops, vars, calls, mail, objects
<1>2. ASSUME NEW c \in Callers
      PROVE  CallOf(c)' = CallOf(c)
  BY <1>1 DEF CallOf, Phase, AnswersOf
<1>3. QED BY <1>1, <1>2, Unseen

(* Each step of the channel is one of the contract's, or none.             *)
LEMMA StepRefines ==
  ASSUME ChannelInv, ChannelInv', [Next]_vars
  PROVE  [Contract!ServiceNext]_(Contract!serviceVars)
<1>1. CASE BootStep
  BY <1>1, BootRefines
<1>2. CASE \E c \in Callers : \E op \in Operations \cup {"attach"} : BeginCall(c, op)
  BY <1>2, BeginRefines DEF Contract!ServiceNext
<1>3. CASE \E c \in Callers : CallStep(c)
  BY <1>3, CallStepRefines
<1>4. CASE \E c \in Callers : ExchangeStep(c)
  <2>1. PICK c \in Callers : ExchangeStep(c)
    BY <1>4
  <2>2. CASE MapServiceImageIntoOwnAddressSpace(c) \/ EnterService(c) \/ ServiceAttach(c)
    BY <2>2, EnteringRefines
  <2>3. CASE ServicePoll(c)
    BY <2>3, PollRefines DEF Contract!ServiceNext
  <2>4. CASE DequeueResponse(c)
    BY <2>4, DequeueRefines
  <2>5. CASE Finish(c)
    BY <2>5, FinishRefines DEF Contract!ServiceNext
  <2>6. QED BY <2>1, <2>2, <2>3, <2>4, <2>5 DEF ExchangeStep
<1>5. CASE UNCHANGED vars \/ \E c \in Callers : ServiceStops(c)
  BY <1>5, StopRefines
<1>6. QED BY <1>1, <1>2, <1>3, <1>4, <1>5 DEF Next

(* The channel keeps the contract of RequestService: each call is carried  *)
(* out once, by the service, its caller gets the answer to that very call, *)
(* and nothing is carried out before the attach has succeeded.             *)
THEOREM ChannelKeepsContract == Spec => KeepsContract
BY InitRefines, StepRefines, ChannelInvariant, PTL
   DEF Spec, KeepsContract, Contract!ServiceSpec

=============================================================================
