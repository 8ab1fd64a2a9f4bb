-------------------------- MODULE CapabilitiesService --------------------------
(***************************************************************************)
(* The capability manager from the policy file to its callers. The kernel  *)
(* holds the manager, the init command and its callers in one image: init  *)
(* brings the manager online by a call, and a caller that waits for an     *)
(* answer runs the manager itself, once for each round of its waiting.     *)
(* Calls therefore follow each other: while one waits, no other begins.    *)
(*                                                                         *)
(* Session keys are functions of the session, so a message of the active   *)
(* session always carries the right tag; the model keeps the session only. *)
(***************************************************************************)
EXTENDS CapabilityPolicy, CapabilityRegistry, ShellSession, Mailbox, FiniteSets

CONSTANTS
  Clients,           \* callers that keep a binding
  ConnectRequests,   \* what a client may ask for when it connects
  AccessRequests,    \* principals and the capabilities asked for them
  GrantRequests,     \* mutation requests for new grants
  ConsoleLines,      \* what is typed at the console: name and password, command
  TransportSpin,     \* LOS_CAPABILITIES_SERVICE_TRANSPORT_SPIN
  MaxCalls           \* bound of the model: calls in a history

ASSUME ClientsAssumption == {"none", "former"} \cap Clients = {}
(* The monitor's tables are the smaller ones.                              *)
ASSUME TablesAssumption ==
  MaxBootEvents <= MaxRecords /\ MaxBootEvents <= MaxGrants /\ MaxBootEvents <= MaxEvents

ASSUME CallsAssumption == TransportSpin \in Nat \ {0} /\ MaxCalls \in Nat
ASSUME GrantRequestsAssumption == \A r \in GrantRequests : r.id \in Nat

VARIABLES
  stage,          \* "boot", then the state of the launch
  registry,
  online,         \* Online
  shell,          \* LosShellGlobalState
  endpoints,      \* State of the two endpoints
  generation,     \* TransportGeneration
  session,        \* ActiveSessionId
  established,    \* SESSION_ESTABLISHED is among the endpoint flags
  lastAccepted,   \* LastAcceptedRequestSequence
  requests,       \* RequestMailbox
  responses,      \* ResponseMailbox
  bindings,       \* what each client holds
  call,           \* the request that waits for its answer
  answer,         \* of the call that returned last
  served,         \* history: whose requests the session has accepted
  calls           \* calls begun

registryVars == <<stage, registry, online, shell>>
transportVars == <<endpoints, generation, session, established>>
boxVars == <<lastAccepted, requests, responses, served>>
vars == <<policyVars, registryVars, transportVars, boxVars,
          bindings, call, answer, calls>>

NoSession == [client |-> "none", nonce |-> 0]
BootSession == [client |-> "boot", nonce |-> 0]
NoBinding == [generation |-> 0, session |-> NoSession, next |-> 0, last |-> 0]
NoCall == [caller |-> "none", binding |-> NoBinding, request |-> {}, spins |-> 0]
NoAnswer == [call |-> "none", caller |-> "none", request |-> {}, status |-> "none",
             grant |-> 0, sequence |-> 0]

Init ==
  /\ PolicyInit
  /\ stage = "boot"
  /\ registry = EmptyRegistry
  /\ online = FALSE
  /\ shell = NoShell
  /\ endpoints = "OFFLINE"
  /\ generation = 0
  /\ session = NoSession
  /\ established = FALSE
  /\ lastAccepted = 0
  /\ requests = EmptyMailbox
  /\ responses = EmptyMailbox
  /\ bindings = [c \in Clients |-> NoBinding]
  /\ call = NoCall
  /\ answer = NoAnswer
  /\ served = {}
  /\ calls = 0

-----------------------------------------------------------------------------
(* The boot: the monitor reads the policy, init launches the manager if    *)
(* the policy lets it, and then the shell, which never comes back.         *)

LoadPolicy ==
  /\ stage = "boot"
  /\ PolicyNext
  /\ UNCHANGED <<registryVars, transportVars, boxVars, bindings, call, answer, calls>>

InitializeTransport ==
  /\ endpoints' = "ONLINE"
  /\ generation' = generation + 1
  /\ session' = BootSession
  /\ lastAccepted' = 0

(* The tables are cleared, seeded and filled from the context; the import  *)
(* clears the seed again, so the model leaves it out. An import that fails *)
(* leaves the manager offline.                                             *)
BringOnline(context) ==
  LET import == ImportBootstrapContext(context) IN
  /\ online' = import.ok
  /\ registry' = IF import.ok THEN SelfTest(import.reg) ELSE import.reg
  /\ established' = FALSE
  /\ requests' = EmptyMailbox
  /\ responses' = EmptyMailbox
  /\ served' = {}
  /\ IF import.ok
     THEN InitializeTransport
     ELSE endpoints' = "OFFLINE" /\ UNCHANGED <<generation, session, lastAccepted>>

(* Launching an image is a call of its entry, and a look at its state.     *)
LaunchServiceImage(context) ==
  /\ BringOnline(context)
  /\ stage' = IF online' THEN "online" ELSE "failed"

LoadAndRunShellService == shell' = IF online' THEN BringShellOnline ELSE shell

Launch ==
  /\ stage = "boot" /\ loading # "reading"
  /\ \/ /\ LaunchAuthority(BootstrapCapabilities)
        /\ LaunchServiceImage(BootstrapCapabilities)
        /\ LoadAndRunShellService
     \/ /\ ~LaunchAuthority(BootstrapCapabilities)
        /\ stage' = "denied"
        /\ UNCHANGED <<registry, online, shell, transportVars, boxVars>>
  /\ UNCHANGED <<policyVars, bindings, call, answer, calls>>

-----------------------------------------------------------------------------
(* Calls. A call begins when the one before it has returned.               *)

Begin ==
  /\ stage # "boot" /\ call = NoCall /\ calls < MaxCalls
  /\ calls' = calls + 1

Answer(kind, caller, request, status, grant, sequence) ==
  answer' = [call |-> kind, caller |-> caller, request |-> request,
             status |-> status, grant |-> grant, sequence |-> sequence]

Refuse(kind, caller, status) ==
  /\ Answer(kind, caller, {}, status, 0, 0)
  /\ UNCHANGED <<transportVars, boxVars, bindings, call>>

(* Mutations go to the registry directly; nobody asks whether the manager  *)
(* is online.                                                              *)
Mutation(kind, outcome) ==
  /\ Begin
  /\ registry' = outcome.reg
  /\ Answer(kind, "none", {}, outcome.status, outcome.grant, 0)
  /\ UNCHANGED <<policyVars, stage, online, shell, transportVars, boxVars,
                 bindings, call>>

AddRecord ==
  \E r \in GrantRequests :
    Mutation("register", Answered(Register(registry, r.cap),
                                  RegisterStatus(registry, r.cap), 0))

AddGrant == \E r \in GrantRequests : Mutation("grant", Grant(registry, r))

GrantIds == {registry.grants[i].id : i \in DOMAIN registry.grants}

Revoke ==
  \E id \in GrantIds \cup {0} : Mutation("revoke", Mutate(registry, id, "REVOKED"))

Suspend ==
  \E id \in GrantIds : Mutation("suspend", Mutate(registry, id, "SUSPENDED"))

Restore ==
  \E id \in GrantIds : Mutation("restore", Mutate(registry, id, "ACTIVE"))

-----------------------------------------------------------------------------
(* A line typed at the console. Until somebody is logged in it is a name   *)
(* and a password, which become a LOGIN command unless one is empty.       *)

TypeLine(typed) ==
  LET command == IF shell.authenticated THEN typed.command ELSE LoginCommand
      refused == ~shell.authenticated /\ "" \in {typed.name, typed.password}
  IN  /\ Begin /\ shell.online
      /\ \/ refused /\ UNCHANGED shell /\ Answer("console", "none", {}, "login failed", 0, 0)
         \/ \E returned \in ImageAnswers, adapter \in AdapterAnswers :
              LET done == Execute(shell, command, returned, adapter) IN
              /\ ~refused
              /\ shell' = done.shell
              /\ Answer("console", "none", {}, done.status, 0, 0)
      /\ UNCHANGED <<policyVars, stage, registry, online, transportVars, boxVars,
                     bindings, call>>

-----------------------------------------------------------------------------
(* Sessions and bindings.                                                  *)

Exported == online /\ endpoints = "ONLINE"

Flags == {"ANTI_REPLAY"} \cup (IF established THEN {"SESSION_ESTABLISHED"} ELSE {})

Confidential == 2   \* LOS_CAPABILITIES_SECURITY_MODE_CONFIDENTIAL

ConnectStatus(r) ==
  IF ~Exported THEN "TRANSPORT_OFFLINE"
  ELSE IF ~r.target \/ ~(r.flags \subseteq Flags) THEN "TARGET_MISMATCH"
  ELSE IF r.mode < Confidential THEN "SECURITY_MODE_MISMATCH"
  ELSE "SUCCESS"

FreshBinding(s) ==
  [generation |-> generation, session |-> s, next |-> 1, last |-> 0]

(* Mutant of Connect: the sequence of the session before goes on.          *)
ConnectKeepingSequence(c, r) ==
  /\ Begin
  /\ \/ ConnectStatus(r) # "SUCCESS" /\ Refuse("connect", c, ConnectStatus(r))
     \/ LET s == [client |-> c, nonce |-> r.nonce] IN
        /\ ConnectStatus(r) = "SUCCESS"
        /\ session' = s
        /\ established' = TRUE
        /\ served' = {}
        /\ bindings' = [bindings EXCEPT ![c] = FreshBinding(s)]
        /\ Answer("connect", c, {}, "SUCCESS", 0, 0)
        /\ UNCHANGED <<endpoints, generation, lastAccepted, requests, responses, call>>
  /\ UNCHANGED <<policyVars, registryVars>>

(* Connecting starts a session of the client's own and takes the manager   *)
(* away from the session before it.                                        *)
Connect(c, r) ==
  /\ Begin
  /\ \/ ConnectStatus(r) # "SUCCESS" /\ Refuse("connect", c, ConnectStatus(r))
     \/ LET s == [client |-> c, nonce |-> r.nonce] IN
        /\ ConnectStatus(r) = "SUCCESS"
        /\ session' = s
        /\ established' = TRUE
        /\ lastAccepted' = 0
        /\ served' = {}
        /\ bindings' = [bindings EXCEPT ![c] = FreshBinding(s)]
        /\ Answer("connect", c, {}, "SUCCESS", 0, 0)
        /\ UNCHANGED <<endpoints, generation, requests, responses, call>>
  /\ UNCHANGED <<policyVars, registryVars>>

(* Binding joins the active session, with sequence numbers from 1.         *)
Bind(c) ==
  /\ Begin
  /\ \/ ~Exported /\ Refuse("bind", c, "TRANSPORT_OFFLINE")
     \/ /\ Exported
        /\ bindings' = [bindings EXCEPT ![c] = FreshBinding(session)]
        /\ served' = IF c \in served THEN (served \ {c}) \cup {"former"} ELSE served
        /\ Answer("bind", c, {}, "SUCCESS", 0, 0)
        /\ UNCHANGED <<transportVars, lastAccepted, requests, responses, call>>
  /\ UNCHANGED <<policyVars, registryVars>>

-----------------------------------------------------------------------------
(* Access requests. The binding's sequence number is used up even when the *)
(* slot is taken; the slot is written, and the caller waits.               *)

Place(caller, binding, request) ==
  LET used == [binding EXCEPT !.next = @ + 1]
      message == [sequence |-> binding.next, session |-> binding.session,
                  request |-> request]
  IN  IF CanPut(requests)
      THEN /\ requests' = Put(requests, message)
           /\ call' = [caller |-> caller, binding |-> used,
                       request |-> {request}, spins |-> 0]
           /\ answer' = NoAnswer
           /\ UNCHANGED bindings
      ELSE /\ Answer("access", caller, {request}, "TABLE_FULL", 0, binding.next)
           /\ bindings' = [c \in Clients |-> IF c = caller THEN used ELSE bindings[c]]
           /\ UNCHANGED <<requests, call>>

BindingStatus(b) ==
  IF b = NoBinding \/ b.generation # generation \/ b.session # session
  THEN "TRANSPORT_STALE"
  ELSE IF endpoints # "ONLINE" THEN "TRANSPORT_OFFLINE"
  ELSE "SUCCESS"

SubmitBound(c, request) ==
  /\ Begin
  /\ \/ /\ BindingStatus(bindings[c]) # "SUCCESS"
        /\ Refuse("access", c, BindingStatus(bindings[c]))
     \/ /\ BindingStatus(bindings[c]) = "SUCCESS"
        /\ Place(c, bindings[c], request)
        /\ UNCHANGED <<transportVars, lastAccepted, responses, served>>
  /\ UNCHANGED <<policyVars, registryVars>>

(* Without a binding the call makes one for itself.                        *)
Submit(request) ==
  /\ Begin
  /\ \/ ~Exported /\ Refuse("access", "former", "TRANSPORT_OFFLINE")
     \/ /\ Exported
        /\ Place("former", FreshBinding(session), request)
        /\ UNCHANGED <<transportVars, lastAccepted, responses, served>>
  /\ UNCHANGED <<policyVars, registryVars>>

-----------------------------------------------------------------------------
(* A round of waiting: the manager serves one request, if there is one and *)
(* room for its answer; then the caller looks for an answer with its       *)
(* sequence number at the head of the responses.                           *)

Reply(m) ==
  LET access == CheckAccess(registry, m.request)
      Of(status, grant) ==
        [sequence |-> m.sequence, session |-> session,
         status |-> status, grant |-> grant]
  IN  IF m.session # session THEN Of("AUTH_FAILED", 0)
      ELSE IF m.sequence <= lastAccepted THEN Of("REPLAY_DETECTED", 0)
      ELSE Of(access.status, access.grant)

Accepts(m) == m.session = session /\ m.sequence > lastAccepted

(* The state of the transport after LosCapabilitiesServiceServiceTransportOnce. *)
ServeOnce ==
  IF AtHead(requests) = {} \/ ~CanPut(responses)
  THEN [requests |-> requests, responses |-> responses,
        last |-> lastAccepted, accepted |-> FALSE]
  ELSE LET m == CHOOSE m \in AtHead(requests) : TRUE
       IN  [requests |-> TakeHead(requests), responses |-> Put(responses, Reply(m)),
            last |-> IF Accepts(m) THEN m.sequence ELSE lastAccepted,
            accepted |-> Accepts(m)]

(* What the caller makes of a response with its sequence number.           *)
Heard(r) ==
  IF r.session # call.binding.session THEN "AUTH_FAILED"
  ELSE IF r.sequence <= call.binding.last THEN "REPLAY_DETECTED"
  ELSE "taken"

Return(status, grant, binding) ==
  /\ Answer("access", call.caller, call.request, status, grant, binding.next - 1)
  /\ bindings' = [c \in Clients |-> IF c = call.caller THEN binding ELSE bindings[c]]
  /\ call' = NoCall

Wait(after) ==
  LET sequence == call.binding.next - 1
      mine == {r \in AtHead(after.responses) : r.sequence = sequence}
      r == CHOOSE r \in mine : TRUE
      gaveUp == call.spins + 1 = TransportSpin
  IN  IF mine = {}
      THEN /\ responses' = after.responses
           /\ IF gaveUp
              THEN Return("INVALID_STATE", 0, call.binding)
              ELSE /\ call' = [call EXCEPT !.spins = @ + 1]
                   /\ UNCHANGED <<bindings, answer>>
      ELSE IF Heard(r) = "taken"
      THEN /\ responses' = TakeHead(after.responses)
           /\ Return(r.status, r.grant, [call.binding EXCEPT !.last = sequence])
      ELSE /\ responses' = after.responses
           /\ Return(Heard(r), 0, call.binding)

Spin ==
  /\ call # NoCall
  /\ requests' = ServeOnce.requests
  /\ lastAccepted' = ServeOnce.last
  /\ served' = IF ServeOnce.accepted THEN served \cup {call.caller} ELSE served
  /\ Wait(ServeOnce)
  /\ UNCHANGED <<policyVars, registryVars, transportVars, calls>>

Next ==
  \/ LoadPolicy \/ Launch
  \/ AddRecord \/ AddGrant \/ Revoke \/ Suspend \/ Restore
  \/ \E typed \in ConsoleLines : TypeLine(typed)
  \/ \E c \in Clients : \/ \E r \in ConnectRequests : Connect(c, r)
                        \/ Bind(c)
                        \/ \E r \in AccessRequests : SubmitBound(c, r)
  \/ \E r \in AccessRequests : Submit(r)
  \/ Spin

Spec == Init /\ [][Next]_vars

-----------------------------------------------------------------------------
Statuses ==
  {"none", "SUCCESS", "NOT_FOUND", "ACCESS_DENIED", "TABLE_FULL", "INVALID_STATE",
   "TRANSPORT_OFFLINE", "TRANSPORT_STALE", "TARGET_MISMATCH", "AUTH_FAILED",
   "SECURITY_MODE_MISMATCH", "REPLAY_DETECTED", "login failed", "LAUNCH_FAILED"}

Sessions ==
  {NoSession, BootSession} \cup
  {[client |-> c, nonce |-> r.nonce] : c \in Clients, r \in ConnectRequests}

(* Every variable keeps its type, and no table grows past its array: the   *)
(* blocks, grants and assignments of the policy, the records, grants and   *)
(* events of the registry (the appends of CapabilitiesRegistry.c and of    *)
(* LosMonitorLoadCapabilitiesFromEsp).                                     *)
TypeOK ==
  /\ file \in PolicyFiles /\ line \in 1 .. Len(file) + 1
  /\ openBlock \in BOOLEAN
  /\ loading \in {"reading", "success", "not_found", "load_error", "buffer_too_small"}
  /\ Len(policy.blocks) <= MaxBlocks /\ Len(policy.assignments) <= MaxAssignments
  /\ \A b \in ToSet(policy.blocks) : Len(b.grants) <= MaxGrantsPerBlock
  /\ policy.events \in 0 .. MaxBootEvents
  /\ stage \in {"boot", "online", "denied", "failed"} /\ online \in BOOLEAN
  /\ Len(registry.records) <= MaxRecords /\ Len(registry.grants) <= MaxGrants
  /\ Len(registry.events) <= MaxEvents /\ registry.nextGrant \in Nat \ {0}
  /\ shell.online = online /\ shell.authenticated \in BOOLEAN /\ shell.launch \in Statuses
  /\ endpoints \in {"OFFLINE", "ONLINE"} /\ generation \in {0, 1}
  /\ session \in Sessions /\ established \in BOOLEAN
  /\ lastAccepted \in Nat
  /\ \A box \in {requests, responses} : box.produce \in Slots /\ box.consume \in Slots
  /\ \A c \in Clients : /\ bindings[c].session \in Sessions
                         /\ bindings[c].last <= bindings[c].next
  /\ call.caller \in Clients \cup {"none", "former"} /\ call.spins \in 0 .. TransportSpin
  /\ answer.status \in Statuses
  /\ served \subseteq Clients \cup {"former"}
  /\ calls \in 0 .. MaxCalls

-----------------------------------------------------------------------------
(* The events of the import.                                               *)
Imported(reg) == {k \in DOMAIN reg.events : reg.events[k].kind = "IMPORTED"}

(* A policy counts as a whole or not at all. Init launches the manager     *)
(* only from a well-formed file read to its end, and then just when the    *)
(* file's first assignment of the task init leads to a profile with both   *)
(* rights; the manager has every grant of the file, and nothing else by    *)
(* import. Nothing of a file whose load stopped half way is used, and no   *)
(* import stops half way, as the monitor's tables are the smaller ones.    *)
(* Which files must load is not said here: see PolicyReachesKernel         *)
(* (LosMonitorLoadCapabilitiesFromEsp, LosInitCommandValidateLaunchAuthority). *)
LaunchFollowsPolicy ==
  /\ stage = "online" => loading = "success" /\ WellFormed(file) /\ FileAuthorises(file)
  /\ stage = "denied" => loading # "success" \/ ~FileAuthorises(file)
  /\ stage # "failed"
  /\ online =>
       /\ Cardinality(Imported(registry)) = Cardinality(LinesOf(file, "grant"))
       /\ {registry.events[k].cap : k \in Imported(registry)} = {file[i].cap : i \in LinesOf(file, "grant")}

-----------------------------------------------------------------------------
(* The ledger read as a history of each grant.                             *)

HistoryOf(reg, id) == {k \in DOMAIN reg.events : reg.events[k].grant = id}

IsLast(k, history) == k \in history /\ \A j \in history : j <= k

StateAfter == [IMPORTED |-> "ACTIVE", CREATED |-> "ACTIVE", RESTORED |-> "ACTIVE",
               SUSPENDED |-> "SUSPENDED", REVOKED |-> "REVOKED"]

LawfulStart == {"IMPORTED", "CREATED"}
LawfulSteps ==
  {<<"SUSPENDED", "RESTORED">>} \cup
  (LawfulStart \cup {"RESTORED"}) \X {"SUSPENDED", "REVOKED"} \cup
  {<<"SUSPENDED", "REVOKED">>}

(* The last event of a grant says its state.                               *)
Recorded(reg, g) ==
  \E k \in HistoryOf(reg, g.id) : /\ IsLast(k, HistoryOf(reg, g.id))
                                  /\ g.state = StateAfter[reg.events[k].kind]

(* An event is the first of its grant, or the one before it allows it.     *)
Lawful(reg, k) ==
  LET kind == reg.events[k].kind
      earlier == {j \in HistoryOf(reg, reg.events[k].grant) : j < k}
  IN  \/ earlier = {} /\ kind \in LawfulStart
      \/ \E j \in earlier : /\ IsLast(j, earlier)
                            /\ <<reg.events[j].kind, kind>> \in LawfulSteps

(* The events of a grant are a history that starts with its creation and   *)
(* never goes on after a revocation; while the ledger has room the last of *)
(* them says the grant's state. No two grants share an id, every grant is  *)
(* for a capability on record, and TABLE_FULL with a grant's id, the       *)
(* answer to a change that was made but not recorded, comes from a full    *)
(* ledger only. A manager that is handed the context of this one starts    *)
(* with the grants this one started with, whatever became of them since    *)
(* (LosCapabilitiesMutationCommon, LosCapabilitiesServiceGrant,            *)
(* LosCapabilitiesServiceImport- and BuildBootstrapContext).               *)
LedgerExplainsGrants ==
  /\ \A i, j \in DOMAIN registry.grants :
       registry.grants[i].id = registry.grants[j].id => i = j
  /\ \A g \in ToSet(registry.grants) :
       /\ Known(registry, g.cap)
       /\ ~LedgerFull(registry) => Recorded(registry, g)
  /\ \A k \in DOMAIN registry.events :
       registry.events[k].grant \in GrantIds /\ Lawful(registry, k)
  /\ answer.status = "TABLE_FULL" /\ answer.grant # 0 => LedgerFull(registry)
  /\ online =>
       LET successor == ImportBootstrapContext(HandedOn(registry, MaxBlocks))
           imported == successor.reg.events
       IN  /\ successor.ok /\ Imported(registry) = 1 .. Len(imported)
           /\ imported = SubSeq(registry.events, 1, Len(imported))
           /\ \A g \in ToSet(successor.reg.grants) : g.state = "ACTIVE"

-----------------------------------------------------------------------------
Principals(r) ==
  LET b == ProfileOf(registry.context, r.type, r.name)
  IN  {<<r.type, r.id % IdSpan>>} \cup
      IF b = 0 THEN {}
      ELSE {<<registry.context.blocks[b].type, registry.context.blocks[b].id % IdSpan>>}

Permitting(r) ==
  {g \in ToSet(registry.grants) : /\ g.state = "ACTIVE" /\ g.cap = r.cap
                                 /\ <<g.type, g.principal>> \in Principals(r)}

(* An access request that the manager has judged is answered with the      *)
(* registry: SUCCESS names an active grant that permits it, NOT_FOUND says *)
(* that there is none, and the judged request is the last that the session *)
(* accepted. A client that alone has used its session is never taken for a *)
(* replay, TRANSPORT_STALE means that another client has connected since,  *)
(* and TRANSPORT_OFFLINE that the manager is not there. No request is lost *)
(* or answered to the wrong caller, and between calls both mailboxes are   *)
(* empty. Of the replays answered to callers that share a session nothing  *)
(* is said (LosCapabilitiesSubmitRequestUsingBinding,                      *)
(* LosCapabilitiesServiceConnectTransport, ...ServiceTransportOnce).       *)
AnswersFollowGrants ==
  /\ call = NoCall => /\ Ready(requests) = {} /\ Ready(responses) = {}
                     /\ requests.consume = requests.produce
                     /\ responses.consume = responses.produce
  /\ answer.call = "access" =>
       LET c == answer.caller IN
       /\ answer.status \notin {"INVALID_STATE", "AUTH_FAILED", "TABLE_FULL"}
       /\ answer.status = "SUCCESS" =>
            \E r \in answer.request : answer.grant \in {g.id : g \in Permitting(r)}
       /\ answer.status = "NOT_FOUND" => \A r \in answer.request : Permitting(r) = {}
       /\ answer.status \in {"SUCCESS", "NOT_FOUND"} =>
            online /\ answer.sequence = lastAccepted
       /\ c \in Clients /\ served \subseteq {c} => answer.status # "REPLAY_DETECTED"
       /\ answer.status = "TRANSPORT_STALE" =>
            bindings[c] = NoBinding \/ session.client \in Clients \ {c}
       /\ answer.status = "TRANSPORT_OFFLINE" => ~online

=============================================================================
