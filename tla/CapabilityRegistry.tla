-------------------------- MODULE CapabilityRegistry --------------------------
(***************************************************************************)
(* The registry of the capability manager: the capabilities it knows, the  *)
(* grants it has made, the event it records for each change, and whether a *)
(* principal holds a capability.                                           *)
(*                                                                         *)
(* A registry is a record; every operation gives the registry it leaves    *)
(* and its answer. Event ids count the events, so the model leaves them to *)
(* the length of the ledger; timestamps, classes and flags are left out,   *)
(* no decision reads them.                                                 *)
(***************************************************************************)
EXTENDS ProfileTables, FiniteSetsExt

CONSTANTS
  MaxRecords,        \* LOS_CAPABILITIES_SERVICE_MAX_ENTRIES
  MaxGrants,         \* LOS_CAPABILITIES_RUNTIME_MAX_GRANTS
  MaxEvents,         \* LOS_CAPABILITIES_RUNTIME_MAX_EVENTS
  IdSpan             \* 2^32: a grant keeps this much of a principal's id

ASSUME RegistryAssumption ==
  {MaxRecords, MaxGrants, MaxEvents, IdSpan} \subseteq Nat \ {0}

EmptyRegistry ==
  [records |-> <<>>, grants |-> <<>>, events |-> <<>>, nextGrant |-> 1,
   context |-> [blocks |-> <<>>, assignments |-> <<>>]]

Known(reg, cap) == cap \in ToSet(reg.records)

RegisterStatus(reg, cap) ==
  IF Known(reg, cap) \/ Len(reg.records) < MaxRecords THEN "SUCCESS" ELSE "TABLE_FULL"

Register(reg, cap) ==
  IF Known(reg, cap) \/ Len(reg.records) = MaxRecords
  THEN reg
  ELSE [reg EXCEPT !.records = Append(@, cap)]

-----------------------------------------------------------------------------
(* The ledger. An event that finds it full is lost.                        *)

LedgerFull(reg) == Len(reg.events) >= MaxEvents

(* Mutant of AppendEvent: no look at the room left.                        *)
AppendEventUnchecked(reg, kind, grant) ==
  [reg EXCEPT !.events = Append(@, [kind |-> kind, grant |-> grant.id, cap |-> grant.cap])]

AppendEvent(reg, kind, grant) ==
  IF LedgerFull(reg)
  THEN reg
  ELSE [reg EXCEPT !.events =
          Append(@, [kind |-> kind, grant |-> grant.id, cap |-> grant.cap])]

(* Whether the event found room decides the answer, after the change.      *)
EventStatus(reg) == IF LedgerFull(reg) THEN "TABLE_FULL" ELSE "SUCCESS"

Answered(reg, status, id) == [reg |-> reg, status |-> status, grant |-> id]

-----------------------------------------------------------------------------
(* The grants of a bootstrap context, each with the principal of its block.*)
ImportedGrants(context) ==
  FlattenSeq([b \in DOMAIN context.blocks |->
    LET block == context.blocks[b]
    IN  [g \in DOMAIN block.grants |->
           [id |-> block.grants[g].id, cap |-> block.grants[g].cap,
            state |-> "ACTIVE", type |-> block.type,
            principal |-> block.id % IdSpan]]])

ImportGrant(import, grant) ==
  LET reg == import.reg
      added == [reg EXCEPT !.records = Append(@, grant.cap),
                           !.grants = Append(@, grant),
                           !.nextGrant = IF grant.id >= @ THEN grant.id + 1 ELSE @]
  IN  IF ~import.ok \/ Len(reg.records) = MaxRecords \/ Len(reg.grants) = MaxGrants
      THEN [import EXCEPT !.ok = FALSE]
      ELSE [reg |-> AppendEvent(added, "IMPORTED", grant), ok |-> ~LedgerFull(added)]

ImportBootstrapContext(context) ==
  FoldLeft(ImportGrant,
           [reg |-> [EmptyRegistry EXCEPT
                       !.context = [blocks |-> context.blocks,
                                    assignments |-> context.assignments]],
            ok |-> TRUE],
           ImportedGrants(context))

(* The context that a manager hands on is the one it imported, cut to the  *)
(* room the receiver has for blocks; what happened to the grants since is  *)
(* not in it.                                                              *)
HandedOn(reg, capacity) ==
  IF reg.context.blocks = <<>>
  THEN [blocks |-> <<>>, assignments |-> <<>>]
  ELSE [reg.context EXCEPT !.blocks = SubSeq(@, 1, Min({Len(@), capacity}))]

-----------------------------------------------------------------------------
(* A mutation request names a principal, a capability, an authoriser and,  *)
(* for a delegated grant, the grant it stems from.                         *)

Authorisers == {"BOOT_POLICY", "KERNEL", "SERVICE", "USER", "DELEGATED"}

Authorised(request) ==
  /\ request.authoriser \in Authorisers
  /\ request.authoriser = "DELEGATED" => request.parent # 0

Grant(reg, request) ==
  LET grant == [id |-> reg.nextGrant, cap |-> request.cap, state |-> "ACTIVE",
                type |-> request.type, principal |-> request.id % IdSpan]
      added == [reg EXCEPT !.grants = Append(@, grant), !.nextGrant = @ + 1]
  IN  CASE ~Known(reg, request.cap) -> Answered(reg, "NOT_FOUND", 0)
        [] Known(reg, request.cap) /\ ~Authorised(request) ->
             Answered(reg, "ACCESS_DENIED", 0)
        [] Known(reg, request.cap) /\ Authorised(request)
           /\ Len(reg.grants) = MaxGrants -> Answered(reg, "TABLE_FULL", 0)
        [] OTHER ->
             Answered(AppendEvent(added, "CREATED", grant), EventStatus(added), grant.id)

FindGrantById(reg, id) ==
  IF id = 0 THEN 0 ELSE SelectInSeq(reg.grants, LAMBDA g : g.id = id)

(* Mutant of Leaves: a revoked grant can be restored.                      *)
LeavesRevoked ==
  [REVOKED |-> {"ACTIVE", "SUSPENDED"}, SUSPENDED |-> {"ACTIVE"},
   ACTIVE |-> {"SUSPENDED", "REVOKED"}]

(* The states a grant may leave for each state it is asked into.           *)
Leaves ==
  [REVOKED |-> {"ACTIVE", "SUSPENDED"}, SUSPENDED |-> {"ACTIVE"},
   ACTIVE |-> {"SUSPENDED"}]

EventOf ==
  [REVOKED |-> "REVOKED", SUSPENDED |-> "SUSPENDED", ACTIVE |-> "RESTORED"]

Mutate(reg, id, state) ==
  LET i == FindGrantById(reg, id)
      changed == [reg EXCEPT !.grants[i].state = state]
  IN  IF i = 0 THEN Answered(reg, "NOT_FOUND", 0)
      ELSE IF reg.grants[i].state \notin Leaves[state]
      THEN Answered(reg, "INVALID_STATE", id)
      ELSE Answered(AppendEvent(changed, EventOf[state], reg.grants[i]),
                    EventStatus(changed), id)

-----------------------------------------------------------------------------
(* The first active grant of the capability to the principal, or else to   *)
(* the principal of the profile that the name is assigned to.              *)

ActiveGrant(reg, type, id, cap) ==
  SelectInSeq(reg.grants, LAMBDA g :
    /\ g.state = "ACTIVE" /\ g.cap = cap
    /\ g.type = type /\ g.principal = id % IdSpan)

MatchingGrant(reg, request) ==
  LET own == ActiveGrant(reg, request.type, request.id, request.cap)
      b == ProfileOf(reg.context, request.type, request.name)
      block == reg.context.blocks[b]
  IN  IF own # 0 \/ b = 0 THEN own
      ELSE ActiveGrant(reg, block.type, block.id, request.cap)

CheckAccess(reg, request) ==
  LET i == MatchingGrant(reg, request)
  IN  IF i = 0 THEN Answered(reg, "NOT_FOUND", 0)
      ELSE Answered(reg, "SUCCESS", reg.grants[i].id)

-----------------------------------------------------------------------------
(* The self-test of every start: a grant is made and, if that succeeded,   *)
(* suspended, restored and revoked, whatever the step before answered.     *)
SelfTestRequest ==
  [type |-> "service", id |-> 1, cap |-> "capability query",
   authoriser |-> "SERVICE", parent |-> 0]

SelfTest(reg) ==
  LET granted == Grant(reg, SelfTestRequest)
      Then(r, state) == Mutate(r, granted.grant, state).reg
  IN  IF granted.status = "SUCCESS"
      THEN Then(Then(Then(granted.reg, "SUSPENDED"), "ACTIVE"), "REVOKED")
      ELSE granted.reg

=============================================================================
