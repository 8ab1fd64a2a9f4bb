----------------------- MODULE CapabilitiesServiceProofs -----------------------
(***************************************************************************)
(* Proofs about the capability manager, for every set of policy files,     *)
(* clients and requests and every size of its tables.                      *)
(***************************************************************************)
EXTENDS CapabilitiesService, FoldProofs, FiniteSetTheorems

-----------------------------------------------------------------------------
(* The values that tables hold.                                            *)

Lines == UNION {ToSet(f) : f \in PolicyFiles}
Caps == {l.cap : l \in Lines} \cup {r.cap : r \in GrantRequests} \cup {SelfTestRequest.cap}
Profiles == {l.profile : l \in Lines}
Names == {l.name : l \in Lines}
HolderTypes == PrincipalTypes \cup {r.type : r \in GrantRequests} \cup {SelfTestRequest.type}

Ids == Nat \ {0}
PolicyGrants == [id : Ids, cap : Caps]
Blocks == [type : PrincipalTypes, profile : Profiles, id : Nat, grants : Seq(PolicyGrants)]
Assignments == [type : PrincipalTypes, name : Names, profile : Profiles]
Contexts == [blocks : Seq(Blocks), assignments : Seq(Assignments)]

GrantStates == {"ACTIVE", "SUSPENDED", "REVOKED"}
Kinds == {"IMPORTED", "CREATED", "RESTORED", "SUSPENDED", "REVOKED"}
Grants == [id : Ids, cap : Caps, state : GrantStates, type : HolderTypes, principal : Nat]
Events == [kind : Kinds, grant : Ids, cap : Caps]
Registries == [records : Seq(Caps), grants : Seq(Grants), events : Seq(Events),
               nextGrant : Ids, context : Contexts]

-----------------------------------------------------------------------------
(* The ledger. Ids are given out in order, so a new grant has none of      *)
(* those before it; and as long as an event has never been lost, the       *)
(* ledger tells the state of every grant.                                  *)

Bounded(reg) ==
  /\ Len(reg.records) <= MaxRecords /\ Len(reg.grants) <= MaxGrants
  /\ Len(reg.events) <= MaxEvents

IdsInOrder(reg) ==
  /\ \A i, j \in 1 .. Len(reg.grants) : i < j => reg.grants[i].id < reg.grants[j].id
  /\ \A i \in 1 .. Len(reg.grants) : reg.grants[i].id < reg.nextGrant

OnRecord(reg) == \A i \in 1 .. Len(reg.grants) : Known(reg, reg.grants[i].cap)

Attributed(reg) ==
  \A k \in 1 .. Len(reg.events) : \E i \in 1 .. Len(reg.grants) : reg.grants[i].id = reg.events[k].grant

AllLawful(reg) == \A k \in 1 .. Len(reg.events) : Lawful(reg, k)

AllRecorded(reg) ==
  Len(reg.events) < MaxEvents => \A i \in 1 .. Len(reg.grants) : Recorded(reg, reg.grants[i])

Ledger(reg) ==
  /\ reg \in Registries
  /\ Bounded(reg) /\ IdsInOrder(reg) /\ OnRecord(reg)
  /\ Attributed(reg) /\ AllLawful(reg) /\ AllRecorded(reg)

LEMMA RegistryFacts ==
  ASSUME NEW reg \in Registries
  PROVE  /\ reg.records \in Seq(Caps) /\ reg.grants \in Seq(Grants) /\ reg.events \in Seq(Events)
         /\ reg.nextGrant \in Ids /\ reg.context \in Contexts
         /\ Len(reg.records) \in Nat /\ Len(reg.grants) \in Nat /\ Len(reg.events) \in Nat
         /\ DOMAIN reg.events = 1 .. Len(reg.events)
         /\ DOMAIN reg.grants = 1 .. Len(reg.grants)
         /\ \A i \in 1 .. Len(reg.grants) : reg.grants[i] \in Grants /\ reg.grants[i].id \in Ids
         /\ \A k \in 1 .. Len(reg.events) : reg.events[k] \in Events
<1>1. /\ reg.records \in Seq(Caps) /\ reg.grants \in Seq(Grants) /\ reg.events \in Seq(Events)
      /\ reg.nextGrant \in Ids /\ reg.context \in Contexts
  BY DEF Registries
<1>2. \A i \in 1 .. Len(reg.grants) : reg.grants[i] \in Grants
  BY <1>1
<1>3. \A g \in Grants : g.id \in Ids
  BY DEF Grants
<1>4. QED BY <1>1, <1>2, <1>3

LEMMA EmptyLedger ==
  ASSUME NEW context \in Contexts
  PROVE  Ledger([EmptyRegistry EXCEPT !.context = context])
<1> DEFINE reg == [EmptyRegistry EXCEPT !.context = context]
<1>1. reg = [records |-> <<>>, grants |-> <<>>, events |-> <<>>, nextGrant |-> 1, context |-> context]
  BY DEF EmptyRegistry
<1> HIDE DEF reg
<1>2. reg \in Registries
  <2>1. <<>> \in Seq(Caps) /\ <<>> \in Seq(Grants) /\ <<>> \in Seq(Events) /\ 1 \in Ids
    BY DEF Ids
  <2>2. QED BY <1>1, <2>1 DEF Registries
<1>3. Len(reg.records) = 0 /\ Len(reg.grants) = 0 /\ Len(reg.events) = 0
  BY <1>1
<1>4. Bounded(reg)
  BY <1>3, RegistryAssumption DEF Bounded
<1>5. QED BY <1>2, <1>3, <1>4 DEF Ledger, IdsInOrder, OnRecord, Attributed, AllLawful, AllRecorded, reg

(* What an event appended to the ledger leaves as it was.                  *)
Extends(events, old) ==
  /\ Len(events) = Len(old) + 1
  /\ \A k \in 1 .. Len(old) : events[k] = old[k]

LEMMA OldEventsStayLawful ==
  ASSUME NEW reg \in Registries, NEW new \in Registries,
         Len(new.events) >= Len(reg.events),
         \A k \in 1 .. Len(reg.events) : new.events[k] = reg.events[k],
         NEW k \in 1 .. Len(reg.events), Lawful(reg, k)
  PROVE  Lawful(new, k)
<1> DEFINE Earlier(r) == {j \in HistoryOf(r, r.events[k].grant) : j < k}
<1>1. /\ Len(reg.events) \in Nat /\ Len(new.events) \in Nat
      /\ DOMAIN reg.events = 1 .. Len(reg.events) /\ DOMAIN new.events = 1 .. Len(new.events)
  BY RegistryFacts
<1>2. new.events[k] = reg.events[k]
  OBVIOUS
<1>3. \A j : j \in Earlier(reg) <=> j \in 1 .. Len(reg.events) /\ reg.events[j].grant = reg.events[k].grant /\ j < k
  BY <1>1 DEF HistoryOf
<1>4. \A j : j \in Earlier(new) <=> j \in 1 .. Len(new.events) /\ new.events[j].grant = new.events[k].grant /\ j < k
  BY <1>1 DEF HistoryOf
<1>5. \A j : j \in 1 .. Len(new.events) /\ j < k => j \in 1 .. Len(reg.events)
  BY <1>1
<1>6. \A j \in 1 .. Len(reg.events) : j \in 1 .. Len(new.events) /\ new.events[j] = reg.events[j]
  BY <1>1
<1>7. Earlier(new) = Earlier(reg)
  BY <1>2, <1>3, <1>4, <1>5, <1>6
<1>8. \A j \in Earlier(reg) : new.events[j] = reg.events[j]
  BY <1>3
<1>9. QED BY <1>2, <1>7, <1>8 DEF Lawful, IsLast

LEMMA OthersStayRecorded ==
  ASSUME NEW reg \in Registries, NEW new \in Registries, Extends(new.events, reg.events),
         NEW g, g.id # new.events[Len(reg.events) + 1].grant, Recorded(reg, g)
  PROVE  Recorded(new, g)
<1> DEFINE n == Len(reg.events)
<1>1. /\ n \in Nat /\ Len(new.events) = n + 1
      /\ DOMAIN reg.events = 1 .. n /\ DOMAIN new.events = 1 .. n + 1
      /\ \A k \in 1 .. n : new.events[k] = reg.events[k]
  BY RegistryFacts DEF Extends
<1>2. \A k : k \in 1 .. n + 1 <=> k \in 1 .. n \/ k = n + 1
  BY <1>1
<1>3. HistoryOf(new, g.id) = HistoryOf(reg, g.id)
  BY <1>1, <1>2 DEF HistoryOf
<1>4. \A k \in HistoryOf(reg, g.id) : new.events[k] = reg.events[k]
  BY <1>1 DEF HistoryOf
<1>5. QED BY <1>3, <1>4 DEF Recorded

LEMMA RecordedNow ==
  ASSUME NEW reg \in Registries, NEW new \in Registries, Extends(new.events, reg.events),
         NEW g, g.id = new.events[Len(reg.events) + 1].grant,
         g.state = StateAfter[new.events[Len(reg.events) + 1].kind]
  PROVE  Recorded(new, g)
<1> DEFINE n == Len(reg.events)
<1>1. n \in Nat /\ Len(new.events) = n + 1 /\ DOMAIN new.events = 1 .. n + 1
  BY RegistryFacts DEF Extends
<1>2. n + 1 \in HistoryOf(new, g.id) /\ \A j \in HistoryOf(new, g.id) : j <= n + 1
  BY <1>1 DEF HistoryOf
<1>3. QED BY <1>2 DEF Recorded, IsLast

(* The events before the one that is appended are the old history.         *)
LEMMA EarlierEvents ==
  ASSUME NEW reg \in Registries, NEW new \in Registries, Extends(new.events, reg.events),
         NEW id
  PROVE  /\ {j \in HistoryOf(new, id) : j < Len(reg.events) + 1} = HistoryOf(reg, id)
         /\ \A j \in HistoryOf(reg, id) : new.events[j] = reg.events[j]
<1> DEFINE n == Len(reg.events)
<1>1. /\ n \in Nat /\ Len(new.events) = n + 1
      /\ DOMAIN reg.events = 1 .. n /\ DOMAIN new.events = 1 .. n + 1
      /\ \A k \in 1 .. n : new.events[k] = reg.events[k]
  BY RegistryFacts DEF Extends
<1>2. \A k : k \in 1 .. n + 1 /\ k < n + 1 <=> k \in 1 .. n
  BY <1>1
<1>3. QED BY <1>1, <1>2 DEF HistoryOf

LEMMA AppendedEvent ==
  ASSUME NEW reg \in Registries, NEW kind \in Kinds, NEW g \in Grants, Len(reg.events) <= MaxEvents,
         NEW new, new = AppendEvent(reg, kind, g)
  PROVE  /\ new \in Registries /\ Len(new.events) <= MaxEvents
         /\ new.records = reg.records /\ new.grants = reg.grants
         /\ new.nextGrant = reg.nextGrant /\ new.context = reg.context
         /\ Len(reg.events) < MaxEvents =>
              /\ Extends(new.events, reg.events)
              /\ new.events[Len(reg.events) + 1] = [kind |-> kind, grant |-> g.id, cap |-> g.cap]
         /\ Len(reg.events) >= MaxEvents => new = reg
<1> DEFINE e == [kind |-> kind, grant |-> g.id, cap |-> g.cap]
<1>1. e \in Events /\ reg.events \in Seq(Events) /\ Len(reg.events) \in Nat /\ MaxEvents \in Nat
  BY RegistryFacts, RegistryAssumption DEF Events, Grants
<1>2. CASE Len(reg.events) >= MaxEvents
  <2>1. new = reg
    BY <1>2 DEF AppendEvent, LedgerFull
  <2>2. QED BY <1>1, <1>2, <2>1
<1>3. CASE Len(reg.events) < MaxEvents
  <2>1. new = [reg EXCEPT !.events = Append(reg.events, e)]
    BY <1>1, <1>3 DEF AppendEvent, LedgerFull
  <2> HIDE DEF e
  <2>2. Append(reg.events, e) \in Seq(Events) /\ Len(Append(reg.events, e)) = Len(reg.events) + 1
        /\ (\A k \in 1 .. Len(reg.events) : Append(reg.events, e)[k] = reg.events[k])
        /\ Append(reg.events, e)[Len(reg.events) + 1] = e
    BY <1>1
  <2>3. PICK s \in Seq(Events) : s = Append(reg.events, e)
    BY <2>2
  <2>4. new = [reg EXCEPT !.events = s]
    BY <2>1, <2>3
  <2>5. /\ new \in Registries /\ new.events = s
        /\ new.records = reg.records /\ new.grants = reg.grants
        /\ new.nextGrant = reg.nextGrant /\ new.context = reg.context
    BY <2>4 DEF Registries
  <2>6. Len(s) = Len(reg.events) + 1 /\ (\A k \in 1 .. Len(reg.events) : s[k] = reg.events[k])
        /\ s[Len(reg.events) + 1] = e
    BY <2>2, <2>3
  <2>7. Extends(new.events, reg.events) /\ Len(new.events) <= MaxEvents
    BY <1>1, <1>3, <2>5, <2>6 DEF Extends
  <2>8. QED BY <1>1, <1>3, <2>5, <2>6, <2>7 DEF e
<1>4. QED BY <1>1, <1>2, <1>3

LEMMA NewGrant ==
  ASSUME NEW reg, Ledger(reg), NEW added \in Registries, NEW g \in Grants, g.state = "ACTIVE",
         g.id >= reg.nextGrant, added.nextGrant = g.id + 1,
         added.grants = Append(reg.grants, g), Len(reg.grants) < MaxGrants,
         ToSet(reg.records) \subseteq ToSet(added.records), Len(added.records) <= MaxRecords,
         Known(added, g.cap), added.events = reg.events, NEW kind \in LawfulStart
  PROVE  Ledger(AppendEvent(added, kind, g))
<1> DEFINE new == AppendEvent(added, kind, g)
           n == Len(reg.grants)
           m == Len(reg.events)
<1>1. /\ reg \in Registries /\ n \in Nat /\ m \in Nat /\ reg.grants \in Seq(Grants)
      /\ \A i \in 1 .. n : reg.grants[i] \in Grants /\ reg.grants[i].id \in Nat
      /\ g.id \in Nat /\ reg.nextGrant \in Nat /\ MaxGrants \in Nat /\ MaxEvents \in Nat
      /\ \A k \in 1 .. m : reg.events[k] \in Events
  BY RegistryFacts, RegistryAssumption DEF Ledger, Grants, Ids
<1>2. kind \in Kinds /\ StateAfter[kind] = "ACTIVE"
  BY DEF LawfulStart, Kinds, StateAfter
<1>3. m <= MaxEvents
  BY DEF Ledger, Bounded
<1>4. /\ new \in Registries /\ Len(new.events) <= MaxEvents
      /\ new.records = added.records /\ new.grants = added.grants
      /\ new.nextGrant = added.nextGrant
      /\ m < MaxEvents =>
           /\ Extends(new.events, reg.events)
           /\ new.events[m + 1] = [kind |-> kind, grant |-> g.id, cap |-> g.cap]
      /\ m >= MaxEvents => new = added
  BY <1>2, <1>3, AppendedEvent
<1> HIDE DEF new
<1>5. /\ Len(new.grants) = n + 1 /\ new.grants[n + 1] = g
      /\ \A i \in 1 .. n : new.grants[i] = reg.grants[i]
  BY <1>1, <1>4
<1>6. \A i : i \in 1 .. n + 1 <=> i \in 1 .. n \/ i = n + 1
  BY <1>1
<1>7. Bounded(new)
  BY <1>1, <1>4, <1>5 DEF Bounded
<1>8. \A i \in 1 .. n : reg.grants[i].id < g.id
  BY <1>1, SMTT(30) DEF Ledger, IdsInOrder
<1>9. IdsInOrder(new)
  <2>1. ASSUME NEW i \in 1 .. n + 1, NEW j \in 1 .. n + 1, i < j
        PROVE  new.grants[i].id < new.grants[j].id
    <3>1. i \in 1 .. n
      BY <1>1, <2>1
    <3>2. CASE j \in 1 .. n
      BY <1>5, <2>1, <3>1, <3>2 DEF Ledger, IdsInOrder
    <3>3. CASE j = n + 1
      BY <1>5, <1>8, <3>1, <3>3
    <3>4. QED BY <1>6, <3>2, <3>3
  <2>2. ASSUME NEW i \in 1 .. n + 1
        PROVE  new.grants[i].id < new.nextGrant
    <3>1. CASE i \in 1 .. n
      <4>1. PICK a, b \in Nat : a = new.grants[i].id /\ b = g.id /\ a < b
        BY <1>1, <1>5, <1>8, <3>1
      <4>2. QED BY <1>4, <4>1
    <3>2. CASE i = n + 1
      BY <1>1, <1>4, <1>5, <3>2
    <3>3. QED BY <1>6, <3>1, <3>2
  <2>3. QED BY <1>5, <2>1, <2>2 DEF IdsInOrder
<1>10. OnRecord(new)
  <2>1. ASSUME NEW i \in 1 .. n + 1
        PROVE  Known(new, new.grants[i].cap)
    <3>1. CASE i \in 1 .. n
      BY <1>4, <1>5, <3>1 DEF Ledger, OnRecord, Known
    <3>2. CASE i = n + 1
      BY <1>4, <1>5, <3>2 DEF Known
    <3>3. QED BY <1>6, <3>1, <3>2
  <2>2. QED BY <1>5, <2>1 DEF OnRecord
<1>11. \A k \in 1 .. m : \E i \in 1 .. n + 1 : new.grants[i].id = reg.events[k].grant
  BY <1>5, <1>6 DEF Ledger, Attributed
<1>12. n + 1 \in 1 .. n + 1
  BY <1>1
<1>13. CASE m >= MaxEvents
  <2>1. new.events = reg.events
    BY <1>4, <1>13
  <2>2. Attributed(new)
    BY <1>5, <1>11, <2>1 DEF Attributed
  <2>3. AllLawful(new)
    <3>1. Len(new.events) >= m /\ \A k \in 1 .. m : new.events[k] = reg.events[k] /\ Lawful(reg, k)
      BY <1>1, <2>1 DEF AllLawful, Ledger
    <3>2. \A k \in 1 .. m : Lawful(new, k)
      BY <1>1, <1>4, <3>1, OldEventsStayLawful
    <3>3. QED BY <2>1, <3>2 DEF AllLawful
  <2>4. AllRecorded(new)
    BY <1>1, <1>13, <2>1 DEF AllRecorded
  <2>5. QED BY <1>4, <1>7, <1>9, <1>10, <2>2, <2>3, <2>4 DEF Ledger, new
<1>14. CASE m < MaxEvents
  <2>1. /\ Len(new.events) = m + 1 /\ \A k \in 1 .. m : new.events[k] = reg.events[k]
        /\ new.events[m + 1].grant = g.id /\ new.events[m + 1].kind = kind
    BY <1>4, <1>14 DEF Extends
  <2>2. \A k : k \in 1 .. m + 1 <=> k \in 1 .. m \/ k = m + 1
    BY <1>1
  <2>3. Attributed(new)
    BY <1>5, <1>11, <1>12, <2>1, <2>2 DEF Attributed
  <2>4. Lawful(new, m + 1)
    <3>1. HistoryOf(reg, g.id) = {}
      <4> SUFFICES ASSUME NEW k \in HistoryOf(reg, g.id) PROVE FALSE
        OBVIOUS
      <4>1. k \in 1 .. m /\ reg.events[k].grant = g.id
        BY <1>1, RegistryFacts DEF HistoryOf
      <4>2. PICK i \in 1 .. n : reg.grants[i].id = g.id
        BY <4>1 DEF Ledger, Attributed
      <4>3. QED BY <1>1, <1>8, <4>2
    <3>2. {j \in HistoryOf(new, g.id) : j < m + 1} = {}
      BY <1>1, <1>4, <1>14, <3>1, EarlierEvents
    <3>3. QED BY <2>1, <3>2 DEF Lawful
  <2>5. AllLawful(new)
    <3>1. \A k \in 1 .. m : Lawful(new, k)
      BY <1>1, <1>4, <2>1, OldEventsStayLawful, SMTT(30) DEF AllLawful, Ledger
    <3>2. QED BY <2>1, <2>2, <2>4, <3>1 DEF AllLawful
  <2>6. AllRecorded(new)
    <3>1. ASSUME NEW i \in 1 .. n + 1
          PROVE  Recorded(new, new.grants[i])
      <4>1. CASE i \in 1 .. n
        <5>1. Recorded(reg, reg.grants[i])
          BY <1>14, <4>1 DEF Ledger, AllRecorded
        <5>2. reg.grants[i].id # g.id
          BY <1>1, <1>8, <4>1
        <5>3. QED BY <1>1, <1>4, <1>5, <1>14, <2>1, <4>1, <5>1, <5>2, OthersStayRecorded
      <4>2. CASE i = n + 1
        <5>1. g.id = new.events[m + 1].grant /\ g.state = StateAfter[new.events[m + 1].kind]
          BY <1>2, <2>1
        <5>2. QED BY <1>1, <1>4, <1>5, <1>14, <4>2, <5>1, RecordedNow
      <4>3. QED BY <1>6, <4>1, <4>2
    <3>2. QED BY <1>5, <3>1 DEF AllRecorded
  <2>7. QED BY <1>4, <1>7, <1>9, <1>10, <2>3, <2>5, <2>6 DEF Ledger, new
<1>15. QED BY <1>1, <1>13, <1>14

-----------------------------------------------------------------------------
(* The operations on a registry keep the ledger, and after the import no   *)
(* event is one of an import.                                              *)

Succeeds(new, reg) ==
  /\ new.context = reg.context
  /\ Len(new.events) >= Len(reg.events)
  /\ \A k \in 1 .. Len(reg.events) : new.events[k] = reg.events[k]
  /\ \A k \in 1 .. Len(new.events) : k > Len(reg.events) => new.events[k].kind # "IMPORTED"

(* What a mutation may answer.                                             *)
Outcome(out, reg) ==
  /\ Ledger(out.reg) /\ Succeeds(out.reg, reg)
  /\ out.status \in {"SUCCESS", "NOT_FOUND", "ACCESS_DENIED", "TABLE_FULL", "INVALID_STATE"}
  /\ out.status = "TABLE_FULL" /\ out.grant # 0 => LedgerFull(out.reg)

LEMMA SucceedsItself ==
  ASSUME NEW reg \in Registries
  PROVE  Succeeds(reg, reg)
BY RegistryFacts DEF Succeeds

LEMMA SucceedsTransitively ==
  ASSUME NEW r \in Registries, NEW s \in Registries, NEW t \in Registries,
         Succeeds(s, r), Succeeds(t, s)
  PROVE  Succeeds(t, r)
<1>1. Len(r.events) \in Nat /\ Len(s.events) \in Nat /\ Len(t.events) \in Nat
  BY RegistryFacts
<1>2. \A k \in 1 .. Len(r.events) : k \in 1 .. Len(s.events) /\ t.events[k] = r.events[k]
  BY <1>1 DEF Succeeds
<1>3. ASSUME NEW k \in 1 .. Len(t.events), k > Len(r.events)
      PROVE  t.events[k].kind # "IMPORTED"
  <2>1. CASE k > Len(s.events)
    BY <2>1 DEF Succeeds
  <2>2. CASE ~(k > Len(s.events))
    <3>1. k \in 1 .. Len(s.events)
      BY <1>1, <2>2
    <3>2. QED BY <1>3, <3>1 DEF Succeeds
  <2>3. QED BY <2>1, <2>2
<1>4. QED BY <1>1, <1>2, <1>3 DEF Succeeds

LEMMA AppendedSucceeds ==
  ASSUME NEW reg \in Registries, NEW added \in Registries, NEW kind \in Kinds, kind # "IMPORTED",
         NEW g \in Grants, added.events = reg.events, added.context = reg.context,
         Len(reg.events) <= MaxEvents
  PROVE  Succeeds(AppendEvent(added, kind, g), reg)
<1> DEFINE new == AppendEvent(added, kind, g)
           m == Len(reg.events)
<1>1. /\ new.context = added.context
      /\ m < MaxEvents => /\ Extends(new.events, reg.events)
                          /\ new.events[m + 1] = [kind |-> kind, grant |-> g.id, cap |-> g.cap]
      /\ m >= MaxEvents => new = added
  BY AppendedEvent
<1> HIDE DEF new
<1>2. m \in Nat /\ MaxEvents \in Nat
  BY RegistryFacts, RegistryAssumption
<1>3. CASE m < MaxEvents
  <2>1. /\ Len(new.events) = m + 1 /\ \A k \in 1 .. m : new.events[k] = reg.events[k]
        /\ new.events[m + 1].kind = kind
    BY <1>1, <1>3 DEF Extends
  <2>2. \A k \in 1 .. m + 1 : k > m => k = m + 1
    BY <1>2
  <2>3. Succeeds(new, reg)
    BY <1>1, <1>2, <2>1, <2>2 DEF Succeeds
  <2>4. QED BY <2>3 DEF new
<1>4. CASE m >= MaxEvents
  <2>1. new = added
    BY <1>1, <1>4
  <2>2. Succeeds(new, reg)
    BY <1>2, <2>1 DEF Succeeds
  <2>3. QED BY <2>2 DEF new
<1>5. QED BY <1>2, <1>3, <1>4

LEMMA FoundGrant ==
  ASSUME NEW reg \in Registries, NEW id, FindGrantById(reg, id) # 0
  PROVE  /\ FindGrantById(reg, id) \in 1 .. Len(reg.grants)
         /\ reg.grants[FindGrantById(reg, id)].id = id
<1> DEFINE I == {i \in 1 .. Len(reg.grants) : reg.grants[i].id = id}
<1>1. Len(reg.grants) \in Nat
  BY RegistryFacts
<1>2. id # 0 /\ I # {} /\ FindGrantById(reg, id) = Min(I)
  BY DEF FindGrantById, SelectInSeq
<1>3. I \in SUBSET Nat
  BY <1>1
<1>4. Min(I) \in I
  BY <1>2, <1>3, MinOfNaturals
<1>5. QED BY <1>2, <1>4

(* A grant that leaves its state lawfully.                                 *)
StateChanged(new, reg, i, state) ==
  /\ new \in Registries /\ new.events = reg.events /\ new.context = reg.context
  /\ new.records = reg.records /\ new.nextGrant = reg.nextGrant
  /\ Len(new.grants) = Len(reg.grants) /\ new.grants[i] = [reg.grants[i] EXCEPT !.state = state]
  /\ \A j \in 1 .. Len(reg.grants) : j # i => new.grants[j] = reg.grants[j]

LEMMA ChangingState ==
  ASSUME NEW reg \in Registries, NEW i \in 1 .. Len(reg.grants), NEW state \in GrantStates
  PROVE  StateChanged([reg EXCEPT !.grants[i].state = state], reg, i, state)
<1> DEFINE n == Len(reg.grants)
<1>1. n \in Nat /\ reg.grants \in Seq(Grants) /\ reg.grants[i] \in Grants
  BY RegistryFacts
<1>2. PICK h \in Grants : h = [reg.grants[i] EXCEPT !.state = state]
  BY <1>1 DEF Grants
<1>3. PICK s \in Seq(Grants) : s = [reg.grants EXCEPT ![i] = h]
  <2>1. \A q \in Seq(Grants) : \A k \in 1 .. Len(q) : [q EXCEPT ![k] = h] \in Seq(Grants)
    OBVIOUS
  <2>2. [reg.grants EXCEPT ![i] = h] \in Seq(Grants)
    BY <1>1, <2>1, Zenon
  <2>3. QED BY <2>2
<1>4. Len(s) = n /\ s[i] = h /\ \A j \in 1 .. n : j # i => s[j] = reg.grants[j]
  BY <1>1, <1>2, <1>3, ExceptSeq
<1>5. PICK new : new = [reg EXCEPT !.grants = s]
  OBVIOUS
<1>6. new = [reg EXCEPT !.grants[i].state = state]
  BY <1>2, <1>3, <1>5
<1>7. /\ new \in Registries /\ new.events = reg.events /\ new.context = reg.context
      /\ new.grants = s /\ new.records = reg.records /\ new.nextGrant = reg.nextGrant
  BY <1>5 DEF Registries
<1>8. StateChanged(new, reg, i, state)
  BY <1>2, <1>4, <1>7 DEF StateChanged
<1>9. QED BY <1>6, <1>8

LEMMA ChangedGrant ==
  ASSUME NEW reg, Ledger(reg), NEW i \in 1 .. Len(reg.grants), NEW state \in GrantStates,
         reg.grants[i].state \in Leaves[state],
         NEW changed, StateChanged(changed, reg, i, state)
  PROVE  Ledger(AppendEvent(changed, EventOf[state], reg.grants[i]))
<1> DEFINE n == Len(reg.grants)
           m == Len(reg.events)
           g == reg.grants[i]
           kind == EventOf[state]
           new == AppendEvent(changed, kind, g)
           s == changed.grants
<1>1. /\ reg \in Registries /\ n \in Nat /\ m \in Nat /\ reg.grants \in Seq(Grants) /\ g \in Grants
      /\ \A j \in 1 .. n : reg.grants[j] \in Grants /\ reg.grants[j].id \in Nat
      /\ reg.nextGrant \in Nat /\ MaxEvents \in Nat
      /\ \A k \in 1 .. m : reg.events[k] \in Events
      /\ i \in 1 .. n
  BY RegistryFacts, RegistryAssumption DEF Ledger, Grants, Ids
<1> HIDE DEF g
<1>2. PICK h \in Grants : h = [g EXCEPT !.state = state] /\ h.id = g.id /\ h.cap = g.cap /\ h.state = state
  <2>1. [g EXCEPT !.state = state] \in Grants
    BY <1>1 DEF Grants
  <2>2. QED BY <1>1, <2>1 DEF Grants
<1>3. kind \in Kinds /\ StateAfter[kind] = state
  BY DEF GrantStates, EventOf, Kinds, StateAfter
<1>6. /\ Len(s) = n /\ s[i] = h /\ \A j \in 1 .. n : j # i => s[j] = reg.grants[j]
  BY <1>2 DEF StateChanged, g
<1>7. /\ changed \in Registries /\ changed.events = reg.events /\ changed.context = reg.context
      /\ changed.grants = s /\ changed.records = reg.records /\ changed.nextGrant = reg.nextGrant
  BY DEF StateChanged
<1>8. m <= MaxEvents
  BY DEF Ledger, Bounded
<1> HIDE DEF kind
<1>9. /\ new \in Registries /\ Len(new.events) <= MaxEvents
      /\ new.records = reg.records /\ new.grants = s /\ new.nextGrant = reg.nextGrant
      /\ m < MaxEvents =>
           /\ Extends(new.events, reg.events)
           /\ new.events[m + 1] = [kind |-> kind, grant |-> g.id, cap |-> g.cap]
      /\ m >= MaxEvents => new = changed
  BY <1>1, <1>3, <1>7, <1>8, AppendedEvent, SMTT(30)
<1> HIDE DEF new
<1>10. \A j \in 1 .. n : s[j].id = reg.grants[j].id /\ s[j].cap = reg.grants[j].cap
  <2>1. \A j \in 1 .. n : j = i => s[j].id = reg.grants[j].id /\ s[j].cap = reg.grants[j].cap
    BY <1>2, <1>6 DEF g
  <2>2. QED BY <1>6, <2>1
<1>11. Bounded(new)
  BY <1>6, <1>9 DEF Ledger, Bounded
<1>12. IdsInOrder(new)
  BY <1>6, <1>9, <1>10 DEF Ledger, IdsInOrder
<1>13. OnRecord(new)
  BY <1>6, <1>9, <1>10 DEF Ledger, OnRecord, Known
<1>14. \A k \in 1 .. m : \E j \in 1 .. n : new.grants[j].id = reg.events[k].grant
  BY <1>9, <1>10 DEF Ledger, Attributed
<1>15. Ledger(new)
  <2>1. CASE m >= MaxEvents
    <3>1. new.events = reg.events
      BY <1>7, <1>9, <2>1
    <3>2. Attributed(new)
      BY <1>6, <1>9, <1>14, <3>1 DEF Attributed
    <3>3. AllLawful(new)
      <4>1. Len(new.events) >= m /\ \A k \in 1 .. m : new.events[k] = reg.events[k] /\ Lawful(reg, k)
        BY <1>1, <3>1 DEF AllLawful, Ledger
      <4>2. \A k \in 1 .. m : Lawful(new, k)
        BY <1>1, <1>9, <4>1, OldEventsStayLawful
      <4>3. QED BY <3>1, <4>2 DEF AllLawful
    <3>4. AllRecorded(new)
      BY <1>1, <2>1, <3>1 DEF AllRecorded
    <3>5. QED BY <1>9, <1>11, <1>12, <1>13, <3>2, <3>3, <3>4 DEF Ledger
  <2>2. CASE m < MaxEvents
    <3>1. /\ Len(new.events) = m + 1 /\ \A k \in 1 .. m : new.events[k] = reg.events[k]
          /\ new.events[m + 1].grant = g.id /\ new.events[m + 1].kind = kind
      BY <1>9, <2>2 DEF Extends
    <3>2. \A k : k \in 1 .. m + 1 <=> k \in 1 .. m \/ k = m + 1
      BY <1>1
    <3>3. Attributed(new)
      <4>1. new.grants[i].id = new.events[m + 1].grant
        BY <1>1, <1>9, <1>10, <3>1 DEF g
      <4>2. Len(new.grants) = n /\ i \in 1 .. n
        BY <1>1, <1>6, <1>9
      <4>3. \A k \in 1 .. m : \E j \in 1 .. n : new.grants[j].id = new.events[k].grant
        BY <1>14, <3>1
      <4>4. QED BY <3>1, <3>2, <4>1, <4>2, <4>3 DEF Attributed
    <3>4. Lawful(new, m + 1)
      <4>1. Recorded(reg, g)
        BY <1>1, <2>2 DEF Ledger, AllRecorded, g
      <4>2. PICK k \in HistoryOf(reg, g.id) : /\ IsLast(k, HistoryOf(reg, g.id))
                                              /\ g.state = StateAfter[reg.events[k].kind]
        BY <4>1 DEF Recorded
      <4>3. /\ {j \in HistoryOf(new, g.id) : j < m + 1} = HistoryOf(reg, g.id)
            /\ new.events[k] = reg.events[k]
        BY <1>1, <1>9, <2>2, EarlierEvents
      <4>4. reg.events[k].kind \in Kinds
        BY <1>1, RegistryFacts DEF HistoryOf, Events
      <4>5. g.state \in Leaves[state]
        BY DEF g
      <4>6. <<reg.events[k].kind, kind>> \in LawfulSteps
        <5>1. PICK old \in Kinds : old = reg.events[k].kind
          BY <4>4
        <5>2. StateAfter[old] \in Leaves[state]
          BY <4>2, <4>5, <5>1
        <5>3. /\ state = "REVOKED" => old \in {"IMPORTED", "CREATED", "RESTORED", "SUSPENDED"} /\ kind = "REVOKED"
              /\ state = "SUSPENDED" => old \in {"IMPORTED", "CREATED", "RESTORED"} /\ kind = "SUSPENDED"
              /\ state = "ACTIVE" => old = "SUSPENDED" /\ kind = "RESTORED"
          BY <5>2 DEF Kinds, StateAfter, Leaves, EventOf, GrantStates, kind
        <5>4. QED BY <5>1, <5>3 DEF LawfulSteps, LawfulStart, GrantStates
      <4>7. QED BY <3>1, <4>2, <4>3, <4>6 DEF Lawful
    <3>5. AllLawful(new)
      <4>0. Len(new.events) >= m /\ \A k \in 1 .. m : new.events[k] = reg.events[k] /\ Lawful(reg, k)
        BY <1>1, <3>1 DEF AllLawful, Ledger
      <4>1. \A k \in 1 .. m : Lawful(new, k)
        BY <1>1, <1>9, <4>0, OldEventsStayLawful
      <4>2. QED BY <3>1, <3>2, <3>4, <4>1 DEF AllLawful
    <3>6. AllRecorded(new)
      <4>1. ASSUME NEW j \in 1 .. n
            PROVE  Recorded(new, new.grants[j])
        <5>1. CASE j # i
          <6>1. Recorded(reg, reg.grants[j])
            BY <2>2 DEF Ledger, AllRecorded
          <6>2. reg.grants[j].id # g.id
            <7>1. PICK a, b \in Nat : a = reg.grants[j].id /\ b = g.id
              BY <1>1 DEF g
            <7>2. j < i \/ i < j
              BY <1>1, <5>1
            <7>3. a < b \/ b < a
              BY <1>1, <7>1, <7>2 DEF Ledger, IdsInOrder, g
            <7>4. QED BY <7>1, <7>3
          <6>3. QED BY <1>1, <1>6, <1>9, <2>2, <3>1, <5>1, <6>1, <6>2, OthersStayRecorded
        <5>2. CASE j = i
          <6>1. h.id = new.events[m + 1].grant /\ h.state = StateAfter[new.events[m + 1].kind]
            BY <1>2, <1>3, <3>1
          <6>2. QED BY <1>1, <1>6, <1>9, <2>2, <5>2, <6>1, RecordedNow
        <5>3. QED BY <5>1, <5>2
      <4>2. QED BY <1>6, <1>9, <4>1 DEF AllRecorded
    <3>7. QED BY <1>9, <1>11, <1>12, <1>13, <3>3, <3>5, <3>6 DEF Ledger
  <2>3. QED BY <1>1, <2>1, <2>2
<1>16. QED BY <1>15 DEF new, g, kind

LEMMA MutateOutcome ==
  ASSUME NEW reg, Ledger(reg), NEW id, NEW state \in GrantStates
  PROVE  Outcome(Mutate(reg, id, state), reg)
<1> DEFINE i == FindGrantById(reg, id)
           changed == [reg EXCEPT !.grants[i].state = state]
           new == AppendEvent(changed, EventOf[state], reg.grants[i])
           out == Mutate(reg, id, state)
<1>1. reg \in Registries /\ Succeeds(reg, reg) /\ Len(reg.events) <= MaxEvents
  BY SucceedsItself DEF Ledger, Bounded
<1>2. CASE i = 0
  <2>1. out = Answered(reg, "NOT_FOUND", 0)
    BY <1>2 DEF Mutate
  <2>2. QED BY <1>1, <2>1 DEF Answered, Outcome
<1>3. CASE i # 0 /\ reg.grants[i].state \notin Leaves[state]
  <2>1. out = Answered(reg, "INVALID_STATE", id)
    BY <1>3 DEF Mutate
  <2>2. QED BY <1>1, <2>1 DEF Answered, Outcome
<1>4. CASE i # 0 /\ reg.grants[i].state \in Leaves[state]
  <2>1. out = Answered(new, EventStatus(changed), id)
    BY <1>4 DEF Mutate
  <2>2. i \in 1 .. Len(reg.grants)
    BY <1>1, <1>4, FoundGrant
  <2> HIDE DEF i
  <2>3. StateChanged(changed, reg, i, state)
    BY <1>1, <2>2, ChangingState
  <2> HIDE DEF changed
  <2>4. Ledger(new)
    BY <1>4, <2>2, <2>3, ChangedGrant
  <2>5. Succeeds(new, reg)
    <3>1. EventOf[state] \in Kinds /\ EventOf[state] # "IMPORTED"
      BY DEF EventOf, Kinds, GrantStates
    <3>2. reg.grants[i] \in Grants
      BY <1>1, <2>2, RegistryFacts
    <3>3. changed \in Registries /\ changed.events = reg.events /\ changed.context = reg.context
      BY <2>3 DEF StateChanged
    <3>4. QED BY <1>1, <3>1, <3>2, <3>3, AppendedSucceeds
  <2>6. LedgerFull(changed) => new = changed
    BY DEF AppendEvent
  <2>7. /\ EventStatus(changed) \in {"SUCCESS", "TABLE_FULL"}
        /\ EventStatus(changed) = "TABLE_FULL" => LedgerFull(new)
    BY <2>6 DEF EventStatus
  <2> HIDE DEF new
  <2>8. QED BY <2>1, <2>4, <2>5, <2>7 DEF Answered, Outcome
<1>5. QED BY <1>2, <1>3, <1>4

LEMMA RegisterOutcome ==
  ASSUME NEW reg, Ledger(reg), NEW cap \in Caps
  PROVE  Outcome(Answered(Register(reg, cap), RegisterStatus(reg, cap), 0), reg)
<1> DEFINE new == Register(reg, cap)
           added == [reg EXCEPT !.records = Append(@, cap)]
<1>1. /\ reg \in Registries /\ Succeeds(reg, reg) /\ Len(reg.records) <= MaxRecords
      /\ Len(reg.records) \in Nat /\ MaxRecords \in Nat /\ reg.records \in Seq(Caps)
  BY SucceedsItself, RegistryFacts, RegistryAssumption DEF Ledger, Bounded
<1>2. Ledger(new) /\ Succeeds(new, reg)
  <2>1. CASE Known(reg, cap) \/ Len(reg.records) = MaxRecords
    BY <1>1, <2>1 DEF Register
  <2>2. CASE ~(Known(reg, cap) \/ Len(reg.records) = MaxRecords)
    <3>1. new = added
      BY <2>2 DEF Register
    <3> DEFINE r == Append(reg.records, cap)
    <3>2. r \in Seq(Caps) /\ Len(r) = Len(reg.records) + 1 /\ \A k \in 1 .. Len(reg.records) : r[k] = reg.records[k]
      BY <1>1
    <3>3. new = [reg EXCEPT !.records = r]
      BY <3>1
    <3> HIDE DEF r, new
    <3>4. /\ new \in Registries /\ new.records = r /\ new.grants = reg.grants /\ new.events = reg.events
          /\ new.nextGrant = reg.nextGrant /\ new.context = reg.context
      BY <1>1, <3>2, <3>3 DEF Registries
    <3>5. ToSet(reg.records) \subseteq ToSet(r)
      BY <1>1, <3>2 DEF ToSet
    <3>6. Bounded(new)
      BY <1>1, <2>2, <3>2, <3>4 DEF Ledger, Bounded
    <3>7. OnRecord(new)
      BY <3>4, <3>5 DEF Ledger, OnRecord, Known
    <3>8. IdsInOrder(new) /\ Attributed(new)
      BY <3>4 DEF Ledger, IdsInOrder, Attributed
    <3>9. AllLawful(new) /\ AllRecorded(new)
      <4>1. \A id : HistoryOf(new, id) = HistoryOf(reg, id)
        BY <3>4 DEF HistoryOf
      <4>2. \A k : Lawful(new, k) <=> Lawful(reg, k)
        BY <3>4, <4>1 DEF Lawful
      <4>3. \A g : Recorded(new, g) <=> Recorded(reg, g)
        BY <3>4, <4>1 DEF Recorded
      <4>4. QED BY <3>4, <4>2, <4>3 DEF Ledger, AllLawful, AllRecorded
    <3>10. Succeeds(new, reg)
      BY <1>1, <3>4 DEF Succeeds
    <3>11. QED BY <3>4, <3>6, <3>7, <3>8, <3>9, <3>10 DEF Ledger
  <2>3. QED BY <2>1, <2>2
<1>3. RegisterStatus(reg, cap) \in {"SUCCESS", "TABLE_FULL"}
  BY DEF RegisterStatus
<1> HIDE DEF new
<1>4. QED BY <1>2, <1>3 DEF Answered, Outcome, new

Asks(r) == r.type \in HolderTypes /\ r.id \in Nat /\ r.cap \in Caps

LEMMA GrantOutcome ==
  ASSUME NEW reg, Ledger(reg), NEW r, Asks(r)
  PROVE  Outcome(Grant(reg, r), reg)
<1> DEFINE g == [id |-> reg.nextGrant, cap |-> r.cap, state |-> "ACTIVE",
                 type |-> r.type, principal |-> r.id % IdSpan]
           added == [reg EXCEPT !.grants = Append(@, g), !.nextGrant = @ + 1]
           new == AppendEvent(added, "CREATED", g)
           out == Grant(reg, r)
<1>1. /\ reg \in Registries /\ Succeeds(reg, reg) /\ Len(reg.events) <= MaxEvents
      /\ Len(reg.grants) <= MaxGrants /\ Len(reg.grants) \in Nat /\ MaxGrants \in Nat
      /\ reg.grants \in Seq(Grants) /\ reg.nextGrant \in Ids
      /\ Len(reg.records) <= MaxRecords
  BY SucceedsItself, RegistryFacts, RegistryAssumption DEF Ledger, Bounded
<1>2. CASE ~Known(reg, r.cap)
  <2>1. out = Answered(reg, "NOT_FOUND", 0)
    BY <1>2 DEF Grant
  <2>2. QED BY <1>1, <2>1 DEF Answered, Outcome
<1>3. CASE Known(reg, r.cap) /\ ~Authorised(r)
  <2>1. out = Answered(reg, "ACCESS_DENIED", 0)
    BY <1>3 DEF Grant
  <2>2. QED BY <1>1, <2>1 DEF Answered, Outcome
<1>4. CASE Known(reg, r.cap) /\ Authorised(r) /\ Len(reg.grants) = MaxGrants
  <2>1. out = Answered(reg, "TABLE_FULL", 0)
    BY <1>4 DEF Grant
  <2>2. QED BY <1>1, <2>1 DEF Answered, Outcome
<1>5. CASE Known(reg, r.cap) /\ Authorised(r) /\ Len(reg.grants) # MaxGrants
  <2>1. out = Answered(new, EventStatus(added), g.id)
    BY <1>5 DEF Grant
  <2>2. g \in Grants /\ g.state = "ACTIVE" /\ g.id = reg.nextGrant /\ g.cap = r.cap
    <3>1. r.id % IdSpan \in Nat
      BY RegistryAssumption DEF Asks
    <3>2. QED BY <1>1, <3>1 DEF Grants, Ids, GrantStates, Asks
  <2> HIDE DEF g
  <2>3. Append(reg.grants, g) \in Seq(Grants) /\ reg.nextGrant + 1 \in Ids
    BY <1>1, <2>2 DEF Ids
  <2>4. /\ added \in Registries /\ added.grants = Append(reg.grants, g) /\ added.records = reg.records
        /\ added.nextGrant = g.id + 1 /\ added.events = reg.events /\ added.context = reg.context
    BY <1>1, <2>2, <2>3 DEF Registries
  <2> HIDE DEF added
  <2>5. "CREATED" \in LawfulStart /\ "CREATED" \in Kinds
    BY DEF LawfulStart, Kinds
  <2>6. Ledger(new)
    <3>1. Known(added, g.cap) /\ g.id >= reg.nextGrant /\ Len(reg.grants) < MaxGrants
      BY <1>1, <1>5, <2>2, <2>4 DEF Known, Ids
    <3>2. ToSet(reg.records) \subseteq ToSet(added.records) /\ Len(added.records) <= MaxRecords
      BY <1>1, <2>4
    <3>3. QED BY <2>2, <2>4, <2>5, <3>1, <3>2, NewGrant
  <2>7. Succeeds(new, reg)
    BY <1>1, <2>2, <2>4, <2>5, AppendedSucceeds
  <2>8. LedgerFull(added) => new = added
    BY DEF AppendEvent
  <2>9. /\ EventStatus(added) \in {"SUCCESS", "TABLE_FULL"}
        /\ EventStatus(added) = "TABLE_FULL" => LedgerFull(new)
    BY <2>8 DEF EventStatus
  <2> HIDE DEF new
  <2>10. QED BY <2>1, <2>6, <2>7, <2>9 DEF Answered, Outcome
<1>6. QED BY <1>2, <1>3, <1>4, <1>5

LEMMA SelfTestKeepsLedger ==
  ASSUME NEW reg, Ledger(reg)
  PROVE  Ledger(SelfTest(reg)) /\ Succeeds(SelfTest(reg), reg)
<1> DEFINE granted == Grant(reg, SelfTestRequest)
           a == Mutate(granted.reg, granted.grant, "SUSPENDED").reg
           b == Mutate(a, granted.grant, "ACTIVE").reg
           c == Mutate(b, granted.grant, "REVOKED").reg
<1>1. Asks(SelfTestRequest)
  BY DEF Asks, SelfTestRequest, HolderTypes, Caps
<1>2. Ledger(granted.reg) /\ Succeeds(granted.reg, reg)
  BY <1>1, GrantOutcome DEF Outcome
<1>3. "SUSPENDED" \in GrantStates /\ "ACTIVE" \in GrantStates /\ "REVOKED" \in GrantStates
  BY DEF GrantStates
<1>4. SelfTest(reg) = IF granted.status = "SUCCESS" THEN c ELSE granted.reg
  BY DEF SelfTest
<1> HIDE DEF granted
<1>5. Ledger(a) /\ Succeeds(a, granted.reg)
  BY <1>2, <1>3, MutateOutcome DEF Outcome
<1> HIDE DEF a
<1>6. Ledger(b) /\ Succeeds(b, a)
  BY <1>3, <1>5, MutateOutcome DEF Outcome
<1> HIDE DEF b
<1>7. Ledger(c) /\ Succeeds(c, b)
  BY <1>3, <1>6, MutateOutcome DEF Outcome
<1> HIDE DEF c
<1>8. reg \in Registries /\ granted.reg \in Registries /\ a \in Registries /\ b \in Registries /\ c \in Registries
  BY <1>2, <1>5, <1>6, <1>7 DEF Ledger
<1>9. Succeeds(a, reg)
  BY <1>2, <1>5, <1>8, SucceedsTransitively
<1>10. Succeeds(b, reg)
  BY <1>6, <1>8, <1>9, SucceedsTransitively
<1>11. Succeeds(c, reg)
  BY <1>7, <1>8, <1>10, SucceedsTransitively
<1>12. QED BY <1>2, <1>4, <1>7, <1>11

-----------------------------------------------------------------------------
(* The policy while it is read.                                            *)

Policies == [blocks : Seq(Blocks), assignments : Seq(Assignments), events : Nat]

(* The grants of block number b carry the ids of that block, in order.     *)
Numbered(block, b) ==
  /\ Len(block.grants) <= MaxGrantsPerBlock
  /\ \A g \in 1 .. Len(block.grants) : block.grants[g].id = GrantId(b, g)

PolicyInv ==
  /\ file \in PolicyFiles /\ line \in 1 .. Len(file) + 1
  /\ openBlock \in BOOLEAN
  /\ loading \in {"reading", "success", "not_found", "load_error", "buffer_too_small"}
  /\ policy \in Policies
  /\ Len(policy.blocks) <= MaxBlocks /\ Len(policy.assignments) <= MaxAssignments
  /\ policy.events <= MaxBootEvents
  /\ \A b \in 1 .. Len(policy.blocks) : Numbered(policy.blocks[b], b)
  /\ openBlock => policy.blocks # <<>>

LEMMA PolicySizes ==
  /\ MaxBlocks \in Nat /\ MaxGrantsPerBlock \in Nat /\ MaxAssignments \in Nat
  /\ MaxBootEvents \in Nat /\ BlockSpan \in Nat /\ BlockSpan > MaxGrantsPerBlock
BY PolicyAssumption

LEMMA FileLines ==
  ASSUME NEW f \in PolicyFiles
  PROVE  /\ Len(f) \in Nat /\ DOMAIN f = 1 .. Len(f)
         /\ \A i \in 1 .. Len(f) : f[i] \in Lines
<1>1. f \in Seq(ToSet(f)) /\ ToSet(f) \subseteq Lines
  BY FilesAssumption DEF Lines
<1>2. QED BY <1>1

LEMMA PolicyFacts ==
  ASSUME NEW p \in Policies
  PROVE  /\ p.blocks \in Seq(Blocks) /\ p.assignments \in Seq(Assignments) /\ p.events \in Nat
         /\ Len(p.blocks) \in Nat /\ Len(p.assignments) \in Nat
         /\ \A b \in 1 .. Len(p.blocks) : /\ p.blocks[b] \in Blocks
                                          /\ p.blocks[b].grants \in Seq(PolicyGrants)
<1>1. p.blocks \in Seq(Blocks) /\ p.assignments \in Seq(Assignments) /\ p.events \in Nat
  BY DEF Policies
<1>2. \A b \in 1 .. Len(p.blocks) : p.blocks[b] \in Blocks
  BY <1>1
<1>3. \A b \in Blocks : b.grants \in Seq(PolicyGrants)
  BY DEF Blocks
<1>4. QED BY <1>1, <1>2, <1>3

LEMMA PolicyStarts == PolicyInit => PolicyInv
<1> SUFFICES ASSUME PolicyInit PROVE PolicyInv
  OBVIOUS
<1>1. file \in PolicyFiles /\ line = 1 /\ policy = NoPolicy /\ openBlock = FALSE
      /\ loading = IF file = <<>> THEN "not_found" ELSE "reading"
  BY DEF PolicyInit
<1>2. line \in 1 .. Len(file) + 1
  BY <1>1, FileLines
<1>3. policy \in Policies /\ Len(policy.blocks) = 0 /\ Len(policy.assignments) = 0 /\ policy.events = 0
  <2>1. <<>> \in Seq(Blocks) /\ <<>> \in Seq(Assignments)
    OBVIOUS
  <2>2. QED BY <1>1, <2>1 DEF NoPolicy, Policies
<1>4. loading \in {"reading", "success", "not_found", "load_error", "buffer_too_small"}
  BY <1>1
<1>5. \A b \in 1 .. Len(policy.blocks) : Numbered(policy.blocks[b], b)
  BY <1>3
<1>6. /\ Len(policy.blocks) <= MaxBlocks /\ Len(policy.assignments) <= MaxAssignments
      /\ policy.events <= MaxBootEvents
  BY <1>3, PolicySizes
<1>7. QED BY <1>1, <1>2, <1>3, <1>4, <1>5, <1>6 DEF PolicyInv

LEMMA PolicyReads ==
  ASSUME PolicyInv, PolicyNext
  PROVE  PolicyInv'
<1>1. /\ file \in PolicyFiles /\ Len(file) \in Nat /\ line \in Nat /\ line >= 1
      /\ \A i \in 1 .. Len(file) : file[i] \in Lines
  BY FileLines DEF PolicyInv
<1>2. /\ policy \in Policies /\ policy.blocks \in Seq(Blocks) /\ policy.assignments \in Seq(Assignments)
      /\ policy.events \in Nat /\ Len(policy.blocks) \in Nat /\ Len(policy.assignments) \in Nat
      /\ \A b \in 1 .. Len(policy.blocks) : /\ policy.blocks[b] \in Blocks
                                            /\ policy.blocks[b].grants \in Seq(PolicyGrants)
  BY PolicyFacts DEF PolicyInv
<1>3. ASSUME NEW status \in {"load_error", "buffer_too_small"}, Fail(status)
      PROVE  PolicyInv'
  BY <1>3 DEF Fail, PolicyInv, Numbered
<1>4. ASSUME NEW kind, At(kind)
      PROVE  line \in 1 .. Len(file) /\ file[line] \in Lines /\ line + 1 \in 1 .. Len(file) + 1
  BY <1>1, <1>4 DEF At
<1>5. ASSUME NEW kind, At(kind), NextLine
      PROVE  /\ file' \in PolicyFiles /\ line' \in 1 .. Len(file') + 1
             /\ loading' \in {"reading", "success", "not_found", "load_error", "buffer_too_small"}
  BY <1>4, <1>5 DEF NextLine, PolicyInv
<1>6. CASE ReadBlock
  <2>1. CASE \E status \in {"load_error", "buffer_too_small"} : Fail(status)
    BY <1>3, <2>1
  <2>2. CASE ~\E status \in {"load_error", "buffer_too_small"} : Fail(status)
    <3> DEFINE read == file[line]
               b == [type |-> read.type, profile |-> read.profile,
                     id |-> ProfileIds[read.profile], grants |-> <<>>]
               blocks == Append(policy.blocks, b)
               n == Len(policy.blocks)
    <3>1. /\ At("block") /\ n < MaxBlocks /\ read.type \in PrincipalTypes
          /\ policy' = [policy EXCEPT !.blocks = blocks] /\ openBlock' = TRUE /\ NextLine
      BY <1>2, <1>6, <2>2, PolicySizes DEF ReadBlock, PolicyInv
    <3>2. read \in Lines /\ read.kind = "block"
      BY <1>4, <3>1 DEF At
    <3>3. read.profile \in Profiles /\ ProfileIds[read.profile] \in Nat
      BY <3>2, FilesAssumption DEF Lines, Profiles
    <3>4. b \in Blocks /\ b.grants = <<>>
      <4>1. <<>> \in Seq(PolicyGrants)
        OBVIOUS
      <4>2. QED BY <3>1, <3>3, <4>1 DEF Blocks
    <3> HIDE DEF b
    <3>5. blocks \in Seq(Blocks) /\ Len(blocks) = n + 1 /\ blocks[n + 1] = b
          /\ \A i \in 1 .. n : blocks[i] = policy.blocks[i]
      BY <1>2, <3>4
    <3>6. PICK s \in Seq(Blocks) : s = blocks
      BY <3>5
    <3>7. policy' = [policy EXCEPT !.blocks = s]
      BY <3>1, <3>6
    <3>8. policy' \in Policies /\ policy'.blocks = s /\ policy'.assignments = policy.assignments
          /\ policy'.events = policy.events
      BY <1>2, <3>7 DEF Policies
    <3>9. Len(s) = n + 1 /\ s[n + 1] = b /\ \A i \in 1 .. n : s[i] = policy.blocks[i]
      BY <3>5, <3>6
    <3>10. \A i : i \in 1 .. n + 1 <=> i \in 1 .. n \/ i = n + 1
      BY <1>2
    <3>11. Numbered(b, n + 1)
      BY <3>4, PolicySizes DEF Numbered
    <3>12. \A i \in 1 .. Len(s) : Numbered(s[i], i)
      BY <3>9, <3>10, <3>11 DEF PolicyInv
    <3>13. s # <<>> /\ Len(s) <= MaxBlocks
      BY <1>2, <3>1, <3>9, PolicySizes
    <3>14. /\ file' \in PolicyFiles /\ line' \in 1 .. Len(file') + 1
           /\ loading' \in {"reading", "success", "not_found", "load_error", "buffer_too_small"}
      BY <1>5, <3>1
    <3>15. (\A i \in 1 .. Len(policy.blocks) : Numbered(policy.blocks[i], i))'
      BY <3>8, <3>12 DEF Numbered
    <3> HIDE DEF n, blocks
    <3>16. QED BY <3>1, <3>8, <3>13, <3>14, <3>15 DEF PolicyInv
  <2>3. QED BY <2>1, <2>2
<1>7. CASE ReadGrant
  <2>1. CASE \E status \in {"load_error", "buffer_too_small"} : Fail(status)
    BY <1>3, <2>1
  <2>2. CASE ~\E status \in {"load_error", "buffer_too_small"} : Fail(status)
    <3> DEFINE b == Len(policy.blocks)
               g == Len(policy.blocks[b].grants)
               new == [id |-> GrantId(b, g + 1), cap |-> file[line].cap]
               grants == Append(policy.blocks[b].grants, new)
    <3>1. /\ At("grant") /\ openBlock /\ g < MaxGrantsPerBlock /\ policy.events < MaxBootEvents
          /\ policy' = [policy EXCEPT !.blocks[b].grants = grants, !.events = @ + 1]
          /\ openBlock' = openBlock /\ NextLine
      <4>1. openBlock => b \in 1 .. b
        BY <1>2 DEF PolicyInv
      <4>2. openBlock => g <= MaxGrantsPerBlock /\ g \in Nat
        BY <1>2, <4>1 DEF PolicyInv, Numbered
      <4>3. QED BY <1>2, <1>7, <2>2, <4>2, PolicySizes DEF ReadGrant, PolicyInv
    <3>2. file[line].cap \in Caps
      BY <1>4, <3>1 DEF Caps
    <3>3. b \in Nat /\ b >= 1 /\ b \in 1 .. b /\ policy.blocks # <<>>
      BY <1>2, <3>1 DEF PolicyInv
    <3>4. g \in Nat /\ policy.blocks[b] \in Blocks /\ policy.blocks[b].grants \in Seq(PolicyGrants)
          /\ Numbered(policy.blocks[b], b)
      BY <1>2, <3>3 DEF PolicyInv
    <3>5. new \in PolicyGrants /\ new.id = GrantId(b, g + 1)
      <4>1. GrantId(b, g + 1) \in Ids
        <5>1. b * BlockSpan \in Nat
          BY <3>3, PolicySizes
        <5>2. QED BY <3>4, <5>1 DEF GrantId, Ids
      <4>2. QED BY <3>2, <4>1 DEF PolicyGrants
    <3> HIDE DEF new
    <3>6. PICK q \in Seq(PolicyGrants) : q = grants
      <4>1. PICK old \in Seq(PolicyGrants) : old = policy.blocks[b].grants
        BY <3>4
      <4>2. Append(old, new) \in Seq(PolicyGrants)
        BY <3>5
      <4>3. QED BY <4>1, <4>2
    <3>7. Len(q) = g + 1 /\ q[g + 1] = new /\ \A i \in 1 .. g : q[i] = policy.blocks[b].grants[i]
      BY <3>4, <3>5, <3>6, SMTT(30)
    <3>8. PICK h \in Blocks : h = [policy.blocks[b] EXCEPT !.grants = q] /\ h.grants = q
      <4>1. PICK old \in Blocks : old = policy.blocks[b]
        BY <3>4
      <4>2. [old EXCEPT !.grants = q] \in Blocks /\ [old EXCEPT !.grants = q].grants = q
        BY DEF Blocks
      <4>3. QED BY <4>1, <4>2
    <3>9. PICK s \in Seq(Blocks) : s = [policy.blocks EXCEPT ![b] = h]
      <4>1. \A t \in Seq(Blocks) : \A k \in 1 .. Len(t) : [t EXCEPT ![k] = h] \in Seq(Blocks)
        OBVIOUS
      <4>2. [policy.blocks EXCEPT ![b] = h] \in Seq(Blocks)
        BY <1>2, <3>3, <4>1, Zenon
      <4>3. QED BY <4>2
    <3>10. Len(s) = b /\ s[b] = h /\ \A i \in 1 .. b : i # b => s[i] = policy.blocks[i]
      BY <1>2, <3>3, <3>8, <3>9, ExceptSeq
    <3>11. PICK e \in Nat : e = policy.events + 1
      BY <1>2
    <3>12. policy' = [policy EXCEPT !.blocks = s, !.events = e]
      BY <3>1, <3>6, <3>8, <3>9, <3>11
    <3>13. policy' \in Policies /\ policy'.blocks = s /\ policy'.assignments = policy.assignments
           /\ policy'.events = e
      BY <1>2, <3>12 DEF Policies
    <3>14. Numbered(h, b)
      <4>1. Len(h.grants) <= MaxGrantsPerBlock
        <5>1. PICK m \in Nat : m = g /\ m < MaxGrantsPerBlock
          BY <3>1, <3>4
        <5>2. Len(h.grants) = m + 1
          BY <3>7, <3>8, <5>1
        <5>3. QED BY <5>1, <5>2, PolicySizes
      <4>2. \A i : i \in 1 .. g + 1 <=> i \in 1 .. g \/ i = g + 1
        <5>1. PICK m \in Nat : m = g
          BY <3>4
        <5>2. \A i : i \in 1 .. m + 1 <=> i \in 1 .. m \/ i = m + 1
          OBVIOUS
        <5>3. QED BY <5>1, <5>2
      <4>3. h.grants = q /\ Len(h.grants) = g + 1
        BY <3>7, <3>8
      <4>4. q[g + 1].id = GrantId(b, g + 1)
        BY <3>5, <3>7
      <4>5. \A i \in 1 .. g : q[i].id = GrantId(b, i)
        BY <3>4, <3>7 DEF Numbered
      <4>6. \A i \in 1 .. Len(h.grants) : h.grants[i].id = GrantId(b, i)
        BY <4>2, <4>3, <4>4, <4>5
      <4>7. QED BY <4>1, <4>6 DEF Numbered
    <3>15. \A i \in 1 .. Len(s) : Numbered(s[i], i)
      BY <3>10, <3>14 DEF PolicyInv
    <3>16. s # <<>> /\ Len(s) <= MaxBlocks /\ e <= MaxBootEvents
      <4>1. Len(s) >= 1 /\ Len(s) = Len(policy.blocks)
        BY <3>3, <3>10
      <4>2. s # <<>>
        BY <4>1
      <4>3. Len(s) <= MaxBlocks
        BY <4>1 DEF PolicyInv
      <4>4. QED BY <1>2, <3>1, <3>11, <4>2, <4>3, PolicySizes
    <3>17. /\ file' \in PolicyFiles /\ line' \in 1 .. Len(file') + 1
           /\ loading' \in {"reading", "success", "not_found", "load_error", "buffer_too_small"}
      BY <1>5, <3>1
    <3>18. (\A i \in 1 .. Len(policy.blocks) : Numbered(policy.blocks[i], i))'
      BY <3>13, <3>15 DEF Numbered
    <3>19. openBlock' = openBlock
      BY <3>1
    <3> HIDE DEF grants, b, g
    <3>20. QED BY <3>13, <3>16, <3>17, <3>18, <3>19 DEF PolicyInv
  <2>3. QED BY <2>1, <2>2
<1>8. CASE ReadAssign
  <2>1. CASE \E status \in {"load_error", "buffer_too_small"} : Fail(status)
    BY <1>3, <2>1
  <2>2. CASE ~\E status \in {"load_error", "buffer_too_small"} : Fail(status)
    <3> DEFINE read == file[line]
               a == [type |-> read.type, name |-> read.name, profile |-> read.profile]
               n == Len(policy.assignments)
    <3>1. /\ At("assign") /\ n < MaxAssignments /\ read.type \in PrincipalTypes
          /\ policy' = [policy EXCEPT !.assignments = Append(policy.assignments, a)]
          /\ openBlock' = openBlock /\ NextLine
      BY <1>2, <1>8, <2>2, PolicySizes DEF ReadAssign, PolicyInv
    <3>2. read \in Lines
      BY <1>4, <3>1
    <3>3. a \in Assignments
      BY <3>1, <3>2 DEF Assignments, Profiles, Names
    <3> HIDE DEF a
    <3>4. PICK s \in Seq(Assignments) : s = Append(policy.assignments, a) /\ Len(s) = n + 1
      <4>1. PICK old \in Seq(Assignments) : old = policy.assignments
        BY <1>2
      <4>2. Append(old, a) \in Seq(Assignments) /\ Len(Append(old, a)) = Len(old) + 1
        BY <3>3
      <4>3. QED BY <4>1, <4>2
    <3>5. policy' = [policy EXCEPT !.assignments = s]
      BY <3>1, <3>4
    <3>6. policy' \in Policies /\ policy'.blocks = policy.blocks /\ policy'.assignments = s
          /\ policy'.events = policy.events
      BY <1>2, <3>5 DEF Policies
    <3>7. Len(s) <= MaxAssignments
      BY <1>2, <3>1, <3>4, PolicySizes
    <3>8. /\ file' \in PolicyFiles /\ line' \in 1 .. Len(file') + 1
          /\ loading' \in {"reading", "success", "not_found", "load_error", "buffer_too_small"}
      BY <1>5, <3>1
    <3>9. QED BY <3>1, <3>6, <3>7, <3>8 DEF PolicyInv, Numbered
  <2>3. QED BY <2>1, <2>2
<1>9. CASE CloseBlock
  BY <1>5, <1>9 DEF CloseBlock, PolicyInv, Numbered
<1>10. CASE MeetComment
  BY <1>10 DEF MeetComment, policyVars, PolicyInv, Numbered
<1>11. CASE RejectLine
  BY <1>3, <1>11 DEF RejectLine
<1>12. CASE ReachEnd
  BY <1>12 DEF ReachEnd, PolicyInv, Numbered
<1>13. QED BY <1>6, <1>7, <1>8, <1>9, <1>10, <1>11, <1>12 DEF PolicyNext

-----------------------------------------------------------------------------
(* The grants of a context, one block after the other.                     *)

ActiveInOrder(s) ==
  /\ \A i, j \in 1 .. Len(s) : i < j => s[i].id < s[j].id
  /\ \A i \in 1 .. Len(s) : s[i].state = "ACTIVE"

(* The contexts that the loader makes.                                     *)
Loaded(context) ==
  /\ context.blocks \in Seq(Blocks) /\ context.assignments \in Seq(Assignments)
  /\ \A b \in 1 .. Len(context.blocks) : Numbered(context.blocks[b], b)

GrantsOf(block) ==
  [g \in DOMAIN block.grants |->
     [id |-> block.grants[g].id, cap |-> block.grants[g].cap,
      state |-> "ACTIVE", type |-> block.type, principal |-> block.id % IdSpan]]

Below(s, bound) == \A i \in 1 .. Len(s) : s[i].id < bound
Above(s, bound) == \A i \in 1 .. Len(s) : s[i].id > bound

LEMMA GrantsOfBlock ==
  ASSUME NEW block \in Blocks, NEW b \in Nat, Numbered(block, b)
  PROVE  /\ GrantsOf(block) \in Seq(Grants) /\ ActiveInOrder(GrantsOf(block))
         /\ Above(GrantsOf(block), b * BlockSpan) /\ Below(GrantsOf(block), (b + 1) * BlockSpan)
<1> DEFINE s == GrantsOf(block)
           n == Len(block.grants)
<1>1. /\ block.grants \in Seq(PolicyGrants) /\ n \in Nat /\ DOMAIN block.grants = 1 .. n
      /\ block.type \in HolderTypes /\ block.id \in Nat
  BY DEF Blocks, HolderTypes
<1>2. \A g \in 1 .. n : block.grants[g] \in PolicyGrants
  BY <1>1
<1>3. block.id % IdSpan \in Nat
  BY <1>1, RegistryAssumption
<1>4. ASSUME NEW g \in 1 .. n
      PROVE  /\ s[g] \in Grants /\ s[g].id = GrantId(b, g) /\ s[g].state = "ACTIVE"
  BY <1>1, <1>2, <1>3 DEF Grants, PolicyGrants, GrantStates, GrantsOf, Numbered
<1>5. s \in Seq(Grants) /\ Len(s) = n
  <2>1. s = [g \in 1 .. n |-> s[g]]
    BY <1>1 DEF GrantsOf
  <2>2. s \in [1 .. n -> Grants]
    BY <1>4, <2>1
  <2>3. s \in Seq(Grants)
    BY <1>1, <2>2
  <2>4. DOMAIN s = 1 .. n
    BY <2>1
  <2>5. QED BY <1>1, <2>3, <2>4
<1> HIDE DEF s
<1>6. PICK base \in Nat : base = b * BlockSpan /\ (b + 1) * BlockSpan = base + BlockSpan
  BY PolicySizes
<1>7. \A g \in 1 .. n : s[g].id = base + g /\ g <= MaxGrantsPerBlock
  BY <1>1, <1>4, <1>6, PolicySizes DEF GrantId, Numbered
<1>8. \A g \in 1 .. n : base + g > base /\ base + g < base + BlockSpan
  BY <1>1, <1>7, PolicySizes
<1>9. \A g, h \in 1 .. n : g < h => base + g < base + h
  BY <1>1
<1>10. ActiveInOrder(s)
  BY <1>4, <1>5, <1>7, <1>9 DEF ActiveInOrder
<1>11. Above(s, base) /\ Below(s, base + BlockSpan)
  BY <1>5, <1>7, <1>8 DEF Above, Below
<1>12. QED BY <1>5, <1>6, <1>10, <1>11 DEF s

LEMMA ImportedInOrder ==
  ASSUME NEW context, Loaded(context)
  PROVE  ImportedGrants(context) \in Seq(Grants) /\ ActiveInOrder(ImportedGrants(context))
<1> DEFINE blocks == context.blocks
           n == Len(blocks)
           seqs == [b \in 1 .. n |-> GrantsOf(blocks[b])]
<1>1. /\ n \in Nat /\ DOMAIN blocks = 1 .. n
      /\ \A b \in 1 .. n : blocks[b] \in Blocks /\ Numbered(blocks[b], b)
  BY DEF Loaded
<1>2. ImportedGrants(context) = FlattenSeq(seqs)
  BY <1>1 DEF ImportedGrants, GrantsOf
<1>3. \A b \in 1 .. n : /\ seqs[b] \in Seq(Grants) /\ ActiveInOrder(seqs[b])
                        /\ Above(seqs[b], b * BlockSpan) /\ Below(seqs[b], (b + 1) * BlockSpan)
  BY <1>1, GrantsOfBlock
<1>4. seqs \in Seq(Seq(Grants)) /\ Len(seqs) = n
  <2>1. seqs \in [1 .. n -> Seq(Grants)]
    <3> HIDE DEF blocks
    <3>1. \A b \in 1 .. n : GrantsOf(blocks[b]) \in Seq(Grants)
      BY <1>3
    <3>2. QED BY <3>1
  <2> HIDE DEF seqs, blocks
  <2>2. seqs \in Seq(Seq(Grants))
    BY <1>1, <2>1
  <2>3. QED BY <1>1, <2>1, <2>2
<1> HIDE DEF seqs, blocks
<1>5. PICK f : FlattenRun(Grants, seqs, f)
  BY <1>4, FlattenRuns
<1> DEFINE Good == {k \in 0 .. n : ActiveInOrder(f[k]) /\ Below(f[k], (k + 1) * BlockSpan)}
<1>6. 0 \in Good
  BY <1>1, <1>5 DEF FlattenRun, ActiveInOrder, Below
<1>7. ASSUME NEW k \in 1 .. n, k - 1 \in Good
      PROVE  k \in Good
  <2>1. PICK p, q \in Seq(Grants) : p = f[k - 1] /\ q = seqs[k]
    <3>1. k \in 1 .. n /\ k - 1 \in 0 .. n
      BY <1>1
    <3>2. f \in [0 .. n -> Seq(Grants)]
      BY <1>4, <1>5 DEF FlattenRun
    <3>3. f[k - 1] \in Seq(Grants) /\ seqs[k] \in Seq(Grants)
      BY <1>3, <3>1, <3>2
    <3>4. QED BY <3>3
  <2>2. f[k] = p \o q
    BY <1>4, <1>5, <2>1 DEF FlattenRun
  <2>3. PICK low \in Nat : low = k * BlockSpan /\ (k + 1) * BlockSpan = low + BlockSpan
    BY <1>1, PolicySizes
  <2>4. k \in Nat /\ (k - 1) + 1 = k /\ k \in 0 .. n
    BY <1>1
  <2>5. /\ ActiveInOrder(p) /\ Below(p, low) /\ ActiveInOrder(q)
        /\ Above(q, low) /\ Below(q, low + BlockSpan)
    BY <1>3, <1>7, <2>1, <2>3, <2>4
  <2>6. PICK t \in Seq(Grants) : t = p \o q
    <3>1. p \o q \in Seq(Grants)
      OBVIOUS
    <3>2. QED BY <3>1
  <2>7. PICK a, b \in Nat : a = Len(p) /\ b = Len(q)
    OBVIOUS
  <2>8. /\ Len(t) = a + b /\ \A i \in 1 .. a : t[i] = p[i]
        /\ \A i \in 1 .. b : t[a + i] = q[i]
    BY <2>6, <2>7
  <2>9. \A i \in 1 .. a + b : i \in 1 .. a \/ (i > a /\ i - a \in 1 .. b /\ a + (i - a) = i)
    OBVIOUS
  <2>10. /\ \A i \in 1 .. a : p[i].id \in Nat
         /\ \A i \in 1 .. b : q[i].id \in Nat
    <3>1. (\A i \in 1 .. a : p[i] \in Grants) /\ (\A i \in 1 .. b : q[i] \in Grants)
      BY <2>7
    <3>2. \A g \in Grants : g.id \in Nat
      BY DEF Grants, Ids
    <3>3. QED BY <3>1, <3>2
  <2>11. ASSUME NEW i \in 1 .. a + b, NEW j \in 1 .. a + b, i < j
         PROVE  t[i].id < t[j].id
    <3>1. CASE i \in 1 .. a /\ j \in 1 .. a
      BY <2>5, <2>7, <2>8, <2>11, <3>1 DEF ActiveInOrder
    <3>2. CASE i \in 1 .. a /\ ~(j \in 1 .. a)
      <4>1. PICK m \in 1 .. b : j = a + m
        BY <2>9, <3>2
      <4>2. PICK x, y \in Nat : x = p[i].id /\ y = q[m].id
        BY <2>10, <3>2
      <4>3. x < low /\ low < y
        BY <2>5, <2>7, <3>2, <4>2 DEF Above, Below
      <4>4. t[i].id = x /\ t[j].id = y
        BY <2>8, <3>2, <4>1, <4>2
      <4>5. QED BY <4>3, <4>4
    <3>3. CASE ~(i \in 1 .. a)
      <4>1. PICK l \in 1 .. b, m \in 1 .. b : i = a + l /\ j = a + m /\ l < m
        <5>1. ~(j \in 1 .. a)
          BY <2>11, <3>3
        <5>2. i - a \in 1 .. b /\ j - a \in 1 .. b /\ i = a + (i - a) /\ j = a + (j - a) /\ i - a < j - a
          BY <2>9, <2>11, <3>3, <5>1
        <5>3. QED BY <5>2
      <4>2. QED BY <2>5, <2>7, <2>8, <4>1 DEF ActiveInOrder
    <3>4. QED BY <3>1, <3>2, <3>3
  <2>12. ASSUME NEW i \in 1 .. a + b
         PROVE  t[i].state = "ACTIVE" /\ t[i].id < low + BlockSpan
    <3>1. CASE i \in 1 .. a
      <4>1. PICK x \in Nat : x = p[i].id
        BY <2>10, <3>1
      <4>2. x < low
        BY <2>5, <2>7, <3>1, <4>1 DEF Below
      <4>3. x < low + BlockSpan
        BY <4>2, PolicySizes
      <4>4. QED BY <2>5, <2>7, <2>8, <3>1, <4>1, <4>3 DEF ActiveInOrder
    <3>2. CASE ~(i \in 1 .. a)
      <4>1. PICK m \in 1 .. b : i = a + m
        BY <2>9, <3>2
      <4>2. QED BY <2>5, <2>7, <2>8, <4>1 DEF ActiveInOrder, Below
    <3>3. QED BY <3>1, <3>2
  <2>13. ActiveInOrder(t) /\ Below(t, low + BlockSpan)
    BY <2>8, <2>11, <2>12 DEF ActiveInOrder, Below
  <2>14. QED BY <2>2, <2>3, <2>4, <2>6, <2>13
<1>8. \A k \in 0 .. n : k \in Good
  <2> HIDE DEF Good
  <2>1. QED BY <1>1, <1>6, <1>7, NatInductionSet
<1>9. QED BY <1>1, <1>2, <1>4, <1>5, <1>8 DEF FlattenRun

-----------------------------------------------------------------------------
(* The import: the runs of its fold, and the ledger at each grant.         *)

Imports == [reg : Registries, ok : BOOLEAN]

Fresh(context) ==
  [reg |-> [EmptyRegistry EXCEPT !.context = [blocks |-> context.blocks,
                                              assignments |-> context.assignments]],
   ok |-> TRUE]

(* A registry with one grant more, and its capability on record.           *)
Enlarged(added, reg, g) ==
  /\ added \in Registries /\ added.events = reg.events /\ added.context = reg.context
  /\ added.records = Append(reg.records, g.cap) /\ added.grants = Append(reg.grants, g)
  /\ added.nextGrant = IF g.id >= reg.nextGrant THEN g.id + 1 ELSE reg.nextGrant

ImportCases(import, g) ==
  \/ ImportGrant(import, g) = [import EXCEPT !.ok = FALSE]
     /\ (~import.ok \/ Len(import.reg.records) = MaxRecords \/ Len(import.reg.grants) = MaxGrants)
  \/ /\ import.ok /\ Len(import.reg.records) # MaxRecords /\ Len(import.reg.grants) # MaxGrants
     /\ \E added \in Registries :
          /\ Enlarged(added, import.reg, g)
          /\ ImportGrant(import, g) = [reg |-> AppendEvent(added, "IMPORTED", g), ok |-> ~LedgerFull(added)]

LEMMA ImportingGrant ==
  ASSUME NEW import \in Imports, NEW g \in Grants
  PROVE  ImportCases(import, g) /\ ImportGrant(import, g) \in Imports
<1>1. import.reg \in Registries /\ import.ok \in BOOLEAN
  BY DEF Imports
<1>2. PICK reg \in Registries : reg = import.reg
  BY <1>1
<1>3. /\ reg.records \in Seq(Caps) /\ reg.grants \in Seq(Grants) /\ reg.nextGrant \in Ids
      /\ reg.events \in Seq(Events)
  BY RegistryFacts
<1>4. g.id \in Ids /\ g.cap \in Caps
  BY DEF Grants
<1>5. CASE ~import.ok \/ Len(import.reg.records) = MaxRecords \/ Len(import.reg.grants) = MaxGrants
  <2>1. ImportGrant(import, g) = [import EXCEPT !.ok = FALSE]
    BY <1>5 DEF ImportGrant
  <2>2. [import EXCEPT !.ok = FALSE] \in Imports
    BY DEF Imports
  <2>3. QED BY <1>5, <2>1, <2>2 DEF ImportCases
<1>6. CASE ~(~import.ok \/ Len(import.reg.records) = MaxRecords \/ Len(import.reg.grants) = MaxGrants)
  <2> DEFINE added == [reg EXCEPT !.records = Append(@, g.cap), !.grants = Append(@, g),
                                  !.nextGrant = IF g.id >= @ THEN g.id + 1 ELSE @]
  <2>1. ImportGrant(import, g) = [reg |-> AppendEvent(added, "IMPORTED", g), ok |-> ~LedgerFull(added)]
    BY <1>2, <1>6 DEF ImportGrant
  <2>2. PICK records \in Seq(Caps) : records = Append(reg.records, g.cap)
    <3>1. Append(reg.records, g.cap) \in Seq(Caps)
      BY <1>3, <1>4
    <3>2. QED BY <3>1
  <2>3. PICK grants \in Seq(Grants) : grants = Append(reg.grants, g)
    <3>1. Append(reg.grants, g) \in Seq(Grants)
      BY <1>3
    <3>2. QED BY <3>1
  <2>4. PICK next \in Ids : next = IF g.id >= reg.nextGrant THEN g.id + 1 ELSE reg.nextGrant
    BY <1>3, <1>4 DEF Ids
  <2>5. added = [reg EXCEPT !.records = records, !.grants = grants, !.nextGrant = next]
    BY <2>2, <2>3, <2>4
  <2>6. PICK new \in Registries : new = added
    BY <2>5 DEF Registries
  <2>7. /\ new.events = reg.events /\ new.context = reg.context
        /\ new.records = records /\ new.grants = grants /\ new.nextGrant = next
    BY <2>5, <2>6 DEF Registries
  <2> HIDE DEF added
  <2>8. Enlarged(new, reg, g)
    BY <2>2, <2>3, <2>4, <2>7 DEF Enlarged
  <2>9. ImportCases(import, g)
    BY <1>2, <1>6, <2>1, <2>6, <2>8 DEF ImportCases
  <2>10. AppendEvent(new, "IMPORTED", g) \in Registries
    <3>1. CASE LedgerFull(new)
      BY <3>1 DEF AppendEvent
    <3>2. CASE ~LedgerFull(new)
      <4> DEFINE e == [kind |-> "IMPORTED", grant |-> g.id, cap |-> g.cap]
      <4>1. e \in Events
        BY <1>4 DEF Events, Kinds
      <4> HIDE DEF e
      <4>2. PICK s \in Seq(Events) : s = Append(reg.events, e)
        <5>1. Append(reg.events, e) \in Seq(Events)
          BY <1>3, <4>1
        <5>2. QED BY <5>1
      <4>3. AppendEvent(new, "IMPORTED", g) = [new EXCEPT !.events = s]
        BY <2>7, <3>2, <4>2 DEF AppendEvent, e
      <4>4. QED BY <4>3 DEF Registries
    <3>3. QED BY <3>1, <3>2
  <2>11. PICK full \in BOOLEAN : full = ~LedgerFull(new)
    <3>1. CASE LedgerFull(new)
      BY <3>1, Zenon
    <3>2. CASE ~LedgerFull(new)
      BY <3>2, Zenon
    <3>3. QED BY <3>1, <3>2
  <2>12. QED BY <2>1, <2>6, <2>9, <2>10, <2>11 DEF Imports
<1>7. QED BY <1>5, <1>6

ImportRun(context, s, f) ==
  /\ f \in [0 .. Len(s) -> Imports]
  /\ f[0] = Fresh(context)
  /\ \A k \in 1 .. Len(s) : f[k] = ImportGrant(f[k - 1], s[k])
  /\ ImportBootstrapContext(context) = f[Len(s)]

LEMMA ImportRuns ==
  ASSUME NEW context, context.blocks \in Seq(Blocks), context.assignments \in Seq(Assignments),
         NEW s \in Seq(Grants), s = ImportedGrants(context)
  PROVE  \E f : ImportRun(context, s, f)
<1> DEFINE n == Len(s)
           base == Fresh(context)
           F == [t \in Imports |-> [g \in Grants |-> ImportGrant(t, g)]]
           Folded(it) == it = [x \in SUBSET (DOMAIN s) |->
                                 IF x = {} THEN base
                                 ELSE ImportGrant(it[x \ {Max(x)}], s[Max(x)])]
           fold == CHOOSE it : Folded(it)
           f == [k \in 0 .. n |-> fold[1 .. k]]
<1>1. n \in Nat /\ DOMAIN s = 1 .. n /\ (\A i \in 1 .. n : s[i] \in Grants)
  OBVIOUS
<1>2. base \in Imports
  <2> DEFINE c == [blocks |-> context.blocks, assignments |-> context.assignments]
  <2>1. c \in Contexts
    BY DEF Contexts
  <2>2. Ledger([EmptyRegistry EXCEPT !.context = c])
    BY <2>1, EmptyLedger
  <2>3. QED BY <2>2 DEF Imports, Ledger, Fresh
<1>3. \A t \in Imports, g \in Grants : ImportGrant(t, g) \in Imports
  BY ImportingGrant
<1>4. \E it : Folded(it)
  <2>1. F \in [Imports -> [Grants -> Imports]]
    BY <1>3
  <2>2. PICK it : FoldsWithin(Imports, Grants, F, base, s, it)
    <3> HIDE DEF F, base
    <3>1. QED BY <1>2, <2>1, FoldValues
  <2>3. Folded(it)
    <3>1. \A t \in Imports, g \in Grants : F[t][g] = ImportGrant(t, g)
      OBVIOUS
    <3> HIDE DEF F, base
    <3>2. \A x \in SUBSET (DOMAIN s) :
            x # {} => F[it[x \ {Max(x)}]][s[Max(x)]] = ImportGrant(it[x \ {Max(x)}], s[Max(x)])
      BY <2>2, <3>1 DEF FoldsWithin
    <3>3. QED BY <2>2, <3>2 DEF FoldsWithin, Folds
  <2>4. QED BY <2>3
<1>5. Folded(fold)
  <2> HIDE DEF Folded
  <2>1. QED BY <1>4
<1>6. ImportBootstrapContext(context) = fold[1 .. n]
  BY <1>1, Zenon DEF ImportBootstrapContext, FoldLeft, MapThenFoldSet, Fresh
<1> HIDE DEF base
<1>7. fold[{}] = base /\ \A k \in 1 .. n : fold[1 .. k] = ImportGrant(fold[1 .. k - 1], s[k])
  <2> HIDE DEF fold
  <2>1. fold[{}] = base
    BY <1>5
  <2>2. ASSUME NEW k \in 1 .. n
        PROVE  fold[1 .. k] = ImportGrant(fold[1 .. k - 1], s[k])
    <3>1. 1 .. k \in SUBSET (DOMAIN s) /\ 1 .. k # {}
          /\ Max(1 .. k) = k /\ (1 .. k) \ {k} = 1 .. k - 1
      BY <1>1, FoldPrefixes
    <3>2. QED BY <1>5, <3>1
  <2>3. QED BY <2>1, <2>2
<1> HIDE DEF fold
<1>8. \A k \in 0 .. n : fold[1 .. k] \in Imports
  <2> DEFINE Typed == {k \in 0 .. n : fold[1 .. k] \in Imports}
  <2>1. 0 \in Typed
    BY <1>1, <1>2, <1>7, FoldPrefixes
  <2>2. \A k \in 1 .. n : k - 1 \in Typed => k \in Typed
    BY <1>1, <1>3, <1>7
  <2>3. \A k \in 0 .. n : k \in Typed
    <3> HIDE DEF Typed
    <3>1. QED BY <1>1, <2>1, <2>2, NatInductionSet
  <2>4. QED BY <2>3
<1>9. ImportRun(context, s, f)
  <2>1. f \in [0 .. n -> Imports]
    BY <1>8
  <2>2. f[0] = base
    BY <1>1, <1>7, FoldPrefixes
  <2>3. ASSUME NEW k \in 1 .. n
        PROVE  f[k] = ImportGrant(f[k - 1], s[k])
    <3>1. k \in 0 .. n /\ k - 1 \in 0 .. n
      BY <1>1
    <3>2. QED BY <1>7, <3>1
  <2>4. ImportBootstrapContext(context) = f[n]
    BY <1>1, <1>6
  <2>5. QED BY <2>1, <2>2, <2>3, <2>4 DEF ImportRun, base
<1>10. QED BY <1>9

(* What the import has made of the first k grants.                         *)
Carried(t, s, k) ==
  /\ t.reg.nextGrant = IF k = 0 THEN 1 ELSE s[k].id + 1
  /\ Len(t.reg.records) = k /\ Len(t.reg.grants) = k /\ Len(t.reg.events) = k
  /\ \A i \in 1 .. k : /\ t.reg.grants[i] = s[i]
                       /\ t.reg.events[i] = [kind |-> "IMPORTED", grant |-> s[i].id, cap |-> s[i].cap]

Purely(reg) ==
  /\ \A i \in 1 .. Len(reg.grants) : reg.grants[i].state = "ACTIVE"
  /\ \A k \in 1 .. Len(reg.events) : reg.events[k].kind = "IMPORTED"

Fits(k) == k <= MaxRecords /\ k <= MaxGrants /\ k <= MaxEvents

ImportedSoFar(t, s, k) ==
  /\ Ledger(t.reg) /\ Purely(t.reg)
  /\ t.ok => Carried(t, s, k)
  /\ Fits(k) => t.ok

LEMMA ImportStep ==
  ASSUME NEW s \in Seq(Grants), ActiveInOrder(s), NEW k \in 1 .. Len(s),
         NEW t \in Imports, ImportedSoFar(t, s, k - 1)
  PROVE  /\ ImportedSoFar(ImportGrant(t, s[k]), s, k)
         /\ ImportGrant(t, s[k]).reg.context = t.reg.context
<1> DEFINE u == ImportGrant(t, s[k])
<1>1. /\ Len(s) \in Nat /\ k \in Nat /\ k >= 1 /\ k - 1 \in Nat
      /\ MaxRecords \in Nat /\ MaxGrants \in Nat /\ MaxEvents \in Nat
  BY RegistryAssumption
<1>2. PICK g \in Grants : g = s[k] /\ g.state = "ACTIVE"
  BY DEF ActiveInOrder
<1>3. PICK reg \in Registries : reg = t.reg
  BY DEF Imports
<1>4. /\ reg.records \in Seq(Caps) /\ reg.grants \in Seq(Grants) /\ reg.nextGrant \in Nat
      /\ Len(reg.records) \in Nat /\ Len(reg.grants) \in Nat /\ Len(reg.events) \in Nat
      /\ g.id \in Nat /\ g.id >= 1 /\ t.ok \in BOOLEAN
  <2>1. /\ reg.records \in Seq(Caps) /\ reg.grants \in Seq(Grants) /\ reg.nextGrant \in Ids
        /\ Len(reg.records) \in Nat /\ Len(reg.grants) \in Nat /\ Len(reg.events) \in Nat
    BY RegistryFacts
  <2>2. g.id \in Ids
    BY DEF Grants
  <2>3. t.ok \in BOOLEAN
    BY DEF Imports
  <2>4. QED BY <2>1, <2>2, <2>3 DEF Ids
<1>5. Ledger(reg) /\ Purely(reg) /\ (t.ok => Carried(t, s, k - 1)) /\ (Fits(k - 1) => t.ok)
  BY <1>3 DEF ImportedSoFar
<1>6. ImportCases(t, g)
  BY ImportingGrant
<1>7. Fits(k) => Fits(k - 1)
  BY <1>1 DEF Fits
<1>8. CASE ImportGrant(t, g) = [t EXCEPT !.ok = FALSE]
           /\ (~t.ok \/ Len(t.reg.records) = MaxRecords \/ Len(t.reg.grants) = MaxGrants)
  <2>1. u.reg = reg /\ u.ok = FALSE
    BY <1>2, <1>3, <1>8 DEF Imports
  <2>2. ~Fits(k)
    <3> SUFFICES ASSUME Fits(k) PROVE FALSE
      OBVIOUS
    <3>1. t.ok /\ Carried(t, s, k - 1)
      BY <1>5, <1>7
    <3>2. Len(reg.records) = k - 1 /\ Len(reg.grants) = k - 1
      BY <1>3, <3>1 DEF Carried
    <3>3. QED BY <1>1, <1>3, <1>8, <3>1, <3>2 DEF Fits
  <2> HIDE DEF u
  <2>3. ImportedSoFar(u, s, k) /\ u.reg.context = t.reg.context
    BY <1>3, <1>5, <2>1, <2>2 DEF ImportedSoFar
  <2>4. QED BY <2>3 DEF u
<1>9. CASE ~(ImportGrant(t, g) = [t EXCEPT !.ok = FALSE]
             /\ (~t.ok \/ Len(t.reg.records) = MaxRecords \/ Len(t.reg.grants) = MaxGrants))
  <2>1. PICK added \in Registries :
          /\ t.ok /\ Len(reg.records) # MaxRecords /\ Len(reg.grants) # MaxGrants
          /\ Enlarged(added, reg, g)
          /\ u = [reg |-> AppendEvent(added, "IMPORTED", g), ok |-> ~LedgerFull(added)]
    BY <1>2, <1>3, <1>6, <1>9 DEF ImportCases
  <2>2. PICK new : new = AppendEvent(added, "IMPORTED", g)
    OBVIOUS
  <2>3. u.reg = new /\ u.ok = ~LedgerFull(added)
    BY <2>1, <2>2
  <2> HIDE DEF u
  <2>4. /\ Carried(t, s, k - 1)
        /\ Len(reg.records) = k - 1 /\ Len(reg.grants) = k - 1 /\ Len(reg.events) = k - 1
        /\ reg.nextGrant = IF k - 1 = 0 THEN 1 ELSE s[k - 1].id + 1
    BY <1>3, <1>5, <2>1 DEF Carried
  <2>5. g.id >= reg.nextGrant
    <3>1. CASE k = 1
      BY <1>1, <1>4, <2>4, <3>1
    <3>2. CASE k # 1
      <4>1. k - 1 \in 1 .. Len(s) /\ k - 1 < k /\ k - 1 # 0
        BY <1>1, <3>2
      <4>2. PICK x \in Nat : x = s[k - 1].id
        <5>1. s[k - 1] \in Grants
          BY <4>1
        <5>2. QED BY <5>1 DEF Grants, Ids
      <4>3. x < g.id
        BY <1>2, <4>1, <4>2 DEF ActiveInOrder
      <4>4. QED BY <1>4, <2>4, <4>1, <4>2, <4>3
    <3>3. QED BY <3>1, <3>2
  <2>6. /\ added.nextGrant = g.id + 1 /\ added.grants = Append(reg.grants, g)
        /\ added.records = Append(reg.records, g.cap) /\ added.events = reg.events
        /\ added.context = reg.context
    BY <2>1, <2>5 DEF Enlarged
  <2>7. Len(reg.grants) < MaxGrants /\ Len(reg.records) < MaxRecords /\ Len(reg.events) <= MaxEvents
    BY <1>1, <1>4, <1>5, <2>1 DEF Ledger, Bounded
  <2>8. /\ Len(added.records) = Len(reg.records) + 1 /\ added.records[Len(reg.records) + 1] = g.cap
        /\ \A i \in 1 .. Len(reg.records) : added.records[i] = reg.records[i]
    BY <1>4, <2>6
  <2>9. added.records \in Seq(Caps) /\ DOMAIN added.records = 1 .. Len(added.records)
        /\ DOMAIN reg.records = 1 .. Len(reg.records)
    BY <1>4 DEF Registries
  <2>10. ToSet(reg.records) \subseteq ToSet(added.records) /\ Known(added, g.cap)
         /\ Len(added.records) <= MaxRecords
    <3>1. \A i \in 1 .. Len(reg.records) : i \in 1 .. Len(added.records)
      BY <1>4, <2>8
    <3>2. Len(reg.records) + 1 \in 1 .. Len(added.records)
      BY <1>4, <2>8
    <3>3. ToSet(reg.records) \subseteq ToSet(added.records)
      BY <2>8, <2>9, <3>1 DEF ToSet
    <3>4. Known(added, g.cap)
      BY <2>8, <2>9, <3>2 DEF ToSet, Known
    <3>5. QED BY <1>1, <1>4, <2>7, <2>8, <3>3, <3>4
  <2>11. "IMPORTED" \in LawfulStart /\ "IMPORTED" \in Kinds
    BY DEF LawfulStart, Kinds
  <2>12. Ledger(new)
    BY <1>2, <1>5, <2>2, <2>5, <2>6, <2>7, <2>10, <2>11, NewGrant
  <2>13. Len(added.events) <= MaxEvents /\ Len(added.events) = k - 1
    BY <2>4, <2>6, <2>7
  <2>14. /\ new \in Registries
         /\ new.records = added.records /\ new.grants = added.grants
         /\ new.nextGrant = added.nextGrant /\ new.context = added.context
         /\ Len(added.events) < MaxEvents =>
              /\ Extends(new.events, added.events)
              /\ new.events[Len(added.events) + 1] = [kind |-> "IMPORTED", grant |-> g.id, cap |-> g.cap]
         /\ Len(added.events) >= MaxEvents => new = added
    BY <2>2, <2>11, <2>13, AppendedEvent
  <2>15. Len(new.grants) = k /\ new.grants[k] = g /\ \A i \in 1 .. k - 1 : new.grants[i] = reg.grants[i]
    BY <1>1, <1>4, <2>4, <2>6, <2>14
  <2>16. \A i : i \in 1 .. k <=> i \in 1 .. k - 1 \/ i = k
    BY <1>1
  <2>17. new.context = t.reg.context
    BY <1>3, <2>6, <2>14
  <2>18. \A i \in 1 .. Len(new.grants) : new.grants[i].state = "ACTIVE"
    BY <1>2, <1>5, <2>4, <2>15, <2>16 DEF Purely
  <2>19. CASE k - 1 < MaxEvents
    <3>1. /\ Len(new.events) = k /\ \A i \in 1 .. k - 1 : new.events[i] = reg.events[i]
          /\ new.events[k] = [kind |-> "IMPORTED", grant |-> g.id, cap |-> g.cap]
      BY <1>1, <2>6, <2>13, <2>14, <2>19 DEF Extends
    <3>2. Purely(new)
      <4>1. \A i \in 1 .. k - 1 : new.events[i].kind = "IMPORTED"
        BY <1>5, <2>4, <3>1 DEF Purely
      <4>2. new.events[k].kind = "IMPORTED"
        BY <3>1
      <4>3. \A i \in 1 .. Len(new.events) : new.events[i].kind = "IMPORTED"
        BY <2>16, <3>1, <4>1, <4>2
      <4>4. QED BY <2>18, <4>3 DEF Purely
    <3>3. u.ok
      <4>1. ~LedgerFull(added)
        BY <1>1, <2>13, <2>19 DEF LedgerFull
      <4>2. QED BY <2>3, <4>1, Zenon
    <3>4. \A i \in 1 .. k : /\ new.grants[i] = s[i]
                            /\ new.events[i] = [kind |-> "IMPORTED", grant |-> s[i].id, cap |-> s[i].cap]
      BY <1>2, <1>3, <2>4, <2>15, <2>16, <3>1 DEF Carried
    <3>5. Len(new.records) = k /\ new.nextGrant = s[k].id + 1 /\ k # 0
      BY <1>1, <1>2, <2>4, <2>6, <2>8, <2>14
    <3>6. Carried(u, s, k)
      BY <2>3, <2>15, <3>1, <3>4, <3>5 DEF Carried
    <3>7. ImportedSoFar(u, s, k)
      BY <2>3, <2>12, <3>2, <3>3, <3>6 DEF ImportedSoFar
    <3>8. QED BY <2>3, <2>17, <3>7 DEF u
  <2>20. CASE ~(k - 1 < MaxEvents)
    <3>1. new = added /\ ~Fits(k)
      BY <1>1, <2>13, <2>14, <2>20 DEF Fits
    <3>2. ~u.ok
      <4>1. LedgerFull(added)
        BY <1>1, <2>13, <2>20 DEF LedgerFull
      <4>2. QED BY <2>3, <4>1, Zenon
    <3>3. Purely(new)
      BY <1>5, <2>6, <2>18, <3>1 DEF Purely
    <3>4. ImportedSoFar(u, s, k)
      BY <2>3, <2>12, <3>1, <3>2, <3>3 DEF ImportedSoFar
    <3>5. QED BY <2>3, <2>17, <3>4 DEF u
  <2>21. QED BY <2>19, <2>20
<1>10. QED BY <1>8, <1>9

(* The manager's tables after an import.                                   *)
LEMMA ImportOutcome ==
  ASSUME NEW context, Loaded(context)
  PROVE  LET import == ImportBootstrapContext(context)
             s == ImportedGrants(context)
         IN  /\ import \in Imports
             /\ ImportedSoFar(import, s, Len(s))
             /\ import.reg.context = [blocks |-> context.blocks, assignments |-> context.assignments]
<1> DEFINE c == [blocks |-> context.blocks, assignments |-> context.assignments]
<1>1. PICK s \in Seq(Grants) : s = ImportedGrants(context) /\ ActiveInOrder(s)
  BY ImportedInOrder
<1>2. PICK f : ImportRun(context, s, f)
  <2>1. context.blocks \in Seq(Blocks) /\ context.assignments \in Seq(Assignments)
    BY DEF Loaded
  <2>2. QED BY <1>1, <2>1, ImportRuns
<1>3. PICK n \in Nat : n = Len(s)
  OBVIOUS
<1>4. /\ f \in [0 .. n -> Imports] /\ f[0] = Fresh(context)
      /\ \A k \in 1 .. n : f[k] = ImportGrant(f[k - 1], s[k])
      /\ ImportBootstrapContext(context) = f[n]
  BY <1>2, <1>3 DEF ImportRun
<1>5. c \in Contexts
  BY DEF Contexts, Loaded
<1> DEFINE Good == {k \in 0 .. n : ImportedSoFar(f[k], s, k) /\ f[k].reg.context = c}
<1>6. 0 \in Good
  <2>1. f[0].reg = [EmptyRegistry EXCEPT !.context = c] /\ f[0].ok
    BY <1>4 DEF Fresh
  <2>2. Ledger(f[0].reg)
    BY <1>5, <2>1, EmptyLedger
  <2> HIDE DEF c
  <2>3. /\ f[0].reg.records = <<>> /\ f[0].reg.grants = <<>> /\ f[0].reg.events = <<>>
        /\ f[0].reg.nextGrant = 1 /\ f[0].reg.context = c
    BY <2>1 DEF EmptyRegistry
  <2>4. Purely(f[0].reg) /\ Carried(f[0], s, 0)
    <3>1. Len(f[0].reg.records) = 0 /\ Len(f[0].reg.grants) = 0 /\ Len(f[0].reg.events) = 0
      BY <2>3
    <3>2. Purely(f[0].reg)
      BY <3>1 DEF Purely
    <3>3. Carried(f[0], s, 0)
      BY <2>3, <3>1 DEF Carried
    <3>4. QED BY <3>2, <3>3
  <2>5. ImportedSoFar(f[0], s, 0)
    BY <2>1, <2>2, <2>4 DEF ImportedSoFar
  <2>6. 0 \in 0 .. n
    OBVIOUS
  <2>7. QED BY <2>3, <2>5, <2>6
<1>7. ASSUME NEW k \in 1 .. n, k - 1 \in Good
      PROVE  k \in Good
  <2>1. k \in 0 .. n /\ k - 1 \in 0 .. n /\ k \in 1 .. Len(s)
    BY <1>3
  <2>2. PICK t \in Imports : t = f[k - 1]
    BY <1>4, <2>1
  <2>3. ImportedSoFar(t, s, k - 1) /\ t.reg.context = c
    BY <1>7, <2>2
  <2>4. f[k] = ImportGrant(t, s[k])
    BY <1>4, <2>2
  <2>5. ImportedSoFar(f[k], s, k) /\ f[k].reg.context = t.reg.context
    BY <1>1, <2>1, <2>3, <2>4, ImportStep
  <2>6. QED BY <2>1, <2>3, <2>5
<1>8. \A k \in 0 .. n : k \in Good
  <2> HIDE DEF Good
  <2>1. QED BY <1>6, <1>7, NatInductionSet
<1>9. n \in 0 .. n
  OBVIOUS
<1>10. f[n] \in Imports /\ ImportedSoFar(f[n], s, n) /\ f[n].reg.context = c
  BY <1>4, <1>8, <1>9
<1>11. QED BY <1>1, <1>3, <1>4, <1>10

-----------------------------------------------------------------------------
(* Mailboxes that are empty, and that hold one message.                    *)

Drained(box) ==
  \E p \in Slots : box = [slots |-> [i \in Slots |-> {}], produce |-> p, consume |-> p]

Holds(box, m) ==
  \E p \in Slots : box = [slots |-> [i \in Slots |-> IF i = p THEN {m} ELSE {}],
                          produce |-> After(p), consume |-> p]

LEMMA SlotFacts == 0 \in Slots /\ \A p \in Slots : After(p) \in Slots
<1>1. SlotCount \in Nat /\ SlotCount > 0
  BY SlotAssumption
<1>2. \A p \in Slots : (p + 1) % SlotCount \in Nat /\ (p + 1) % SlotCount < SlotCount
  BY <1>1 DEF Slots
<1>3. QED BY <1>1, <1>2 DEF Slots, After

LEMMA DrainedBox ==
  ASSUME NEW box, Drained(box)
  PROVE  /\ CanPut(box) /\ AtHead(box) = {} /\ Ready(box) = {}
         /\ box.produce \in Slots /\ box.consume = box.produce
         /\ \A m : Holds(Put(box, m), m)
<1>1. PICK p \in Slots : box = [slots |-> [i \in Slots |-> {}], produce |-> p, consume |-> p]
  BY DEF Drained
<1>2. /\ box.produce = p /\ box.consume = p /\ \A i \in Slots : box.slots[i] = {}
  BY <1>1
<1>3. ASSUME NEW m
      PROVE  Holds(Put(box, m), m)
  <2>1. [[i \in Slots |-> {}] EXCEPT ![p] = {m}] = [i \in Slots |-> IF i = p THEN {m} ELSE {}]
    OBVIOUS
  <2>2. Put(box, m) = [slots |-> [[i \in Slots |-> {}] EXCEPT ![p] = {m}],
                       produce |-> After(p), consume |-> p]
    <3>1. PICK s : s = [i \in Slots |-> {}]
      OBVIOUS
    <3>2. box = [slots |-> s, produce |-> p, consume |-> p] /\ box.produce = p
      BY <1>1, <1>2, <3>1
    <3>3. Put(box, m) = [box EXCEPT !.slots[p] = {m}, !.produce = After(@)]
      BY <3>2 DEF Put
    <3>4. Put(box, m) = [slots |-> [s EXCEPT ![p] = {m}], produce |-> After(p), consume |-> p]
      BY <3>2, <3>3
    <3>5. QED BY <3>1, <3>4
  <2>3. QED BY <2>1, <2>2 DEF Holds
<1>4. QED BY <1>2, <1>3 DEF CanPut, AtHead, Ready

LEMMA HeldBox ==
  ASSUME NEW box, NEW m, Holds(box, m)
  PROVE  /\ AtHead(box) = {m} /\ Drained(TakeHead(box))
         /\ box.produce \in Slots /\ box.consume \in Slots
<1>1. PICK p \in Slots : box = [slots |-> [i \in Slots |-> IF i = p THEN {m} ELSE {}],
                                produce |-> After(p), consume |-> p]
  BY DEF Holds
<1>2. box.consume = p /\ box.produce = After(p) /\ box.slots[p] = {m}
  BY <1>1
<1>3. [[i \in Slots |-> IF i = p THEN {m} ELSE {}] EXCEPT ![p] = {}] = [i \in Slots |-> {}]
  OBVIOUS
<1>4. TakeHead(box) = [slots |-> [[i \in Slots |-> IF i = p THEN {m} ELSE {}] EXCEPT ![p] = {}],
                       produce |-> After(p), consume |-> After(p)]
  <2>1. PICK s : s = [i \in Slots |-> IF i = p THEN {m} ELSE {}]
    OBVIOUS
  <2>2. box = [slots |-> s, produce |-> After(p), consume |-> p] /\ box.consume = p
    BY <1>1, <1>2, <2>1
  <2>3. TakeHead(box) = [box EXCEPT !.slots[p] = {}, !.consume = After(@)]
    BY <2>2 DEF TakeHead
  <2>4. TakeHead(box) = [slots |-> [s EXCEPT ![p] = {}], produce |-> After(p), consume |-> After(p)]
    BY <2>2, <2>3
  <2>5. QED BY <2>1, <2>4
<1>5. Drained(TakeHead(box))
  BY <1>3, <1>4, SlotFacts DEF Drained
<1>6. QED BY <1>2, <1>5, SlotFacts DEF AtHead

LEMMA NewMailbox == Drained(EmptyMailbox)
BY SlotFacts DEF Drained, EmptyMailbox

-----------------------------------------------------------------------------
(* The transport. A binding that is held is of this generation, and over   *)
(* the active session it has used the sequence numbers below its next one; *)
(* only another binding can have brought the session further.              *)

(* Those whose requests the session has accepted over another binding.     *)
Others(caller) == IF caller = "former" THEN served ELSE served \ {caller}

Bindings == [generation : {0, 1}, session : Sessions, next : Nat, last : Nat]

BindingOf(c, b) ==
  /\ b.generation = generation /\ b.next >= 1 /\ b.last < b.next
  /\ b.session # session => session.client \in Clients \ {c}
  /\ b.session = session /\ Others(c) = {} => lastAccepted < b.next

BindingsInv ==
  /\ bindings \in [Clients -> Bindings]
  /\ \A c \in Clients : bindings[c] = NoBinding \/ (online /\ BindingOf(c, bindings[c]))

(* One request waits: it is the message in the mailbox, from a caller with *)
(* a binding of the active session, and its number is the one before next. *)
Awaits(r) ==
  /\ online /\ answer = NoAnswer
  /\ call = [caller |-> call.caller, binding |-> call.binding, request |-> {r}, spins |-> 0]
  /\ call.binding \in Bindings /\ call.binding.session = session /\ call.binding.generation = generation
  /\ call.binding.next >= 2 /\ call.binding.last < call.binding.next - 1
  /\ Holds(requests, [sequence |-> call.binding.next - 1, session |-> session, request |-> r])
  /\ \/ call.caller = "former" /\ call.binding.next = 2
     \/ /\ call.caller \in Clients
        /\ bindings[call.caller].session = session
        /\ call.binding.next = bindings[call.caller].next + 1
        /\ bindings[call.caller] # NoBinding

SessionInv ==
  /\ online \in BOOLEAN /\ session \in Sessions /\ established \in BOOLEAN
  /\ endpoints = IF online THEN "ONLINE" ELSE "OFFLINE"
  /\ generation = IF online THEN 1 ELSE 0
  /\ lastAccepted \in Nat /\ served \in SUBSET (Clients \cup {"former"})
  /\ lastAccepted = 0 <=> served = {}
  /\ ~online => served = {}
  /\ stage \in {"boot", "online", "denied", "failed"}
  /\ stage = "boot" => ~online /\ call = NoCall /\ answer = NoAnswer
  /\ calls \in 0 .. MaxCalls

MailboxInv ==
  /\ Drained(responses)
  /\ \/ call = NoCall /\ Drained(requests)
     \/ call # NoCall /\ \E r \in AccessRequests : Awaits(r)

Shells == [online : BOOLEAN, required : BOOLEAN, authenticated : {FALSE},
           launch : {"SUCCESS", "LAUNCH_FAILED"}]

ShellInv == shell \in Shells /\ shell.online = online

TransportInv == SessionInv /\ BindingsInv /\ MailboxInv /\ ShellInv

LEMMA NamesApart ==
  /\ "none" \notin Clients /\ "former" \notin Clients
BY ClientsAssumption

LEMMA TransportStarts == Init => TransportInv
<1> SUFFICES ASSUME Init PROVE TransportInv
  OBVIOUS
<1>1. SessionInv
  <2>1. /\ stage = "boot" /\ online = FALSE /\ endpoints = "OFFLINE" /\ generation = 0
        /\ session = NoSession /\ established = FALSE /\ lastAccepted = 0 /\ call = NoCall
        /\ answer = NoAnswer /\ served = {} /\ calls = 0
    BY DEF Init
  <2>2. calls \in 0 .. MaxCalls
    BY <2>1, CallsAssumption
  <2>3. session \in Sessions
    BY <2>1 DEF Sessions
  <2>4. QED BY <2>1, <2>2, <2>3 DEF SessionInv
<1>2. NoBinding \in Bindings
  BY DEF NoBinding, Bindings, Sessions
<1>3. BindingsInv
  BY <1>2 DEF Init, BindingsInv
<1>4. MailboxInv
  BY NewMailbox DEF Init, MailboxInv
<1>5. ShellInv
  BY DEF Init, ShellInv, Shells, NoShell
<1>6. QED BY <1>1, <1>3, <1>4, <1>5 DEF TransportInv

-----------------------------------------------------------------------------
(* The manager's tables, whatever has been asked of them since the import, *)
(* and the answer to the call before.                                      *)

Descends(reg) ==
  /\ Loaded(reg.context) /\ reg.context.blocks # <<>> /\ Len(reg.context.blocks) <= MaxBlocks
  /\ ImportBootstrapContext(reg.context).ok
  /\ Succeeds(reg, ImportBootstrapContext(reg.context).reg)

RegistryInv == Ledger(registry) /\ (online => Descends(registry))

(* What AnswersFollowGrants says of an access request, with what the step  *)
(* needs: others have been served when a request is taken for a replay.    *)
AccessExplained ==
  answer.call = "access" =>
    /\ answer.status \in {"SUCCESS", "NOT_FOUND", "REPLAY_DETECTED",
                          "TRANSPORT_STALE", "TRANSPORT_OFFLINE"}
    /\ answer.status = "SUCCESS" =>
         \E r \in answer.request : answer.grant \in {g.id : g \in Permitting(r)}
    /\ answer.status = "NOT_FOUND" => \A r \in answer.request : Permitting(r) = {}
    /\ answer.status \in {"SUCCESS", "NOT_FOUND"} =>
         /\ online /\ answer.sequence = lastAccepted
         /\ answer.caller = "former" => served = {"former"}
    /\ answer.status = "REPLAY_DETECTED" => Others(answer.caller) # {}
    /\ answer.status = "TRANSPORT_STALE" =>
         bindings[answer.caller] = NoBinding \/ session.client \in Clients \ {answer.caller}
    /\ answer.status = "TRANSPORT_OFFLINE" => ~online

(* LOGIN has no bytes to call, so a line typed ends in one of two ways.    *)
ConsoleExplained ==
  answer.call = "console" => answer.status \in {"login failed", "LAUNCH_FAILED"}

AnswerInv ==
  /\ answer.status \in Statuses
  /\ answer.status = "TABLE_FULL" /\ answer.grant # 0 => LedgerFull(registry)
  /\ AccessExplained /\ ConsoleExplained

LEMMA OutcomeKeepsRegistry ==
  ASSUME RegistryInv, NEW out, Outcome(out, registry), registry' = out.reg, online' = online
  PROVE  RegistryInv'
<1>1. Ledger(out.reg) /\ Succeeds(out.reg, registry)
  BY DEF Outcome
<1>2. Ledger(registry) /\ registry \in Registries /\ out.reg \in Registries
  BY <1>1 DEF RegistryInv, Ledger
<1>3. ASSUME online
      PROVE  Descends(out.reg)
  <2>1. Descends(registry) /\ out.reg.context = registry.context
    BY <1>1, <1>3 DEF RegistryInv, Succeeds
  <2>2. PICK import : import = ImportBootstrapContext(registry.context).reg
    OBVIOUS
  <2>3. import \in Registries
    BY <2>1, <2>2, ImportOutcome DEF Descends, Imports
  <2>4. Succeeds(out.reg, import)
    BY <1>1, <1>2, <2>1, <2>2, <2>3, SucceedsTransitively DEF Descends
  <2>5. QED BY <2>1, <2>2, <2>4 DEF Descends
<1>4. PICK reg : reg = out.reg
  OBVIOUS
<1>5. Ledger(reg) /\ (online => Descends(reg)) /\ registry' = reg
  BY <1>1, <1>3, <1>4
<1>6. Ledger(registry')
  BY <1>5
<1>7. online' => Descends(registry')
  BY <1>5
<1>8. QED BY <1>6, <1>7 DEF RegistryInv

LEMMA SameRegistry ==
  ASSUME RegistryInv, UNCHANGED <<registry, online>>
  PROVE  RegistryInv'
<1>1. PICK reg : reg = registry /\ registry' = reg /\ online' = online
  OBVIOUS
<1>2. Ledger(reg) /\ (online => Descends(reg))
  BY <1>1 DEF RegistryInv
<1>3. Ledger(registry') /\ (online' => Descends(registry'))
  BY <1>1, <1>2
<1>4. QED BY <1>3 DEF RegistryInv

(* The import reads the tables of the context and nothing else of it.      *)
LEMMA SameImport ==
  ASSUME NEW context
  PROVE  ImportBootstrapContext([blocks |-> context.blocks, assignments |-> context.assignments])
           = ImportBootstrapContext(context)
<1> DEFINE c == [blocks |-> context.blocks, assignments |-> context.assignments]
<1>1. c.blocks = context.blocks /\ c.assignments = context.assignments
  OBVIOUS
<1> HIDE DEF c
<1>2. ImportedGrants(c) = ImportedGrants(context)
  BY <1>1 DEF ImportedGrants
<1>3. ImportBootstrapContext(c) = ImportBootstrapContext(context)
  BY <1>1, <1>2 DEF ImportBootstrapContext
<1>4. QED BY <1>3 DEF c

LEMMA AuthorityHasBlocks ==
  ASSUME NEW context, LaunchAuthority(context)
  PROVE  context.blocks # <<>>
<1> SUFFICES ASSUME context.blocks = <<>> PROVE FALSE
  OBVIOUS
<1>1. PICK b : b = ProfileOf(context, "task", "init") /\ b # 0
  BY DEF LaunchAuthority
<1>2. PICK profile : BlockOf(context, profile) # 0
  BY <1>1 DEF ProfileOf
<1> DEFINE I == {i \in 1 .. Len(context.blocks) : context.blocks[i].profile = profile}
<1>3. I = {}
  OBVIOUS
<1>4. BlockOf(context, profile) = IF I = {} THEN 0 ELSE Min(I)
  BY DEF BlockOf, SelectInSeq
<1>5. QED BY <1>2, <1>3, <1>4

LEMMA BootContextLoads ==
  ASSUME PolicyInv, LaunchAuthority(BootstrapCapabilities)
  PROVE  /\ BootstrapCapabilities = policy /\ Loaded(policy) /\ policy.blocks # <<>>
         /\ Len(policy.blocks) <= MaxBlocks /\ CapabilitiesValid
<1>1. BootstrapCapabilities.blocks # <<>>
  BY AuthorityHasBlocks
<1>2. CapabilitiesValid /\ BootstrapCapabilities = policy
  BY <1>1 DEF BootstrapCapabilities, NoPolicy
<1>3. policy \in Policies /\ Len(policy.blocks) <= MaxBlocks
      /\ \A b \in 1 .. Len(policy.blocks) : Numbered(policy.blocks[b], b)
  BY DEF PolicyInv
<1>4. Loaded(policy)
  BY <1>3, PolicyFacts DEF Loaded
<1>5. QED BY <1>1, <1>2, <1>3, <1>4

LEMMA LaunchKeepsRegistry ==
  ASSUME PolicyInv, RegistryInv, SessionInv, Launch
  PROVE  RegistryInv'
<1>1. stage = "boot" /\ ~online
  BY DEF Launch, SessionInv
<1>2. CASE LaunchAuthority(BootstrapCapabilities) /\ LaunchServiceImage(BootstrapCapabilities)
  <2>1. BringOnline(policy) /\ Loaded(policy) /\ policy.blocks # <<>> /\ Len(policy.blocks) <= MaxBlocks
    BY <1>2, BootContextLoads DEF LaunchServiceImage
  <2>2. PICK import, c : import = ImportBootstrapContext(policy)
                         /\ c = [blocks |-> policy.blocks, assignments |-> policy.assignments]
    OBVIOUS
  <2>3. /\ online' = import.ok
        /\ registry' = IF import.ok THEN SelfTest(import.reg) ELSE import.reg
    BY <2>1, <2>2 DEF BringOnline
  <2>4. import \in Imports /\ Ledger(import.reg) /\ import.reg.context = c
    BY <2>1, <2>2, ImportOutcome DEF ImportedSoFar
  <2>5. Ledger(SelfTest(import.reg)) /\ Succeeds(SelfTest(import.reg), import.reg)
    BY <2>4, SelfTestKeepsLedger
  <2>6. PICK reg : reg = IF import.ok THEN SelfTest(import.reg) ELSE import.reg
    OBVIOUS
  <2>7. Ledger(reg)
    BY <2>4, <2>5, <2>6
  <2>8. ASSUME import.ok
        PROVE  Descends(reg)
    <3>1. reg.context = c /\ Succeeds(reg, import.reg)
      BY <2>4, <2>5, <2>6, <2>8 DEF Succeeds
    <3>2. c.blocks = policy.blocks /\ c.assignments = policy.assignments
      BY <2>2
    <3>3. ImportBootstrapContext(c) = import
      BY <2>2, SameImport
    <3>4. Loaded(c)
      BY <2>1, <3>2 DEF Loaded
    <3>5. QED BY <2>1, <2>8, <3>1, <3>2, <3>3, <3>4 DEF Descends
  <2>9. registry' = reg /\ online' = import.ok
    BY <2>3, <2>6
  <2>10. Ledger(registry') /\ (online' => Descends(registry'))
    BY <2>7, <2>8, <2>9
  <2>11. QED BY <2>10 DEF RegistryInv
<1>3. CASE ~(LaunchAuthority(BootstrapCapabilities) /\ LaunchServiceImage(BootstrapCapabilities))
  <2>1. UNCHANGED <<registry, online>>
    BY <1>3 DEF Launch
  <2>2. QED BY <2>1, SameRegistry
<1>4. QED BY <1>2, <1>3

LEMMA RequestsAreTyped ==
  \A r \in GrantRequests : Asks(r) /\ r.cap \in Caps
<1> SUFFICES ASSUME NEW r \in GrantRequests PROVE Asks(r) /\ r.cap \in Caps
  OBVIOUS
<1>1. r.id \in Nat
  BY GrantRequestsAssumption
<1>2. r.cap \in Caps /\ r.type \in HolderTypes
  BY DEF Caps, HolderTypes
<1>3. QED BY <1>1, <1>2 DEF Asks

Mutates == AddRecord \/ AddGrant \/ Revoke \/ Suspend \/ Restore

LEMMA MutationOutcome ==
  ASSUME RegistryInv, Mutates
  PROVE  \E kind, out : /\ kind \in {"register", "grant", "revoke", "suspend", "restore"}
                         /\ Outcome(out, registry) /\ Mutation(kind, out)
<1>1. Ledger(registry)
  BY DEF RegistryInv
<1>2. CASE AddRecord
  <2>1. PICK r \in GrantRequests :
          Mutation("register", Answered(Register(registry, r.cap), RegisterStatus(registry, r.cap), 0))
    BY <1>2 DEF AddRecord
  <2>2. Outcome(Answered(Register(registry, r.cap), RegisterStatus(registry, r.cap), 0), registry)
    BY <1>1, RequestsAreTyped, RegisterOutcome
  <2>3. QED BY <2>1, <2>2
<1>3. CASE AddGrant
  <2>1. PICK r \in GrantRequests : Mutation("grant", Grant(registry, r))
    BY <1>3 DEF AddGrant
  <2>2. Outcome(Grant(registry, r), registry)
    BY <1>1, RequestsAreTyped, GrantOutcome
  <2>3. QED BY <2>1, <2>2
<1>4. ASSUME NEW id, NEW state \in GrantStates
      PROVE  Outcome(Mutate(registry, id, state), registry)
  BY <1>1, MutateOutcome
<1>5. CASE Revoke
  <2>1. PICK id : Mutation("revoke", Mutate(registry, id, "REVOKED"))
    BY <1>5 DEF Revoke
  <2>2. QED BY <1>4, <2>1 DEF GrantStates
<1>6. CASE Suspend
  <2>1. PICK id : Mutation("suspend", Mutate(registry, id, "SUSPENDED"))
    BY <1>6 DEF Suspend
  <2>2. QED BY <1>4, <2>1 DEF GrantStates
<1>7. CASE Restore
  <2>1. PICK id : Mutation("restore", Mutate(registry, id, "ACTIVE"))
    BY <1>7 DEF Restore
  <2>2. QED BY <1>4, <2>1 DEF GrantStates
<1>8. QED BY <1>2, <1>3, <1>5, <1>6, <1>7 DEF Mutates

-----------------------------------------------------------------------------
(* Steps that leave the transport alone.                                   *)

LEMMA SameTransport ==
  ASSUME TransportInv,
         UNCHANGED <<stage, online, shell, transportVars, boxVars, bindings, call, answer, calls>>
  PROVE  TransportInv'
<1> USE DEF transportVars, boxVars
<1>1. SessionInv'
  BY DEF TransportInv, SessionInv
<1>2. BindingsInv'
  BY DEF TransportInv, BindingsInv, BindingOf, Others
<1>3. MailboxInv'
  BY DEF TransportInv, MailboxInv, Awaits, Drained, Holds
<1>4. ShellInv'
  BY DEF TransportInv, ShellInv
<1>5. QED BY <1>1, <1>2, <1>3, <1>4 DEF TransportInv

LEMMA SameAnswer ==
  ASSUME AnswerInv,
         UNCHANGED <<registry, online, transportVars, boxVars, bindings, answer>>
  PROVE  AnswerInv'
BY ZenonT(60) DEF AnswerInv, AccessExplained, ConsoleExplained, Permitting, Principals, Others,
       LedgerFull, transportVars, boxVars

(* Calls that begin and return at once, without the transport.             *)
LEMMA BegunTransport ==
  ASSUME TransportInv, Begin,
         UNCHANGED <<stage, online, transportVars, boxVars, bindings, call>>, ShellInv'
  PROVE  TransportInv'
<1> USE DEF transportVars, boxVars
<1>1. stage # "boot" /\ call = NoCall /\ calls' \in 0 .. MaxCalls
  BY CallsAssumption DEF Begin, TransportInv, SessionInv
<1>2. SessionInv'
  BY <1>1 DEF TransportInv, SessionInv
<1>3. BindingsInv'
  BY DEF TransportInv, BindingsInv, BindingOf, Others
<1>4. Drained(responses) /\ Drained(requests)
  BY <1>1 DEF TransportInv, MailboxInv
<1>5. MailboxInv'
  BY <1>1, <1>4 DEF MailboxInv, Drained
<1>6. QED BY <1>2, <1>3, <1>5 DEF TransportInv

LEMMA OtherAnswer ==
  ASSUME NEW kind, kind \notin {"access", "console"}, NEW caller, NEW request, NEW status \in Statuses,
         NEW grant, NEW sequence, Answer(kind, caller, request, status, grant, sequence),
         status = "TABLE_FULL" /\ grant # 0 => LedgerFull(registry')
  PROVE  AnswerInv'
<1>1. answer'.call = kind /\ answer'.status = status /\ answer'.grant = grant
  BY DEF Answer
<1>2. AccessExplained' /\ ConsoleExplained'
  BY <1>1 DEF AccessExplained, ConsoleExplained
<1>3. LedgerFull(registry') <=> LedgerFull(registry)'
  BY DEF LedgerFull
<1>4. QED BY <1>1, <1>2, <1>3 DEF AnswerInv

LEMMA MutationKeeps ==
  ASSUME TransportInv, RegistryInv, Mutates
  PROVE  RegistryInv' /\ TransportInv' /\ AnswerInv'
<1>1. PICK kind, out : /\ kind \in {"register", "grant", "revoke", "suspend", "restore"}
                       /\ Outcome(out, registry) /\ Mutation(kind, out)
  BY MutationOutcome
<1>2. /\ Begin /\ registry' = out.reg
      /\ Answer(kind, "none", {}, out.status, out.grant, 0)
      /\ UNCHANGED <<policyVars, stage, online, shell, transportVars, boxVars, bindings, call>>
  BY <1>1 DEF Mutation
<1>3. RegistryInv'
  BY <1>1, <1>2, OutcomeKeepsRegistry
<1>4. ShellInv'
  BY <1>2 DEF TransportInv, ShellInv
<1>5. TransportInv'
  BY <1>2, <1>4, BegunTransport
<1>6. /\ out.status \in Statuses
      /\ out.status = "TABLE_FULL" /\ out.grant # 0 => LedgerFull(out.reg)
  BY <1>1 DEF Outcome, Statuses
<1>7. AnswerInv'
  <2>1. out.status = "TABLE_FULL" /\ out.grant # 0 => LedgerFull(registry')
    BY <1>2, <1>6
  <2>2. kind \notin {"access", "console"} /\ out.status \in Statuses
    BY <1>1, <1>6
  <2>3. Answer(kind, "none", {}, out.status, out.grant, 0)
    BY <1>2
  <2>4. QED BY <2>1, <2>2, <2>3, OtherAnswer
<1>8. QED BY <1>3, <1>5, <1>7

-----------------------------------------------------------------------------
(* The console: the launch of LOGIN fails before anything is looked at.    *)

LEMMA LoginNeverRuns ==
  ASSUME NEW returned, NEW adapter
  PROVE  LaunchExternal("LOGIN", returned, adapter) = "LAUNCH_FAILED"
<1>1. ReadImage("LOGIN") \in {"NOT_FOUND", "empty"}
  BY LoginAssumption DEF ReadImage
<1>2. LoadAndCall("LOGIN", returned) \in {"NOT_FOUND", "LAUNCH_FAILED"}
  BY <1>1 DEF LoadAndCall
<1>3. InvokeImage("LOGIN", returned) \in {"NOT_FOUND", "LAUNCH_FAILED"}
  BY <1>2 DEF InvokeImage
<1>4. LaunchExternalCommand("LOGIN", returned) \in {"NOT_FOUND", "LAUNCH_FAILED"}
  BY <1>3 DEF LaunchExternalCommand
<1>5. QED BY <1>4 DEF LaunchExternal

LEMMA LoginFails ==
  ASSUME NEW s \in Shells, NEW returned, NEW adapter
  PROVE  LET done == Execute(s, LoginCommand, returned, adapter)
         IN  /\ done.status = "LAUNCH_FAILED"
             /\ done.shell \in Shells /\ done.shell.online = s.online
<1>1. LaunchExternal("LOGIN", returned, adapter) = "LAUNCH_FAILED"
  BY LoginNeverRuns
<1>2. LoginCommand.name = "LOGIN" /\ "LOGIN" \notin Builtins
  BY LoginAssumption DEF LoginCommand
<1>3. PICK launched : launched = [s EXCEPT !.launch = "LAUNCH_FAILED"]
  OBVIOUS
<1>4. launched \in Shells /\ launched.online = s.online /\ launched.authenticated = FALSE
  BY <1>3 DEF Shells
<1>5. [launched EXCEPT !.authenticated = launched.authenticated] = launched
  BY <1>4 DEF Shells
<1>6. Execute(s, LoginCommand, returned, adapter) = [shell |-> launched, status |-> "LAUNCH_FAILED"]
  BY <1>1, <1>2, <1>3, <1>5 DEF Execute
<1>7. QED BY <1>4, <1>6

LEMMA TypingKeeps ==
  ASSUME TransportInv, RegistryInv, NEW typed, TypeLine(typed)
  PROVE  RegistryInv' /\ TransportInv' /\ AnswerInv'
<1>1. shell \in Shells /\ ~shell.authenticated /\ shell.online = online
  BY DEF TransportInv, ShellInv, Shells
<1>2. PICK status : /\ Begin /\ status \in {"login failed", "LAUNCH_FAILED"}
                    /\ shell' \in Shells /\ shell'.online = shell.online
                    /\ Answer("console", "none", {}, status, 0, 0)
                    /\ UNCHANGED <<stage, registry, online, transportVars, boxVars, bindings, call>>
  <2>1. CASE shell' = shell /\ Answer("console", "none", {}, "login failed", 0, 0)
    BY <1>1, <2>1 DEF TypeLine
  <2>2. CASE ~(shell' = shell /\ Answer("console", "none", {}, "login failed", 0, 0))
    <3>1. PICK returned, adapter :
             /\ shell' = Execute(shell, LoginCommand, returned, adapter).shell
             /\ Answer("console", "none", {}, Execute(shell, LoginCommand, returned, adapter).status, 0, 0)
      BY <1>1, <2>2 DEF TypeLine
    <3>2. PICK done : done = Execute(shell, LoginCommand, returned, adapter)
      OBVIOUS
    <3>3. done.status = "LAUNCH_FAILED" /\ done.shell \in Shells /\ done.shell.online = shell.online
      BY <1>1, <3>2, LoginFails
    <3>4. shell' = done.shell /\ Answer("console", "none", {}, "LAUNCH_FAILED", 0, 0)
      BY <3>1, <3>2, <3>3
    <3>5. QED BY <3>3, <3>4 DEF TypeLine
  <2>3. QED BY <2>1, <2>2
<1>3. RegistryInv'
  BY <1>2, SameRegistry
<1>4. ShellInv'
  BY <1>1, <1>2 DEF ShellInv
<1>5. TransportInv'
  BY <1>2, <1>4, BegunTransport
<1>6. AnswerInv'
  <2>1. answer'.call = "console" /\ answer'.status = status /\ answer'.grant = 0
    BY <1>2 DEF Answer
  <2>2. QED BY <1>2, <2>1 DEF AnswerInv, AccessExplained, ConsoleExplained, Statuses
<1>7. QED BY <1>3, <1>5, <1>6

-----------------------------------------------------------------------------
(* The launch, and calls that make sessions and bindings.                  *)

LEMMA NothingBoundOffline ==
  ASSUME TransportInv, ~online
  PROVE  /\ generation = 0 /\ served = {} /\ lastAccepted = 0 /\ endpoints = "OFFLINE"
         /\ \A c \in Clients : bindings[c] = NoBinding
BY DEF TransportInv, SessionInv, BindingsInv

LEMMA LaunchKeepsTransport ==
  ASSUME PolicyInv, RegistryInv, TransportInv, Launch
  PROVE  TransportInv'
<1>1. /\ stage = "boot" /\ ~online /\ call = NoCall /\ answer = NoAnswer
      /\ UNCHANGED <<bindings, call, answer, calls>>
      /\ generation = 0 /\ served = {} /\ lastAccepted = 0 /\ endpoints = "OFFLINE"
      /\ \A c \in Clients : bindings[c] = NoBinding
  BY NothingBoundOffline DEF Launch, TransportInv, SessionInv
<1>2. ASSUME online' \in BOOLEAN, session' \in Sessions, established' \in BOOLEAN,
             endpoints' = IF online' THEN "ONLINE" ELSE "OFFLINE",
             generation' = IF online' THEN 1 ELSE 0,
             lastAccepted' = 0, served' = {}, stage' \in {"online", "denied", "failed"},
             Drained(requests'), Drained(responses'), shell' \in Shells, shell'.online = online'
      PROVE  TransportInv'
  <2>1. SessionInv'
    BY <1>1, <1>2 DEF SessionInv, TransportInv
  <2>2. BindingsInv'
    BY <1>1 DEF TransportInv, BindingsInv
  <2>3. MailboxInv'
    BY <1>1, <1>2 DEF MailboxInv, Drained
  <2>4. ShellInv'
    BY <1>2 DEF ShellInv
  <2>5. QED BY <2>1, <2>2, <2>3, <2>4 DEF TransportInv
<1>3. CASE LaunchAuthority(BootstrapCapabilities) /\ LaunchServiceImage(BootstrapCapabilities)
           /\ LoadAndRunShellService
  <2>1. PICK import : import = ImportBootstrapContext(BootstrapCapabilities)
    OBVIOUS
  <2>2. import.ok \in BOOLEAN
    BY <1>3, <2>1, BootContextLoads, ImportOutcome DEF Imports
  <2>3. /\ online' = import.ok /\ established' = FALSE /\ requests' = EmptyMailbox
        /\ responses' = EmptyMailbox /\ served' = {}
        /\ stage' = IF online' THEN "online" ELSE "failed"
        /\ shell' = IF online' THEN BringShellOnline ELSE shell
        /\ IF import.ok THEN InitializeTransport
           ELSE endpoints' = "OFFLINE" /\ UNCHANGED <<generation, session, lastAccepted>>
    BY <1>3, <2>1 DEF LaunchServiceImage, BringOnline, LoadAndRunShellService
  <2>4. Drained(requests') /\ Drained(responses')
    BY <2>3, NewMailbox
  <2>5. shell' \in Shells /\ shell'.online = online'
    <3>1. BringShellOnline \in Shells /\ BringShellOnline.online = TRUE
      BY DEF BringShellOnline, NoShell, Shells
    <3>2. shell \in Shells /\ shell.online = FALSE
      BY <1>1 DEF TransportInv, ShellInv, SessionInv
    <3>3. CASE import.ok
      BY <2>3, <3>1, <3>3
    <3>4. CASE ~import.ok
      BY <2>2, <2>3, <3>2, <3>4
    <3>5. QED BY <3>3, <3>4
  <2>6. CASE import.ok
    <3>1. /\ endpoints' = "ONLINE" /\ generation' = 1 /\ session' = BootSession /\ lastAccepted' = 0
      BY <1>1, <2>3, <2>6 DEF InitializeTransport
    <3>2. session' \in Sessions
      BY <3>1 DEF Sessions
    <3>3. online' = TRUE
      BY <2>2, <2>3, <2>6
    <3>4. QED BY <1>2, <2>3, <2>4, <2>5, <3>1, <3>2, <3>3
  <2>7. CASE ~import.ok
    <3>1. endpoints' = "OFFLINE" /\ generation' = 0 /\ session' = session /\ lastAccepted' = 0
      BY <1>1, <2>3, <2>7
    <3>2. session' \in Sessions
      BY <3>1 DEF TransportInv, SessionInv
    <3>3. online' = FALSE
      BY <2>2, <2>3, <2>7
    <3>4. QED BY <1>2, <2>3, <2>4, <2>5, <3>1, <3>2, <3>3
  <2>8. QED BY <2>6, <2>7
<1>4. CASE stage' = "denied" /\ UNCHANGED <<registry, online, shell, transportVars, boxVars>>
  <2>1. /\ online' = online /\ shell' = shell /\ endpoints' = endpoints /\ generation' = generation
        /\ session' = session /\ established' = established /\ lastAccepted' = lastAccepted
        /\ requests' = requests /\ responses' = responses /\ served' = served
    BY <1>4 DEF transportVars, boxVars
  <2>2. Drained(requests) /\ Drained(responses) /\ shell \in Shells /\ shell.online = online
        /\ online \in BOOLEAN /\ session \in Sessions /\ established \in BOOLEAN
    BY <1>1 DEF TransportInv, MailboxInv, ShellInv, SessionInv
  <2>3. QED BY <1>1, <1>2, <1>4, <2>1, <2>2
<1>5. QED BY <1>3, <1>4 DEF Launch

LEMMA LaunchKeeps ==
  ASSUME PolicyInv, RegistryInv, TransportInv, AnswerInv, Launch
  PROVE  RegistryInv' /\ TransportInv' /\ AnswerInv'
<1>1. answer = NoAnswer /\ answer' = answer
  BY DEF Launch, TransportInv, SessionInv
<1>2. answer'.call = "none" /\ answer'.status = "none"
  BY <1>1 DEF NoAnswer
<1>3. AnswerInv'
  BY <1>2 DEF AnswerInv, AccessExplained, ConsoleExplained, Statuses
<1>4. RegistryInv' /\ TransportInv'
  BY LaunchKeepsRegistry, LaunchKeepsTransport DEF TransportInv
<1>5. QED BY <1>3, <1>4

(* Begin finds the transport at rest.                                      *)
LEMMA AtRest ==
  ASSUME TransportInv, Begin
  PROVE  /\ stage # "boot" /\ call = NoCall /\ Drained(requests) /\ Drained(responses)
         /\ calls' \in 0 .. MaxCalls
         /\ Exported <=> online
         /\ online \in BOOLEAN
BY CallsAssumption DEF TransportInv, SessionInv, MailboxInv, Begin, Exported

LEMMA RefusalKeeps ==
  ASSUME TransportInv, RegistryInv, Begin, NEW kind, kind \notin {"access", "console"},
         NEW caller, NEW status \in Statuses, Refuse(kind, caller, status),
         UNCHANGED <<policyVars, registryVars>>
  PROVE  RegistryInv' /\ TransportInv' /\ AnswerInv'
<1>1. /\ Answer(kind, caller, {}, status, 0, 0)
      /\ UNCHANGED <<stage, registry, online, shell, transportVars, boxVars, bindings, call>>
  BY DEF Refuse, registryVars
<1>2. RegistryInv'
  BY <1>1, SameRegistry
<1>3. ShellInv'
  BY <1>1 DEF TransportInv, ShellInv
<1>4. TransportInv'
  BY <1>1, <1>3, BegunTransport
<1>5. AnswerInv'
  BY <1>1, OtherAnswer
<1>6. QED BY <1>2, <1>4, <1>5

LEMMA FreshBindingOf ==
  ASSUME TransportInv, online, NEW s \in Sessions
  PROVE  /\ FreshBinding(s) \in Bindings /\ FreshBinding(s) # NoBinding
         /\ FreshBinding(s).generation = generation /\ FreshBinding(s).session = s
         /\ FreshBinding(s).next = 1 /\ FreshBinding(s).last = 0
<1>1. generation = 1
  BY DEF TransportInv, SessionInv
<1>2. FreshBinding(s).next # NoBinding.next
  BY DEF FreshBinding, NoBinding
<1>3. QED BY <1>1, <1>2 DEF FreshBinding, Bindings

LEMMA ConnectKeeps ==
  ASSUME TransportInv, RegistryInv, NEW c \in Clients, NEW r \in ConnectRequests, Connect(c, r)
  PROVE  RegistryInv' /\ TransportInv' /\ AnswerInv'
<1>1. ConnectStatus(r) \in {"SUCCESS", "TRANSPORT_OFFLINE", "TARGET_MISMATCH", "SECURITY_MODE_MISMATCH"}
  BY DEF ConnectStatus
<1>2. CASE ConnectStatus(r) # "SUCCESS" /\ Refuse("connect", c, ConnectStatus(r))
  BY <1>1, <1>2, RefusalKeeps DEF Connect, Statuses
<1>3. CASE ~(ConnectStatus(r) # "SUCCESS" /\ Refuse("connect", c, ConnectStatus(r)))
  <2>1. PICK s : s = [client |-> c, nonce |-> r.nonce]
    OBVIOUS
  <2>2. s \in Sessions /\ s.client = c
    BY <2>1 DEF Sessions
  <2>3. /\ Begin /\ ConnectStatus(r) = "SUCCESS" /\ session' = s /\ established' = TRUE
        /\ lastAccepted' = 0 /\ served' = {}
        /\ bindings' = [bindings EXCEPT ![c] = FreshBinding(s)]
        /\ Answer("connect", c, {}, "SUCCESS", 0, 0)
        /\ UNCHANGED <<endpoints, generation, requests, responses, call>>
        /\ UNCHANGED <<stage, registry, online, shell>>
    BY <1>3, <2>1 DEF Connect, registryVars
  <2>4. /\ stage # "boot" /\ call = NoCall /\ Drained(requests) /\ Drained(responses)
        /\ calls' \in 0 .. MaxCalls /\ online /\ online \in BOOLEAN
    BY <2>3, AtRest DEF ConnectStatus
  <2>5. RegistryInv'
    BY <2>3, SameRegistry
  <2>6. SessionInv'
    BY <2>2, <2>3, <2>4 DEF TransportInv, SessionInv
  <2>7. BindingsInv'
    <3>1. bindings \in [Clients -> Bindings]
      BY DEF TransportInv, BindingsInv
    <3>2. PICK b : b = FreshBinding(s)
      OBVIOUS
    <3>3. b \in Bindings /\ b.generation = generation /\ b.session = s /\ b.next = 1 /\ b.last = 0
      BY <2>2, <2>4, <3>2, FreshBindingOf
    <3>4. bindings' = [bindings EXCEPT ![c] = b]
      BY <2>3, <3>2
    <3>5. bindings' \in [Clients -> Bindings] /\ bindings'[c] = b
          /\ \A d \in Clients : d # c => bindings'[d] = bindings[d]
      BY <3>1, <3>3, <3>4
    <3>6. ASSUME NEW d \in Clients
          PROVE  bindings'[d] = NoBinding \/ (online' /\ BindingOf(d, bindings[d])')
      <4>1. CASE d = c
        <5>1. bindings'[d] = b
          BY <3>5, <4>1
        <5>2. BindingOf(d, bindings[d])'
          BY <2>3, <3>3, <5>1 DEF BindingOf
        <5>3. QED BY <2>3, <2>4, <5>2
      <4>2. CASE d # c /\ bindings[d] # NoBinding
        <5>1. PICK e \in Bindings : e = bindings[d] /\ e = bindings'[d]
          BY <3>1, <3>5, <4>2
        <5>2. e.generation = generation /\ e.next >= 1 /\ e.last < e.next
          BY <4>2, <5>1 DEF TransportInv, BindingsInv, BindingOf
        <5>3. session'.client \in Clients \ {d} /\ 0 < e.next
          BY <2>2, <2>3, <4>2, <5>2 DEF Bindings
        <5>4. BindingOf(d, bindings[d])'
          BY <2>3, <5>1, <5>2, <5>3 DEF BindingOf
        <5>5. QED BY <2>3, <2>4, <5>4
      <4>3. CASE d # c /\ bindings[d] = NoBinding
        BY <3>5, <4>3
      <4>4. QED BY <4>1, <4>2, <4>3
    <3>7. QED BY <3>5, <3>6 DEF BindingsInv
  <2>8. MailboxInv'
    BY <2>3, <2>4 DEF MailboxInv, Drained
  <2>9. ShellInv'
    BY <2>3 DEF TransportInv, ShellInv
  <2>10. AnswerInv'
    BY <2>3, OtherAnswer DEF Statuses
  <2>11. QED BY <2>5, <2>6, <2>7, <2>8, <2>9, <2>10 DEF TransportInv
<1>4. QED BY <1>2, <1>3

LEMMA BindKeeps ==
  ASSUME TransportInv, RegistryInv, NEW c \in Clients, Bind(c)
  PROVE  RegistryInv' /\ TransportInv' /\ AnswerInv'
<1>1. CASE ~Exported /\ Refuse("bind", c, "TRANSPORT_OFFLINE")
  BY <1>1, RefusalKeeps DEF Bind, Statuses
<1>2. CASE ~(~Exported /\ Refuse("bind", c, "TRANSPORT_OFFLINE"))
  <2>1. PICK b : b = FreshBinding(session)
    OBVIOUS
  <2>2. /\ Begin /\ Exported /\ bindings' = [bindings EXCEPT ![c] = b]
        /\ served' = IF c \in served THEN (served \ {c}) \cup {"former"} ELSE served
        /\ Answer("bind", c, {}, "SUCCESS", 0, 0)
        /\ UNCHANGED <<endpoints, generation, session, established, lastAccepted,
                       requests, responses, call, stage, registry, online, shell>>
    BY <1>2, <2>1 DEF Bind, registryVars, transportVars
  <2>3. /\ stage # "boot" /\ call = NoCall /\ Drained(requests) /\ Drained(responses)
        /\ calls' \in 0 .. MaxCalls /\ online /\ online \in BOOLEAN
    BY <2>2, AtRest
  <2>4. RegistryInv'
    BY <2>2, SameRegistry
  <2>5. /\ session \in Sessions /\ lastAccepted \in Nat /\ (lastAccepted = 0 <=> served = {})
        /\ served \in SUBSET (Clients \cup {"former"})
    BY DEF TransportInv, SessionInv
  <2>6. served' \in SUBSET (Clients \cup {"former"}) /\ (served' = {} <=> served = {})
    <3>1. CASE c \in served
      BY <2>2, <2>5, <3>1
    <3>2. CASE c \notin served
      BY <2>2, <2>5, <3>2
    <3>3. QED BY <3>1, <3>2
  <2>7. SessionInv'
    BY <2>2, <2>3, <2>6 DEF TransportInv, SessionInv
  <2>8. \A d \in Clients : Others(d)' = {} => Others(d) = {} \/ (d = c /\ lastAccepted = 0)
    <3> SUFFICES ASSUME NEW d \in Clients, Others(d)' = {}
                 PROVE  Others(d) = {} \/ (d = c /\ lastAccepted = 0)
      OBVIOUS
    <3>1. d # "former" /\ served' \ {d} = {}
      BY NamesApart DEF Others
    <3>2. c \notin served
      <4> SUFFICES ASSUME c \in served PROVE FALSE
        OBVIOUS
      <4>1. "former" \in served'
        BY <2>2
      <4>2. QED BY <3>1, <4>1
    <3>3. served' = served
      BY <2>2, <3>2
    <3>4. QED BY <3>1, <3>3 DEF Others
  <2>9. BindingsInv'
    <3>1. bindings \in [Clients -> Bindings]
      BY DEF TransportInv, BindingsInv
    <3>2. b \in Bindings /\ b.generation = generation /\ b.session = session /\ b.next = 1 /\ b.last = 0
      BY <2>1, <2>3, <2>5, FreshBindingOf
    <3>3. bindings' \in [Clients -> Bindings] /\ bindings'[c] = b
          /\ \A d \in Clients : d # c => bindings'[d] = bindings[d]
      BY <2>2, <3>1, <3>2
    <3>4. ASSUME NEW d \in Clients
          PROVE  bindings'[d] = NoBinding \/ (online' /\ BindingOf(d, bindings[d])')
      <4>1. CASE d = c
        <5>1. bindings'[d] = b
          BY <3>3, <4>1
        <5>2. Others(d)' = {} => lastAccepted = 0
          <6>1. ASSUME Others(d)' = {} PROVE lastAccepted = 0
            <7>1. served' \ {c} = {}
              BY <4>1, <6>1, NamesApart DEF Others
            <7>2. c \notin served'
              <8>1. c # "former"
                BY NamesApart
              <8>2. CASE c \in served
                BY <2>2, <8>1, <8>2
              <8>3. CASE c \notin served
                BY <2>2, <8>3
              <8>4. QED BY <8>2, <8>3
            <7>3. served' = {}
              BY <7>1, <7>2
            <7>4. QED BY <2>5, <2>6, <7>3
          <6>2. QED BY <6>1
        <5>3. BindingOf(d, bindings[d])'
          BY <2>2, <3>2, <5>1, <5>2 DEF BindingOf
        <5>4. QED BY <2>2, <2>3, <5>3
      <4>2. CASE d # c /\ bindings[d] # NoBinding
        <5>1. PICK e \in Bindings : e = bindings[d] /\ e = bindings'[d]
          BY <3>1, <3>3, <4>2
        <5>2. /\ e.generation = generation /\ e.next >= 1 /\ e.last < e.next
              /\ e.session # session => session.client \in Clients \ {d}
              /\ e.session = session /\ Others(d) = {} => lastAccepted < e.next
          BY <4>2, <5>1 DEF TransportInv, BindingsInv, BindingOf
        <5>3. Others(d)' = {} => Others(d) = {}
          BY <2>8, <4>2
        <5>4. BindingOf(d, bindings[d])'
          BY <2>2, <5>1, <5>2, <5>3 DEF BindingOf
        <5>5. QED BY <2>2, <2>3, <5>4
      <4>3. CASE d # c /\ bindings[d] = NoBinding
        BY <3>3, <4>3
      <4>4. QED BY <4>1, <4>2, <4>3
    <3>5. QED BY <3>3, <3>4 DEF BindingsInv
  <2>10. MailboxInv'
    BY <2>2, <2>3 DEF MailboxInv, Drained
  <2>11. ShellInv'
    BY <2>2 DEF TransportInv, ShellInv
  <2>12. AnswerInv'
    BY <2>2, OtherAnswer DEF Statuses
  <2>13. QED BY <2>4, <2>7, <2>9, <2>10, <2>11, <2>12 DEF TransportInv
<1>3. QED BY <1>1, <1>2

-----------------------------------------------------------------------------
(* Access requests: the request is put into the empty mailbox.             *)

LEMMA AccessRefused ==
  ASSUME TransportInv, RegistryInv, Begin, NEW caller, NEW status,
         \/ status = "TRANSPORT_OFFLINE" /\ ~online
         \/ status = "TRANSPORT_STALE"
            /\ (bindings[caller] = NoBinding \/ session.client \in Clients \ {caller}),
         Refuse("access", caller, status), UNCHANGED <<policyVars, registryVars>>
  PROVE  RegistryInv' /\ TransportInv' /\ AnswerInv'
<1>1. /\ Answer("access", caller, {}, status, 0, 0)
      /\ UNCHANGED <<stage, registry, online, shell, transportVars, boxVars, bindings, call>>
  BY DEF Refuse, registryVars
<1>2. RegistryInv'
  BY <1>1, SameRegistry
<1>3. ShellInv'
  BY <1>1 DEF TransportInv, ShellInv
<1>4. TransportInv'
  BY <1>1, <1>3, BegunTransport
<1>5. /\ answer'.call = "access" /\ answer'.caller = caller /\ answer'.status = status /\ answer'.grant = 0
      /\ session' = session /\ bindings' = bindings /\ online' = online
  BY <1>1 DEF Answer, transportVars
<1>6. AnswerInv'
  BY <1>5 DEF AnswerInv, AccessExplained, ConsoleExplained, Statuses
<1>7. QED BY <1>2, <1>4, <1>6

LEMMA PlaceKeeps ==
  ASSUME TransportInv, RegistryInv, Begin, online, NEW request \in AccessRequests,
         NEW caller, NEW b \in Bindings, Place(caller, b, request),
         b.session = session, b.generation = generation, b.next >= 1, b.last < b.next,
         \/ caller = "former" /\ b.next = 1
         \/ caller \in Clients /\ b = bindings[caller] /\ b # NoBinding,
         UNCHANGED <<transportVars, lastAccepted, responses, served>>,
         UNCHANGED <<policyVars, registryVars>>
  PROVE  RegistryInv' /\ TransportInv' /\ AnswerInv'
<1>1. /\ stage # "boot" /\ call = NoCall /\ Drained(requests) /\ Drained(responses)
      /\ calls' \in 0 .. MaxCalls
  BY AtRest
<1>2. PICK m : m = [sequence |-> b.next, session |-> session, request |-> request]
  OBVIOUS
<1>3. PICK used : used = [b EXCEPT !.next = @ + 1]
  OBVIOUS
<1>4. /\ used \in Bindings /\ used.session = session /\ used.generation = generation
      /\ used.next = b.next + 1 /\ used.last = b.last
  BY <1>3 DEF Bindings
<1>5. /\ requests' = Put(requests, m)
      /\ call' = [caller |-> caller, binding |-> used, request |-> {request}, spins |-> 0]
      /\ answer' = NoAnswer /\ bindings' = bindings
  BY <1>1, <1>2, <1>3, DrainedBox DEF Place
<1>6. /\ stage' = stage /\ registry' = registry /\ online' = online /\ shell' = shell
      /\ endpoints' = endpoints /\ generation' = generation /\ session' = session
      /\ established' = established /\ lastAccepted' = lastAccepted /\ responses' = responses
      /\ served' = served
  BY DEF registryVars, transportVars
<1>7. RegistryInv'
  BY <1>6, SameRegistry
<1>8. SessionInv'
  BY <1>1, <1>6 DEF TransportInv, SessionInv
<1>9. BindingsInv'
  BY <1>5, <1>6 DEF TransportInv, BindingsInv, BindingOf, Others
<1>10. /\ call'.caller = caller /\ call'.binding = used /\ call'.request = {request} /\ call'.spins = 0
  BY <1>5
<1>11. call' # NoCall
  BY <1>10 DEF NoCall
<1>12. PICK n, l \in Nat : n = b.next /\ l = b.last
  BY DEF Bindings
<1>13. used.next = n + 1 /\ n + 1 >= 2 /\ (n + 1) - 1 = n /\ used.last = l /\ l < n
  BY <1>4, <1>12
<1>14. Holds(requests', [sequence |-> used.next - 1, session |-> session, request |-> request])
  BY <1>1, <1>2, <1>5, <1>12, <1>13, DrainedBox
<1>15. Awaits(request)'
  <2>1. online' /\ answer' = NoAnswer
    BY <1>5, <1>6
  <2>2. call' = [caller |-> call'.caller, binding |-> call'.binding, request |-> {request}, spins |-> 0]
    BY <1>5, <1>10
  <2>3. /\ call'.binding \in Bindings /\ call'.binding.session = session'
        /\ call'.binding.generation = generation'
        /\ call'.binding.next >= 2 /\ call'.binding.last < call'.binding.next - 1
    BY <1>4, <1>6, <1>10, <1>13
  <2>4. Holds(requests', [sequence |-> call'.binding.next - 1, session |-> session', request |-> request])
    BY <1>6, <1>10, <1>14
  <2>5. \/ call'.caller = "former" /\ call'.binding.next = 2
        \/ /\ call'.caller \in Clients
           /\ bindings'[call'.caller].session = session'
           /\ call'.binding.next = bindings'[call'.caller].next + 1
           /\ bindings'[call'.caller] # NoBinding
    <3>1. CASE caller = "former" /\ b.next = 1
      BY <1>4, <1>10, <3>1
    <3>2. CASE caller \in Clients /\ b = bindings[caller] /\ b # NoBinding
      BY <1>4, <1>5, <1>6, <1>10, <3>2
    <3>3. QED BY <3>1, <3>2
  <2>6. QED BY <2>1, <2>2, <2>3, <2>4, <2>5 DEF Awaits, Holds
<1>16. MailboxInv'
  <2>1. Drained(responses)'
    BY <1>1, <1>6 DEF Drained
  <2>2. QED BY <1>11, <1>15, <2>1 DEF MailboxInv
<1>17. ShellInv'
  BY <1>6 DEF TransportInv, ShellInv
<1>18. AnswerInv'
  <2>1. answer'.call = "none" /\ answer'.status = "none"
    BY <1>5 DEF NoAnswer
  <2>2. QED BY <2>1 DEF AnswerInv, AccessExplained, ConsoleExplained, Statuses
<1>19. QED BY <1>7, <1>8, <1>9, <1>16, <1>17, <1>18 DEF TransportInv

LEMMA SubmitBoundKeeps ==
  ASSUME TransportInv, RegistryInv, NEW c \in Clients, NEW r \in AccessRequests, SubmitBound(c, r)
  PROVE  RegistryInv' /\ TransportInv' /\ AnswerInv'
<1>0. PICK b : b = bindings[c]
  OBVIOUS
<1>1. /\ Begin /\ UNCHANGED <<policyVars, registryVars>>
      /\ b \in Bindings /\ (b = NoBinding \/ (online /\ BindingOf(c, b)))
      /\ endpoints = IF online THEN "ONLINE" ELSE "OFFLINE"
  BY <1>0 DEF SubmitBound, TransportInv, BindingsInv, SessionInv
<1>2. CASE BindingStatus(b) # "SUCCESS" /\ Refuse("access", c, BindingStatus(b))
  <2>1. PICK status : status = BindingStatus(b)
    OBVIOUS
  <2>2. CASE b = NoBinding
    <3>1. status = "TRANSPORT_STALE"
      BY <2>1, <2>2 DEF BindingStatus
    <3>2. QED BY <1>0, <1>1, <1>2, <2>1, <2>2, <3>1, AccessRefused
  <2>3. CASE b # NoBinding
    <3>1. online /\ b.generation = generation /\ b.session # session
      BY <1>1, <1>2, <2>3 DEF BindingStatus, BindingOf
    <3>2. status = "TRANSPORT_STALE" /\ session.client \in Clients \ {c}
      BY <1>1, <2>1, <2>3, <3>1 DEF BindingStatus, BindingOf
    <3>3. QED BY <1>0, <1>1, <1>2, <2>1, <3>2, AccessRefused
  <2>4. QED BY <2>2, <2>3
<1>3. CASE BindingStatus(b) = "SUCCESS" /\ Place(c, b, r)
           /\ UNCHANGED <<transportVars, lastAccepted, responses, served>>
  <2>1. b # NoBinding /\ b.session = session
    BY <1>3 DEF BindingStatus
  <2>2. online /\ b.generation = generation /\ b.next >= 1 /\ b.last < b.next
    BY <1>1, <2>1 DEF BindingOf
  <2>3. QED BY <1>0, <1>1, <1>3, <2>1, <2>2, PlaceKeeps
<1>4. QED BY <1>0, <1>2, <1>3 DEF SubmitBound

LEMMA SubmitKeeps ==
  ASSUME TransportInv, RegistryInv, NEW r \in AccessRequests, Submit(r)
  PROVE  RegistryInv' /\ TransportInv' /\ AnswerInv'
<1>1. Begin /\ UNCHANGED <<policyVars, registryVars>> /\ (Exported <=> online) /\ online \in BOOLEAN
  BY AtRest DEF Submit
<1>2. CASE ~Exported /\ Refuse("access", "former", "TRANSPORT_OFFLINE")
  BY <1>1, <1>2, AccessRefused
<1>3. CASE Exported /\ Place("former", FreshBinding(session), r)
           /\ UNCHANGED <<transportVars, lastAccepted, responses, served>>
  <2>1. PICK b : b = FreshBinding(session)
    OBVIOUS
  <2>2. session \in Sessions
    BY DEF TransportInv, SessionInv
  <2>3. b \in Bindings /\ b.generation = generation /\ b.session = session /\ b.next = 1 /\ b.last = 0
    BY <1>1, <1>3, <2>1, <2>2, FreshBindingOf
  <2>4. b.next >= 1 /\ b.last < b.next
    BY <2>3
  <2>5. Place("former", b, r) /\ online
    BY <1>1, <1>3, <2>1
  <2>6. QED BY <1>1, <1>3, <2>3, <2>4, <2>5, PlaceKeeps
<1>4. QED BY <1>2, <1>3 DEF Submit

-----------------------------------------------------------------------------
(* A grant is found exactly when one permits the request.                  *)

Suits(g, type, id, cap) ==
  g.state = "ACTIVE" /\ g.cap = cap /\ g.type = type /\ g.principal = id % IdSpan

LEMMA FoundActive ==
  ASSUME NEW reg \in Registries, NEW type, NEW id, NEW cap,
         NEW i, i = ActiveGrant(reg, type, id, cap)
  PROVE  /\ i = 0 => \A k \in 1 .. Len(reg.grants) : ~Suits(reg.grants[k], type, id, cap)
         /\ i # 0 => i \in 1 .. Len(reg.grants) /\ Suits(reg.grants[i], type, id, cap)
<1> DEFINE I == {k \in 1 .. Len(reg.grants) : Suits(reg.grants[k], type, id, cap)}
<1>1. i = IF I = {} THEN 0 ELSE Min(I)
  BY DEF ActiveGrant, SelectInSeq, Suits
<1>2. I \in SUBSET Nat /\ \A k \in I : k # 0
  BY RegistryFacts
<1>3. I # {} => Min(I) \in I
  BY <1>2, MinOfNaturals
<1>4. CASE I = {}
  BY <1>1, <1>4
<1>5. CASE I # {}
  BY <1>1, <1>2, <1>3, <1>5
<1>6. QED BY <1>4, <1>5

LEMMA AccessChecked ==
  ASSUME registry \in Registries, NEW r
  PROVE  LET access == CheckAccess(registry, r)
         IN  /\ access.status \in {"SUCCESS", "NOT_FOUND"}
             /\ access.status = "SUCCESS" => access.grant \in {g.id : g \in Permitting(r)}
             /\ access.status = "NOT_FOUND" => Permitting(r) = {}
<1> DEFINE b == ProfileOf(registry.context, r.type, r.name)
           block == registry.context.blocks[b]
           own == ActiveGrant(registry, r.type, r.id, r.cap)
           other == ActiveGrant(registry, block.type, block.id, r.cap)
           i == MatchingGrant(registry, r)
           access == CheckAccess(registry, r)
<1>1. DOMAIN registry.grants = 1 .. Len(registry.grants)
  BY RegistryFacts
<1>2. /\ own = 0 => \A k \in 1 .. Len(registry.grants) : ~Suits(registry.grants[k], r.type, r.id, r.cap)
      /\ own # 0 => own \in 1 .. Len(registry.grants) /\ Suits(registry.grants[own], r.type, r.id, r.cap)
  BY FoundActive
<1>3. /\ other = 0 => \A k \in 1 .. Len(registry.grants) : ~Suits(registry.grants[k], block.type, block.id, r.cap)
      /\ other # 0 => other \in 1 .. Len(registry.grants) /\ Suits(registry.grants[other], block.type, block.id, r.cap)
  BY FoundActive
<1>4. i = IF own # 0 \/ b = 0 THEN own ELSE other
  BY DEF MatchingGrant
<1>5. Principals(r) = {<<r.type, r.id % IdSpan>>} \cup
                      IF b = 0 THEN {} ELSE {<<block.type, block.id % IdSpan>>}
  BY DEF Principals
<1>6. access = IF i = 0 THEN Answered(registry, "NOT_FOUND", 0)
               ELSE Answered(registry, "SUCCESS", registry.grants[i].id)
  BY DEF CheckAccess
<1> HIDE DEF b, own, other, i, access
<1>7. \A g : g \in Permitting(r) <=>
               /\ g \in ToSet(registry.grants)
               /\ Suits(g, r.type, r.id, r.cap) \/ (b # 0 /\ Suits(g, block.type, block.id, r.cap))
  <2> SUFFICES ASSUME NEW g
               PROVE  g \in Permitting(r) <=>
                        /\ g \in ToSet(registry.grants)
                        /\ Suits(g, r.type, r.id, r.cap) \/ (b # 0 /\ Suits(g, block.type, block.id, r.cap))
    OBVIOUS
  <2>1. <<g.type, g.principal>> \in Principals(r) <=>
          \/ g.type = r.type /\ g.principal = r.id % IdSpan
          \/ b # 0 /\ g.type = block.type /\ g.principal = block.id % IdSpan
    BY <1>5
  <2>2. QED BY <2>1 DEF Permitting, Suits
<1>8. \A g : g \in ToSet(registry.grants) <=> \E k \in 1 .. Len(registry.grants) : g = registry.grants[k]
  BY <1>1 DEF ToSet
<1>9. CASE i = 0
  <2>1. access.status = "NOT_FOUND"
    BY <1>6, <1>9 DEF Answered
  <2>2. own = 0 /\ (b = 0 \/ other = 0)
    BY <1>4, <1>9
  <2>3. Permitting(r) = {}
    <3> SUFFICES ASSUME NEW g \in Permitting(r) PROVE FALSE
      OBVIOUS
    <3>1. PICK k \in 1 .. Len(registry.grants) : g = registry.grants[k]
      BY <1>7, <1>8
    <3>2. ~Suits(g, r.type, r.id, r.cap)
      BY <1>2, <2>2, <3>1
    <3>3. b # 0 => ~Suits(g, block.type, block.id, r.cap)
      BY <1>3, <2>2, <3>1
    <3>4. QED BY <1>7, <3>2, <3>3
  <2>4. QED BY <2>1, <2>3 DEF access
<1>10. CASE i # 0
  <2>1. access.status = "SUCCESS" /\ access.grant = registry.grants[i].id
    BY <1>6, <1>10 DEF Answered
  <2>2. i \in 1 .. Len(registry.grants) /\ registry.grants[i] \in Permitting(r)
    <3>1. CASE own # 0
      BY <1>2, <1>4, <1>7, <1>8, <3>1
    <3>2. CASE own = 0
      BY <1>3, <1>4, <1>7, <1>8, <1>10, <3>2
    <3>3. QED BY <3>1, <3>2
  <2>3. access.grant \in {g.id : g \in Permitting(r)}
    BY <2>1, <2>2
  <2>4. QED BY <2>1, <2>3 DEF access
<1>11. QED BY <1>9, <1>10

-----------------------------------------------------------------------------
(* A round of waiting serves the request that waits, and its answer is     *)
(* taken in the same round.                                                *)

LEMMA ServedAtOnce ==
  ASSUME TransportInv, registry \in Registries, NEW r \in AccessRequests, call # NoCall, Awaits(r), Spin
  PROVE  LET n == call.binding.next - 1
             m == [sequence |-> n, session |-> session, request |-> r]
         IN  /\ n \in Nat /\ n >= 1
             /\ Drained(requests') /\ Drained(responses')
             /\ lastAccepted' = (IF n > lastAccepted THEN n ELSE lastAccepted)
             /\ served' = (IF n > lastAccepted THEN served \cup {call.caller} ELSE served)
             /\ Return(Reply(m).status, Reply(m).grant, [call.binding EXCEPT !.last = n])
<1>1. PICK b \in Bindings : b = call.binding
  BY DEF Awaits
<1>2. PICK next, last \in Nat : next = b.next /\ last = b.last /\ next >= 2 /\ last < next - 1
  BY <1>1 DEF Awaits, Bindings
<1>3. PICK n \in Nat : n = next - 1 /\ n >= 1 /\ last < n
  BY <1>2
<1>4. PICK m : m = [sequence |-> n, session |-> session, request |-> r]
  OBVIOUS
<1>5. m.sequence = n /\ m.session = session /\ m.request = r
  BY <1>4
<1>6. Holds(requests, m) /\ call.binding.next - 1 = n /\ b.session = session
  BY <1>1, <1>2, <1>3, <1>4 DEF Awaits
<1>7. AtHead(requests) = {m} /\ Drained(TakeHead(requests))
  BY <1>6, HeldBox
<1>8. PICK rep : rep = Reply(m)
  OBVIOUS
<1>9. rep.sequence = n /\ rep.session = session
  BY <1>5, <1>8 DEF Reply
<1>10. PICK filled : filled = Put(responses, rep)
  OBVIOUS
<1>11. CanPut(responses) /\ Holds(filled, rep)
  BY <1>10, DrainedBox DEF TransportInv, MailboxInv
<1>12. AtHead(filled) = {rep} /\ Drained(TakeHead(filled))
  BY <1>11, HeldBox
<1>13. ServeOnce = [requests |-> TakeHead(requests), responses |-> filled,
                    last |-> IF Accepts(m) THEN m.sequence ELSE lastAccepted,
                    accepted |-> Accepts(m)]
  <2>1. ~(AtHead(requests) = {} \/ ~CanPut(responses)) /\ (CHOOSE x \in AtHead(requests) : TRUE) = m
    BY <1>7, <1>11
  <2>2. QED BY <1>8, <1>10, <2>1 DEF ServeOnce
<1>14. Accepts(m) <=> n > lastAccepted
  BY <1>5 DEF Accepts
<1>15. /\ ServeOnce.requests = TakeHead(requests) /\ ServeOnce.responses = filled
       /\ ServeOnce.last = IF n > lastAccepted THEN n ELSE lastAccepted
       /\ ServeOnce.accepted <=> n > lastAccepted
  BY <1>5, <1>13, <1>14
<1>16. PICK after : after = ServeOnce
  OBVIOUS
<1>17. /\ requests' = TakeHead(requests)
       /\ lastAccepted' = IF n > lastAccepted THEN n ELSE lastAccepted
       /\ served' = IF n > lastAccepted THEN served \cup {call.caller} ELSE served
       /\ Wait(after) /\ after.responses = filled
  BY <1>15, <1>16 DEF Spin
<1>18. {x \in AtHead(after.responses) : x.sequence = call.binding.next - 1} = {rep}
  BY <1>6, <1>9, <1>12, <1>17
<1>19. Heard(rep) = "taken"
  BY <1>1, <1>2, <1>3, <1>6, <1>9 DEF Heard
<1>20. responses' = TakeHead(filled) /\ Return(rep.status, rep.grant, [call.binding EXCEPT !.last = n])
  <2>1. (CHOOSE x \in {rep} : TRUE) = rep /\ {rep} # {}
    OBVIOUS
  <2>2. QED BY <1>6, <1>17, <1>18, <1>19, <2>1 DEF Wait
<1>21. QED BY <1>3, <1>4, <1>6, <1>7, <1>8, <1>12, <1>17, <1>20

LEMMA SpinKeeps ==
  ASSUME TransportInv, RegistryInv, Spin
  PROVE  RegistryInv' /\ TransportInv' /\ AnswerInv'
<1>1. call # NoCall
  BY DEF Spin
<1>2. PICK r \in AccessRequests : Awaits(r)
  BY <1>1 DEF TransportInv, MailboxInv
<1>3. registry \in Registries
  BY DEF RegistryInv, Ledger
<1>4. PICK n : n = call.binding.next - 1
  OBVIOUS
<1>5. PICK m : m = [sequence |-> n, session |-> session, request |-> r]
  OBVIOUS
<1>6. /\ n \in Nat /\ n >= 1 /\ Drained(requests') /\ Drained(responses')
      /\ lastAccepted' = (IF n > lastAccepted THEN n ELSE lastAccepted)
      /\ served' = (IF n > lastAccepted THEN served \cup {call.caller} ELSE served)
      /\ Return(Reply(m).status, Reply(m).grant, [call.binding EXCEPT !.last = n])
  BY <1>1, <1>2, <1>3, <1>4, <1>5, ServedAtOnce
<1>7. /\ stage' = stage /\ registry' = registry /\ online' = online /\ shell' = shell
      /\ endpoints' = endpoints /\ generation' = generation /\ session' = session
      /\ established' = established /\ calls' = calls
  BY DEF Spin, registryVars, transportVars
<1>8. PICK b \in Bindings : b = call.binding
  BY <1>2 DEF Awaits
<1>9. PICK next \in Nat : next = b.next /\ next >= 2 /\ n = next - 1
  BY <1>2, <1>4, <1>8 DEF Awaits, Bindings
<1>10. PICK taken : taken = [b EXCEPT !.last = n]
  OBVIOUS
<1>11. taken \in Bindings /\ taken.session = session /\ taken.generation = generation
       /\ taken.next = next /\ taken.last = n
  BY <1>2, <1>6, <1>8, <1>9, <1>10 DEF Bindings, Awaits
<1>12. PICK status, grant : status = Reply(m).status /\ grant = Reply(m).grant
  OBVIOUS
<1>13. PICK c : c = call.caller
  OBVIOUS
<1>14. /\ answer' = [call |-> "access", caller |-> c, request |-> {r},
                     status |-> status, grant |-> grant, sequence |-> n]
       /\ bindings' = [d \in Clients |-> IF d = c THEN taken ELSE bindings[d]]
       /\ call' = NoCall
  <2>1. call.request = {r}
    BY <1>2 DEF Awaits
  <2>2. taken.next - 1 = n
    BY <1>9, <1>11
  <2>3. Return(status, grant, taken)
    BY <1>6, <1>8, <1>10, <1>12
  <2>4. QED BY <1>13, <2>1, <2>2, <2>3 DEF Return, Answer
<1>15. /\ lastAccepted \in Nat /\ served \in SUBSET (Clients \cup {"former"})
       /\ (lastAccepted = 0 <=> served = {}) /\ online /\ online \in BOOLEAN
       /\ stage # "boot"
  BY <1>1, <1>2 DEF TransportInv, SessionInv, Awaits
<1>16. \/ c = "former" /\ n = 1
       \/ /\ c \in Clients /\ bindings[c].session = session /\ bindings[c] # NoBinding
          /\ n = bindings[c].next
  <2>1. CASE c = "former" /\ next = 2
    BY <1>9, <2>1
  <2>2. CASE c \in Clients /\ bindings[c].session = session /\ bindings[c] # NoBinding
             /\ next = bindings[c].next + 1
    <3>1. bindings[c].next \in Nat
      BY <2>2 DEF TransportInv, BindingsInv, Bindings
    <3>2. QED BY <1>9, <2>2, <3>1
  <2>3. QED BY <1>2, <1>8, <1>9, <1>13, <2>1, <2>2 DEF Awaits
<1>17. c \in Clients \cup {"former"}
  BY <1>16
<1>18. RegistryInv'
  BY <1>7, SameRegistry
<1>19. lastAccepted' \in Nat /\ served' \in SUBSET (Clients \cup {"former"})
       /\ (lastAccepted' = 0 <=> served' = {})
  <2>1. CASE n > lastAccepted
    BY <1>6, <1>13, <1>15, <1>17, <2>1
  <2>2. CASE ~(n > lastAccepted)
    BY <1>6, <1>15, <2>2
  <2>3. QED BY <2>1, <2>2
<1>20. SessionInv'
  BY <1>7, <1>15, <1>19 DEF TransportInv, SessionInv
<1>21. ASSUME ~(n > lastAccepted)
       PROVE  Others(c) # {} /\ served' = served
  <2>1. served' = served /\ served # {}
    BY <1>6, <1>15, <1>21
  <2>2. CASE c = "former" /\ n = 1
    BY <2>1, <2>2 DEF Others
  <2>3. CASE c \in Clients /\ bindings[c].session = session /\ bindings[c] # NoBinding
             /\ n = bindings[c].next
    <3>1. Others(c) = {} => lastAccepted < n
      BY <2>3 DEF TransportInv, BindingsInv, BindingOf
    <3>2. QED BY <1>6, <1>15, <1>21, <2>1, <3>1
  <2>4. QED BY <1>16, <2>2, <2>3
<1>22. BindingsInv'
  <2>1. bindings \in [Clients -> Bindings]
    BY DEF TransportInv, BindingsInv
  <2>2. bindings' \in [Clients -> Bindings]
    BY <1>11, <1>14, <2>1
  <2>3. ASSUME NEW d \in Clients
        PROVE  bindings'[d] = NoBinding \/ (online' /\ BindingOf(d, bindings[d])')
    <3>1. CASE d = c
      <4>1. bindings'[d] = taken
        BY <1>14, <3>1
      <4>2. next >= 1 /\ n < next
        BY <1>6, <1>9
      <4>3. Others(d)' = {} => lastAccepted' < next
        <5>1. CASE n > lastAccepted
          BY <1>6, <4>2, <5>1
        <5>2. CASE ~(n > lastAccepted)
          <6>1. d # "former" /\ served' = served
            BY <1>21, <5>2, NamesApart
          <6>2. Others(d)' = Others(c)
            BY <3>1, <6>1 DEF Others
          <6>3. QED BY <1>21, <5>2, <6>2
        <5>3. QED BY <5>1, <5>2
      <4>4. BindingOf(d, bindings[d])'
        BY <1>7, <1>11, <4>1, <4>2, <4>3 DEF BindingOf
      <4>5. QED BY <1>7, <1>15, <4>4
    <3>2. CASE d # c
      <4>1. bindings'[d] = bindings[d]
        BY <1>14, <3>2
      <4>2. CASE bindings[d] = NoBinding
        BY <4>1, <4>2
      <4>3. CASE bindings[d] # NoBinding
        <5>1. PICK e \in Bindings : e = bindings[d] /\ e = bindings'[d]
          BY <2>1, <4>1
        <5>2. /\ e.generation = generation /\ e.next >= 1 /\ e.last < e.next
              /\ e.session # session => session.client \in Clients \ {d}
              /\ e.session = session /\ Others(d) = {} => lastAccepted < e.next
          BY <4>3, <5>1 DEF TransportInv, BindingsInv, BindingOf
        <5>3. Others(d)' = {} => Others(d) = {} /\ lastAccepted' = lastAccepted
          <6>1. Others(d)' = served' \ {d} /\ Others(d) = served \ {d}
            BY NamesApart DEF Others
          <6>2. CASE n > lastAccepted
            BY <1>6, <1>13, <3>2, <6>1, <6>2
          <6>3. CASE ~(n > lastAccepted)
            BY <1>6, <6>1, <6>3
          <6>4. QED BY <6>2, <6>3
        <5>4. BindingOf(d, bindings[d])'
          BY <1>7, <5>1, <5>2, <5>3 DEF BindingOf
        <5>5. QED BY <1>7, <1>15, <5>4
      <4>4. QED BY <4>2, <4>3
    <3>3. QED BY <3>1, <3>2
  <2>4. QED BY <2>2, <2>3 DEF BindingsInv
<1>23. MailboxInv'
  BY <1>6, <1>14 DEF MailboxInv, Drained
<1>24. ShellInv'
  BY <1>7 DEF TransportInv, ShellInv
<1>25. AnswerInv'
  <2>1. /\ answer'.call = "access" /\ answer'.caller = c /\ answer'.request = {r}
        /\ answer'.status = status /\ answer'.grant = grant /\ answer'.sequence = n
    BY <1>14
  <2>2. Permitting(r)' = Permitting(r)
    BY <1>7 DEF Permitting, Principals
  <2>3. PICK access : access = CheckAccess(registry, r)
    OBVIOUS
  <2>4. /\ access.status \in {"SUCCESS", "NOT_FOUND"}
        /\ access.status = "SUCCESS" => access.grant \in {g.id : g \in Permitting(r)}
        /\ access.status = "NOT_FOUND" => Permitting(r) = {}
    BY <1>3, <2>3, AccessChecked
  <2>5. m.session = session /\ m.sequence = n /\ m.request = r
    BY <1>5
  <2>6. CASE n > lastAccepted
    <3>1. status = access.status /\ grant = access.grant
      BY <1>6, <1>12, <1>15, <2>3, <2>5, <2>6 DEF Reply
    <3>2. lastAccepted' = n /\ (c = "former" => served' = {"former"})
      <4>1. c = "former" => n = 1
        BY <1>16, NamesApart
      <4>2. c = "former" => lastAccepted = 0
        BY <1>15, <2>6, <4>1
      <4>3. QED BY <1>6, <1>13, <1>15, <2>6, <4>2
    <3>3. AccessExplained'
      BY <1>7, <1>15, <2>1, <2>2, <2>4, <3>1, <3>2 DEF AccessExplained
    <3>4. QED BY <2>1, <2>4, <3>1, <3>3 DEF AnswerInv, ConsoleExplained, Statuses
  <2>7. CASE ~(n > lastAccepted)
    <3>1. status = "REPLAY_DETECTED"
      BY <1>6, <1>12, <1>15, <2>5, <2>7 DEF Reply
    <3>2. Others(c)' # {}
      BY <1>21, <2>7 DEF Others
    <3>3. AccessExplained'
      <4>1. Others(answer.caller)' = Others(c)'
        BY <2>1 DEF Others
      <4>2. QED BY <2>1, <3>1, <3>2, <4>1 DEF AccessExplained
    <3>4. QED BY <2>1, <3>1, <3>3 DEF AnswerInv, ConsoleExplained, Statuses
  <2>8. QED BY <2>6, <2>7
<1>26. QED BY <1>18, <1>20, <1>22, <1>23, <1>24, <1>25 DEF TransportInv

-----------------------------------------------------------------------------
(* The invariant: the policy as far as it is read, the manager's tables    *)
(* and their ledger, the transport at rest or with one request under way,  *)
(* and what the last answer may say.                                       *)

CapabilitiesInv == PolicyInv /\ RegistryInv /\ TransportInv /\ AnswerInv

LEMMA CapabilitiesStart == Init => CapabilitiesInv
<1> SUFFICES ASSUME Init PROVE CapabilitiesInv
  OBVIOUS
<1>1. PolicyInv
  BY PolicyStarts DEF Init
<1>2. RegistryInv
  <2>1. PICK c : c = [blocks |-> <<>>, assignments |-> <<>>]
    OBVIOUS
  <2>2. c \in Contexts
    <3>1. <<>> \in Seq(Blocks) /\ <<>> \in Seq(Assignments)
      OBVIOUS
    <3>2. QED BY <2>1, <3>1 DEF Contexts
  <2>3. EmptyRegistry = [EmptyRegistry EXCEPT !.context = c]
    BY <2>1 DEF EmptyRegistry
  <2>4. Ledger(registry) /\ ~online
    BY <2>2, <2>3, EmptyLedger DEF Init
  <2>5. QED BY <2>4 DEF RegistryInv
<1>3. AnswerInv
  <2>1. answer.call = "none" /\ answer.status = "none"
    BY DEF Init, NoAnswer
  <2>2. QED BY <2>1 DEF AnswerInv, AccessExplained, ConsoleExplained, Statuses
<1>4. QED BY <1>1, <1>2, <1>3, TransportStarts DEF CapabilitiesInv

SamePolicy == UNCHANGED policyVars

LEMMA PolicyStays ==
  ASSUME PolicyInv, SamePolicy
  PROVE  PolicyInv'
BY DEF PolicyInv, SamePolicy, policyVars, Numbered

LEMMA CapabilitiesKept ==
  ASSUME CapabilitiesInv, [Next]_vars
  PROVE  CapabilitiesInv'
<1>0. PolicyInv /\ RegistryInv /\ TransportInv /\ AnswerInv
  BY DEF CapabilitiesInv
<1>1. CASE LoadPolicy
  <2>1. PolicyInv'
    BY <1>0, <1>1, PolicyReads DEF LoadPolicy
  <2>2. UNCHANGED <<stage, registry, online, shell, transportVars, boxVars, bindings, call, answer, calls>>
    BY <1>1 DEF LoadPolicy, registryVars
  <2>3. QED BY <1>0, <2>1, <2>2, SameRegistry, SameTransport, SameAnswer DEF CapabilitiesInv
<1>2. CASE Launch
  <2>1. SamePolicy
    BY <1>2 DEF Launch, SamePolicy
  <2>2. QED BY <1>0, <1>2, <2>1, PolicyStays, LaunchKeeps DEF CapabilitiesInv
<1>3. CASE Mutates
  <2>1. SamePolicy
    BY <1>3 DEF Mutates, AddRecord, AddGrant, Revoke, Suspend, Restore, Mutation, SamePolicy, policyVars
  <2>2. QED BY <1>0, <1>3, <2>1, PolicyStays, MutationKeeps DEF CapabilitiesInv
<1>4. CASE \E typed \in ConsoleLines : TypeLine(typed)
  <2>1. PICK typed \in ConsoleLines : TypeLine(typed)
    BY <1>4
  <2>2. SamePolicy
    BY <2>1 DEF TypeLine, SamePolicy, policyVars
  <2>3. QED BY <1>0, <2>1, <2>2, PolicyStays, TypingKeeps DEF CapabilitiesInv
<1>5. ASSUME NEW c \in Clients, NEW r \in ConnectRequests, Connect(c, r)
      PROVE  CapabilitiesInv'
  <2>1. SamePolicy
    BY <1>5 DEF Connect, SamePolicy
  <2>2. QED BY <1>0, <1>5, <2>1, PolicyStays, ConnectKeeps DEF CapabilitiesInv
<1>6. ASSUME NEW c \in Clients, Bind(c)
      PROVE  CapabilitiesInv'
  <2>1. SamePolicy
    BY <1>6 DEF Bind, SamePolicy
  <2>2. QED BY <1>0, <1>6, <2>1, PolicyStays, BindKeeps DEF CapabilitiesInv
<1>7. ASSUME NEW c \in Clients, NEW r \in AccessRequests, SubmitBound(c, r)
      PROVE  CapabilitiesInv'
  <2>1. SamePolicy
    BY <1>7 DEF SubmitBound, SamePolicy
  <2>2. QED BY <1>0, <1>7, <2>1, PolicyStays, SubmitBoundKeeps DEF CapabilitiesInv
<1>8. ASSUME NEW r \in AccessRequests, Submit(r)
      PROVE  CapabilitiesInv'
  <2>1. SamePolicy
    BY <1>8 DEF Submit, SamePolicy
  <2>2. QED BY <1>0, <1>8, <2>1, PolicyStays, SubmitKeeps DEF CapabilitiesInv
<1>9. CASE Spin
  <2>1. SamePolicy
    BY <1>9 DEF Spin, SamePolicy
  <2>2. QED BY <1>0, <1>9, <2>1, PolicyStays, SpinKeeps DEF CapabilitiesInv
<1>10. CASE UNCHANGED vars
  <2>1. UNCHANGED <<stage, registry, online, shell, transportVars, boxVars, bindings, call, answer, calls>>
        /\ SamePolicy
    BY <1>10 DEF vars, registryVars, SamePolicy
  <2>2. QED BY <1>0, <2>1, PolicyStays, SameRegistry, SameTransport, SameAnswer DEF CapabilitiesInv
<1>11. QED BY <1>1, <1>2, <1>3, <1>4, <1>5, <1>6, <1>7, <1>8, <1>9, <1>10 DEF Next, Mutates

THEOREM CapabilitiesInvariant == Spec => []CapabilitiesInv
<1>1. Init => CapabilitiesInv
  BY CapabilitiesStart
<1>2. CapabilitiesInv /\ [Next]_vars => CapabilitiesInv'
  BY CapabilitiesKept
<1>3. QED BY <1>1, <1>2, PTL DEF Spec

-----------------------------------------------------------------------------
(* What the invariant says.                                                *)

LEMMA BoxesInPlace ==
  ASSUME MailboxInv
  PROVE  \A box \in {requests, responses} : box.produce \in Slots /\ box.consume \in Slots
<1>1. \A box : Drained(box) => box.produce \in Slots /\ box.consume \in Slots
  BY DrainedBox
<1>2. \A box, m : Holds(box, m) => box.produce \in Slots /\ box.consume \in Slots
  BY HeldBox
<1>3. Drained(requests) \/ \E m : Holds(requests, m)
  BY DEF MailboxInv, Awaits
<1>4. QED BY <1>1, <1>2, <1>3 DEF MailboxInv

(* Every table keeps its bounds and every variable its values, whatever    *)
(* the file says and the callers ask (the appends of                       *)
(* CapabilitiesRegistry.c and of LosMonitorLoadCapabilitiesFromEsp).       *)
THEOREM CapabilitiesTyped == Spec => []TypeOK
<1>1. CapabilitiesInv => TypeOK
  <2> SUFFICES ASSUME CapabilitiesInv PROVE TypeOK
    OBVIOUS
  <2>1. /\ PolicyInv /\ Ledger(registry) /\ SessionInv /\ BindingsInv /\ MailboxInv /\ ShellInv
        /\ answer.status \in Statuses
    BY DEF CapabilitiesInv, RegistryInv, TransportInv, AnswerInv
  <2>2. /\ file \in PolicyFiles /\ line \in 1 .. Len(file) + 1
        /\ openBlock \in BOOLEAN
        /\ loading \in {"reading", "success", "not_found", "load_error", "buffer_too_small"}
        /\ Len(policy.blocks) <= MaxBlocks /\ Len(policy.assignments) <= MaxAssignments
        /\ policy.events \in 0 .. MaxBootEvents
    <3>1. policy.events \in Nat /\ policy.events <= MaxBootEvents
      BY <2>1, PolicyFacts DEF PolicyInv
    <3>2. QED BY <2>1, <3>1, PolicySizes DEF PolicyInv
  <2>3. \A b \in ToSet(policy.blocks) : Len(b.grants) <= MaxGrantsPerBlock
    <3>1. DOMAIN policy.blocks = 1 .. Len(policy.blocks)
      BY <2>1, PolicyFacts DEF PolicyInv
    <3>2. QED BY <2>1, <3>1 DEF PolicyInv, Numbered, ToSet
  <2>4. /\ Len(registry.records) <= MaxRecords /\ Len(registry.grants) <= MaxGrants
        /\ Len(registry.events) <= MaxEvents /\ registry.nextGrant \in Nat \ {0}
    BY <2>1, RegistryFacts DEF Ledger, Bounded, Ids
  <2>5. /\ stage \in {"boot", "online", "denied", "failed"} /\ online \in BOOLEAN
        /\ endpoints \in {"OFFLINE", "ONLINE"} /\ generation \in {0, 1}
        /\ session \in Sessions /\ established \in BOOLEAN /\ lastAccepted \in Nat
        /\ served \subseteq Clients \cup {"former"} /\ calls \in 0 .. MaxCalls
    BY <2>1 DEF SessionInv
  <2>6. shell.online = online /\ shell.authenticated \in BOOLEAN /\ shell.launch \in Statuses
    BY <2>1 DEF ShellInv, Shells, Statuses
  <2>7. \A c \in Clients : bindings[c].session \in Sessions /\ bindings[c].last <= bindings[c].next
    <3> SUFFICES ASSUME NEW c \in Clients
                 PROVE  bindings[c].session \in Sessions /\ bindings[c].last <= bindings[c].next
      OBVIOUS
    <3>1. PICK b \in Bindings : b = bindings[c]
      BY <2>1 DEF BindingsInv
    <3>2. PICK next, last \in Nat : next = b.next /\ last = b.last
      BY DEF Bindings
    <3>3. b = NoBinding \/ last < next
      BY <2>1, <3>1, <3>2 DEF BindingsInv, BindingOf
    <3>4. b = NoBinding => last = next
      BY <3>2 DEF NoBinding
    <3>5. last <= next
      BY <3>3, <3>4
    <3>6. QED BY <3>1, <3>2, <3>5 DEF Bindings
  <2>8. call.caller \in Clients \cup {"none", "former"} /\ call.spins \in 0 .. TransportSpin
    <3>1. CASE call = NoCall
      BY <3>1, CallsAssumption DEF NoCall
    <3>2. CASE call # NoCall
      <4>1. PICK r \in AccessRequests : Awaits(r)
        BY <2>1, <3>2 DEF MailboxInv
      <4>2. call.spins = 0
        BY <4>1 DEF Awaits
      <4>3. QED BY <4>1, <4>2, CallsAssumption DEF Awaits
    <3>3. QED BY <3>1, <3>2
  <2>9. \A box \in {requests, responses} : box.produce \in Slots /\ box.consume \in Slots
    BY <2>1, BoxesInPlace
  <2>10. QED BY <2>1, <2>2, <2>3, <2>4, <2>5, <2>6, <2>7, <2>8, <2>9 DEF TypeOK
<1>2. QED BY <1>1, CapabilitiesInvariant, PTL

(* Whoever asks, in whatever order: no request is lost or answered to the  *)
(* wrong caller, an answer of the manager is what the registry says, and a *)
(* client that alone has used its session is never taken for a replay      *)
(* (LosCapabilitiesSubmitRequestUsingBinding, ...ServiceTransportOnce).    *)
THEOREM CapabilitiesAnswer == Spec => []AnswersFollowGrants
<1>1. CapabilitiesInv => AnswersFollowGrants
  <2> SUFFICES ASSUME CapabilitiesInv PROVE AnswersFollowGrants
    OBVIOUS
  <2>1. MailboxInv /\ ShellInv /\ AccessExplained /\ ConsoleExplained
    BY DEF CapabilitiesInv, TransportInv, AnswerInv
  <2>2. call = NoCall => Drained(requests) /\ Drained(responses)
    BY <2>1 DEF MailboxInv
  <2>3. call = NoCall => /\ Ready(requests) = {} /\ Ready(responses) = {}
                         /\ requests.consume = requests.produce
                         /\ responses.consume = responses.produce
    BY <2>2, DrainedBox
  <2>4. ASSUME answer.call = "access", answer.caller \in Clients, served \subseteq {answer.caller}
        PROVE  answer.status # "REPLAY_DETECTED"
    <3>1. Others(answer.caller) = {}
      BY <2>4, NamesApart DEF Others
    <3>2. QED BY <2>1, <2>4, <3>1 DEF AccessExplained
  <2>5. answer.call = "access" => answer.status \notin {"INVALID_STATE", "AUTH_FAILED", "TABLE_FULL"}
    BY <2>1 DEF AccessExplained
  <2>6. QED BY <2>1, <2>3, <2>4, <2>5 DEF AnswersFollowGrants, AccessExplained
<1>2. QED BY <1>1, CapabilitiesInvariant, PTL

-----------------------------------------------------------------------------
(* A manager that is handed the context imports what this one imported.    *)

LEMMA HandedOnWhole ==
  ASSUME NEW reg \in Registries, Descends(reg)
  PROVE  HandedOn(reg, MaxBlocks) = reg.context
<1>1. PICK c \in Contexts : c = reg.context
  BY RegistryFacts
<1>2. PICK s \in Seq(Blocks) : s = c.blocks
  BY <1>1 DEF Contexts
<1>3. PICK n \in Nat : n = Len(s) /\ n <= MaxBlocks /\ s # <<>>
  BY <1>1, <1>2 DEF Descends
<1>4. Min({n, MaxBlocks}) = n
  <2>1. {n, MaxBlocks} \in SUBSET Nat /\ {n, MaxBlocks} # {}
    BY PolicySizes
  <2>2. Min({n, MaxBlocks}) \in {n, MaxBlocks} /\ \A x \in {n, MaxBlocks} : Min({n, MaxBlocks}) <= x
    BY <2>1, MinOfNaturals
  <2>3. PICK k : k = Min({n, MaxBlocks})
    OBVIOUS
  <2>4. k \in {n, MaxBlocks} /\ k <= n
    BY <2>2, <2>3
  <2>5. QED BY <1>3, <2>3, <2>4, PolicySizes
<1>5. SubSeq(s, 1, n) = s
  BY <1>3
<1>6. [c EXCEPT !.blocks = s] = c
  BY <1>2 DEF Contexts
<1>7. HandedOn(reg, MaxBlocks) = [c EXCEPT !.blocks = SubSeq(s, 1, Min({n, MaxBlocks}))]
  BY <1>1, <1>2, <1>3 DEF HandedOn
<1>8. QED BY <1>1, <1>4, <1>5, <1>6, <1>7

LEMMA SuccessorImports ==
  ASSUME NEW reg, Ledger(reg), Descends(reg),
         NEW successor, successor = ImportBootstrapContext(HandedOn(reg, MaxBlocks))
  PROVE  /\ successor.ok /\ Imported(reg) = 1 .. Len(successor.reg.events)
         /\ successor.reg.events = SubSeq(reg.events, 1, Len(successor.reg.events))
         /\ \A g \in ToSet(successor.reg.grants) : g.state = "ACTIVE"
<1>1. reg \in Registries
  BY DEF Ledger
<1>2. successor = ImportBootstrapContext(reg.context)
  BY <1>1, HandedOnWhole
<1>3. successor.ok /\ Succeeds(reg, successor.reg)
  BY <1>2 DEF Descends
<1>4. successor \in Imports /\ Purely(successor.reg)
  BY <1>2, ImportOutcome DEF Descends, ImportedSoFar
<1>5. PICK first \in Registries : first = successor.reg
  BY <1>4 DEF Imports
<1>6. PICK s, t \in Seq(Events) : s = first.events /\ t = reg.events
  BY <1>1, RegistryFacts
<1>7. PICK m, n \in Nat : m = Len(s) /\ n = Len(t)
  OBVIOUS
<1>8. /\ n >= m /\ \A k \in 1 .. m : t[k] = s[k] /\ s[k].kind = "IMPORTED"
      /\ \A k \in 1 .. n : k > m => t[k].kind # "IMPORTED"
  BY <1>3, <1>4, <1>5, <1>6, <1>7 DEF Succeeds, Purely
<1>9. Imported(reg) = 1 .. m
  <2>1. \A k : k \in Imported(reg) <=> k \in 1 .. n /\ t[k].kind = "IMPORTED"
    BY <1>6, <1>7 DEF Imported
  <2>2. \A k \in 1 .. n : k > m \/ k \in 1 .. m
    OBVIOUS
  <2>3. \A k \in 1 .. m : k \in 1 .. n
    BY <1>8
  <2>4. QED BY <1>8, <2>1, <2>2, <2>3
<1>10. s = SubSeq(t, 1, m)
  <2>1. PICK u \in Seq(Events) : u = SubSeq(t, 1, m)
    <3>1. SubSeq(t, 1, m) \in Seq(Events)
      BY <1>7, <1>8
    <3>2. QED BY <3>1
  <2>2. Len(u) = m /\ \A k \in 1 .. m : u[k] = t[k]
    BY <1>7, <1>8, <2>1
  <2>3. Len(u) = Len(s) /\ \A k \in 1 .. Len(s) : u[k] = s[k]
    BY <1>7, <1>8, <2>2
  <2>4. u = s
    BY <2>3
  <2>5. QED BY <2>1, <2>4
<1>11. \A g \in ToSet(first.grants) : g.state = "ACTIVE"
  BY <1>4, <1>5, RegistryFacts DEF Purely, ToSet
<1>12. QED BY <1>3, <1>5, <1>6, <1>7, <1>9, <1>10, <1>11

(* The events of each grant are a lawful history, and while the ledger has *)
(* room the last of them says the grant's state; and a manager handed on   *)
(* starts with the grants of the policy, whatever became of them           *)
(* (LosCapabilitiesMutationCommon, LosCapabilitiesServiceGrant,            *)
(* LosCapabilitiesServiceImportBootstrapContext).                          *)
THEOREM CapabilitiesLedger == Spec => []LedgerExplainsGrants
<1>1. CapabilitiesInv => LedgerExplainsGrants
  <2> SUFFICES ASSUME CapabilitiesInv PROVE LedgerExplainsGrants
    OBVIOUS
  <2>1. /\ Ledger(registry) /\ registry \in Registries /\ (online => Descends(registry))
        /\ answer.status = "TABLE_FULL" /\ answer.grant # 0 => LedgerFull(registry)
    BY DEF CapabilitiesInv, RegistryInv, AnswerInv, Ledger
  <2>2. PICK n, m \in Nat : n = Len(registry.grants) /\ m = Len(registry.events)
    BY <2>1, RegistryFacts
  <2>3. /\ DOMAIN registry.grants = 1 .. n /\ DOMAIN registry.events = 1 .. m
        /\ \A i \in 1 .. n : registry.grants[i].id \in Nat
    BY <2>1, <2>2, RegistryFacts DEF Ids
  <2>4. ASSUME NEW i \in 1 .. n, NEW j \in 1 .. n, registry.grants[i].id = registry.grants[j].id
        PROVE  i = j
    <3>1. PICK a, b \in Nat : a = registry.grants[i].id /\ b = registry.grants[j].id /\ a = b
      BY <2>3, <2>4
    <3>2. IdsInOrder(registry) /\ i \in Nat /\ j \in Nat
      BY <2>1 DEF Ledger
    <3>3. ASSUME i < j PROVE FALSE
      <4>1. registry.grants[i].id < registry.grants[j].id
        BY <2>2, <3>2, <3>3 DEF IdsInOrder
      <4>2. QED BY <3>1, <4>1
    <3>4. ASSUME j < i PROVE FALSE
      <4>1. registry.grants[j].id < registry.grants[i].id
        BY <2>2, <3>2, <3>4 DEF IdsInOrder
      <4>2. QED BY <3>1, <4>1
    <3>5. QED BY <3>2, <3>3, <3>4
  <2>5. ASSUME NEW g \in ToSet(registry.grants)
        PROVE  Known(registry, g.cap) /\ (~LedgerFull(registry) => Recorded(registry, g))
    <3>1. PICK i \in 1 .. n : g = registry.grants[i]
      BY <2>3 DEF ToSet
    <3>2. Known(registry, g.cap)
      BY <2>1, <2>2, <3>1 DEF Ledger, OnRecord
    <3>3. ASSUME ~LedgerFull(registry)
          PROVE  Recorded(registry, g)
      <4>1. m < MaxEvents
        BY <2>2, <3>3, RegistryAssumption DEF LedgerFull
      <4>2. QED BY <2>1, <2>2, <3>1, <4>1 DEF Ledger, AllRecorded
    <3>4. QED BY <3>2, <3>3
  <2>6. ASSUME NEW k \in 1 .. m
        PROVE  registry.events[k].grant \in GrantIds /\ Lawful(registry, k)
    BY <2>1, <2>2, <2>3 DEF Ledger, Attributed, AllLawful, GrantIds
  <2>7. ASSUME online
        PROVE  LET successor == ImportBootstrapContext(HandedOn(registry, MaxBlocks))
                   imported == successor.reg.events
               IN  /\ successor.ok /\ Imported(registry) = 1 .. Len(imported)
                   /\ imported = SubSeq(registry.events, 1, Len(imported))
                   /\ \A g \in ToSet(successor.reg.grants) : g.state = "ACTIVE"
    BY <2>1, <2>7, SuccessorImports
  <2>8. QED BY <2>1, <2>3, <2>4, <2>5, <2>6, <2>7 DEF LedgerExplainsGrants
<1>2. QED BY <1>1, CapabilitiesInvariant, PTL

-----------------------------------------------------------------------------
(* Sets of lines in their order.                                           *)

Enumerates(at, S) ==
  /\ at \in Seq(Nat)
  /\ \A k, l \in 1 .. Len(at) : k < l => at[k] < at[l]
  /\ \A i : i \in S <=> \E k \in 1 .. Len(at) : at[k] = i

LEMMA EnumerateNone == Enumerates(<<>>, {})
<1>1. <<>> \in Seq(Nat) /\ Len(<<>>) = 0
  OBVIOUS
<1>2. QED BY <1>1 DEF Enumerates

LEMMA EnumerateNext ==
  ASSUME NEW at, NEW S, Enumerates(at, S), NEW n \in Nat, \A i \in S : i < n
  PROVE  Enumerates(Append(at, n), S \cup {n})
<1>1. PICK s \in Seq(Nat) : s = at
  BY DEF Enumerates
<1>2. PICK m \in Nat : m = Len(s)
  OBVIOUS
<1>3. PICK t \in Seq(Nat) : t = Append(s, n)
  <2>1. Append(s, n) \in Seq(Nat)
    OBVIOUS
  <2>2. QED BY <2>1
<1>4. Len(t) = m + 1 /\ t[m + 1] = n /\ \A k \in 1 .. m : t[k] = s[k]
  BY <1>2, <1>3
<1>5. \A k : k \in 1 .. m + 1 <=> k \in 1 .. m \/ k = m + 1
  OBVIOUS
<1>6. /\ \A k, l \in 1 .. m : k < l => s[k] < s[l]
      /\ \A i : i \in S <=> \E k \in 1 .. m : s[k] = i
  BY <1>1, <1>2 DEF Enumerates
<1>7. \A k \in 1 .. m : s[k] < n
  BY <1>6
<1>8. ASSUME NEW k \in 1 .. m + 1, NEW l \in 1 .. m + 1, k < l
      PROVE  t[k] < t[l]
  <2>1. k \in 1 .. m
    BY <1>8
  <2>2. CASE l \in 1 .. m
    BY <1>4, <1>6, <1>8, <2>1, <2>2
  <2>3. CASE l = m + 1
    BY <1>4, <1>7, <2>1, <2>3
  <2>4. QED BY <1>5, <2>2, <2>3
<1>9. \A i : i \in S \cup {n} <=> \E k \in 1 .. m + 1 : t[k] = i
  BY <1>4, <1>5, <1>6
<1>10. QED BY <1>1, <1>3, <1>4, <1>8, <1>9 DEF Enumerates

LEMMA EnumerateApart ==
  ASSUME NEW at, NEW S, Enumerates(at, S),
         NEW k \in 1 .. Len(at), NEW l \in 1 .. Len(at), at[k] = at[l]
  PROVE  k = l
<1>1. PICK s \in Seq(Nat) : s = at
  BY DEF Enumerates
<1>2. PICK a, b \in Nat : a = s[k] /\ b = s[l] /\ a = b
  BY <1>1
<1>3. k \in Nat /\ l \in Nat
  BY <1>1
<1>4. ASSUME k < l PROVE FALSE
  BY <1>1, <1>2, <1>4 DEF Enumerates
<1>5. ASSUME l < k PROVE FALSE
  BY <1>1, <1>2, <1>5 DEF Enumerates
<1>6. QED BY <1>3, <1>4, <1>5

LEMMA EnumerateCounts ==
  ASSUME NEW at, NEW S, Enumerates(at, S)
  PROVE  IsFiniteSet(S) /\ Cardinality(S) = Len(at)
<1>1. PICK s \in Seq(Nat) : s = at
  BY DEF Enumerates
<1>2. PICK m \in Nat : m = Len(s)
  OBVIOUS
<1> DEFINE f == [k \in 1 .. m |-> s[k]]
<1>3. \A i : i \in S <=> \E k \in 1 .. m : s[k] = i
  BY <1>1, <1>2 DEF Enumerates
<1>4. f \in [1 .. m -> S]
  BY <1>3
<1>5. \A k, l \in 1 .. m : f[k] = f[l] => k = l
  BY <1>1, <1>2, EnumerateApart
<1>6. \A i \in S : \E k \in 1 .. m : f[k] = i
  BY <1>3
<1> HIDE DEF f
<1>7. f \in Bijection(1 .. m, S)
  BY <1>4, <1>5, <1>6 DEF Bijection, Injection, Surjection, IsInjective
<1>8. ExistsBijection(1 .. m, S)
  BY <1>7 DEF ExistsBijection
<1>9. IsFiniteSet(1 .. m) /\ Cardinality(1 .. m) = m
  <2>1. IsFiniteSet(1 .. m) /\ Cardinality(1 .. m) = IF 1 > m THEN 0 ELSE m - 1 + 1
    BY FS_Interval
  <2>2. QED BY <2>1
<1>10. IsFiniteSet(S) /\ Cardinality(S) = m
  BY <1>8, <1>9, FS_Bijection
<1>11. QED BY <1>1, <1>2, <1>10

(* The entries K are those of the lines T.                                 *)
Selects(at, S, K, T) ==
  /\ T \subseteq S /\ K \subseteq 1 .. Len(at)
  /\ \A k \in 1 .. Len(at) : k \in K <=> at[k] \in T

(* The first line with a property is the line of the first entry with it.  *)
LEMMA EnumerateFirst ==
  ASSUME NEW at, NEW S, Enumerates(at, S), NEW T, NEW K, Selects(at, S, K, T)
  PROVE  /\ T = {} <=> K = {}
         /\ K # {} => Min(K) \in 1 .. Len(at) /\ Min(T) = at[Min(K)]
<1>1. PICK s \in Seq(Nat) : s = at
  BY DEF Enumerates
<1>2. PICK m \in Nat : m = Len(s)
  OBVIOUS
<1>3. /\ \A k, l \in 1 .. m : k < l => s[k] < s[l]
      /\ \A i : i \in S <=> \E k \in 1 .. m : s[k] = i
  BY <1>1, <1>2 DEF Enumerates
<1>4. \A i \in T : \E k \in K : s[k] = i
  BY <1>1, <1>2, <1>3 DEF Selects
<1>5. \A k \in K : s[k] \in T /\ k \in 1 .. m
  BY <1>1, <1>2 DEF Selects
<1>6. T = {} <=> K = {}
  BY <1>4, <1>5
<1>7. ASSUME K # {}
      PROVE  Min(K) \in 1 .. m /\ Min(T) = s[Min(K)]
  <2>1. K \in SUBSET Nat /\ T \in SUBSET Nat /\ T # {}
    <3>1. \A k \in 1 .. m : s[k] \in Nat /\ k \in Nat
      BY <1>2
    <3>2. QED BY <1>4, <1>5, <1>6, <1>7, <3>1
  <2>2. Min(K) \in K /\ \A x \in K : Min(K) <= x
    BY <1>7, <2>1, MinOfNaturals
  <2>3. Min(T) \in T /\ \A x \in T : Min(T) <= x
    BY <2>1, MinOfNaturals
  <2>4. PICK k \in K : k = Min(K) /\ \A x \in K : k <= x
    BY <2>2
  <2>5. PICK l \in K : s[l] = Min(T)
    BY <1>4, <2>3
  <2>6. PICK p, q \in Nat : p = s[k] /\ q = s[l] /\ q <= p
    BY <1>5, <2>1, <2>3, <2>5
  <2>7. k \in 1 .. m /\ l \in 1 .. m /\ k <= l
    BY <1>5, <2>4
  <2>8. k < l => p < q
    BY <1>3, <2>6, <2>7
  <2>9. k = l
    BY <2>6, <2>7, <2>8
  <2>10. QED BY <2>4, <2>5, <2>7, <2>9
<1>8. QED BY <1>1, <1>2, <1>6, <1>7

-----------------------------------------------------------------------------
(* FlattenSeq, one sequence further or with another last sequence.         *)

LEMMA FlattenAgrees ==
  ASSUME NEW E, NEW ss \in Seq(Seq(E)), NEW tt \in Seq(Seq(E)), NEW f, NEW g,
         FlattenRun(E, ss, f), FlattenRun(E, tt, g),
         NEW m \in Nat, m <= Len(ss), m <= Len(tt), \A k \in 1 .. m : ss[k] = tt[k]
  PROVE  f[m] = g[m] /\ f[m] \in Seq(E)
<1> DEFINE Same == {k \in 0 .. m : f[k] = g[k]}
<1>1. Len(ss) \in Nat /\ Len(tt) \in Nat
  OBVIOUS
<1>2. 0 \in Same
  BY DEF FlattenRun
<1>3. ASSUME NEW k \in 1 .. m, k - 1 \in Same
      PROVE  k \in Same
  <2>1. k \in 1 .. Len(ss) /\ k \in 1 .. Len(tt) /\ k \in 0 .. m
    BY <1>1
  <2>2. f[k] = f[k - 1] \o ss[k] /\ g[k] = g[k - 1] \o tt[k]
    BY <2>1 DEF FlattenRun
  <2>3. QED BY <1>3, <2>1, <2>2
<1> HIDE DEF Same
<1>4. \A k \in 0 .. m : k \in Same
  BY <1>2, <1>3, NatInductionSet
<1>5. m \in 0 .. m /\ m \in 0 .. Len(ss)
  BY <1>1
<1>6. f[m] \in Seq(E)
  BY <1>5 DEF FlattenRun
<1>7. QED BY <1>4, <1>5, <1>6 DEF Same

LEMMA FlattenFurther ==
  ASSUME NEW E, NEW ss \in Seq(Seq(E)), NEW tt \in Seq(Seq(E)),
         NEW m \in Nat, Len(tt) = m + 1, Len(ss) \in {m, m + 1}, \A k \in 1 .. m : ss[k] = tt[k]
  PROVE  \E p \in Seq(E) : /\ FlattenSeq(tt) = p \o tt[m + 1]
                           /\ Len(ss) = m => FlattenSeq(ss) = p
                           /\ Len(ss) = m + 1 => FlattenSeq(ss) = p \o ss[m + 1]
<1>1. PICK f : FlattenRun(E, ss, f)
  BY FlattenRuns
<1>2. PICK g : FlattenRun(E, tt, g)
  BY FlattenRuns
<1>3. f[m] = g[m] /\ f[m] \in Seq(E)
  BY <1>1, <1>2, FlattenAgrees
<1>4. m + 1 \in 1 .. Len(tt) /\ (m + 1) - 1 = m
  OBVIOUS
<1>5. FlattenSeq(tt) = g[m] \o tt[m + 1]
  BY <1>2, <1>4 DEF FlattenRun
<1>6. CASE Len(ss) = m
  <2>1. PICK p \in Seq(E) : p = f[m]
    BY <1>3
  <2>2. FlattenSeq(tt) = p \o tt[m + 1]
    BY <1>3, <1>5, <2>1
  <2>3. FlattenSeq(ss) = p
    BY <1>1, <1>6, <2>1 DEF FlattenRun
  <2>4. QED BY <1>6, <2>2, <2>3
<1>7. CASE Len(ss) = m + 1
  <2>1. FlattenSeq(ss) = f[m] \o ss[m + 1]
    <3>1. m + 1 \in 1 .. Len(ss)
      BY <1>7
    <3>2. FlattenSeq(ss) = f[m + 1]
      BY <1>1, <1>7 DEF FlattenRun
    <3>3. f[m + 1] = f[m] \o ss[m + 1]
      BY <1>1, <1>4, <3>1 DEF FlattenRun
    <3>4. QED BY <3>2, <3>3
  <2>2. PICK p \in Seq(E) : p = f[m]
    BY <1>3
  <2>3. FlattenSeq(tt) = p \o tt[m + 1] /\ FlattenSeq(ss) = p \o ss[m + 1] /\ Len(ss) # m
    BY <1>3, <1>5, <1>7, <2>1, <2>2
  <2>4. QED BY <2>3
<1>8. QED BY <1>6, <1>7

-----------------------------------------------------------------------------
(* What the loader has made of the first n - 1 lines of file f. The tables *)
(* follow the lines in their order; a block is open until the next block   *)
(* or the end of the block comes by.                                       *)

ReadLines(f, kind, n) == {i \in LinesOf(f, kind) : i < n}
ReadGrants(f, b, n) == {i \in GrantLines(f, b) : i < n}

Closed(f, b, n) == \E j \in b + 1 .. n - 1 : f[j].kind \in {"block", "endblock"}

CapsAt(f, lines, S, grants) ==
  /\ Enumerates(lines, S) /\ Len(grants) = Len(lines)
  /\ \A g \in 1 .. Len(lines) : grants[g].cap = f[lines[g]].cap

BlockAt(f, block, b, n) ==
  /\ block.profile = f[b].profile
  /\ \E lines : CapsAt(f, lines, ReadGrants(f, b, n), block.grants)

BlocksAt(f, at, n, blocks, open) ==
  /\ Enumerates(at, ReadLines(f, "block", n)) /\ Len(blocks) = Len(at)
  /\ \A b \in 1 .. Len(at) : /\ BlockAt(f, blocks[b], at[b], n)
                             /\ Closed(f, at[b], n) <=> ~(open /\ b = Len(at))

AssignmentsAt(f, at, n, assignments) ==
  /\ Enumerates(at, ReadLines(f, "assign", n)) /\ Len(assignments) = Len(at)
  /\ \A a \in 1 .. Len(at) : /\ assignments[a].type = f[at[a]].type
                             /\ assignments[a].name = f[at[a]].name
                             /\ assignments[a].profile = f[at[a]].profile

Placed(f, n) ==
  \A i \in ReadLines(f, "grant", n) : \E b \in LinesOf(f, "block") : i \in GrantLines(f, b)

Plain(f, n) ==
  \A i \in 1 .. n - 1 : /\ f[i].kind \in {"block", "grant", "assign", "endblock"}
                        /\ f[i].kind \in {"block", "assign"} => f[i].type \in PrincipalTypes

(* The tables p hold the first n - 1 lines of file f.                       *)
Reading(f, n, p, open) ==
  /\ \E at : BlocksAt(f, at, n, p.blocks, open)
  /\ \E at : AssignmentsAt(f, at, n, p.assignments)
  /\ \E at : CapsAt(f, at, ReadLines(f, "grant", n), ImportedGrants(p)) /\ p.events = Len(at)
  /\ Placed(f, n) /\ Plain(f, n)

PolicyRead ==
  /\ Reading(file, line, policy, openBlock)
  /\ loading = "success" => line > Len(file)

LEMMA ReadNext ==
  ASSUME NEW f \in PolicyFiles, NEW n \in 1 .. Len(f), NEW kind
  PROVE  /\ n \in Nat /\ \A i \in ReadLines(f, kind, n) : i \in Nat /\ i >= 1 /\ i < n
         /\ f[n].kind = kind => ReadLines(f, kind, n + 1) = ReadLines(f, kind, n) \cup {n}
         /\ f[n].kind # kind => ReadLines(f, kind, n + 1) = ReadLines(f, kind, n)
<1>1. Len(f) \in Nat /\ DOMAIN f = 1 .. Len(f)
  BY FileLines
<1>2. n \in Nat /\ n \in DOMAIN f /\ \A i \in DOMAIN f : i \in Nat /\ i >= 1 /\ (i < n + 1 <=> i < n \/ i = n)
  BY <1>1
<1>3. \A i : i \in ReadLines(f, kind, n + 1) <=> i \in ReadLines(f, kind, n) \/ (i = n /\ f[n].kind = kind)
  BY <1>2 DEF ReadLines, LinesOf
<1>4. \A i \in ReadLines(f, kind, n) : i \in Nat /\ i >= 1 /\ i < n
  BY <1>2 DEF ReadLines, LinesOf
<1>5. CASE f[n].kind = kind
  BY <1>2, <1>3, <1>4, <1>5
<1>6. CASE f[n].kind # kind
  BY <1>2, <1>3, <1>4, <1>6
<1>7. QED BY <1>5, <1>6

LEMMA ClosedNext ==
  ASSUME NEW f \in PolicyFiles, NEW n \in 1 .. Len(f), NEW b \in Nat, b < n
  PROVE  /\ Closed(f, b, n + 1) <=> Closed(f, b, n) \/ f[n].kind \in {"block", "endblock"}
         /\ ~Closed(f, n, n + 1)
<1>1. Len(f) \in Nat
  BY FileLines
<1>2. n \in Nat /\ (n + 1) - 1 = n
  BY <1>1
<1>3. \A j : j \in b + 1 .. n <=> j \in b + 1 .. n - 1 \/ j = n
  BY <1>2
<1>4. \A j : j \notin n + 1 .. n
  BY <1>2
<1>5. QED BY <1>2, <1>3, <1>4 DEF Closed

LEMMA GrantsNext ==
  ASSUME NEW f \in PolicyFiles, NEW n \in 1 .. Len(f), NEW b \in Nat, b < n
  PROVE  /\ f[n].kind = "grant" /\ ~Closed(f, b, n)
              => ReadGrants(f, b, n + 1) = ReadGrants(f, b, n) \cup {n}
         /\ f[n].kind # "grant" \/ Closed(f, b, n) => ReadGrants(f, b, n + 1) = ReadGrants(f, b, n)
         /\ ReadGrants(f, n, n + 1) = {}
         /\ \A i \in ReadGrants(f, b, n) : i \in Nat /\ i < n
         /\ f[n].kind = "grant" => (n \in GrantLines(f, b) <=> ~Closed(f, b, n))
<1>1. Len(f) \in Nat /\ DOMAIN f = 1 .. Len(f)
  BY FileLines
<1>2. n \in Nat /\ n \in DOMAIN f /\ \A i \in DOMAIN f : i \in Nat /\ (i < n + 1 <=> i < n \/ i = n)
  BY <1>1
<1>3. \A j : j \in b + 1 .. n <=> j \in b + 1 .. n - 1 \/ j = n
  BY <1>2
<1>4. f[n].kind = "grant" => (n \in GrantLines(f, b) <=> ~Closed(f, b, n))
  BY <1>2, <1>3 DEF GrantLines, LinesOf, Closed
<1>5. \A i \in GrantLines(f, b) : i \in DOMAIN f /\ f[i].kind = "grant"
  BY DEF GrantLines, LinesOf
<1>6. \A i : i \in ReadGrants(f, b, n + 1)
             <=> i \in ReadGrants(f, b, n) \/ (i = n /\ f[n].kind = "grant" /\ ~Closed(f, b, n))
  BY <1>2, <1>4, <1>5 DEF ReadGrants
<1>7. /\ f[n].kind = "grant" /\ ~Closed(f, b, n)
           => ReadGrants(f, b, n + 1) = ReadGrants(f, b, n) \cup {n}
      /\ f[n].kind # "grant" \/ Closed(f, b, n) => ReadGrants(f, b, n + 1) = ReadGrants(f, b, n)
  BY <1>6
<1>8. ReadGrants(f, n, n + 1) = {}
  <2>1. \A i \in GrantLines(f, n) : i > n /\ i \in DOMAIN f
    BY DEF GrantLines, LinesOf
  <2>2. QED BY <1>2, <2>1 DEF ReadGrants
<1>9. \A i \in ReadGrants(f, b, n) : i \in Nat /\ i < n
  BY <1>2, <1>5 DEF ReadGrants
<1>10. QED BY <1>4, <1>7, <1>8, <1>9

LEMMA CapsNext ==
  ASSUME NEW f \in PolicyFiles, NEW n \in 1 .. Len(f), NEW lines, NEW S, NEW E,
         NEW grants \in Seq(E), NEW g \in E,
         CapsAt(f, lines, S, grants), \A i \in S : i < n, g.cap = f[n].cap
  PROVE  CapsAt(f, Append(lines, n), S \cup {n}, Append(grants, g))
<1>1. PICK p \in Nat : p = n
  <2>1. n \in Nat
    BY FileLines
  <2>2. QED BY <2>1
<1>2. Enumerates(lines, S) /\ Len(grants) = Len(lines)
      /\ \A k \in 1 .. Len(lines) : grants[k].cap = f[lines[k]].cap
  BY DEF CapsAt
<1>3. Enumerates(Append(lines, n), S \cup {n})
  BY <1>1, <1>2, EnumerateNext
<1>4. PICK s \in Seq(Nat) : s = lines
  BY <1>2 DEF Enumerates
<1>5. PICK m \in Nat : m = Len(s) /\ m = Len(grants)
  BY <1>2, <1>4
<1>6. PICK t \in Seq(Nat) : t = Append(s, p)
  <2>1. Append(s, p) \in Seq(Nat)
    OBVIOUS
  <2>2. QED BY <2>1
<1>7. PICK u \in Seq(E) : u = Append(grants, g)
  <2>1. Append(grants, g) \in Seq(E)
    OBVIOUS
  <2>2. QED BY <2>1
<1>8. Len(t) = m + 1 /\ t[m + 1] = p /\ \A k \in 1 .. m : t[k] = s[k]
  <2>1. m = Len(s)
    BY <1>5
  <2>2. Len(t) = m + 1
    BY <1>6, <2>1
  <2>3. t[m + 1] = p
    BY <1>6, <2>1
  <2>4. \A k \in 1 .. m : t[k] = s[k]
    BY <1>6, <2>1
  <2>5. QED BY <2>2, <2>3, <2>4
<1>9. Len(u) = m + 1 /\ u[m + 1] = g /\ \A k \in 1 .. m : u[k] = grants[k]
  BY <1>5, <1>7
<1>10. \A k : k \in 1 .. m + 1 <=> k \in 1 .. m \/ k = m + 1
  OBVIOUS
<1>11. \A k \in 1 .. m + 1 : u[k].cap = f[t[k]].cap
  BY <1>1, <1>2, <1>4, <1>5, <1>8, <1>9, <1>10
<1>12. QED BY <1>1, <1>3, <1>4, <1>6, <1>7, <1>8, <1>9, <1>11 DEF CapsAt

LEMMA BlockPlaces ==
  ASSUME NEW f \in PolicyFiles, NEW n \in Nat, NEW at, NEW blocks, NEW open, BlocksAt(f, at, n, blocks, open)
  PROVE  /\ at \in Seq(Nat) /\ Len(at) \in Nat /\ Len(blocks) = Len(at)
         /\ \A b \in 1 .. Len(at) :
              at[b] \in Nat /\ at[b] \in DOMAIN f /\ at[b] < n /\ at[b] \in LinesOf(f, "block")
<1>1. Enumerates(at, ReadLines(f, "block", n)) /\ Len(blocks) = Len(at)
  BY DEF BlocksAt
<1>2. at \in Seq(Nat) /\ \A b \in 1 .. Len(at) : at[b] \in ReadLines(f, "block", n)
  BY <1>1 DEF Enumerates
<1>3. Len(at) \in Nat /\ \A b \in 1 .. Len(at) : at[b] \in Nat
  BY <1>2
<1>4. \A i \in ReadLines(f, "block", n) : i < n /\ i \in LinesOf(f, "block") /\ i \in DOMAIN f
  BY DEF ReadLines, LinesOf
<1>5. QED BY <1>1, <1>2, <1>3, <1>4

(* A line between two entries leaves the blocks alone; the end of a block  *)
(* closes the last one.                                                    *)
LEMMA BlocksStay ==
  ASSUME NEW f \in PolicyFiles, NEW n \in 1 .. Len(f), NEW at, NEW blocks, NEW open \in BOOLEAN,
         BlocksAt(f, at, n, blocks, open), f[n].kind \in {"assign", "endblock"}
  PROVE  BlocksAt(f, at, n + 1, blocks, open /\ f[n].kind # "endblock")
<1>1. n \in Nat
  BY ReadNext
<1>2. /\ at \in Seq(Nat) /\ Len(at) \in Nat /\ Len(blocks) = Len(at)
      /\ \A b \in 1 .. Len(at) : at[b] \in Nat /\ at[b] < n
  BY <1>1, BlockPlaces
<1>3. ReadLines(f, "block", n + 1) = ReadLines(f, "block", n)
  BY ReadNext
<1>4. ASSUME NEW b \in 1 .. Len(at)
      PROVE  /\ BlockAt(f, blocks[b], at[b], n + 1)
             /\ Closed(f, at[b], n + 1) <=> ~(open /\ f[n].kind # "endblock" /\ b = Len(at))
  <2>1. PICK p \in Nat : p = at[b] /\ p < n
    BY <1>2
  <2>2. BlockAt(f, blocks[b], p, n) /\ (Closed(f, p, n) <=> ~(open /\ b = Len(at)))
    BY <2>1 DEF BlocksAt
  <2>3. ReadGrants(f, p, n + 1) = ReadGrants(f, p, n)
    BY <2>1, GrantsNext
  <2>4. BlockAt(f, blocks[b], p, n + 1)
    BY <2>2, <2>3 DEF BlockAt
  <2>5. Closed(f, p, n + 1) <=> Closed(f, p, n) \/ f[n].kind \in {"block", "endblock"}
    BY <2>1, ClosedNext
  <2>6. QED BY <2>1, <2>2, <2>4, <2>5
<1>5. QED BY <1>2, <1>3, <1>4 DEF BlocksAt

LEMMA BlocksBegin ==
  ASSUME NEW f \in PolicyFiles, NEW n \in 1 .. Len(f), NEW at, NEW blocks, NEW open \in BOOLEAN,
         BlocksAt(f, at, n, blocks, open), f[n].kind = "block",
         NEW more, Len(more) = Len(blocks) + 1, \A b \in 1 .. Len(blocks) : more[b] = blocks[b],
         more[Len(blocks) + 1].profile = f[n].profile, more[Len(blocks) + 1].grants = <<>>
  PROVE  BlocksAt(f, Append(at, n), n + 1, more, TRUE)
<1>1. n \in Nat
  BY ReadNext
<1>2. /\ at \in Seq(Nat) /\ Len(at) \in Nat /\ Len(blocks) = Len(at)
      /\ \A b \in 1 .. Len(at) : at[b] \in Nat /\ at[b] < n
  BY <1>1, BlockPlaces
<1>3. PICK s \in Seq(Nat), m \in Nat, p \in Nat : s = at /\ m = Len(s) /\ p = n
  BY <1>1, <1>2
<1>4. PICK t \in Seq(Nat) : t = Append(s, p)
  <2>1. Append(s, p) \in Seq(Nat)
    OBVIOUS
  <2>2. QED BY <2>1
<1>5. Len(t) = m + 1 /\ t[m + 1] = p /\ \A k \in 1 .. m : t[k] = s[k]
  <2>1. m = Len(s)
    BY <1>3
  <2>2. QED BY <1>4, <2>1
<1>6. Enumerates(t, ReadLines(f, "block", n + 1))
  <2>1. Enumerates(at, ReadLines(f, "block", n))
    BY DEF BlocksAt
  <2>2. /\ \A i \in ReadLines(f, "block", n) : i < n
        /\ ReadLines(f, "block", n + 1) = ReadLines(f, "block", n) \cup {n}
    BY ReadNext
  <2>3. QED BY <1>1, <1>3, <1>4, <2>1, <2>2, EnumerateNext
<1>7. ASSUME NEW b \in 1 .. m
      PROVE  BlockAt(f, more[b], t[b], n + 1) /\ Closed(f, t[b], n + 1)
  <2>1. PICK q \in Nat : q = t[b] /\ q = at[b] /\ q < n
    BY <1>2, <1>3, <1>5
  <2>2. BlockAt(f, more[b], q, n)
    BY <1>2, <1>3, <2>1 DEF BlocksAt
  <2>3. ReadGrants(f, q, n + 1) = ReadGrants(f, q, n)
    BY <2>1, GrantsNext
  <2>4. BlockAt(f, more[b], q, n + 1)
    BY <2>2, <2>3 DEF BlockAt
  <2>5. Closed(f, q, n + 1)
    BY <2>1, ClosedNext
  <2>6. QED BY <2>1, <2>4, <2>5
<1>8. BlockAt(f, more[m + 1], n, n + 1) /\ ~Closed(f, n, n + 1)
  <2>1. 0 < n
    BY <1>1
  <2>2. ReadGrants(f, n, n + 1) = {} /\ ~Closed(f, n, n + 1)
    BY <2>1, GrantsNext, ClosedNext
  <2>3. more[m + 1].profile = f[n].profile /\ more[m + 1].grants = <<>>
    BY <1>2, <1>3
  <2>4. CapsAt(f, <<>>, {}, <<>>)
    BY EnumerateNone DEF CapsAt
  <2>5. QED BY <2>2, <2>3, <2>4 DEF BlockAt
<1>9. \A b : b \in 1 .. m + 1 <=> (b \in 1 .. m /\ b # m + 1) \/ b = m + 1
  OBVIOUS
<1>10. \A b \in 1 .. m + 1 : /\ BlockAt(f, more[b], t[b], n + 1)
                             /\ Closed(f, t[b], n + 1) <=> ~(TRUE /\ b = m + 1)
  BY <1>3, <1>5, <1>7, <1>8, <1>9
<1>11. Len(more) = m + 1
  BY <1>2, <1>3
<1>12. BlocksAt(f, t, n + 1, more, TRUE)
  BY <1>5, <1>6, <1>10, <1>11 DEF BlocksAt
<1>13. QED BY <1>3, <1>4, <1>12

LEMMA BlocksGrow ==
  ASSUME NEW f \in PolicyFiles, NEW n \in 1 .. Len(f), NEW at, NEW blocks, NEW open \in BOOLEAN,
         BlocksAt(f, at, n, blocks, open), ~Closed(f, at[Len(at)], n), f[n].kind = "grant",
         NEW more, Len(more) = Len(blocks), \A b \in 1 .. Len(blocks) : b # Len(blocks) => more[b] = blocks[b],
         more[Len(blocks)].profile = blocks[Len(blocks)].profile,
         NEW grants \in Seq(PolicyGrants), grants = blocks[Len(blocks)].grants,
         NEW g \in PolicyGrants, g.cap = f[n].cap,
         more[Len(blocks)].grants = Append(grants, g)
  PROVE  BlocksAt(f, at, n + 1, more, open)
<1>1. n \in Nat
  BY ReadNext
<1>2. /\ at \in Seq(Nat) /\ Len(at) \in Nat /\ Len(blocks) = Len(at)
      /\ \A b \in 1 .. Len(at) : at[b] \in Nat /\ at[b] < n
  BY <1>1, BlockPlaces, SMTT(30)
<1>3. ReadLines(f, "block", n + 1) = ReadLines(f, "block", n)
  BY ReadNext
<1>4. ASSUME NEW b \in 1 .. Len(at)
      PROVE  /\ BlockAt(f, more[b], at[b], n + 1)
             /\ Closed(f, at[b], n + 1) <=> ~(open /\ b = Len(at))
  <2>1. PICK p \in Nat : p = at[b] /\ p < n
    BY <1>2
  <2>2. BlockAt(f, blocks[b], p, n) /\ (Closed(f, p, n) <=> ~(open /\ b = Len(at)))
    BY <2>1 DEF BlocksAt
  <2>3. /\ ~Closed(f, p, n) => ReadGrants(f, p, n + 1) = ReadGrants(f, p, n) \cup {n}
        /\ Closed(f, p, n) => ReadGrants(f, p, n + 1) = ReadGrants(f, p, n)
    <3>1. ASSUME ~Closed(f, p, n)
          PROVE  ReadGrants(f, p, n + 1) = ReadGrants(f, p, n) \cup {n}
      BY <2>1, <3>1, GrantsNext
    <3>2. ASSUME Closed(f, p, n)
          PROVE  ReadGrants(f, p, n + 1) = ReadGrants(f, p, n)
      BY <2>1, <3>2, GrantsNext
    <3>3. QED BY <3>1, <3>2
  <2>4. Closed(f, p, n + 1) <=> Closed(f, p, n)
    BY <2>1, ClosedNext
  <2>5. CASE b # Len(at)
    <3>1. ReadGrants(f, p, n + 1) = ReadGrants(f, p, n)
      BY <2>2, <2>3, <2>5
    <3>2. BlockAt(f, more[b], p, n + 1)
      BY <1>2, <2>2, <2>5, <3>1 DEF BlockAt
    <3>3. QED BY <2>1, <2>2, <2>4, <3>2
  <2>6. CASE b = Len(at)
    <3>1. ReadGrants(f, p, n + 1) = ReadGrants(f, p, n) \cup {n}
      BY <2>1, <2>3, <2>6
    <3>2. PICK lines : CapsAt(f, lines, ReadGrants(f, p, n), grants)
      BY <1>2, <2>2, <2>6 DEF BlockAt
    <3>3. \A i \in ReadGrants(f, p, n) : i < n
      BY <2>1, GrantsNext
    <3>4. CapsAt(f, Append(lines, n), ReadGrants(f, p, n + 1), Append(grants, g))
      <4>1. CapsAt(f, Append(lines, n), ReadGrants(f, p, n) \cup {n}, Append(grants, g))
        BY <3>2, <3>3, CapsNext
      <4>2. QED BY <3>1, <4>1
    <3>5. more[b].profile = f[p].profile /\ more[b].grants = Append(grants, g)
      BY <1>2, <2>2, <2>6 DEF BlockAt
    <3>6. BlockAt(f, more[b], p, n + 1)
      BY <3>4, <3>5 DEF BlockAt
    <3>7. QED BY <2>1, <2>2, <2>4, <3>6
  <2>7. QED BY <2>5, <2>6
<1>5. QED BY <1>2, <1>3, <1>4 DEF BlocksAt

-----------------------------------------------------------------------------
(* The grants of a context that has one block, or one grant, more.         *)

LEMMA ImportedFlattens ==
  ASSUME NEW context, Loaded(context)
  PROVE  LET n == Len(context.blocks)
             seqs == [b \in 1 .. n |-> GrantsOf(context.blocks[b])]
         IN  /\ n \in Nat /\ seqs \in Seq(Seq(Grants)) /\ Len(seqs) = n
             /\ ImportedGrants(context) = FlattenSeq(seqs)
<1> DEFINE blocks == context.blocks
           n == Len(blocks)
           seqs == [b \in 1 .. n |-> GrantsOf(blocks[b])]
<1>1. /\ n \in Nat /\ DOMAIN blocks = 1 .. n
      /\ \A b \in 1 .. n : blocks[b] \in Blocks /\ Numbered(blocks[b], b)
  BY DEF Loaded
<1>2. ImportedGrants(context) = FlattenSeq(seqs)
  BY <1>1 DEF ImportedGrants, GrantsOf
<1>3. \A b \in 1 .. n : GrantsOf(blocks[b]) \in Seq(Grants)
  BY <1>1, GrantsOfBlock
<1> HIDE DEF blocks
<1>4. seqs \in [1 .. n -> Seq(Grants)]
  BY <1>3
<1> HIDE DEF seqs
<1>5. seqs \in Seq(Seq(Grants)) /\ Len(seqs) = n
  BY <1>1, <1>4
<1>6. QED BY <1>1, <1>2, <1>5 DEF seqs, blocks

LEMMA ImportedBegin ==
  ASSUME NEW c, NEW d, Loaded(c), Loaded(d), Len(d.blocks) = Len(c.blocks) + 1,
         \A b \in 1 .. Len(c.blocks) : d.blocks[b] = c.blocks[b],
         d.blocks[Len(c.blocks) + 1].grants = <<>>
  PROVE  ImportedGrants(d) = ImportedGrants(c)
<1>1. PICK m \in Nat : m = Len(c.blocks) /\ Len(d.blocks) = m + 1
  BY ImportedFlattens
<1>2. PICK ss \in Seq(Seq(Grants)) :
        /\ ss = [b \in 1 .. m |-> GrantsOf(c.blocks[b])] /\ Len(ss) = m
        /\ ImportedGrants(c) = FlattenSeq(ss)
  BY <1>1, ImportedFlattens
<1>3. PICK tt \in Seq(Seq(Grants)) :
        /\ tt = [b \in 1 .. m + 1 |-> GrantsOf(d.blocks[b])] /\ Len(tt) = m + 1
        /\ ImportedGrants(d) = FlattenSeq(tt)
  BY <1>1, ImportedFlattens
<1>4. \A b \in 1 .. m : b \in 1 .. m + 1
  OBVIOUS
<1>5. \A b \in 1 .. m : ss[b] = tt[b]
  BY <1>1, <1>2, <1>3, <1>4
<1>6. tt[m + 1] = <<>>
  <2>1. m + 1 \in 1 .. m + 1
    OBVIOUS
  <2>2. tt[m + 1] = GrantsOf(d.blocks[m + 1])
    BY <1>3, <2>1
  <2>3. PICK block : block = d.blocks[m + 1] /\ block.grants = <<>>
    BY <1>1
  <2>4. GrantsOf(block) = <<>>
    BY <2>3 DEF GrantsOf
  <2>5. QED BY <2>2, <2>3, <2>4
<1>7. PICK p \in Seq(Grants) : FlattenSeq(tt) = p \o tt[m + 1] /\ FlattenSeq(ss) = p
  <2>1. Len(ss) \in {m, m + 1} /\ Len(tt) = m + 1
    BY <1>2, <1>3
  <2>2. \E p \in Seq(Grants) : /\ FlattenSeq(tt) = p \o tt[m + 1]
                               /\ Len(ss) = m => FlattenSeq(ss) = p
                               /\ Len(ss) = m + 1 => FlattenSeq(ss) = p \o ss[m + 1]
    BY <1>5, <2>1, FlattenFurther, ZenonT(60)
  <2>3. QED BY <1>2, <2>2
<1>8. p \o <<>> = p
  OBVIOUS
<1>9. QED BY <1>2, <1>3, <1>6, <1>7, <1>8

LEMMA GrantsOfMore ==
  ASSUME NEW b \in Blocks, NEW d \in Blocks, d.type = b.type, d.id = b.id,
         NEW g \in PolicyGrants, d.grants = Append(b.grants, g)
  PROVE  \E h \in Grants : h.cap = g.cap /\ GrantsOf(b) \in Seq(Grants)
                           /\ GrantsOf(d) = Append(GrantsOf(b), h)
<1>1. PICK s \in Seq(PolicyGrants), m \in Nat : s = b.grants /\ m = Len(s)
  BY DEF Blocks
<1>2. PICK h : h = [id |-> g.id, cap |-> g.cap, state |-> "ACTIVE", type |-> b.type,
                    principal |-> b.id % IdSpan]
  OBVIOUS
<1>3. b.type \in HolderTypes /\ b.id % IdSpan \in Nat
  <2>1. b.type \in HolderTypes /\ b.id \in Nat
    BY DEF Blocks, HolderTypes
  <2>2. QED BY <2>1, RegistryAssumption
<1>4. h \in Grants /\ h.cap = g.cap
  BY <1>2, <1>3 DEF Grants, PolicyGrants, GrantStates
<1>5. PICK t \in Seq(PolicyGrants) : t = Append(s, g)
  <2>1. Append(s, g) \in Seq(PolicyGrants)
    OBVIOUS
  <2>2. QED BY <2>1
<1>6. Len(t) = m + 1 /\ t[m + 1] = g /\ \A k \in 1 .. m : t[k] = s[k]
  BY <1>1, <1>5
<1> DEFINE Made(x) == [id |-> x.id, cap |-> x.cap, state |-> "ACTIVE", type |-> b.type,
                       principal |-> b.id % IdSpan]
<1>7. GrantsOf(b) = [k \in 1 .. m |-> Made(s[k])]
  BY <1>1 DEF GrantsOf
<1>8. GrantsOf(d) = [k \in 1 .. m + 1 |-> Made(t[k])]
  <2>1. d.grants = t /\ DOMAIN t = 1 .. m + 1
    BY <1>1, <1>5, <1>6
  <2>2. QED BY <2>1 DEF GrantsOf
<1>9. \A k \in 1 .. m : Made(s[k]) \in Grants
  <2>1. \A k \in 1 .. m : s[k] \in PolicyGrants
    BY <1>1
  <2>2. QED BY <1>3, <2>1 DEF Grants, PolicyGrants, GrantStates
<1> HIDE DEF Made
<1>10. PICK u \in Seq(Grants) : u = GrantsOf(b) /\ Len(u) = m /\ \A k \in 1 .. m : u[k] = Made(s[k])
  <2>1. GrantsOf(b) \in [1 .. m -> Grants]
    BY <1>7, <1>9
  <2>2. PICK u : u = GrantsOf(b) /\ u \in [1 .. m -> Grants]
    BY <2>1
  <2>3. u \in Seq(Grants) /\ Len(u) = m
    BY <2>2
  <2>4. QED BY <1>7, <2>2, <2>3
<1>11. PICK v \in Seq(Grants) : v = Append(u, h)
  <2>1. Append(u, h) \in Seq(Grants)
    BY <1>4
  <2>2. QED BY <2>1
<1>12. Len(v) = m + 1 /\ v[m + 1] = h /\ \A k \in 1 .. m : v[k] = u[k]
  BY <1>4, <1>10, <1>11
<1>13. \A k \in 1 .. m + 1 : v[k] = Made(t[k])
  <2>1. \A k \in 1 .. m + 1 : k \in 1 .. m \/ k = m + 1
    OBVIOUS
  <2>2. Made(g) = h
    BY <1>2 DEF Made
  <2>3. QED BY <1>6, <1>10, <1>12, <2>1, <2>2
<1>14. v = [k \in 1 .. m + 1 |-> Made(t[k])]
  <2>1. DOMAIN v = 1 .. m + 1 /\ v = [k \in DOMAIN v |-> v[k]]
    BY <1>12
  <2>2. QED BY <1>13, <2>1
<1>15. QED BY <1>4, <1>8, <1>10, <1>11, <1>14

LEMMA ImportedGrow ==
  ASSUME NEW c, NEW d, Loaded(c), Loaded(d), NEW m \in Nat, m >= 1,
         Len(c.blocks) = m, Len(d.blocks) = m,
         \A b \in 1 .. m : b # m => d.blocks[b] = c.blocks[b],
         d.blocks[m].type = c.blocks[m].type, d.blocks[m].id = c.blocks[m].id,
         NEW g \in PolicyGrants, d.blocks[m].grants = Append(c.blocks[m].grants, g)
  PROVE  \E h \in Grants : h.cap = g.cap /\ ImportedGrants(d) = Append(ImportedGrants(c), h)
<1>1. PICK ss \in Seq(Seq(Grants)) :
        /\ ss = [b \in 1 .. m |-> GrantsOf(c.blocks[b])] /\ Len(ss) = m
        /\ ImportedGrants(c) = FlattenSeq(ss)
  BY ImportedFlattens
<1>2. PICK tt \in Seq(Seq(Grants)) :
        /\ tt = [b \in 1 .. m |-> GrantsOf(d.blocks[b])] /\ Len(tt) = m
        /\ ImportedGrants(d) = FlattenSeq(tt)
  BY ImportedFlattens
<1>3. PICK l \in Nat : m = l + 1
  <2>1. m - 1 \in Nat /\ m = (m - 1) + 1
    OBVIOUS
  <2>2. QED BY <2>1
<1>4. \A b \in 1 .. l : ss[b] = tt[b]
  <2>1. \A b \in 1 .. l : b \in 1 .. m /\ b # m
    BY <1>3
  <2>2. QED BY <1>1, <1>2, <2>1
<1>5. PICK p \in Seq(Grants) : FlattenSeq(tt) = p \o tt[m] /\ FlattenSeq(ss) = p \o ss[m]
  <2>1. Len(ss) \in {l, l + 1} /\ Len(tt) = l + 1 /\ Len(ss) # l
    BY <1>1, <1>2, <1>3
  <2>2. \E p \in Seq(Grants) : /\ FlattenSeq(tt) = p \o tt[l + 1]
                               /\ Len(ss) = l => FlattenSeq(ss) = p
                               /\ Len(ss) = l + 1 => FlattenSeq(ss) = p \o ss[l + 1]
    BY <1>4, <2>1, FlattenFurther, ZenonT(60)
  <2>3. QED BY <1>3, <2>1, <2>2
<1>6. m \in 1 .. m
  OBVIOUS
<1>7. PICK b, e : b = c.blocks[m] /\ e = d.blocks[m] /\ b \in Blocks /\ e \in Blocks
  BY <1>6 DEF Loaded
<1>8. PICK h \in Grants : h.cap = g.cap /\ GrantsOf(b) \in Seq(Grants)
                          /\ GrantsOf(e) = Append(GrantsOf(b), h)
  BY <1>7, GrantsOfMore
<1>9. PICK q \in Seq(Grants) : q = GrantsOf(b) /\ ss[m] = q /\ tt[m] = Append(q, h)
  BY <1>1, <1>2, <1>6, <1>7, <1>8
<1>10. p \o Append(q, h) = Append(p \o q, h)
  OBVIOUS
<1>11. QED BY <1>1, <1>2, <1>5, <1>8, <1>9, <1>10

LEMMA AssignmentsStay ==
  ASSUME NEW f \in PolicyFiles, NEW n \in 1 .. Len(f), NEW at, NEW assignments,
         AssignmentsAt(f, at, n, assignments), f[n].kind # "assign"
  PROVE  AssignmentsAt(f, at, n + 1, assignments)
<1>1. ReadLines(f, "assign", n + 1) = ReadLines(f, "assign", n)
  BY ReadNext
<1>2. QED BY <1>1 DEF AssignmentsAt

LEMMA AssignmentsGrow ==
  ASSUME NEW f \in PolicyFiles, NEW n \in 1 .. Len(f), NEW at, NEW assignments \in Seq(Assignments),
         AssignmentsAt(f, at, n, assignments), f[n].kind = "assign",
         NEW a \in Assignments, a.type = f[n].type, a.name = f[n].name, a.profile = f[n].profile
  PROVE  AssignmentsAt(f, Append(at, n), n + 1, Append(assignments, a))
<1>1. PICK p \in Nat : p = n
  <2>1. n \in Nat
    BY FileLines
  <2>2. QED BY <2>1
<1>2. /\ Enumerates(at, ReadLines(f, "assign", n)) /\ Len(assignments) = Len(at)
      /\ \A k \in 1 .. Len(at) : /\ assignments[k].type = f[at[k]].type
                                 /\ assignments[k].name = f[at[k]].name
                                 /\ assignments[k].profile = f[at[k]].profile
  BY DEF AssignmentsAt
<1>3. Enumerates(Append(at, n), ReadLines(f, "assign", n + 1))
  <2>1. /\ \A i \in ReadLines(f, "assign", n) : i < n
        /\ ReadLines(f, "assign", n + 1) = ReadLines(f, "assign", n) \cup {n}
    BY ReadNext
  <2>2. QED BY <1>1, <1>2, <2>1, EnumerateNext
<1>4. PICK s \in Seq(Nat) : s = at
  BY <1>2 DEF Enumerates
<1>5. PICK m \in Nat : m = Len(s) /\ m = Len(assignments)
  BY <1>2, <1>4
<1>6. PICK t \in Seq(Nat) : t = Append(s, p)
  <2>1. Append(s, p) \in Seq(Nat)
    OBVIOUS
  <2>2. QED BY <2>1
<1>7. PICK u \in Seq(Assignments) : u = Append(assignments, a)
  <2>1. Append(assignments, a) \in Seq(Assignments)
    OBVIOUS
  <2>2. QED BY <2>1
<1>8. Len(t) = m + 1 /\ t[m + 1] = p /\ \A k \in 1 .. m : t[k] = s[k]
  <2>1. m = Len(s)
    BY <1>5
  <2>2. QED BY <1>6, <2>1
<1>9. Len(u) = m + 1 /\ u[m + 1] = a /\ \A k \in 1 .. m : u[k] = assignments[k]
  BY <1>5, <1>7
<1>10. \A k : k \in 1 .. m + 1 <=> k \in 1 .. m \/ k = m + 1
  OBVIOUS
<1>11. \A k \in 1 .. m + 1 : /\ u[k].type = f[t[k]].type
                             /\ u[k].name = f[t[k]].name
                             /\ u[k].profile = f[t[k]].profile
  BY <1>1, <1>2, <1>4, <1>5, <1>8, <1>9, <1>10
<1>12. AssignmentsAt(f, t, n + 1, u)
  BY <1>1, <1>3, <1>4, <1>6, <1>8, <1>9, <1>11 DEF AssignmentsAt
<1>13. QED BY <1>1, <1>4, <1>6, <1>7, <1>12

LEMMA PlainNext ==
  ASSUME NEW f \in PolicyFiles, NEW n \in 1 .. Len(f), Plain(f, n),
         f[n].kind \in {"block", "grant", "assign", "endblock"},
         f[n].kind \in {"block", "assign"} => f[n].type \in PrincipalTypes
  PROVE  Plain(f, n + 1)
<1>1. n \in Nat /\ (n + 1) - 1 = n
  BY FileLines
<1>2. \A i \in 1 .. n : i \in 1 .. n - 1 \/ i = n
  BY <1>1
<1>3. QED BY <1>1, <1>2 DEF Plain

LEMMA PlacedNext ==
  ASSUME NEW f \in PolicyFiles, NEW n \in 1 .. Len(f), Placed(f, n),
         f[n].kind = "grant" => \E b \in LinesOf(f, "block") : n \in GrantLines(f, b)
  PROVE  Placed(f, n + 1)
<1>1. CASE f[n].kind = "grant"
  <2>1. ReadLines(f, "grant", n + 1) = ReadLines(f, "grant", n) \cup {n}
    BY <1>1, ReadNext
  <2>2. QED BY <1>1, <2>1 DEF Placed
<1>2. CASE f[n].kind # "grant"
  <2>1. ReadLines(f, "grant", n + 1) = ReadLines(f, "grant", n)
    BY <1>2, ReadNext
  <2>2. QED BY <2>1 DEF Placed
<1>3. QED BY <1>1, <1>2

LEMMA ReadingBlock ==
  ASSUME NEW f \in PolicyFiles, NEW n \in 1 .. Len(f), NEW open \in BOOLEAN,
         NEW c, NEW d, Loaded(c), Loaded(d), Reading(f, n, c, open),
         f[n].kind = "block", f[n].type \in PrincipalTypes,
         Len(d.blocks) = Len(c.blocks) + 1, \A b \in 1 .. Len(c.blocks) : d.blocks[b] = c.blocks[b],
         d.blocks[Len(c.blocks) + 1].profile = f[n].profile,
         d.blocks[Len(c.blocks) + 1].grants = <<>>,
         d.assignments = c.assignments, d.events = c.events
  PROVE  Reading(f, n + 1, d, TRUE)
<1>1. PICK at : BlocksAt(f, at, n, c.blocks, open)
  BY DEF Reading
<1>2. BlocksAt(f, Append(at, n), n + 1, d.blocks, TRUE)
  BY <1>1, BlocksBegin
<1>3. PICK as : AssignmentsAt(f, as, n, c.assignments)
  BY DEF Reading
<1>4. AssignmentsAt(f, as, n + 1, d.assignments)
  BY <1>3, AssignmentsStay
<1>5. PICK ls : CapsAt(f, ls, ReadLines(f, "grant", n), ImportedGrants(c)) /\ c.events = Len(ls)
  BY DEF Reading
<1>6. CapsAt(f, ls, ReadLines(f, "grant", n + 1), ImportedGrants(d)) /\ d.events = Len(ls)
  <2>1. ReadLines(f, "grant", n + 1) = ReadLines(f, "grant", n)
    BY ReadNext
  <2>2. ImportedGrants(d) = ImportedGrants(c)
    BY ImportedBegin
  <2>3. QED BY <1>5, <2>1, <2>2
<1>7. Placed(f, n + 1) /\ Plain(f, n + 1)
  BY PlacedNext, PlainNext DEF Reading
<1>8. QED BY <1>2, <1>4, <1>6, <1>7 DEF Reading

LEMMA ReadingOn ==
  ASSUME NEW f \in PolicyFiles, NEW n \in 1 .. Len(f), NEW open \in BOOLEAN,
         NEW c, NEW d, Loaded(c), Reading(f, n, c, open), f[n].kind \in {"assign", "endblock"},
         d.blocks = c.blocks, d.events = c.events,
         f[n].kind = "endblock" => d.assignments = c.assignments,
         f[n].kind = "assign" =>
           /\ f[n].type \in PrincipalTypes
           /\ \E a \in Assignments : /\ a.type = f[n].type /\ a.name = f[n].name
                                     /\ a.profile = f[n].profile
                                     /\ d.assignments = Append(c.assignments, a)
  PROVE  Reading(f, n + 1, d, open /\ f[n].kind # "endblock")
<1>1. PICK at : BlocksAt(f, at, n, c.blocks, open)
  BY DEF Reading
<1>2. BlocksAt(f, at, n + 1, d.blocks, open /\ f[n].kind # "endblock")
  BY <1>1, BlocksStay
<1>3. PICK as : AssignmentsAt(f, as, n, c.assignments)
  BY DEF Reading
<1>4. \E l : AssignmentsAt(f, l, n + 1, d.assignments)
  <2>1. CASE f[n].kind = "assign"
    <3>1. PICK a \in Assignments : /\ a.type = f[n].type /\ a.name = f[n].name
                                   /\ a.profile = f[n].profile
                                   /\ d.assignments = Append(c.assignments, a)
      BY <2>1
    <3>2. c.assignments \in Seq(Assignments)
      BY DEF Loaded
    <3>3. AssignmentsAt(f, Append(as, n), n + 1, Append(c.assignments, a))
      BY <1>3, <2>1, <3>1, <3>2, AssignmentsGrow
    <3>4. QED BY <3>1, <3>3
  <2>2. CASE f[n].kind # "assign"
    <3>1. AssignmentsAt(f, as, n + 1, c.assignments)
      BY <1>3, <2>2, AssignmentsStay
    <3>2. QED BY <2>2, <3>1
  <2>3. QED BY <2>1, <2>2
<1>5. PICK ls : CapsAt(f, ls, ReadLines(f, "grant", n), ImportedGrants(c)) /\ c.events = Len(ls)
  BY DEF Reading
<1>6. CapsAt(f, ls, ReadLines(f, "grant", n + 1), ImportedGrants(d)) /\ d.events = Len(ls)
  <2>1. ReadLines(f, "grant", n + 1) = ReadLines(f, "grant", n)
    BY ReadNext
  <2>2. ImportedGrants(d) = ImportedGrants(c)
    BY DEF ImportedGrants
  <2>3. QED BY <1>5, <2>1, <2>2
<1>7. Placed(f, n + 1) /\ Plain(f, n + 1)
  BY PlacedNext, PlainNext DEF Reading
<1>8. QED BY <1>2, <1>4, <1>6, <1>7 DEF Reading

LEMMA ReadingGrant ==
  ASSUME NEW f \in PolicyFiles, NEW n \in 1 .. Len(f),
         NEW c, NEW d, Loaded(c), Loaded(d), Reading(f, n, c, TRUE), f[n].kind = "grant",
         NEW m \in Nat, m >= 1, Len(c.blocks) = m, Len(d.blocks) = m,
         \A b \in 1 .. m : b # m => d.blocks[b] = c.blocks[b],
         d.blocks[m].type = c.blocks[m].type, d.blocks[m].id = c.blocks[m].id,
         d.blocks[m].profile = c.blocks[m].profile,
         NEW g \in PolicyGrants, g.cap = f[n].cap,
         d.blocks[m].grants = Append(c.blocks[m].grants, g),
         d.assignments = c.assignments, d.events = c.events + 1
  PROVE  Reading(f, n + 1, d, TRUE)
<1>1. PICK at : BlocksAt(f, at, n, c.blocks, TRUE)
  BY DEF Reading
<1>2. n \in Nat
  BY ReadNext
<1>3. /\ Len(at) = m /\ m \in 1 .. m /\ at[m] \in Nat /\ at[m] < n /\ at[m] \in LinesOf(f, "block")
      /\ ~Closed(f, at[m], n)
  <2>1. Len(at) = m /\ m \in 1 .. m
    <3>1. Len(c.blocks) = Len(at)
      BY <1>1 DEF BlocksAt
    <3>2. QED BY <3>1
  <2>2. at[m] \in Nat /\ at[m] < n /\ at[m] \in LinesOf(f, "block")
    BY <1>1, <1>2, <2>1, BlockPlaces
  <2>3. Closed(f, at[m], n) <=> ~(TRUE /\ m = Len(at))
    BY <1>1, <2>1 DEF BlocksAt
  <2>4. QED BY <2>1, <2>2, <2>3
<1>4. PICK b \in Blocks : b = c.blocks[m] /\ b.grants \in Seq(PolicyGrants)
  <2>1. PICK s \in Seq(Blocks) : s = c.blocks
    BY DEF Loaded
  <2>2. s[m] \in Blocks
    BY <1>3, <2>1
  <2>3. \A b \in Blocks : b.grants \in Seq(PolicyGrants)
    BY DEF Blocks
  <2>4. QED BY <2>1, <2>2, <2>3
<1>5. BlocksAt(f, at, n + 1, d.blocks, TRUE)
  <2>1. PICK grants \in Seq(PolicyGrants) : grants = c.blocks[m].grants
    BY <1>4
  <2>2. ~Closed(f, at[Len(at)], n)
    BY <1>3
  <2>3. d.blocks[m].grants = Append(grants, g)
    BY <2>1
  <2>4. QED BY <1>1, <2>1, <2>2, <2>3, BlocksGrow
<1>6. PICK as : AssignmentsAt(f, as, n, c.assignments)
  BY DEF Reading
<1>7. AssignmentsAt(f, as, n + 1, d.assignments)
  BY <1>6, AssignmentsStay
<1>8. PICK ls : CapsAt(f, ls, ReadLines(f, "grant", n), ImportedGrants(c)) /\ c.events = Len(ls)
  BY DEF Reading
<1>9. CapsAt(f, Append(ls, n), ReadLines(f, "grant", n + 1), ImportedGrants(d))
  <2>1. PICK h \in Grants : h.cap = g.cap /\ ImportedGrants(d) = Append(ImportedGrants(c), h)
    BY ImportedGrow
  <2>2. ImportedGrants(c) \in Seq(Grants)
    BY ImportedInOrder
  <2>3. /\ \A i \in ReadLines(f, "grant", n) : i < n
        /\ ReadLines(f, "grant", n + 1) = ReadLines(f, "grant", n) \cup {n}
    BY ReadNext
  <2>4. CapsAt(f, Append(ls, n), ReadLines(f, "grant", n) \cup {n}, Append(ImportedGrants(c), h))
    BY <1>8, <2>1, <2>2, <2>3, CapsNext
  <2>5. QED BY <2>1, <2>3, <2>4
<1>10. d.events = Len(Append(ls, n))
  <2>1. PICK s \in Seq(Nat) : s = ls
    BY <1>8 DEF CapsAt, Enumerates
  <2>2. Len(Append(s, n)) = Len(s) + 1
    BY <1>2
  <2>3. QED BY <1>8, <2>1, <2>2
<1>11. n \in GrantLines(f, at[m])
  BY <1>3, GrantsNext
<1>12. Placed(f, n + 1) /\ Plain(f, n + 1)
  BY <1>3, <1>11, PlacedNext, PlainNext DEF Reading
<1>13. QED BY <1>5, <1>7, <1>9, <1>10, <1>12 DEF Reading

LEMMA ReadingNothing ==
  ASSUME NEW f \in PolicyFiles
  PROVE  Reading(f, 1, NoPolicy, FALSE)
<1>1. Len(f) \in Nat /\ \A i \in DOMAIN f : i \in Nat /\ i >= 1
  BY FileLines
<1>2. \A kind : ReadLines(f, kind, 1) = {}
  BY <1>1 DEF ReadLines, LinesOf
<1>3. Placed(f, 1)
  BY <1>2 DEF Placed
<1>4. Plain(f, 1)
  BY DEF Plain
<1>5. Len(<<>>) = 0 /\ 1 .. 0 = {}
  OBVIOUS
<1>6. Enumerates(<<>>, {})
  BY EnumerateNone
<1>7. BlocksAt(f, <<>>, 1, <<>>, FALSE)
  BY <1>2, <1>5, <1>6 DEF BlocksAt
<1>8. AssignmentsAt(f, <<>>, 1, <<>>)
  BY <1>2, <1>5, <1>6 DEF AssignmentsAt
<1>9. NoPolicy.blocks = <<>> /\ NoPolicy.assignments = <<>> /\ NoPolicy.events = 0
  BY DEF NoPolicy
<1>10. ImportedGrants(NoPolicy) = <<>>
  <2>1. Loaded(NoPolicy)
    BY <1>5, <1>9 DEF Loaded
  <2>2. PICK ss \in Seq(Seq(Grants)) : Len(ss) = 0 /\ ImportedGrants(NoPolicy) = FlattenSeq(ss)
    BY <1>5, <1>9, <2>1, ImportedFlattens
  <2>3. PICK g : FlattenRun(Grants, ss, g)
    BY FlattenRuns
  <2>4. QED BY <2>2, <2>3 DEF FlattenRun
<1>11. CapsAt(f, <<>>, ReadLines(f, "grant", 1), <<>>)
  BY <1>2, <1>5, <1>6 DEF CapsAt
<1>12. QED BY <1>3, <1>4, <1>5, <1>7, <1>8, <1>9, <1>10, <1>11 DEF Reading

LEMMA PolicyLoaded ==
  PolicyInv => /\ Loaded(policy) /\ policy.events \in Nat
               /\ Len(policy.blocks) \in Nat /\ (openBlock => Len(policy.blocks) >= 1)
<1> SUFFICES ASSUME PolicyInv
             PROVE  /\ Loaded(policy) /\ policy.events \in Nat
                    /\ Len(policy.blocks) \in Nat /\ (openBlock => Len(policy.blocks) >= 1)
  OBVIOUS
<1>1. policy \in Policies /\ \A b \in 1 .. Len(policy.blocks) : Numbered(policy.blocks[b], b)
  BY DEF PolicyInv
<1>2. /\ policy.blocks \in Seq(Blocks) /\ policy.assignments \in Seq(Assignments)
      /\ policy.events \in Nat /\ Len(policy.blocks) \in Nat
  BY <1>1, PolicyFacts
<1>3. Loaded(policy)
  BY <1>1, <1>2 DEF Loaded
<1>4. openBlock => Len(policy.blocks) >= 1
  BY <1>2 DEF PolicyInv
<1>5. QED BY <1>2, <1>3, <1>4

LEMMA PolicyReadStarts == PolicyInit => PolicyRead
<1> SUFFICES ASSUME PolicyInit PROVE PolicyRead
  OBVIOUS
<1>1. file \in PolicyFiles /\ line = 1 /\ policy = NoPolicy /\ openBlock = FALSE
      /\ (file = <<>> => loading = "not_found") /\ (file # <<>> => loading = "reading")
  BY DEF PolicyInit
<1>2. Reading(file, 1, NoPolicy, FALSE)
  BY <1>1, ReadingNothing
<1>3. Reading(file, line, policy, openBlock)
  BY <1>1, <1>2
<1>4. QED BY <1>1, <1>3 DEF PolicyRead

LEMMA FailureRead ==
  ASSUME PolicyRead,
         NEW status \in {"load_error", "buffer_too_small"}, Fail(status)
  PROVE  PolicyRead'
<1>1. /\ file' = file /\ line' = line /\ policy' = policy /\ openBlock' = openBlock
      /\ loading' # "success"
  BY DEF Fail
<1>2. Reading(file', line', policy', openBlock') /\ loading' # "success"
  BY <1>1 DEF PolicyRead
<1>3. QED BY <1>2 DEF PolicyRead

LEMMA LineRead ==
  ASSUME NEW kind, At(kind), NextLine, Reading(file, line + 1, policy', openBlock')
  PROVE  PolicyRead'
<1>1. file' = file /\ line' = line + 1 /\ loading' = "reading"
  BY DEF At, NextLine
<1>2. Reading(file', line', policy', openBlock') /\ loading' = "reading"
  BY <1>1
<1>3. QED BY <1>2 DEF PolicyRead

LEMMA PolicyReadOn ==
  ASSUME PolicyInv, PolicyInv', PolicyRead, PolicyNext
  PROVE  PolicyRead'
<1>1. file \in PolicyFiles /\ line \in Nat /\ line >= 1 /\ openBlock \in BOOLEAN
  BY FileLines DEF PolicyInv
<1>2. /\ Loaded(policy) /\ policy.events \in Nat
      /\ Len(policy.blocks) \in Nat /\ (openBlock => Len(policy.blocks) >= 1)
  BY PolicyLoaded
<1>3. Loaded(policy')
  <2>1. PICK p : p = policy'
    OBVIOUS
  <2>2. policy' \in Policies /\ \A b \in 1 .. Len(policy'.blocks) : Numbered(policy'.blocks[b], b)
    BY DEF PolicyInv, Numbered
  <2>3. p \in Policies /\ \A b \in 1 .. Len(p.blocks) : Numbered(p.blocks[b], b)
    BY <2>1, <2>2
  <2>4. Loaded(p)
    BY <2>3, PolicyFacts DEF Loaded
  <2>5. QED BY <2>1, <2>4
<1>4. ASSUME NEW kind, At(kind)
      PROVE  /\ line \in 1 .. Len(file) /\ file[line].kind = kind
  BY <1>1, <1>4, FileLines DEF At
<1>5. Reading(file, line, policy, openBlock)
  BY DEF PolicyRead
<1>6. CASE ReadBlock
  <2> DEFINE read == file[line]
             b == [type |-> read.type, profile |-> read.profile,
                   id |-> ProfileIds[read.profile], grants |-> <<>>]
             n == Len(policy.blocks)
  <2>1. At("block")
    BY <1>6 DEF ReadBlock
  <2>2. \/ /\ n = MaxBlocks \/ read.type \notin PrincipalTypes
           /\ \E status \in {"load_error", "buffer_too_small"} : Fail(status)
        \/ /\ read.type \in PrincipalTypes /\ openBlock' = TRUE /\ NextLine
           /\ policy' = [policy EXCEPT !.blocks = Append(policy.blocks, b)]
    BY <1>6 DEF ReadBlock
  <2>3. CASE /\ n = MaxBlocks \/ read.type \notin PrincipalTypes
             /\ \E status \in {"load_error", "buffer_too_small"} : Fail(status)
    BY <2>3, FailureRead
  <2>4. CASE /\ read.type \in PrincipalTypes /\ openBlock' = TRUE /\ NextLine
             /\ policy' = [policy EXCEPT !.blocks = Append(policy.blocks, b)]
    <3>1. b.profile = read.profile /\ b.grants = <<>>
      OBVIOUS
    <3> HIDE DEF b
    <3>2. PICK s, t : s = policy.blocks /\ t = Append(s, b)
      OBVIOUS
    <3>3. policy' = [policy EXCEPT !.blocks = t]
      BY <2>4, <3>2
    <3>4. policy'.blocks = t /\ policy'.assignments = policy.assignments /\ policy'.events = policy.events
      <4>1. policy \in Policies
        BY DEF PolicyInv
      <4>2. QED BY <3>3, <4>1 DEF Policies
    <3>5. s \in Seq(Blocks) /\ t \in Seq(Blocks)
      BY <1>2, <1>3, <3>2, <3>4 DEF Loaded
    <3>6. Len(t) = n + 1 /\ t[n + 1] = b /\ \A k \in 1 .. n : t[k] = s[k]
      BY <3>2, <3>5
    <3>7. Reading(file, line + 1, policy', TRUE)
      <4>1. PICK d : d = policy'
        OBVIOUS
      <4>2. /\ Loaded(d) /\ Len(d.blocks) = Len(policy.blocks) + 1
            /\ \A k \in 1 .. Len(policy.blocks) : d.blocks[k] = policy.blocks[k]
            /\ d.blocks[Len(policy.blocks) + 1].profile = file[line].profile
            /\ d.blocks[Len(policy.blocks) + 1].grants = <<>>
            /\ d.assignments = policy.assignments /\ d.events = policy.events
        BY <1>3, <3>1, <3>2, <3>4, <3>6, <4>1
      <4>3. line \in 1 .. Len(file) /\ file[line].kind = "block" /\ file[line].type \in PrincipalTypes
        BY <1>4, <2>1, <2>4
      <4>4. Reading(file, line + 1, d, TRUE)
        BY <1>1, <1>2, <1>5, <4>2, <4>3, ReadingBlock
      <4>5. QED BY <4>1, <4>4
    <3>8. Reading(file, line + 1, policy', openBlock')
      BY <2>4, <3>7
    <3>9. QED BY <2>1, <2>4, <3>8, LineRead
  <2>5. QED BY <2>2, <2>3, <2>4
<1>7. CASE ReadGrant
  <2> DEFINE m == Len(policy.blocks)
             k == Len(policy.blocks[m].grants)
             new == [id |-> GrantId(m, k + 1), cap |-> file[line].cap]
             grants == Append(policy.blocks[m].grants, new)
  <2>1. At("grant")
    BY <1>7 DEF ReadGrant
  <2>2. \/ /\ ~openBlock \/ (openBlock /\ k = MaxGrantsPerBlock) \/ policy.events = MaxBootEvents
           /\ \E status \in {"load_error", "buffer_too_small"} : Fail(status)
        \/ /\ openBlock /\ openBlock' = openBlock /\ NextLine
           /\ policy' = [policy EXCEPT !.blocks[m].grants = grants, !.events = @ + 1]
    BY <1>7 DEF ReadGrant
  <2>3. CASE /\ ~openBlock \/ (openBlock /\ k = MaxGrantsPerBlock) \/ policy.events = MaxBootEvents
             /\ \E status \in {"load_error", "buffer_too_small"} : Fail(status)
    BY <2>3, FailureRead
  <2>4. CASE /\ openBlock /\ openBlock' = openBlock /\ NextLine
             /\ policy' = [policy EXCEPT !.blocks[m].grants = grants, !.events = @ + 1]
    <3>1. PICK l \in Nat : l = m /\ l >= 1 /\ l \in 1 .. l
      BY <1>2, <2>4
    <3>2. PICK s \in Seq(Blocks) : s = policy.blocks /\ Len(s) = l
      BY <1>2, <3>1 DEF Loaded
    <3>3. PICK old \in Blocks : old = s[l]
      BY <3>1, <3>2
    <3>4. PICK q : q = grants /\ q = Append(old.grants, new)
      BY <3>1, <3>2, <3>3
    <3>5. PICK h : h = [old EXCEPT !.grants = q] /\ h.grants = q /\ h.type = old.type
                   /\ h.id = old.id /\ h.profile = old.profile
      <4>1. PICK h : h = [old EXCEPT !.grants = q]
        OBVIOUS
      <4>2. QED BY <4>1 DEF Blocks
    <3>6. PICK t : t = [s EXCEPT ![l] = h]
      OBVIOUS
    <3>7. Len(t) = l /\ t[l] = h /\ \A i \in 1 .. l : i # l => t[i] = s[i]
      BY <3>1, <3>2, <3>6
    <3>8. policy'.blocks = t /\ policy'.assignments = policy.assignments
          /\ policy'.events = policy.events + 1
      <4>1. policy \in Policies
        BY DEF PolicyInv
      <4>2. policy' = [policy EXCEPT !.blocks = t, !.events = @ + 1]
        BY <2>4, <3>1, <3>2, <3>3, <3>4, <3>5, <3>6
      <4>3. QED BY <4>1, <4>2 DEF Policies
    <3>9. PICK g \in PolicyGrants : g = new /\ g.cap = file[line].cap
      <4>1. PICK v \in Seq(PolicyGrants) : v = q
        <5>1. t \in Seq(Blocks)
          BY <1>3, <3>8 DEF Loaded
        <5>2. t[l] \in Blocks
          BY <3>1, <3>7, <5>1
        <5>3. QED BY <3>5, <3>7, <5>2 DEF Blocks
      <4>2. PICK u \in Seq(PolicyGrants) : u = old.grants
        BY DEF Blocks
      <4>3. new.cap = file[line].cap
        OBVIOUS
      <4> HIDE DEF new
      <4>4. v = Append(u, new)
        BY <3>4, <4>1, <4>2
      <4>5. Len(v) = Len(u) + 1 /\ v[Len(u) + 1] = new
        BY <4>4
      <4>6. new \in PolicyGrants
        BY <4>5
      <4>7. QED BY <4>3, <4>6
    <3>10. Reading(file, line + 1, policy', TRUE)
      <4>1. PICK d : d = policy'
        OBVIOUS
      <4>2. /\ Loaded(d) /\ Len(policy.blocks) = l /\ Len(d.blocks) = l
            /\ \A i \in 1 .. l : i # l => d.blocks[i] = policy.blocks[i]
            /\ d.blocks[l].type = policy.blocks[l].type /\ d.blocks[l].id = policy.blocks[l].id
            /\ d.blocks[l].profile = policy.blocks[l].profile
            /\ d.blocks[l].grants = Append(policy.blocks[l].grants, g)
            /\ d.assignments = policy.assignments /\ d.events = policy.events + 1
        BY <1>3, <3>1, <3>2, <3>3, <3>4, <3>5, <3>7, <3>8, <3>9, <4>1
      <4>3. line \in 1 .. Len(file) /\ file[line].kind = "grant"
        BY <1>4, <2>1
      <4>4. Reading(file, line, policy, TRUE)
        BY <1>5, <2>4
      <4>5. Reading(file, line + 1, d, TRUE)
        BY <1>1, <1>2, <3>1, <3>9, <4>2, <4>3, <4>4, ReadingGrant
      <4>6. QED BY <4>1, <4>5
    <3>11. Reading(file, line + 1, policy', openBlock')
      BY <2>4, <3>10
    <3>12. QED BY <2>1, <2>4, <3>11, LineRead
  <2>5. QED BY <2>2, <2>3, <2>4
<1>8. CASE ReadAssign
  <2> DEFINE read == file[line]
             a == [type |-> read.type, name |-> read.name, profile |-> read.profile]
  <2>1. At("assign")
    BY <1>8 DEF ReadAssign
  <2>2. \/ /\ Len(policy.assignments) = MaxAssignments \/ read.type \notin PrincipalTypes
           /\ \E status \in {"load_error", "buffer_too_small"} : Fail(status)
        \/ /\ read.type \in PrincipalTypes /\ openBlock' = openBlock /\ NextLine
           /\ policy' = [policy EXCEPT !.assignments = Append(policy.assignments, a)]
    BY <1>8 DEF ReadAssign
  <2>3. CASE /\ Len(policy.assignments) = MaxAssignments \/ read.type \notin PrincipalTypes
             /\ \E status \in {"load_error", "buffer_too_small"} : Fail(status)
    BY <2>3, FailureRead
  <2>4. CASE /\ read.type \in PrincipalTypes /\ openBlock' = openBlock /\ NextLine
             /\ policy' = [policy EXCEPT !.assignments = Append(policy.assignments, a)]
    <3>1. line \in 1 .. Len(file) /\ file[line].kind = "assign"
      BY <1>4, <2>1
    <3>2. a.type = read.type /\ a.name = read.name /\ a.profile = read.profile /\ a \in Assignments
      <4>1. read \in Lines
        BY <1>1, <3>1, FileLines
      <4>2. QED BY <2>4, <4>1 DEF Assignments, Names, Profiles
    <3> HIDE DEF a
    <3>3. /\ policy'.blocks = policy.blocks /\ policy'.events = policy.events
          /\ policy'.assignments = Append(policy.assignments, a)
      <4>1. policy \in Policies
        BY DEF PolicyInv
      <4>2. QED BY <2>4, <4>1 DEF Policies
    <3>4. Reading(file, line + 1, policy', openBlock)
      <4>1. PICK d : d = policy'
        OBVIOUS
      <4>2. Reading(file, line + 1, d, openBlock /\ file[line].kind # "endblock")
        BY <1>1, <1>2, <1>5, <2>4, <3>1, <3>2, <3>3, <4>1, ReadingOn
      <4>3. (openBlock /\ file[line].kind # "endblock") = openBlock
        BY <1>1, <3>1
      <4>4. QED BY <4>1, <4>2, <4>3
    <3>5. Reading(file, line + 1, policy', openBlock')
      BY <2>4, <3>4
    <3>6. QED BY <2>1, <2>4, <3>5, LineRead
  <2>5. QED BY <2>2, <2>3, <2>4
<1>9. CASE CloseBlock
  <2>1. At("endblock") /\ NextLine /\ policy' = policy /\ openBlock' = FALSE
    BY <1>9 DEF CloseBlock
  <2>2. line \in 1 .. Len(file) /\ file[line].kind = "endblock"
    BY <1>4, <2>1
  <2>3. Reading(file, line + 1, policy, openBlock /\ file[line].kind # "endblock")
    BY <1>1, <1>2, <1>5, <2>2, ReadingOn
  <2>4. (openBlock /\ file[line].kind # "endblock") = openBlock'
    BY <1>1, <2>1, <2>2
  <2>5. Reading(file, line + 1, policy', openBlock')
    BY <2>1, <2>3, <2>4
  <2>6. QED BY <2>1, <2>5, LineRead
<1>10. CASE MeetComment
  <2>1. file' = file /\ line' = line /\ policy' = policy /\ openBlock' = openBlock /\ loading' = "reading"
    BY <1>10 DEF MeetComment, policyVars, At
  <2>2. Reading(file', line', policy', openBlock') /\ loading' = "reading"
    BY <1>5, <2>1
  <2>3. QED BY <2>2 DEF PolicyRead
<1>11. CASE RejectLine
  <2>1. At("malformed") /\ Fail("load_error")
    BY <1>11 DEF RejectLine
  <2>2. QED BY <2>1, FailureRead
<1>12. CASE ReachEnd
  <2>1. file' = file /\ line' = line /\ policy' = policy /\ openBlock' = openBlock
        /\ loading' = "success" /\ line > Len(file)
    BY <1>12 DEF ReachEnd
  <2>2. /\ Reading(file', line', policy', openBlock') /\ loading' = "success"
        /\ line' > Len(file')
    BY <1>5, <2>1
  <2>3. QED BY <2>2 DEF PolicyRead
<1>13. QED BY <1>6, <1>7, <1>8, <1>9, <1>10, <1>11, <1>12 DEF PolicyNext

-----------------------------------------------------------------------------
(* A file that has been read to its end.                                   *)

WholeBlocks(f, at, blocks) ==
  /\ Enumerates(at, LinesOf(f, "block")) /\ Len(blocks) = Len(at)
  /\ \A b \in 1 .. Len(at) :
       /\ blocks[b].profile = f[at[b]].profile
       /\ \E lines : CapsAt(f, lines, GrantLines(f, at[b]), blocks[b].grants)

Whole(f, p) ==
  /\ \E at : WholeBlocks(f, at, p.blocks)
  /\ \E at : AssignmentsAt(f, at, Len(f) + 1, p.assignments)
             /\ Enumerates(at, LinesOf(f, "assign"))
  /\ \E at : CapsAt(f, at, LinesOf(f, "grant"), ImportedGrants(p)) /\ p.events = Len(at)

LEMMA AllLinesRead ==
  ASSUME NEW f \in PolicyFiles, NEW p, NEW open, Reading(f, Len(f) + 1, p, open)
  PROVE  Whole(f, p)
<1>1. \A i \in DOMAIN f : i < Len(f) + 1
  BY FileLines
<1>2. \A kind : ReadLines(f, kind, Len(f) + 1) = LinesOf(f, kind)
  BY <1>1 DEF ReadLines, LinesOf
<1>3. \A b : ReadGrants(f, b, Len(f) + 1) = GrantLines(f, b)
  BY <1>1 DEF ReadGrants, GrantLines, LinesOf
<1>4. PICK at : BlocksAt(f, at, Len(f) + 1, p.blocks, open)
  BY DEF Reading
<1>5. WholeBlocks(f, at, p.blocks)
  BY <1>2, <1>3, <1>4 DEF WholeBlocks, BlocksAt, BlockAt
<1>6. PICK as : AssignmentsAt(f, as, Len(f) + 1, p.assignments)
  BY DEF Reading
<1>7. Enumerates(as, LinesOf(f, "assign"))
  BY <1>2, <1>6 DEF AssignmentsAt
<1>8. PICK ls : CapsAt(f, ls, LinesOf(f, "grant"), ImportedGrants(p)) /\ p.events = Len(ls)
  BY <1>2 DEF Reading
<1>9. QED BY <1>5, <1>6, <1>7, <1>8 DEF Whole

LEMMA WholeFileWellFormed ==
  ASSUME PolicyInv, Reading(file, Len(file) + 1, policy, openBlock), policy.blocks # <<>>
  PROVE  WellFormed(file)
<1>1. file \in PolicyFiles /\ Len(file) \in Nat /\ \A i \in DOMAIN file : i \in 1 .. Len(file)
  BY FileLines DEF PolicyInv
<1>2. Whole(file, policy)
  BY <1>1, AllLinesRead
<1>4. PICK at : WholeBlocks(file, at, policy.blocks)
  BY <1>2 DEF Whole
<1>5. LinesOf(file, "block") # {} <=> policy.blocks # <<>>
  <2>1. PICK s \in Seq(Nat) : s = at /\ Len(policy.blocks) = Len(s)
    BY <1>4 DEF WholeBlocks, Enumerates
  <2>2. PICK m \in Nat : m = Len(s) /\ m = Len(policy.blocks)
    BY <2>1
  <2>3. \A i : i \in LinesOf(file, "block") <=> \E k \in 1 .. m : s[k] = i
    BY <1>4, <2>1, <2>2 DEF WholeBlocks, Enumerates
  <2>4. policy.blocks # <<>> <=> m # 0
    <3>1. PICK b \in Seq(Blocks) : b = policy.blocks
      BY PolicyLoaded DEF Loaded
    <3>2. QED BY <2>2, <3>1
  <2>5. CASE m = 0
    BY <2>3, <2>4, <2>5
  <2>6. CASE m # 0
    <3>1. 1 \in 1 .. m
      BY <2>6
    <3>2. QED BY <2>3, <2>4, <2>6, <3>1
  <2>7. QED BY <2>5, <2>6
<1>6. LinesOf(file, "malformed") = {}
      /\ \A i \in LinesOf(file, "block") \cup LinesOf(file, "assign") : file[i].type \in PrincipalTypes
  <2>1. (Len(file) + 1) - 1 = Len(file) /\ Plain(file, Len(file) + 1)
    BY <1>1 DEF Reading
  <2>2. \A i \in DOMAIN file : /\ file[i].kind \in {"block", "grant", "assign", "endblock"}
                               /\ file[i].kind \in {"block", "assign"} => file[i].type \in PrincipalTypes
    BY <1>1, <2>1 DEF Plain
  <2>3. QED BY <2>2 DEF LinesOf
<1>7. LinesOf(file, "grant") = UNION {GrantLines(file, b) : b \in LinesOf(file, "block")}
  <2>1. \A i \in LinesOf(file, "grant") : i \in ReadLines(file, "grant", Len(file) + 1)
    BY <1>1 DEF ReadLines, LinesOf
  <2>2. \A i \in LinesOf(file, "grant") : \E b \in LinesOf(file, "block") : i \in GrantLines(file, b)
    BY <2>1 DEF Reading, Placed
  <2>3. \A b : GrantLines(file, b) \subseteq LinesOf(file, "grant")
    BY DEF GrantLines
  <2>4. QED BY <2>2, <2>3
<1>8. QED BY <1>5, <1>6, <1>7 DEF WellFormed

LEMMA AuthorityNeedsBlocks ==
  ASSUME NEW p, LaunchAuthority(p)
  PROVE  p.blocks # <<>>
<1>1. PICK s : s = p.blocks
  OBVIOUS
<1>2. \A q : s = <<>> => BlockOf(p, q) = 0
  BY <1>1 DEF BlockOf, SelectInSeq
<1>3. ProfileOf(p, "task", "init") # 0
  BY DEF LaunchAuthority
<1>4. QED BY <1>1, <1>2, <1>3 DEF ProfileOf

AssignLines(f, type, name) ==
  {i \in LinesOf(f, "assign") : f[i].type = type /\ f[i].name = name}

FirstFound(lines, entry) == lines = {} <=> entry = 0

BlockLines(f, profile) == {b \in LinesOf(f, "block") : f[b].profile = profile}

(* The first entry of a table that suits comes from the first line that    *)
(* does.                                                                   *)
LEMMA FirstAssignment ==
  ASSUME NEW f \in PolicyFiles, NEW p, NEW at, NEW n, AssignmentsAt(f, at, n, p.assignments),
         Enumerates(at, LinesOf(f, "assign")), NEW type, NEW name
  PROVE  LET T == AssignLines(f, type, name)
             a == AssignmentOf(p, type, name)
         IN  FirstFound(T, a) /\ (a # 0 => f[Min(T)].profile = p.assignments[a].profile)
<1> PICK T, a : T = AssignLines(f, type, name) /\ a = AssignmentOf(p, type, name)
  OBVIOUS
<1> DEFINE K == {k \in 1 .. Len(at) : p.assignments[k].type = type /\ p.assignments[k].name = name}
<1>1. Len(p.assignments) = Len(at)
      /\ \A k \in 1 .. Len(at) : /\ p.assignments[k].type = f[at[k]].type
                                 /\ p.assignments[k].name = f[at[k]].name
                                 /\ p.assignments[k].profile = f[at[k]].profile
  BY DEF AssignmentsAt
<1>2. a = IF K = {} THEN 0 ELSE Min(K)
  BY <1>1 DEF AssignmentOf, SelectInSeq
<1>3. \A k \in 1 .. Len(at) : at[k] \in LinesOf(f, "assign")
  BY DEF Enumerates
<1>4. \A k \in 1 .. Len(at) : k \in K <=> at[k] \in T
  BY <1>1, <1>3 DEF AssignLines
<1>5. Selects(at, LinesOf(f, "assign"), K, T)
  BY <1>4 DEF Selects, AssignLines
<1> HIDE DEF K
<1>6. /\ T = {} <=> K = {}
      /\ K # {} => Min(K) \in 1 .. Len(at) /\ Min(T) = at[Min(K)]
  BY <1>5, EnumerateFirst
<1>7. \A k \in 1 .. Len(at) : k # 0
  <2>1. Len(at) \in Nat
    BY DEF Enumerates
  <2>2. QED BY <2>1
<1>8. CASE K = {}
  BY <1>2, <1>6, <1>8 DEF FirstFound
<1>9. CASE K # {}
  BY <1>1, <1>2, <1>6, <1>7, <1>9 DEF FirstFound
<1>10. QED BY <1>8, <1>9

LEMMA FirstBlock ==
  ASSUME NEW f \in PolicyFiles, NEW p, NEW at, WholeBlocks(f, at, p.blocks), NEW profile
  PROVE  LET T == BlockLines(f, profile)
             b == BlockOf(p, profile)
         IN  FirstFound(T, b) /\ (b # 0 => \E lines : CapsAt(f, lines, GrantLines(f, Min(T)), p.blocks[b].grants))
<1> PICK T, b : T = BlockLines(f, profile) /\ b = BlockOf(p, profile)
  OBVIOUS
<1> DEFINE K == {k \in 1 .. Len(at) : p.blocks[k].profile = profile}
<1>1. Enumerates(at, LinesOf(f, "block")) /\ Len(p.blocks) = Len(at)
      /\ \A k \in 1 .. Len(at) :
           /\ p.blocks[k].profile = f[at[k]].profile
           /\ \E lines : CapsAt(f, lines, GrantLines(f, at[k]), p.blocks[k].grants)
  BY DEF WholeBlocks
<1>2. b = IF K = {} THEN 0 ELSE Min(K)
  BY <1>1 DEF BlockOf, SelectInSeq
<1>3. \A k \in 1 .. Len(at) : at[k] \in LinesOf(f, "block")
  BY <1>1 DEF Enumerates
<1>4. \A k \in 1 .. Len(at) : k \in K <=> at[k] \in T
  BY <1>1, <1>3 DEF BlockLines
<1>5. Selects(at, LinesOf(f, "block"), K, T)
  BY <1>4 DEF Selects, BlockLines
<1> HIDE DEF K
<1>6. /\ T = {} <=> K = {}
      /\ K # {} => Min(K) \in 1 .. Len(at) /\ Min(T) = at[Min(K)]
  BY <1>1, <1>5, EnumerateFirst
<1>7. \A k \in 1 .. Len(at) : k # 0
  <2>1. Len(at) \in Nat
    BY <1>1 DEF Enumerates
  <2>2. QED BY <2>1
<1>8. CASE K = {}
  BY <1>2, <1>6, <1>8 DEF FirstFound
<1>9. CASE K # {}
  BY <1>1, <1>2, <1>6, <1>7, <1>9 DEF FirstFound
<1>10. QED BY <1>8, <1>9

LEMMA CapsOfLines ==
  ASSUME NEW f \in PolicyFiles, NEW lines, NEW S, NEW grants, CapsAt(f, lines, S, grants)
  PROVE  \A cap : (\E i \in S : f[i].cap = cap) <=> \E k \in 1 .. Len(grants) : grants[k].cap = cap
<1>1. Len(grants) = Len(lines) /\ \A k \in 1 .. Len(lines) : grants[k].cap = f[lines[k]].cap
  BY DEF CapsAt
<1>2. \A i : i \in S <=> \E k \in 1 .. Len(lines) : lines[k] = i
  BY DEF CapsAt, Enumerates
<1>3. QED BY <1>1, <1>2

LEMMA WholeFileAuthorises ==
  ASSUME PolicyInv, Reading(file, Len(file) + 1, policy, openBlock)
  PROVE  FileAuthorises(file) <=> LaunchAuthority(policy)
<1> DEFINE assigned == {i \in LinesOf(file, "assign") : file[i].type = "task" /\ file[i].name = "init"}
           profile == file[Min(assigned)].profile
           blocks == {b \in LinesOf(file, "block") : file[b].profile = profile}
           rights == {"service start", "service bootstrap.import"}
<1>1. FileAuthorises(file) <=> /\ assigned # {} /\ blocks # {}
                               /\ rights \subseteq {file[i].cap : i \in GrantLines(file, Min(blocks))}
  BY DEF FileAuthorises
<1>2. file \in PolicyFiles /\ Whole(file, policy)
  BY AllLinesRead DEF PolicyInv
<1>3. PICK as : AssignmentsAt(file, as, Len(file) + 1, policy.assignments)
                /\ Enumerates(as, LinesOf(file, "assign"))
  BY <1>2 DEF Whole
<1>4. PICK at : WholeBlocks(file, at, policy.blocks)
  BY <1>2 DEF Whole
<1>5. PICK a : a = AssignmentOf(policy, "task", "init")
  OBVIOUS
<1>6. /\ assigned = {} <=> a = 0
      /\ a # 0 => profile = policy.assignments[a].profile
  <2>1. PICK T : T = assigned
    OBVIOUS
  <2>2. T = AssignLines(file, "task", "init")
    BY <2>1 DEF AssignLines
  <2>3. PICK f, p, n : f = file /\ p = policy /\ n = Len(f) + 1
    OBVIOUS
  <2>4. /\ f \in PolicyFiles /\ AssignmentsAt(f, as, n, p.assignments)
        /\ Enumerates(as, LinesOf(f, "assign"))
        /\ T = AssignLines(f, "task", "init") /\ a = AssignmentOf(p, "task", "init")
    BY <1>2, <1>3, <1>5, <2>2, <2>3
  <2>5. FirstFound(T, a)
    BY <2>4, FirstAssignment
  <2>6. a # 0 => f[Min(T)].profile = p.assignments[a].profile
    BY <2>4, FirstAssignment, ZenonT(60)
  <2>7. QED BY <2>1, <2>3, <2>5, <2>6 DEF FirstFound
<1> HIDE DEF assigned
<1>7. CASE a = 0
  <2>1. ProfileOf(policy, "task", "init") = 0
    BY <1>5, <1>7 DEF ProfileOf
  <2>2. ~LaunchAuthority(policy)
    BY <2>1 DEF LaunchAuthority
  <2>3. QED BY <1>1, <1>6, <1>7, <2>2
<1>8. CASE a # 0
  <2>1. PICK b : b = BlockOf(policy, policy.assignments[a].profile)
    OBVIOUS
  <2>2. ProfileOf(policy, "task", "init") = b
    BY <1>5, <1>8, <2>1 DEF ProfileOf
  <2>3. b = BlockOf(policy, profile)
    BY <1>6, <1>8, <2>1
  <2>4. /\ blocks = {} <=> b = 0
        /\ b # 0 => \E lines : CapsAt(file, lines, GrantLines(file, Min(blocks)), policy.blocks[b].grants)
    <3>1. PICK q : q = profile
      OBVIOUS
    <3>2. PICK T : T = blocks
      OBVIOUS
    <3>3. T = BlockLines(file, q) /\ b = BlockOf(policy, q)
      BY <2>3, <3>1, <3>2 DEF BlockLines
    <3>4. PICK f, p : f = file /\ p = policy
      OBVIOUS
    <3>5. f \in PolicyFiles /\ WholeBlocks(f, at, p.blocks) /\ T = BlockLines(f, q) /\ b = BlockOf(p, q)
      BY <1>2, <1>4, <3>3, <3>4
    <3>6. FirstFound(T, b)
      BY <3>5, FirstBlock
    <3>7. b # 0 => \E lines : CapsAt(f, lines, GrantLines(f, Min(T)), p.blocks[b].grants)
      BY <3>5, FirstBlock
    <3>8. QED BY <3>2, <3>4, <3>6, <3>7 DEF FirstFound
  <2> HIDE DEF blocks, profile
  <2>5. CASE b = 0
    <3>1. ~LaunchAuthority(policy)
      BY <2>2, <2>5 DEF LaunchAuthority
    <3>2. QED BY <1>1, <2>4, <2>5, <3>1
  <2>6. CASE b # 0
    <3>1. PICK lines : CapsAt(file, lines, GrantLines(file, Min(blocks)), policy.blocks[b].grants)
      BY <2>4, <2>6
    <3>2. PICK grants \in Seq(PolicyGrants) : grants = policy.blocks[b].grants
      <4>1. policy.blocks \in Seq(Blocks) /\ b \in 1 .. Len(policy.blocks)
        <5>1. policy.blocks \in Seq(Blocks)
          BY PolicyLoaded DEF Loaded
        <5>2. PICK s \in Seq(Blocks) : s = policy.blocks
          BY <5>1
        <5> DEFINE K == {k \in 1 .. Len(s) : s[k].profile = profile}
        <5>3. b = IF K = {} THEN 0 ELSE Min(K)
          BY <2>3, <5>2 DEF BlockOf, SelectInSeq
        <5>4. K \in SUBSET Nat /\ K # {}
          BY <2>6, <5>3
        <5>5. Min(K) \in K
          BY <5>4, MinOfNaturals
        <5>6. QED BY <5>2, <5>3, <5>4, <5>5
      <4>2. policy.blocks[b] \in Blocks
        BY <4>1
      <4>3. QED BY <4>2 DEF Blocks
    <3>3. \A cap : cap \in {file[i].cap : i \in GrantLines(file, Min(blocks))}
                   <=> \E k \in 1 .. Len(grants) : grants[k].cap = cap
      <4>1. PICK S, t, f : S = GrantLines(file, Min(blocks)) /\ t = grants /\ f = file
        OBVIOUS
      <4>2. f \in PolicyFiles /\ CapsAt(f, lines, S, t)
        BY <1>2, <3>1, <3>2, <4>1
      <4>3. \A cap : (\E i \in S : f[i].cap = cap) <=> \E k \in 1 .. Len(t) : t[k].cap = cap
        BY <4>2, CapsOfLines, SMTT(30)
      <4>4. QED BY <4>1, <4>3
    <3>4. \A cap : ProfileHasGrant(policy.blocks[b], cap) <=> \E k \in 1 .. Len(grants) : grants[k].cap = cap
      <4>1. \A g : g \in ToSet(grants) <=> \E k \in 1 .. Len(grants) : grants[k] = g
        BY <3>2 DEF ToSet
      <4>2. QED BY <3>2, <4>1 DEF ProfileHasGrant
    <3>5. LaunchAuthority(policy) <=> \A cap \in rights : ProfileHasGrant(policy.blocks[b], cap)
      BY <2>2, <2>6 DEF LaunchAuthority
    <3>6. QED BY <1>1, <1>6, <1>8, <2>4, <2>6, <3>3, <3>4, <3>5
  <2>7. QED BY <2>5, <2>6
<1>9. QED BY <1>7, <1>8

-----------------------------------------------------------------------------
(* The launch: what the loader has made of the file, whether init has let  *)
(* the manager start, and the policy the manager has imported.             *)

LaunchInv ==
  /\ PolicyRead
  /\ stage \in {"boot", "online", "denied"}
  /\ stage # "boot" => loading # "reading"
  /\ stage = "online" => loading = "success" /\ WellFormed(file) /\ FileAuthorises(file)
  /\ stage = "denied" => loading # "success" \/ ~FileAuthorises(file)
  /\ online => loading = "success" /\ registry.context.blocks = policy.blocks

LEMMA LaunchStarts == Init => LaunchInv
<1> SUFFICES ASSUME Init PROVE LaunchInv
  OBVIOUS
<1>1. PolicyRead
  BY PolicyReadStarts DEF Init
<1>2. QED BY <1>1 DEF Init, LaunchInv

LEMMA SamePolicyRead ==
  ASSUME PolicyRead, SamePolicy
  PROVE  PolicyRead'
<1>1. file' = file /\ line' = line /\ policy' = policy /\ openBlock' = openBlock /\ loading' = loading
  BY DEF SamePolicy, policyVars
<1>2. /\ Reading(file', line', policy', openBlock')
      /\ loading' = "success" => line' > Len(file')
  BY <1>1 DEF PolicyRead
<1>3. QED BY <1>2 DEF PolicyRead

LEMMA SuccessIsWhole ==
  ASSUME PolicyInv, PolicyRead, loading = "success"
  PROVE  Reading(file, Len(file) + 1, policy, openBlock)
<1>1. Len(file) \in Nat /\ line \in 1 .. Len(file) + 1 /\ line > Len(file)
  BY FileLines DEF PolicyInv, PolicyRead
<1>2. line = Len(file) + 1
  BY <1>1
<1>3. QED BY <1>2 DEF PolicyRead

LEMMA AuthorityIsTheFiles ==
  ASSUME PolicyInv, PolicyRead, loading # "reading"
  PROVE  LaunchAuthority(BootstrapCapabilities) <=> loading = "success" /\ FileAuthorises(file)
<1>1. ASSUME LaunchAuthority(BootstrapCapabilities)
      PROVE  loading = "success" /\ FileAuthorises(file)
  <2>1. BootstrapCapabilities = policy /\ policy.blocks # <<>> /\ loading = "success"
    BY <1>1, BootContextLoads DEF CapabilitiesValid
  <2>2. Reading(file, Len(file) + 1, policy, openBlock) /\ LaunchAuthority(policy)
    BY <1>1, <2>1, SuccessIsWhole
  <2>3. QED BY <2>1, <2>2, WholeFileAuthorises
<1>2. ASSUME loading = "success", FileAuthorises(file)
      PROVE  LaunchAuthority(BootstrapCapabilities)
  <2>1. loading = "success"
    BY <1>2
  <2>2. Reading(file, Len(file) + 1, policy, openBlock)
    BY <2>1, SuccessIsWhole
  <2>3. LaunchAuthority(policy) /\ policy.blocks # <<>>
    BY <1>2, <2>2, WholeFileAuthorises, AuthorityNeedsBlocks
  <2>4. BootstrapCapabilities = policy
    BY <2>1, <2>3 DEF BootstrapCapabilities, CapabilitiesValid
  <2>5. QED BY <2>3, <2>4
<1>3. QED BY <1>1, <1>2

(* The monitor's tables are the smaller ones, so the import has room.      *)
LEMMA ImportHasRoom ==
  ASSUME PolicyInv, PolicyRead
  PROVE  ImportBootstrapContext(policy).ok
<1>1. Loaded(policy)
  BY PolicyLoaded
<1>2. PICK at : CapsAt(file, at, ReadLines(file, "grant", line), ImportedGrants(policy)) /\ policy.events = Len(at)
  BY DEF PolicyRead, Reading
<1>3. PICK k : k = Len(ImportedGrants(policy)) /\ k = policy.events
  BY <1>2 DEF CapsAt
<1>4. k \in Nat /\ k <= MaxBootEvents
  BY <1>3, PolicyLoaded DEF PolicyInv
<1>5. Fits(k)
  BY <1>4, PolicySizes, TablesAssumption, RegistryAssumption DEF Fits
<1>6. ImportedSoFar(ImportBootstrapContext(policy), ImportedGrants(policy), k)
  BY <1>1, <1>3, ImportOutcome
<1>7. QED BY <1>5, <1>6 DEF ImportedSoFar

LEMMA LaunchLaunches ==
  ASSUME CapabilitiesInv, LaunchInv, Launch
  PROVE  LaunchInv'
<1>1. PolicyInv /\ PolicyRead /\ loading # "reading" /\ SamePolicy /\ stage = "boot" /\ ~online
  BY DEF CapabilitiesInv, LaunchInv, Launch, SamePolicy, TransportInv, SessionInv
<1>2. PolicyRead' /\ loading' = loading /\ file' = file /\ policy' = policy
  BY <1>1, SamePolicyRead DEF SamePolicy, policyVars
<1>3. LaunchAuthority(BootstrapCapabilities) <=> loading = "success" /\ FileAuthorises(file)
  BY <1>1, AuthorityIsTheFiles
<1>4. CASE LaunchAuthority(BootstrapCapabilities) /\ LaunchServiceImage(BootstrapCapabilities)
  <2>1. LaunchServiceImage(policy) /\ loading = "success" /\ Loaded(policy)
    BY <1>1, <1>4, BootContextLoads DEF CapabilitiesValid
  <2>2. PICK import : import = ImportBootstrapContext(policy)
    OBVIOUS
  <2>3. /\ import.ok /\ Ledger(import.reg)
        /\ import.reg.context = [blocks |-> policy.blocks, assignments |-> policy.assignments]
    BY <1>1, <2>1, <2>2, ImportHasRoom, ImportOutcome DEF ImportedSoFar
  <2>4. online' /\ registry' = SelfTest(import.reg) /\ stage' = "online"
    BY <2>1, <2>2, <2>3 DEF LaunchServiceImage, BringOnline
  <2>5. SelfTest(import.reg).context = import.reg.context
    BY <2>3, SelfTestKeepsLedger DEF Succeeds
  <2>6. registry'.context.blocks = policy.blocks
    BY <2>3, <2>4, <2>5
  <2>7. /\ stage' = "online" /\ FileAuthorises(file') /\ loading' = "success"
        /\ registry'.context.blocks = policy'.blocks
    BY <1>2, <1>3, <1>4, <2>1, <2>4, <2>6
  <2>9. WellFormed(file')
    <3>1. Reading(file, Len(file) + 1, policy, openBlock) /\ policy.blocks # <<>>
      BY <1>1, <1>4, <2>1, SuccessIsWhole, BootContextLoads
    <3>2. WellFormed(file)
      BY <1>1, <3>1, WholeFileWellFormed
    <3>3. QED BY <1>2, <3>2
  <2>8. QED BY <1>2, <2>7, <2>9 DEF LaunchInv
<1>5. CASE ~LaunchAuthority(BootstrapCapabilities)
  <2>1. stage' = "denied" /\ online' = online
    BY <1>5 DEF Launch
  <2>2. loading' # "success" \/ ~FileAuthorises(file')
    BY <1>2, <1>3, <1>5
  <2>3. QED BY <1>1, <1>2, <2>1, <2>2 DEF LaunchInv
<1>6. QED BY <1>4, <1>5 DEF Launch

LEMMA LaunchStays ==
  ASSUME LaunchInv, SamePolicy, UNCHANGED <<stage, online>>,
         online => registry'.context = registry.context
  PROVE  LaunchInv'
<1>1. PolicyRead'
  BY SamePolicyRead DEF LaunchInv
<1>2. file' = file /\ policy' = policy /\ loading' = loading /\ stage' = stage /\ online' = online
  BY DEF SamePolicy, policyVars
<1>3. /\ stage' \in {"boot", "online", "denied"}
      /\ stage' # "boot" => loading' # "reading"
      /\ stage' = "online" => loading' = "success" /\ WellFormed(file') /\ FileAuthorises(file')
      /\ stage' = "denied" => loading' # "success" \/ ~FileAuthorises(file')
      /\ online' => loading' = "success" /\ registry'.context.blocks = policy'.blocks
  BY <1>2 DEF LaunchInv
<1>4. QED BY <1>1, <1>3 DEF LaunchInv

LEMMA LaunchKept ==
  ASSUME CapabilitiesInv, CapabilitiesInv', LaunchInv, [Next]_vars
  PROVE  LaunchInv'
<1>1. CASE LoadPolicy
  <2>1. stage = "boot" /\ ~online /\ PolicyNext /\ stage' = stage /\ online' = online
    BY <1>1 DEF LoadPolicy, registryVars, CapabilitiesInv, TransportInv, SessionInv
  <2>2. PolicyRead'
    BY <2>1, PolicyReadOn DEF LaunchInv, CapabilitiesInv
  <2>3. QED BY <2>1, <2>2 DEF LaunchInv
<1>2. CASE Launch
  BY <1>2, LaunchLaunches
<1>3. CASE Mutates
  <2>1. PICK kind, out : Outcome(out, registry) /\ Mutation(kind, out)
    BY <1>3, MutationOutcome DEF CapabilitiesInv
  <2>2. SamePolicy /\ UNCHANGED <<stage, online>> /\ registry' = out.reg
    BY <2>1 DEF Mutation, SamePolicy
  <2>3. registry'.context = registry.context
    BY <2>1, <2>2 DEF Outcome, Succeeds
  <2>4. QED BY <2>2, <2>3, LaunchStays
<1>4. CASE SamePolicy /\ UNCHANGED <<stage, registry, online>>
  BY <1>4, LaunchStays
<1>5. ASSUME NEW typed \in ConsoleLines, TypeLine(typed)
      PROVE  SamePolicy /\ UNCHANGED <<stage, registry, online>>
  BY <1>5 DEF TypeLine, SamePolicy
<1>6. ASSUME NEW c \in Clients, NEW r \in ConnectRequests, Connect(c, r)
      PROVE  SamePolicy /\ UNCHANGED <<stage, registry, online>>
  BY <1>6 DEF Connect, SamePolicy, registryVars
<1>7. ASSUME NEW c \in Clients, Bind(c)
      PROVE  SamePolicy /\ UNCHANGED <<stage, registry, online>>
  BY <1>7 DEF Bind, SamePolicy, registryVars
<1>8. ASSUME NEW c \in Clients, NEW r \in AccessRequests, SubmitBound(c, r)
      PROVE  SamePolicy /\ UNCHANGED <<stage, registry, online>>
  BY <1>8 DEF SubmitBound, SamePolicy, registryVars
<1>9. ASSUME NEW r \in AccessRequests, Submit(r)
      PROVE  SamePolicy /\ UNCHANGED <<stage, registry, online>>
  BY <1>9 DEF Submit, SamePolicy, registryVars
<1>10. CASE Spin
  <2>1. SamePolicy /\ UNCHANGED <<stage, registry, online>>
    BY <1>10 DEF Spin, SamePolicy, registryVars
  <2>2. QED BY <1>4, <2>1
<1>11. CASE UNCHANGED vars
  <2>1. SamePolicy /\ UNCHANGED <<stage, registry, online>>
    BY <1>11 DEF vars, SamePolicy, registryVars
  <2>2. QED BY <1>4, <2>1
<1>12. QED BY <1>1, <1>2, <1>3, <1>4, <1>5, <1>6, <1>7, <1>8, <1>9, <1>10, <1>11 DEF Next, Mutates

(* What the import has left in the ledger.                                 *)
LEMMA ImportedEvents ==
  ASSUME NEW reg, Ledger(reg), Descends(reg)
  PROVE  LET s == ImportedGrants(reg.context)
         IN  /\ s \in Seq(Grants) /\ Imported(reg) = 1 .. Len(s)
             /\ \A k \in 1 .. Len(s) : reg.events[k].cap = s[k].cap
<1>1. PICK s \in Seq(Grants) : s = ImportedGrants(reg.context)
  BY ImportedInOrder DEF Descends
<1>2. PICK successor : successor = ImportBootstrapContext(HandedOn(reg, MaxBlocks))
  OBVIOUS
<1>3. successor = ImportBootstrapContext(reg.context)
  BY <1>2, HandedOnWhole DEF Ledger
<1>4. successor.ok /\ ImportedSoFar(successor, s, Len(s))
  BY <1>1, <1>3, ImportOutcome DEF Descends
<1>5. Imported(reg) = 1 .. Len(successor.reg.events) /\ Succeeds(reg, successor.reg)
  BY <1>2, <1>3, SuccessorImports DEF Descends
<1>6. /\ Len(successor.reg.events) = Len(s)
      /\ \A k \in 1 .. Len(s) : successor.reg.events[k].cap = s[k].cap
  <2>1. PICK events : events = successor.reg.events
    OBVIOUS
  <2>2. Len(events) = Len(s)
    BY <1>4, <2>1 DEF ImportedSoFar, Carried
  <2>3. \A k \in 1 .. Len(s) : events[k] = [kind |-> "IMPORTED", grant |-> s[k].id, cap |-> s[k].cap]
    BY <1>4, <2>1 DEF ImportedSoFar, Carried
  <2>4. ASSUME NEW k \in 1 .. Len(s)
        PROVE  events[k].cap = s[k].cap
    <3>1. PICK e, id, cap : e = events[k] /\ id = s[k].id /\ cap = s[k].cap
      OBVIOUS
    <3>2. e = [kind |-> "IMPORTED", grant |-> id, cap |-> cap]
      BY <2>3, <3>1
    <3>3. QED BY <3>1, <3>2
  <2>5. QED BY <2>1, <2>2, <2>4
<1>7. \A k \in 1 .. Len(s) : reg.events[k] = successor.reg.events[k]
  BY <1>5, <1>6 DEF Succeeds
<1>8. QED BY <1>1, <1>5, <1>6, <1>7

(* Init launches the manager only from a well-formed file read to its end, *)
(* and then just when that file gives the task init both rights; the       *)
(* manager has every grant of the file by import, and no import stops half *)
(* way                                                                     *)
(* (LosMonitorLoadCapabilitiesFromEsp, LosInitCommandValidateLaunchAuthority, *)
(* LosCapabilitiesServiceImportBootstrapContext).                          *)
THEOREM CapabilitiesLaunch == Spec => []LaunchFollowsPolicy
<1>1. Init => LaunchInv
  BY LaunchStarts
<1>2. CapabilitiesInv /\ CapabilitiesInv' /\ LaunchInv /\ [Next]_vars => LaunchInv'
  BY LaunchKept
<1>3. CapabilitiesInv /\ LaunchInv => LaunchFollowsPolicy
  <2> SUFFICES ASSUME CapabilitiesInv, LaunchInv PROVE LaunchFollowsPolicy
    OBVIOUS
  <2>1. PolicyInv /\ PolicyRead /\ (online => Ledger(registry) /\ Descends(registry))
    BY DEF CapabilitiesInv, RegistryInv, LaunchInv
  <2>2. file \in PolicyFiles /\ line \in Nat /\ line >= 1
    BY <2>1, FileLines DEF PolicyInv
  <2>4. ASSUME online
        PROVE  /\ Cardinality(Imported(registry)) = Cardinality(LinesOf(file, "grant"))
               /\ {registry.events[k].cap : k \in Imported(registry)}
                    = {file[i].cap : i \in LinesOf(file, "grant")}
    <3>1. loading = "success" /\ registry.context.blocks = policy.blocks
      BY <2>4 DEF LaunchInv
    <3>2. Whole(file, policy)
      BY <2>1, <2>2, <3>1, SuccessIsWhole, AllLinesRead
    <3>3. ImportedGrants(registry.context) = ImportedGrants(policy)
      BY <3>1 DEF ImportedGrants
    <3>4. PICK s \in Seq(Grants) :
            /\ s = ImportedGrants(policy) /\ Imported(registry) = 1 .. Len(s)
            /\ \A k \in 1 .. Len(s) : registry.events[k].cap = s[k].cap
      BY <2>1, <2>4, <3>3, ImportedEvents
    <3>5. PICK at : CapsAt(file, at, LinesOf(file, "grant"), s)
      BY <3>2, <3>4 DEF Whole
    <3>6. Cardinality(LinesOf(file, "grant")) = Len(s)
      BY <3>5, EnumerateCounts DEF CapsAt
    <3>7. Cardinality(Imported(registry)) = Len(s)
      <4>1. PICK n \in Nat : n = Len(s)
        OBVIOUS
      <4>2. Cardinality(1 .. n) = IF 1 > n THEN 0 ELSE n - 1 + 1
        BY FS_Interval
      <4>3. QED BY <3>4, <4>1, <4>2
    <3>8. \A cap : (\E i \in LinesOf(file, "grant") : file[i].cap = cap)
                   <=> \E k \in 1 .. Len(s) : s[k].cap = cap
      <4>1. PICK S, t, f : S = LinesOf(file, "grant") /\ t = s /\ f = file
        OBVIOUS
      <4>2. f \in PolicyFiles /\ CapsAt(f, at, S, t)
        BY <2>2, <3>5, <4>1
      <4>3. \A cap : (\E i \in S : f[i].cap = cap) <=> \E k \in 1 .. Len(t) : t[k].cap = cap
        BY <4>2, CapsOfLines
      <4>4. QED BY <4>1, <4>3
    <3>9. {registry.events[k].cap : k \in Imported(registry)}
            = {file[i].cap : i \in LinesOf(file, "grant")}
      <4>1. \A cap : cap \in {registry.events[k].cap : k \in Imported(registry)}
                     <=> \E k \in 1 .. Len(s) : s[k].cap = cap
        BY <3>4
      <4>2. \A cap : cap \in {file[i].cap : i \in LinesOf(file, "grant")}
                     <=> \E i \in LinesOf(file, "grant") : file[i].cap = cap
        OBVIOUS
      <4>3. QED BY <3>8, <4>1, <4>2
    <3>10. QED BY <3>6, <3>7, <3>9
  <2>5. QED BY <2>4 DEF LaunchFollowsPolicy, LaunchInv
<1>4. QED BY <1>1, <1>2, <1>3, CapabilitiesInvariant, PTL DEF Spec

=============================================================================
