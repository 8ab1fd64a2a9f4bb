---------------------------- MODULE FrameDatabase ----------------------------
(***************************************************************************)
(* The physical frame allocator of the memory-manager service.             *)
(*                                                                         *)
(* The service keeps a baseline table built from the kernel's region table *)
(* and the service's own assets, a list of dynamic allocations, and a      *)
(* current database that is rebuilt from the two after every claim,        *)
(* reservation and free.  Totals and region descriptors are refreshed at   *)
(* the end of a rebuild that succeeds.  The service runs one request at a  *)
(* time, so each handler is one action; LosMemoryManagerHardFail halts it. *)
(***************************************************************************)
EXTENDS FrameTable, FiniteSets

CONSTANTS RegionTables,     \* region tables the kernel may hand over
          Overlays,         \* assets of the launch block, in order
          ClaimRequests,    \* requests of AllocateFrames and ClaimFrames
          ReserveRequests,  \* requests of ReserveFrames
          FreeRanges,       \* ranges FreeFrames may be asked to free
          TrackedRequests,  \* claims of the heap and the address spaces
          FourGigabytes     \* the frame at 4 GiB

ASSUME FourGigabytesAssumption == FourGigabytes \in Nat

RegionTypes == {"usable", "boot_reserved", "firmware", "acpi", "unusable", "runtime", "mmio"}
Regions == [base : Nat, count : Nat, type : RegionTypes, owner : Owners, source : Sources]

(* The values the code itself writes into Usage, Owner and Source.         *)
ASSUME FieldsAssumption ==
  /\ {"free", "dynamic_reserved", "dynamic_claimed"} \cup (RegionTypes \ {"usable"}) \subseteq Usages
  /\ "claimed" \in Owners /\ "runtime" \in Sources

(* Boot hands over regions that are merged, so no two usable ones touch.   *)
ASSUME RegionTablesAssumption ==
  /\ RegionTables \subseteq Seq(Regions)
  /\ \A t \in RegionTables : \A i \in 1 .. Len(t) - 1 :
       ~(t[i].type = "usable" /\ t[i + 1].type = "usable" /\ End(t[i]) = t[i + 1].base)

ASSUME OverlaysAssumption == Overlays \in Seq([base : Nat, count : Nat, usage : Usages])

(* A request of no pages is refused before anything below is reached.      *)
Pages == Nat \ {0}
ASSUME RequestsAssumption ==
  /\ ClaimRequests \subseteq [count : Pages, min : Nat, max : Nat, align : Nat, below4G : BOOLEAN,
                              exact : BOOLEAN, desired : Nat, owner : Owners]
  /\ ReserveRequests \subseteq [base : Nat, count : Pages, owner : Owners]
  /\ TrackedRequests \subseteq [count : Pages, align : Nat, below4G : BOOLEAN,
                                usage : Usages \ {"dynamic_reserved", "dynamic_claimed"}]
  /\ FreeRanges \subseteq [base : Nat, count : Pages]

VARIABLES view,         \* "unbuilt", "ready" or "rejected"
          baseline,     \* BaselinePageFrameDatabase
          database,     \* PageFrameDatabase
          allocations,  \* DynamicAllocations
          totals,       \* TotalPages, FreePages, ...
          descriptors,  \* InternalDescriptors, what QueryMemoryRegions reports
          halted,       \* the rule and range of the hard failure, if any
          grants,       \* what the service has answered and not taken back
          ranOut        \* a rebuild has run out of entries

vars == <<view, baseline, database, allocations, totals, descriptors, halted, grants, ranOut>>

NotHalted == [rule |-> "none", base |-> 0, count |-> 0]
Halt(rule, base, count) ==
  /\ halted' = [rule |-> rule, base |-> base, count |-> count]
  /\ UNCHANGED <<view, baseline, database, allocations, totals, descriptors, grants, ranOut>>

Running == halted = NotHalted
Serving == Running /\ view = "ready"

-----------------------------------------------------------------------------
(* What is published about a table.                                        *)

FrameState(type) ==
  CASE type = "usable" -> "free"
    [] type \in {"runtime", "mmio"} -> type
    [] OTHER -> "reserved"

FrameUsage(type) == IF type = "usable" THEN "free" ELSE type

Category(e) ==
  CASE e.state = "free" -> "usable"
    [] e.state \in {"runtime", "mmio"} -> e.state
    [] e.state = "reserved" /\ e.usage \in {"firmware", "acpi", "unusable"} -> e.usage
    [] OTHER -> "boot_reserved"

(* FLAG_CLAIMED marks what the service or its clients took.                *)
ClaimedFlag(e) ==
  e.state = "reserved" /\ e.usage \notin {"boot_reserved", "firmware", "acpi", "unusable"}

DescriptorOf(e) ==
  [base |-> e.base, count |-> e.count, category |-> Category(e), claimed |-> ClaimedFlag(e),
   owner |-> IF e.state = "free" THEN "none" ELSE e.owner, source |-> e.source]

RefreshInternalDescriptors(table) ==
  AppendAll([i \in DOMAIN table |-> DescriptorOf(table[i])]).table

PagesIn(table, states) ==
  LET Add(n, e) == IF e.state \in states THEN n + e.count ELSE n
  IN FoldLeft(Add, 0, table)

RefreshPageTotals(table) ==
  [s \in States \cup {"total"} |-> PagesIn(table, IF s = "total" THEN States ELSE {s})]

(* Mutated form of the rebuild: starts from the current database.          *)
RebuildFromDatabase(list) ==
  LET Step(t, a) == IF t.ok THEN RewriteFrameDatabaseRange(t.table, a.base, a.count,
                                                          a.state, a.usage, a.owner)
                            ELSE t
  IN FoldLeft(Step, Done(database), list)

RebuildCurrentPageFrameDatabase(list) ==
  LET Step(t, a) == IF t.ok THEN RewriteFrameDatabaseRange(t.table, a.base, a.count,
                                                          a.state, a.usage, a.owner)
                            ELSE t
  IN FoldLeft(Step, Done(baseline), list)

(* Mutated form of Publish: the totals and descriptors are not refreshed.  *)
PublishQuietly(list) ==
  /\ allocations' = list
  /\ database' = RebuildCurrentPageFrameDatabase(list).table
  /\ UNCHANGED <<view, baseline, totals, descriptors, halted, ranOut>>

(* A changed allocation list and the rebuild that follows it.  A rebuild   *)
(* that runs out of entries leaves the list changed, the database half     *)
(* rewritten and the totals and descriptors as they were.                  *)
Publish(list) ==
  LET rebuilt == RebuildCurrentPageFrameDatabase(list)
  IN /\ allocations' = list
     /\ database' = rebuilt.table
     /\ ranOut' = (ranOut \/ ~rebuilt.ok)
     /\ IF rebuilt.ok
        THEN /\ totals' = RefreshPageTotals(rebuilt.table)
             /\ descriptors' = RefreshInternalDescriptors(rebuilt.table)
        ELSE UNCHANGED <<totals, descriptors>>
     /\ UNCHANGED <<view, baseline, halted>>

Published(list) == RebuildCurrentPageFrameDatabase(list).ok

-----------------------------------------------------------------------------
(* LosMemoryManagerServiceBuildMemoryView, once, at the bootstrap attach.  *)
(* The assets are those of the launch block and then every page of the     *)
(* service's active page tables.  A view that is rejected serves nobody.   *)

FrameEntry(region) ==
  [base |-> region.base, count |-> region.count, state |-> FrameState(region.type),
   usage |-> FrameUsage(region.type), owner |-> region.owner, source |-> region.source]

IngestedRegions(table) == AppendAll([i \in DOMAIN table |-> FrameEntry(table[i])])

ReservedOverlays(ingested) ==
  LET Step(t, o) ==
        IF ~t.ok \/ o.count = 0 THEN t
        ELSE RewriteFrameDatabaseRange(t.table, o.base, o.count, "reserved", o.usage, "claimed")
  IN FoldLeft(Step, ingested, Overlays)

OverlapAt(table) == {i \in 2 .. Len(table) : table[i].base < End(table[i - 1])}

BuildMemoryView(table) ==
  /\ Running
  /\ view = "unbuilt"
  /\ \/ /\ OverlapAt(table) # {}
        /\ LET i == Min(OverlapAt(table))
           IN Halt("overlapping-physical-ranges", table[i - 1].base, table[i - 1].count)
     \/ /\ OverlapAt(table) = {}
        /\ LET built == ReservedOverlays(IngestedRegions(table))
           IN /\ view' = IF built.ok THEN "ready" ELSE "rejected"
              /\ database' = built.table
              /\ baseline' = IF built.ok THEN built.table ELSE <<>>
              /\ totals' = IF built.ok THEN RefreshPageTotals(built.table) ELSE totals
              /\ descriptors' = RefreshInternalDescriptors(
                                  IF built.ok THEN built.table ELSE IngestedRegions(table).table)
        /\ UNCHANGED <<allocations, halted, grants, ranOut>>

-----------------------------------------------------------------------------
(* Taking frames: InsertDynamicAllocation and the rebuild.                 *)

Allocation(base, count, usage, owner) ==
  [base |-> base, count |-> count, state |-> "reserved", usage |-> usage,
   owner |-> owner, source |-> "runtime"]

Overlapping(base, count) == \E a \in ToSet(allocations) : ~Outside(a, base, count)

Record(base, count, usage, owner) ==
  LET inserted == InsertEntry(allocations, Allocation(base, count, usage, owner))
      grant == [base |-> base, count |-> count, usage |-> usage, owner |-> owner]
  IN \/ /\ Overlapping(base, count)
        /\ Halt("overlapping-physical-ranges", base, count)
     \/ /\ ~Overlapping(base, count)
        /\ IF inserted.ok
           THEN /\ Publish(inserted.table)
                /\ grants' = IF Published(inserted.table) THEN grants \cup {grant} ELSE grants
           ELSE UNCHANGED vars

EffectiveOwner(owner) == IF owner = "none" THEN "claimed" ELSE owner
EffectiveAlignment(align) == IF align = 0 THEN 1 ELSE align
ValidAlignment(align) == \E k \in 0 .. align : align = 2 ^ k

DatabaseLimit == IF database = <<>> THEN 0 ELSE End(Last(database))
Below4G(limit, below4G) == IF below4G THEN Smaller(limit, FourGigabytes) ELSE limit

(* The window of a claim, and its answer when no hard failure stops it.    *)
ClaimLimit(r) ==
  Below4G(IF r.max = 0 THEN DatabaseLimit ELSE Smaller(r.max, DatabaseLimit), r.below4G)

Found(r) == FindClaimableContiguousRange(database, r.min, ClaimLimit(r),
                                         EffectiveAlignment(r.align), r.count)

Refused(status) == [status |-> status, base |-> 0]
Granted(base) == [status |-> "success", base |-> base]

ExactAnswer(base, count) ==
  CASE ~Covers(database, base, count) -> Refused("out_of_range")
    [] CoversWithState(database, base, count, "free") -> Granted(base)
    [] OTHER -> Refused("conflict")

SearchAnswer(r) == IF Found(r).found THEN Granted(Found(r).base) ELSE Refused("not_found")

ClaimAnswer(r) ==
  LET limit == ClaimLimit(r)
      outside == r.exact /\ (r.desired < r.min \/ r.desired + r.count > limit)
  IN IF ~ValidAlignment(EffectiveAlignment(r.align)) THEN Refused("invalid")
     ELSE IF limit <= r.min \/ outside THEN Refused("out_of_range")
     ELSE IF r.exact THEN ExactAnswer(r.desired, r.count) ELSE SearchAnswer(r)

(* LosMemoryManagerServiceClaimFrames, and AllocateFrames, which copies    *)
(* its request into a claim.                                               *)
ClaimFrames(r) ==
  /\ Serving
  /\ \/ /\ r.count >= AddressPages
        /\ Halt("page-count-overflow", r.count, 1)
     \/ /\ r.count < AddressPages
        /\ ValidAlignment(EffectiveAlignment(r.align)) /\ ClaimLimit(r) > r.min
        /\ r.exact /\ DoesRangeWrap(r.desired, r.count)
        /\ Halt("base-plus-size-wrap", r.desired, r.count)
     \/ /\ r.count < AddressPages
        /\ ~(r.exact /\ DoesRangeWrap(r.desired, r.count))
        /\ ClaimAnswer(r).status = "success"
        /\ Record(ClaimAnswer(r).base, r.count, "dynamic_claimed", EffectiveOwner(r.owner))

AllocateFrames(r) == ClaimFrames(r)

(* LosMemoryManagerServiceReserveFrames                                    *)
ReserveFrames(r) ==
  /\ Serving
  /\ \/ /\ DoesRangeWrap(r.base, r.count)
        /\ Halt("base-plus-size-wrap", r.base, r.count)
     \/ /\ ~DoesRangeWrap(r.base, r.count)
        /\ CoversWithState(database, r.base, r.count, "free")
        /\ Record(r.base, r.count, "dynamic_reserved", EffectiveOwner(r.owner))

(* LosMemoryManagerServiceClaimTrackedFrames, for the service's own use.   *)
(* For a service image the range must lie in one entry of the database.    *)
TrackedFound(r) ==
  FindClaimableContiguousRange(database, 1, Below4G(DatabaseLimit, r.below4G),
                               EffectiveAlignment(r.align), r.count)

EntriesContaining(base, count) == {e \in ToSet(database) : Span(base, count) \subseteq Frames(e)}

ClaimTrackedFrames(r) ==
  LET base == TrackedFound(r).base
      chosen == EntriesContaining(base, r.count)
      image == r.usage = "service_image"
  IN /\ Serving
     /\ r.count < AddressPages /\ ValidAlignment(EffectiveAlignment(r.align))
     /\ TrackedFound(r).found
     /\ \/ /\ image /\ chosen = {}
           /\ Halt("claim-selected-range-missing", base, r.count)
        \/ /\ image /\ chosen # {} /\ \A e \in chosen : e.state # "free"
           /\ Halt("claim-selected-range-not-free", base, r.count)
        \/ /\ image => \E e \in chosen : e.state = "free"
           /\ Record(base, r.count, r.usage, "claimed")

-----------------------------------------------------------------------------
(* Giving frames back.                                                     *)

GrantsWithin(base, count) == {g \in grants : Frames(g) \subseteq Span(base, count)}

(* RemoveDynamicAllocationRange and the rebuild.  The answer is a conflict *)
(* when the rebuild fails, although the range has left the list.           *)
Release(base, count) ==
  LET remaining == RemoveRange(allocations, base, count)
  IN /\ remaining.ok
     /\ Publish(remaining.table)
     /\ grants' = IF Published(remaining.table) THEN grants \ GrantsWithin(base, count)
                                                ELSE grants

FindExactDynamicAllocation(base, count) ==
  {a \in ToSet(allocations) : a.base = base /\ a.count = count}

MayBeFreed(a) == a.usage \in {"dynamic_reserved", "dynamic_claimed"}

(* LosMemoryManagerServiceFreeFrames                                       *)
FreeFrames(base, count) ==
  LET exact == FindExactDynamicAllocation(base, count)
  IN /\ Serving
     /\ \/ /\ DoesRangeWrap(base, count % AddressPages)
           /\ Halt("page-count-overflow", base, count)
        \/ /\ ~DoesRangeWrap(base, count % AddressPages)
           /\ \A a \in exact : ~MayBeFreed(a)
           /\ Halt("freeing-unowned-pages", base, count)
        \/ /\ ~DoesRangeWrap(base, count % AddressPages)
           /\ \E a \in exact : MayBeFreed(a)
           /\ Release(base, count)

(* LosMemoryManagerServiceFreeTrackedFrames: the service frees exactly     *)
(* what one of its own claims was given.                                   *)
FreeTrackedFrames(g) ==
  /\ Serving
  /\ g.usage \notin {"dynamic_reserved", "dynamic_claimed"}
  /\ Release(g.base, g.count)

-----------------------------------------------------------------------------
(* QueryMemoryRegions copies as many descriptors as the caller has room    *)
(* for and changes nothing.                                                *)
QueryMemoryRegions(room) == SubSeq(descriptors, 1, Smaller(room, Len(descriptors)))

Init ==
  /\ view = "unbuilt"
  /\ baseline = <<>> /\ database = <<>> /\ allocations = <<>> /\ descriptors = <<>>
  /\ totals = RefreshPageTotals(<<>>)
  /\ halted = NotHalted
  /\ grants = {}
  /\ ranOut = FALSE

Next ==
  \/ \E t \in RegionTables : BuildMemoryView(t)
  \/ \E r \in ClaimRequests : ClaimFrames(r)
  \/ \E r \in ClaimRequests : AllocateFrames(r)
  \/ \E r \in ReserveRequests : ReserveFrames(r)
  \/ \E r \in TrackedRequests : ClaimTrackedFrames(r)
  \/ \E r \in FreeRanges : FreeFrames(r.base, r.count)
  \/ \E g \in grants : FreeFrames(g.base, g.count)
  \/ \E g \in grants : FreeTrackedFrames(g)

Spec == Init /\ [][Next]_vars

-----------------------------------------------------------------------------
(* Properties.                                                             *)

HeldFrames == UNION {Frames(g) : g \in grants}
Claimable == {p \in FramesOf(baseline) : CoversWithState(baseline, p, 1, "free")} \ HeldFrames

(* After any sequence of cuts, insertions and removals, also one that ran  *)
(* out of entries, every array is ordered, its ranges are disjoint and no  *)
(* two neighbours could be one; the current database describes exactly the *)
(* frames of the baseline.  No array outgrows its storage.  The searches    *)
(* and the list operations rely on it.                                     *)
Canonical(t) ==
  \A i \in 1 .. Len(t) - 1 : End(t[i]) <= t[i + 1].base /\ ~Continues(t[i], t[i + 1])

TablesStayCanonical ==
  view = "ready" =>
    /\ \A t \in {baseline, database, allocations} : Canonical(t) /\ Len(t) <= MaxEntries
    /\ Len(descriptors) <= MaxEntries
    /\ FramesOf(database) = FramesOf(baseline)

(* The current database says of every frame what the grants in force say:  *)
(* reserved for its holder's use if it is held, and otherwise what the     *)
(* baseline said, so that freed frames get their first state back.         *)
DatabaseShowsGrants ==
  view = "ready" /\ ~ranOut =>
    \A e \in ToSet(database) : \A p \in Frames(e) :
      IF p \in HeldFrames
      THEN \E g \in grants : /\ p \in Frames(g)
                             /\ <<e.state, e.usage, e.owner>> = <<"reserved", g.usage, g.owner>>
      ELSE \E b \in ToSet(baseline) :
             /\ p \in Frames(b)
             /\ <<e.state, e.usage, e.owner>> = <<b.state, b.usage, b.owner>>

(* A claim is answered as the grants in force demand: an exact one         *)
(* succeeds just when nobody holds the range, and a search finds the       *)
(* lowest aligned range of claimable frames in its window and fails only   *)
(* when there is none.                                                     *)
WithinWindow(r, base) ==
  /\ base >= r.min
  /\ r.max # 0 => base + r.count <= r.max
  /\ r.below4G => base + r.count <= FourGigabytes

Fits(r, base) == WithinWindow(r, base) /\ Span(base, r.count) \subseteq Claimable

AnswersFollowGrants ==
  Serving /\ ~ranOut =>
    \A r \in {q \in ClaimRequests : q.count < AddressPages /\ ValidAlignment(EffectiveAlignment(q.align))} :
      LET answer == ClaimAnswer(r)
          fitting == {b \in Claimable : b % EffectiveAlignment(r.align) = 0 /\ Fits(r, b)}
      IN IF r.exact
         THEN answer.status = "success" <=> Fits(r, r.desired)
         ELSE IF fitting = {} THEN answer.status # "success"
              ELSE answer = [status |-> "success", base |-> Min(fitting)]

(* QueryMemoryRegions and the page totals never lag behind the grants: the *)
(* frames reported usable are those a claim may be given, and the totals   *)
(* add up.                                                                 *)
ReportedUsable ==
  UNION {Frames(d) : d \in {q \in ToSet(QueryMemoryRegions(MaxEntries)) : q.category = "usable"}}

ReportsFollowGrants ==
  view = "ready" /\ ~ranOut =>
    /\ ReportedUsable = Claimable
    /\ totals["free"] = Cardinality(Claimable)
    /\ totals["total"] = totals["free"] + totals["reserved"] + totals["runtime"] + totals["mmio"]

(* A free is stopped as one of unowned pages only if nobody was granted    *)
(* that range.                                                             *)
UnownedStopIsGenuine ==
  halted.rule = "freeing-unowned-pages" =>
    \A g \in grants : <<g.base, g.count>> # <<halted.base, halted.count>>

(* The allocator implements the ledger of frames, as long as no rebuild    *)
(* has run out of entries.                                                 *)
Ledger == INSTANCE FrameLedger WITH
  usable <- {p \in FramesOf(baseline) : CoversWithState(baseline, p, 1, "free")},
  held <- {Frames(g) : g \in grants},
  stopped <- (halted # NotHalted)

KeepsLedger ==
  Ledger!LedgerInit /\ [][~ranOut => Ledger!LedgerNext]_(Ledger!ledgerVars)
=============================================================================
