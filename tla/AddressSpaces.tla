---------------------------- MODULE AddressSpaces ----------------------------
(***************************************************************************)
(* Address spaces of the memory-manager service: the objects it keeps on   *)
(* its heap, their page tables, the virtual regions reserved in them, and  *)
(* the staged image and the stack that are placed there.  The service      *)
(* answers one request at a time, so a handler is one action; what can go  *)
(* wrong inside it is that frames or descriptors run out half way.         *)
(*                                                                         *)
(* Virtual addresses and physical addresses are counted in pages.  Of a    *)
(* page entry the frame and the writable and no-execute bits are kept.     *)
(***************************************************************************)
EXTENDS ServiceHeap, SequencesExt

CONSTANTS
  ObjectBytes,        \* size of an address-space object
  LowHalfLimit,       \* first virtual page that is not the user's
  TableSpans,         \* pages behind a table of each level below the root
  MaxRegions,         \* reserved regions of one object
  DefaultStackBase, StackGap,
  Images,             \* staged images: [valid, complete, segments, entry]
  StackRequests,      \* [base, count]; base 0 leaves the choice to the service
  PageRequests,       \* [base, count, frame, flags] of map, unmap and protect
                      \* requests; frame, the physical page, is used by map alone
  EntryFrames,        \* physical pages that the address in a page entry can name
  PhysicalEnd,        \* first physical page that has no address
  MaxSpaces           \* bound on the spaces that exist at once

(* An object fits in a page; a request for no pages is refused before      *)
(* anything is looked at, and is not among the requests here.              *)
ASSUME SpacesAssumption ==
  /\ ObjectBytes \in 1 .. PageBytes
  /\ {LowHalfLimit, MaxRegions, DefaultStackBase, StackGap, MaxSpaces, PhysicalEnd} \subseteq Nat
  /\ EntryFrames \in Nat \ {0}
  /\ TableSpans \in Seq(Nat \ {0})

ASSUME SpaceRequestsAssumption ==
  /\ \A img \in Images : /\ {img.valid, img.complete} \subseteq BOOLEAN /\ img.entry \in Nat
                         /\ IsFiniteSet(img.segments)
                         /\ \A s \in img.segments : s.base \in Nat /\ s.count \in Nat
  /\ StackRequests \subseteq [base : Nat, count : Nat \ {0}]
  /\ PageRequests \subseteq [base : Nat, count : Nat \ {0}, frame : Nat, flags : SUBSET STRING]

VARIABLES store,      \* frames and heap
          spaces,     \* address of an object |-> the object
          halted      \* the hard-failure rule that stopped the service

vars == <<store, spaces, halted>>

Parts == {"image", "stack"}
NoPart == [frame |-> 0, base |-> 0, count |-> 0, entry |-> 0]
NoPages == [v \in {} |-> 0]

Running == halted = "no"
Halt(rule) == halted' = rule /\ UNCHANGED <<store, spaces>>

Put(f, key, value) == [k \in DOMAIN f \cup {key} |-> IF k = key THEN value ELSE f[k]]
Without(f, keys) == [k \in DOMAIN f \ keys |-> f[k]]

-----------------------------------------------------------------------------
(* Reserved regions: a list in order of address.                           *)

Overlap(b1, c1, b2, c2) == b1 < b2 + c2 /\ b2 < b1 + c1
WithinLowHalf(base, count) == count > 0 /\ base + count <= LowHalfLimit

CanReserveRegion(sp, base, count) ==
  /\ WithinLowHalf(base, count)
  /\ Len(sp.regions) < MaxRegions
  /\ \A r \in ToSet(sp.regions) : ~Overlap(base, count, r.base, r.count)

(* LosMemoryManagerReserveVirtualRegion                                    *)
ReserveRegion(sp, base, count, type, backing) ==
  LET above == {i \in DOMAIN sp.regions : base < sp.regions[i].base}
      at == IF above = {} THEN Len(sp.regions) + 1 ELSE Min(above)
      region == [base |-> base, count |-> count, type |-> type, backing |-> backing]
  IN IF CanReserveRegion(sp, base, count)
     THEN [ok |-> TRUE, space |-> [sp EXCEPT !.regions = InsertAt(@, at, region)]]
     ELSE [ok |-> FALSE, space |-> sp]

(* The scan ends at the first region at or below the range that does not   *)
(* touch it.                                                               *)
IsVirtualRangeReserved(sp, base, count) ==
  LET below == {i \in DOMAIN sp.regions : base >= sp.regions[i].base}
      Touched(i) == Overlap(base, count, sp.regions[i].base, sp.regions[i].count)
      Holds(i) == base + count <= sp.regions[i].base + sp.regions[i].count
  IN \E i \in below : Holds(i) /\ \A j \in below : j <= i => Touched(j)

(* The default base, moved above each region that it is in.                *)
Bumped(b, r, count) ==
  IF Overlap(b, count, r.base, r.count) THEN r.base + r.count + StackGap ELSE b
DefaultBase(sp, count) ==
  FoldLeft(LAMBDA b, r : Bumped(b, r, count), DefaultStackBase, sp.regions)

(* LosMemoryManagerSelectStackBaseVirtualAddress: 0 when there is no place.*)
SelectStackBase(sp, desired, count) ==
  LET base == IF desired # 0 THEN desired ELSE DefaultBase(sp, count)
      taken == desired # 0 /\ \E r \in ToSet(sp.regions) : Overlap(base, count, r.base, r.count)
  IN IF taken \/ ~WithinLowHalf(base, count) THEN 0 ELSE base

-----------------------------------------------------------------------------
(* Page tables.  A table is known by its level and by the part of the      *)
(* address that leads to it; missing ones are allocated on the way down    *)
(* and stay when the mapping fails.                                        *)

Levels == Len(TableSpans)
Node(level, v) == <<level, v \div TableSpans[level]>>

EnsureChildTable(x, node) ==
  LET page == HeapAllocatePage(x.store, "page_table")
  IN IF ~x.ok \/ node \in DOMAIN x.space.nodes THEN x
     ELSE IF ~page.ok THEN [x EXCEPT !.ok = FALSE]
     ELSE [x EXCEPT !.store = page.store,
                    !.space.nodes = Put(@, node, page.at[1])]

(* The address field of an entry keeps the low bits of a page's number.    *)
EntryFrame(frame) == frame % EntryFrames

MapPage(x, v, frame, flags) ==
  LET down == FoldLeft(EnsureChildTable, x, [i \in 1 .. Levels |-> Node(Levels + 1 - i, v)])
  IN IF ~x.ok \/ ~down.ok THEN down
     ELSE IF v \in DOMAIN down.space.leaves THEN [down EXCEPT !.ok = FALSE]
     ELSE [down EXCEPT !.space.leaves =
             Put(@, v, [frame |-> EntryFrame(frame), flags |-> flags])]

(* LosMemoryManagerMapPagesIntoAddressSpace: page by page, with what has   *)
(* been mapped left in place when a later page fails; bits has the flags   *)
(* of each page.                                                           *)
MapPagesInto(x, base, frame, bits) ==
  FoldLeft(LAMBDA y, i : MapPage(y, base + i - 1, frame + i - 1, bits[i]),
           x, [i \in 1 .. Len(bits) |-> i])

Alike(count, flags) == [i \in 1 .. count |-> flags]

(* Unmapping and protecting stop at the first page that is not mapped.     *)
MappedPrefix(sp, base, count) ==
  {v \in Extent(base, count) : Extent(base, v - base + 1) \subseteq DOMAIN sp.leaves}

UnmapFrom(sp, base, count) ==
  [sp EXCEPT !.leaves = Without(@, MappedPrefix(sp, base, count))]

ProtectIn(sp, base, count, flags) ==
  [sp EXCEPT !.leaves = [v \in DOMAIN @ |->
     IF v \in MappedPrefix(sp, base, count) THEN [@[v] EXCEPT !.flags = flags] ELSE @[v]]]

(* QueryContiguousMappedRange                                              *)
ContiguouslyMapped(sp, base, count, flags) ==
  /\ Extent(base, count) \subseteq DOMAIN sp.leaves
  /\ \A v \in Extent(base, count) : /\ flags \subseteq sp.leaves[v].flags
                                    /\ sp.leaves[v].frame = sp.leaves[base].frame + v - base

-----------------------------------------------------------------------------
(* Staged images: the span of the load segments, the entry, which may be   *)
(* relative to the image, and the bits of a page.                          *)

LoadSegments(img) == {s \in img.segments : s.count > 0}
LayoutBase(img) == Min({s.base : s \in LoadSegments(img)})
LayoutEnd(img) == Max({s.base + s.count : s \in LoadSegments(img)})
LayoutCount(img) == LayoutEnd(img) - LayoutBase(img)

EntryOf(img) ==
  IF img.entry \in Extent(LayoutBase(img), LayoutCount(img)) THEN img.entry
  ELSE IF img.entry < LayoutCount(img) THEN img.entry + LayoutBase(img)
  ELSE 0

(* DescribeImageLayout and ResolveImageEntryVirtualAddress                 *)
HasLayout(img) ==
  /\ LoadSegments(img) # {}
  /\ \A s \in LoadSegments(img) : s.base + s.count <= LowHalfLimit
  /\ EntryOf(img) # 0

WantedImage(img) ==
  [base |-> LayoutBase(img), count |-> LayoutCount(img), entry |-> EntryOf(img)]

(* ComputeImagePageFlags: "gap" for a page that no segment covers.         *)
ImagePageFlags(img, v) ==
  LET covering == {s \in LoadSegments(img) : v \in Extent(s.base, s.count)}
  IN IF covering = {} THEN {"gap"}
     ELSE (IF \E s \in covering : s.write THEN {"writable"} ELSE {})
          \cup (IF \E s \in covering : s.exec THEN {} ELSE {"nx"})

-----------------------------------------------------------------------------
(* An image or a stack the space already has, and how a request that asks  *)
(* for one is answered from it.  The three sources are tried in turn, and  *)
(* what a source that does not match has changed stays changed.            *)

(* Mutated form of AnswerFrom: the entry is taken to be the first page.    *)
AnswerFromBase(sp, part) ==
  LET p == sp.parts[part]
  IN [base |-> p.base, count |-> p.count, entry |-> IF part = "image" THEN p.base ELSE p.entry]

AnswerFrom(sp, part) ==
  LET p == sp.parts[part]
  IN [base |-> p.base, count |-> p.count,
      entry |-> IF part = "image" /\ p.entry = 0 THEN p.base ELSE p.entry]

RecordedRegion(sp, part) ==
  LET p == sp.parts[part]
      recorded == \E r \in ToSet(sp.regions) : r.type = part /\ r.base = p.base
  IN IF 0 \in {p.base, p.frame, p.count} \/ recorded THEN sp
     ELSE ReserveRegion(sp, p.base, p.count, part, p.frame).space

PopulateExisting(sp, part) ==
  LET p == sp.parts[part]
  IN IF p.base = 0 /\ p.entry = 0 THEN [found |-> FALSE, space |-> sp]
     ELSE [found |-> TRUE, space |-> RecordedRegion(sp, part)]

Adopt(sp, part, p) ==
  PopulateExisting([sp EXCEPT !.parts[part] = p, !.has = @ \cup {part}], part)

PopulateReserved(sp, part) ==
  LET usable == {i \in DOMAIN sp.regions : sp.regions[i].type = part /\ sp.regions[i].backing # 0}
      r == sp.regions[Min(usable)]
      p == sp.parts[part]
      kept == IF part = "image" /\ p.count # 0 THEN p.count ELSE r.count
      entry == IF part = "stack" THEN 0 ELSE IF p.entry = 0 THEN r.base ELSE p.entry
  IN IF usable = {} THEN [found |-> FALSE, space |-> sp]
     ELSE Adopt(sp, part, [frame |-> r.backing, base |-> r.base, count |-> kept, entry |-> entry])

RepairFromMappings(sp, part, wanted) ==
  LET needed == IF part = "stack" THEN {"writable"} ELSE {}
  IN IF wanted.base = 0 \/ ~ContiguouslyMapped(sp, wanted.base, wanted.count, needed)
     THEN [found |-> FALSE, space |-> sp]
     ELSE Adopt(sp, part, [frame |-> sp.leaves[wanted.base].frame, base |-> wanted.base,
                           count |-> wanted.count, entry |-> wanted.entry])

(* PopulateRequestedImageResult and PopulateRequestedStackResult           *)
PopulateRequested(sp, part, wanted) ==
  LET Matches(x) == x.found /\ AnswerFrom(x.space, part) = wanted
      one == PopulateExisting(sp, part)
      two == PopulateReserved(one.space, part)
      three == RepairFromMappings(two.space, part, wanted)
      last == IF Matches(one) THEN one ELSE IF Matches(two) THEN two ELSE three
  IN [found |-> Matches(last), space |-> last.space]

-----------------------------------------------------------------------------
(* Creating an object and its root table.                                  *)

NewSpace(root) ==
  [root |-> root, nodes |-> NoPages, leaves |-> NoPages, regions |-> <<>>,
   parts |-> [p \in Parts |-> NoPart], has |-> {}]

(* LosMemoryManagerCreateAddressSpaceObject                                *)
CreateOutcome(s) ==
  LET object == HeapAllocate(s, ObjectBytes, 1, "address_space_object")
      root == HeapAllocatePage(object.store, "page_table")
  IN IF ~object.ok THEN [status |-> "no resources", store |-> s]
     ELSE IF ~root.ok
     THEN [status |-> "no resources", store |-> HeapFree(object.store, object.at).store]
     ELSE [status |-> "success", store |-> root.store, at |-> object.at,
           space |-> NewSpace(root.at[1])]

CreateAddressSpace ==
  /\ Running
  /\ Cardinality(DOMAIN spaces) < MaxSpaces
  /\ LET new == CreateOutcome(store)
     IN /\ store' = new.store
        /\ spaces' = IF new.status = "success" THEN Put(spaces, new.at, new.space) ELSE spaces
  /\ UNCHANGED halted

-----------------------------------------------------------------------------
(* Attaching a staged image and allocating a stack.                        *)

Answered(status, s, sp) == [status |-> status, store |-> s, space |-> sp]

FromRequested(s, found) ==
  Answered(IF found.found THEN "success" ELSE "conflict", s, found.space)

(* The object and the root of a space that is in use should be tracked; a  *)
(* frame that is not is claimed again.                                     *)
EnsureTracked(s, at, sp) ==
  [s EXCEPT !.frames[at[1]] = IF @ = "free" THEN "address_space_object" ELSE @,
            !.frames[sp.root] = IF @ = "free" THEN "page_table" ELSE @]

Commit(sp, part, p) ==
  [ReserveRegion(sp, p.base, p.count, part, p.frame).space EXCEPT
     !.parts[part] = p, !.has = @ \cup {part}]

(* Mutated form of Undo: the frames that were claimed stay claimed.        *)
UndoWithoutFrames(status, x, frame, count) == Answered(status, x.store, x.space)

(* What has been mapped stays mapped when the frames are given back.       *)
Undo(status, x, frame, count) == Answered(status, Release(x.store, frame, count).store, x.space)

(* Mutated form of Place: the region is recorded before the mapping.       *)
PlaceRecordedFirst(x, part, p) ==
  IF x.ok THEN Answered("success", x.store, Commit(x.space, part, p))
  ELSE Undo("conflict", [x EXCEPT !.space = Commit(x.space, part, p)], p.frame, p.count)

(* The tail both requests share: the mapping, with its failures, and the   *)
(* region and the fields of the object.                                    *)
Place(x, part, p) ==
  LET repaired == RepairFromMappings(x.space, part, p)
  IN IF x.ok THEN Answered("success", x.store, Commit(x.space, part, p))
     ELSE IF repaired.found
     THEN Undo("success", [x EXCEPT !.space = repaired.space], p.frame, p.count)
     ELSE Undo("conflict", x, p.frame, p.count)

Framed(wanted, frame) ==
  [frame |-> frame, base |-> wanted.base, count |-> wanted.count, entry |-> wanted.entry]

(* The copy needs the frames, and a file that holds all its segments.      *)
StageImageIntoPhysicalMemory(s, img) ==
  LET claimed == Claim(s, LayoutCount(img), "service_image")
  IN IF img.complete THEN claimed ELSE [claimed EXCEPT !.ok = FALSE, !.store = s]

(* The runs of pages are mapped up to one that no segment covers.          *)
MapStagedImage(sp, img, claimed) ==
  LET wanted == WantedImage(img)
      Flags(i) == ImagePageFlags(img, wanted.base + i - 1)
      Gaps == {i \in 1 .. wanted.count : Flags(i) = {"gap"}}
      covered == IF Gaps = {} THEN wanted.count ELSE Min(Gaps) - 1
      mapped == MapPagesInto([ok |-> TRUE, store |-> claimed.store, space |-> sp],
                             wanted.base, claimed.base, [i \in 1 .. covered |-> Flags(i)])
  IN IF mapped.ok /\ Gaps # {} THEN Undo("invalid", mapped, claimed.base, wanted.count)
     ELSE Place(mapped, "image", Framed(wanted, claimed.base))

StageImage(s, sp, img) ==
  LET claimed == StageImageIntoPhysicalMemory(s, img)
  IN IF claimed.ok THEN MapStagedImage(sp, img, claimed) ELSE Answered("no resources", s, sp)

(* LosMemoryManagerServiceAttachStagedImage                                *)
AttachOutcome(s0, at, sp0, img) ==
  LET s == EnsureTracked(s0, at, sp0)
      Again(sp) == IF HasLayout(img) THEN PopulateRequested(sp, "image", WantedImage(img))
                   ELSE [found |-> FALSE, space |-> sp]
      begun == sp0.parts["image"] # NoPart
      sp == IF begun THEN Again(sp0).space ELSE sp0
      repaired == IF HasLayout(img) THEN RepairFromMappings(sp, "image", WantedImage(img))
                  ELSE [found |-> FALSE, space |-> sp]
  IN CASE ~img.valid -> Answered("invalid", s, sp0)
       [] img.valid /\ "image" \in sp0.has -> FromRequested(s, Again(sp0))
       [] img.valid /\ "image" \notin sp0.has /\ begun /\ Again(sp0).found ->
            Answered("success", s, [sp EXCEPT !.has = @ \cup {"image"}])
       [] OTHER ->
            IF repaired.found THEN Answered("success", s, repaired.space)
            ELSE IF ~HasLayout(img) THEN Answered("invalid", s, sp)
            ELSE IF ~CanReserveRegion(sp, LayoutBase(img), LayoutCount(img))
            THEN FromRequested(s, Again(sp))
            ELSE StageImage(s, sp, img)

StackFlags == {"writable", "nx"}

(* LosMemoryManagerServiceAllocateAddressSpaceStack                        *)
StackOutcome(s, sp0, r) ==
  LET Again(sp, base) ==
        LET at == IF base = 0 THEN SelectStackBase(sp, 0, r.count) ELSE base
        IN IF at = 0 THEN [found |-> FALSE, space |-> sp]
           ELSE PopulateRequested(sp, "stack", [base |-> at, count |-> r.count, entry |-> 0])
      begun == sp0.parts["stack"] # NoPart
      sp == IF begun THEN Again(sp0, r.base).space ELSE sp0
      base == SelectStackBase(sp, r.base, r.count)
      claimed == Claim(s, r.count, "service_stack")
      wanted == [base |-> base, count |-> r.count, entry |-> 0]
      mapped == MapPagesInto([ok |-> TRUE, store |-> claimed.store, space |-> sp],
                             base, claimed.base, Alike(r.count, StackFlags))
  IN IF "stack" \in sp0.has THEN FromRequested(s, Again(sp0, r.base))
     ELSE IF begun /\ Again(sp0, r.base).found
     THEN Answered("success", s, [sp EXCEPT !.has = @ \cup {"stack"}])
     ELSE IF base = 0 THEN FromRequested(s, Again(sp, r.base))
     ELSE IF ~CanReserveRegion(sp, base, r.count) THEN FromRequested(s, Again(sp, base))
     ELSE IF ~claimed.ok THEN Answered("no resources", s, sp)
     ELSE Place(mapped, "stack", Framed(wanted, claimed.base))

Apply(at, outcome) ==
  /\ store' = outcome.store
  /\ spaces' = [spaces EXCEPT ![at] = outcome.space]
  /\ UNCHANGED halted

AttachStagedImage(at, img) == Running /\ Apply(at, AttachOutcome(store, at, spaces[at], img))
AllocateAddressSpaceStack(at, r) == Running /\ Apply(at, StackOutcome(store, spaces[at], r))

-----------------------------------------------------------------------------
(* Destroying: the frames of the image, those of the stack, the tables     *)
(* from the leaves up, the root and the object.  A step that fails ends    *)
(* the request and leaves what is done.                                    *)

(* Mutated form of FreePart: the frames of a stack are left.               *)
FreePartImage(x, part) ==
  LET p == x.space.parts[part]
      back == Release(x.store, p.frame, p.count)
  IN IF ~x.ok \/ p.frame = 0 \/ p.count = 0 \/ part = "stack" THEN x
     ELSE IF ~back.ok THEN [x EXCEPT !.ok = FALSE]
     ELSE [x EXCEPT !.store = back.store, !.pages = @ + p.count]

FreePart(x, part) ==
  LET p == x.space.parts[part]
      back == Release(x.store, p.frame, p.count)
  IN IF ~x.ok \/ p.frame = 0 \/ p.count = 0 THEN x
     ELSE IF ~back.ok THEN [x EXCEPT !.ok = FALSE]
     ELSE [x EXCEPT !.store = back.store, !.pages = @ + p.count]

(* An entry that is not present is passed over.                            *)
FreeTable(x, node) ==
  LET back == HeapFree(x.store, <<x.space.nodes[node], 0>>)
      leaves == IF node[1] = 1 THEN {v \in DOMAIN x.space.leaves : Node(1, v) = node} ELSE {}
      emptied == [x.space EXCEPT !.leaves = Without(@, leaves)]
  IN IF ~x.ok \/ node \notin DOMAIN x.space.nodes THEN x
     ELSE IF ~back.ok THEN [x EXCEPT !.ok = FALSE, !.space = emptied]
     ELSE [ok |-> TRUE, store |-> back.store, pages |-> x.pages + back.pages,
           space |-> [emptied EXCEPT !.nodes = Without(@, {node})]]

LastPage(node) == (node[2] + 1) * TableSpans[node[1]]
Deeper(m, n) ==
  LastPage(m) < LastPage(n) \/ (LastPage(m) = LastPage(n) /\ m[1] <= n[1])

FreeingOrder(nodes) ==
  CHOOSE q \in [1 .. Cardinality(nodes) -> nodes] :
    \A i, j \in DOMAIN q : i < j => q[i] # q[j] /\ Deeper(q[i], q[j])

FreeAddress(x, at) ==
  LET back == HeapFree(x.store, at)
  IN IF ~x.ok THEN x
     ELSE IF ~back.ok THEN [x EXCEPT !.ok = FALSE]
     ELSE [x EXCEPT !.store = back.store, !.pages = @ + back.pages]

(* LosMemoryManagerServiceDestroyAddressSpace.  The count of pages starts  *)
(* again at the tables, and the object is wiped before its memory is given *)
(* back.                                                                   *)
DestroyOutcome(s, at, sp) ==
  LET begun == [ok |-> TRUE, store |-> s, space |-> sp, pages |-> 0]
      unframed == FreePart(FreePart(begun, "image"), "stack")
      tables == FoldLeft(FreeTable, [unframed EXCEPT !.pages = 0],
                         FreeingOrder(DOMAIN sp.nodes))
      unrooted == FreeAddress(tables, <<sp.root, 0>>)
      gone == FreeAddress(unrooted, at)
  IN [status |-> IF gone.ok THEN "success" ELSE "conflict", wiped |-> unrooted.ok,
      store |-> gone.store, space |-> gone.space, pages |-> gone.pages]

DestroyAddressSpace(at) ==
  LET outcome == DestroyOutcome(store, at, spaces[at])
  IN /\ Running
     /\ store' = outcome.store
     /\ spaces' = IF outcome.wiped THEN Without(spaces, {at})
                  ELSE [spaces EXCEPT ![at] = outcome.space]
     /\ UNCHANGED halted

-----------------------------------------------------------------------------
(* Mapping, unmapping and protecting pages of a reserved region.           *)

AllowedFlags == {"writable", "nx"}

(* LosMemoryManagerValidateAddressSpaceAccess: the rule a request breaks.  *)
BrokenRule(sp, r) ==
  IF r.base + r.count > LowHalfLimit THEN "base-plus-size-wrap"
  ELSE IF ~(r.flags \subseteq AllowedFlags) THEN "invalid-protection-flags"
  ELSE IF ~IsVirtualRangeReserved(sp, r.base, r.count) THEN "mapping-into-unreserved-virtual-space"
  ELSE "no"

Access(at, r, outcome) ==
  LET rule == BrokenRule(spaces[at], r)
  IN /\ Running
     /\ IF rule # "no" THEN Halt(rule) ELSE Apply(at, outcome)

(* The client says what to map: any physical pages, be they behind the     *)
(* region, in another space, or in no memory at all.                       *)
MapPages(at, r) ==
  LET sp == spaces[at]
      wraps == BrokenRule(sp, r) = "no" /\ r.frame + r.count > PhysicalEnd
      x == MapPagesInto([ok |-> TRUE, store |-> store, space |-> sp],
                        r.base, r.frame, Alike(r.count, r.flags))
  IN IF wraps THEN Running /\ Halt("base-plus-size-wrap")
     ELSE Access(at, r, Answered(IF x.ok THEN "success" ELSE "conflict", x.store, x.space))

UnmapPages(at, r) ==
  Access(at, [r EXCEPT !.flags = {}], Answered("done", store, UnmapFrom(spaces[at], r.base, r.count)))

ProtectPages(at, r) ==
  Access(at, r, Answered("done", store, ProtectIn(spaces[at], r.base, r.count, r.flags)))

(* LosMemoryManagerServiceQueryMapping answers from the reserved regions   *)
(* first, then from the tables, then from the fields of the object, whose  *)
(* region it records if it is missing.                                     *)
FromFields(sp, part, v) ==
  LET p == sp.parts[part] IN p.base # 0 /\ p.count # 0 /\ v \in Extent(p.base, p.count)

BackingOf(sp, v) ==
  LET behind == {r \in ToSet(sp.regions) : v \in Extent(r.base, r.count)}
      r == CHOOSE x \in behind : TRUE
  IN IF behind = {} THEN 0 ELSE r.backing + v - r.base

Recorded(sp) ==
  LET Known(x, part) == 0 \notin {x.parts[part].base, x.parts[part].frame, x.parts[part].count}
      Step(x, part) == IF Known(x, part)
                       THEN RecordedRegion([x EXCEPT !.has = @ \cup {part}], part) ELSE x
  IN Step(Step(sp, "image"), "stack")

QueryMapping(sp, v) ==
  IF BackingOf(sp, v) # 0 THEN [frame |-> BackingOf(sp, v), space |-> sp]
  ELSE IF v \in DOMAIN sp.leaves THEN [frame |-> sp.leaves[v].frame, space |-> sp]
  ELSE IF FromFields(sp, "image", v)
  THEN [frame |-> sp.parts["image"].frame + v - sp.parts["image"].base, space |-> sp]
  ELSE IF FromFields(sp, "stack", v)
  THEN [frame |-> sp.parts["stack"].frame + v - sp.parts["stack"].base, space |-> sp]
  ELSE [frame |-> BackingOf(Recorded(sp), v), space |-> Recorded(sp)]

-----------------------------------------------------------------------------
Init ==
  /\ store = FreshHeap
  /\ spaces = NoPages
  /\ halted = "no"

Next ==
  \/ CreateAddressSpace
  \/ \E at \in DOMAIN spaces :
       \/ \E img \in Images : AttachStagedImage(at, img)
       \/ \E r \in StackRequests : AllocateAddressSpaceStack(at, r)
       \/ \E r \in PageRequests : MapPages(at, r) \/ UnmapPages(at, r) \/ ProtectPages(at, r)
       \/ DestroyAddressSpace(at)

Spec == Init /\ [][Next]_vars

-----------------------------------------------------------------------------
(* Where requests put images and stacks: the span of an image, with its    *)
(* entry, the page a stack is asked at or, when the choice is left to the  *)
(* service, the default one and the one above a stack that is there        *)
(* already.  What is asked of the service is apart when no two of these    *)
(* places overlap, so that two images in one span have the same entry: the *)
(* kernel attaches one image and asks for one stack at a base of its own.  *)

StackBases(r) ==
  IF r.base # 0 THEN {r.base} ELSE {DefaultStackBase, DefaultStackBase + r.count + StackGap}

Places ==
  {<<"image", LayoutBase(img), LayoutCount(img), EntryOf(img)>> :
     img \in {i \in Images : i.valid /\ HasLayout(i)}}
  \cup UNION {{<<"stack", base, r.count, 0>> : base \in StackBases(r)} : r \in StackRequests}

PlacesApart ==
  \A p, q \in Places : p = q \/ ~Overlap(p[2], p[3], q[2], q[3])

-----------------------------------------------------------------------------
(* Properties.                                                             *)

PartFrames(sp, part) == Extent(sp.parts[part].frame, sp.parts[part].count)
UsageOf(part) == IF part = "image" THEN "service_image" ELSE "service_stack"
Claimed(s) == {f \in FrameIds : s.frames[f] # "free"}

(* The tables of a space, each with the frame it is in.                    *)
Tables(sp) == {<<<<Levels + 1, 0>>, sp.root>>} \cup {<<n, sp.nodes[n]>> : n \in DOMAIN sp.nodes}
TableAllocations(sp) == {[base |-> t[2], count |-> 1] : t \in Tables(sp)}

(* What says that a frame is its own, for the usage it was claimed for.    *)
Holders(f, usage) ==
  {x \in (DOMAIN spaces) \X Parts :
     /\ x[2] \in spaces[x[1]].has /\ usage = UsageOf(x[2])
     /\ f \in PartFrames(spaces[x[1]], x[2])}
  \cup (UNION {{<<a, t[1]>> : t \in {u \in Tables(spaces[a]) : u[2] = f /\ usage = "page_table"}} :
               a \in DOMAIN spaces})
  \cup {<<"heap", i>> : i \in {j \in SlabPages(store) :
            store.slabs[j].frame = f /\ store.slabs[j].usage = usage}}
  \cup {<<"object", a>> : a \in {b \in DOMAIN spaces : b = <<f, 0>> /\ b \notin BlocksInUse(store)
                                                      /\ usage = "address_space_object"}}

TypeOK ==
  /\ store.frames \in [FrameIds -> {"free", "heap_metadata", "address_space_object", "page_table",
                                    "service_image", "service_stack"}]
  /\ DOMAIN store.slabs = 1 .. MaxSlabPages
  /\ Cardinality(store.large) <= MaxLarge
  /\ DOMAIN spaces \subseteq FrameIds \X Nat
  /\ \A a \in DOMAIN spaces : /\ spaces[a].root \in FrameIds
                              /\ Len(spaces[a].regions) <= MaxRegions
                              /\ spaces[a].has \subseteq Parts

(* Whatever a request ran out of on its way, every frame that is claimed   *)
(* for spaces is the image, the stack, the object or a table of exactly    *)
(* one of them or a page of the heap; the blocks and the one-page          *)
(* allocations in use are the objects and the tables of the spaces, and    *)
(* the heap's counts say so.                                               *)
FramesAccountedFor ==
  LET tables == UNION {TableAllocations(spaces[a]) : a \in DOMAIN spaces}
      objects == {[base |-> a[1], count |-> 1] : a \in DOMAIN spaces \ BlocksInUse(store)}
  IN /\ \A f \in Claimed(store) :
          \/ store.frames[f] = "heap_metadata"
          \/ Cardinality(Holders(f, store.frames[f])) = 1
     /\ BlocksInUse(store) \subseteq DOMAIN spaces
     /\ store.large = tables \cup objects
     /\ store.counts = [pages |-> Cardinality(HeapFrames(store)),
                        slab |-> Cardinality(BlocksInUse(store)),
                        large |-> Cardinality(store.large)]
     /\ \A c \in DOMAIN BlockSizes :
          store.active[c] = Cardinality({i \in SlabPages(store) : store.slabs[i].class = c})

(* MemoryManagerRequestProtocol.md: a query does not modify state.  What a *)
(* request ran out of, and whatever physical pages clients have mapped     *)
(* into the regions, an image or a stack is one region, with the frames    *)
(* behind it claimed for it; a query of a page of the region says its      *)
(* frame, and a query of any page finds nothing missing that it would      *)
(* record.                                                                 *)
RegionsTellTheFrames ==
  \A a \in DOMAIN spaces :
    LET sp == spaces[a] IN
    /\ {[base |-> r.base, count |-> r.count, type |-> r.type, backing |-> r.backing] :
          r \in ToSet(sp.regions)} =
       {[base |-> sp.parts[p].base, count |-> sp.parts[p].count, type |-> p,
         backing |-> sp.parts[p].frame] : p \in sp.has}
    /\ \A r \in ToSet(sp.regions) : \A v \in Extent(r.base, r.count) :
         /\ store.frames[r.backing + v - r.base] = UsageOf(r.type)
         /\ QueryMapping(sp, v).frame = r.backing + v - r.base
    /\ \A v \in 0 .. LowHalfLimit - 1 : QueryMapping(sp, v).space = sp

(* Docs/Kernel/Scheduler.md: attaching an image and allocating a stack are *)
(* idempotent.  A request for what the space has succeeds, with no frame   *)
(* claimed and nothing of the space changed, at whatever state the rest    *)
(* has been left in.                                                       *)
RepeatedRequestsAnswerTheSame ==
  \A a \in DOMAIN spaces :
    LET sp == spaces[a]
        stack == sp.parts["stack"]
        Same == Answered("success", store, sp)
    IN /\ "stack" \in sp.has =>
            StackOutcome(store, sp, [base |-> stack.base, count |-> stack.count]) = Same
       /\ \A img \in Images :
            (/\ "image" \in sp.has /\ img.valid /\ HasLayout(img)
             /\ Framed(WantedImage(img), sp.parts["image"].frame) = sp.parts["image"]) =>
               AttachOutcome(store, a, sp, img) = Same

(* In every state a space can be destroyed, also one whose image or stack  *)
(* could only be placed half way: all its frames go back, no other frame   *)
(* does, and the pages the answer counts are those that went back to the   *)
(* heap (those of the image and the stack are not in the answer).          *)
DestroyGivesBack ==
  \A a \in DOMAIN spaces :
    LET sp == spaces[a]
        gone == DestroyOutcome(store, a, sp)
        placed == UNION {PartFrames(sp, p) : p \in sp.has}
        own == placed \cup {t[2] : t \in Tables(sp)}
        back == Claimed(store) \ Claimed(gone.store)
    IN /\ gone.status = "success"
       /\ own \subseteq back /\ back \subseteq own \cup {a[1]}
       /\ gone.pages = Cardinality(back \ placed)

(* Docs/Memory/MemoryManagerHandoff.md: the service rejects overlaps       *)
(* instead of quietly reusing already-owned pages.  No frame is part of    *)
(* two spaces.                                                             *)
NoFrameReused ==
  \A f \in Claimed(store) :
    Cardinality({a \in DOMAIN spaces :
      \/ f = spaces[a].root \/ f \in {spaces[a].nodes[n] : n \in DOMAIN spaces[a].nodes}
      \/ \E p \in spaces[a].has : f \in PartFrames(spaces[a], p)}) <= 1
=============================================================================
