-------------------------- MODULE AddressSpacesProofs --------------------------
(***************************************************************************)
(* Proofs about the address spaces of the memory-manager service and the   *)
(* heap their objects and tables are on: for any memory, slab classes,     *)
(* page tables and requests whose images and stacks are PlacesApart.       *)
(*                                                                         *)
(* First the heap (what an allocation and a free leave of a heap in        *)
(* order), then the mapping of pages, the placing of an image or a stack,  *)
(* the requests for pages, destroying and creating, each about one space   *)
(* and the frames of the others; then the invariant of all of them.        *)
(***************************************************************************)
EXTENDS AddressSpaces, FoldProofs, FiniteSetTheorems

-----------------------------------------------------------------------------
(* Stores: what the values of the heap are, and when a store is in order.  *)

Usages == {"free", "heap_metadata", "address_space_object", "page_table",
           "service_image", "service_stack"}
FrameTables == [FrameIds -> Usages]
SlabRecords == [frame : 0 .. NumFrames, usage : {"none", "address_space_object"},
                class : 0 .. Len(BlockSizes), free : Seq(Nat)]
LargeRecords == [base : FrameIds, count : {1}]
Counts == [pages : Nat, slab : Nat, large : Nat]
Stores == [frames : FrameTables, slabs : [1 .. MaxSlabPages -> SlabRecords],
           large : SUBSET LargeRecords, active : [DOMAIN BlockSizes -> Nat], counts : Counts]

FramesOf(s, usage) == {f \in FrameIds : s.frames[f] = usage}
SlabFrames(s) == {s.slabs[i].frame : i \in SlabPages(s)}

(* Objects that have a page of their own.                                  *)
Lone(s) == FramesOf(s, "address_space_object") \ SlabFrames(s)
Single(f) == [base |-> f, count |-> 1]
Objects(s) == BlocksInUse(s) \cup {<<f, 0>> : f \in Lone(s)}
OfClass(s, c) == {i \in SlabPages(s) : s.slabs[i].class = c}

SlabGood(s, i) ==
  LET b == s.slabs[i] IN
  /\ b.frame \in FrameIds /\ s.frames[b.frame] = "address_space_object"
  /\ b.usage = "address_space_object" /\ b.class \in DOMAIN BlockSizes
  /\ \A k \in DOMAIN b.free : b.free[k] < Blocks(b.class)
  /\ \A j, k \in DOMAIN b.free : b.free[j] = b.free[k] => j = k

SlabsGood(s) ==
  /\ \A i \in SlabPages(s) : SlabGood(s, i)
  /\ \A i, j \in SlabPages(s) : s.slabs[i].frame = s.slabs[j].frame => i = j
  /\ \A c \in DOMAIN BlockSizes : s.active[c] = Cardinality(OfClass(s, c))

HeapGood(s) ==
  /\ s \in Stores
  /\ SlabsGood(s)
  /\ s.large = {Single(f) : f \in FramesOf(s, "page_table") \cup Lone(s)}
  /\ Cardinality(s.large) <= MaxLarge
  /\ s.counts = [pages |-> Cardinality(HeapFrames(s)), slab |-> Cardinality(BlocksInUse(s)),
                 large |-> Cardinality(s.large)]

LEMMA HeapNumbers ==
  /\ NumFrames \in Nat /\ NumFrames > 0 /\ PageBytes \in Nat /\ PageBytes > 1
  /\ MaxSlabPages \in Nat /\ MaxLarge \in Nat /\ Len(BlockSizes) \in Nat
  /\ DOMAIN BlockSizes = 1 .. Len(BlockSizes)
  /\ \A c \in DOMAIN BlockSizes : BlockSizes[c] \in Nat /\ BlockSizes[c] > 0 /\ BlockSizes[c] < PageBytes
<1>1. /\ NumFrames \in Nat /\ NumFrames > 0 /\ PageBytes \in Nat /\ PageBytes > 0
      /\ MaxSlabPages \in Nat /\ MaxLarge \in Nat
      /\ BlockSizes \in Seq(1 .. PageBytes - 1) /\ BlockSizes # <<>>
  BY HeapAssumption
<1>2. \A c \in 1 .. Len(BlockSizes) : BlockSizes[c] \in 1 .. PageBytes - 1
  BY <1>1
<1>3. Len(BlockSizes) \in Nat /\ Len(BlockSizes) > 0 /\ DOMAIN BlockSizes = 1 .. Len(BlockSizes)
  BY <1>1
<1>4. 1 \in 1 .. Len(BlockSizes)
  BY <1>3
<1>5. QED BY <1>1, <1>2, <1>3, <1>4

LEMMA BlocksOfAPage ==
  ASSUME NEW c \in DOMAIN BlockSizes
  PROVE  Blocks(c) \in Nat /\ Blocks(c) > 0 /\ Blocks(c) <= PageBytes
<1>1. PICK b \in Nat : b = BlockSizes[c] /\ b > 0 /\ b < PageBytes
  BY HeapNumbers
<1>2. PageBytes \div b \in Nat /\ PageBytes \div b > 0 /\ PageBytes \div b <= PageBytes
  BY <1>1, HeapNumbers
<1>3. QED BY <1>1, <1>2 DEF Blocks

LEMMA FramesAreFinite ==
  ASSUME NEW S \in SUBSET FrameIds
  PROVE  IsFiniteSet(S) /\ Cardinality(S) \in Nat
<1>1. IsFiniteSet(FrameIds)
  BY FS_Interval, HeapNumbers DEF FrameIds
<1>2. QED BY <1>1, FS_Subset, FS_CardinalityType

(* What a store in order says of the frames of its heap.                   *)
LEMMA HeapFramesAre ==
  ASSUME NEW s, HeapGood(s)
  PROVE  /\ SlabFrames(s) \subseteq FramesOf(s, "address_space_object")
         /\ HeapFrames(s) = FramesOf(s, "address_space_object") \cup FramesOf(s, "page_table")
         /\ HeapFrames(s) \subseteq FrameIds
<1>1. \A i \in SlabPages(s) : SlabGood(s, i)
  BY DEF HeapGood, SlabsGood
<1>2. SlabFrames(s) \subseteq FramesOf(s, "address_space_object")
  BY <1>1 DEF SlabFrames, FramesOf, SlabGood
<1>3. \A f \in FrameIds : Extent(f, 1) = {f}
  BY HeapNumbers DEF Extent, FrameIds
<1>4. UNION {Extent(a.base, a.count) : a \in s.large} = FramesOf(s, "page_table") \cup Lone(s)
  <2>1. \A f \in FramesOf(s, "page_table") \cup Lone(s) :
           f \in FrameIds /\ Single(f).base = f /\ Single(f).count = 1 /\ Extent(f, 1) = {f}
    BY <1>3 DEF FramesOf, Lone, Single
  <2>2. s.large = {Single(f) : f \in FramesOf(s, "page_table") \cup Lone(s)}
    BY DEF HeapGood
  <2>3. QED BY <2>1, <2>2
<1>5. HeapFrames(s) = SlabFrames(s) \cup FramesOf(s, "page_table") \cup Lone(s)
  BY <1>4 DEF HeapFrames, SlabFrames
<1>6. QED BY <1>2, <1>5 DEF Lone, FramesOf

LEMMA SameSlabs ==
  ASSUME NEW s, NEW t, t.slabs = s.slabs
  PROVE  /\ IdleSlabs(t) = IdleSlabs(s) /\ SlabPages(t) = SlabPages(s)
         /\ SlabFrames(t) = SlabFrames(s) /\ BlocksInUse(t) = BlocksInUse(s)
         /\ \A c \in DOMAIN BlockSizes : OfClass(t, c) = OfClass(s, c)
<1>1. IdleSlabs(t) = IdleSlabs(s)
  BY DEF IdleSlabs
<1>2. SlabPages(t) = SlabPages(s)
  BY <1>1 DEF SlabPages
<1>3. QED BY <1>1, <1>2 DEF SlabFrames, BlocksInUse, OfClass

(* The heap does not look at the frames of others.                         *)
LEMMA HeapFollowsItsFrames ==
  ASSUME NEW s, HeapGood(s), NEW g \in FrameTables, NEW t, t = [s EXCEPT !.frames = g],
         \A u \in {"address_space_object", "page_table"} : FramesOf(t, u) = FramesOf(s, u)
  PROVE  HeapGood(t) /\ Objects(t) = Objects(s) /\ SlabFrames(t) = SlabFrames(s)
<1>1. s \in Stores
  BY DEF HeapGood
<1>2. /\ t \in Stores /\ t.slabs = s.slabs /\ t.large = s.large /\ t.active = s.active
      /\ t.counts = s.counts /\ t.frames = g
  BY <1>1 DEF Stores
<1>3. /\ SlabPages(t) = SlabPages(s)
      /\ SlabFrames(t) = SlabFrames(s) /\ BlocksInUse(t) = BlocksInUse(s)
      /\ \A c \in DOMAIN BlockSizes : OfClass(t, c) = OfClass(s, c)
  BY <1>2, SameSlabs
<1>4. Lone(t) = Lone(s)
  BY <1>3 DEF Lone
<1>5. ASSUME NEW i \in SlabPages(t)
      PROVE  SlabGood(t, i)
  <2>1. SlabGood(s, i)
    BY <1>3, <1>5 DEF HeapGood, SlabsGood
  <2>2. s.slabs[i].frame \in FramesOf(t, "address_space_object")
    BY <2>1 DEF SlabGood, FramesOf
  <2>3. QED BY <1>2, <2>1, <2>2 DEF SlabGood, FramesOf
<1>6. SlabsGood(t)
  BY <1>2, <1>3, <1>5 DEF HeapGood, SlabsGood
<1>7. HeapFrames(t) = HeapFrames(s)
  BY <1>2, <1>3 DEF HeapFrames
<1>8. t.large = {Single(f) : f \in FramesOf(t, "page_table") \cup Lone(t)}
  BY <1>2, <1>4 DEF HeapGood
<1>9. HeapGood(t)
  BY <1>2, <1>3, <1>6, <1>7, <1>8 DEF HeapGood
<1>10. Objects(t) = Objects(s)
  BY <1>3, <1>4 DEF Objects
<1>11. QED BY <1>3, <1>9, <1>10

(* A claim takes frames that are free, and these only.                     *)
Marked(frames, base, count, usage) ==
  [f \in FrameIds |-> IF f \in Extent(base, count) THEN usage ELSE frames[f]]

LEMMA ClaimTakesFree ==
  ASSUME NEW s \in Stores, NEW count \in Nat, NEW usage \in Usages
  PROVE  LET c == Claim(s, count, usage) IN
         /\ ~c.ok => c.store = s /\ c.base = 0
         /\ c.ok => /\ c.base \in Nat /\ c.base > 0
                    /\ \A f \in Extent(c.base, count) : f \in FrameIds /\ s.frames[f] = "free"
                    /\ c.store = [s EXCEPT !.frames = Marked(s.frames, c.base, count, usage)]
                    /\ c.store \in Stores
         /\ c.ok \in BOOLEAN
<1> DEFINE c == Claim(s, count, usage)
           runs == Runs(s.frames, count)
<1>1. CASE runs = {}
  BY <1>1 DEF Claim
<1>2. CASE runs # {}
  <2>1. runs \in SUBSET Nat
    BY HeapNumbers DEF Runs
  <2>2. PICK b : b = Min(runs)
    OBVIOUS
  <2>3. b \in runs
    BY <1>2, <2>1, <2>2, MinOfNaturals
  <2>4. b \in 1 .. NumFrames - count + 1 /\ \A f \in Extent(b, count) : s.frames[f] = "free"
    BY <2>3 DEF Runs
  <2>5. b \in Nat /\ b > 0 /\ \A f \in Extent(b, count) : f \in FrameIds
    BY <2>4, HeapNumbers DEF Extent, FrameIds
  <2>6. c = [ok |-> TRUE, base |-> b,
             store |-> [s EXCEPT !.frames = Marked(s.frames, b, count, usage)]]
    BY <1>2, <2>2 DEF Claim, Marked
  <2>7. Marked(s.frames, b, count, usage) \in FrameTables
    BY DEF Marked, FrameTables, Stores
  <2>8. [s EXCEPT !.frames = Marked(s.frames, b, count, usage)] \in Stores
    BY <2>7 DEF Stores
  <2>9. QED BY <2>4, <2>5, <2>6, <2>8
<1>3. QED BY <1>1, <1>2

(* What marking frames does to the sets of frames.                         *)
LEMMA MarkedFrames ==
  ASSUME NEW s \in Stores, NEW base, NEW count, NEW usage \in Usages, NEW t,
         t.frames = Marked(s.frames, base, count, usage)
  PROVE  /\ t.frames \in FrameTables
         /\ FramesOf(t, usage) = FramesOf(s, usage) \cup (Extent(base, count) \cap FrameIds)
         /\ \A u \in Usages : u # usage => FramesOf(t, u) = FramesOf(s, u) \ Extent(base, count)
<1>1. t.frames \in FrameTables
  BY DEF Marked, FrameTables, Stores
<1>2. \A f \in FrameIds : t.frames[f] = IF f \in Extent(base, count) THEN usage ELSE s.frames[f]
  BY DEF Marked
<1>3. QED BY <1>1, <1>2 DEF FramesOf

PartUsages == {"service_image", "service_stack"}

LEMMA ClaimForPart ==
  ASSUME NEW s, HeapGood(s), NEW count \in Nat, NEW usage \in PartUsages,
         Claim(s, count, usage).ok
  PROVE  LET c == Claim(s, count, usage) IN
         /\ c.base \in Nat /\ c.base > 0
         /\ Extent(c.base, count) \subseteq FramesOf(s, "free")
         /\ HeapGood(c.store) /\ Objects(c.store) = Objects(s)
         /\ FramesOf(c.store, usage) = FramesOf(s, usage) \cup Extent(c.base, count)
         /\ \A u \in Usages : u # usage /\ u # "free" => FramesOf(c.store, u) = FramesOf(s, u)
<1> DEFINE c == Claim(s, count, usage)
<1>1. s \in Stores /\ usage \in Usages
  BY DEF HeapGood, PartUsages, Usages
<1>2. /\ c.base \in Nat /\ c.base > 0
      /\ \A f \in Extent(c.base, count) : f \in FrameIds /\ s.frames[f] = "free"
      /\ c.store = [s EXCEPT !.frames = Marked(s.frames, c.base, count, usage)]
      /\ c.store \in Stores
  BY <1>1, ClaimTakesFree
<1> HIDE DEF c
<1>3. c.store.frames = Marked(s.frames, c.base, count, usage)
  BY <1>1, <1>2 DEF Stores
<1>4. Extent(c.base, count) \subseteq FramesOf(s, "free")
  BY <1>2 DEF FramesOf
<1>5. /\ FramesOf(c.store, usage) = FramesOf(s, usage) \cup Extent(c.base, count)
      /\ \A u \in Usages : u # usage => FramesOf(c.store, u) = FramesOf(s, u) \ Extent(c.base, count)
      /\ c.store.frames \in FrameTables
  <2>1. Extent(c.base, count) \cap FrameIds = Extent(c.base, count)
    BY <1>2
  <2>2. QED BY <1>1, <1>3, <2>1, MarkedFrames
<1>6. \A u \in Usages : u # usage /\ u # "free" => FramesOf(c.store, u) = FramesOf(s, u)
  <2>1. ASSUME NEW u \in Usages, u # usage, u # "free"
        PROVE  FramesOf(c.store, u) = FramesOf(s, u)
    <3>1. FramesOf(c.store, u) = FramesOf(s, u) \ Extent(c.base, count)
      BY <1>5, <2>1
    <3>2. FramesOf(s, u) \cap FramesOf(s, "free") = {}
      BY <2>1 DEF FramesOf
    <3>3. QED BY <1>4, <3>1, <3>2
  <2>2. QED BY <2>1
<1>7. \A u \in {"address_space_object", "page_table"} : u \in Usages /\ u # usage /\ u # "free"
  BY DEF PartUsages, Usages
<1>8. HeapGood(c.store) /\ Objects(c.store) = Objects(s)
  <2>1. c.store = [s EXCEPT !.frames = c.store.frames]
    BY <1>2, <1>3
  <2>2. QED BY <1>5, <1>6, <1>7, <2>1, HeapFollowsItsFrames
<1>9. QED BY <1>2, <1>4, <1>5, <1>6, <1>8 DEF c

LEMMA ReleaseOfPart ==
  ASSUME NEW s, HeapGood(s), NEW base, NEW count, NEW usage \in PartUsages,
         Extent(base, count) \subseteq FramesOf(s, usage)
  PROVE  LET r == Release(s, base, count) IN
         /\ r.ok /\ HeapGood(r.store) /\ Objects(r.store) = Objects(s)
         /\ FramesOf(r.store, usage) = FramesOf(s, usage) \ Extent(base, count)
         /\ FramesOf(r.store, "free") = FramesOf(s, "free") \cup Extent(base, count)
         /\ \A u \in Usages : u # usage /\ u # "free" => FramesOf(r.store, u) = FramesOf(s, u)
<1> DEFINE r == Release(s, base, count)
           g == Marked(s.frames, base, count, "free")
<1>1. s \in Stores /\ usage \in Usages /\ usage # "free" /\ "free" \in Usages
  BY DEF HeapGood, PartUsages, Usages
<1>2. \A f \in Extent(base, count) : f \in FrameIds /\ s.frames[f] = usage
  BY DEF FramesOf
<1>3. r = [ok |-> TRUE, store |-> [s EXCEPT !.frames = g]]
  BY <1>1, <1>2 DEF Release, Marked
<1>4. r.store.frames = g
  BY <1>1, <1>3 DEF Stores
<1>5. /\ FramesOf(r.store, "free") = FramesOf(s, "free") \cup Extent(base, count)
      /\ \A u \in Usages : u # "free" => FramesOf(r.store, u) = FramesOf(s, u) \ Extent(base, count)
      /\ r.store.frames \in FrameTables
  <2>1. Extent(base, count) \cap FrameIds = Extent(base, count)
    BY <1>2
  <2>2. QED BY <1>1, <1>4, <2>1, MarkedFrames
<1>6. \A u \in Usages : u # usage /\ u # "free" => FramesOf(r.store, u) = FramesOf(s, u)
  <2>1. \A u \in Usages : u # usage => FramesOf(s, u) \cap Extent(base, count) = {}
    BY <1>2 DEF FramesOf
  <2>2. QED BY <1>5, <2>1
<1>7. \A u \in {"address_space_object", "page_table"} : u \in Usages /\ u # usage /\ u # "free"
  BY DEF PartUsages, Usages
<1>8. HeapGood(r.store) /\ Objects(r.store) = Objects(s)
  <2>1. r.store = [s EXCEPT !.frames = r.store.frames]
    BY <1>3, <1>4
  <2>2. QED BY <1>5, <1>6, <1>7, <2>1, HeapFollowsItsFrames
<1>9. QED BY <1>1, <1>3, <1>5, <1>6, <1>8

HeapUsages == {"address_space_object", "page_table"}

LEMMA SinglesDiffer ==
  /\ \A f, g : Single(f) = Single(g) => f = g
  /\ \A f : Single(f).base = f /\ Single(f).count = 1
  /\ \A f \in FrameIds : Extent(f, 1) = {f} /\ Single(f) \in LargeRecords
<1>1. \A f, g : Single(f) = Single(g) => f = g
  BY DEF Single
<1>2. \A f \in FrameIds : Extent(f, 1) = {f}
  BY HeapNumbers DEF Extent, FrameIds
<1>3. QED BY <1>1, <1>2 DEF Single, LargeRecords

LEMMA LargeIsFinite ==
  ASSUME NEW L \in SUBSET LargeRecords
  PROVE  IsFiniteSet(L) /\ Cardinality(L) \in Nat
<1>1. IsFiniteSet(FrameIds)
  BY FS_Interval, HeapNumbers DEF FrameIds
<1> DEFINE h == [x \in L |-> x.base]
<1>2. h \in [L -> FrameIds] /\ \A x, y \in L : h[x] = h[y] => x = y
  BY DEF LargeRecords
<1>3. h \in Injection(L, FrameIds)
  BY <1>2 DEF Injection, IsInjective
<1>4. QED BY <1>1, <1>3, FS_Injection, FS_CardinalityType

LEMMA OnePage ==
  ASSUME NEW bytes \in 1 .. PageBytes
  PROVE  (bytes + PageBytes - 1) \div PageBytes = 1
<1>1. PageBytes \in Nat /\ PageBytes > 0
  BY HeapNumbers
<1>2. PICK n \in Nat : n = bytes + PageBytes - 1 /\ n >= PageBytes /\ n < PageBytes + PageBytes
  BY <1>1
<1>3. n \div PageBytes = 1
  BY <1>1, <1>2
<1>4. QED BY <1>2, <1>3

(* A larger allocation of one page.                                        *)
LEMMA LargeTakesPage ==
  ASSUME NEW s, HeapGood(s), NEW bytes \in 1 .. PageBytes, NEW usage \in HeapUsages
  PROVE  LET p == AllocateLarge(s, bytes, usage) IN
         /\ p.ok \in BOOLEAN
         /\ ~p.ok => p.store = s
         /\ p.ok => \E f \in FramesOf(s, "free") :
              /\ p.at = <<f, 0>> /\ HeapGood(p.store)
              /\ p.store.slabs = s.slabs
              /\ p.store.frames = Marked(s.frames, f, 1, usage)
<1> DEFINE p == AllocateLarge(s, bytes, usage)
           c == Claim(s, 1, usage)
<1>1. s \in Stores /\ usage \in Usages /\ usage # "free"
  BY DEF HeapGood, HeapUsages, Usages
<1>2. (bytes + PageBytes - 1) \div PageBytes = 1
  BY OnePage
<1>3. c.ok \in BOOLEAN
  BY <1>1, ClaimTakesFree
<1>4. CASE Cardinality(s.large) = MaxLarge \/ ~c.ok
  <2>1. p = Refused(s)
    BY <1>2, <1>4 DEF AllocateLarge
  <2>2. QED BY <2>1 DEF Refused
<1>5. CASE Cardinality(s.large) # MaxLarge /\ c.ok
  <2>1. PICK f : f = c.base
    OBVIOUS
  <2>2. /\ \A x \in Extent(f, 1) : x \in FrameIds /\ s.frames[x] = "free"
        /\ c.store = [s EXCEPT !.frames = Marked(s.frames, f, 1, usage)] /\ f \in Nat
    BY <1>1, <1>5, <2>1, ClaimTakesFree
  <2> DEFINE g == Marked(s.frames, f, 1, usage)
             t == [s EXCEPT !.frames = g, !.large = @ \cup {Single(f)},
                            !.counts.large = @ + 1, !.counts.pages = @ + 1]
  <2>3. p = [ok |-> TRUE, at |-> <<f, 0>>, store |-> t]
    <3>1. p = [ok |-> TRUE, at |-> <<f, 0>>,
               store |-> [c.store EXCEPT !.large = @ \cup {[base |-> f, count |-> 1]},
                                         !.counts.large = @ + 1, !.counts.pages = @ + 1]]
      BY <1>2, <1>5, <2>1 DEF AllocateLarge
    <3>2. QED BY <1>1, <2>2, <3>1 DEF Single, Stores, Counts
  <2>4. f \in Extent(f, 1)
    BY <2>2 DEF Extent
  <2>5. f \in FrameIds /\ f \in FramesOf(s, "free")
    BY <2>2, <2>4 DEF FramesOf
  <2>6. Extent(f, 1) = {f}
    BY <2>5, SinglesDiffer
  <2>7. /\ t.frames = g /\ t.slabs = s.slabs /\ t.large = s.large \cup {Single(f)} /\ t.active = s.active
        /\ t.counts = [pages |-> s.counts.pages + 1, slab |-> s.counts.slab,
                       large |-> s.counts.large + 1]
    BY <1>1 DEF Stores, Counts
  <2>8. /\ t.frames \in FrameTables
        /\ FramesOf(t, usage) = FramesOf(s, usage) \cup {f}
        /\ \A u \in Usages : u # usage => FramesOf(t, u) = FramesOf(s, u) \ {f}
    <3>1. Extent(f, 1) \cap FrameIds = {f}
      BY <2>5, <2>6
    <3>2. t.frames = Marked(s.frames, f, 1, usage)
      BY <2>7
    <3> HIDE DEF t
    <3>3. QED BY <1>1, <2>6, <3>1, <3>2, MarkedFrames
  <2>9. t \in Stores
    <3>1. t.large \in SUBSET LargeRecords
      BY <1>1, <2>5, <2>7, SinglesDiffer DEF Stores
    <3>2. t.counts \in Counts
      BY <1>1, <2>7 DEF Stores, Counts
    <3>3. QED BY <1>1, <2>7, <2>8, <3>1, <3>2 DEF Stores
  <2> HIDE DEF t
  <2>10. \A u \in Usages : u # "free" => f \notin FramesOf(s, u)
    BY <2>5 DEF FramesOf
  <2>11. /\ SlabPages(t) = SlabPages(s) /\ SlabFrames(t) = SlabFrames(s)
         /\ BlocksInUse(t) = BlocksInUse(s) /\ \A k \in DOMAIN BlockSizes : OfClass(t, k) = OfClass(s, k)
    BY <2>7, SameSlabs
  <2>12. FramesOf(s, "address_space_object") \subseteq FramesOf(t, "address_space_object")
    BY <1>1, <2>8, <2>10 DEF HeapUsages, Usages
  <2>13. SlabsGood(t)
    <3>1. ASSUME NEW i \in SlabPages(t)
          PROVE  SlabGood(t, i)
      <4>1. SlabGood(s, i)
        BY <2>11, <3>1 DEF HeapGood, SlabsGood
      <4>2. s.slabs[i].frame \in FramesOf(t, "address_space_object")
        BY <2>12, <4>1 DEF SlabGood, FramesOf
      <4>3. QED BY <2>7, <4>1, <4>2 DEF SlabGood, FramesOf
    <3>2. QED BY <2>7, <2>11, <3>1 DEF HeapGood, SlabsGood
  <2>14. FramesOf(t, "page_table") \cup Lone(t) = FramesOf(s, "page_table") \cup Lone(s) \cup {f}
    <3>1. f \notin SlabFrames(s)
      BY <2>10, HeapFramesAre DEF Usages
    <3>2. CASE usage = "page_table"
      <4>1. FramesOf(t, "address_space_object") = FramesOf(s, "address_space_object")
        BY <2>8, <2>10, <3>2 DEF Usages
      <4>2. QED BY <2>8, <2>11, <3>2, <4>1 DEF Lone
    <3>3. CASE usage = "address_space_object"
      <4>1. FramesOf(t, "page_table") = FramesOf(s, "page_table")
        BY <2>8, <2>10, <3>3 DEF Usages
      <4>2. QED BY <2>8, <2>11, <3>1, <3>3, <4>1 DEF Lone
    <3>4. QED BY <3>2, <3>3 DEF HeapUsages
  <2>15. t.large = {Single(x) : x \in FramesOf(t, "page_table") \cup Lone(t)}
    BY <2>7, <2>14 DEF HeapGood
  <2>16. Single(f) \notin s.large
    <3>1. f \notin FramesOf(s, "page_table") \cup Lone(s)
      BY <2>10 DEF Lone, Usages
    <3>2. QED BY <3>1, SinglesDiffer DEF HeapGood
  <2>17. Cardinality(t.large) = Cardinality(s.large) + 1
    <3>1. IsFiniteSet(s.large)
      BY <1>1, LargeIsFinite DEF Stores
    <3>2. QED BY <2>7, <2>16, <3>1, FS_AddElement
  <2>18. Cardinality(t.large) <= MaxLarge
    <3>1. Cardinality(s.large) \in Nat /\ Cardinality(s.large) <= MaxLarge
      BY <1>1, LargeIsFinite DEF Stores, HeapGood
    <3>2. QED BY <1>5, <2>17, <3>1, HeapNumbers
  <2>19. Cardinality(HeapFrames(t)) = Cardinality(HeapFrames(s)) + 1
    <3>1. HeapFrames(t) = HeapFrames(s) \cup {f}
      BY <2>5, <2>6, <2>7, <2>11, SinglesDiffer DEF HeapFrames
    <3>2. f \notin HeapFrames(s)
      BY <2>10, HeapFramesAre DEF Usages
    <3>3. IsFiniteSet(HeapFrames(s))
      BY HeapFramesAre, FramesAreFinite
    <3>4. QED BY <3>1, <3>2, <3>3, FS_AddElement
  <2>20. t.counts = [pages |-> Cardinality(HeapFrames(t)), slab |-> Cardinality(BlocksInUse(t)),
                     large |-> Cardinality(t.large)]
    BY <2>7, <2>11, <2>17, <2>19 DEF HeapGood
  <2>21. HeapGood(t)
    BY <2>9, <2>13, <2>15, <2>18, <2>20 DEF HeapGood
  <2>22. QED BY <2>3, <2>5, <2>7, <2>21
<1>6. QED BY <1>3, <1>4, <1>5

(* Giving a page of its own back.                                          *)
LEMMA LargeGivesPage ==
  ASSUME NEW s, HeapGood(s), NEW f \in FramesOf(s, "page_table") \cup Lone(s)
  PROVE  LET p == HeapFree(s, <<f, 0>>) IN
         /\ p.ok /\ p.pages = 1 /\ HeapGood(p.store) /\ p.store.slabs = s.slabs
         /\ p.store.frames = Marked(s.frames, f, 1, "free")
<1> DEFINE p == HeapFree(s, <<f, 0>>)
           g == Marked(s.frames, f, 1, "free")
           t == [s EXCEPT !.frames = g, !.large = @ \ {Single(f)}, !.counts.pages = @ - 1,
                          !.counts.large = IF @ = 0 THEN 0 ELSE @ - 1]
<1>1. s \in Stores /\ "free" \in Usages
  BY DEF HeapGood, Usages
<1>2. PICK usage \in HeapUsages : f \in FramesOf(s, usage)
  BY DEF Lone, HeapUsages
<1>3. f \in FrameIds /\ s.frames[f] = usage /\ usage \in Usages /\ usage # "free"
  BY <1>2 DEF FramesOf, HeapUsages, Usages
<1>4. f \notin SlabFrames(s)
  BY HeapFramesAre DEF Lone, FramesOf
<1>5. SlabsAt(s, <<f, 0>>) = {}
  BY <1>4 DEF SlabsAt, SlabFrames, SlabPages
<1>6. LargeAt(s, <<f, 0>>) = {Single(f)}
  <2>1. s.large = {Single(x) : x \in FramesOf(s, "page_table") \cup Lone(s)}
    BY DEF HeapGood
  <2>2. \A x : <<x, 0>> = <<f, 0>> <=> x = f
    OBVIOUS
  <2>3. QED BY <2>1, <2>2, SinglesDiffer DEF LargeAt
<1>7. Extent(f, 1) = {f} /\ Single(f).base = f /\ Single(f).count = 1
  BY <1>3, SinglesDiffer
<1>8. Release(s, f, 1) = [ok |-> TRUE, store |-> [s EXCEPT !.frames = g]]
  BY <1>1, <1>3, <1>7 DEF Release, Marked
<1>9. p = [ok |-> TRUE, pages |-> 1, store |-> t]
  <2>1. (CHOOSE a \in {Single(f)} : TRUE) = Single(f)
    OBVIOUS
  <2>2. p = [ok |-> TRUE, pages |-> 1,
             store |-> [[s EXCEPT !.frames = g] EXCEPT
                !.large = @ \ {Single(f)}, !.counts.pages = @ - 1,
                !.counts.large = IF @ = 0 THEN 0 ELSE @ - 1]]
    <3>1. (CHOOSE a \in LargeAt(s, <<f, 0>>) : TRUE) = Single(f)
      BY <1>6, <2>1
    <3>2. Release(s, Single(f).base, Single(f).count).ok
      BY <1>7, <1>8
    <3>3. Release(s, Single(f).base, Single(f).count).store = [s EXCEPT !.frames = g]
      BY <1>7, <1>8
    <3>4. LargeAt(s, <<f, 0>>) # {}
      BY <1>6
    <3> HIDE DEF g
    <3>5. QED BY <1>5, <1>7, <3>1, <3>2, <3>3, <3>4 DEF HeapFree
  <2>3. QED BY <1>1, <2>2 DEF Stores, Counts
<1>10. /\ t.frames = g /\ t.slabs = s.slabs /\ t.large = s.large \ {Single(f)}
       /\ t.active = s.active
       /\ t.counts = [pages |-> s.counts.pages - 1, slab |-> s.counts.slab,
                      large |-> IF s.counts.large = 0 THEN 0 ELSE s.counts.large - 1]
  BY <1>1 DEF Stores, Counts
<1>11. /\ t.frames \in FrameTables
       /\ \A u \in Usages : u # "free" => FramesOf(t, u) = FramesOf(s, u) \ {f}
  <2>1. t.frames = Marked(s.frames, f, 1, "free")
    BY <1>10
  <2> HIDE DEF t
  <2>2. QED BY <1>1, <1>7, <2>1, MarkedFrames
<1>12. /\ SlabPages(t) = SlabPages(s) /\ SlabFrames(t) = SlabFrames(s)
       /\ BlocksInUse(t) = BlocksInUse(s) /\ \A k \in DOMAIN BlockSizes : OfClass(t, k) = OfClass(s, k)
  BY <1>10, SameSlabs
<1>13. IsFiniteSet(s.large) /\ Cardinality(s.large) \in Nat /\ Cardinality(s.large) <= MaxLarge
  BY <1>1, LargeIsFinite DEF Stores, HeapGood
<1>14. Single(f) \in s.large
  BY DEF HeapGood
<1>15. Cardinality(t.large) = Cardinality(s.large) - 1 /\ Cardinality(s.large) # 0
  BY <1>10, <1>13, <1>14, FS_RemoveElement, FS_EmptySet
<1>16. /\ IsFiniteSet(HeapFrames(s)) /\ Cardinality(HeapFrames(s)) \in Nat
       /\ f \in HeapFrames(s)
  <2>1. f \in HeapFrames(s)
    BY <1>2, HeapFramesAre DEF HeapUsages
  <2>2. QED BY <2>1, HeapFramesAre, FramesAreFinite
<1>17. FramesOf(t, "page_table") \cup Lone(t) = (FramesOf(s, "page_table") \cup Lone(s)) \ {f}
  <2>1. \A u \in HeapUsages : FramesOf(t, u) = FramesOf(s, u) \ {f}
    BY <1>11 DEF HeapUsages, Usages
  <2>2. QED BY <1>12, <2>1 DEF Lone, HeapUsages
<1>18. t.large = {Single(x) : x \in FramesOf(t, "page_table") \cup Lone(t)}
  <2>1. t.large = {Single(x) : x \in (FramesOf(s, "page_table") \cup Lone(s)) \ {f}}
    BY <1>10, SinglesDiffer DEF HeapGood
  <2>2. QED BY <1>17, <2>1
<1>19. HeapFrames(t) = HeapFrames(s) \ {f}
  <2>1. \A x \in FrameIds : Extent(Single(x).base, Single(x).count) = {x}
    BY SinglesDiffer
  <2>2. UNION {Extent(a.base, a.count) : a \in t.large} = FramesOf(t, "page_table") \cup Lone(t)
    <3> HIDE DEF t
    <3>1. QED BY <1>18, <2>1 DEF FramesOf, Lone
  <2>3. HeapFrames(t) = SlabFrames(s) \cup ((FramesOf(s, "page_table") \cup Lone(s)) \ {f})
    BY <1>12, <1>17, <2>2 DEF HeapFrames, SlabFrames
  <2>4. QED BY <1>4, <2>3, HeapFramesAre DEF Lone
<1>20. t \in Stores
  <2>1. t.large \in SUBSET LargeRecords
    BY <1>1, <1>10 DEF Stores
  <2>2. s.counts.pages = Cardinality(HeapFrames(s)) /\ Cardinality(HeapFrames(s)) # 0
    BY <1>16, FS_EmptySet DEF HeapGood
  <2>3. t.counts \in Counts
    BY <1>1, <1>10, <1>16, <2>2 DEF Stores, Counts
  <2>4. t.active \in [DOMAIN BlockSizes -> Nat] /\ t.slabs \in [1 .. MaxSlabPages -> SlabRecords]
    BY <1>1, <1>10 DEF Stores
  <2>5. QED BY <1>1, <1>11, <2>1, <2>3, <2>4 DEF Stores
<1> HIDE DEF t
<1>21. SlabsGood(t)
  <2>1. ASSUME NEW i \in SlabPages(t)
        PROVE  SlabGood(t, i)
    <3>1. SlabGood(s, i) /\ s.slabs[i].frame # f
      BY <1>4, <1>12, <2>1 DEF HeapGood, SlabsGood, SlabFrames
    <3>2. s.slabs[i].frame \in FramesOf(s, "address_space_object") \ {f}
      BY <3>1 DEF SlabGood, FramesOf
    <3>3. s.slabs[i].frame \in FramesOf(t, "address_space_object")
      BY <1>11, <3>2 DEF Usages
    <3>4. QED BY <1>10, <3>1, <3>3 DEF SlabGood, FramesOf
  <2>2. QED BY <1>10, <1>12, <2>1 DEF HeapGood, SlabsGood
<1>22. Cardinality(HeapFrames(t)) = Cardinality(HeapFrames(s)) - 1
  BY <1>16, <1>19, FS_RemoveElement
<1>23. t.counts = [pages |-> Cardinality(HeapFrames(t)), slab |-> Cardinality(BlocksInUse(t)),
                   large |-> Cardinality(t.large)]
  BY <1>10, <1>12, <1>15, <1>22 DEF HeapGood
<1>24. Cardinality(t.large) <= MaxLarge
  BY <1>13, <1>15, HeapNumbers
<1>25. HeapGood(t)
  BY <1>18, <1>20, <1>21, <1>23, <1>24 DEF HeapGood
<1>26. QED BY <1>9, <1>10, <1>25

-----------------------------------------------------------------------------
(* Pages for tables.                                                       *)

LEMMA TableTakesPage ==
  ASSUME NEW s, HeapGood(s)
  PROVE  LET p == HeapAllocatePage(s, "page_table") IN
         /\ p.ok \in BOOLEAN
         /\ ~p.ok => p.store = s
         /\ p.ok => /\ p.at[1] \in FramesOf(s, "free") /\ p.at = <<p.at[1], 0>>
                    /\ HeapGood(p.store) /\ Objects(p.store) = Objects(s)
                    /\ FramesOf(p.store, "page_table") = FramesOf(s, "page_table") \cup {p.at[1]}
                    /\ \A u \in Usages : u # "page_table" /\ u # "free" => FramesOf(p.store, u) = FramesOf(s, u)
                    /\ FramesOf(p.store, "free") = FramesOf(s, "free") \ {p.at[1]}
<1> DEFINE p == HeapAllocatePage(s, "page_table")
<1>1. \A c \in DOMAIN BlockSizes : ~(BlockSizes[c] >= PageBytes)
  BY HeapNumbers
<1>2. SelectSlabClass(PageBytes, PageBytes) = 0
  BY <1>1 DEF SelectSlabClass
<1>3. p = AllocateLarge(s, PageBytes, "page_table")
  BY <1>2 DEF HeapAllocatePage, HeapAllocate
<1>4. PageBytes \in 1 .. PageBytes /\ "page_table" \in HeapUsages /\ "page_table" \in Usages
  BY HeapNumbers DEF HeapUsages, Usages
<1>5. /\ p.ok \in BOOLEAN
      /\ ~p.ok => p.store = s
      /\ p.ok => \E f \in FramesOf(s, "free") :
           /\ p.at = <<f, 0>> /\ HeapGood(p.store)
           /\ p.store.slabs = s.slabs
           /\ p.store.frames = Marked(s.frames, f, 1, "page_table")
  BY <1>3, <1>4, LargeTakesPage
<1> HIDE DEF p
<1>6. ASSUME p.ok, NEW f \in FramesOf(s, "free"),
             p.at = <<f, 0>>, HeapGood(p.store), p.store.slabs = s.slabs,
             p.store.frames = Marked(s.frames, f, 1, "page_table")
      PROVE  /\ Objects(p.store) = Objects(s)
             /\ FramesOf(p.store, "page_table") = FramesOf(s, "page_table") \cup {f}
             /\ \A u \in Usages : u # "page_table" /\ u # "free" => FramesOf(p.store, u) = FramesOf(s, u)
             /\ FramesOf(p.store, "free") = FramesOf(s, "free") \ {f}
  <2>1. s \in Stores
    BY DEF HeapGood
  <2>2. f \in FrameIds /\ s.frames[f] = "free"
    BY <1>6 DEF FramesOf
  <2>3. Extent(f, 1) = {f} /\ {f} \cap FrameIds = {f}
    BY <2>2, SinglesDiffer
  <2>4. /\ FramesOf(p.store, "page_table") = FramesOf(s, "page_table") \cup {f}
        /\ \A u \in Usages : u # "page_table" => FramesOf(p.store, u) = FramesOf(s, u) \ {f}
    BY <1>4, <1>6, <2>1, <2>3, MarkedFrames
  <2>5. \A u \in Usages : u # "page_table" /\ u # "free" => FramesOf(p.store, u) = FramesOf(s, u)
    BY <2>2, <2>4 DEF FramesOf
  <2>6. SlabFrames(p.store) = SlabFrames(s) /\ BlocksInUse(p.store) = BlocksInUse(s)
    BY <1>6, SameSlabs
  <2>7. Objects(p.store) = Objects(s)
    BY <2>5, <2>6 DEF Objects, Lone, Usages
  <2>8. QED BY <2>4, <2>5, <2>7 DEF Usages
<1>7. QED BY <1>5, <1>6 DEF p

LEMMA TableGivesPage ==
  ASSUME NEW s, HeapGood(s), NEW f \in FramesOf(s, "page_table")
  PROVE  LET p == HeapFree(s, <<f, 0>>) IN
         /\ p.ok /\ p.pages = 1 /\ HeapGood(p.store) /\ Objects(p.store) = Objects(s)
         /\ FramesOf(p.store, "page_table") = FramesOf(s, "page_table") \ {f}
         /\ \A u \in Usages : u # "page_table" /\ u # "free" => FramesOf(p.store, u) = FramesOf(s, u)
         /\ FramesOf(p.store, "free") = FramesOf(s, "free") \cup {f}
<1> DEFINE p == HeapFree(s, <<f, 0>>)
<1>1. /\ p.ok /\ p.pages = 1 /\ HeapGood(p.store) /\ p.store.slabs = s.slabs
      /\ p.store.frames = Marked(s.frames, f, 1, "free")
  BY LargeGivesPage
<1> HIDE DEF p
<1>2. s \in Stores /\ "free" \in Usages /\ "page_table" \in Usages
  BY DEF HeapGood, Usages
<1>3. f \in FrameIds /\ s.frames[f] = "page_table"
  BY DEF FramesOf
<1>4. Extent(f, 1) = {f} /\ {f} \cap FrameIds = {f}
  BY <1>3, SinglesDiffer
<1>5. /\ FramesOf(p.store, "free") = FramesOf(s, "free") \cup {f}
      /\ \A u \in Usages : u # "free" => FramesOf(p.store, u) = FramesOf(s, u) \ {f}
  BY <1>1, <1>2, <1>4, MarkedFrames
<1>6. \A u \in Usages : u # "page_table" /\ u # "free" => FramesOf(p.store, u) = FramesOf(s, u)
  BY <1>3, <1>5 DEF FramesOf
<1>7. SlabFrames(p.store) = SlabFrames(s) /\ BlocksInUse(p.store) = BlocksInUse(s)
  BY <1>1, SameSlabs
<1>8. Objects(p.store) = Objects(s)
  BY <1>6, <1>7 DEF Objects, Lone, Usages
<1>9. QED BY <1>1, <1>2, <1>5, <1>6, <1>8 DEF p

-----------------------------------------------------------------------------
(* Blocks.                                                                 *)

BlocksOf(slab) == {<<slab.frame, b>> : b \in (0 .. Blocks(slab.class) - 1) \ FreeBlocks(slab)}

LEMMA BlocksByPage ==
  ASSUME NEW s, HeapGood(s)
  PROVE  /\ BlocksInUse(s) = UNION {BlocksOf(s.slabs[i]) : i \in SlabPages(s)}
         /\ \A i, j \in SlabPages(s) : i # j => BlocksOf(s.slabs[i]) \cap BlocksOf(s.slabs[j]) = {}
         /\ \A a \in BlocksInUse(s) : a[1] \in SlabFrames(s) /\ a[2] \in Nat /\ a = <<a[1], a[2]>>
         /\ IsFiniteSet(BlocksInUse(s)) /\ Cardinality(BlocksInUse(s)) \in Nat
<1>1. BlocksInUse(s) = UNION {BlocksOf(s.slabs[i]) : i \in SlabPages(s)}
  BY DEF BlocksInUse, BlocksOf
<1>2. \A i, j \in SlabPages(s) : s.slabs[i].frame = s.slabs[j].frame => i = j
  BY DEF HeapGood, SlabsGood
<1>3. \A i, j \in SlabPages(s) : i # j => BlocksOf(s.slabs[i]) \cap BlocksOf(s.slabs[j]) = {}
  <2>1. \A i \in SlabPages(s) : \A a \in BlocksOf(s.slabs[i]) : a[1] = s.slabs[i].frame
    BY DEF BlocksOf
  <2>2. QED BY <1>2, <2>1
<1>4. ASSUME NEW a \in BlocksInUse(s)
      PROVE  a[1] \in SlabFrames(s) /\ a[2] \in 0 .. PageBytes /\ a = <<a[1], a[2]>>
  <2>1. PICK i \in SlabPages(s) : a \in BlocksOf(s.slabs[i])
    BY <1>1, <1>4
  <2>2. s.slabs[i].class \in DOMAIN BlockSizes
    BY DEF HeapGood, SlabsGood, SlabGood
  <2>3. Blocks(s.slabs[i].class) \in Nat /\ Blocks(s.slabs[i].class) <= PageBytes
    BY <2>2, BlocksOfAPage
  <2>4. PICK b \in 0 .. Blocks(s.slabs[i].class) - 1 : a = <<s.slabs[i].frame, b>>
    BY <2>1 DEF BlocksOf
  <2>5. b \in 0 .. PageBytes
    BY <2>3, HeapNumbers
  <2>6. QED BY <2>4, <2>5 DEF SlabFrames
<1>5. IsFiniteSet(BlocksInUse(s)) /\ Cardinality(BlocksInUse(s)) \in Nat
  <2>1. SlabFrames(s) \subseteq FrameIds
    BY HeapFramesAre DEF FramesOf
  <2>2. BlocksInUse(s) \subseteq FrameIds \X (0 .. PageBytes)
    BY <1>4, <2>1
  <2>3. IsFiniteSet(FrameIds) /\ IsFiniteSet(0 .. PageBytes)
    BY FS_Interval, FramesAreFinite, HeapNumbers
  <2>4. IsFiniteSet(FrameIds \X (0 .. PageBytes))
    BY <2>3, FS_Product
  <2>5. QED BY <2>2, <2>4, FS_Subset, FS_CardinalityType
<1>6. \A a \in BlocksInUse(s) : a[1] \in SlabFrames(s) /\ a[2] \in Nat /\ a = <<a[1], a[2]>>
  BY <1>4, HeapNumbers
<1>7. QED BY <1>1, <1>3, <1>5, <1>6

(* A slab page in use whose list of free blocks is another one.            *)
FreeListGood(class, free) ==
  /\ free \in Seq(Nat)
  /\ \A k \in DOMAIN free : free[k] < Blocks(class)
  /\ \A j, k \in DOMAIN free : free[j] = free[k] => j = k

Relisted(s, i, free, n) == [s EXCEPT !.slabs[i].free = free, !.counts.slab = n]

(* What stays when the free list of a page is another one.                 *)
PageRelisted(s, i, free, n, t) ==
  /\ t.frames = s.frames /\ t.large = s.large /\ t.active = s.active
  /\ t.slabs \in [1 .. MaxSlabPages -> SlabRecords] /\ i \in 1 .. MaxSlabPages
  /\ \A j \in 1 .. MaxSlabPages : j # i => t.slabs[j] = s.slabs[j]
  /\ t.counts = [s.counts EXCEPT !.slab = n]
  /\ t = [frames |-> t.frames, slabs |-> t.slabs, large |-> t.large, active |-> t.active,
          counts |-> t.counts]
  /\ SlabPages(t) = SlabPages(s) /\ SlabPages(s) \subseteq 1 .. MaxSlabPages
  /\ SlabFrames(t) = SlabFrames(s) /\ Lone(t) = Lone(s)
  /\ \A c \in DOMAIN BlockSizes : OfClass(t, c) = OfClass(s, c)
  /\ t.slabs[i].frame = s.slabs[i].frame /\ t.slabs[i].class = s.slabs[i].class
  /\ t.slabs[i].usage = s.slabs[i].usage /\ t.slabs[i].free = free
  /\ BlocksInUse(t) = (BlocksInUse(s) \ BlocksOf(s.slabs[i])) \cup BlocksOf(t.slabs[i])

LEMMA RelistedPage ==
  ASSUME NEW s, HeapGood(s), NEW i \in SlabPages(s), NEW free,
         FreeListGood(s.slabs[i].class, free), NEW n \in Nat, NEW t,
         t = Relisted(s, i, free, n)
  PROVE  PageRelisted(s, i, free, n, t)
<1>1. s \in Stores /\ SlabGood(s, i) /\ i \in 1 .. MaxSlabPages
  <2>1. s \in Stores /\ SlabGood(s, i)
    BY DEF HeapGood, SlabsGood
  <2>2. QED BY <2>1 DEF SlabPages, Stores
<1>2. s.slabs[i] \in SlabRecords
  BY <1>1 DEF Stores
<1>3. /\ t.frames = s.frames /\ t.large = s.large /\ t.active = s.active
      /\ t.slabs = [s.slabs EXCEPT ![i].free = free]
      /\ t.counts = [s.counts EXCEPT !.slab = n]
      /\ t = [frames |-> t.frames, slabs |-> t.slabs, large |-> t.large, active |-> t.active,
              counts |-> t.counts]
  BY <1>1 DEF Stores, Relisted
<1>4. /\ t.slabs[i] = [s.slabs[i] EXCEPT !.free = free] /\ DOMAIN t.slabs = 1 .. MaxSlabPages
      /\ DOMAIN s.slabs = 1 .. MaxSlabPages
      /\ \A j \in 1 .. MaxSlabPages : j # i => t.slabs[j] = s.slabs[j]
  BY <1>1, <1>3 DEF Stores
<1>5. /\ t.slabs[i] \in SlabRecords /\ t.slabs[i].free = free
      /\ t.slabs[i].frame = s.slabs[i].frame /\ t.slabs[i].class = s.slabs[i].class
      /\ t.slabs[i].usage = s.slabs[i].usage
  <2>1. PICK b \in SlabRecords : b = s.slabs[i]
    BY <1>2
  <2>2. t.slabs[i] = [b EXCEPT !.free = free]
    BY <1>4, <2>1
  <2>3. free \in Seq(Nat)
    BY DEF FreeListGood
  <2>4. t.slabs[i] = [frame |-> b.frame, usage |-> b.usage, class |-> b.class, free |-> free]
    BY <2>1, <2>2 DEF SlabRecords
  <2>5. [frame |-> b.frame, usage |-> b.usage, class |-> b.class, free |-> free] \in SlabRecords
    BY <2>1, <2>3 DEF SlabRecords
  <2>6. QED BY <2>1, <2>4, <2>5
<1>6. \A j \in 1 .. MaxSlabPages : /\ t.slabs[j].frame = s.slabs[j].frame
                                   /\ t.slabs[j].class = s.slabs[j].class
  BY <1>4, <1>5
<1>7. SlabPages(t) = SlabPages(s)
  BY <1>4, <1>6 DEF SlabPages, IdleSlabs, IsActive
<1>8. /\ SlabFrames(t) = SlabFrames(s)
      /\ \A c \in DOMAIN BlockSizes : OfClass(t, c) = OfClass(s, c)
      /\ \A j \in SlabPages(t) : j \in 1 .. MaxSlabPages
  BY <1>4, <1>6, <1>7 DEF SlabFrames, OfClass, SlabPages
<1>9. Lone(t) = Lone(s) /\ FramesOf(t, "page_table") = FramesOf(s, "page_table")
  BY <1>3, <1>8 DEF Lone, FramesOf
<1>10. BlocksInUse(t) = (BlocksInUse(s) \ BlocksOf(s.slabs[i])) \cup BlocksOf(t.slabs[i])
  <2>1. \A j \in SlabPages(s) : j # i => BlocksOf(t.slabs[j]) = BlocksOf(s.slabs[j])
    BY <1>4, <1>7, <1>8
  <2>2. BlocksInUse(t) = UNION {BlocksOf(t.slabs[j]) : j \in SlabPages(s)}
    BY <1>7 DEF BlocksInUse, BlocksOf
  <2>3. /\ BlocksInUse(s) = UNION {BlocksOf(s.slabs[j]) : j \in SlabPages(s)}
        /\ \A j \in SlabPages(s) : j # i => BlocksOf(s.slabs[i]) \cap BlocksOf(s.slabs[j]) = {}
    BY BlocksByPage
  <2> DEFINE others == UNION {BlocksOf(s.slabs[j]) : j \in SlabPages(s) \ {i}}
  <2>4. BlocksInUse(t) = others \cup BlocksOf(t.slabs[i])
    BY <2>1, <2>2
  <2>5. BlocksInUse(s) = others \cup BlocksOf(s.slabs[i]) /\ others \cap BlocksOf(s.slabs[i]) = {}
    BY <2>3
  <2>6. QED BY <2>4, <2>5
<1>11. t.slabs \in [1 .. MaxSlabPages -> SlabRecords]
  BY <1>1, <1>3, <1>4, <1>5 DEF Stores
<1>12. QED BY <1>1, <1>3, <1>4, <1>5, <1>7, <1>8, <1>9, <1>10, <1>11 DEF PageRelisted

LEMMA FreeListChanged ==
  ASSUME NEW s, HeapGood(s), NEW i \in SlabPages(s), NEW free,
         FreeListGood(s.slabs[i].class, free), NEW n \in Nat, NEW t,
         t = Relisted(s, i, free, n),
         n = Cardinality(BlocksInUse(t))
  PROVE  /\ HeapGood(t) /\ t.frames = s.frames /\ SlabFrames(t) = SlabFrames(s)
         /\ Lone(t) = Lone(s)
         /\ SlabPages(t) = SlabPages(s) /\ t.active = s.active
         /\ t.slabs[i].frame = s.slabs[i].frame /\ t.slabs[i].class = s.slabs[i].class
         /\ t.slabs[i].free = free
         /\ BlocksInUse(t) = (BlocksInUse(s) \ BlocksOf(s.slabs[i])) \cup BlocksOf(t.slabs[i])
<1>0. PageRelisted(s, i, free, n, t)
  BY RelistedPage
<1>1. s \in Stores /\ SlabGood(s, i)
  BY DEF HeapGood, SlabsGood
<1>2. /\ t.frames = s.frames /\ t.large = s.large /\ t.active = s.active
      /\ t.slabs \in [1 .. MaxSlabPages -> SlabRecords] /\ i \in 1 .. MaxSlabPages
      /\ \A j \in 1 .. MaxSlabPages : j # i => t.slabs[j] = s.slabs[j]
      /\ t.counts = [s.counts EXCEPT !.slab = n]
      /\ t = [frames |-> t.frames, slabs |-> t.slabs, large |-> t.large, active |-> t.active,
              counts |-> t.counts]
  BY <1>0 DEF PageRelisted
<1>3. /\ SlabPages(t) = SlabPages(s) /\ SlabPages(s) \subseteq 1 .. MaxSlabPages
      /\ SlabFrames(t) = SlabFrames(s) /\ Lone(t) = Lone(s)
      /\ \A c \in DOMAIN BlockSizes : OfClass(t, c) = OfClass(s, c)
      /\ t.slabs[i].frame = s.slabs[i].frame /\ t.slabs[i].class = s.slabs[i].class
      /\ t.slabs[i].usage = s.slabs[i].usage /\ t.slabs[i].free = free
      /\ BlocksInUse(t) = (BlocksInUse(s) \ BlocksOf(s.slabs[i])) \cup BlocksOf(t.slabs[i])
  BY <1>0 DEF PageRelisted
<1>4. FramesOf(t, "page_table") = FramesOf(s, "page_table")
  BY <1>2 DEF FramesOf
<1>5. ASSUME NEW j \in SlabPages(t)
      PROVE  SlabGood(t, j)
  <2>1. CASE j = i
    <3>1. FreeListGood(t.slabs[i].class, t.slabs[i].free)
      BY <1>3
    <3>2. QED BY <1>1, <1>2, <1>3, <2>1, <3>1 DEF SlabGood, FreeListGood
  <2>2. CASE j # i
    <3>1. SlabGood(s, j)
      BY <1>3, <1>5 DEF HeapGood, SlabsGood
    <3>2. t.slabs[j] = s.slabs[j]
      BY <1>2, <1>3, <1>5, <2>2
    <3>3. QED BY <1>2, <3>1, <3>2 DEF SlabGood
  <2>3. QED BY <2>1, <2>2
<1>6. \A j \in SlabPages(s) : t.slabs[j].frame = s.slabs[j].frame
  BY <1>2, <1>3
<1>7. SlabsGood(t)
  <2>1. \A j, k \in SlabPages(t) : t.slabs[j].frame = t.slabs[k].frame => j = k
    <3>1. \A j, k \in SlabPages(s) : s.slabs[j].frame = s.slabs[k].frame => j = k
      BY DEF HeapGood, SlabsGood
    <3>2. SlabPages(t) = SlabPages(s)
      BY <1>3
    <3>3. QED BY <1>6, <3>1, <3>2
  <2>2. \A c \in DOMAIN BlockSizes : t.active[c] = Cardinality(OfClass(t, c))
    BY <1>2, <1>3 DEF HeapGood, SlabsGood
  <2>3. QED BY <1>5, <2>1, <2>2 DEF SlabsGood
<1>8. HeapFrames(t) = HeapFrames(s)
  BY <1>2, <1>3 DEF HeapFrames, SlabFrames
<1>9. t \in Stores
  <2>1. t.counts \in Counts
    BY <1>1, <1>2 DEF Stores, Counts
  <2>2. QED BY <1>1, <1>2, <2>1 DEF Stores
<1>10. t.counts = [pages |-> Cardinality(HeapFrames(t)), slab |-> Cardinality(BlocksInUse(t)),
                   large |-> Cardinality(t.large)]
  <2>1. s.counts = [pages |-> Cardinality(HeapFrames(s)), slab |-> Cardinality(BlocksInUse(s)),
                    large |-> Cardinality(s.large)]
    BY DEF HeapGood
  <2>2. t.counts = [s.counts EXCEPT !.slab = Cardinality(BlocksInUse(t))]
    BY <1>2
  <2>3. QED BY <1>2, <1>8, <2>1, <2>2
<1>11. HeapGood(t)
  BY <1>2, <1>3, <1>4, <1>7, <1>9, <1>10 DEF HeapGood
<1>12. QED BY <1>2, <1>3, <1>11

(* A block is taken from the head of its page's list.                      *)
LEMMA BlockTaken ==
  ASSUME NEW s, HeapGood(s), NEW i \in SlabPages(s), s.slabs[i].free # <<>>
  PROVE  LET p == AllocateFromSlabPage(s, i) IN
         /\ p.ok /\ HeapGood(p.store) /\ p.store.frames = s.frames /\ SlabFrames(p.store) = SlabFrames(s)
         /\ p.at[1] \in SlabFrames(s) /\ p.at[2] \in Nat /\ p.at = <<p.at[1], p.at[2]>>
         /\ p.at \notin BlocksInUse(s)
         /\ BlocksInUse(p.store) = BlocksInUse(s) \cup {p.at}
<1> DEFINE p == AllocateFromSlabPage(s, i)
           t == p.store
<1>1. s \in Stores /\ SlabGood(s, i) /\ i \in 1 .. MaxSlabPages
  <2>1. s \in Stores /\ SlabGood(s, i)
    BY DEF HeapGood, SlabsGood
  <2>2. QED BY <2>1 DEF SlabPages, Stores
<1>0. PICK b \in SlabRecords : b = s.slabs[i]
  BY <1>1 DEF Stores
<1>2. PICK free \in Seq(Nat) : free = b.free /\ free # <<>>
  BY <1>0 DEF SlabRecords
<1>3. PICK head, tail : head = Head(free) /\ tail = Tail(free)
  OBVIOUS
<1>4. /\ p.ok /\ p.at = <<b.frame, head>>
      /\ t = [s EXCEPT !.slabs[i].free = tail, !.counts.slab = s.counts.slab + 1]
  BY <1>0, <1>2, <1>3 DEF AllocateFromSlabPage
<1> HIDE DEF p
<1>5. /\ head = free[1] /\ tail \in Seq(Nat) /\ Len(free) \in Nat /\ Len(free) > 0
      /\ DOMAIN free = 1 .. Len(free) /\ DOMAIN tail = 1 .. Len(free) - 1 /\ head \in Nat
      /\ \A k \in 1 .. Len(free) - 1 : tail[k] = free[k + 1]
  <2>1. Len(free) \in Nat /\ Len(free) > 0 /\ DOMAIN free = 1 .. Len(free) /\ \A k \in 1 .. Len(free) : free[k] \in Nat
    BY <1>2
  <2>2. tail \in Seq(Nat) /\ Len(tail) = Len(free) - 1 /\ \A k \in 1 .. Len(free) - 1 : tail[k] = free[k + 1]
    BY <1>2, <1>3, <2>1
  <2>3. head = free[1] /\ 1 \in 1 .. Len(free)
    BY <1>2, <1>3, <2>1
  <2>4. DOMAIN tail = 1 .. Len(free) - 1
    BY <2>1, <2>2
  <2>5. head \in Nat
    BY <2>1, <2>3
  <2> HIDE DEF t
  <2>6. QED BY <2>1, <2>2, <2>3, <2>4, <2>5
<1>6. /\ \A k \in DOMAIN free : free[k] < Blocks(b.class)
      /\ \A j, k \in DOMAIN free : free[j] = free[k] => j = k
      /\ b.class \in DOMAIN BlockSizes
  BY <1>0, <1>1, <1>2 DEF SlabGood
<1>7. \A k \in DOMAIN tail : k + 1 \in DOMAIN free /\ k + 1 # 1
  <2>1. PICK m \in Nat : m = Len(free)
    BY <1>5
  <2>2. DOMAIN tail = 1 .. m - 1 /\ DOMAIN free = 1 .. m
    BY <1>5, <2>1
  <2>3. \A k \in 1 .. m - 1 : k + 1 \in 1 .. m /\ k + 1 # 1
    BY <2>1
  <2>4. QED BY <2>2, <2>3
<1>8. 1 \in DOMAIN free
  BY <1>5
<1>9. FreeListGood(b.class, tail)
  <2>1. \A j, k \in DOMAIN tail : j + 1 = k + 1 => j = k
    BY <1>5
  <2>2. \A j, k \in DOMAIN tail : tail[j] = tail[k] => j = k
    BY <1>5, <1>6, <1>7, <2>1
  <2>3. QED BY <1>5, <1>6, <1>7, <2>2 DEF FreeListGood
<1>10. {free[k] : k \in DOMAIN free} = {tail[k] : k \in DOMAIN tail} \cup {head}
       /\ head \notin {tail[k] : k \in DOMAIN tail}
  <2>1. ASSUME NEW k \in DOMAIN free, k # 1
        PROVE  k - 1 \in DOMAIN tail /\ tail[k - 1] = free[k]
    <3>1. PICK m \in Nat : m = Len(free)
      BY <1>5
    <3>2. k \in 1 .. m /\ DOMAIN tail = 1 .. m - 1
      BY <1>5, <3>1
    <3>3. k - 1 \in 1 .. m - 1 /\ k - 1 + 1 = k
      BY ONLY <2>1, <3>1, <3>2
    <3>4. \A j \in 1 .. m - 1 : tail[j] = free[j + 1]
      BY <1>5, <3>1
    <3>5. tail[k - 1] = free[k - 1 + 1]
      BY <3>3, <3>4
    <3>6. QED BY <3>2, <3>3, <3>5
  <2>2. \A k \in DOMAIN tail : tail[k] = free[k + 1] /\ free[k + 1] # free[1]
    BY <1>5, <1>6, <1>7, <1>8
  <2>3. head \notin {tail[k] : k \in DOMAIN tail}
    BY <1>5, <2>2
  <2>4. QED BY <1>5, <1>7, <1>8, <2>1, <2>2, <2>3
<1>11. PICK size \in Nat : size = Blocks(b.class) /\ head < size
  BY <1>5, <1>6, <1>8, BlocksOfAPage
<1>12. b \in SlabRecords /\ DOMAIN s.slabs = 1 .. MaxSlabPages
  BY <1>0, <1>1 DEF Stores
<1>13. t.slabs[i] = [b EXCEPT !.free = tail]
  <2>1. t.slabs = [s.slabs EXCEPT ![i].free = tail]
    BY <1>1, <1>4 DEF Stores
  <2>2. QED BY <1>0, <1>1, <1>12, <2>1
<1>14. t.slabs[i].free = tail /\ t.slabs[i].frame = b.frame /\ t.slabs[i].class = b.class
  BY <1>12, <1>13 DEF SlabRecords
<1>15. BlocksOf(t.slabs[i]) = BlocksOf(b) \cup {<<b.frame, head>>} /\ <<b.frame, head>> \notin BlocksOf(b)
  <2>1. FreeBlocks(b) = FreeBlocks(t.slabs[i]) \cup {head} /\ head \notin FreeBlocks(t.slabs[i])
    <3> HIDE DEF t
    <3>1. FreeBlocks(b) = {free[k] : k \in DOMAIN free}
      BY <1>2 DEF FreeBlocks
    <3>2. FreeBlocks(t.slabs[i]) = {tail[k] : k \in DOMAIN tail}
      BY <1>14 DEF FreeBlocks
    <3>3. QED BY <1>10, <3>1, <3>2
  <2>2. head \in 0 .. size - 1
    BY <1>5, <1>11
  <2>3. QED BY <1>11, <1>14, <2>1, <2>2 DEF BlocksOf
<1>16. \A j \in SlabPages(s) : j # i => s.slabs[j].frame # b.frame
  BY <1>0 DEF HeapGood, SlabsGood
<1>17. p.at \notin BlocksInUse(s)
  <2>1. \A j \in SlabPages(s) : \A a \in BlocksOf(s.slabs[j]) : a[1] = s.slabs[j].frame
    BY DEF BlocksOf
  <2>2. \A j \in SlabPages(s) : p.at \notin BlocksOf(s.slabs[j])
    <3>1. p.at[1] = b.frame
      BY <1>4
    <3> HIDE DEF t
    <3>2. QED BY <1>0, <1>4, <1>15, <1>16, <2>1, <3>1
  <2>3. QED BY <2>2, BlocksByPage
<1>18. BlocksInUse(t) = BlocksInUse(s) \cup {p.at}
  <2>1. /\ t.slabs = [s.slabs EXCEPT ![i].free = tail] /\ DOMAIN s.slabs = 1 .. MaxSlabPages
    BY <1>1, <1>4 DEF Stores
  <2> HIDE DEF t
  <2>2. DOMAIN t.slabs = 1 .. MaxSlabPages /\ \A j \in 1 .. MaxSlabPages : j # i => t.slabs[j] = s.slabs[j]
    BY <2>1
  <2>3. SlabPages(t) = SlabPages(s)
    BY <1>0, <1>14, <2>1, <2>2 DEF SlabPages, IdleSlabs, IsActive
  <2>4. BlocksInUse(t) = UNION {BlocksOf(t.slabs[j]) : j \in SlabPages(s)}
    BY <2>3 DEF BlocksInUse, BlocksOf
  <2>5. \A j \in SlabPages(s) : j # i => BlocksOf(t.slabs[j]) = BlocksOf(s.slabs[j])
    BY <2>1, <2>2 DEF SlabPages
  <2>6. BlocksInUse(s) = UNION {BlocksOf(s.slabs[j]) : j \in SlabPages(s)}
    BY BlocksByPage
  <2>7. BlocksInUse(t) = BlocksInUse(s) \cup BlocksOf(t.slabs[i])
    <3>1. BlocksOf(s.slabs[i]) \subseteq BlocksOf(t.slabs[i])
      BY <1>0, <1>15
    <3>2. QED BY <2>4, <2>5, <2>6, <3>1
  <2>8. BlocksOf(b) \subseteq BlocksInUse(s)
    BY <1>0, <2>6
  <2>9. QED BY <1>4, <1>15, <2>7, <2>8
<1>19. Cardinality(BlocksInUse(t)) = s.counts.slab + 1
  <2>1. s.counts.slab = Cardinality(BlocksInUse(s))
    BY DEF HeapGood
  <2>2. IsFiniteSet(BlocksInUse(s))
    BY BlocksByPage
  <2> HIDE DEF t
  <2>3. PICK S, x : S = BlocksInUse(s) /\ x = p.at
    OBVIOUS
  <2>4. IsFiniteSet(S) /\ x \notin S
    BY <1>17, <2>2, <2>3
  <2>5. Cardinality(S \cup {x}) = Cardinality(S) + 1
    BY ONLY <2>4, FS_AddElement
  <2>6. QED BY <1>18, <2>1, <2>3, <2>5
<1>20. HeapGood(t) /\ t.frames = s.frames /\ SlabFrames(t) = SlabFrames(s)
  <2>1. s.counts.slab + 1 \in Nat
    BY <1>1 DEF Stores, Counts
  <2>2. FreeListGood(s.slabs[i].class, tail)
    BY <1>0, <1>9
  <2> HIDE DEF t
  <2>3. PICK n \in Nat : n = s.counts.slab + 1
    BY <2>1
  <2>4. t = Relisted(s, i, tail, n) /\ n = Cardinality(BlocksInUse(t))
    BY <1>4, <1>19, <2>3 DEF Relisted
  <2>5. QED BY <2>2, <2>4, FreeListChanged
<1>21. b.frame \in SlabFrames(s)
  BY <1>0 DEF SlabFrames
<1>22. QED BY <1>4, <1>5, <1>17, <1>18, <1>20, <1>21 DEF p

(* A page that is cut into blocks, none of them in use.                    *)
NewSlab(f, class) ==
  [frame |-> f, usage |-> "address_space_object", class |-> class,
   free |-> [k \in 1 .. Blocks(class) |-> k - 1]]
Opened(s, i, f, class) ==
  [s EXCEPT !.frames = Marked(s.frames, f, 1, "address_space_object"),
            !.slabs[i] = NewSlab(f, class), !.active[class] = @ + 1, !.counts.pages = @ + 1]

LEMMA NewSlabIsGood ==
  ASSUME NEW f \in FrameIds, NEW class \in DOMAIN BlockSizes
  PROVE  LET b == NewSlab(f, class) IN
         /\ b \in SlabRecords /\ b.frame = f /\ b.class = class /\ b.usage = "address_space_object"
         /\ b.free # <<>> /\ FreeListGood(class, b.free) /\ BlocksOf(b) = {} /\ f # 0
<1> DEFINE b == NewSlab(f, class)
           q == [k \in 1 .. Blocks(class) |-> k - 1]
<1>1. PICK n \in Nat : n = Blocks(class) /\ n > 0
  BY BlocksOfAPage
<1>2. PICK m \in Nat : m = Len(BlockSizes) /\ class \in 1 .. m
  BY HeapNumbers
<1>3. /\ q = [k \in 1 .. n |-> k - 1] /\ q \in Seq(Nat) /\ DOMAIN q = 1 .. n
      /\ q # <<>>
  <2>1. q = [k \in 1 .. n |-> k - 1]
    BY <1>1
  <2>2. \A k \in 1 .. n : k - 1 \in Nat
    BY <1>1
  <2>3. q \in [1 .. n -> Nat]
    BY <2>1, <2>2
  <2>4. 1 \in DOMAIN q
    BY <1>1, <2>1
  <2>5. q \in Seq(Nat)
    BY <1>1, <2>3
  <2>6. QED BY <2>1, <2>4, <2>5
<1>4. FreeListGood(class, q)
  <2>1. \A k \in 1 .. n : q[k] = k - 1 /\ k - 1 < n
    BY <1>1, <1>3
  <2>2. \A j, k \in 1 .. n : j - 1 = k - 1 => j = k
    BY <1>1
  <2> HIDE DEF q
  <2>3. QED BY <1>1, <1>3, <2>1, <2>2 DEF FreeListGood
<1>5. b = [frame |-> f, usage |-> "address_space_object", class |-> class, free |-> q]
  BY DEF NewSlab
<1>6. f \in 0 .. NumFrames /\ f # 0 /\ class \in 0 .. m
  BY <1>2, HeapNumbers DEF FrameIds
<1>7. FreeBlocks(b) = 0 .. n - 1
  <2>1. FreeBlocks(b) = {q[k] : k \in 1 .. n}
    <3>1. b.free = q /\ DOMAIN q = 1 .. n
      BY <1>3, <1>5
    <3> HIDE DEF q, b
    <3>2. QED BY <3>1 DEF FreeBlocks
  <2>2. \A k \in 1 .. n : q[k] = k - 1
    BY <1>3
  <2>3. \A x \in 0 .. n - 1 : x + 1 \in 1 .. n /\ x = x + 1 - 1
    BY <1>1
  <2>4. \A k \in 1 .. n : k - 1 \in 0 .. n - 1
    BY <1>1
  <2> HIDE DEF q, b
  <2>5. \A x \in 0 .. n - 1 : q[x + 1] = x
    <3>1. TAKE x \in 0 .. n - 1
    <3>2. q[x + 1] = x + 1 - 1
      BY <2>2, <2>3
    <3>3. QED BY <3>2
  <2>6. \A x \in 0 .. n - 1 : \E k \in 1 .. n : q[k] = x
    BY <2>3, <2>5
  <2>7. \A k \in 1 .. n : q[k] \in 0 .. n - 1
    BY <2>2, <2>4
  <2>8. QED BY <2>1, <2>6, <2>7
<1>8. BlocksOf(b) = {}
  BY <1>1, <1>5, <1>7 DEF BlocksOf
<1> HIDE DEF q
<1>9. QED BY <1>2, <1>3, <1>4, <1>5, <1>6, <1>8 DEF SlabRecords

LEMMA PageOpened ==
  ASSUME NEW s, HeapGood(s), NEW i \in IdleSlabs(s), NEW f \in FramesOf(s, "free"),
         NEW class \in DOMAIN BlockSizes
  PROVE  LET t == Opened(s, i, f, class) IN
         /\ HeapGood(t) /\ BlocksInUse(t) = BlocksInUse(s) /\ Lone(t) = Lone(s)
         /\ i \in SlabPages(t) /\ t.slabs[i].free # <<>> /\ t.slabs[i].frame = f
         /\ t.frames = Marked(s.frames, f, 1, "address_space_object")
<1> DEFINE t == Opened(s, i, f, class)
           b == NewSlab(f, class)
<1>1. s \in Stores /\ i \in 1 .. MaxSlabPages /\ DOMAIN s.slabs = 1 .. MaxSlabPages
  BY DEF HeapGood, Stores, IdleSlabs
<1>2. f \in FrameIds /\ s.frames[f] = "free"
  BY DEF FramesOf
<1>3. /\ b \in SlabRecords /\ b.frame = f /\ b.class = class /\ b.usage = "address_space_object"
      /\ b.free # <<>> /\ FreeListGood(class, b.free) /\ BlocksOf(b) = {} /\ f # 0
  BY <1>2, NewSlabIsGood
<1> HIDE DEF b
<1>4. /\ t.frames = Marked(s.frames, f, 1, "address_space_object") /\ t.large = s.large
      /\ t.slabs = [s.slabs EXCEPT ![i] = b]
      /\ t.active = [s.active EXCEPT ![class] = @ + 1]
      /\ t.counts = [s.counts EXCEPT !.pages = @ + 1]
      /\ t = [frames |-> t.frames, slabs |-> t.slabs, large |-> t.large, active |-> t.active,
              counts |-> t.counts]
  <2>1. PICK g : g = Marked(s.frames, f, 1, "address_space_object")
    OBVIOUS
  <2>2. t = [s EXCEPT !.frames = g, !.slabs[i] = b, !.active[class] = @ + 1, !.counts.pages = @ + 1]
    BY <2>1 DEF Opened, b
  <2> HIDE DEF t
  <2>3. t = [frames |-> g, slabs |-> [s.slabs EXCEPT ![i] = b], large |-> s.large,
             active |-> [s.active EXCEPT ![class] = @ + 1],
             counts |-> [s.counts EXCEPT !.pages = @ + 1]]
    BY <1>1, <2>2 DEF Stores
  <2>4. QED BY <2>1, <2>3
<1> HIDE DEF t
<1>5. t.slabs[i] = b /\ DOMAIN t.slabs = 1 .. MaxSlabPages
      /\ \A j \in 1 .. MaxSlabPages : j # i => t.slabs[j] = s.slabs[j]
  BY <1>1, <1>4
<1>6. Extent(f, 1) = {f} /\ {f} \cap FrameIds = {f}
  BY <1>2, SinglesDiffer
<1>7. /\ t.frames \in FrameTables
      /\ FramesOf(t, "address_space_object") = FramesOf(s, "address_space_object") \cup {f}
      /\ FramesOf(t, "page_table") = FramesOf(s, "page_table")
  <2>1. "address_space_object" \in Usages /\ "page_table" \in Usages
    BY DEF Usages
  <2>2. /\ t.frames \in FrameTables
        /\ FramesOf(t, "address_space_object") = FramesOf(s, "address_space_object") \cup {f}
        /\ FramesOf(t, "page_table") = FramesOf(s, "page_table") \ {f}
    BY <1>1, <1>4, <1>6, <2>1, MarkedFrames
  <2>3. f \notin FramesOf(s, "page_table")
    BY <1>2 DEF FramesOf
  <2>4. QED BY <2>2, <2>3
<1>8. i \notin SlabPages(s) /\ SlabPages(s) \subseteq 1 .. MaxSlabPages
  BY <1>1 DEF SlabPages
<1>9. SlabPages(t) = SlabPages(s) \cup {i}
  BY <1>1, <1>3, <1>5, <1>8 DEF SlabPages, IdleSlabs, IsActive
<1>10. \A j \in SlabPages(s) : t.slabs[j] = s.slabs[j]
  BY <1>5, <1>8
<1>11. SlabFrames(t) = SlabFrames(s) \cup {f}
  BY <1>3, <1>5, <1>9, <1>10 DEF SlabFrames
<1>12. f \notin FramesOf(s, "address_space_object") /\ f \notin SlabFrames(s)
  <2>1. f \notin FramesOf(s, "address_space_object")
    BY <1>2 DEF FramesOf
  <2>2. QED BY <2>1, HeapFramesAre
<1>13. Lone(t) = Lone(s)
  BY <1>7, <1>11, <1>12 DEF Lone
<1>14. BlocksInUse(t) = BlocksInUse(s)
  <2>1. BlocksInUse(t) = UNION {BlocksOf(t.slabs[j]) : j \in SlabPages(t)}
    BY DEF BlocksInUse, BlocksOf
  <2>2. BlocksInUse(s) = UNION {BlocksOf(s.slabs[j]) : j \in SlabPages(s)}
    BY DEF BlocksInUse, BlocksOf
  <2>3. QED BY <1>3, <1>5, <1>9, <1>10, <2>1, <2>2
<1>15. HeapFrames(t) = HeapFrames(s) \cup {f} /\ f \notin HeapFrames(s)
  <2>1. HeapFrames(t) = HeapFrames(s) \cup {f}
    BY <1>4, <1>11 DEF HeapFrames, SlabFrames
  <2>2. f \notin FramesOf(s, "page_table")
    BY <1>2 DEF FramesOf
  <2>3. QED BY <1>12, <2>1, <2>2, HeapFramesAre
<1>16. IsFiniteSet(HeapFrames(s)) /\ Cardinality(HeapFrames(s)) \in Nat
  BY HeapFramesAre, FramesAreFinite
<1>17. \A j \in SlabPages(t) : SlabGood(t, j)
  <2>1. ASSUME NEW j \in SlabPages(s)
        PROVE  SlabGood(t, j)
    <3>1. SlabGood(s, j)
      BY DEF HeapGood, SlabsGood
    <3>2. s.slabs[j].frame \in FramesOf(t, "address_space_object")
      BY <1>7, <3>1 DEF SlabGood, FramesOf
    <3>3. QED BY <1>10, <3>1, <3>2 DEF SlabGood, FramesOf
  <2>2. f \in FramesOf(t, "address_space_object")
    BY <1>7
  <2>3. SlabGood(t, i)
    BY <1>3, <1>5, <2>2 DEF SlabGood, FreeListGood, FramesOf
  <2>4. QED BY <1>9, <2>1, <2>3
<1>18. \A j, k \in SlabPages(t) : t.slabs[j].frame = t.slabs[k].frame => j = k
  <2>1. \A j, k \in SlabPages(s) : s.slabs[j].frame = s.slabs[k].frame => j = k
    BY DEF HeapGood, SlabsGood
  <2>2. \A j \in SlabPages(s) : s.slabs[j].frame # f
    BY <1>12 DEF SlabFrames
  <2>3. QED BY <1>3, <1>5, <1>9, <1>10, <2>1, <2>2
<1>19. ASSUME NEW c \in DOMAIN BlockSizes
       PROVE  t.active[c] = Cardinality(OfClass(t, c))
  <2>1. s.active[c] = Cardinality(OfClass(s, c)) /\ s.active \in [DOMAIN BlockSizes -> Nat]
    BY <1>1 DEF HeapGood, SlabsGood, Stores
  <2>2. CASE c = class
    <3>1. OfClass(t, c) = OfClass(s, c) \cup {i} /\ i \notin OfClass(s, c)
      BY <1>3, <1>5, <1>8, <1>9, <1>10, <2>2 DEF OfClass
    <3>2. IsFiniteSet(OfClass(s, c))
      <4>1. IsFiniteSet(1 .. MaxSlabPages)
        BY FS_Interval, HeapNumbers
      <4>2. OfClass(s, c) \subseteq 1 .. MaxSlabPages
        BY <1>8 DEF OfClass
      <4>3. QED BY <4>1, <4>2, FS_Subset
    <3>3. t.active[c] = s.active[c] + 1
      BY <1>4, <2>1, <2>2
    <3>4. QED BY <2>1, <3>1, <3>2, <3>3, FS_AddElement
  <2>3. CASE c # class
    <3>1. OfClass(t, c) = OfClass(s, c)
      BY <1>3, <1>5, <1>8, <1>9, <1>10, <2>3 DEF OfClass
    <3>2. t.active[c] = s.active[c]
      BY <1>4, <2>1, <2>3
    <3>3. QED BY <2>1, <3>1, <3>2
  <2>4. QED BY <2>2, <2>3
<1>20. SlabsGood(t)
  BY <1>17, <1>18, <1>19 DEF SlabsGood
<1>21. t.counts = [pages |-> Cardinality(HeapFrames(t)), slab |-> Cardinality(BlocksInUse(t)),
                   large |-> Cardinality(t.large)]
  <2>1. s.counts = [pages |-> Cardinality(HeapFrames(s)), slab |-> Cardinality(BlocksInUse(s)),
                    large |-> Cardinality(s.large)]
    BY DEF HeapGood
  <2>2. Cardinality(HeapFrames(t)) = Cardinality(HeapFrames(s)) + 1
    BY <1>15, <1>16, FS_AddElement
  <2>3. QED BY <1>4, <1>14, <2>1, <2>2
<1>22. t \in Stores
  <2>1. t.slabs \in [1 .. MaxSlabPages -> SlabRecords]
    BY <1>1, <1>3, <1>4 DEF Stores
  <2>2. t.active \in [DOMAIN BlockSizes -> Nat]
    BY <1>1, <1>4 DEF Stores
  <2>3. s.counts \in Counts
    BY <1>1 DEF Stores
  <2>4. t.counts \in Counts
    BY <1>4, <2>3 DEF Counts
  <2>5. QED BY <1>1, <1>4, <1>7, <2>1, <2>2, <2>4 DEF Stores
<1>23. t.large = {Single(x) : x \in FramesOf(t, "page_table") \cup Lone(t)} /\ Cardinality(t.large) <= MaxLarge
  BY <1>4, <1>7, <1>13 DEF HeapGood
<1>24. HeapGood(t)
  BY <1>20, <1>21, <1>22, <1>23 DEF HeapGood
<1>25. QED BY <1>3, <1>4, <1>5, <1>9, <1>13, <1>14, <1>24 DEF t

HeapOthers == {"heap_metadata", "page_table", "service_image", "service_stack"}

(* What an object takes: a block of a page, or a page.                     *)
ObjectTaken(s, p) ==
  /\ p.ok \in BOOLEAN
  /\ ~p.ok => p.store = s
  /\ p.ok => /\ p.at[1] \in FrameIds /\ p.at[2] \in Nat /\ p.at = <<p.at[1], p.at[2]>>
             /\ p.at \notin Objects(s)
             /\ HeapGood(p.store) /\ Objects(p.store) = Objects(s) \cup {p.at}
             /\ \A u \in HeapOthers : FramesOf(p.store, u) = FramesOf(s, u)

LEMMA OthersKept ==
  ASSUME NEW s, HeapGood(s), NEW f \in FramesOf(s, "free"), NEW t,
         t.frames = Marked(s.frames, f, 1, "address_space_object")
  PROVE  /\ \A u \in HeapOthers : FramesOf(t, u) = FramesOf(s, u)
         /\ FramesOf(t, "address_space_object") = FramesOf(s, "address_space_object") \cup {f}
         /\ f \in FrameIds /\ f \notin FramesOf(s, "address_space_object")
<1>1. s \in Stores /\ "address_space_object" \in Usages
  BY DEF HeapGood, Usages
<1>2. f \in FrameIds /\ s.frames[f] = "free"
  BY DEF FramesOf
<1>3. Extent(f, 1) = {f} /\ {f} \cap FrameIds = {f}
  BY <1>2, SinglesDiffer
<1>4. /\ FramesOf(t, "address_space_object") = FramesOf(s, "address_space_object") \cup {f}
      /\ \A u \in Usages : u # "address_space_object" => FramesOf(t, u) = FramesOf(s, u) \ {f}
  BY <1>1, <1>3, MarkedFrames
<1>5. \A u \in HeapOthers : u \in Usages /\ u # "address_space_object" /\ u # "free"
  BY DEF HeapOthers, Usages
<1>6. \A u \in HeapOthers \cup {"address_space_object"} : f \notin FramesOf(s, u)
  BY <1>2, <1>5 DEF FramesOf
<1>7. ASSUME NEW u \in HeapOthers
      PROVE  FramesOf(t, u) = FramesOf(s, u)
  <2>1. FramesOf(t, u) = FramesOf(s, u) \ {f}
    BY <1>4, <1>5
  <2>2. f \notin FramesOf(s, u)
    BY <1>6
  <2>3. QED BY <2>1, <2>2
<1>8. QED BY <1>2, <1>4, <1>6, <1>7

LEMMA ObjectTakesBlock ==
  ASSUME NEW s, HeapGood(s), NEW i \in SlabPages(s), s.slabs[i].free # <<>>
  PROVE  ObjectTaken(s, AllocateFromSlabPage(s, i)) /\ AllocateFromSlabPage(s, i).ok
<1> DEFINE p == AllocateFromSlabPage(s, i)
<1>1. /\ p.ok /\ HeapGood(p.store) /\ p.store.frames = s.frames /\ SlabFrames(p.store) = SlabFrames(s)
      /\ p.at[1] \in SlabFrames(s) /\ p.at[2] \in Nat /\ p.at = <<p.at[1], p.at[2]>>
      /\ p.at \notin BlocksInUse(s)
      /\ BlocksInUse(p.store) = BlocksInUse(s) \cup {p.at}
  BY BlockTaken
<1>2. p.ok = TRUE
  BY DEF AllocateFromSlabPage
<1> HIDE DEF p
<1>3. \A u : FramesOf(p.store, u) = FramesOf(s, u)
  BY <1>1 DEF FramesOf
<1>4. Lone(p.store) = Lone(s)
  BY <1>1, <1>3 DEF Lone
<1>5. \A f \in Lone(s) : p.at # <<f, 0>>
  BY <1>1 DEF Lone
<1>6. p.at[1] \in FrameIds
  BY <1>1, HeapFramesAre DEF FramesOf
<1>7. Objects(p.store) = Objects(s) \cup {p.at} /\ p.at \notin Objects(s)
  BY <1>1, <1>4, <1>5 DEF Objects
<1>8. QED BY <1>1, <1>2, <1>3, <1>6, <1>7 DEF ObjectTaken, p

LEMMA ObjectOpensPage ==
  ASSUME NEW s, HeapGood(s), NEW class \in DOMAIN BlockSizes
  PROVE  ObjectTaken(s, GrowSlabClass(s, class, "address_space_object"))
<1> DEFINE p == GrowSlabClass(s, class, "address_space_object")
           c == Claim(s, 1, "address_space_object")
           idle == IdleSlabs(s)
<1>1. s \in Stores /\ "address_space_object" \in Usages
  BY DEF HeapGood, Usages
<1>2. c.ok \in BOOLEAN
  BY <1>1, ClaimTakesFree
<1>3. CASE idle = {} \/ ~c.ok
  <2>1. p = Refused(s)
    BY <1>3 DEF GrowSlabClass
  <2>2. ObjectTaken(s, Refused(s))
    BY DEF Refused, ObjectTaken
  <2>3. QED BY <2>1, <2>2
<1>4. CASE idle # {} /\ c.ok
  <2>1. PICK f : f = c.base
    OBVIOUS
  <2>2. /\ \A x \in Extent(f, 1) : x \in FrameIds /\ s.frames[x] = "free"
        /\ c.store = [s EXCEPT !.frames = Marked(s.frames, f, 1, "address_space_object")] /\ f \in Nat
    BY <1>1, <1>4, <2>1, ClaimTakesFree
  <2>3. f \in Extent(f, 1)
    BY <2>2 DEF Extent
  <2>4. f \in FramesOf(s, "free")
    BY <2>2, <2>3 DEF FramesOf
  <2>5. PICK i : i = Min(idle)
    OBVIOUS
  <2>6. i \in idle
    <3>1. idle \in SUBSET Nat
      BY <1>1, HeapNumbers DEF IdleSlabs, Stores
    <3>2. QED BY <1>4, <2>5, <3>1, MinOfNaturals
  <2> DEFINE t == Opened(s, i, f, class)
  <2>7. p = AllocateFromSlabPage(t, i)
    <3>1. p = AllocateFromSlabPage(
            [c.store EXCEPT
               !.slabs[i] = [frame |-> f, usage |-> "address_space_object", class |-> class,
                             free |-> [k \in 1 .. Blocks(class) |-> k - 1]],
               !.active[class] = @ + 1, !.counts.pages = @ + 1], i)
      BY <1>4, <2>1, <2>5 DEF GrowSlabClass
    <3>2. [c.store EXCEPT
               !.slabs[i] = [frame |-> f, usage |-> "address_space_object", class |-> class,
                             free |-> [k \in 1 .. Blocks(class) |-> k - 1]],
               !.active[class] = @ + 1, !.counts.pages = @ + 1] = t
      <4>1. PICK g : g = Marked(s.frames, f, 1, "address_space_object")
        OBVIOUS
      <4>2. PICK b : b = NewSlab(f, class)
        OBVIOUS
      <4>3. t = [s EXCEPT !.frames = g, !.slabs[i] = b, !.active[class] = @ + 1, !.counts.pages = @ + 1]
        BY <4>1, <4>2 DEF Opened
      <4>4. c.store = [s EXCEPT !.frames = g]
        BY <2>2, <4>1
      <4>5. [c.store EXCEPT !.slabs[i] = b, !.active[class] = @ + 1, !.counts.pages = @ + 1] = t
        <5> HIDE DEF t, c
        <5>1. QED BY <1>1, <4>3, <4>4 DEF Stores
      <4> HIDE DEF t, c
      <4>6. QED BY <4>2, <4>5 DEF NewSlab
    <3>3. QED BY <3>1, <3>2
  <2> HIDE DEF p, c
  <2>8. /\ HeapGood(t) /\ BlocksInUse(t) = BlocksInUse(s) /\ Lone(t) = Lone(s)
        /\ i \in SlabPages(t) /\ t.slabs[i].free # <<>> /\ t.slabs[i].frame = f
        /\ t.frames = Marked(s.frames, f, 1, "address_space_object")
    BY <2>4, <2>6, PageOpened
  <2> HIDE DEF t
  <2>9. ObjectTaken(t, p) /\ p.ok
    BY <2>7, <2>8, ObjectTakesBlock
  <2>10. Objects(t) = Objects(s)
    BY <2>8 DEF Objects
  <2>11. \A u \in HeapOthers : FramesOf(t, u) = FramesOf(s, u)
    BY <2>4, <2>8, OthersKept
  <2>12. QED BY <2>9, <2>10, <2>11 DEF ObjectTaken, p
<1>5. QED BY <1>2, <1>3, <1>4

LEMMA ObjectTakesPage ==
  ASSUME NEW s, HeapGood(s), NEW bytes \in 1 .. PageBytes
  PROVE  ObjectTaken(s, AllocateLarge(s, bytes, "address_space_object"))
<1> DEFINE p == AllocateLarge(s, bytes, "address_space_object")
<1>1. /\ p.ok \in BOOLEAN
      /\ ~p.ok => p.store = s
      /\ p.ok => \E f \in FramesOf(s, "free") :
           /\ p.at = <<f, 0>> /\ HeapGood(p.store)
           /\ p.store.slabs = s.slabs
           /\ p.store.frames = Marked(s.frames, f, 1, "address_space_object")
  BY LargeTakesPage DEF HeapUsages
<1> HIDE DEF p
<1>2. ASSUME p.ok, NEW f \in FramesOf(s, "free"),
             p.at = <<f, 0>>, HeapGood(p.store), p.store.slabs = s.slabs,
             p.store.frames = Marked(s.frames, f, 1, "address_space_object")
      PROVE  /\ p.at[1] \in FrameIds /\ p.at[2] \in Nat /\ p.at = <<p.at[1], p.at[2]>>
             /\ p.at \notin Objects(s)
             /\ Objects(p.store) = Objects(s) \cup {p.at}
             /\ \A u \in HeapOthers : FramesOf(p.store, u) = FramesOf(s, u)
  <2>1. /\ \A u \in HeapOthers : FramesOf(p.store, u) = FramesOf(s, u)
        /\ FramesOf(p.store, "address_space_object") = FramesOf(s, "address_space_object") \cup {f}
        /\ f \in FrameIds /\ f \notin FramesOf(s, "address_space_object")
    BY <1>2, OthersKept
  <2>2. SlabFrames(p.store) = SlabFrames(s) /\ BlocksInUse(p.store) = BlocksInUse(s)
    BY <1>2, SameSlabs
  <2>3. f \notin SlabFrames(s)
    BY <2>1, HeapFramesAre
  <2>4. Lone(p.store) = Lone(s) \cup {f} /\ f \notin Lone(s)
    BY <2>1, <2>2, <2>3 DEF Lone
  <2>5. <<f, 0>> \notin BlocksInUse(s)
    BY <2>3, BlocksByPage
  <2>6. \A g \in Lone(s) : <<g, 0>> # <<f, 0>>
    BY <2>4
  <2>7. p.at \notin Objects(s)
    BY <1>2, <2>5, <2>6 DEF Objects
  <2>8. Objects(p.store) = Objects(s) \cup {p.at}
    BY <1>2, <2>2, <2>4 DEF Objects
  <2>9. QED BY <1>2, <2>1, <2>7, <2>8
<1>3. QED BY <1>1, <1>2 DEF ObjectTaken, p

(* An object is allocated, or nothing has changed.                         *)
LEMMA ObjectTakesMemory ==
  ASSUME NEW s, HeapGood(s), NEW bytes \in 1 .. PageBytes
  PROVE  ObjectTaken(s, HeapAllocate(s, bytes, 1, "address_space_object"))
<1> DEFINE class == SelectSlabClass(bytes, 1)
           block == AllocateFromSlabs(s, class, "address_space_object")
           fitting == {c \in DOMAIN BlockSizes : BlockSizes[c] >= bytes /\ BlockSizes[c] >= 1}
           open == {i \in DOMAIN s.slabs : /\ IsActive(s.slabs[i]) /\ s.slabs[i].free # <<>>
                        /\ s.slabs[i].class = class /\ s.slabs[i].usage = "address_space_object"}
<1>1. class = 0 \/ class \in DOMAIN BlockSizes
  <2>1. fitting \in SUBSET Nat
    BY HeapNumbers
  <2>2. class = IF fitting = {} THEN 0 ELSE Min(fitting)
    BY DEF SelectSlabClass
  <2> HIDE DEF class
  <2>3. CASE fitting # {}
    <3>1. class \in fitting
      BY <2>1, <2>2, <2>3, MinOfNaturals
    <3>2. QED BY <3>1
  <2>4. QED BY <2>2, <2>3
<1> HIDE DEF class
<1>2. ASSUME class \in DOMAIN BlockSizes
      PROVE  ObjectTaken(s, block)
  <2>1. CASE open # {}
    <3>1. PICK i : i = Min(open)
      OBVIOUS
    <3>2. open \in SUBSET Nat
      BY HeapNumbers DEF HeapGood, Stores
    <3>3. i \in open
      BY <2>1, <3>1, <3>2, MinOfNaturals
    <3>4. i \in SlabPages(s) /\ s.slabs[i].free # <<>>
      BY <3>3 DEF SlabPages, IdleSlabs
    <3>5. block = AllocateFromSlabPage(s, i)
      BY <2>1, <3>1 DEF AllocateFromSlabs
    <3>6. QED BY <3>4, <3>5, ObjectTakesBlock
  <2>2. CASE open = {}
    <3>1. block = GrowSlabClass(s, class, "address_space_object")
      BY <2>2 DEF AllocateFromSlabs
    <3>2. QED BY <1>2, <3>1, ObjectOpensPage
  <2>3. QED BY <2>1, <2>2
<1>3. HeapAllocate(s, bytes, 1, "address_space_object") =
        IF class # 0 /\ block.ok THEN block ELSE AllocateLarge(s, bytes, "address_space_object")
  BY DEF HeapAllocate, class
<1>4. ObjectTaken(s, AllocateLarge(s, bytes, "address_space_object"))
  BY ObjectTakesPage
<1> HIDE DEF block
<1>5. QED BY <1>1, <1>2, <1>3, <1>4

(* A list as long as a page has blocks lists them all.                     *)
LEMMA FullListHasAll ==
  ASSUME NEW class \in DOMAIN BlockSizes, NEW free, FreeListGood(class, free)
  PROVE  /\ Len(free) \in Nat /\ Len(free) <= Blocks(class)
         /\ Len(free) = Blocks(class) =>
              {free[k] : k \in DOMAIN free} = 0 .. Blocks(class) - 1
<1>1. PICK n \in Nat : n = Blocks(class) /\ n > 0
  BY BlocksOfAPage
<1>2. PICK m \in Nat : m = Len(free) /\ DOMAIN free = 1 .. m /\ free \in [1 .. m -> Nat]
  BY DEF FreeListGood
<1>3. free \in [1 .. m -> 0 .. n - 1]
  <2>1. \A k \in 1 .. m : free[k] \in Nat /\ free[k] < n
    BY <1>1, <1>2 DEF FreeListGood
  <2>2. \A k \in 1 .. m : free[k] \in 0 .. n - 1
    BY <1>1, <2>1
  <2>3. QED BY <1>2, <2>2
<1>4. free \in Injection(1 .. m, 0 .. n - 1)
  BY <1>2, <1>3 DEF FreeListGood, Injection, IsInjective
<1>5. /\ IsFiniteSet(0 .. n - 1) /\ Cardinality(0 .. n - 1) = n
      /\ Cardinality(1 .. m) = m
  <2>1. Cardinality(0 .. n - 1) = IF 0 > n - 1 THEN 0 ELSE n - 1 - 0 + 1
    BY <1>1, FS_Interval
  <2>2. Cardinality(1 .. m) = IF 1 > m THEN 0 ELSE m - 1 + 1
    <3>1. m \in Int /\ 1 \in Int
      BY <1>2
    <3> HIDE <1>1, <1>2, <1>3, <1>4
    <3>2. QED BY <3>1, FS_Interval
  <2>3. IsFiniteSet(0 .. n - 1)
    BY <1>1, FS_Interval
  <2>4. QED BY <1>1, <1>2, <2>1, <2>2, <2>3
<1>6. /\ m <= n
      /\ m = n => free \in Surjection(1 .. m, 0 .. n - 1)
  BY <1>4, <1>5, FS_Injection
<1>7. m = n => {free[k] : k \in 1 .. m} = 0 .. n - 1
  BY <1>3, <1>6 DEF Surjection
<1>8. QED BY <1>1, <1>2, <1>6, <1>7

(* A block goes to the head of its page's list.                            *)
Given(s, i, block) == Relisted(s, i, <<block>> \o s.slabs[i].free, s.counts.slab - 1)

LEMMA BlockGiven ==
  ASSUME NEW s, HeapGood(s), NEW i \in SlabPages(s), NEW block,
         <<s.slabs[i].frame, block>> \in BlocksOf(s.slabs[i])
  PROVE  LET t == Given(s, i, block)
             b == s.slabs[i] IN
         /\ HeapGood(t) /\ t.frames = s.frames /\ SlabFrames(t) = SlabFrames(s) /\ Lone(t) = Lone(s)
         /\ SlabPages(t) = SlabPages(s) /\ t.active = s.active
         /\ t.slabs[i].frame = b.frame /\ t.slabs[i].class = b.class
         /\ t.slabs[i].free = <<block>> \o b.free
         /\ BlocksInUse(t) = BlocksInUse(s) \ {<<b.frame, block>>}
         /\ block \notin FreeBlocks(b) /\ b.class \in DOMAIN BlockSizes
         /\ Len(b.free) \in Nat /\ Len(b.free) < Blocks(b.class)
         /\ s.counts.slab # 0 /\ Len(t.slabs[i].free) = Len(b.free) + 1
         /\ FreeListGood(b.class, t.slabs[i].free)
<1> DEFINE t == Given(s, i, block)
<1>1. s \in Stores /\ SlabGood(s, i)
  BY DEF HeapGood, SlabsGood
<1>2. PICK b \in SlabRecords : b = s.slabs[i]
  <2>1. i \in 1 .. MaxSlabPages
    BY <1>1 DEF SlabPages, Stores
  <2>2. QED BY <1>1, <2>1 DEF Stores
<1>3. PICK free \in Seq(Nat) : free = b.free
  BY <1>2 DEF SlabRecords
<1>4. b.class \in DOMAIN BlockSizes /\ FreeListGood(b.class, free)
  BY <1>1, <1>2, <1>3 DEF SlabGood, FreeListGood
<1>5. PICK size \in Nat : size = Blocks(b.class)
  BY <1>4, BlocksOfAPage
<1>6. block \in 0 .. size - 1 /\ block \notin FreeBlocks(b) /\ <<b.frame, block>> \in BlocksOf(b)
  <2>1. \A x : <<b.frame, block>> = <<b.frame, x>> => block = x
    OBVIOUS
  <2>2. QED BY <1>2, <1>5, <2>1 DEF BlocksOf
<1>7. PICK m \in Nat : m = Len(free) /\ m <= size /\ m # size /\ DOMAIN free = 1 .. m
  <2>1. FreeBlocks(b) = {free[k] : k \in DOMAIN free}
    BY <1>3 DEF FreeBlocks
  <2>2. Len(free) \in Nat /\ Len(free) <= size /\ Len(free) # size
    BY <1>4, <1>5, <1>6, <2>1, FullListHasAll
  <2>3. QED BY <1>3, <2>2
<1>8. PICK longer : longer = <<block>> \o free
  OBVIOUS
<1>9. /\ longer \in Seq(Nat) /\ Len(longer) = m + 1 /\ DOMAIN longer = 1 .. m + 1
      /\ longer[1] = block /\ \A k \in 2 .. m + 1 : longer[k] = free[k - 1]
  <2>1. <<block>> \in Seq(Nat) /\ Len(<<block>>) = 1 /\ <<block>>[1] = block
    BY <1>6
  <2>2. longer \in Seq(Nat) /\ Len(longer) = m + 1
    BY <1>3, <1>7, <1>8, <2>1
  <2>3. longer[1] = block
    BY <1>3, <1>7, <1>8, <2>1
  <2>4. \A k \in 2 .. m + 1 : longer[k] = free[k - 1]
    BY <1>3, <1>7, <1>8, <2>1
  <2>5. QED BY <1>7, <2>2, <2>3, <2>4
<1>10. /\ \A k \in 1 .. m : free[k] \in FreeBlocks(b) /\ free[k] < size
       /\ \A j, k \in 1 .. m : free[j] = free[k] => j = k
  BY <1>3, <1>4, <1>5, <1>7 DEF FreeListGood, FreeBlocks
<1>11. \A k \in 1 .. m + 1 : k = 1 \/ (k \in 2 .. m + 1 /\ k - 1 \in 1 .. m)
  BY <1>7
<1>12. FreeListGood(b.class, longer)
  <2>1. \A k \in 1 .. m + 1 : longer[k] < size
    <3>1. longer[1] < size
      BY <1>6, <1>9
    <3>2. \A k \in 2 .. m + 1 : longer[k] < size
      <4>1. \A k \in 2 .. m + 1 : k - 1 \in 1 .. m
        BY <1>7
      <4>2. QED BY <1>9, <1>10, <4>1
    <3>3. QED BY <1>11, <3>1, <3>2
  <2>2. \A k \in 2 .. m + 1 : longer[k] # block
    BY <1>6, <1>7, <1>9, <1>10, <1>11
  <2>3. \A j, k \in 2 .. m + 1 : j - 1 \in 1 .. m /\ k - 1 \in 1 .. m /\ (j - 1 = k - 1 => j = k)
    BY <1>7
  <2>4. \A j, k \in 2 .. m + 1 : longer[j] = longer[k] => j = k
    BY <1>9, <1>10, <2>3
  <2>5. \A j, k \in 1 .. m + 1 : longer[j] = longer[k] => j = k
    BY <1>9, <1>11, <2>2, <2>4
  <2>6. QED BY <1>5, <1>9, <2>1, <2>5 DEF FreeListGood
<1>13. <<b.frame, block>> \in BlocksInUse(s)
  BY <1>2, <1>6, BlocksByPage
<1>14. PICK n \in Nat : n = s.counts.slab - 1 /\ s.counts.slab # 0
  <2>1. s.counts.slab = Cardinality(BlocksInUse(s))
    BY DEF HeapGood
  <2>2. IsFiniteSet(BlocksInUse(s)) /\ Cardinality(BlocksInUse(s)) \in Nat
    BY BlocksByPage
  <2>3. Cardinality(BlocksInUse(s)) # 0
    BY <1>13, <2>2, FS_EmptySet
  <2>4. QED BY <2>1, <2>2, <2>3
<1>15. t = Relisted(s, i, longer, n)
  BY <1>2, <1>3, <1>8, <1>14 DEF Given
<1> HIDE DEF t
<1>16. FreeListGood(s.slabs[i].class, longer)
  BY <1>2, <1>12
<1>17. PageRelisted(s, i, longer, n, t)
  BY <1>15, <1>16, RelistedPage
<1>18. /\ t.slabs[i].frame = b.frame /\ t.slabs[i].class = b.class /\ t.slabs[i].free = longer
       /\ BlocksInUse(t) = (BlocksInUse(s) \ BlocksOf(b)) \cup BlocksOf(t.slabs[i])
  BY <1>2, <1>17 DEF PageRelisted
<1>19. FreeBlocks(t.slabs[i]) = FreeBlocks(b) \cup {block}
  <2>1. FreeBlocks(b) = {free[k] : k \in 1 .. m}
    BY <1>3, <1>7 DEF FreeBlocks
  <2>2. FreeBlocks(t.slabs[i]) = {longer[k] : k \in 1 .. m + 1}
    BY <1>9, <1>18 DEF FreeBlocks
  <2>3. 1 \in 1 .. m + 1 /\ \A k \in 1 .. m : k + 1 \in 2 .. m + 1 /\ k + 1 \in 1 .. m + 1 /\ k + 1 - 1 = k
    BY <1>7
  <2>4. \A k \in 1 .. m : longer[k + 1] = free[k]
    <3>1. TAKE k \in 1 .. m
    <3>2. longer[k + 1] = free[k + 1 - 1]
      BY <1>9, <2>3
    <3>3. QED BY <2>3, <3>2
  <2>5. FreeBlocks(b) \cup {block} \subseteq FreeBlocks(t.slabs[i])
    BY <1>9, <2>1, <2>2, <2>3, <2>4
  <2>6. FreeBlocks(t.slabs[i]) \subseteq FreeBlocks(b) \cup {block}
    <3>1. \A k \in 1 .. m + 1 : longer[k] = block \/ \E j \in 1 .. m : longer[k] = free[j]
      BY <1>9, <1>11
    <3>2. QED BY <2>1, <2>2, <3>1
  <2>7. QED BY <2>5, <2>6
<1>20. BlocksOf(t.slabs[i]) = BlocksOf(b) \ {<<b.frame, block>>}
  BY <1>18, <1>19 DEF BlocksOf
<1>21. BlocksInUse(t) = BlocksInUse(s) \ {<<b.frame, block>>}
  <2>1. BlocksOf(b) \subseteq BlocksInUse(s)
    BY <1>2, BlocksByPage
  <2>2. QED BY <1>6, <1>18, <1>20, <2>1
<1>22. n = Cardinality(BlocksInUse(t))
  <2>1. s.counts.slab = Cardinality(BlocksInUse(s))
    BY DEF HeapGood
  <2>2. IsFiniteSet(BlocksInUse(s))
    BY BlocksByPage
  <2>3. PICK S, x : S = BlocksInUse(s) /\ x = <<b.frame, block>>
    OBVIOUS
  <2>4. IsFiniteSet(S) /\ x \in S
    BY <1>13, <2>2, <2>3
  <2>5. Cardinality(S \ {x}) = Cardinality(S) - 1
    BY ONLY <2>4, FS_RemoveElement
  <2>6. BlocksInUse(t) = S \ {x} /\ s.counts.slab = Cardinality(S)
    BY <1>21, <2>1, <2>3
  <2>7. QED BY <1>14, <2>5, <2>6
<1>23. HeapGood(t)
  BY <1>15, <1>16, <1>22, FreeListChanged
<1>24. /\ t.frames = s.frames /\ SlabFrames(t) = SlabFrames(s) /\ Lone(t) = Lone(s)
       /\ SlabPages(t) = SlabPages(s) /\ t.active = s.active
  BY <1>17 DEF PageRelisted
<1>25. t.slabs[i].free = <<block>> \o b.free /\ Len(t.slabs[i].free) = m + 1
  BY <1>3, <1>8, <1>9, <1>18
<1>26. m < size
  BY <1>5, <1>7
<1>27. QED BY <1>2, <1>3, <1>4, <1>5, <1>6, <1>7, <1>12, <1>14, <1>18, <1>21, <1>23, <1>24, <1>25, <1>26 DEF t

(* A page without blocks in use goes back.                                 *)
Closed(s, i) ==
  [s EXCEPT !.frames = Marked(s.frames, s.slabs[i].frame, 1, "free"),
            !.slabs[i] = NoSlab, !.active[s.slabs[i].class] = @ - 1, !.counts.pages = @ - 1]

LEMMA PageClosed ==
  ASSUME NEW s, HeapGood(s), NEW i \in SlabPages(s), BlocksOf(s.slabs[i]) = {}
  PROVE  LET t == Closed(s, i) IN
         /\ HeapGood(t) /\ BlocksInUse(t) = BlocksInUse(s) /\ Lone(t) = Lone(s)
         /\ t.frames = Marked(s.frames, s.slabs[i].frame, 1, "free")
<1> DEFINE t == Closed(s, i)
<1>1. s \in Stores /\ SlabGood(s, i) /\ i \in 1 .. MaxSlabPages /\ DOMAIN s.slabs = 1 .. MaxSlabPages
  <2>1. s \in Stores /\ SlabGood(s, i)
    BY DEF HeapGood, SlabsGood
  <2>2. QED BY <2>1 DEF SlabPages, Stores
<1>2. PICK f, class : f = s.slabs[i].frame /\ class = s.slabs[i].class
  OBVIOUS
<1>3. f \in FrameIds /\ s.frames[f] = "address_space_object" /\ class \in DOMAIN BlockSizes
  BY <1>1, <1>2 DEF SlabGood
<1>4. NoSlab \in SlabRecords /\ ~IsActive(NoSlab)
  <2>1. 0 \in 0 .. NumFrames /\ 0 \in 0 .. Len(BlockSizes)
    BY HeapNumbers
  <2>2. QED BY <2>1 DEF NoSlab, SlabRecords, IsActive
<1>5. /\ t.frames = Marked(s.frames, f, 1, "free") /\ t.large = s.large
      /\ t.slabs = [s.slabs EXCEPT ![i] = NoSlab]
      /\ t.active = [s.active EXCEPT ![class] = @ - 1]
      /\ t.counts = [s.counts EXCEPT !.pages = @ - 1]
      /\ t = [frames |-> t.frames, slabs |-> t.slabs, large |-> t.large, active |-> t.active,
              counts |-> t.counts]
  <2>1. PICK g : g = Marked(s.frames, f, 1, "free")
    OBVIOUS
  <2>2. t = [s EXCEPT !.frames = g, !.slabs[i] = NoSlab, !.active[class] = @ - 1, !.counts.pages = @ - 1]
    BY <1>2, <2>1 DEF Closed
  <2> HIDE DEF t
  <2>3. t = [frames |-> g, slabs |-> [s.slabs EXCEPT ![i] = NoSlab], large |-> s.large,
             active |-> [s.active EXCEPT ![class] = @ - 1],
             counts |-> [s.counts EXCEPT !.pages = @ - 1]]
    BY <1>1, <2>2 DEF Stores
  <2>4. QED BY <2>1, <2>3
<1> HIDE DEF t
<1>6. t.slabs[i] = NoSlab /\ DOMAIN t.slabs = 1 .. MaxSlabPages
      /\ \A j \in 1 .. MaxSlabPages : j # i => t.slabs[j] = s.slabs[j]
  BY <1>1, <1>5
<1>7. Extent(f, 1) = {f} /\ {f} \cap FrameIds = {f}
  BY <1>3, SinglesDiffer
<1>8. /\ t.frames \in FrameTables
      /\ FramesOf(t, "address_space_object") = FramesOf(s, "address_space_object") \ {f}
      /\ FramesOf(t, "page_table") = FramesOf(s, "page_table")
  <2>1. "free" \in Usages /\ "address_space_object" \in Usages /\ "page_table" \in Usages
    BY DEF Usages
  <2>2. /\ t.frames \in FrameTables
        /\ \A u \in Usages : u # "free" => FramesOf(t, u) = FramesOf(s, u) \ {f}
    BY <1>1, <1>5, <1>7, <2>1, MarkedFrames
  <2>3. f \notin FramesOf(s, "page_table")
    BY <1>3 DEF FramesOf
  <2>4. QED BY <2>1, <2>2, <2>3
<1>9. SlabPages(s) \subseteq 1 .. MaxSlabPages
  BY <1>1 DEF SlabPages
<1>10. SlabPages(t) = SlabPages(s) \ {i}
  BY <1>1, <1>4, <1>6, <1>9 DEF SlabPages, IdleSlabs
<1>11. \A j \in SlabPages(t) : t.slabs[j] = s.slabs[j]
  BY <1>6, <1>9, <1>10
<1>12. \A j \in SlabPages(t) : s.slabs[j].frame # f
  BY <1>2, <1>10 DEF HeapGood, SlabsGood
<1>13. SlabFrames(t) = SlabFrames(s) \ {f} /\ f \in SlabFrames(s)
  BY <1>2, <1>10, <1>11, <1>12 DEF SlabFrames
<1>14. Lone(t) = Lone(s)
  BY <1>8, <1>13 DEF Lone
<1>15. BlocksInUse(t) = BlocksInUse(s)
  <2>1. BlocksInUse(t) = UNION {BlocksOf(t.slabs[j]) : j \in SlabPages(t)}
    BY DEF BlocksInUse, BlocksOf
  <2>2. BlocksInUse(s) = UNION {BlocksOf(s.slabs[j]) : j \in SlabPages(s)}
    BY DEF BlocksInUse, BlocksOf
  <2>3. QED BY <1>10, <1>11, <2>1, <2>2
<1>16. HeapFrames(t) = HeapFrames(s) \ {f} /\ f \in HeapFrames(s)
  <2>1. \A x \in FrameIds : Single(x).base = x /\ Single(x).count = 1 /\ Extent(x, 1) = {x}
    BY SinglesDiffer
  <2>2. UNION {Extent(a.base, a.count) : a \in s.large} = FramesOf(s, "page_table") \cup Lone(s)
    <3>1. s.large = {Single(x) : x \in FramesOf(s, "page_table") \cup Lone(s)}
      BY DEF HeapGood
    <3>2. QED BY <2>1, <3>1 DEF FramesOf, Lone
  <2>3. f \notin FramesOf(s, "page_table") \cup Lone(s)
    BY <1>3, <1>13 DEF FramesOf, Lone
  <2>4. HeapFrames(t) = SlabFrames(t) \cup UNION {Extent(a.base, a.count) : a \in t.large}
    BY DEF HeapFrames, SlabFrames
  <2>5. HeapFrames(s) = SlabFrames(s) \cup UNION {Extent(a.base, a.count) : a \in s.large}
    BY DEF HeapFrames, SlabFrames
  <2>6. QED BY <1>5, <1>13, <2>2, <2>3, <2>4, <2>5
<1>17. IsFiniteSet(HeapFrames(s)) /\ Cardinality(HeapFrames(s)) \in Nat
  BY HeapFramesAre, FramesAreFinite
<1>18. \A j \in SlabPages(t) : SlabGood(t, j)
  <2>1. TAKE j \in SlabPages(t)
  <2>2. SlabGood(s, j) /\ s.slabs[j].frame # f
    BY <1>10, <1>12 DEF HeapGood, SlabsGood
  <2>3. s.slabs[j].frame \in FramesOf(t, "address_space_object")
    BY <1>8, <2>2 DEF SlabGood, FramesOf
  <2>4. QED BY <1>11, <2>2, <2>3 DEF SlabGood, FramesOf
<1>19. \A j, k \in SlabPages(t) : t.slabs[j].frame = t.slabs[k].frame => j = k
  <2>1. \A j, k \in SlabPages(s) : s.slabs[j].frame = s.slabs[k].frame => j = k
    BY DEF HeapGood, SlabsGood
  <2>2. QED BY <1>10, <1>11, <2>1
<1>20. ASSUME NEW c \in DOMAIN BlockSizes
       PROVE  t.active[c] = Cardinality(OfClass(t, c)) /\ t.active[c] \in Nat
  <2>1. s.active[c] = Cardinality(OfClass(s, c)) /\ s.active \in [DOMAIN BlockSizes -> Nat]
    BY <1>1 DEF HeapGood, SlabsGood, Stores
  <2>2. CASE c = class
    <3>1. OfClass(t, c) = OfClass(s, c) \ {i} /\ i \in OfClass(s, c)
      BY <1>2, <1>10, <1>11, <2>2 DEF OfClass
    <3>2. IsFiniteSet(OfClass(s, c))
      <4>1. IsFiniteSet(1 .. MaxSlabPages)
        BY FS_Interval, HeapNumbers
      <4>2. OfClass(s, c) \subseteq 1 .. MaxSlabPages
        BY <1>9 DEF OfClass
      <4>3. QED BY <4>1, <4>2, FS_Subset
    <3>3. t.active[c] = s.active[c] - 1
      BY <1>5, <2>1, <2>2
    <3>4. Cardinality(OfClass(s, c)) # 0
      BY <3>1, <3>2, FS_EmptySet
    <3>5. Cardinality(OfClass(t, c)) = Cardinality(OfClass(s, c)) - 1
      BY <3>1, <3>2, FS_RemoveElement
    <3>6. s.active[c] \in Nat
      BY <2>1
    <3>7. QED BY <2>1, <3>3, <3>4, <3>5, <3>6
  <2>3. CASE c # class
    <3>1. OfClass(t, c) = OfClass(s, c)
      BY <1>2, <1>10, <1>11, <2>3 DEF OfClass
    <3>2. t.active[c] = s.active[c]
      BY <1>5, <2>1, <2>3
    <3>3. QED BY <2>1, <3>1, <3>2
  <2>4. QED BY <2>2, <2>3
<1>21. SlabsGood(t)
  BY <1>18, <1>19, <1>20 DEF SlabsGood
<1>22. /\ t.counts = [pages |-> Cardinality(HeapFrames(t)), slab |-> Cardinality(BlocksInUse(t)),
                      large |-> Cardinality(t.large)]
       /\ t.counts \in Counts
  <2>1. s.counts = [pages |-> Cardinality(HeapFrames(s)), slab |-> Cardinality(BlocksInUse(s)),
                    large |-> Cardinality(s.large)] /\ s.counts \in Counts
    BY <1>1 DEF HeapGood, Stores
  <2>2. Cardinality(HeapFrames(t)) = Cardinality(HeapFrames(s)) - 1 /\ Cardinality(HeapFrames(s)) # 0
    BY <1>16, <1>17, FS_RemoveElement, FS_EmptySet
  <2>3. t.counts = [pages |-> Cardinality(HeapFrames(t)), slab |-> Cardinality(BlocksInUse(t)),
                    large |-> Cardinality(t.large)]
    BY <1>5, <1>15, <2>1, <2>2
  <2>4. Cardinality(HeapFrames(t)) \in Nat
    BY <1>17, <2>2
  <2>5. QED BY <1>5, <1>15, <2>1, <2>3, <2>4 DEF Counts
<1>23. t \in Stores
  <2>1. t.slabs \in [1 .. MaxSlabPages -> SlabRecords]
    BY <1>1, <1>4, <1>5 DEF Stores
  <2>2. t.active \in [DOMAIN BlockSizes -> Nat]
    <3>1. DOMAIN t.active = DOMAIN BlockSizes /\ t.active = [c \in DOMAIN BlockSizes |-> t.active[c]]
      BY <1>1, <1>5 DEF Stores
    <3>2. QED BY <1>20, <3>1
  <2>3. QED BY <1>1, <1>5, <1>8, <1>22, <2>1, <2>2 DEF Stores
<1>24. t.large = {Single(x) : x \in FramesOf(t, "page_table") \cup Lone(t)} /\ Cardinality(t.large) <= MaxLarge
  BY <1>5, <1>8, <1>14 DEF HeapGood
<1>25. HeapGood(t)
  BY <1>21, <1>22, <1>23, <1>24 DEF HeapGood
<1>26. QED BY <1>2, <1>5, <1>14, <1>15, <1>25 DEF t

-----------------------------------------------------------------------------
(* What an object gives back: its block, with the page when it was the     *)
(* last one of it, or its page.                                            *)
ObjectGiven(s, at, p) ==
  /\ p.ok = TRUE
  /\ HeapGood(p.store) /\ Objects(p.store) = Objects(s) \ {at}
  /\ \A u \in HeapOthers : FramesOf(p.store, u) = FramesOf(s, u)
  /\ at[1] \in FramesOf(s, "address_space_object")
  /\ \/ p.pages = 0 /\ FramesOf(p.store, "free") = FramesOf(s, "free")
     \/ p.pages = 1 /\ FramesOf(p.store, "free") = FramesOf(s, "free") \cup {at[1]}

LEMMA OthersKeptFreeing ==
  ASSUME NEW s, HeapGood(s), NEW f \in FramesOf(s, "address_space_object"), NEW t,
         t.frames = Marked(s.frames, f, 1, "free")
  PROVE  /\ \A u \in HeapOthers : FramesOf(t, u) = FramesOf(s, u)
         /\ FramesOf(t, "address_space_object") = FramesOf(s, "address_space_object") \ {f}
         /\ FramesOf(t, "free") = FramesOf(s, "free") \cup {f}
<1>1. s \in Stores /\ "address_space_object" \in Usages /\ "free" \in Usages
  BY DEF HeapGood, Usages
<1>2. f \in FrameIds /\ s.frames[f] = "address_space_object"
  BY DEF FramesOf
<1>3. Extent(f, 1) = {f} /\ {f} \cap FrameIds = {f}
  BY <1>2, SinglesDiffer
<1>4. /\ FramesOf(t, "free") = FramesOf(s, "free") \cup {f}
      /\ \A u \in Usages : u # "free" => FramesOf(t, u) = FramesOf(s, u) \ {f}
  BY <1>1, <1>3, MarkedFrames
<1>5. \A u \in HeapOthers : u \in Usages /\ u # "address_space_object" /\ u # "free"
  BY DEF HeapOthers, Usages
<1>6. \A u \in HeapOthers : f \notin FramesOf(s, u)
  BY <1>2, <1>5 DEF FramesOf
<1>7. \A u \in HeapOthers : FramesOf(t, u) = FramesOf(s, u)
  BY <1>4, <1>5, <1>6
<1>8. FramesOf(t, "address_space_object") = FramesOf(s, "address_space_object") \ {f}
  <2>1. "address_space_object" # "free"
    OBVIOUS
  <2>2. QED BY <1>1, <1>4, <2>1
<1>9. QED BY <1>4, <1>7, <1>8

LEMMA ObjectGivesBlock ==
  ASSUME NEW s, HeapGood(s), NEW at \in BlocksInUse(s)
  PROVE  ObjectGiven(s, at, HeapFree(s, at))
<1> DEFINE p == HeapFree(s, at)
<1>1. s \in Stores /\ DOMAIN s.slabs = 1 .. MaxSlabPages
  BY DEF HeapGood, Stores
<1>2. PICK i \in SlabPages(s) : at \in BlocksOf(s.slabs[i])
  BY BlocksByPage
<1>3. PICK f, block : f = s.slabs[i].frame /\ at = <<f, block>>
  BY <1>2 DEF BlocksOf
<1>4. at[1] = f /\ at[2] = block
  BY <1>3
<1>5. SlabsAt(s, at) = {i}
  <2>1. \A j \in SlabPages(s) : s.slabs[j].frame = f => j = i
    BY <1>3 DEF HeapGood, SlabsGood
  <2>2. SlabsAt(s, at) = {j \in SlabPages(s) : s.slabs[j].frame = f}
    BY <1>4 DEF SlabsAt, SlabPages
  <2>3. QED BY <1>3, <2>1, <2>2
<1>6. Min(SlabsAt(s, at)) = i
  <2>1. i \in Nat
    BY <1>1, HeapNumbers DEF SlabPages
  <2>2. {i} \in SUBSET Nat /\ {i} # {}
    BY <2>1
  <2>3. Min({i}) \in {i}
    BY <2>2, MinOfNaturals
  <2>4. QED BY <1>5, <2>3
<1>7. p = FreeSlabAllocation(s, i, block)
  <2>1. SlabsAt(s, at) # {}
    BY <1>5
  <2>2. QED BY <1>4, <1>6, <2>1 DEF HeapFree
<1> HIDE DEF p
<1> DEFINE t == Given(s, i, block)
           b == s.slabs[i]
<1>8. <<s.slabs[i].frame, block>> \in BlocksOf(s.slabs[i])
  BY <1>2, <1>3
<1>9. /\ HeapGood(t) /\ t.frames = s.frames /\ SlabFrames(t) = SlabFrames(s) /\ Lone(t) = Lone(s)
      /\ SlabPages(t) = SlabPages(s) /\ t.active = s.active
      /\ t.slabs[i].frame = b.frame /\ t.slabs[i].class = b.class
      /\ t.slabs[i].free = <<block>> \o b.free
      /\ BlocksInUse(t) = BlocksInUse(s) \ {<<b.frame, block>>}
      /\ block \notin FreeBlocks(b) /\ b.class \in DOMAIN BlockSizes
      /\ Len(b.free) \in Nat /\ Len(b.free) < Blocks(b.class)
      /\ s.counts.slab # 0 /\ Len(t.slabs[i].free) = Len(b.free) + 1
      /\ FreeListGood(b.class, t.slabs[i].free)
  BY <1>8, BlockGiven
<1>10. t = [s EXCEPT !.slabs[i].free = <<block>> \o @, !.counts.slab = IF @ = 0 THEN 0 ELSE @ - 1]
  <2>1. s.counts.slab # 0
    BY <1>9
  <2>2. QED BY <1>1, <2>1 DEF Given, Relisted, Stores, Counts, SlabPages
<1> HIDE DEF t
<1>11. p = IF Len(b.free) + 1 = Blocks(b.class) THEN ReleaseEmptySlabPage(t, i)
           ELSE [ok |-> TRUE, store |-> t, pages |-> 0]
  <2>1. PICK n \in Nat : n = Blocks(b.class)
    BY <1>9, BlocksOfAPage
  <2>2. Len(b.free) # Blocks(b.class)
    BY <1>9, <2>1
  <2>3. block \notin FreeBlocks(s.slabs[i]) /\ Len(s.slabs[i].free) # Blocks(s.slabs[i].class)
    BY <1>9, <2>2
  <2>4. FreeSlabAllocation(s, i, block) =
          IF Len(s.slabs[i].free) + 1 = Blocks(s.slabs[i].class) THEN ReleaseEmptySlabPage(t, i)
          ELSE [ok |-> TRUE, store |-> t, pages |-> 0]
    BY <1>10, <2>3 DEF FreeSlabAllocation
  <2>5. QED BY <1>7, <2>4
<1>12. \A u : FramesOf(t, u) = FramesOf(s, u)
  BY <1>9 DEF FramesOf
<1>13. at \notin {<<g, 0>> : g \in Lone(s)}
  BY <1>3, <1>9 DEF Lone, SlabFrames
<1>14. Objects(t) = Objects(s) \ {at}
  BY <1>3, <1>9, <1>13 DEF Objects
<1>15. f \in FramesOf(s, "address_space_object")
  BY <1>3, HeapFramesAre DEF SlabFrames
<1>16. ObjectGiven(s, at, [ok |-> TRUE, store |-> t, pages |-> 0])
  BY <1>4, <1>9, <1>12, <1>14, <1>15 DEF ObjectGiven
<1>17. CASE Len(b.free) + 1 = Blocks(b.class) /\ ~(t.active[b.class] <= 1)
  <2>1. BlocksOf(t.slabs[i]) = {}
    <3>1. FreeBlocks(t.slabs[i]) = 0 .. Blocks(b.class) - 1
      <4>1. Len(t.slabs[i].free) = Blocks(b.class)
        BY <1>9, <1>17
      <4>2. QED BY <1>9, <4>1, FullListHasAll DEF FreeBlocks
    <3>2. QED BY <1>9, <3>1 DEF BlocksOf
  <2>2. i \in SlabPages(t)
    BY <1>9
  <2> DEFINE r == Closed(t, i)
  <2>3. /\ HeapGood(r) /\ BlocksInUse(r) = BlocksInUse(t) /\ Lone(r) = Lone(t)
        /\ r.frames = Marked(t.frames, f, 1, "free")
    BY <1>3, <1>9, <2>1, <2>2, PageClosed
  <2>4. f \in FrameIds /\ t.frames[f] = "address_space_object" /\ Extent(f, 1) = {f}
    BY <1>9, <1>15, SinglesDiffer DEF FramesOf
  <2>5. Release(t, f, 1) = [ok |-> TRUE, store |-> [t EXCEPT !.frames = Marked(t.frames, f, 1, "free")]]
    <3>1. t \in Stores
      BY <1>9 DEF HeapGood
    <3>2. QED BY <2>4, <3>1 DEF Release, Marked
  <2>6. ReleaseEmptySlabPage(t, i) = [ok |-> TRUE, pages |-> 1, store |-> r]
    <3>1. PICK g : g = Marked(t.frames, f, 1, "free")
      OBVIOUS
    <3>2. Release(t, f, 1).ok /\ Release(t, f, 1).store = [t EXCEPT !.frames = g]
      BY <2>5, <3>1
    <3>3. PICK class : class = b.class
      OBVIOUS
    <3>4. ReleaseEmptySlabPage(t, i) =
            [ok |-> TRUE, pages |-> 1,
             store |-> [[t EXCEPT !.frames = g] EXCEPT !.active[class] = @ - 1, !.counts.pages = @ - 1,
                                                      !.slabs[i] = NoSlab]]
      BY <1>3, <1>9, <1>17, <3>2, <3>3 DEF ReleaseEmptySlabPage
    <3>5. r = [t EXCEPT !.frames = g, !.slabs[i] = NoSlab, !.active[class] = @ - 1, !.counts.pages = @ - 1]
      BY <1>3, <1>9, <3>1, <3>3 DEF Closed
    <3>6. t \in Stores
      BY <1>9 DEF HeapGood
    <3> HIDE DEF r
    <3>7. [[t EXCEPT !.frames = g] EXCEPT !.active[class] = @ - 1, !.counts.pages = @ - 1,
                                         !.slabs[i] = NoSlab] = r
      BY <3>5, <3>6 DEF Stores
    <3>8. QED BY <3>4, <3>7
  <2> HIDE DEF r
  <2>7. p = [ok |-> TRUE, pages |-> 1, store |-> r]
    BY <1>11, <1>17, <2>6
  <2>8. /\ \A u \in HeapOthers : FramesOf(r, u) = FramesOf(t, u)
        /\ FramesOf(r, "free") = FramesOf(t, "free") \cup {f}
    BY <1>9, <1>12, <1>15, <2>3, OthersKeptFreeing
  <2>9. Objects(r) = Objects(t)
    BY <2>3 DEF Objects
  <2>10. QED BY <1>4, <1>12, <1>14, <1>15, <2>3, <2>7, <2>8, <2>9 DEF ObjectGiven, p
<1>18. CASE Len(b.free) + 1 = Blocks(b.class) /\ t.active[b.class] <= 1
  <2>1. ReleaseEmptySlabPage(t, i) = [ok |-> TRUE, store |-> t, pages |-> 0]
    BY <1>9, <1>18 DEF ReleaseEmptySlabPage
  <2>2. QED BY <1>11, <1>16, <1>18, <2>1 DEF p
<1>19. CASE Len(b.free) + 1 # Blocks(b.class)
  BY <1>11, <1>16, <1>19 DEF p
<1>20. QED BY <1>17, <1>18, <1>19

LEMMA ObjectGivesMemory ==
  ASSUME NEW s, HeapGood(s), NEW at \in Objects(s)
  PROVE  ObjectGiven(s, at, HeapFree(s, at))
<1>1. CASE at \in BlocksInUse(s)
  BY <1>1, ObjectGivesBlock
<1>2. ASSUME NEW f \in Lone(s), at = <<f, 0>>
      PROVE  ObjectGiven(s, at, HeapFree(s, at))
  <2> DEFINE p == HeapFree(s, at)
  <2>1. /\ p.ok /\ p.pages = 1 /\ HeapGood(p.store) /\ p.store.slabs = s.slabs
        /\ p.store.frames = Marked(s.frames, f, 1, "free")
    BY <1>2, LargeGivesPage
  <2>2. p.ok = TRUE
    BY <1>2, <2>1 DEF HeapFree
  <2> HIDE DEF p
  <2>3. f \in FramesOf(s, "address_space_object") /\ f \notin SlabFrames(s)
    BY DEF Lone
  <2>4. /\ \A u \in HeapOthers : FramesOf(p.store, u) = FramesOf(s, u)
        /\ FramesOf(p.store, "address_space_object") = FramesOf(s, "address_space_object") \ {f}
        /\ FramesOf(p.store, "free") = FramesOf(s, "free") \cup {f}
    BY <2>1, <2>3, OthersKeptFreeing
  <2>5. SlabFrames(p.store) = SlabFrames(s) /\ BlocksInUse(p.store) = BlocksInUse(s)
    BY <2>1, SameSlabs
  <2>6. Lone(p.store) = Lone(s) \ {f}
    BY <2>4, <2>5 DEF Lone
  <2>7. at \notin BlocksInUse(s)
    BY <1>2, <2>3, BlocksByPage
  <2>8. \A g \in Lone(s) : <<g, 0>> = <<f, 0>> => g = f
    OBVIOUS
  <2>9. Objects(p.store) = Objects(s) \ {at}
    BY <1>2, <2>5, <2>6, <2>7, <2>8 DEF Objects
  <2>10. at[1] = f
    BY <1>2
  <2>11. QED BY <2>1, <2>2, <2>3, <2>4, <2>9, <2>10 DEF ObjectGiven, p
<1>3. QED BY <1>1, <1>2 DEF Objects

-----------------------------------------------------------------------------
(* Spaces: what the values of an object are.                               *)

Partial(D, R) == UNION {[S -> R] : S \in SUBSET D}

NodeIds == (1 .. Levels) \X Nat
PageBits == AllowedFlags \cup {"gap"}
Leaves == [frame : Nat, flags : SUBSET PageBits]
Regions == [base : Nat, count : Nat, type : Parts, backing : Nat]
PartRecords == [frame : Nat, base : Nat, count : Nat, entry : Nat]
Spaces == [root : FrameIds, nodes : Partial(NodeIds, FrameIds), leaves : Partial(Nat, Leaves),
           regions : Seq(Regions), parts : [Parts -> PartRecords], has : SUBSET Parts]

LEMMA PartialIs ==
  ASSUME NEW D, NEW R, NEW f
  PROVE  f \in Partial(D, R) <=>
           f = [k \in DOMAIN f |-> f[k]] /\ DOMAIN f \subseteq D /\ \A k \in DOMAIN f : f[k] \in R
<1>1. ASSUME f \in Partial(D, R)
      PROVE  f = [k \in DOMAIN f |-> f[k]] /\ DOMAIN f \subseteq D /\ \A k \in DOMAIN f : f[k] \in R
  <2>1. PICK S \in SUBSET D : f \in [S -> R]
    BY <1>1 DEF Partial
  <2>2. DOMAIN f = S
    BY <2>1
  <2>3. QED BY <2>1, <2>2
<1>2. ASSUME f = [k \in DOMAIN f |-> f[k]], DOMAIN f \subseteq D, \A k \in DOMAIN f : f[k] \in R
      PROVE  f \in Partial(D, R)
  <2>1. f \in [DOMAIN f -> R]
    BY <1>2
  <2>2. QED BY <1>2, <2>1 DEF Partial
<1>3. QED BY <1>1, <1>2

PutsInto(D, R, f, key, value) ==
  /\ Put(f, key, value) \in Partial(D, R)
  /\ DOMAIN Put(f, key, value) = DOMAIN f \cup {key}
  /\ \A k \in DOMAIN f \cup {key} :
       Put(f, key, value)[k] = IF k = key THEN value ELSE f[k]

LEMMA PutIsPartial ==
  ASSUME NEW D, NEW R, NEW f \in Partial(D, R), NEW key \in D, NEW value \in R
  PROVE  PutsInto(D, R, f, key, value)
<1>1. DOMAIN f \subseteq D /\ \A k \in DOMAIN f : f[k] \in R
  BY PartialIs
<1>2. PICK S : S = DOMAIN f \cup {key}
  OBVIOUS
<1>3. Put(f, key, value) = [k \in S |-> IF k = key THEN value ELSE f[k]]
  BY <1>2 DEF Put
<1>4. \A k \in S : (IF k = key THEN value ELSE f[k]) \in R
  BY <1>1, <1>2
<1>5. Put(f, key, value) \in [S -> R]
  BY <1>3, <1>4
<1>6. S \in SUBSET D
  BY <1>1, <1>2
<1>7. QED BY <1>2, <1>3, <1>5, <1>6 DEF Partial, PutsInto

LeftWithout(D, R, f, keys, w) ==
  /\ w \in Partial(D, R) /\ DOMAIN w = DOMAIN f \ keys
  /\ \A k \in DOMAIN f \ keys : w[k] = f[k]

LEMMA WithoutIsPartial ==
  ASSUME NEW D, NEW R, NEW f \in Partial(D, R), NEW keys
  PROVE  LeftWithout(D, R, f, keys, Without(f, keys))
<1>1. DOMAIN f \subseteq D /\ \A k \in DOMAIN f : f[k] \in R
  BY PartialIs
<1>2. Without(f, keys) = [k \in DOMAIN f \ keys |-> f[k]]
  BY DEF Without
<1>3. Without(f, keys) \in [DOMAIN f \ keys -> R]
  BY <1>1, <1>2
<1>4. DOMAIN f \ keys \in SUBSET D
  BY <1>1
<1>5. QED BY <1>2, <1>3, <1>4 DEF Partial, LeftWithout

LEMMA SpaceFields ==
  ASSUME NEW sp \in Spaces
  PROVE  /\ sp.root \in FrameIds /\ sp.nodes \in Partial(NodeIds, FrameIds)
         /\ sp.leaves \in Partial(Nat, Leaves) /\ sp.regions \in Seq(Regions)
         /\ sp.parts \in [Parts -> PartRecords] /\ sp.has \in SUBSET Parts
         /\ sp = [root |-> sp.root, nodes |-> sp.nodes, leaves |-> sp.leaves,
                  regions |-> sp.regions, parts |-> sp.parts, has |-> sp.has]
BY DEF Spaces

-----------------------------------------------------------------------------
(* The frames of a space, and of the others (rest).                        *)

SpaceUsages == {"page_table", "service_image", "service_stack"}
TableFrames(sp) == {sp.root} \cup {sp.nodes[n] : n \in DOMAIN sp.nodes}
Own(sp, usage) ==
  IF usage = "page_table" THEN TableFrames(sp)
  ELSE PartFrames(sp, IF usage = "service_image" THEN "image" ELSE "stack")

(* No two tables of a space share a frame.                                 *)
TablesApart(sp) ==
  /\ \A n \in DOMAIN sp.nodes : sp.nodes[n] # sp.root
  /\ \A m, n \in DOMAIN sp.nodes : sp.nodes[m] = sp.nodes[n] => m = n

Held(s, sp, rest) ==
  /\ HeapGood(s) /\ sp \in Spaces /\ TablesApart(sp)
  /\ \A u \in SpaceUsages : FramesOf(s, u) = rest[u] \cup Own(sp, u) /\ rest[u] \cap Own(sp, u) = {}

(* Nothing but the tables and what they map differs.                       *)
TablesOnly(sp, t) ==
  t.root = sp.root /\ t.regions = sp.regions /\ t.parts = sp.parts /\ t.has = sp.has

(* What a mapping goes through.                                            *)
Walks(objects, rest, sp) ==
  {x \in [ok : BOOLEAN, store : Stores, space : Spaces] :
     Held(x.store, x.space, rest) /\ Objects(x.store) = objects /\ TablesOnly(sp, x.space)}

LEMMA ChildTableEnsured ==
  ASSUME NEW objects, NEW rest, NEW sp \in Spaces, NEW x \in Walks(objects, rest, sp), NEW node \in NodeIds
  PROVE  LET y == EnsureChildTable(x, node) IN
         /\ y \in Walks(objects, rest, sp) /\ y.space.leaves = x.space.leaves
         /\ ~x.ok => y = x
<1> DEFINE y == EnsureChildTable(x, node)
           page == HeapAllocatePage(x.store, "page_table")
<1>1. /\ x \in [ok : BOOLEAN, store : Stores, space : Spaces]
      /\ Held(x.store, x.space, rest) /\ Objects(x.store) = objects /\ TablesOnly(sp, x.space)
  BY DEF Walks
<1>2. PICK s \in Stores, z \in Spaces : s = x.store /\ z = x.space
  BY <1>1
<1>3. HeapGood(s) /\ TablesApart(z)
      /\ \A u \in SpaceUsages : FramesOf(s, u) = rest[u] \cup Own(z, u) /\ rest[u] \cap Own(z, u) = {}
  BY <1>1, <1>2 DEF Held
<1>4. /\ page.ok \in BOOLEAN
      /\ ~page.ok => page.store = s
      /\ page.ok => /\ page.at[1] \in FramesOf(s, "free") /\ page.at = <<page.at[1], 0>>
                    /\ HeapGood(page.store) /\ Objects(page.store) = Objects(s)
                    /\ FramesOf(page.store, "page_table") = FramesOf(s, "page_table") \cup {page.at[1]}
                    /\ \A u \in Usages : u # "page_table" /\ u # "free" => FramesOf(page.store, u) = FramesOf(s, u)
                    /\ FramesOf(page.store, "free") = FramesOf(s, "free") \ {page.at[1]}
  BY <1>2, <1>3, TableTakesPage
<1> HIDE DEF page
<1>5. CASE ~x.ok \/ node \in DOMAIN z.nodes
  <2>1. y = x
    BY <1>2, <1>5 DEF EnsureChildTable
  <2>2. QED BY <2>1
<1>6. CASE x.ok /\ node \notin DOMAIN z.nodes /\ ~page.ok
  <2>1. y = [x EXCEPT !.ok = FALSE]
    BY <1>2, <1>6 DEF EnsureChildTable, page
  <2>2. y.ok = FALSE /\ y.store = s /\ y.space = z /\ y \in [ok : BOOLEAN, store : Stores, space : Spaces]
    BY <1>1, <1>2, <2>1
  <2> HIDE DEF y
  <2>3. y \in Walks(objects, rest, sp)
    BY <1>1, <1>2, <2>2 DEF Walks
  <2>4. QED BY <1>2, <1>6, <2>2, <2>3 DEF y
<1>7. CASE x.ok /\ node \notin DOMAIN z.nodes /\ page.ok
  <2>1. PICK f \in FrameIds : f = page.at[1] /\ s.frames[f] = "free"
    BY <1>4, <1>7 DEF FramesOf
  <2>2. PICK nodes : nodes = Put(z.nodes, node, f)
    OBVIOUS
  <2>3. y = [x EXCEPT !.store = page.store, !.space.nodes = nodes]
    BY <1>2, <1>7, <2>1, <2>2 DEF EnsureChildTable, page
  <2>4. PICK w : w = [z EXCEPT !.nodes = nodes]
    OBVIOUS
  <2>5. y = [ok |-> x.ok, store |-> page.store, space |-> w]
    BY <1>1, <1>2, <2>3, <2>4
  <2> HIDE DEF y
  <2>6. /\ nodes \in Partial(NodeIds, FrameIds) /\ DOMAIN nodes = DOMAIN z.nodes \cup {node}
        /\ \A k \in DOMAIN z.nodes \cup {node} : nodes[k] = IF k = node THEN f ELSE z.nodes[k]
    <3>1. z.nodes \in Partial(NodeIds, FrameIds)
      BY SpaceFields
    <3>2. PutsInto(NodeIds, FrameIds, z.nodes, node, f)
      BY <3>1, PutIsPartial
    <3>3. QED BY <2>2, <3>2 DEF PutsInto
  <2>7. /\ w.root = z.root /\ w.nodes = nodes /\ w.leaves = z.leaves /\ w.regions = z.regions
        /\ w.parts = z.parts /\ w.has = z.has
        /\ w = [root |-> z.root, nodes |-> nodes, leaves |-> z.leaves,
                regions |-> z.regions, parts |-> z.parts, has |-> z.has]
    BY <2>4, SpaceFields
  <2>8. w \in Spaces
    BY <2>6, <2>7, SpaceFields DEF Spaces
  <2>9. page.store \in Stores
    BY <1>4, <1>7 DEF HeapGood
  <2>10. TableFrames(w) = TableFrames(z) \cup {f}
    BY <1>7, <2>6, <2>7 DEF TableFrames
  <2>11. \A u \in SpaceUsages : f \notin FramesOf(s, u)
    BY <2>1 DEF FramesOf, SpaceUsages
  <2>12. f \notin TableFrames(z) /\ f \notin rest["page_table"]
    BY <1>3, <2>11 DEF Own, SpaceUsages
  <2>13. TablesApart(w)
    BY <1>3, <1>7, <2>6, <2>7, <2>12 DEF TablesApart, TableFrames
  <2>14. ASSUME NEW u \in SpaceUsages
         PROVE  FramesOf(page.store, u) = rest[u] \cup Own(w, u) /\ rest[u] \cap Own(w, u) = {}
    <3>1. CASE u = "page_table"
      BY <1>3, <1>4, <1>7, <2>1, <2>10, <2>12, <3>1 DEF Own, SpaceUsages
    <3>2. CASE u # "page_table"
      <4>1. u \in Usages /\ u # "free"
        BY DEF SpaceUsages, Usages
      <4>2. Own(w, u) = Own(z, u)
        BY <2>7, <3>2 DEF Own, PartFrames
      <4>3. QED BY <1>3, <1>4, <1>7, <3>2, <4>1, <4>2
    <3>3. QED BY <3>1, <3>2
  <2>15. Held(page.store, w, rest)
    BY <1>4, <1>7, <2>8, <2>13, <2>14 DEF Held
  <2>16. TablesOnly(sp, w)
    BY <1>1, <1>2, <2>7 DEF TablesOnly
  <2>17. y \in Walks(objects, rest, sp)
    BY <1>1, <1>2, <1>4, <1>7, <2>5, <2>8, <2>9, <2>15, <2>16 DEF Walks
  <2>18. QED BY <1>2, <1>7, <2>5, <2>7, <2>17 DEF y
<1>8. QED BY <1>2, <1>4, <1>5, <1>6, <1>7

-----------------------------------------------------------------------------
(* Mapping a page: the tables on its way, then the entry.                  *)

(* What comes of x when only tables are added.                             *)
WithTables(objects, rest, sp, x) ==
  {y \in Walks(objects, rest, sp) : y.space.leaves = x.space.leaves /\ (~x.ok => y = x)}

LEMMA MoreTables ==
  ASSUME NEW objects, NEW rest, NEW sp \in Spaces, NEW x \in Walks(objects, rest, sp),
         NEW y \in WithTables(objects, rest, sp, x), NEW node \in NodeIds
  PROVE  EnsureChildTable(y, node) \in WithTables(objects, rest, sp, x)
<1>1. y \in Walks(objects, rest, sp) /\ y.space.leaves = x.space.leaves /\ (~x.ok => y = x)
  BY DEF WithTables
<1>2. PICK z : z = EnsureChildTable(y, node)
  OBVIOUS
<1>3. z \in Walks(objects, rest, sp) /\ z.space.leaves = y.space.leaves /\ (~y.ok => z = y)
  BY <1>1, <1>2, ChildTableEnsured
<1>4. QED BY <1>1, <1>2, <1>3 DEF WithTables

LEMMA TablesEnsured ==
  ASSUME NEW objects, NEW rest, NEW sp \in Spaces, NEW x \in Walks(objects, rest, sp),
         NEW s \in Seq(NodeIds)
  PROVE  FoldLeft(EnsureChildTable, x, s) \in WithTables(objects, rest, sp, x)
<1> DEFINE R == WithTables(objects, rest, sp, x)
           n == Len(s)
           F == [t \in R |-> [g \in NodeIds |-> EnsureChildTable(t, g)]]
           Folded(it) == it = [z \in SUBSET (DOMAIN s) |->
                                 IF z = {} THEN x ELSE EnsureChildTable(it[z \ {Max(z)}], s[Max(z)])]
           fold == CHOOSE it : Folded(it)
<1>1. n \in Nat /\ DOMAIN s = 1 .. n /\ (\A i \in 1 .. n : s[i] \in NodeIds)
  OBVIOUS
<1>2. x \in R
  BY DEF WithTables
<1>3. \A t \in R, g \in NodeIds : EnsureChildTable(t, g) \in R
  BY MoreTables
<1> HIDE DEF R
<1>4. \E it : Folded(it)
  <2>1. F \in [R -> [NodeIds -> R]]
    BY <1>3
  <2>2. PICK it : FoldsWithin(R, NodeIds, F, x, s, it)
    <3> HIDE DEF F
    <3>1. QED BY <1>2, <2>1, FoldValues
  <2>3. Folded(it)
    <3>1. \A t \in R, g \in NodeIds : F[t][g] = EnsureChildTable(t, g)
      OBVIOUS
    <3> HIDE DEF F
    <3>2. \A z \in SUBSET (DOMAIN s) :
            z # {} => F[it[z \ {Max(z)}]][s[Max(z)]] = EnsureChildTable(it[z \ {Max(z)}], s[Max(z)])
      BY <2>2, <3>1 DEF FoldsWithin
    <3>3. QED BY <2>2, <3>2 DEF FoldsWithin, Folds
  <2>4. QED BY <2>3
<1>5. Folded(fold)
  <2> HIDE DEF Folded
  <2>1. QED BY <1>4
<1>6. FoldLeft(EnsureChildTable, x, s) = fold[1 .. n]
  BY <1>1, Zenon DEF FoldLeft, MapThenFoldSet
<1>7. fold[{}] = x /\ \A k \in 1 .. n : fold[1 .. k] = EnsureChildTable(fold[1 .. k - 1], s[k])
  <2> HIDE DEF fold
  <2>1. fold[{}] = x
    BY <1>5
  <2>2. ASSUME NEW k \in 1 .. n
        PROVE  fold[1 .. k] = EnsureChildTable(fold[1 .. k - 1], s[k])
    <3>1. 1 .. k \in SUBSET (DOMAIN s) /\ 1 .. k # {}
          /\ Max(1 .. k) = k /\ (1 .. k) \ {k} = 1 .. k - 1
      BY <1>1, FoldPrefixes
    <3>2. QED BY <1>5, <3>1
  <2>3. QED BY <2>1, <2>2
<1> HIDE DEF fold
<1>8. \A k \in 0 .. n : fold[1 .. k] \in R
  <2> DEFINE Typed == {k \in 0 .. n : fold[1 .. k] \in R}
  <2>1. 0 \in Typed
    BY <1>1, <1>2, <1>7, FoldPrefixes
  <2>2. \A k \in 1 .. n : k - 1 \in Typed => k \in Typed
    BY <1>1, <1>3, <1>7
  <2>3. \A k \in 0 .. n : k \in Typed
    <3> HIDE DEF Typed
    <3>1. QED BY <1>1, <2>1, <2>2, NatInductionSet
  <2>4. QED BY <2>3
<1>9. QED BY <1>1, <1>6, <1>8 DEF R

LEMMA WayDown ==
  ASSUME NEW v \in Nat
  PROVE  [i \in 1 .. Levels |-> Node(Levels + 1 - i, v)] \in Seq(NodeIds)
<1>1. Levels \in Nat /\ TableSpans \in [1 .. Levels -> Nat \ {0}]
  BY SpacesAssumption DEF Levels
<1>2. ASSUME NEW i \in 1 .. Levels
      PROVE  Node(Levels + 1 - i, v) \in NodeIds
  <2>1. PICK l \in 1 .. Levels : l = Levels + 1 - i
    BY <1>1
  <2>2. PICK span \in Nat \ {0} : span = TableSpans[l]
    BY <1>1
  <2>3. v \div span \in Nat
    OBVIOUS
  <2>4. QED BY <2>1, <2>2, <2>3 DEF Node, NodeIds
<1>3. QED BY <1>1, <1>2

LEMMA EntryFrameIs ==
  ASSUME NEW frame \in Nat
  PROVE  EntryFrame(frame) \in Nat
BY SpacesAssumption DEF EntryFrame

LEMMA PageMapped ==
  ASSUME NEW objects, NEW rest, NEW sp \in Spaces, NEW x \in Walks(objects, rest, sp),
         NEW v \in Nat, NEW frame \in Nat, NEW flags \in SUBSET PageBits
  PROVE  LET y == MapPage(x, v, frame, flags) IN
         /\ y \in Walks(objects, rest, sp)
         /\ y.ok => /\ x.ok /\ v \notin DOMAIN x.space.leaves
                    /\ y.space.leaves = Put(x.space.leaves, v,
                                            [frame |-> EntryFrame(frame), flags |-> flags])
         /\ ~y.ok => y.space.leaves = x.space.leaves
<1> DEFINE y == MapPage(x, v, frame, flags)
<1>1. PICK down : down = FoldLeft(EnsureChildTable, x, [i \in 1 .. Levels |-> Node(Levels + 1 - i, v)])
  OBVIOUS
<1>2. down \in WithTables(objects, rest, sp, x)
  BY <1>1, WayDown, TablesEnsured
<1>3. down \in Walks(objects, rest, sp) /\ down.space.leaves = x.space.leaves /\ (~x.ok => down = x)
  BY <1>2 DEF WithTables
<1>4. /\ down \in [ok : BOOLEAN, store : Stores, space : Spaces]
      /\ Held(down.store, down.space, rest) /\ Objects(down.store) = objects
      /\ TablesOnly(sp, down.space)
  BY <1>3 DEF Walks
<1>5. y = IF ~x.ok \/ ~down.ok THEN down
          ELSE IF v \in DOMAIN down.space.leaves THEN [down EXCEPT !.ok = FALSE]
          ELSE [down EXCEPT !.space.leaves =
                  Put(@, v, [frame |-> EntryFrame(frame), flags |-> flags])]
  BY <1>1 DEF MapPage
<1> HIDE DEF y
<1>6. CASE ~x.ok \/ ~down.ok
  BY <1>3, <1>5, <1>6 DEF y
<1>7. CASE x.ok /\ down.ok /\ v \in DOMAIN down.space.leaves
  <2>1. y.ok = FALSE /\ y.store = down.store /\ y.space = down.space
        /\ y \in [ok : BOOLEAN, store : Stores, space : Spaces]
    BY <1>4, <1>5, <1>7
  <2>2. y \in Walks(objects, rest, sp)
    BY <1>4, <2>1 DEF Walks
  <2>3. QED BY <1>3, <2>1, <2>2 DEF y
<1>8. CASE x.ok /\ down.ok /\ v \notin DOMAIN down.space.leaves
  <2>1. PICK s \in Stores, z \in Spaces : s = down.store /\ z = down.space
    BY <1>4
  <2>2. PICK leaf : leaf = [frame |-> EntryFrame(frame), flags |-> flags]
    OBVIOUS
  <2>3. leaf \in Leaves
    BY <2>2, EntryFrameIs DEF Leaves
  <2>4. PICK leaves : leaves = Put(z.leaves, v, leaf)
    OBVIOUS
  <2>5. PICK w : w = [z EXCEPT !.leaves = leaves]
    OBVIOUS
  <2>6. y = [down EXCEPT !.space.leaves = leaves]
    BY <1>5, <1>8, <2>1, <2>2, <2>4
  <2>7. y = [ok |-> TRUE, store |-> s, space |-> w]
    BY <1>4, <1>8, <2>1, <2>5, <2>6
  <2>8. /\ w.root = z.root /\ w.nodes = z.nodes /\ w.leaves = leaves /\ w.regions = z.regions
        /\ w.parts = z.parts /\ w.has = z.has
        /\ w = [root |-> z.root, nodes |-> z.nodes, leaves |-> leaves,
                regions |-> z.regions, parts |-> z.parts, has |-> z.has]
    BY <2>5, SpaceFields
  <2>9. leaves \in Partial(Nat, Leaves)
    <3>1. PutsInto(Nat, Leaves, z.leaves, v, leaf)
      BY <2>3, SpaceFields, PutIsPartial
    <3>2. QED BY <2>4, <3>1 DEF PutsInto
  <2>10. w \in Spaces
    BY <2>8, <2>9, SpaceFields DEF Spaces
  <2>11. TablesApart(w)
    BY <1>4, <2>1, <2>8 DEF Held, TablesApart
  <2>12. \A u : Own(w, u) = Own(z, u)
    BY <2>8 DEF Own, PartFrames, TableFrames
  <2>13. Held(s, w, rest)
    BY <1>4, <2>1, <2>10, <2>11, <2>12 DEF Held
  <2>14. TablesOnly(sp, w)
    BY <1>4, <2>1, <2>8 DEF TablesOnly
  <2>15. y \in Walks(objects, rest, sp)
    BY <1>4, <2>1, <2>7, <2>10, <2>13, <2>14 DEF Walks
  <2>16. y.ok /\ y.space.leaves = Put(x.space.leaves, v, leaf) /\ v \notin DOMAIN x.space.leaves
    BY <1>3, <1>8, <2>1, <2>4, <2>7, <2>8
  <2>17. QED BY <1>8, <2>2, <2>15, <2>16 DEF y
<1>9. QED BY <1>4, <1>6, <1>7, <1>8

-----------------------------------------------------------------------------
(* Mapping a range: what is mapped in the end is a part of it from its     *)
(* first page on, and all of it when the mapping has succeeded.            *)

Grown(old, new, base, k) ==
  /\ DOMAIN new = DOMAIN old \cup Extent(base, k)
  /\ DOMAIN old \cap Extent(base, k) = {}

MapStep(y, base, frame, bits, i) == MapPage(y, base + i - 1, frame + i - 1, bits[i])

MapRun(x, base, frame, bits, f) ==
  /\ f[0] = x /\ MapPagesInto(x, base, frame, bits) = f[Len(bits)]
  /\ \A k \in 1 .. Len(bits) : f[k] = MapStep(f[k - 1], base, frame, bits, k)

MappedPage(y, z, base, frame, bits, i) ==
  /\ z.ok => /\ y.ok /\ base + i - 1 \notin DOMAIN y.space.leaves
             /\ z.space.leaves = Put(y.space.leaves, base + i - 1,
                                     [frame |-> EntryFrame(frame + i - 1), flags |-> bits[i]])
  /\ ~z.ok => z.space.leaves = y.space.leaves

LEMMA ElementOf ==
  ASSUME NEW D, NEW s \in Seq(D), NEW i \in 1 .. Len(s)
  PROVE  s[i] \in D
OBVIOUS

LEMMA MapStepIs ==
  ASSUME NEW objects, NEW rest, NEW sp \in Spaces, NEW y \in Walks(objects, rest, sp),
         NEW base \in Nat, NEW frame \in Nat, NEW bits \in Seq(SUBSET PageBits),
         NEW i \in 1 .. Len(bits)
  PROVE  LET z == MapStep(y, base, frame, bits, i) IN
         z \in Walks(objects, rest, sp) /\ MappedPage(y, z, base, frame, bits, i)
<1>1. PICK v, f \in Nat : v = base + i - 1 /\ f = frame + i - 1
  OBVIOUS
<1>2. PICK flags \in SUBSET PageBits : flags = bits[i]
  <2>1. bits[i] \in SUBSET PageBits
    BY ElementOf
  <2>2. QED BY <2>1
<1>3. MapStep(y, base, frame, bits, i) = MapPage(y, v, f, flags)
  BY <1>1, <1>2 DEF MapStep
<1>4. PICK z : z = MapPage(y, v, f, flags)
  OBVIOUS
<1>5. /\ z \in Walks(objects, rest, sp)
      /\ z.ok => /\ y.ok /\ v \notin DOMAIN y.space.leaves
                 /\ z.space.leaves = Put(y.space.leaves, v, [frame |-> EntryFrame(f), flags |-> flags])
      /\ ~z.ok => z.space.leaves = y.space.leaves
  BY <1>4, PageMapped
<1>6. QED BY <1>1, <1>2, <1>3, <1>4, <1>5 DEF MappedPage

LEMMA MapRuns ==
  ASSUME NEW objects, NEW rest, NEW sp \in Spaces, NEW x \in Walks(objects, rest, sp),
         NEW base \in Nat, NEW frame \in Nat, NEW bits \in Seq(SUBSET PageBits)
  PROVE  \E f : MapRun(x, base, frame, bits, f)
                /\ \A k \in 0 .. Len(bits) : f[k] \in Walks(objects, rest, sp)
<1> DEFINE R == Walks(objects, rest, sp)
           n == Len(bits)
           s == [i \in 1 .. n |-> i]
           F == [t \in R |-> [i \in 1 .. n |-> MapStep(t, base, frame, bits, i)]]
           Folded(it) == it = [z \in SUBSET (DOMAIN s) |->
                                 IF z = {} THEN x
                                 ELSE MapStep(it[z \ {Max(z)}], base, frame, bits, s[Max(z)])]
           fold == CHOOSE it : Folded(it)
           f == [k \in 0 .. n |-> fold[1 .. k]]
<1>1. n \in Nat /\ DOMAIN s = 1 .. n /\ (\A i \in 1 .. n : s[i] = i) /\ s \in Seq(1 .. n) /\ Len(s) = n
  OBVIOUS
<1>3. \A t \in R, i \in 1 .. n : MapStep(t, base, frame, bits, i) \in R
  BY MapStepIs
<1> HIDE DEF R
<1>2. x \in R
  BY DEF R
<1>4. \E it : Folded(it)
  <2>1. F \in [R -> [1 .. n -> R]]
    BY <1>3
  <2>2. PICK it : FoldsWithin(R, 1 .. n, F, x, s, it)
    <3> HIDE DEF F, s
    <3>1. QED BY <1>1, <1>2, <2>1, FoldValues
  <2>3. Folded(it)
    <3>1. \A t \in R, i \in 1 .. n : F[t][i] = MapStep(t, base, frame, bits, i)
      OBVIOUS
    <3> HIDE DEF F, s
    <3>2. \A z \in SUBSET (DOMAIN s) :
            z # {} => F[it[z \ {Max(z)}]][s[Max(z)]]
                        = MapStep(it[z \ {Max(z)}], base, frame, bits, s[Max(z)])
      BY <2>2, <3>1 DEF FoldsWithin
    <3>3. QED BY <2>2, <3>2 DEF FoldsWithin, Folds
  <2>4. QED BY <2>3
<1>5. Folded(fold)
  <2> HIDE DEF Folded
  <2>1. QED BY <1>4
<1>6. MapPagesInto(x, base, frame, bits) = fold[DOMAIN s]
  BY Zenon DEF MapPagesInto, FoldLeft, MapThenFoldSet, MapStep
<1>7. fold[{}] = x /\ \A k \in 1 .. n : fold[1 .. k] = MapStep(fold[1 .. k - 1], base, frame, bits, k)
  <2> HIDE DEF fold
  <2>1. fold[{}] = x
    BY <1>5
  <2>2. ASSUME NEW k \in 1 .. n
        PROVE  fold[1 .. k] = MapStep(fold[1 .. k - 1], base, frame, bits, k)
    <3> HIDE DEF s
    <3>1. 1 .. k \in SUBSET (DOMAIN s) /\ 1 .. k # {}
          /\ Max(1 .. k) = k /\ (1 .. k) \ {k} = 1 .. k - 1
      <4>1. PICK m \in Nat : m = n
        BY <1>1
      <4>2. k \in 1 .. m /\ DOMAIN s = 1 .. m
        BY <1>1, <4>1
      <4>3. \A j \in 1 .. m : /\ 1 .. j \in SUBSET (1 .. m) /\ 1 .. j # {}
                              /\ Max(1 .. j) = j /\ (1 .. j) \ {j} = 1 .. j - 1
        BY ONLY m \in Nat, FoldPrefixes
      <4>4. QED BY <4>2, <4>3
    <3>2. QED BY <1>1, <1>5, <3>1
  <2>3. QED BY <2>1, <2>2
<1> HIDE DEF fold, s
<1>8. \A k \in 0 .. n : fold[1 .. k] \in R
  <2> DEFINE Typed == {k \in 0 .. n : fold[1 .. k] \in R}
  <2>1. 0 \in Typed
    BY <1>1, <1>2, <1>7, FoldPrefixes
  <2>2. \A k \in 1 .. n : k - 1 \in Typed => k \in Typed
    BY <1>1, <1>3, <1>7
  <2>3. \A k \in 0 .. n : k \in Typed
    <3> HIDE DEF Typed
    <3>1. QED BY <1>1, <2>1, <2>2, NatInductionSet
  <2>4. QED BY <2>3
<1>9. MapRun(x, base, frame, bits, f)
  <2>1. f[0] = x
    BY <1>1, <1>7, FoldPrefixes
  <2>2. ASSUME NEW k \in 1 .. n
        PROVE  f[k] = MapStep(f[k - 1], base, frame, bits, k)
    <3>1. k \in 0 .. n /\ k - 1 \in 0 .. n
      BY <1>1
    <3>2. QED BY <1>7, <3>1
  <2>3. MapPagesInto(x, base, frame, bits) = f[n]
    BY <1>1, <1>6
  <2>4. QED BY <2>1, <2>2, <2>3 DEF MapRun
<1>10. \A k \in 0 .. n : f[k] \in Walks(objects, rest, sp)
  BY <1>8 DEF R
<1>11. QED BY <1>9, <1>10

LEMMA GrownByOne ==
  ASSUME NEW old, NEW mid \in Partial(Nat, Leaves), NEW base \in Nat, NEW k \in Nat, k > 0,
         Grown(old, mid, base, k - 1), base + k - 1 \notin DOMAIN mid,
         NEW leaf \in Leaves, NEW new, new = Put(mid, base + k - 1, leaf)
  PROVE  Grown(old, new, base, k)
<1>1. PICK v \in Nat : v = base + k - 1
  OBVIOUS
<1>2. PutsInto(Nat, Leaves, mid, v, leaf)
  BY PutIsPartial
<1>3. DOMAIN new = DOMAIN mid \cup {v}
  BY <1>1, <1>2 DEF PutsInto
<1>4. Extent(base, k) = Extent(base, k - 1) \cup {v} /\ v \notin Extent(base, k - 1)
  BY <1>1 DEF Extent
<1>5. DOMAIN mid = DOMAIN old \cup Extent(base, k - 1) /\ DOMAIN old \cap Extent(base, k - 1) = {}
  BY DEF Grown
<1>6. v \notin DOMAIN mid
  BY <1>1
<1>7. QED BY <1>3, <1>4, <1>5, <1>6 DEF Grown

(* Some first pages of n, all of them when it went well.                   *)
MappedPart(x, y, base, n) ==
  \E k \in Nat :
     /\ Grown(x.space.leaves, y.space.leaves, base, k)
     /\ y.ok => k = n
     /\ ~y.ok => k < n

LEMMA PagesMapped ==
  ASSUME NEW objects, NEW rest, NEW sp \in Spaces, NEW x \in Walks(objects, rest, sp), x.ok,
         NEW base \in Nat, NEW frame \in Nat, NEW bits \in Seq(SUBSET PageBits)
  PROVE  LET y == MapPagesInto(x, base, frame, bits) IN
         /\ y \in Walks(objects, rest, sp)
         /\ MappedPart(x, y, base, Len(bits))
<1> DEFINE n == Len(bits)
           old == x.space.leaves
           Up(z, k) == \E j \in Nat : /\ Grown(old, z.space.leaves, base, j)
                                      /\ z.ok => j = k
                                      /\ ~z.ok => j < k
<1>1. PICK f : MapRun(x, base, frame, bits, f) /\ \A k \in 0 .. n : f[k] \in Walks(objects, rest, sp)
  BY MapRuns
<1>2. n \in Nat
  OBVIOUS
<1>3. ASSUME NEW y \in Walks(objects, rest, sp)
      PROVE  y.space.leaves \in Partial(Nat, Leaves) /\ y.ok \in BOOLEAN
  <2>1. y.space \in Spaces /\ y.ok \in BOOLEAN
    BY DEF Walks
  <2>2. QED BY <2>1, SpaceFields
<1> DEFINE Ups == {k \in 0 .. n : Up(f[k], k)}
<1>4. 0 \in Ups
  <2>1. Extent(base, 0) = {}
    BY DEF Extent
  <2>2. Grown(old, old, base, 0)
    BY <2>1 DEF Grown
  <2>3. f[0] = x
    BY <1>1 DEF MapRun
  <2>4. Up(f[0], 0)
    BY <2>2, <2>3
  <2>5. QED BY <1>2, <2>4
<1>5. ASSUME NEW k \in 1 .. n, k - 1 \in Ups
      PROVE  k \in Ups
  <2>1. k \in 0 .. n /\ k - 1 \in 0 .. n /\ k \in Nat /\ k > 0 /\ k - 1 \in Nat
    BY <1>2
  <2>2. PICK y, z : y = f[k - 1] /\ z = f[k]
    OBVIOUS
  <2>3. y \in Walks(objects, rest, sp) /\ z \in Walks(objects, rest, sp)
    BY <1>1, <2>1, <2>2
  <2>4. z = MapStep(y, base, frame, bits, k)
    BY <1>1, <2>2 DEF MapRun
  <2>5. PICK j \in Nat : /\ Grown(old, y.space.leaves, base, j)
                         /\ y.ok => j = k - 1
                         /\ ~y.ok => j < k - 1
    BY <1>5, <2>2
  <2>6. /\ z.ok => /\ y.ok /\ base + k - 1 \notin DOMAIN y.space.leaves
                   /\ z.space.leaves = Put(y.space.leaves, base + k - 1,
                                           [frame |-> EntryFrame(frame + k - 1), flags |-> bits[k]])
        /\ ~z.ok => z.space.leaves = y.space.leaves
    <3>1. MappedPage(y, z, base, frame, bits, k)
      BY <2>3, <2>4, MapStepIs
    <3>2. QED BY <3>1 DEF MappedPage
  <2>7. CASE ~z.ok
    <3>1. Grown(old, z.space.leaves, base, j) /\ j < k
      BY <1>3, <2>1, <2>3, <2>5, <2>6, <2>7
    <3>2. QED BY <2>1, <2>2, <2>7, <3>1
  <2>8. CASE z.ok
    <3>1. j = k - 1 /\ Grown(old, y.space.leaves, base, k - 1)
      BY <2>5, <2>6, <2>8
    <3>2. PICK mid, new : mid = y.space.leaves /\ new = z.space.leaves
      OBVIOUS
    <3>3. PICK leaf \in Leaves : leaf = [frame |-> EntryFrame(frame + k - 1), flags |-> bits[k]]
      <4>1. bits[k] \in SUBSET PageBits
        BY ElementOf
      <4>2. frame + k - 1 \in Nat
        BY <2>1
      <4>3. EntryFrame(frame + k - 1) \in Nat
        BY <4>2, EntryFrameIs
      <4>4. QED BY <4>1, <4>3 DEF Leaves
    <3>4. Grown(old, new, base, k)
      <4>1. mid \in Partial(Nat, Leaves)
        BY <1>3, <2>3, <3>2
      <4>2. /\ Grown(old, mid, base, k - 1) /\ base + k - 1 \notin DOMAIN mid
            /\ new = Put(mid, base + k - 1, leaf)
        BY <2>6, <2>8, <3>1, <3>2, <3>3
      <4> HIDE DEF old
      <4>3. QED BY <2>1, <4>1, <4>2, GrownByOne
    <3>5. QED BY <2>1, <2>2, <2>8, <3>2, <3>4
  <2>9. QED BY <2>7, <2>8
<1>6. n \in Ups
  <2> HIDE DEF Ups
  <2>1. \A k \in 0 .. n : k \in Ups
    BY <1>2, <1>4, <1>5, NatInductionSet
  <2>2. QED BY <1>2, <2>1
<1>7. f[n] = MapPagesInto(x, base, frame, bits) /\ n \in 0 .. n
  BY <1>1, <1>2 DEF MapRun
<1>8. QED BY <1>1, <1>6, <1>7 DEF MappedPart

-----------------------------------------------------------------------------
(* Places, and when a space is in order.                                   *)

LEMMA SpaceNumbers ==
  /\ ObjectBytes \in 1 .. PageBytes /\ LowHalfLimit \in Nat /\ MaxRegions \in Nat
  /\ DefaultStackBase \in Nat /\ StackGap \in Nat /\ MaxSpaces \in Nat
BY SpacesAssumption

LEMMA LayoutIs ==
  ASSUME NEW img \in Images, HasLayout(img)
  PROVE  LayoutBase(img) \in Nat /\ LayoutCount(img) \in Nat /\ LayoutCount(img) > 0
         /\ EntryOf(img) \in Nat /\ EntryOf(img) # 0
<1> DEFINE L == LoadSegments(img)
           bases == {s.base : s \in L}
           ends == {s.base + s.count : s \in L}
<1>1. /\ img.entry \in Nat
      /\ \A s \in L : s.base \in Nat /\ s.count \in Nat /\ s.count > 0
  BY SpaceRequestsAssumption DEF LoadSegments
<1>2. L # {} /\ (\A s \in L : s.base + s.count <= LowHalfLimit) /\ EntryOf(img) # 0
  BY DEF HasLayout
<1>3. bases \in SUBSET Nat /\ bases # {}
  BY <1>1, <1>2
<1>4. ends \in SUBSET (1 .. LowHalfLimit) /\ ends # {}
  <2>1. \A s \in L : s.base + s.count \in 1 .. LowHalfLimit
    BY <1>1, <1>2, SpaceNumbers
  <2>2. QED BY <1>2, <2>1
<1>5. Min(bases) \in bases /\ \A x \in bases : Min(bases) <= x
  <2> HIDE DEF bases
  <2>1. QED BY <1>3, MinOfNaturals
<1>6. Max(ends) \in ends /\ \A x \in ends : Max(ends) >= x
  <2> HIDE DEF ends
  <2>1. QED BY <1>4, MaxOfInterval, SpaceNumbers
<1>7. PICK b, e : b = Min(bases) /\ e = Max(ends)
  OBVIOUS
<1>8. LayoutBase(img) = b /\ LayoutEnd(img) = e /\ LayoutCount(img) = e - b
  BY <1>7 DEF LayoutBase, LayoutEnd, LayoutCount
<1>9. PICK s \in L : b = s.base
  BY <1>5, <1>7
<1>10. s.base + s.count \in ends
  OBVIOUS
<1>11. e >= s.base + s.count /\ e \in Nat
  BY <1>4, <1>6, <1>7, <1>10
<1>12. b \in Nat /\ e - b \in Nat /\ e - b > 0
  BY <1>1, <1>9, <1>11
<1>13. EntryOf(img) \in Nat
  BY <1>1, <1>8, <1>12 DEF EntryOf
<1>14. QED BY <1>2, <1>8, <1>12, <1>13

LEMMA StackRequestIs ==
  ASSUME NEW r \in StackRequests
  PROVE  /\ r.base \in Nat /\ r.count \in Nat /\ r.count > 0
         /\ r = [base |-> r.base, count |-> r.count]
BY SpaceRequestsAssumption

LEMMA PlacesTyped ==
  ASSUME NEW q \in Places
  PROVE  /\ q = <<q[1], q[2], q[3], q[4]>>
         /\ q[1] \in Parts /\ q[2] \in Nat /\ q[3] \in Nat /\ q[3] > 0
<1>1. CASE \E img \in Images :
             HasLayout(img) /\ q = <<"image", LayoutBase(img), LayoutCount(img), EntryOf(img)>>
  <2>1. PICK img \in Images :
          HasLayout(img) /\ q = <<"image", LayoutBase(img), LayoutCount(img), EntryOf(img)>>
    BY <1>1
  <2>2. PICK b, c, e : b = LayoutBase(img) /\ c = LayoutCount(img) /\ e = EntryOf(img)
    OBVIOUS
  <2>3. b \in Nat /\ c \in Nat /\ c > 0 /\ q = <<"image", b, c, e>>
    BY <2>1, <2>2, LayoutIs
  <2>4. QED BY <2>3 DEF Parts
<1>2. CASE \E r \in StackRequests : \E base \in StackBases(r) : q = <<"stack", base, r.count, 0>>
  <2>1. PICK r \in StackRequests : \E base \in StackBases(r) : q = <<"stack", base, r.count, 0>>
    BY <1>2
  <2>2. PICK base \in StackBases(r) : q = <<"stack", base, r.count, 0>>
    BY <2>1
  <2>3. base \in Nat
    BY StackRequestIs, SpaceNumbers DEF StackBases
  <2>4. QED BY <2>1, <2>2, <2>3, StackRequestIs DEF Parts
<1>3. QED BY <1>1, <1>2 DEF Places

LEMMA ImagePlace ==
  ASSUME NEW img \in Images, img.valid, HasLayout(img)
  PROVE  <<"image", LayoutBase(img), LayoutCount(img), EntryOf(img)>> \in Places
BY DEF Places

LEMMA StackPlace ==
  ASSUME NEW r \in StackRequests, NEW base \in StackBases(r)
  PROVE  <<"stack", base, r.count, 0>> \in Places
BY DEF Places

(* Places that differ share no page.                                       *)
LEMMA PlacesShareNothing ==
  ASSUME PlacesApart, NEW p \in Places, NEW q \in Places, p # q
  PROVE  /\ ~Overlap(p[2], p[3], q[2], q[3])
         /\ Extent(p[2], p[3]) \cap Extent(q[2], q[3]) = {}
<1>1. ~Overlap(p[2], p[3], q[2], q[3])
  BY DEF PlacesApart
<1>2. p[2] \in Nat /\ p[3] \in Nat /\ q[2] \in Nat /\ q[3] \in Nat
  BY PlacesTyped
<1>3. QED BY <1>1, <1>2 DEF Overlap, Extent

PlacedAt(sp, p) == <<p, sp.parts[p].base, sp.parts[p].count, sp.parts[p].entry>>
PlacesTaken(sp) == {PlacedAt(sp, p) : p \in sp.has}
RegionOf(sp, p) ==
  [base |-> sp.parts[p].base, count |-> sp.parts[p].count, type |-> p,
   backing |-> sp.parts[p].frame]

PartGood(sp, p) ==
  LET r == sp.parts[p] IN
  IF p \in sp.has
  THEN /\ PlacedAt(sp, p) \in Places /\ r.frame > 0
       /\ IF p = "image" THEN r.entry # 0 ELSE r.entry = 0 /\ r.base # 0
  ELSE r = NoPart

RegionsGood(sp) ==
  /\ Len(sp.regions) <= MaxRegions
  /\ ToSet(sp.regions) = {RegionOf(sp, p) : p \in sp.has}

(* Of a place where nothing is, some first pages may be mapped, never all. *)
Halfway(leaves, q) ==
  \E k \in Nat : k < q[3] /\ (DOMAIN leaves) \cap Extent(q[2], q[3]) = Extent(q[2], k)

SpaceGood(sp) ==
  /\ sp \in Spaces
  /\ TablesApart(sp)
  /\ \A p \in Parts : PartGood(sp, p)
  /\ RegionsGood(sp)
  /\ \A q \in Places : q \in PlacesTaken(sp) \/ Halfway(sp.leaves, q)

LEMMA PartIs ==
  ASSUME NEW sp, SpaceGood(sp), NEW p \in Parts
  PROVE  /\ sp.parts[p] \in PartRecords
         /\ sp.parts[p].frame \in Nat /\ sp.parts[p].base \in Nat
         /\ sp.parts[p].count \in Nat /\ sp.parts[p].entry \in Nat
         /\ sp.parts[p] = [frame |-> sp.parts[p].frame, base |-> sp.parts[p].base,
                           count |-> sp.parts[p].count, entry |-> sp.parts[p].entry]
         /\ p \in sp.has => sp.parts[p].count > 0 /\ PlacedAt(sp, p) \in Places /\ sp.parts[p].frame > 0
         /\ p \notin sp.has => sp.parts[p] = NoPart
<1>1. sp \in Spaces /\ PartGood(sp, p)
  BY DEF SpaceGood
<1>2. sp.parts[p] \in PartRecords
  BY <1>1, SpaceFields
<1>3. /\ sp.parts[p].frame \in Nat /\ sp.parts[p].base \in Nat
      /\ sp.parts[p].count \in Nat /\ sp.parts[p].entry \in Nat
      /\ sp.parts[p] = [frame |-> sp.parts[p].frame, base |-> sp.parts[p].base,
                        count |-> sp.parts[p].count, entry |-> sp.parts[p].entry]
  BY <1>2 DEF PartRecords
<1>4. ASSUME p \in sp.has
      PROVE  sp.parts[p].count > 0 /\ PlacedAt(sp, p) \in Places /\ sp.parts[p].frame > 0
  <2>1. PlacedAt(sp, p) \in Places /\ sp.parts[p].frame > 0
    BY <1>1, <1>4 DEF PartGood
  <2>2. PICK q \in Places : q = PlacedAt(sp, p)
    BY <2>1
  <2>3. q[3] > 0
    BY PlacesTyped
  <2>4. q[3] = sp.parts[p].count
    BY <2>2 DEF PlacedAt
  <2>5. QED BY <2>1, <2>3, <2>4
<1>5. QED BY <1>1, <1>2, <1>3, <1>4 DEF PartGood

(* Where a part that is there is placed.                                   *)
LEMMA PlacedWhere ==
  ASSUME NEW sp, SpaceGood(sp), NEW p \in sp.has, p \in Parts
  PROVE  \E q \in Places : /\ q = PlacedAt(sp, p) /\ q[1] = p /\ q[2] = sp.parts[p].base
                           /\ q[3] = sp.parts[p].count
<1>1. PlacedAt(sp, p) \in Places
  BY PartIs
<1>2. PICK q : q = PlacedAt(sp, p)
  OBVIOUS
<1>3. q = <<p, sp.parts[p].base, sp.parts[p].count, sp.parts[p].entry>>
  BY <1>2 DEF PlacedAt
<1>4. q[1] = p /\ q[2] = sp.parts[p].base /\ q[3] = sp.parts[p].count
  BY <1>3
<1>5. QED BY <1>1, <1>2, <1>4

(* The leaves are all that a fresh mapping needs to know of.               *)
LEMMA NotAllMapped ==
  ASSUME NEW q \in Places, NEW leaves, Halfway(leaves, q)
  PROVE  ~(Extent(q[2], q[3]) \subseteq DOMAIN leaves)
<1>1. PICK k \in Nat : k < q[3] /\ (DOMAIN leaves) \cap Extent(q[2], q[3]) = Extent(q[2], k)
  BY DEF Halfway
<1>2. q[2] \in Nat /\ q[3] \in Nat
  BY PlacesTyped
<1>3. q[2] + k \in Extent(q[2], q[3]) /\ q[2] + k \notin Extent(q[2], k)
  BY <1>1, <1>2 DEF Extent
<1>4. QED BY <1>1, <1>3

-----------------------------------------------------------------------------
(* What the requests for an image or a stack that is there find and leave. *)

LEMMA RegionsAre ==
  ASSUME NEW sp, SpaceGood(sp)
  PROVE  /\ \A r \in ToSet(sp.regions) : r.type \in sp.has /\ r = RegionOf(sp, r.type)
         /\ \A p \in sp.has : RegionOf(sp, p) \in ToSet(sp.regions)
         /\ \A i \in DOMAIN sp.regions : sp.regions[i] \in ToSet(sp.regions)
         /\ DOMAIN sp.regions = 1 .. Len(sp.regions) /\ Len(sp.regions) \in Nat
         /\ Len(sp.regions) <= MaxRegions /\ sp.has \subseteq Parts
<1>1. ToSet(sp.regions) = {RegionOf(sp, p) : p \in sp.has} /\ Len(sp.regions) <= MaxRegions
      /\ sp \in Spaces
  BY DEF SpaceGood, RegionsGood
<1>2. sp.regions \in Seq(Regions) /\ sp.has \subseteq Parts
  BY <1>1, SpaceFields
<1>3. \A p : RegionOf(sp, p).type = p
  BY DEF RegionOf
<1>4. \A r \in ToSet(sp.regions) : r.type \in sp.has /\ r = RegionOf(sp, r.type)
  <2>1. ASSUME NEW r \in ToSet(sp.regions)
        PROVE  r.type \in sp.has /\ r = RegionOf(sp, r.type)
    <3>1. PICK p \in sp.has : r = RegionOf(sp, p)
      BY <1>1
    <3>2. QED BY <1>3, <3>1
  <2>2. QED BY <2>1
<1>5. \A p \in sp.has : RegionOf(sp, p) \in ToSet(sp.regions)
  BY <1>1
<1>6. \A i \in DOMAIN sp.regions : sp.regions[i] \in ToSet(sp.regions)
  BY DEF ToSet
<1>7. DOMAIN sp.regions = 1 .. Len(sp.regions) /\ Len(sp.regions) \in Nat
  BY <1>2
<1>8. QED BY <1>1, <1>2, <1>4, <1>5, <1>6, <1>7

LEMMA RecordedAlready ==
  ASSUME NEW sp, NEW p, \E r \in ToSet(sp.regions) : r.type = p /\ r.base = sp.parts[p].base
  PROVE  RecordedRegion(sp, p) = sp
BY DEF RecordedRegion

LEMMA ExistingIs ==
  ASSUME NEW sp, SpaceGood(sp), NEW p \in Parts
  PROVE  PopulateExisting(sp, p) = [found |-> p \in sp.has, space |-> sp]
<1>1. CASE p \in sp.has
  <2>1. PartGood(sp, p)
    BY DEF SpaceGood
  <2>2. ~(sp.parts[p].base = 0 /\ sp.parts[p].entry = 0)
    BY <1>1, <2>1 DEF PartGood
  <2>3. RegionOf(sp, p).type = p /\ RegionOf(sp, p).base = sp.parts[p].base
    BY DEF RegionOf
  <2>4. RecordedRegion(sp, p) = sp
    BY <1>1, <2>3, RegionsAre, RecordedAlready
  <2>5. QED BY <1>1, <2>2, <2>4 DEF PopulateExisting
<1>2. CASE p \notin sp.has
  <2>1. sp.parts[p] = NoPart
    BY <1>2, PartIs
  <2>2. sp.parts[p].base = 0 /\ sp.parts[p].entry = 0
    BY <2>1 DEF NoPart
  <2>3. PopulateExisting(sp, p) = [found |-> FALSE, space |-> sp]
    BY <2>2 DEF PopulateExisting
  <2>4. (p \in sp.has) = FALSE
    BY <1>2
  <2>5. QED BY <2>3, <2>4
<1>3. QED BY <1>1, <1>2

LEMMA WithPart ==
  ASSUME NEW sp \in Spaces, NEW p, NEW new
  PROVE  [sp EXCEPT !.parts[p] = new, !.has = @ \cup {p}] =
           [root |-> sp.root, nodes |-> sp.nodes, leaves |-> sp.leaves, regions |-> sp.regions,
            parts |-> [sp.parts EXCEPT ![p] = new], has |-> sp.has \cup {p}]
<1>1. PICK a, b, c, d, e, f : /\ a = sp.root /\ b = sp.nodes /\ c = sp.leaves /\ d = sp.regions
                              /\ e = sp.parts /\ f = sp.has
                              /\ sp = [root |-> a, nodes |-> b, leaves |-> c, regions |-> d,
                                       parts |-> e, has |-> f]
  BY SpaceFields
<1>2. PICK t : t = [sp EXCEPT !.parts[p] = new]
  OBVIOUS
<1>3. t = [root |-> a, nodes |-> b, leaves |-> c, regions |-> d,
           parts |-> [e EXCEPT ![p] = new], has |-> f]
  BY <1>1, <1>2
<1>4. [sp EXCEPT !.parts[p] = new, !.has = @ \cup {p}] = [t EXCEPT !.has = @ \cup {p}]
  BY <1>2
<1>5. [t EXCEPT !.has = @ \cup {p}] =
        [root |-> a, nodes |-> b, leaves |-> c, regions |-> d,
         parts |-> [e EXCEPT ![p] = new], has |-> f \cup {p}]
  BY <1>3
<1>6. QED BY <1>1, <1>4, <1>5

(* Adopting what the space has already changes nothing.                    *)
LEMMA AdoptedAlready ==
  ASSUME NEW sp, SpaceGood(sp), NEW p \in sp.has
  PROVE  Adopt(sp, p, sp.parts[p]) = [found |-> TRUE, space |-> sp]
<1>1. sp \in Spaces /\ p \in Parts
  BY RegionsAre DEF SpaceGood
<1>2. [sp EXCEPT !.parts[p] = sp.parts[p], !.has = @ \cup {p}] = sp
  <2>1. sp.parts \in [Parts -> PartRecords]
    BY <1>1, SpaceFields
  <2>2. [sp.parts EXCEPT ![p] = sp.parts[p]] = sp.parts /\ sp.has \cup {p} = sp.has
    BY <2>1
  <2>3. PICK t : t = [sp EXCEPT !.parts[p] = sp.parts[p], !.has = @ \cup {p}]
    OBVIOUS
  <2>4. t = [root |-> sp.root, nodes |-> sp.nodes, leaves |-> sp.leaves, regions |-> sp.regions,
             parts |-> [sp.parts EXCEPT ![p] = sp.parts[p]], has |-> sp.has \cup {p}]
    BY <1>1, <2>3, WithPart
  <2>5. t = sp
    BY <1>1, <2>2, <2>4, SpaceFields
  <2>6. QED BY <2>3, <2>5
<1>3. QED BY <1>1, <1>2, ExistingIs DEF Adopt

LEMMA ReservedIs ==
  ASSUME NEW sp, SpaceGood(sp), NEW p \in Parts
  PROVE  PopulateReserved(sp, p).space = sp
<1> DEFINE usable == {i \in DOMAIN sp.regions : sp.regions[i].type = p /\ sp.regions[i].backing # 0}
           first == Min(usable)
           r == sp.regions[first]
           t == sp.parts[p]
           kept == IF p = "image" /\ t.count # 0 THEN t.count ELSE r.count
           entry == IF p = "stack" THEN 0 ELSE IF t.entry = 0 THEN r.base ELSE t.entry
           new == [frame |-> r.backing, base |-> r.base, count |-> kept, entry |-> entry]
<1>1. PopulateReserved(sp, p) = IF usable = {} THEN [found |-> FALSE, space |-> sp]
                                ELSE Adopt(sp, p, new)
  BY DEF PopulateReserved
<1>2. CASE usable = {}
  <2> HIDE DEF usable, new
  <2>1. PopulateReserved(sp, p) = [found |-> FALSE, space |-> sp]
    BY <1>1, <1>2
  <2>2. QED BY <2>1
<1>3. CASE usable # {}
  <2>1. usable \in SUBSET Nat
    BY RegionsAre
  <2>2. first \in usable
    <3> HIDE DEF usable
    <3>1. QED BY <1>3, <2>1, MinOfNaturals
  <2> HIDE DEF first
  <2>3. r \in ToSet(sp.regions) /\ r.type = p
    BY <2>2, RegionsAre
  <2>4. p \in sp.has /\ r = RegionOf(sp, p)
    BY <2>3, RegionsAre
  <2>5. r.base = t.base /\ r.count = t.count /\ r.backing = t.frame
    BY <2>4 DEF RegionOf
  <2>6. IF p = "image" THEN t.entry # 0 ELSE t.entry = 0
    BY <2>4 DEF SpaceGood, PartGood
  <2>7. kept = t.count /\ entry = t.entry
    BY <2>5, <2>6 DEF Parts
  <2>8. new = t
    BY <2>5, <2>7, PartIs
  <2> HIDE DEF new, usable
  <2>9. PopulateReserved(sp, p) = Adopt(sp, p, new)
    BY <1>1, <1>3
  <2>10. PopulateReserved(sp, p) = Adopt(sp, p, sp.parts[p])
    BY <2>8, <2>9
  <2>11. PopulateReserved(sp, p) = [found |-> TRUE, space |-> sp]
    BY <2>4, <2>10, AdoptedAlready
  <2>12. QED BY <2>11
<1>4. QED BY <1>2, <1>3

(* A place where nothing is cannot be taken from what is mapped.           *)
LEMMA NothingToRepair ==
  ASSUME NEW q \in Places, NEW sp, Halfway(sp.leaves, q), NEW p,
         NEW wanted, wanted.base = q[2], wanted.count = q[3]
  PROVE  RepairFromMappings(sp, p, wanted) = [found |-> FALSE, space |-> sp]
<1>1. ~(Extent(q[2], q[3]) \subseteq DOMAIN sp.leaves)
  BY NotAllMapped
<1>2. \A flags : ~ContiguouslyMapped(sp, wanted.base, wanted.count, flags)
  BY <1>1 DEF ContiguouslyMapped
<1>3. QED BY <1>2 DEF RepairFromMappings

(* What a request can ask for.                                             *)
Wanted(p, wanted) ==
  /\ wanted = [base |-> wanted.base, count |-> wanted.count, entry |-> wanted.entry]
  /\ <<p, wanted.base, wanted.count, wanted.entry>> \in Places

(* The space has just what is asked for, or nothing of it.                 *)
LEMMA WhereWanted ==
  ASSUME NEW sp, SpaceGood(sp), NEW p \in Parts, NEW base, NEW count, NEW entry,
         <<p, base, count, entry>> \in Places
  PROVE  \/ /\ p \in sp.has /\ base = sp.parts[p].base /\ count = sp.parts[p].count
            /\ entry = sp.parts[p].entry
         \/ \E q \in Places : Halfway(sp.leaves, q) /\ q[2] = base /\ q[3] = count
<1>1. PICK q \in Places : q = <<p, base, count, entry>>
  OBVIOUS
<1>2. q[1] = p /\ q[2] = base /\ q[3] = count
  BY <1>1
<1>3. CASE q \in PlacesTaken(sp)
  <2>1. PICK o \in sp.has : q = PlacedAt(sp, o)
    BY <1>3 DEF PlacesTaken
  <2>2. o = p /\ base = sp.parts[o].base /\ count = sp.parts[o].count /\ entry = sp.parts[o].entry
    BY <1>1, <2>1 DEF PlacedAt
  <2>3. QED BY <2>2
<1>4. CASE q \notin PlacesTaken(sp)
  <2>1. Halfway(sp.leaves, q)
    BY <1>4 DEF SpaceGood
  <2>2. QED BY <1>2, <2>1
<1>5. QED BY <1>3, <1>4

(* What has a region already is not taken from the mappings.               *)
LEMMA RepairedIs ==
  ASSUME NEW sp, SpaceGood(sp), NEW p \in Parts, p \notin sp.has,
         NEW wanted, <<p, wanted.base, wanted.count, wanted.entry>> \in Places
  PROVE  RepairFromMappings(sp, p, wanted) = [found |-> FALSE, space |-> sp]
<1>1. PICK base, count, entry :
        base = wanted.base /\ count = wanted.count /\ entry = wanted.entry
  OBVIOUS
<1>2. <<p, base, count, entry>> \in Places
  BY <1>1
<1>3. PICK q \in Places : Halfway(sp.leaves, q) /\ q[2] = base /\ q[3] = count
  BY <1>2, WhereWanted
<1>4. QED BY <1>1, <1>3, NothingToRepair

(* A request for an image or a stack that is there, or that only has been  *)
(* begun, changes nothing of the space.                                    *)
LEMMA PopulatedIs ==
  ASSUME NEW sp, SpaceGood(sp), NEW p \in Parts, NEW wanted, Wanted(p, wanted)
  PROVE  PopulateRequested(sp, p, wanted).space = sp
<1> DEFINE Matches(x) == x.found /\ AnswerFrom(x.space, p) = wanted
           one == PopulateExisting(sp, p)
           two == PopulateReserved(one.space, p)
           three == RepairFromMappings(two.space, p, wanted)
           last == IF Matches(one) THEN one ELSE IF Matches(two) THEN two ELSE three
<1>1. PopulateRequested(sp, p, wanted) = [found |-> Matches(last), space |-> last.space]
  BY DEF PopulateRequested
<1>2. PICK o : o = one
  OBVIOUS
<1>3. o = [found |-> p \in sp.has, space |-> sp]
  BY <1>2, ExistingIs
<1>4. PICK t : t = two
  OBVIOUS
<1>5. o.space = sp /\ (o.found <=> p \in sp.has)
  BY <1>3, Zenon
<1>6. t = PopulateReserved(sp, p)
  BY <1>2, <1>4, <1>5
<1>7. t.space = sp
  BY <1>6, ReservedIs
<1>8. PICK h : h = three
  OBVIOUS
<1>9. h = RepairFromMappings(sp, p, wanted)
  BY <1>4, <1>7, <1>8
<1>10. PICK base, count, entry : /\ base = wanted.base /\ count = wanted.count /\ entry = wanted.entry
                                 /\ wanted = [base |-> base, count |-> count, entry |-> entry]
                                 /\ <<p, base, count, entry>> \in Places
  BY DEF Wanted
<1>11. last.space = sp
  <2>1. CASE /\ p \in sp.has /\ base = sp.parts[p].base /\ count = sp.parts[p].count
             /\ entry = sp.parts[p].entry
    <3>1. PartGood(sp, p)
      BY DEF SpaceGood
    <3>2. p = "image" => sp.parts[p].entry # 0
      BY <2>1, <3>1 DEF PartGood
    <3>3. AnswerFrom(sp, p) = wanted
      BY <1>10, <2>1, <3>2 DEF AnswerFrom
    <3>4. Matches(o)
      BY <1>5, <2>1, <3>3
    <3>5. last = o
      BY <1>2, <3>4
    <3>6. QED BY <1>5, <3>5
  <2>2. CASE \E q \in Places : Halfway(sp.leaves, q) /\ q[2] = base /\ q[3] = count
    <3>1. PICK q \in Places : Halfway(sp.leaves, q) /\ q[2] = base /\ q[3] = count
      BY <2>2
    <3>2. RepairFromMappings(sp, p, wanted) = [found |-> FALSE, space |-> sp]
      <4>1. wanted.base = q[2] /\ wanted.count = q[3] /\ Halfway(sp.leaves, q)
        BY <1>10, <3>1
      <4>2. QED BY ONLY <4>1, q \in Places, NothingToRepair
    <3>3. h.space = sp
      BY <1>9, <3>2
    <3>4. last \in {o, t, h}
      BY <1>2, <1>4, <1>8
    <3> HIDE DEF one, two, three, last, Matches
    <3>5. QED BY <1>5, <1>7, <3>3, <3>4
  <2>3. QED BY <1>10, <2>1, <2>2, WhereWanted
<1> HIDE DEF one, two, three, last, Matches
<1>12. PopulateRequested(sp, p, wanted).space = last.space
  BY <1>1
<1>13. QED BY <1>11, <1>12

-----------------------------------------------------------------------------
(* Where a stack is put.                                                   *)

DefaultBases(sp, count) ==
  IF PlacedAt(sp, "stack") = <<"stack", DefaultStackBase, count, 0>>
  THEN {DefaultStackBase, DefaultStackBase + count + StackGap} ELSE {DefaultStackBase}

LEMMA BumpedIs ==
  ASSUME PlacesApart, NEW sp, SpaceGood(sp), NEW q \in StackRequests, q.base = 0,
         NEW r \in ToSet(sp.regions), NEW b \in DefaultBases(sp, q.count)
  PROVE  Bumped(b, r, q.count) \in DefaultBases(sp, q.count)
<1> DEFINE D == DefaultStackBase
           c == q.count
<1>1. D \in Nat /\ c \in Nat /\ c > 0 /\ StackGap \in Nat
  BY StackRequestIs, SpaceNumbers
<1>2. r.type \in sp.has /\ r.type \in Parts /\ r = RegionOf(sp, r.type)
  BY RegionsAre
<1>3. PICK p \in Parts : p = r.type
  BY <1>2
<1>4. PICK m, n \in Nat : m = sp.parts[p].base /\ n = sp.parts[p].count
  BY PartIs
<1>5. r.base = m /\ r.count = n
  BY <1>2, <1>3, <1>4 DEF RegionOf
<1>6. PICK pl \in Places : pl = <<p, m, n, sp.parts[p].entry>> /\ PlacedAt(sp, p) = pl
  BY <1>2, <1>3, <1>4, PartIs DEF PlacedAt
<1>7. b \in StackBases(q)
  BY DEF StackBases, DefaultBases
<1>8. PICK want \in Places : want = <<"stack", b, c, 0>>
  BY <1>7, StackPlace
<1>9. b \in Nat
  BY <1>1 DEF DefaultBases
<1>10. CASE Overlap(b, c, m, n)
  <2>1. pl = want
    <3>1. SUFFICES ASSUME want # pl PROVE FALSE
      OBVIOUS
    <3>2. ~Overlap(want[2], want[3], pl[2], pl[3])
      BY <3>1, PlacesShareNothing
    <3>3. want[2] = b /\ want[3] = c /\ pl[2] = m /\ pl[3] = n
      BY <1>6, <1>8
    <3>4. QED BY <1>10, <3>2, <3>3
  <2>2. p = "stack" /\ m = b /\ n = c
    BY <1>6, <1>8, <2>1
  <2>3. PlacedAt(sp, "stack") = <<"stack", b, c, 0>>
    BY <1>6, <1>8, <2>1, <2>2
  <2>4. b = D
    <3>1. SUFFICES ASSUME b # D PROVE FALSE
      OBVIOUS
    <3>2. PlacedAt(sp, "stack") = <<"stack", D, c, 0>>
      BY <3>1 DEF DefaultBases
    <3>3. QED BY <2>3, <3>1, <3>2
  <2>5. D + c + StackGap \in DefaultBases(sp, c)
    BY <2>3, <2>4 DEF DefaultBases
  <2>6. Bumped(b, r, c) = D + c + StackGap
    BY <1>5, <1>10, <2>2, <2>4 DEF Bumped
  <2>7. QED BY <2>5, <2>6
<1>11. CASE ~Overlap(b, c, m, n)
  BY <1>5, <1>11 DEF Bumped
<1>12. QED BY <1>10, <1>11

LEMMA DefaultBaseFound ==
  ASSUME PlacesApart, NEW sp, SpaceGood(sp), NEW q \in StackRequests, q.base = 0,
         NEW count, count = q.count
  PROVE  DefaultBase(sp, count) \in DefaultBases(sp, count)
<1> DEFINE R == DefaultBases(sp, count)
           s == sp.regions
           Rs == ToSet(sp.regions)
           n == Len(s)
           base == DefaultStackBase
           F == [t \in R |-> [g \in Rs |-> Bumped(t, g, count)]]
           Folded(it) == it = [z \in SUBSET (DOMAIN s) |->
                                 IF z = {} THEN base ELSE Bumped(it[z \ {Max(z)}], s[Max(z)], count)]
           fold == CHOOSE it : Folded(it)
<1>1. n \in Nat /\ DOMAIN s = 1 .. n /\ (\A i \in 1 .. n : s[i] \in Rs) /\ s \in Seq(Rs)
  <2>1. s \in Seq(Regions)
    BY SpaceFields DEF SpaceGood
  <2>2. n \in Nat /\ DOMAIN s = 1 .. n /\ (\A i \in 1 .. n : s[i] \in Rs)
    BY RegionsAre
  <2>3. s \in Seq(Rs)
    <3>1. s \in [1 .. n -> Rs]
      <4>1. s = [i \in 1 .. n |-> s[i]]
        BY <2>1, <2>2
      <4>2. QED BY <2>2, <4>1
    <3>2. QED BY <2>2, <3>1, SeqDef
  <2>4. QED BY <2>2, <2>3
<1>2. base \in R
  BY DEF DefaultBases
<1>3. \A t \in R, g \in Rs : Bumped(t, g, count) \in R
  BY BumpedIs
<1> HIDE DEF R, Rs
<1>4. \E it : Folded(it)
  <2>1. F \in [R -> [Rs -> R]]
    BY <1>3
  <2>2. PICK it : FoldsWithin(R, Rs, F, base, s, it)
    <3> HIDE DEF F, base
    <3>1. QED BY <1>1, <1>2, <2>1, FoldValues
  <2>3. Folded(it)
    <3>1. \A t \in R, g \in Rs : F[t][g] = Bumped(t, g, count)
      OBVIOUS
    <3> HIDE DEF F, base
    <3>2. \A z \in SUBSET (DOMAIN s) :
            z # {} => F[it[z \ {Max(z)}]][s[Max(z)]] = Bumped(it[z \ {Max(z)}], s[Max(z)], count)
      BY <2>2, <3>1 DEF FoldsWithin
    <3>3. QED BY <2>2, <3>2 DEF FoldsWithin, Folds
  <2>4. QED BY <2>3
<1>5. Folded(fold)
  <2> HIDE DEF Folded
  <2>1. QED BY <1>4
<1>6. DefaultBase(sp, count) = fold[DOMAIN s]
  BY Zenon DEF DefaultBase, FoldLeft, MapThenFoldSet
<1>7. fold[{}] = base /\ \A k \in 1 .. n : fold[1 .. k] = Bumped(fold[1 .. k - 1], s[k], count)
  <2> HIDE DEF fold, base, s
  <2>1. fold[{}] = base
    BY <1>5
  <2>2. ASSUME NEW k \in 1 .. n
        PROVE  fold[1 .. k] = Bumped(fold[1 .. k - 1], s[k], count)
    <3>1. 1 .. k \in SUBSET (DOMAIN s) /\ 1 .. k # {}
          /\ Max(1 .. k) = k /\ (1 .. k) \ {k} = 1 .. k - 1
      BY <1>1, FoldPrefixes
    <3>2. QED BY <1>1, <1>5, <3>1
  <2>3. QED BY <2>1, <2>2
<1> HIDE DEF fold, base, s
<1>8. \A k \in 0 .. n : fold[1 .. k] \in R
  <2> DEFINE Typed == {k \in 0 .. n : fold[1 .. k] \in R}
  <2>1. 0 \in Typed
    BY <1>1, <1>2, <1>7, FoldPrefixes
  <2>2. \A k \in 1 .. n : k - 1 \in Typed => k \in Typed
    BY <1>1, <1>3, <1>7
  <2>3. \A k \in 0 .. n : k \in Typed
    <3> HIDE DEF Typed
    <3>1. QED BY <1>1, <2>1, <2>2, NatInductionSet
  <2>4. QED BY <2>3
<1>9. DefaultBase(sp, count) \in R
  BY <1>1, <1>6, <1>8
<1>10. QED BY <1>9 DEF R

LEMMA StackBaseIs ==
  ASSUME PlacesApart, NEW sp, SpaceGood(sp), NEW r \in StackRequests
  PROVE  LET b == SelectStackBase(sp, r.base, r.count) IN
         b \in Nat /\ (b # 0 => <<"stack", b, r.count, 0>> \in Places)
<1> DEFINE b == SelectStackBase(sp, r.base, r.count)
<1>1. CASE r.base # 0
  <2>1. b \in {0, r.base}
    BY <1>1 DEF SelectStackBase
  <2>2. r.base \in StackBases(r)
    BY <1>1 DEF StackBases
  <2> HIDE DEF b
  <2>3. QED BY <2>1, <2>2, StackPlace, StackRequestIs DEF b
<1>2. CASE r.base = 0
  <2>1. PICK c : c = r.count
    OBVIOUS
  <2>2. PICK d : d = DefaultBase(sp, c)
    OBVIOUS
  <2>3. b \in {0, d}
    BY <1>2, <2>1, <2>2 DEF SelectStackBase
  <2>4. d \in DefaultBases(sp, c)
    BY <1>2, <2>1, <2>2, DefaultBaseFound
  <2>5. d \in StackBases(r) /\ d \in Nat
    BY <1>2, <2>1, <2>4, StackRequestIs, SpaceNumbers DEF StackBases, DefaultBases
  <2> HIDE DEF b
  <2>6. QED BY <2>3, <2>5, StackPlace DEF b
<1>3. QED BY <1>1, <1>2

-----------------------------------------------------------------------------
(* Placing an image or a stack.                                            *)

LEMMA InsertedIs ==
  ASSUME NEW D, NEW s \in Seq(D), NEW i \in 1 .. Len(s) + 1, NEW e \in D
  PROVE  /\ InsertAt(s, i, e) \in Seq(D) /\ Len(InsertAt(s, i, e)) = Len(s) + 1
         /\ ToSet(InsertAt(s, i, e)) = ToSet(s) \cup {e}
<1> DEFINE n == Len(s)
           t == [k \in 1 .. n + 1 |-> IF k < i THEN s[k] ELSE IF k = i THEN e ELSE s[k - 1]]
<1>1. n \in Nat /\ i \in Nat /\ DOMAIN s = 1 .. n /\ \A k \in 1 .. n : s[k] \in D
  OBVIOUS
<1>2. InsertAt(s, i, e) = t
  <2>1. PICK a : a = SubSeq(s, 1, i - 1)
    OBVIOUS
  <2>2. a \in Seq(D) /\ Len(a) = i - 1 /\ \A k \in 1 .. i - 1 : a[k] = s[k]
    BY <1>1, <2>1
  <2>3. PICK b : b = SubSeq(s, i, n)
    OBVIOUS
  <2>4. b \in Seq(D) /\ Len(b) = n - i + 1 /\ \A k \in 1 .. n - i + 1 : b[k] = s[i + k - 1]
    BY <1>1, <2>3
  <2>5. PICK c : c = a \o <<e>>
    OBVIOUS
  <2>6. c \in Seq(D) /\ Len(c) = i /\ (\A k \in 1 .. i - 1 : c[k] = s[k]) /\ c[i] = e
    BY <1>1, <2>2, <2>5
  <2>7. PICK d : d = c \o b
    OBVIOUS
  <2>8. d \in Seq(D) /\ Len(d) = n + 1
    <3>1. d \in Seq(D) /\ Len(d) = Len(c) + Len(b)
      BY <2>4, <2>6, <2>7
    <3>2. Len(c) + Len(b) = n + 1
      BY <1>1, <2>4, <2>6
    <3>3. QED BY <3>1, <3>2
  <2>9. ASSUME NEW k \in 1 .. n + 1
        PROVE  d[k] = t[k]
    <3>1. CASE k <= i
      <4>1. d[k] = c[k]
        BY <1>1, <2>4, <2>6, <2>7, <3>1
      <4>2. QED BY <1>1, <2>6, <3>1, <4>1
    <3>2. CASE ~(k <= i)
      <4>1. k - i \in 1 .. n - i + 1
        BY <1>1, <3>2
      <4>2. d[k] = b[k - i]
        BY <1>1, <2>4, <2>6, <2>7, <3>2
      <4>3. b[k - i] = s[i + (k - i) - 1] /\ i + (k - i) - 1 = k - 1
        BY <1>1, <2>4, <4>1
      <4>4. t[k] = s[k - 1]
        BY <1>1, <3>2
      <4>5. QED BY <4>2, <4>3, <4>4
    <3>3. QED BY <3>1, <3>2
  <2>10. InsertAt(s, i, e) = d
    BY <2>1, <2>3, <2>5, <2>7 DEF InsertAt
  <2>11. d = [k \in 1 .. n + 1 |-> d[k]]
    BY <2>8
  <2>12. QED BY <2>9, <2>10, <2>11
<1>3. \A k \in 1 .. n + 1 : (k < i => k \in 1 .. n) /\ (~(k < i) /\ k # i => k - 1 \in 1 .. n)
  BY <1>1
<1>4. \A k \in 1 .. n + 1 : t[k] \in D
  BY <1>1, <1>3
<1>5. t \in Seq(D) /\ Len(t) = n + 1 /\ DOMAIN t = 1 .. n + 1
  BY <1>1, <1>4
<1>6. ASSUME NEW d \in ToSet(s)
      PROVE  d \in ToSet(t)
  <2>1. PICK k \in 1 .. n : d = s[k]
    BY <1>1 DEF ToSet
  <2>2. CASE k < i
    <3>1. k \in 1 .. n + 1 /\ t[k] = d
      BY <1>1, <2>1, <2>2
    <3>2. QED BY <1>5, <3>1 DEF ToSet
  <2>3. CASE ~(k < i)
    <3>1. PICK j \in 1 .. n + 1 : j = k + 1 /\ ~(j < i) /\ j # i /\ j - 1 = k
      BY <1>1, <2>3
    <3>2. t[j] = d
      BY <2>1, <3>1
    <3>3. QED BY <1>5, <3>2 DEF ToSet
  <2>4. QED BY <2>2, <2>3
<1>7. e \in ToSet(t)
  <2>1. t[i] = e
    BY <1>1
  <2>2. QED BY <1>5, <2>1 DEF ToSet
<1>8. ASSUME NEW d \in ToSet(t)
      PROVE  d \in ToSet(s) \cup {e}
  <2>1. PICK k \in 1 .. n + 1 : d = t[k]
    BY <1>5, <1>8 DEF ToSet
  <2>2. t[k] = IF k < i THEN s[k] ELSE IF k = i THEN e ELSE s[k - 1]
    OBVIOUS
  <2> HIDE DEF t
  <2>3. QED BY <1>1, <1>3, <2>1, <2>2 DEF ToSet
<1>9. ToSet(t) = ToSet(s) \cup {e}
  BY <1>6, <1>7, <1>8
<1>10. QED BY <1>2, <1>5, <1>9

Reserved(sp, base, count, p, frame, regions) ==
  /\ ReserveRegion(sp, base, count, p, frame).space = [sp EXCEPT !.regions = regions]
  /\ Len(regions) <= MaxRegions
  /\ ToSet(regions) = ToSet(sp.regions)
       \cup {[base |-> base, count |-> count, type |-> p, backing |-> frame]}

LEMMA RegionReserved ==
  ASSUME NEW sp \in Spaces, NEW base \in Nat, NEW count \in Nat, NEW p \in Parts, NEW frame \in Nat,
         CanReserveRegion(sp, base, count)
  PROVE  \E regions \in Seq(Regions) : Reserved(sp, base, count, p, frame, regions)
<1> DEFINE above == {i \in DOMAIN sp.regions : base < sp.regions[i].base}
           at == IF above = {} THEN Len(sp.regions) + 1 ELSE Min(above)
           region == [base |-> base, count |-> count, type |-> p, backing |-> frame]
<1>1. PICK s \in Seq(Regions) : s = sp.regions
  BY SpaceFields
<1>2. Len(s) \in Nat /\ DOMAIN s = 1 .. Len(s) /\ Len(s) < MaxRegions
  BY <1>1 DEF CanReserveRegion
<1>3. at \in 1 .. Len(s) + 1
  <2>1. CASE above = {}
    BY <1>1, <1>2, <2>1
  <2>2. CASE above # {}
    <3>1. above \in SUBSET Nat /\ above \subseteq 1 .. Len(s)
      BY <1>1, <1>2
    <3>2. Min(above) \in above
      <4> HIDE DEF above
      <4>1. QED BY <2>2, <3>1, MinOfNaturals
    <3>3. Min(above) \in 1 .. Len(s)
      BY <3>1, <3>2
    <3> HIDE DEF above
    <3>4. at = Min(above)
      BY <2>2
    <3>5. QED BY <1>2, <3>3, <3>4
  <2>3. QED BY <2>1, <2>2
<1>4. region \in Regions
  BY DEF Regions
<1>5. ReserveRegion(sp, base, count, p, frame).space =
        [sp EXCEPT !.regions = InsertAt(s, at, region)]
  BY <1>1 DEF ReserveRegion
<1>6. PICK i \in 1 .. Len(s) + 1 : i = at
  BY <1>3
<1>7. PICK e \in Regions : e = region
  BY <1>4
<1> HIDE DEF at, region
<1>8. PICK t : t = InsertAt(s, i, e)
  OBVIOUS
<1>9. t \in Seq(Regions) /\ Len(t) = Len(s) + 1 /\ ToSet(t) = ToSet(s) \cup {e}
  BY <1>8, InsertedIs
<1>10. Len(t) <= MaxRegions
  BY <1>2, <1>9, SpaceNumbers
<1>11. ReserveRegion(sp, base, count, p, frame).space = [sp EXCEPT !.regions = t]
  BY <1>5, <1>6, <1>7, <1>8
<1>12. ToSet(t) = ToSet(sp.regions)
          \cup {[base |-> base, count |-> count, type |-> p, backing |-> frame]}
  BY <1>1, <1>7, <1>9 DEF region
<1>13. QED BY <1>9, <1>10, <1>11, <1>12 DEF Reserved

LEMMA CommitIs ==
  ASSUME NEW sp \in Spaces, NEW part \in Parts, NEW p \in PartRecords,
         CanReserveRegion(sp, p.base, p.count)
  PROVE  LET t == Commit(sp, part, p) IN
         /\ t \in Spaces /\ t.root = sp.root /\ t.nodes = sp.nodes /\ t.leaves = sp.leaves
         /\ t.has = sp.has \cup {part} /\ t.parts = [sp.parts EXCEPT ![part] = p]
         /\ Len(t.regions) <= MaxRegions
         /\ ToSet(t.regions) = ToSet(sp.regions)
              \cup {[base |-> p.base, count |-> p.count, type |-> part, backing |-> p.frame]}
<1>1. p.base \in Nat /\ p.count \in Nat /\ p.frame \in Nat
  BY DEF PartRecords
<1>0. PICK b, c, f \in Nat : b = p.base /\ c = p.count /\ f = p.frame
  BY <1>1
<1>2. PICK regions \in Seq(Regions) :
        /\ ReserveRegion(sp, p.base, p.count, part, p.frame).space = [sp EXCEPT !.regions = regions]
        /\ Len(regions) <= MaxRegions
        /\ ToSet(regions) = ToSet(sp.regions)
             \cup {[base |-> p.base, count |-> p.count, type |-> part, backing |-> p.frame]}
  <2>1. CanReserveRegion(sp, b, c)
    BY <1>0
  <2>2. PICK regions \in Seq(Regions) : Reserved(sp, b, c, part, f, regions)
    BY <2>1, RegionReserved
  <2>3. QED BY <1>0, <2>2 DEF Reserved
<1>3. PICK w : w = [sp EXCEPT !.regions = regions]
  OBVIOUS
<1>4. w = [root |-> sp.root, nodes |-> sp.nodes, leaves |-> sp.leaves, regions |-> regions,
           parts |-> sp.parts, has |-> sp.has]
  BY <1>3, SpaceFields
<1>5. w \in Spaces
  BY <1>4, SpaceFields DEF Spaces
<1>6. Commit(sp, part, p) = [w EXCEPT !.parts[part] = p, !.has = @ \cup {part}]
  BY <1>2, <1>3 DEF Commit
<1>7. PICK t : t = Commit(sp, part, p)
  OBVIOUS
<1>8. t = [root |-> w.root, nodes |-> w.nodes, leaves |-> w.leaves, regions |-> w.regions,
           parts |-> [w.parts EXCEPT ![part] = p], has |-> w.has \cup {part}]
  BY <1>5, <1>6, <1>7, WithPart
<1>9. [w.parts EXCEPT ![part] = p] \in [Parts -> PartRecords] /\ w.has \cup {part} \in SUBSET Parts
  BY <1>5, SpaceFields
<1>10. t \in Spaces
  BY <1>5, <1>8, <1>9, SpaceFields DEF Spaces
<1>11. QED BY <1>2, <1>4, <1>7, <1>8, <1>10

-----------------------------------------------------------------------------
(* What the leaves that a mapping adds mean for a space.                   *)

(* Something is put at a place that is not taken.                          *)
Putting(sp, part, p) ==
  /\ part \in Parts /\ part \notin sp.has
  /\ p \in PartRecords /\ p.frame > 0
  /\ <<part, p.base, p.count, p.entry>> \in Places
  /\ IF part = "image" THEN p.entry # 0 ELSE p.entry = 0 /\ p.base # 0

LEMMA PuttingIs ==
  ASSUME NEW sp, SpaceGood(sp), NEW part, NEW p, Putting(sp, part, p)
  PROVE  /\ p.base \in Nat /\ p.count \in Nat /\ p.count > 0 /\ p.frame \in Nat /\ p.entry \in Nat
         /\ sp.parts[part] = NoPart
         /\ <<part, p.base, p.count, p.entry>> \in Places /\ <<part, p.base, p.count, p.entry>> \notin PlacesTaken(sp)
<1>1. part \in Parts /\ p \in PartRecords /\ <<part, p.base, p.count, p.entry>> \in Places
  BY DEF Putting
<1>2. p.base \in Nat /\ p.count \in Nat /\ p.frame \in Nat /\ p.entry \in Nat
  BY <1>1 DEF PartRecords
<1>3. PICK q \in Places : q = <<part, p.base, p.count, p.entry>>
  BY <1>1
<1>4. p.count > 0
  BY <1>3, PlacesTyped
<1>5. \A o \in sp.has : PlacedAt(sp, o) # <<part, p.base, p.count, p.entry>>
  BY DEF PlacedAt, Putting
<1>6. QED BY <1>1, <1>2, <1>4, <1>5, PartIs DEF PlacesTaken, Putting

(* At any other place as much is mapped as was.                            *)
LEMMA GrownElsewhere ==
  ASSUME PlacesApart, NEW q \in Places, NEW o \in Places, o # q,
         NEW old, NEW new, NEW k \in Nat, k <= q[3], Grown(old, new, q[2], k)
  PROVE  (DOMAIN new) \cap Extent(o[2], o[3]) = (DOMAIN old) \cap Extent(o[2], o[3])
<1>1. q[2] \in Nat /\ q[3] \in Nat
  BY PlacesTyped
<1>2. Extent(q[2], k) \subseteq Extent(q[2], q[3])
  BY <1>1 DEF Extent
<1>3. Extent(q[2], q[3]) \cap Extent(o[2], o[3]) = {}
  BY PlacesShareNothing
<1>4. DOMAIN new = DOMAIN old \cup Extent(q[2], k)
  BY DEF Grown
<1>5. QED BY <1>2, <1>3, <1>4

LEMMA GrownHalfway ==
  ASSUME NEW q \in Places, NEW old, NEW new, NEW k \in Nat, k < q[3],
         Grown(old, new, q[2], k), Halfway(old, q)
  PROVE  Halfway(new, q)
<1>1. PICK b, c \in Nat : b = q[2] /\ c = q[3]
  BY PlacesTyped
<1>2. PICK j \in Nat : j < c /\ (DOMAIN old) \cap Extent(b, c) = Extent(b, j)
  BY <1>1 DEF Halfway
<1>3. DOMAIN new = DOMAIN old \cup Extent(b, k) /\ (DOMAIN old) \cap Extent(b, k) = {}
  BY <1>1 DEF Grown
<1>4. Extent(b, k) \subseteq Extent(b, c)
  BY <1>1 DEF Extent
<1>5. (DOMAIN new) \cap Extent(b, c) = Extent(b, j) \cup Extent(b, k)
  BY <1>2, <1>3, <1>4
<1>6. CASE k = 0
  <2>1. Extent(b, k) = {}
    BY <1>6 DEF Extent
  <2>2. QED BY <1>1, <1>2, <1>5, <2>1 DEF Halfway
<1>7. CASE k # 0
  <2>1. b \in Extent(b, k) /\ b \in Extent(b, c)
    BY <1>1, <1>4, <1>7 DEF Extent
  <2>2. b \notin DOMAIN old
    BY <1>3, <2>1
  <2>3. b \notin Extent(b, j)
    BY <1>2, <2>1, <2>2
  <2>4. j = 0 /\ Extent(b, j) = {}
    BY <2>3 DEF Extent
  <2>5. QED BY <1>1, <1>5, <2>4 DEF Halfway
<1>8. QED BY <1>6, <1>7

(* Whatever is mapped of the place, the rest of the space is in order.     *)
LEMMA OthersInOrder ==
  ASSUME PlacesApart, NEW sp, SpaceGood(sp), NEW part, NEW p, Putting(sp, part, p),
         NEW t \in Spaces, TablesOnly(sp, t),
         NEW k \in Nat, k <= p.count, Grown(sp.leaves, t.leaves, p.base, k)
  PROVE  /\ \A o \in Parts : PartGood(t, o)
         /\ \A q \in Places : q # <<part, p.base, p.count, p.entry>> =>
              q \in PlacesTaken(sp) \/ Halfway(t.leaves, q)
         /\ t.parts = sp.parts /\ t.has = sp.has /\ t.regions = sp.regions
         /\ PlacesTaken(t) = PlacesTaken(sp)
<1>1. t.root = sp.root /\ t.regions = sp.regions /\ t.parts = sp.parts /\ t.has = sp.has
  BY DEF TablesOnly
<1>2. PICK at \in Places : at = <<part, p.base, p.count, p.entry>>
  BY PuttingIs
<1>3. at[1] = part /\ at[2] = p.base /\ at[3] = p.count
  BY <1>2
<1>4. PICK old, new : old = sp.leaves /\ new = t.leaves
  OBVIOUS
<1>5. ASSUME NEW q \in Places, q # at
      PROVE  (DOMAIN new) \cap Extent(q[2], q[3]) = (DOMAIN old) \cap Extent(q[2], q[3])
  <2>1. k <= at[3] /\ Grown(old, new, at[2], k)
    BY <1>3, <1>4
  <2>2. QED BY <1>5, <2>1, GrownElsewhere
<1>6. \A o : PlacedAt(t, o) = PlacedAt(sp, o)
  BY <1>1 DEF PlacedAt
<1>7. \A o \in Parts : PartGood(t, o)
  BY <1>1, <1>6 DEF SpaceGood, PartGood
<1>8. ASSUME NEW q \in Places, q # at
      PROVE  q \in PlacesTaken(sp) \/ Halfway(t.leaves, q)
  <2>1. CASE Halfway(sp.leaves, q)
    <3>1. (DOMAIN new) \cap Extent(q[2], q[3]) = (DOMAIN old) \cap Extent(q[2], q[3])
      BY <1>5, <1>8
    <3>2. QED BY <1>4, <2>1, <3>1 DEF Halfway
  <2>2. QED BY <2>1 DEF SpaceGood
<1>9. PlacesTaken(t) = PlacesTaken(sp)
  BY <1>1, <1>6 DEF PlacesTaken
<1>10. QED BY <1>1, <1>2, <1>7, <1>8, <1>9

LEMMA HalfwayIsGood ==
  ASSUME PlacesApart, NEW sp, SpaceGood(sp), NEW part, NEW p, Putting(sp, part, p),
         NEW t \in Spaces, TablesOnly(sp, t), TablesApart(t),
         NEW k \in Nat, k < p.count, Grown(sp.leaves, t.leaves, p.base, k)
  PROVE  SpaceGood(t)
<1>1. k <= p.count
  <2>1. p.count \in Nat
    BY PuttingIs
  <2>2. QED BY <2>1
<1>2. /\ \A o \in Parts : PartGood(t, o)
      /\ \A q \in Places : q # <<part, p.base, p.count, p.entry>> =>
           q \in PlacesTaken(sp) \/ Halfway(t.leaves, q)
      /\ t.parts = sp.parts /\ t.has = sp.has /\ t.regions = sp.regions
      /\ PlacesTaken(t) = PlacesTaken(sp)
  BY <1>1, OthersInOrder
<1>3. PICK at \in Places : at = <<part, p.base, p.count, p.entry>> /\ at \notin PlacesTaken(sp)
  BY PuttingIs
<1>4. at[2] = p.base /\ at[3] = p.count
  BY <1>3
<1>5. Halfway(sp.leaves, at)
  BY <1>3 DEF SpaceGood
<1>6. PICK old, new : old = sp.leaves /\ new = t.leaves
  OBVIOUS
<1>7. k < at[3] /\ Grown(old, new, at[2], k) /\ Halfway(old, at)
  BY <1>4, <1>5, <1>6
<1>8. Halfway(t.leaves, at)
  BY <1>6, <1>7, GrownHalfway
<1>9. RegionsGood(t)
  BY <1>2 DEF SpaceGood, RegionsGood, RegionOf
<1>10. \A q \in Places : q \in PlacesTaken(t) \/ Halfway(t.leaves, q)
  BY <1>2, <1>3, <1>8
<1>11. QED BY <1>2, <1>9, <1>10 DEF SpaceGood

LEMMA CommittedIsGood ==
  ASSUME PlacesApart, NEW sp, SpaceGood(sp), NEW part, NEW p, Putting(sp, part, p),
         NEW t \in Spaces, TablesOnly(sp, t), TablesApart(t),
         CanReserveRegion(sp, p.base, p.count), Grown(sp.leaves, t.leaves, p.base, p.count)
  PROVE  /\ SpaceGood(Commit(t, part, p))
         /\ \A u \in SpaceUsages :
              Own(Commit(t, part, p), u) =
                Own(t, u) \cup IF u = UsageOf(part) THEN Extent(p.frame, p.count) ELSE {}
<1>1. /\ p.base \in Nat /\ p.count \in Nat /\ p.count > 0 /\ p.frame \in Nat /\ p.entry \in Nat
      /\ sp.parts[part] = NoPart
      /\ <<part, p.base, p.count, p.entry>> \in Places /\ <<part, p.base, p.count, p.entry>> \notin PlacesTaken(sp)
  BY PuttingIs
<1>2. part \in Parts /\ part \notin sp.has /\ p \in PartRecords /\ p.frame > 0
  BY DEF Putting
<1>3. PICK k \in Nat : k = p.count
  BY <1>1
<1>4. /\ \A o \in Parts : PartGood(t, o)
      /\ \A q \in Places : q # <<part, p.base, p.count, p.entry>> =>
           q \in PlacesTaken(sp) \/ Halfway(t.leaves, q)
      /\ t.parts = sp.parts /\ t.has = sp.has /\ t.regions = sp.regions
      /\ PlacesTaken(t) = PlacesTaken(sp)
  <2>1. k <= p.count /\ Grown(sp.leaves, t.leaves, p.base, k)
    BY <1>3
  <2>2. QED BY <2>1, OthersInOrder
<1>5. CanReserveRegion(t, p.base, p.count)
  BY <1>4 DEF CanReserveRegion
<1>6. PICK w : w = Commit(t, part, p)
  OBVIOUS
<1>7. /\ w \in Spaces /\ w.root = t.root /\ w.nodes = t.nodes /\ w.leaves = t.leaves
      /\ w.has = t.has \cup {part} /\ w.parts = [t.parts EXCEPT ![part] = p]
      /\ Len(w.regions) <= MaxRegions
      /\ ToSet(w.regions) = ToSet(t.regions)
           \cup {[base |-> p.base, count |-> p.count, type |-> part, backing |-> p.frame]}
  BY <1>2, <1>5, <1>6, CommitIs
<1>8. w.parts[part] = p /\ \A o \in Parts : o # part => w.parts[o] = t.parts[o]
  <2>1. t.parts \in [Parts -> PartRecords]
    BY SpaceFields
  <2>2. QED BY <1>2, <1>7, <2>1
<1>9. PlacedAt(w, part) = <<part, p.base, p.count, p.entry>>
      /\ \A o \in Parts : o # part => PlacedAt(w, o) = PlacedAt(t, o) /\ RegionOf(w, o) = RegionOf(t, o)
  BY <1>8 DEF PlacedAt, RegionOf
<1>10. sp.has \subseteq Parts
  BY RegionsAre
<1>11. ASSUME NEW o \in Parts
       PROVE  PartGood(w, o)
  <2>1. CASE o = part
    <3>1. IF part = "image" THEN p.entry # 0 ELSE p.entry = 0 /\ p.base # 0
      BY DEF Putting
    <3>2. QED BY <1>1, <1>2, <1>7, <1>8, <1>9, <2>1, <3>1 DEF PartGood
  <2>2. CASE o # part
    <3>1. PartGood(t, o) /\ w.parts[o] = t.parts[o] /\ PlacedAt(w, o) = PlacedAt(t, o)
          /\ (o \in w.has <=> o \in t.has)
      BY <1>4, <1>7, <1>8, <1>9, <2>2
    <3>2. QED BY <1>7, <3>1 DEF PartGood
  <2>3. QED BY <2>1, <2>2
<1>12. RegionsGood(w)
  <2>1. ToSet(sp.regions) = {RegionOf(sp, o) : o \in sp.has}
    BY DEF SpaceGood, RegionsGood
  <2>2. \A o \in sp.has : RegionOf(w, o) = RegionOf(sp, o)
    BY <1>2, <1>4, <1>8, <1>10 DEF RegionOf
  <2>3. RegionOf(w, part) = [base |-> p.base, count |-> p.count, type |-> part, backing |-> p.frame]
    BY <1>8 DEF RegionOf
  <2>4. w.has = sp.has \cup {part}
    BY <1>4, <1>7
  <2>5. ToSet(w.regions) = {RegionOf(w, o) : o \in w.has}
    BY <1>4, <1>7, <2>1, <2>2, <2>3, <2>4
  <2>6. QED BY <1>7, <2>5 DEF RegionsGood
<1>13. ASSUME NEW q \in Places
       PROVE  q \in PlacesTaken(w) \/ Halfway(w.leaves, q)
  <2>1. CASE q = <<part, p.base, p.count, p.entry>>
    BY <1>7, <1>9, <2>1 DEF PlacesTaken
  <2>2. CASE q # <<part, p.base, p.count, p.entry>> /\ q \in PlacesTaken(sp)
    <3>1. PICK o \in sp.has : q = PlacedAt(sp, o)
      BY <2>2 DEF PlacesTaken
    <3>2. o # part /\ o \in Parts /\ PlacedAt(w, o) = PlacedAt(t, o) /\ o \in w.has
      BY <1>2, <1>4, <1>7, <1>9, <1>10
    <3>3. PlacedAt(t, o) = PlacedAt(sp, o)
      BY <1>4 DEF PlacedAt
    <3>4. QED BY <3>1, <3>2, <3>3 DEF PlacesTaken
  <2>3. CASE q # <<part, p.base, p.count, p.entry>> /\ q \notin PlacesTaken(sp)
    BY <1>4, <1>7, <2>3
  <2>4. QED BY <2>1, <2>2, <2>3
<1>14. TablesApart(w)
  BY <1>7 DEF TablesApart
<1>15. SpaceGood(w)
  BY <1>7, <1>11, <1>12, <1>13, <1>14 DEF SpaceGood
<1>16. ASSUME NEW u \in SpaceUsages
       PROVE  Own(w, u) = Own(t, u) \cup IF u = UsageOf(part) THEN Extent(p.frame, p.count) ELSE {}
  <2>1. CASE u = "page_table"
    <3>1. u # UsageOf(part)
      BY <1>2, <2>1 DEF UsageOf
    <3>2. QED BY <1>7, <2>1, <3>1 DEF Own, TableFrames
  <2>2. CASE u # "page_table"
    <3>1. PICK o \in Parts : o = IF u = "service_image" THEN "image" ELSE "stack"
      BY DEF Parts
    <3>2. Own(w, u) = PartFrames(w, o) /\ Own(t, u) = PartFrames(t, o)
      BY <2>2, <3>1 DEF Own
    <3>3. u = UsageOf(part) <=> o = part
      BY <1>2, <2>2, <3>1 DEF UsageOf, Parts, SpaceUsages
    <3>4. PartFrames(t, part) = {}
      BY <1>1, <1>4 DEF PartFrames, NoPart, Extent
    <3>5. PartFrames(w, part) = Extent(p.frame, p.count)
      BY <1>8 DEF PartFrames
    <3>6. CASE o = part
      BY <3>2, <3>3, <3>4, <3>5, <3>6
    <3>7. CASE o # part
      BY <1>8, <3>2, <3>3, <3>7 DEF PartFrames
    <3>8. QED BY <3>6, <3>7
  <2>3. QED BY <2>1, <2>2
<1>17. QED BY <1>6, <1>15, <1>16

-----------------------------------------------------------------------------
(* A request leaves a space and the store in order, and takes no frame of  *)
(* another space (rest).                                                   *)

Rests == [SpaceUsages -> SUBSET FrameIds]
With(rest, part, frames) == [rest EXCEPT ![UsageOf(part)] = @ \cup frames]

Settled(o, objects, rest) ==
  Held(o.store, o.space, rest) /\ Objects(o.store) = objects /\ SpaceGood(o.space)

LEMMA WithIs ==
  ASSUME NEW rest \in Rests, NEW part \in Parts, NEW frames
  PROVE  /\ UsageOf(part) \in SpaceUsages /\ UsageOf(part) \in PartUsages
         /\ UsageOf(part) # "page_table" /\ UsageOf(part) # "free" /\ UsageOf(part) \in Usages
         /\ With(rest, part, frames)[UsageOf(part)] = rest[UsageOf(part)] \cup frames
         /\ \A u \in SpaceUsages : u # UsageOf(part) => With(rest, part, frames)[u] = rest[u]
         /\ \A sp : Own(sp, UsageOf(part)) = PartFrames(sp, part)
<1>1. /\ UsageOf(part) \in SpaceUsages /\ UsageOf(part) \in PartUsages
      /\ UsageOf(part) # "page_table" /\ UsageOf(part) # "free" /\ UsageOf(part) \in Usages
  BY DEF UsageOf, Parts, SpaceUsages, PartUsages, Usages
<1>2. \A sp : Own(sp, UsageOf(part)) = PartFrames(sp, part)
  BY DEF Own, UsageOf, Parts
<1>3. QED BY <1>1, <1>2 DEF With, Rests

LEMMA NoFramesYet ==
  ASSUME NEW sp, NEW part, sp.parts[part] = NoPart
  PROVE  PartFrames(sp, part) = {}
BY DEF PartFrames, NoPart, Extent

LEMMA SpaceUsagesAre ==
  ASSUME NEW u \in SpaceUsages
  PROVE  u \in Usages /\ u # "free"
BY DEF SpaceUsages, Usages

(* What is claimed for a part before it is mapped.                         *)
LEMMA ClaimedIs ==
  ASSUME NEW sp, SpaceGood(sp), NEW rest \in Rests, NEW s, Held(s, sp, rest),
         NEW part \in Parts, sp.parts[part] = NoPart, NEW count \in Nat,
         Claim(s, count, UsageOf(part)).ok
  PROVE  LET c == Claim(s, count, UsageOf(part))
             frames == Extent(c.base, count) IN
         /\ c.base \in Nat /\ c.base > 0
         /\ rest[UsageOf(part)] \cap frames = {}
         /\ [ok |-> TRUE, store |-> c.store, space |-> sp]
              \in Walks(Objects(s), With(rest, part, frames), sp)
<1> DEFINE usage == UsageOf(part)
<1>1. HeapGood(s) /\ sp \in Spaces /\ TablesApart(sp)
      /\ \A u \in SpaceUsages : FramesOf(s, u) = rest[u] \cup Own(sp, u) /\ rest[u] \cap Own(sp, u) = {}
  BY DEF Held
<1>2. PICK c : c = Claim(s, count, usage)
  OBVIOUS
<1>3. PICK frames : frames = Extent(c.base, count)
  OBVIOUS
<1>4. usage \in PartUsages /\ usage \in SpaceUsages /\ usage # "page_table" /\ usage # "free"
      /\ usage \in Usages
      /\ With(rest, part, frames)[usage] = rest[usage] \cup frames
      /\ (\A u \in SpaceUsages : u # usage => With(rest, part, frames)[u] = rest[u])
      /\ Own(sp, usage) = {}
  BY WithIs, NoFramesYet
<1> HIDE DEF usage
<1>5. /\ c.base \in Nat /\ c.base > 0
      /\ frames \subseteq FramesOf(s, "free")
      /\ HeapGood(c.store) /\ Objects(c.store) = Objects(s)
      /\ FramesOf(c.store, usage) = FramesOf(s, usage) \cup frames
      /\ \A u \in Usages : u # usage /\ u # "free" => FramesOf(c.store, u) = FramesOf(s, u)
  <2>1. Claim(s, count, usage).ok
    BY DEF usage
  <2>2. HeapGood(s) /\ usage \in PartUsages /\ count \in Nat
    BY <1>1, <1>4
  <2>3. LET d == Claim(s, count, usage) IN
        /\ d.base \in Nat /\ d.base > 0
        /\ Extent(d.base, count) \subseteq FramesOf(s, "free")
        /\ HeapGood(d.store) /\ Objects(d.store) = Objects(s)
        /\ FramesOf(d.store, usage) = FramesOf(s, usage) \cup Extent(d.base, count)
        /\ \A u \in Usages : u # usage /\ u # "free" => FramesOf(d.store, u) = FramesOf(s, u)
    BY ONLY <2>1, <2>2, ClaimForPart
  <2>4. QED BY <1>2, <1>3, <2>3
<1>6. FramesOf(s, usage) \cap frames = {}
  BY <1>4, <1>5 DEF FramesOf
<1>7. rest[usage] \cap frames = {}
  BY <1>1, <1>4, <1>6
<1>8. ASSUME NEW u \in SpaceUsages
      PROVE  FramesOf(c.store, u) = With(rest, part, frames)[u] \cup Own(sp, u)
             /\ With(rest, part, frames)[u] \cap Own(sp, u) = {}
  <2>1. CASE u = usage
    BY <1>1, <1>4, <1>5, <2>1
  <2>2. CASE u # usage
    BY <1>1, <1>4, <1>5, <2>2, SpaceUsagesAre
  <2>3. QED BY <2>1, <2>2
<1>9. Held(c.store, sp, With(rest, part, frames))
  BY <1>1, <1>5, <1>8 DEF Held
<1>10. PICK x : x = [ok |-> TRUE, store |-> c.store, space |-> sp]
  OBVIOUS
<1>11. x.ok = TRUE /\ x.store = c.store /\ x.space = sp
  BY <1>10
<1>12. c.store \in Stores
  BY <1>5 DEF HeapGood
<1>13. x \in [ok : BOOLEAN, store : Stores, space : Spaces]
  BY <1>1, <1>10, <1>12
<1>14. TablesOnly(sp, sp)
  BY DEF TablesOnly
<1>15. x \in Walks(Objects(s), With(rest, part, frames), sp)
  BY <1>5, <1>9, <1>11, <1>13, <1>14 DEF Walks
<1>16. QED BY <1>2, <1>3, <1>5, <1>7, <1>10, <1>15 DEF usage

(* A mapping under way of what is put.                                     *)
Mapping(sp, part, p, objects, rest, x, k) ==
  LET frames == Extent(p.frame, p.count) IN
  /\ Putting(sp, part, p) /\ CanReserveRegion(sp, p.base, p.count)
  /\ x \in Walks(objects, With(rest, part, frames), sp)
  /\ rest[UsageOf(part)] \cap frames = {}
  /\ k \in Nat /\ Grown(sp.leaves, x.space.leaves, p.base, k)

MappingHas(sp, part, usage, frames, objects, rest, s, t) ==
  /\ HeapGood(s) /\ Objects(s) = objects /\ t \in Spaces /\ TablesApart(t) /\ TablesOnly(sp, t)
  /\ \A u \in SpaceUsages : u # usage =>
       FramesOf(s, u) = rest[u] \cup Own(t, u) /\ rest[u] \cap Own(t, u) = {}
  /\ FramesOf(s, usage) = rest[usage] \cup frames /\ rest[usage] \cap frames = {}
  /\ Own(t, usage) = {} /\ part \in Parts

LEMMA MappingIs ==
  ASSUME NEW sp, SpaceGood(sp), NEW part, NEW p, NEW objects, NEW rest \in Rests, NEW x, NEW k,
         Mapping(sp, part, p, objects, rest, x, k)
  PROVE  MappingHas(sp, part, UsageOf(part), Extent(p.frame, p.count), objects, rest, x.store, x.space)
<1> DEFINE usage == UsageOf(part)
           frames == Extent(p.frame, p.count)
<1>1. part \in Parts
  BY DEF Mapping, Putting
<1>2. PICK g : g = With(rest, part, frames)
  OBVIOUS
<1>3. PICK s, t : s = x.store /\ t = x.space
  OBVIOUS
<1>4. Held(s, t, g) /\ Objects(s) = objects /\ TablesOnly(sp, t)
  BY <1>2, <1>3 DEF Mapping, Walks
<1>5. /\ HeapGood(s) /\ t \in Spaces /\ TablesApart(t)
      /\ \A u \in SpaceUsages : FramesOf(s, u) = g[u] \cup Own(t, u) /\ g[u] \cap Own(t, u) = {}
  BY <1>4 DEF Held
<1>6. t.parts[part] = NoPart
  BY <1>4, PuttingIs DEF Mapping, TablesOnly
<1>7. /\ usage \in SpaceUsages /\ g[usage] = rest[usage] \cup frames
      /\ \A u \in SpaceUsages : u # usage => g[u] = rest[u]
      /\ Own(t, usage) = {}
  BY <1>1, <1>2, <1>6, WithIs, NoFramesYet
<1>8. rest[usage] \cap frames = {}
  BY DEF Mapping
<1> HIDE DEF usage, frames
<1>9. FramesOf(s, usage) = rest[usage] \cup frames
  BY <1>5, <1>7
<1>10. \A u \in SpaceUsages : u # usage => FramesOf(s, u) = rest[u] \cup Own(t, u) /\ rest[u] \cap Own(t, u) = {}
  BY <1>5, <1>7
<1>11. QED BY <1>1, <1>3, <1>4, <1>5, <1>7, <1>8, <1>9, <1>10 DEF usage, frames, MappingHas

LEMMA UndoIs ==
  ASSUME PlacesApart, NEW sp, SpaceGood(sp), NEW part, NEW p, NEW objects, NEW rest \in Rests,
         NEW x, NEW k, Mapping(sp, part, p, objects, rest, x, k), k < p.count, NEW status
  PROVE  Settled(Undo(status, x, p.frame, p.count), objects, rest)
<1>1. PICK usage, frames, s, t : /\ usage = UsageOf(part) /\ frames = Extent(p.frame, p.count)
                                 /\ s = x.store /\ t = x.space
  OBVIOUS
<1>2. /\ HeapGood(s) /\ Objects(s) = objects /\ t \in Spaces /\ TablesApart(t) /\ TablesOnly(sp, t)
      /\ (\A u \in SpaceUsages : u # usage =>
            FramesOf(s, u) = rest[u] \cup Own(t, u) /\ rest[u] \cap Own(t, u) = {})
      /\ FramesOf(s, usage) = rest[usage] \cup frames /\ rest[usage] \cap frames = {}
      /\ Own(t, usage) = {} /\ part \in Parts
  <2>1. MappingHas(sp, part, usage, frames, objects, rest, s, t)
    BY <1>1, MappingIs
  <2>2. QED BY <2>1 DEF MappingHas
<1>3. usage \in PartUsages
  BY <1>1, <1>2, WithIs
<1>4. PICK r : r = Release(s, p.frame, p.count)
  OBVIOUS
<1>5. /\ HeapGood(r.store) /\ Objects(r.store) = Objects(s)
      /\ FramesOf(r.store, usage) = FramesOf(s, usage) \ frames
      /\ \A u \in Usages : u # usage /\ u # "free" => FramesOf(r.store, u) = FramesOf(s, u)
  <2>1. Extent(p.frame, p.count) \subseteq FramesOf(s, usage)
    BY <1>1, <1>2
  <2>2. QED BY <1>1, <1>2, <1>3, <1>4, <2>1, ReleaseOfPart
<1>6. ASSUME NEW u \in SpaceUsages
      PROVE  FramesOf(r.store, u) = rest[u] \cup Own(t, u) /\ rest[u] \cap Own(t, u) = {}
  <2>1. CASE u = usage
    BY <1>2, <1>5, <2>1
  <2>2. CASE u # usage
    BY <1>2, <1>5, <2>2, SpaceUsagesAre
  <2>3. QED BY <2>1, <2>2
<1>7. Held(r.store, t, rest)
  BY <1>2, <1>5, <1>6 DEF Held
<1>8. SpaceGood(t)
  <2>1. Putting(sp, part, p) /\ k \in Nat /\ Grown(sp.leaves, t.leaves, p.base, k)
    BY <1>1 DEF Mapping
  <2>2. QED BY <1>2, <2>1, HalfwayIsGood
<1>9. PICK o : o = Undo(status, x, p.frame, p.count)
  OBVIOUS
<1>10. o.store = r.store /\ o.space = t
  BY <1>1, <1>4, <1>9 DEF Undo, Answered
<1>11. QED BY <1>2, <1>5, <1>7, <1>8, <1>9, <1>10 DEF Settled

LEMMA PlaceIs ==
  ASSUME PlacesApart, NEW sp, SpaceGood(sp), NEW part, NEW p, NEW objects, NEW rest \in Rests,
         NEW x, NEW k, Mapping(sp, part, p, objects, rest, x, k),
         IF x.ok THEN k = p.count ELSE k < p.count
  PROVE  Settled(Place(x, part, p), objects, rest)
<1>1. PICK usage, frames, s, t : /\ usage = UsageOf(part) /\ frames = Extent(p.frame, p.count)
                                 /\ s = x.store /\ t = x.space
  OBVIOUS
<1>2. /\ HeapGood(s) /\ Objects(s) = objects /\ t \in Spaces /\ TablesApart(t) /\ TablesOnly(sp, t)
      /\ (\A u \in SpaceUsages : u # usage =>
            FramesOf(s, u) = rest[u] \cup Own(t, u) /\ rest[u] \cap Own(t, u) = {})
      /\ FramesOf(s, usage) = rest[usage] \cup frames /\ rest[usage] \cap frames = {}
      /\ Own(t, usage) = {} /\ part \in Parts
  <2>1. MappingHas(sp, part, usage, frames, objects, rest, s, t)
    BY <1>1, MappingIs
  <2>2. QED BY <2>1 DEF MappingHas
<1>3. /\ Putting(sp, part, p) /\ CanReserveRegion(sp, p.base, p.count)
      /\ k \in Nat /\ Grown(sp.leaves, t.leaves, p.base, k)
  BY <1>1 DEF Mapping
<1>4. CASE x.ok
  <2>1. PICK w : w = Commit(t, part, p)
    OBVIOUS
  <2>2. Grown(sp.leaves, t.leaves, p.base, p.count)
    BY <1>3, <1>4
  <2>3. /\ SpaceGood(w)
        /\ \A u \in SpaceUsages : Own(w, u) = Own(t, u) \cup IF u = usage THEN frames ELSE {}
    BY <1>1, <1>2, <1>3, <2>1, <2>2, CommittedIsGood
  <2>4. ASSUME NEW u \in SpaceUsages
        PROVE  FramesOf(s, u) = rest[u] \cup Own(w, u) /\ rest[u] \cap Own(w, u) = {}
    <3>1. CASE u = usage
      BY <1>2, <2>3, <3>1
    <3>2. CASE u # usage
      BY <1>2, <2>3, <3>2
    <3>3. QED BY <3>1, <3>2
  <2>5. Held(s, w, rest)
    BY <1>2, <2>3, <2>4 DEF Held, SpaceGood
  <2>6. PICK o : o = Place(x, part, p)
    OBVIOUS
  <2>7. o.store = s /\ o.space = w
    BY <1>1, <1>4, <2>1, <2>6 DEF Place, Answered
  <2>8. QED BY <1>2, <2>3, <2>5, <2>6, <2>7 DEF Settled
<1>5. CASE ~x.ok
  <2>1. PICK at \in Places : at = <<part, p.base, p.count, p.entry>> /\ at \notin PlacesTaken(sp)
    BY <1>3, PuttingIs
  <2>2. SpaceGood(t)
    BY <1>2, <1>3, <1>5, HalfwayIsGood
  <2>3. at \notin PlacesTaken(t)
    <3>1. \A o : PlacedAt(t, o) = PlacedAt(sp, o)
      BY <1>2 DEF TablesOnly, PlacedAt
    <3>2. PlacesTaken(t) = PlacesTaken(sp)
      BY <1>2, <3>1 DEF PlacesTaken, TablesOnly
    <3>3. QED BY <2>1, <3>2
  <2>4. Halfway(t.leaves, at) /\ p.base = at[2] /\ p.count = at[3]
    BY <2>1, <2>2, <2>3 DEF SpaceGood
  <2>5. PICK repaired : repaired = RepairFromMappings(x.space, part, p)
    OBVIOUS
  <2>6. repaired = [found |-> FALSE, space |-> t]
    BY <1>1, <2>4, <2>5, NothingToRepair
  <2>7. ~repaired.found
    BY <2>6
  <2>8. Place(x, part, p) = Undo("conflict", x, p.frame, p.count)
    BY <1>5, <2>5, <2>7 DEF Place
  <2>9. QED BY <1>5, <2>8, UndoIs
<1>6. QED BY <1>4, <1>5

-----------------------------------------------------------------------------
(* Attaching a staged image.                                               *)

LEMMA FoundSettled ==
  ASSUME NEW sp, SpaceGood(sp), NEW s, NEW rest, Held(s, sp, rest), NEW found, found.space = sp
  PROVE  Settled(FromRequested(s, found), Objects(s), rest)
<1>1. PICK o : o = FromRequested(s, found)
  OBVIOUS
<1>2. o.store = s /\ o.space = found.space
  BY <1>1 DEF FromRequested, Answered
<1>3. QED BY <1>1, <1>2 DEF Settled

LEMMA SameSettled ==
  ASSUME NEW sp, SpaceGood(sp), NEW s, NEW rest, Held(s, sp, rest), NEW status
  PROVE  Settled(Answered(status, s, sp), Objects(s), rest)
<1>1. PICK o : o = Answered(status, s, sp)
  OBVIOUS
<1>2. o.store = s /\ o.space = sp
  BY <1>1 DEF Answered
<1>3. QED BY <1>1, <1>2 DEF Settled

LEMMA TrackedAlready ==
  ASSUME NEW s \in Stores, NEW at, at[1] \in FrameIds, NEW sp, sp.root \in FrameIds,
         s.frames[at[1]] # "free", s.frames[sp.root] # "free"
  PROVE  EnsureTracked(s, at, sp) = s
<1>1. PICK a, r \in FrameIds : a = at[1] /\ r = sp.root
  OBVIOUS
<1>2. PICK g : g = s.frames
  OBVIOUS
<1>3. g \in FrameTables /\ g[a] # "free" /\ g[r] # "free"
  BY <1>1, <1>2 DEF Stores
<1>4. PICK x : x = [s EXCEPT !.frames[a] = IF @ = "free" THEN "address_space_object" ELSE @]
  OBVIOUS
<1>5. x = [s EXCEPT !.frames = [g EXCEPT ![a] = g[a]]]
  BY <1>2, <1>3, <1>4
<1>6. [g EXCEPT ![a] = g[a]] = g
  BY <1>3 DEF FrameTables
<1>7. x = s
  BY <1>2, <1>5, <1>6 DEF Stores
<1>8. EnsureTracked(s, at, sp) = [x EXCEPT !.frames[r] = IF @ = "free" THEN "page_table" ELSE @]
  BY <1>1, <1>4 DEF EnsureTracked
<1>9. EnsureTracked(s, at, sp) = [s EXCEPT !.frames = [g EXCEPT ![r] = g[r]]]
  BY <1>2, <1>3, <1>7, <1>8
<1>10. [g EXCEPT ![r] = g[r]] = g
  BY <1>3 DEF FrameTables
<1>11. QED BY <1>2, <1>9, <1>10 DEF Stores

LEMMA WantedImageIs ==
  ASSUME NEW img \in Images, img.valid, HasLayout(img)
  PROVE  /\ Wanted("image", WantedImage(img)) /\ WantedImage(img).entry # 0
         /\ \A frame \in Nat : Framed(WantedImage(img), frame) \in PartRecords
         /\ \A frame : /\ Framed(WantedImage(img), frame).frame = frame
                       /\ Framed(WantedImage(img), frame).base = WantedImage(img).base
                       /\ Framed(WantedImage(img), frame).count = WantedImage(img).count
                       /\ Framed(WantedImage(img), frame).entry = WantedImage(img).entry
         /\ WantedImage(img).base \in Nat /\ WantedImage(img).count \in Nat /\ WantedImage(img).count > 0
         /\ WantedImage(img).base = LayoutBase(img) /\ WantedImage(img).count = LayoutCount(img)
<1>1. PICK b, c, e : b = LayoutBase(img) /\ c = LayoutCount(img) /\ e = EntryOf(img)
  OBVIOUS
<1>2. b \in Nat /\ c \in Nat /\ c > 0 /\ e \in Nat /\ e # 0
  BY <1>1, LayoutIs
<1>3. PICK w : w = WantedImage(img)
  OBVIOUS
<1>4. w.base = b /\ w.count = c /\ w.entry = e
  BY <1>1, <1>3 DEF WantedImage
<1>5. <<"image", b, c, e>> \in Places /\ w = [base |-> b, count |-> c, entry |-> e]
  BY <1>1, <1>3, ImagePlace DEF WantedImage
<1>6. Wanted("image", w)
  BY <1>4, <1>5 DEF Wanted
<1>7. \A frame \in Nat : Framed(w, frame) \in PartRecords
  BY <1>2, <1>4 DEF Framed, PartRecords
<1>8. \A frame : /\ Framed(w, frame).frame = frame /\ Framed(w, frame).base = w.base
                 /\ Framed(w, frame).count = w.count /\ Framed(w, frame).entry = w.entry
  BY DEF Framed
<1>9. QED BY <1>1, <1>2, <1>3, <1>4, <1>6, <1>7, <1>8

LEMMA ImageFlagsAre ==
  ASSUME NEW img, NEW v
  PROVE  ImagePageFlags(img, v) \in SUBSET PageBits
<1> DEFINE covering == {s \in LoadSegments(img) : v \in Extent(s.base, s.count)}
           write == \E s \in covering : s.write
           exec == \E s \in covering : s.exec
<1>1. {"gap"} \in SUBSET PageBits /\ {"writable"} \in SUBSET PageBits /\ {"nx"} \in SUBSET PageBits
  BY DEF PageBits, AllowedFlags
<1>2. ImagePageFlags(img, v) =
        IF covering = {} THEN {"gap"}
        ELSE (IF write THEN {"writable"} ELSE {}) \cup (IF exec THEN {} ELSE {"nx"})
  BY DEF ImagePageFlags
<1> HIDE DEF covering, write, exec
<1>3. QED BY <1>1, <1>2

LEMMA StagedIsMapped ==
  ASSUME PlacesApart, NEW sp, SpaceGood(sp), "image" \notin sp.has, NEW img \in Images, img.valid,
         HasLayout(img), CanReserveRegion(sp, LayoutBase(img), LayoutCount(img)),
         NEW rest \in Rests, NEW s, Held(s, sp, rest),
         Claim(s, LayoutCount(img), "service_image").ok
  PROVE  Settled(MapStagedImage(sp, img, Claim(s, LayoutCount(img), "service_image")), Objects(s), rest)
<1>1. PICK wanted : wanted = WantedImage(img)
  OBVIOUS
<1>2. PICK b, c \in Nat : b = wanted.base /\ c = wanted.count /\ c > 0
                          /\ b = LayoutBase(img) /\ c = LayoutCount(img)
  BY <1>1, WantedImageIs
<1>3. PICK claimed : claimed = Claim(s, c, "service_image")
  OBVIOUS
<1>4. sp.parts["image"] = NoPart /\ UsageOf("image") = "service_image" /\ "image" \in Parts
  BY PartIs DEF UsageOf, Parts
<1>5. PICK frames : frames = Extent(claimed.base, c)
  OBVIOUS
<1>6. PICK x : x = [ok |-> TRUE, store |-> claimed.store, space |-> sp]
  OBVIOUS
<1>7. /\ claimed.base \in Nat /\ claimed.base > 0
      /\ rest[UsageOf("image")] \cap frames = {}
      /\ x \in Walks(Objects(s), With(rest, "image", frames), sp)
  BY <1>2, <1>3, <1>4, <1>5, <1>6, ClaimedIs
<1>8. PICK frame \in Nat : frame = claimed.base /\ frame > 0
  BY <1>7
<1>9. PICK p : p = Framed(wanted, frame)
  OBVIOUS
<1>10. /\ p \in PartRecords /\ p.frame = frame /\ p.base = b /\ p.count = c /\ p.entry = wanted.entry
       /\ Wanted("image", wanted) /\ wanted.entry # 0
  BY <1>1, <1>2, <1>9, WantedImageIs
<1>11. Putting(sp, "image", p)
  <2>1. <<"image", p.base, p.count, p.entry>> \in Places
    BY <1>2, <1>10 DEF Wanted
  <2>2. QED BY <1>4, <1>8, <1>10, <2>1 DEF Putting
<1> DEFINE Flags(i) == ImagePageFlags(img, wanted.base + i - 1)
           Gaps == {i \in 1 .. wanted.count : Flags(i) = {"gap"}}
           covered == IF Gaps = {} THEN wanted.count ELSE Min(Gaps) - 1
           bits == [i \in 1 .. covered |-> Flags(i)]
           mapped == MapPagesInto([ok |-> TRUE, store |-> claimed.store, space |-> sp],
                                  wanted.base, claimed.base, bits)
<1>12. covered \in Nat /\ covered <= c /\ (Gaps # {} => covered < c) /\ (Gaps = {} => covered = c)
  <2>1. CASE Gaps = {}
    BY <1>2, <2>1
  <2>2. CASE Gaps # {}
    <3>1. Gaps \in SUBSET Nat /\ Gaps \subseteq 1 .. c
      BY <1>2
    <3>2. PICK g : g = Min(Gaps)
      OBVIOUS
    <3>3. g \in Gaps
      <4> HIDE DEF Gaps
      <4>1. QED BY <2>2, <3>1, <3>2, MinOfNaturals
    <3>4. g \in 1 .. c
      BY <3>1, <3>3
    <3> HIDE DEF Gaps
    <3>5. covered = g - 1
      BY <2>2, <3>2
    <3>6. QED BY <1>2, <2>2, <3>4, <3>5
  <2>3. QED BY <2>1, <2>2
<1>13. \A i : Flags(i) \in SUBSET PageBits
  BY ImageFlagsAre
<1>14. MapStagedImage(sp, img, claimed) =
         IF mapped.ok /\ Gaps # {} THEN Undo("invalid", mapped, claimed.base, wanted.count)
         ELSE Place(mapped, "image", Framed(wanted, claimed.base))
  BY <1>1 DEF MapStagedImage
<1> HIDE DEF Flags, Gaps, covered
<1>15. bits \in Seq(SUBSET PageBits) /\ Len(bits) = covered
  BY <1>12, <1>13
<1>16. PICK y : y = mapped
  OBVIOUS
<1>17. PICK t : t = bits
  OBVIOUS
<1>18. t \in Seq(SUBSET PageBits) /\ Len(t) = covered /\ y = MapPagesInto(x, b, frame, t)
  BY <1>2, <1>6, <1>8, <1>15, <1>16, <1>17
<1>19. MapStagedImage(sp, img, claimed) =
         IF y.ok /\ Gaps # {} THEN Undo("invalid", y, p.frame, p.count) ELSE Place(y, "image", p)
  BY <1>2, <1>8, <1>9, <1>10, <1>14, <1>16
<1> HIDE DEF bits, mapped
<1>20. x.ok = TRUE /\ x.space = sp /\ sp \in Spaces
  BY <1>6 DEF SpaceGood
<1>21. /\ y \in Walks(Objects(s), With(rest, "image", frames), sp)
       /\ MappedPart(x, y, b, Len(t))
  BY <1>7, <1>18, <1>20, PagesMapped
<1>22. PICK k \in Nat : /\ Grown(sp.leaves, y.space.leaves, b, k)
                        /\ y.ok => k = covered
                        /\ ~y.ok => k < covered
  BY <1>18, <1>20, <1>21 DEF MappedPart
<1>23. Mapping(sp, "image", p, Objects(s), rest, y, k)
  BY <1>2, <1>5, <1>7, <1>8, <1>10, <1>11, <1>21, <1>22 DEF Mapping
<1>24. CASE y.ok /\ Gaps # {}
  <2>1. k < p.count
    BY <1>10, <1>12, <1>22, <1>24
  <2>2. Settled(Undo("invalid", y, p.frame, p.count), Objects(s), rest)
    BY <1>23, <2>1, UndoIs
  <2>3. QED BY <1>2, <1>3, <1>19, <1>24, <2>2
<1>25. CASE ~(y.ok /\ Gaps # {})
  <2>1. IF y.ok THEN k = p.count ELSE k < p.count
    BY <1>2, <1>10, <1>12, <1>22, <1>25
  <2>2. Settled(Place(y, "image", p), Objects(s), rest)
    BY <1>23, <2>1, PlaceIs
  <2>3. QED BY <1>2, <1>3, <1>19, <1>25, <2>2
<1>26. QED BY <1>24, <1>25

LEMMA AttachSettled ==
  ASSUME PlacesApart, NEW sp, SpaceGood(sp), NEW img \in Images,
         NEW rest \in Rests, NEW s, Held(s, sp, rest), NEW at \in Objects(s)
  PROVE  Settled(AttachOutcome(s, at, sp, img), Objects(s), rest)
<1> DEFINE Again(x) == IF HasLayout(img) THEN PopulateRequested(x, "image", WantedImage(img))
                       ELSE [found |-> FALSE, space |-> x]
<1>1. "image" \in Parts /\ img.valid \in BOOLEAN /\ sp.has \subseteq Parts
  BY SpaceRequestsAssumption, RegionsAre DEF Parts
<1>2. EnsureTracked(s, at, sp) = s
  <2>1. HeapGood(s) /\ s \in Stores /\ sp \in Spaces
    BY DEF Held, HeapGood
  <2>2. at[1] \in FramesOf(s, "address_space_object")
    BY <2>1, ObjectGivesMemory DEF ObjectGiven
  <2>3. sp.root \in FramesOf(s, "page_table")
    <3>1. sp.root \in Own(sp, "page_table") /\ "page_table" \in SpaceUsages
      BY DEF Own, TableFrames, SpaceUsages
    <3>2. QED BY <3>1 DEF Held
  <2>4. QED BY <2>1, <2>2, <2>3, TrackedAlready DEF FramesOf
<1>3. CASE ~img.valid
  <2>1. AttachOutcome(s, at, sp, img) = Answered("invalid", s, sp)
    BY <1>2, <1>3 DEF AttachOutcome
  <2>2. QED BY <2>1, SameSettled
<1>4. CASE img.valid /\ "image" \in sp.has
  <2>1. AttachOutcome(s, at, sp, img) = FromRequested(s, Again(sp))
    BY <1>2, <1>4 DEF AttachOutcome
  <2>2. Again(sp).space = sp
    <3>1. CASE HasLayout(img)
      <4>1. Again(sp) = PopulateRequested(sp, "image", WantedImage(img))
        BY <3>1
      <4>2. QED BY <1>1, <1>4, <3>1, <4>1, WantedImageIs, PopulatedIs
    <3>2. CASE ~HasLayout(img)
      BY <3>2
    <3>3. QED BY <3>1, <3>2
  <2> HIDE DEF Again
  <2>3. QED BY <2>1, <2>2, FoundSettled
<1>5. CASE img.valid /\ "image" \notin sp.has
  <2>1. sp.parts["image"] = NoPart
    BY <1>1, <1>5, PartIs
  <2>2. PICK repaired : repaired = IF HasLayout(img) THEN RepairFromMappings(sp, "image", WantedImage(img))
                                   ELSE [found |-> FALSE, space |-> sp]
    OBVIOUS
  <2>3. AttachOutcome(s, at, sp, img) =
          IF repaired.found THEN Answered("success", s, repaired.space)
          ELSE IF ~HasLayout(img) THEN Answered("invalid", s, sp)
          ELSE IF ~CanReserveRegion(sp, LayoutBase(img), LayoutCount(img))
          THEN FromRequested(s, Again(sp))
          ELSE StageImage(s, sp, img)
    BY <1>2, <1>5, <2>1, <2>2 DEF AttachOutcome
  <2>4. ~repaired.found
    <3>1. CASE HasLayout(img)
      <4>1. PICK wanted : wanted = WantedImage(img)
        OBVIOUS
      <4>2. <<"image", wanted.base, wanted.count, wanted.entry>> \in Places
        BY <1>5, <3>1, <4>1, WantedImageIs DEF Wanted
      <4>3. RepairFromMappings(sp, "image", wanted) = [found |-> FALSE, space |-> sp]
        BY ONLY <1>1, <1>5, <4>2, RepairedIs, SpaceGood(sp)
      <4>4. repaired = [found |-> FALSE, space |-> sp]
        BY <2>2, <3>1, <4>1, <4>3
      <4>5. QED BY <4>4
    <3>2. CASE ~HasLayout(img)
      BY <2>2, <3>2
    <3>3. QED BY <3>1, <3>2
  <2>5. CASE ~HasLayout(img)
    BY <2>3, <2>4, <2>5, SameSettled
  <2>6. CASE HasLayout(img) /\ ~CanReserveRegion(sp, LayoutBase(img), LayoutCount(img))
    <3>1. AttachOutcome(s, at, sp, img) = FromRequested(s, Again(sp))
      BY <2>3, <2>4, <2>6
    <3>2. Again(sp) = PopulateRequested(sp, "image", WantedImage(img))
      BY <2>6
    <3>3. Again(sp).space = sp
      BY <1>1, <1>5, <2>6, <3>2, WantedImageIs, PopulatedIs
    <3> HIDE DEF Again
    <3>4. QED BY <3>1, <3>3, FoundSettled
  <2>7. CASE HasLayout(img) /\ CanReserveRegion(sp, LayoutBase(img), LayoutCount(img))
    <3>1. AttachOutcome(s, at, sp, img) = StageImage(s, sp, img)
      BY <2>3, <2>4, <2>7
    <3>2. PICK claimed : claimed = Claim(s, LayoutCount(img), "service_image")
      OBVIOUS
    <3>3. PICK staged : staged = IF img.complete THEN claimed ELSE [claimed EXCEPT !.ok = FALSE, !.store = s]
      OBVIOUS
    <3>4. StageImage(s, sp, img) = IF staged.ok THEN MapStagedImage(sp, img, staged)
                                   ELSE Answered("no resources", s, sp)
      BY <3>2, <3>3 DEF StageImage, StageImageIntoPhysicalMemory
    <3>5. CASE staged.ok
      <4>1. claimed \in [ok : {claimed.ok}, store : {claimed.store}, base : {claimed.base}]
        BY <3>2 DEF Claim
      <4>2. [claimed EXCEPT !.ok = FALSE, !.store = s].ok = FALSE
        BY <4>1
      <4>3. staged = claimed /\ claimed.ok
        BY <3>3, <3>5, <4>2
      <4>4. Settled(MapStagedImage(sp, img, claimed), Objects(s), rest)
        BY <1>5, <2>7, <3>2, <4>3, StagedIsMapped
      <4>5. QED BY <3>1, <3>4, <3>5, <4>3, <4>4
    <3>6. CASE ~staged.ok
      BY <3>1, <3>4, <3>6, SameSettled
    <3>7. QED BY <3>5, <3>6
  <2>8. QED BY <2>5, <2>6, <2>7
<1>6. QED BY <1>1, <1>3, <1>4, <1>5

-----------------------------------------------------------------------------
(* Allocating a stack.                                                     *)

(* A stack that is asked for again, at a base or where the service has it. *)
StackAgain(sp, base, count) ==
  LET at == IF base = 0 THEN SelectStackBase(sp, 0, count) ELSE base
  IN IF at = 0 THEN [found |-> FALSE, space |-> sp]
     ELSE PopulateRequested(sp, "stack", [base |-> at, count |-> count, entry |-> 0])

LEMMA StackAgainIs ==
  ASSUME PlacesApart, NEW sp, SpaceGood(sp), NEW r \in StackRequests, NEW base,
         base = r.base \/ (base # 0 /\ <<"stack", base, r.count, 0>> \in Places)
  PROVE  StackAgain(sp, base, r.count).space = sp
<1>1. PICK count : count = r.count
  OBVIOUS
<1>2. PICK at : at = IF base = 0 THEN SelectStackBase(sp, 0, count) ELSE base
  OBVIOUS
<1>3. ASSUME at # 0
      PROVE  <<"stack", at, count, 0>> \in Places
  <2>1. CASE base # 0 /\ base = r.base
    <3>1. base \in StackBases(r) /\ at = base
      BY <1>2, <2>1 DEF StackBases
    <3>2. QED BY <1>1, <3>1, StackPlace
  <2>2. CASE base # 0 /\ base # r.base
    BY <1>1, <1>2, <2>2
  <2>3. CASE base = 0
    <3>1. at = SelectStackBase(sp, r.base, r.count)
      BY <1>1, <1>2, <2>3
    <3>2. QED BY <1>1, <1>3, <3>1, StackBaseIs
  <2>4. QED BY <2>1, <2>2, <2>3
<1>4. CASE at = 0
  <2>1. StackAgain(sp, base, r.count) = [found |-> FALSE, space |-> sp]
    BY <1>1, <1>2, <1>4 DEF StackAgain
  <2>2. QED BY <2>1
<1>5. CASE at # 0
  <2>1. PICK w : w = [base |-> at, count |-> count, entry |-> 0]
    OBVIOUS
  <2>2. w.base = at /\ w.count = count /\ w.entry = 0
    BY <2>1
  <2>3. Wanted("stack", w) /\ "stack" \in Parts
    BY <1>3, <1>5, <2>1, <2>2 DEF Wanted, Parts
  <2>4. StackAgain(sp, base, r.count) = PopulateRequested(sp, "stack", w)
    BY <1>1, <1>2, <1>5, <2>1 DEF StackAgain
  <2>5. QED BY <2>3, <2>4, PopulatedIs
<1>6. QED BY <1>4, <1>5

LEMMA AlikeIs ==
  ASSUME NEW count \in Nat, NEW flags \in SUBSET PageBits
  PROVE  Alike(count, flags) \in Seq(SUBSET PageBits) /\ Len(Alike(count, flags)) = count
BY DEF Alike

LEMMA StackIsMapped ==
  ASSUME PlacesApart, NEW sp, SpaceGood(sp), "stack" \notin sp.has, NEW count,
         NEW base, base # 0, <<"stack", base, count, 0>> \in Places,
         CanReserveRegion(sp, base, count),
         NEW rest \in Rests, NEW s, Held(s, sp, rest),
         NEW claimed, claimed = Claim(s, count, "service_stack"), claimed.ok,
         NEW x, x = [ok |-> TRUE, store |-> claimed.store, space |-> sp],
         NEW wanted, wanted = [base |-> base, count |-> count, entry |-> 0]
  PROVE  Settled(Place(MapPagesInto(x, base, claimed.base, Alike(count, StackFlags)), "stack",
                       Framed(wanted, claimed.base)), Objects(s), rest)
<1>1. PICK q \in Places : q = <<"stack", base, count, 0>>
  OBVIOUS
<1>2. base \in Nat /\ count \in Nat /\ count > 0
  BY <1>1, PlacesTyped
<1>3. sp.parts["stack"] = NoPart /\ UsageOf("stack") = "service_stack" /\ "stack" \in Parts
  BY PartIs DEF UsageOf, Parts
<1>4. PICK frames : frames = Extent(claimed.base, count)
  OBVIOUS
<1>5. /\ claimed.base \in Nat /\ claimed.base > 0
      /\ rest[UsageOf("stack")] \cap frames = {}
      /\ x \in Walks(Objects(s), With(rest, "stack", frames), sp)
  BY <1>2, <1>3, <1>4, ClaimedIs
<1>6. PICK frame \in Nat : frame = claimed.base /\ frame > 0
  BY <1>5
<1>7. PICK p : p = Framed(wanted, frame)
  OBVIOUS
<1>8. p.frame = frame /\ p.base = base /\ p.count = count /\ p.entry = 0 /\ p \in PartRecords
  BY <1>2, <1>7 DEF Framed, PartRecords
<1>9. Putting(sp, "stack", p)
  BY <1>1, <1>3, <1>6, <1>8 DEF Putting, Parts
<1>10. PICK t : t = Alike(count, StackFlags)
  OBVIOUS
<1>11. t \in Seq(SUBSET PageBits) /\ Len(t) = count
  <2>1. StackFlags \in SUBSET PageBits
    BY DEF StackFlags, PageBits, AllowedFlags
  <2>2. QED BY <1>2, <1>10, <2>1, AlikeIs
<1>12. PICK y : y = MapPagesInto(x, base, frame, t)
  OBVIOUS
<1>13. x.ok = TRUE /\ x.space = sp /\ sp \in Spaces
  BY DEF SpaceGood
<1>14. /\ y \in Walks(Objects(s), With(rest, "stack", frames), sp)
       /\ MappedPart(x, y, base, Len(t))
  BY <1>2, <1>5, <1>11, <1>12, <1>13, PagesMapped
<1>15. PICK k \in Nat : /\ Grown(sp.leaves, y.space.leaves, base, k)
                        /\ y.ok => k = count
                        /\ ~y.ok => k < count
  BY <1>11, <1>13, <1>14 DEF MappedPart
<1>16. Mapping(sp, "stack", p, Objects(s), rest, y, k)
  BY <1>4, <1>5, <1>6, <1>8, <1>9, <1>14, <1>15 DEF Mapping
<1>17. IF y.ok THEN k = p.count ELSE k < p.count
  BY <1>8, <1>15
<1>18. Settled(Place(y, "stack", p), Objects(s), rest)
  BY <1>16, <1>17, PlaceIs
<1>19. QED BY <1>6, <1>7, <1>10, <1>12, <1>18

LEMMA StackSettled ==
  ASSUME PlacesApart, NEW sp, SpaceGood(sp), NEW r \in StackRequests,
         NEW rest \in Rests, NEW s, Held(s, sp, rest)
  PROVE  Settled(StackOutcome(s, sp, r), Objects(s), rest)
<1>1. PICK count, base, claimed : /\ count = r.count /\ base = SelectStackBase(sp, r.base, count)
                                  /\ claimed = Claim(s, count, "service_stack")
  OBVIOUS
<1>2. PICK x, wanted : /\ x = [ok |-> TRUE, store |-> claimed.store, space |-> sp]
                       /\ wanted = [base |-> base, count |-> count, entry |-> 0]
  OBVIOUS
<1>3. base # 0 => <<"stack", base, count, 0>> \in Places
  BY <1>1, StackBaseIs
<1>4. CASE "stack" \in sp.has
  <2>1. StackOutcome(s, sp, r) = FromRequested(s, StackAgain(sp, r.base, count))
    BY <1>1, <1>4 DEF StackOutcome, StackAgain
  <2>2. StackAgain(sp, r.base, count).space = sp
    BY <1>1, StackAgainIs
  <2>3. QED BY <2>1, <2>2, FoundSettled
<1>5. CASE "stack" \notin sp.has
  <2>1. sp.parts["stack"] = NoPart
    BY <1>5, PartIs DEF Parts
  <2>2. StackOutcome(s, sp, r) =
          IF base = 0 THEN FromRequested(s, StackAgain(sp, r.base, count))
          ELSE IF ~CanReserveRegion(sp, base, count) THEN FromRequested(s, StackAgain(sp, base, count))
          ELSE IF ~claimed.ok THEN Answered("no resources", s, sp)
          ELSE Place(MapPagesInto(x, base, claimed.base, Alike(count, StackFlags)), "stack",
                     Framed(wanted, claimed.base))
    BY <1>1, <1>2, <1>5, <2>1 DEF StackOutcome, StackAgain
  <2>3. CASE base = 0
    <3>1. StackAgain(sp, r.base, count).space = sp
      BY <1>1, StackAgainIs
    <3>2. QED BY <2>2, <2>3, <3>1, FoundSettled
  <2>4. CASE base # 0 /\ ~CanReserveRegion(sp, base, count)
    <3>1. StackAgain(sp, base, count).space = sp
      BY <1>1, <1>3, <2>4, StackAgainIs
    <3>2. QED BY <2>2, <2>4, <3>1, FoundSettled
  <2>5. CASE base # 0 /\ CanReserveRegion(sp, base, count) /\ ~claimed.ok
    BY <2>2, <2>5, SameSettled
  <2>6. CASE base # 0 /\ CanReserveRegion(sp, base, count) /\ claimed.ok
    <3>1. Settled(Place(MapPagesInto(x, base, claimed.base, Alike(count, StackFlags)), "stack",
                        Framed(wanted, claimed.base)), Objects(s), rest)
      BY <1>1, <1>2, <1>3, <1>5, <2>6, StackIsMapped
    <3>2. QED BY <2>2, <2>6, <3>1
  <2>7. QED BY <2>3, <2>4, <2>5, <2>6
<1>6. QED BY <1>4, <1>5

-----------------------------------------------------------------------------
(* Mapping, unmapping and protecting pages of a part that is placed.       *)

(* Every page of a part, and only those, may be mapped or not as before.   *)
ChangedIn(sp, t, p) ==
  \A v \in Nat \ Extent(sp.parts[p].base, sp.parts[p].count) :
    v \in DOMAIN t.leaves <=> v \in DOMAIN sp.leaves

LEMMA ChangedInPlace ==
  ASSUME PlacesApart, NEW sp, SpaceGood(sp), NEW p \in sp.has, NEW t \in Spaces,
         TablesOnly(sp, t), TablesApart(t), ChangedIn(sp, t, p)
  PROVE  SpaceGood(t)
<1>1. p \in Parts /\ sp.has \subseteq Parts
  BY RegionsAre
<1>2. t.parts = sp.parts /\ t.has = sp.has /\ t.regions = sp.regions
  BY DEF TablesOnly
<1>3. PICK at \in Places : at = PlacedAt(sp, p) /\ at[1] = p /\ at[2] = sp.parts[p].base
                           /\ at[3] = sp.parts[p].count
  BY <1>1, PlacedWhere
<1>4. (\A o : PlacedAt(t, o) = PlacedAt(sp, o)) /\ PlacesTaken(t) = PlacesTaken(sp)
  <2>1. \A o : PlacedAt(t, o) = PlacedAt(sp, o)
    BY <1>2 DEF PlacedAt
  <2>2. QED BY <1>2, <2>1 DEF PlacesTaken
<1>5. PICK old, new : old = sp.leaves /\ new = t.leaves /\ DOMAIN old \subseteq Nat /\ DOMAIN new \subseteq Nat
  <2>1. sp \in Spaces
    BY DEF SpaceGood
  <2>2. DOMAIN sp.leaves \subseteq Nat /\ DOMAIN t.leaves \subseteq Nat
    BY <2>1, SpaceFields, PartialIs
  <2>3. QED BY <2>2
<1>6. ASSUME NEW q \in Places, q # at
      PROVE  (DOMAIN new) \cap Extent(q[2], q[3]) = (DOMAIN old) \cap Extent(q[2], q[3])
  <2>1. Extent(at[2], at[3]) \cap Extent(q[2], q[3]) = {}
    BY <1>6, PlacesShareNothing
  <2>2. PICK e : e = Extent(at[2], at[3])
    OBVIOUS
  <2>3. \A v \in Nat \ e : v \in DOMAIN new <=> v \in DOMAIN old
    BY <1>3, <1>5, <2>2 DEF ChangedIn
  <2>4. QED BY <1>5, <2>1, <2>2, <2>3
<1>7. \A o \in Parts : PartGood(t, o)
  BY <1>2, <1>4 DEF SpaceGood, PartGood
<1>8. RegionsGood(t)
  <2>1. \A o : RegionOf(t, o) = RegionOf(sp, o)
    BY <1>2 DEF RegionOf
  <2>2. RegionsGood(sp)
    BY DEF SpaceGood
  <2>3. QED BY <1>2, <2>1, <2>2 DEF RegionsGood
<1>9. ASSUME NEW q \in Places, q \notin PlacesTaken(t)
      PROVE  Halfway(t.leaves, q)
  <2>1. q # at
    BY <1>3, <1>4, <1>9 DEF PlacesTaken
  <2>2. Halfway(sp.leaves, q)
    BY <1>4, <1>9 DEF SpaceGood
  <2>3. QED BY <1>5, <1>6, <2>1, <2>2 DEF Halfway
<1>10. QED BY <1>7, <1>8, <1>9 DEF SpaceGood

(* The region behind a page of a part, and what a reserved range lies in.  *)
LEMMA RegionBehind ==
  ASSUME PlacesApart, NEW sp, SpaceGood(sp), NEW p \in sp.has,
         NEW v \in Extent(sp.parts[p].base, sp.parts[p].count)
  PROVE  BackingOf(sp, v) = sp.parts[p].frame + v - sp.parts[p].base
<1> DEFINE behind == {r \in ToSet(sp.regions) : v \in Extent(r.base, r.count)}
<1>1. p \in Parts /\ sp.has \subseteq Parts
  BY RegionsAre
<1>2. PICK reg : reg = RegionOf(sp, p)
  OBVIOUS
<1>3. reg.base = sp.parts[p].base /\ reg.count = sp.parts[p].count /\ reg.backing = sp.parts[p].frame
  BY <1>2 DEF RegionOf
<1>4. reg \in behind
  BY <1>2, <1>3, RegionsAre
<1>5. ASSUME NEW r \in behind
      PROVE  r = reg
  <2>1. r \in ToSet(sp.regions) /\ v \in Extent(r.base, r.count)
    OBVIOUS
  <2>2. PICK o \in sp.has : r = RegionOf(sp, o)
    BY <2>1, RegionsAre
  <2>3. r.base = sp.parts[o].base /\ r.count = sp.parts[o].count
    BY <2>2 DEF RegionOf
  <2>4. PICK a, b \in Places : /\ a = PlacedAt(sp, p) /\ a[1] = p /\ a[2] = sp.parts[p].base
                               /\ a[3] = sp.parts[p].count
                               /\ b = PlacedAt(sp, o) /\ b[1] = o /\ b[2] = sp.parts[o].base
                               /\ b[3] = sp.parts[o].count
    <3>1. o \in Parts /\ p \in Parts
      BY <1>1
    <3>2. \E a \in Places : /\ a = PlacedAt(sp, p) /\ a[1] = p /\ a[2] = sp.parts[p].base
                            /\ a[3] = sp.parts[p].count
      BY <3>1, PlacedWhere
    <3>3. \E b \in Places : /\ b = PlacedAt(sp, o) /\ b[1] = o /\ b[2] = sp.parts[o].base
                            /\ b[3] = sp.parts[o].count
      BY <3>1, PlacedWhere
    <3>4. QED BY <3>2, <3>3
  <2>5. v \in Extent(a[2], a[3]) \cap Extent(b[2], b[3])
    BY <2>1, <2>3, <2>4
  <2>6. a = b
    BY <2>5, PlacesShareNothing
  <2>7. QED BY <1>2, <2>2, <2>4, <2>6
<1>6. BackingOf(sp, v) =
        IF behind = {} THEN 0 ELSE (CHOOSE x \in behind : TRUE).backing + v - (CHOOSE x \in behind : TRUE).base
  BY DEF BackingOf
<1>7. (CHOOSE x \in behind : TRUE) = reg /\ behind # {}
  <2> HIDE DEF behind
  <2>1. QED BY <1>4, <1>5
<1> HIDE DEF behind
<1>8. QED BY <1>3, <1>6, <1>7

LEMMA ReservedRange ==
  ASSUME NEW sp, SpaceGood(sp), NEW base \in Nat, NEW count \in Nat, IsVirtualRangeReserved(sp, base, count)
  PROVE  \E p \in sp.has : Extent(base, count) \subseteq Extent(sp.parts[p].base, sp.parts[p].count)
                           /\ (count > 0 => base \in Extent(sp.parts[p].base, sp.parts[p].count))
<1>1. PICK i \in DOMAIN sp.regions :
        base >= sp.regions[i].base /\ base + count <= sp.regions[i].base + sp.regions[i].count
  BY DEF IsVirtualRangeReserved
<1>2. PICK r \in ToSet(sp.regions) : r = sp.regions[i]
  BY <1>1, RegionsAre
<1>3. PICK p \in sp.has : r = RegionOf(sp, p)
  BY <1>2, RegionsAre
<1>4. PICK b, c : b = sp.parts[p].base /\ c = sp.parts[p].count
  OBVIOUS
<1>5. r.base = b /\ r.count = c
  BY <1>3, <1>4 DEF RegionOf
<1>6. b \in Nat /\ c \in Nat
  BY <1>4, PartIs, RegionsAre
<1>7. base >= b /\ base + count <= b + c
  BY <1>1, <1>2, <1>5
<1>8. Extent(base, count) \subseteq Extent(b, c) /\ (count > 0 => base \in Extent(b, c))
  BY <1>6, <1>7 DEF Extent
<1>9. QED BY <1>4, <1>8

-----------------------------------------------------------------------------
(* What the three page requests leave.                                     *)

LEMMA PageRequestIs ==
  ASSUME NEW r \in PageRequests
  PROVE  /\ r.base \in Nat /\ r.count \in Nat /\ r.count > 0 /\ r.frame \in Nat
         /\ [r EXCEPT !.flags = {}].base = r.base /\ [r EXCEPT !.flags = {}].count = r.count
<1>1. r \in [base : Nat, count : Nat \ {0}, frame : Nat, flags : SUBSET STRING]
  BY SpaceRequestsAssumption
<1>2. QED BY <1>1

LEMMA PagesPrefix ==
  ASSUME NEW sp, NEW base, NEW count
  PROVE  MappedPrefix(sp, base, count) \subseteq Extent(base, count)
BY DEF MappedPrefix

(* Mapping any frames at pages of a part.                                  *)
LEMMA MapSettled ==
  ASSUME PlacesApart, NEW sp, SpaceGood(sp), NEW s, NEW rest, Held(s, sp, rest),
         NEW base \in Nat, NEW frame \in Nat, NEW count \in Nat, count > 0,
         NEW flags \in SUBSET PageBits, IsVirtualRangeReserved(sp, base, count),
         NEW x0, x0 = [ok |-> TRUE, store |-> s, space |-> sp],
         NEW x, x = MapPagesInto(x0, base, frame, Alike(count, flags)),
         NEW o, o.store = x.store, o.space = x.space
  PROVE  Settled(o, Objects(s), rest)
<1>1. PICK p \in sp.has : Extent(base, count) \subseteq Extent(sp.parts[p].base, sp.parts[p].count)
  BY ReservedRange
<1>2. PICK b, c : b = sp.parts[p].base /\ c = sp.parts[p].count
  OBVIOUS
<1>3. PICK bits : bits = Alike(count, flags) /\ bits \in Seq(SUBSET PageBits) /\ Len(bits) = count
  BY AlikeIs
<1>4. sp \in Spaces /\ x0.ok = TRUE /\ x0.store = s /\ x0.space = sp /\ HeapGood(s) /\ s \in Stores
  BY DEF Held, HeapGood
<1>5. x0 \in Walks(Objects(s), rest, sp)
  <2>1. x0 \in [ok : BOOLEAN, store : Stores, space : Spaces]
    BY <1>4
  <2>2. TablesOnly(sp, sp)
    BY DEF TablesOnly
  <2>3. QED BY <1>4, <2>1, <2>2 DEF Walks
<1>6. x = MapPagesInto(x0, base, frame, bits)
  BY <1>3
<1>7. x \in Walks(Objects(s), rest, sp) /\ MappedPart(x0, x, base, count)
  BY <1>3, <1>4, <1>5, <1>6, PagesMapped
<1>8. PICK k \in Nat : Grown(sp.leaves, x.space.leaves, base, k) /\ k <= count
  <2>1. PICK k \in Nat : /\ Grown(sp.leaves, x.space.leaves, base, k)
                         /\ x.ok => k = count
                         /\ ~x.ok => k < count
    BY <1>4, <1>7 DEF MappedPart
  <2>2. k <= count
    BY <2>1
  <2>3. QED BY <2>1, <2>2
<1>9. PICK t : t = x.space
  OBVIOUS
<1>10. Held(x.store, t, rest) /\ Objects(x.store) = Objects(s) /\ TablesOnly(sp, t)
       /\ t \in Spaces /\ TablesApart(t)
  BY <1>7, <1>9 DEF Walks, Held
<1>11. DOMAIN t.leaves = DOMAIN sp.leaves \cup Extent(base, k)
  BY <1>8, <1>9 DEF Grown
<1>12. Extent(base, k) \subseteq Extent(b, c)
  <2>1. Extent(base, k) \subseteq Extent(base, count)
    BY <1>8 DEF Extent
  <2>2. QED BY <1>1, <1>2, <2>1
<1>13. ChangedIn(sp, t, p)
  BY <1>2, <1>11, <1>12 DEF ChangedIn
<1>14. SpaceGood(t)
  BY <1>10, <1>13, ChangedInPlace
<1>15. QED BY <1>9, <1>10, <1>14 DEF Settled

(* The leaves alone differ.                                                *)
LEMMA LeavesOnly ==
  ASSUME PlacesApart, NEW sp, SpaceGood(sp), NEW s, NEW rest, Held(s, sp, rest), NEW p \in sp.has,
         NEW leaves \in Partial(Nat, Leaves), NEW t, t = [sp EXCEPT !.leaves = leaves],
         ChangedIn(sp, t, p), NEW o, o.store = s, o.space = t
  PROVE  Settled(o, Objects(s), rest)
<1>1. sp \in Spaces
  BY DEF SpaceGood
<1>2. /\ t.root = sp.root /\ t.nodes = sp.nodes /\ t.leaves = leaves /\ t.regions = sp.regions
      /\ t.parts = sp.parts /\ t.has = sp.has
      /\ t = [root |-> sp.root, nodes |-> sp.nodes, leaves |-> leaves,
              regions |-> sp.regions, parts |-> sp.parts, has |-> sp.has]
  BY <1>1, SpaceFields
<1>3. t \in Spaces
  BY <1>1, <1>2, SpaceFields DEF Spaces
<1>4. TablesOnly(sp, t) /\ TablesApart(t)
  BY <1>2 DEF SpaceGood, TablesOnly, TablesApart
<1>5. SpaceGood(t)
  BY <1>3, <1>4, ChangedInPlace
<1>6. \A u : Own(t, u) = Own(sp, u)
  BY <1>2 DEF Own, PartFrames, TableFrames
<1>7. Held(s, t, rest)
  BY <1>3, <1>4, <1>6 DEF Held
<1>8. QED BY <1>5, <1>7 DEF Settled

LEMMA UnmapSettled ==
  ASSUME PlacesApart, NEW sp, SpaceGood(sp), NEW s, NEW rest, Held(s, sp, rest),
         NEW base \in Nat, NEW count \in Nat, IsVirtualRangeReserved(sp, base, count),
         NEW o, o.store = s, o.space = UnmapFrom(sp, base, count)
  PROVE  Settled(o, Objects(s), rest)
<1>1. PICK p \in sp.has : Extent(base, count) \subseteq Extent(sp.parts[p].base, sp.parts[p].count)
  BY ReservedRange
<1>2. PICK prefix : prefix = MappedPrefix(sp, base, count)
  OBVIOUS
<1>3. prefix \subseteq Extent(sp.parts[p].base, sp.parts[p].count)
  BY <1>1, <1>2, PagesPrefix
<1>4. PICK old, new : old = sp.leaves /\ new = Without(old, prefix)
  OBVIOUS
<1>5. sp \in Spaces /\ old \in Partial(Nat, Leaves)
  BY <1>4, SpaceFields DEF SpaceGood
<1>6. /\ new \in Partial(Nat, Leaves) /\ DOMAIN new = DOMAIN old \ prefix
      /\ \A v \in DOMAIN old \ prefix : new[v] = old[v]
  <2>1. PICK w : w = Without(old, prefix)
    OBVIOUS
  <2>2. /\ w \in Partial(Nat, Leaves) /\ DOMAIN w = DOMAIN old \ prefix
        /\ \A v \in DOMAIN old \ prefix : w[v] = old[v]
    <3>1. LeftWithout(Nat, Leaves, old, prefix, w)
      BY <1>5, <2>1, WithoutIsPartial
    <3>2. QED BY <3>1 DEF LeftWithout
  <2>3. QED BY <1>4, <2>1, <2>2
<1>7. PICK t : t = [sp EXCEPT !.leaves = new]
  OBVIOUS
<1>8. t = o.space
  BY <1>2, <1>4, <1>7 DEF UnmapFrom
<1>9. t.leaves = new
  BY <1>5, <1>7, SpaceFields
<1>10. ChangedIn(sp, t, p)
  BY <1>3, <1>4, <1>6, <1>9 DEF ChangedIn
<1>11. QED BY <1>6, <1>7, <1>8, <1>10, LeavesOnly

LEMMA ProtectSettled ==
  ASSUME PlacesApart, NEW sp, SpaceGood(sp), NEW s, NEW rest, Held(s, sp, rest),
         NEW base \in Nat, NEW count \in Nat, NEW flags \in SUBSET PageBits,
         IsVirtualRangeReserved(sp, base, count),
         NEW o, o.store = s, o.space = ProtectIn(sp, base, count, flags)
  PROVE  Settled(o, Objects(s), rest)
<1>1. PICK p \in sp.has : Extent(base, count) \subseteq Extent(sp.parts[p].base, sp.parts[p].count)
  BY ReservedRange
<1>2. PICK prefix : prefix = MappedPrefix(sp, base, count)
  OBVIOUS
<1>3. PICK old, keys : old = sp.leaves /\ keys = DOMAIN old
  OBVIOUS
<1>4. PICK new : new = [v \in keys |-> IF v \in prefix THEN [old[v] EXCEPT !.flags = flags] ELSE old[v]]
  OBVIOUS
<1>5. sp \in Spaces /\ old \in Partial(Nat, Leaves)
  BY <1>3, SpaceFields DEF SpaceGood
<1>6. keys \subseteq Nat /\ \A v \in keys : old[v] \in Leaves
  BY <1>3, <1>5, PartialIs
<1>7. ASSUME NEW v \in keys
      PROVE  new[v] \in Leaves /\ new[v].frame = old[v].frame
  <2>1. PICK leaf \in Leaves : leaf = old[v]
    BY <1>6
  <2>2. [leaf EXCEPT !.flags = flags] \in Leaves /\ [leaf EXCEPT !.flags = flags].frame = leaf.frame
    BY DEF Leaves
  <2>3. new[v] = IF v \in prefix THEN [leaf EXCEPT !.flags = flags] ELSE leaf
    BY <1>4, <2>1
  <2>4. QED BY <2>1, <2>2, <2>3
<1>8. DOMAIN new = keys /\ new = [v \in DOMAIN new |-> new[v]]
  BY <1>4
<1>9. new \in Partial(Nat, Leaves)
  BY <1>6, <1>7, <1>8, PartialIs
<1>10. PICK t : t = [sp EXCEPT !.leaves = new]
  OBVIOUS
<1>11. t = o.space
  BY <1>2, <1>3, <1>4, <1>10 DEF ProtectIn
<1>12. t.leaves = new
  BY <1>5, <1>10, SpaceFields
<1>13. prefix \subseteq Extent(sp.parts[p].base, sp.parts[p].count)
  BY <1>1, <1>2, PagesPrefix
<1>14. ChangedIn(sp, t, p)
  <2>1. DOMAIN new = keys /\ \A v \in keys \ prefix : new[v] = old[v]
    BY <1>4
  <2>2. QED BY <1>3, <1>12, <1>13, <2>1 DEF ChangedIn
<1>15. QED BY <1>9, <1>10, <1>11, <1>14, LeavesOnly

-----------------------------------------------------------------------------
(* Destroying: the order in which the tables are freed exists.             *)

InOrder(q, nodes, n) ==
  /\ q \in [1 .. n -> nodes]
  /\ \A i, j \in 1 .. n : i < j => q[i] # q[j] /\ Deeper(q[i], q[j])

LEMMA NodeIs ==
  ASSUME NEW node \in NodeIds
  PROVE  /\ node[1] \in Nat /\ LastPage(node) \in Nat /\ node = <<node[1], node[2]>>
<1>1. Levels \in Nat /\ TableSpans \in [1 .. Levels -> Nat \ {0}]
  BY SpacesAssumption DEF Levels
<1>2. node[1] \in 1 .. Levels /\ node[2] \in Nat /\ node = <<node[1], node[2]>>
  BY DEF NodeIds
<1>3. PICK a, b \in Nat : a = node[2] /\ b = TableSpans[node[1]]
  BY <1>1, <1>2
<1>4. (a + 1) * b \in Nat
  OBVIOUS
<1>5. LastPage(node) = (a + 1) * b
  BY <1>3 DEF LastPage
<1>6. QED BY <1>1, <1>2, <1>4, <1>5

LEMMA FirstInOrder ==
  ASSUME NEW S \in SUBSET NodeIds, S # {}
  PROVE  \E m \in S : \A x \in S : Deeper(m, x)
<1> DEFINE ends == {LastPage(x) : x \in S}
           end == Min(ends)
           last == {x \in S : LastPage(x) = end}
           levels == {x[1] : x \in last}
           level == Min(levels)
<1>1. ends \in SUBSET Nat /\ ends # {}
  BY NodeIs
<1>2. end \in ends /\ \A x \in ends : end <= x
  <2> HIDE DEF ends
  <2>1. QED BY <1>1, MinOfNaturals
<1>3. last # {} /\ last \subseteq S
  BY <1>2
<1> HIDE DEF end
<1>4. levels \in SUBSET Nat /\ levels # {}
  BY <1>3, NodeIs
<1>5. level \in levels /\ \A x \in levels : level <= x
  <2> HIDE DEF levels
  <2>1. QED BY <1>4, MinOfNaturals
<1> HIDE DEF level
<1>6. PICK m \in last : m[1] = level
  BY <1>5
<1>7. ASSUME NEW x \in S
      PROVE  Deeper(m, x)
  <2>1. LastPage(m) = end /\ end <= LastPage(x)
    BY <1>2
  <2>2. LastPage(x) = end => m[1] <= x[1]
    BY <1>5, <1>6
  <2>3. LastPage(x) \in Nat /\ end \in Nat
    BY <1>1, <1>2, NodeIs
  <2>4. QED BY <2>1, <2>2, <2>3 DEF Deeper
<1>8. QED BY <1>3, <1>7

Ordered(n) ==
  \A S \in SUBSET NodeIds : IsFiniteSet(S) /\ Cardinality(S) = n => \E q : InOrder(q, S, n)

LEMMA OrderExists ==
  ASSUME NEW nodes \in SUBSET NodeIds, IsFiniteSet(nodes)
  PROVE  \E q : InOrder(q, nodes, Cardinality(nodes))
<1>1. PICK n \in Nat : n = Cardinality(nodes)
  BY FS_CardinalityType
<1> DEFINE T == {k \in 0 .. n : Ordered(k)}
<1>2. 0 \in T
  <2>1. ASSUME NEW S \in SUBSET NodeIds
        PROVE  \E q : InOrder(q, S, 0)
    <3>1. InOrder([i \in 1 .. 0 |-> S], S, 0)
      BY DEF InOrder
    <3>2. QED BY <3>1
  <2>2. QED BY <2>1 DEF Ordered
<1>3. ASSUME NEW k \in 1 .. n, k - 1 \in T
      PROVE  k \in T
  <2>1. k \in Nat /\ k > 0 /\ k - 1 \in Nat /\ k \in 0 .. n
    OBVIOUS
  <2>2. ASSUME NEW S \in SUBSET NodeIds, IsFiniteSet(S), Cardinality(S) = k
        PROVE  \E q : InOrder(q, S, k)
    <3>1. S # {}
      BY <2>1, <2>2, FS_EmptySet
    <3>2. PICK m \in S : \A x \in S : Deeper(m, x)
      BY <3>1, FirstInOrder
    <3>3. PICK R : R = S \ {m}
      OBVIOUS
    <3>4. R \in SUBSET NodeIds /\ IsFiniteSet(R) /\ Cardinality(R) = k - 1
      BY <2>2, <3>3, FS_RemoveElement
    <3>5. PICK r : InOrder(r, R, k - 1)
      BY <1>3, <3>4 DEF Ordered
    <3>6. PICK q : q = [i \in 1 .. k |-> IF i = 1 THEN m ELSE r[i - 1]]
      OBVIOUS
    <3>7. \A i \in 1 .. k : i # 1 => i - 1 \in 1 .. k - 1 /\ q[i] = r[i - 1] /\ r[i - 1] \in R
      BY <2>1, <3>5, <3>6 DEF InOrder
    <3>8. 1 \in 1 .. k /\ q[1] = m
      BY <2>1, <3>6
    <3>9. q \in [1 .. k -> S]
      BY <3>3, <3>6, <3>7, <3>8
    <3>10. ASSUME NEW i \in 1 .. k, NEW j \in 1 .. k, i < j
           PROVE  q[i] # q[j] /\ Deeper(q[i], q[j])
      <4>1. j # 1 /\ q[j] = r[j - 1] /\ r[j - 1] \in R /\ j - 1 \in 1 .. k - 1
        BY <3>7, <3>10
      <4>2. CASE i = 1
        BY <3>2, <3>3, <3>8, <4>1, <4>2
      <4>3. CASE i # 1
        <5>1. q[i] = r[i - 1] /\ i - 1 \in 1 .. k - 1 /\ i - 1 < j - 1
          BY <3>7, <3>10, <4>3
        <5>2. QED BY <3>5, <4>1, <5>1 DEF InOrder
      <4>4. QED BY <4>2, <4>3
    <3>11. QED BY <3>9, <3>10 DEF InOrder
  <2>3. QED BY <2>1, <2>2 DEF Ordered
<1>4. n \in T
  <2> HIDE DEF T
  <2>1. \A k \in 0 .. n : k \in T
    BY <1>2, <1>3, NatInductionSet
  <2>2. QED BY <2>1
<1>5. QED BY <1>1, <1>4 DEF Ordered

LEMMA FreedInOrder ==
  ASSUME NEW nodes \in SUBSET NodeIds, IsFiniteSet(nodes)
  PROVE  InOrder(FreeingOrder(nodes), nodes, Cardinality(nodes))
<1>1. PICK n \in Nat : n = Cardinality(nodes)
  BY FS_CardinalityType
<1>2. PICK q : InOrder(q, nodes, n)
  BY <1>1, OrderExists
<1> DEFINE Fits(p) == \A i, j \in DOMAIN p : i < j => p[i] # p[j] /\ Deeper(p[i], p[j])
<1>3. q \in [1 .. n -> nodes] /\ Fits(q)
  BY <1>2 DEF InOrder
<1>4. FreeingOrder(nodes) = CHOOSE p \in [1 .. n -> nodes] : Fits(p)
  BY <1>1 DEF FreeingOrder
<1> HIDE DEF Fits
<1>5. FreeingOrder(nodes) \in [1 .. n -> nodes] /\ Fits(FreeingOrder(nodes))
  BY <1>3, <1>4
<1>6. QED BY <1>1, <1>5 DEF InOrder, Fits

-----------------------------------------------------------------------------
(* Freeing tables, whichever is next.                                      *)

NodeFrames(sp) == {sp.nodes[n] : n \in DOMAIN sp.nodes}
NodesApart(nodes) == \A m, n \in DOMAIN nodes : nodes[m] = nodes[n] => m = n

(* Some tables are freed: kept are the frames of the other spaces' tables  *)
(* and of the root, all are those that are free or become so, in number N. *)
TablesLeft(s, kept, all, N) ==
  {x \in [ok : {TRUE}, store : Stores, space : Spaces, pages : Nat] :
     /\ HeapGood(x.store) /\ Objects(x.store) = Objects(s)
     /\ IsFiniteSet(DOMAIN x.space.nodes) /\ x.pages + Cardinality(DOMAIN x.space.nodes) = N
     /\ NodesApart(x.space.nodes) /\ NodeFrames(x.space) \cap kept = {}
     /\ FramesOf(x.store, "page_table") = kept \cup NodeFrames(x.space)
     /\ FramesOf(x.store, "free") \cup NodeFrames(x.space) = all
     /\ \A u \in Usages : u # "page_table" /\ u # "free" => FramesOf(x.store, u) = FramesOf(s, u)}

TableGone(s, kept, all, N, x, node, y) ==
  /\ y \in TablesLeft(s, kept, all, N)
  /\ node \notin DOMAIN x.space.nodes => y = x
  /\ node \in DOMAIN x.space.nodes =>
       DOMAIN y.space.nodes = DOMAIN x.space.nodes \ {node} /\ y.pages = x.pages + 1

LEMMA TableFreed ==
  ASSUME NEW s, NEW kept, NEW all, NEW N \in Nat, NEW x \in TablesLeft(s, kept, all, N),
         NEW node \in NodeIds
  PROVE  TableGone(s, kept, all, N, x, node, FreeTable(x, node))
<1>1. /\ x \in [ok : {TRUE}, store : Stores, space : Spaces, pages : Nat]
      /\ HeapGood(x.store) /\ Objects(x.store) = Objects(s)
      /\ IsFiniteSet(DOMAIN x.space.nodes) /\ x.pages + Cardinality(DOMAIN x.space.nodes) = N
      /\ NodesApart(x.space.nodes) /\ NodeFrames(x.space) \cap kept = {}
      /\ FramesOf(x.store, "page_table") = kept \cup NodeFrames(x.space)
      /\ FramesOf(x.store, "free") \cup NodeFrames(x.space) = all
      /\ \A u \in Usages : u # "page_table" /\ u # "free" => FramesOf(x.store, u) = FramesOf(s, u)
  BY DEF TablesLeft
<1>2. PICK h \in Stores, z \in Spaces, n \in Nat : h = x.store /\ z = x.space /\ n = x.pages
  BY <1>1
<1>3. CASE node \notin DOMAIN z.nodes
  <2>1. FreeTable(x, node) = x
    BY <1>2, <1>3 DEF FreeTable
  <2>2. QED BY <1>2, <1>3, <2>1 DEF TableGone
<1>4. CASE node \in DOMAIN z.nodes
  <2>1. PICK f : f = z.nodes[node] /\ f \in NodeFrames(z) /\ f \in FramesOf(h, "page_table")
    BY <1>1, <1>2, <1>4 DEF NodeFrames
  <2>2. PICK back : back = HeapFree(h, <<f, 0>>)
    OBVIOUS
  <2>3. /\ back.ok /\ back.pages = 1 /\ HeapGood(back.store) /\ Objects(back.store) = Objects(h)
        /\ FramesOf(back.store, "page_table") = FramesOf(h, "page_table") \ {f}
        /\ \A u \in Usages : u # "page_table" /\ u # "free" => FramesOf(back.store, u) = FramesOf(h, u)
        /\ FramesOf(back.store, "free") = FramesOf(h, "free") \cup {f}
    <3>1. HeapGood(h) /\ f \in FramesOf(h, "page_table")
      BY <1>1, <1>2, <2>1
    <3>2. LET p == HeapFree(h, <<f, 0>>) IN
          /\ p.ok /\ p.pages = 1 /\ HeapGood(p.store) /\ Objects(p.store) = Objects(h)
          /\ FramesOf(p.store, "page_table") = FramesOf(h, "page_table") \ {f}
          /\ \A u \in Usages : u # "page_table" /\ u # "free" => FramesOf(p.store, u) = FramesOf(h, u)
          /\ FramesOf(p.store, "free") = FramesOf(h, "free") \cup {f}
      BY ONLY <3>1, TableGivesPage
    <3>3. QED BY <2>2, <3>2
  <2>4. PICK leaves : leaves = IF node[1] = 1 THEN {v \in DOMAIN z.leaves : Node(1, v) = node} ELSE {}
    OBVIOUS
  <2>5. PICK mid, nodes : mid = Without(z.leaves, leaves) /\ nodes = Without(z.nodes, {node})
    OBVIOUS
  <2>6. z.leaves \in Partial(Nat, Leaves) /\ z.nodes \in Partial(NodeIds, FrameIds)
    BY SpaceFields
  <2>7. mid \in Partial(Nat, Leaves)
    <3>1. LeftWithout(Nat, Leaves, z.leaves, leaves, mid)
      BY <2>5, <2>6, WithoutIsPartial
    <3>2. QED BY <3>1 DEF LeftWithout
  <2>8. nodes \in Partial(NodeIds, FrameIds) /\ DOMAIN nodes = DOMAIN z.nodes \ {node}
        /\ \A k \in DOMAIN z.nodes \ {node} : nodes[k] = z.nodes[k]
    <3>1. LeftWithout(NodeIds, FrameIds, z.nodes, {node}, nodes)
      BY <2>5, <2>6, WithoutIsPartial
    <3>2. QED BY <3>1 DEF LeftWithout
  <2>9. PICK emptied : emptied = [z EXCEPT !.leaves = mid]
    OBVIOUS
  <2>10. PICK w : w = [emptied EXCEPT !.nodes = nodes]
    OBVIOUS
  <2>11. emptied = [root |-> z.root, nodes |-> z.nodes, leaves |-> mid,
                    regions |-> z.regions, parts |-> z.parts, has |-> z.has]
    BY <2>9, SpaceFields
  <2>12. w = [root |-> z.root, nodes |-> nodes, leaves |-> mid,
              regions |-> z.regions, parts |-> z.parts, has |-> z.has]
    BY <2>10, <2>11
  <2>13. w.nodes = nodes /\ w \in Spaces
    BY <2>7, <2>8, <2>12, SpaceFields DEF Spaces
  <2>14. emptied.nodes = z.nodes
    BY <2>11
  <2>15. PICK y : y = FreeTable(x, node)
    OBVIOUS
  <2>16. y = [ok |-> TRUE, store |-> back.store, pages |-> n + 1, space |-> w]
    <3>1. emptied = [x.space EXCEPT !.leaves = Without(@, leaves)]
      BY <1>2, <2>5, <2>9
    <3>2. w = [emptied EXCEPT !.nodes = Without(@, {node})]
      BY <2>5, <2>10, <2>14
    <3>3. x.ok = TRUE
      BY <1>1
    <3>4. QED BY <1>2, <1>4, <2>1, <2>2, <2>3, <2>4, <2>15, <3>1, <3>2, <3>3 DEF FreeTable
  <2>17. y.ok = TRUE /\ y.store = back.store /\ y.pages = n + 1 /\ y.space = w
         /\ y \in [ok : {TRUE}, store : Stores, space : Spaces, pages : Nat]
    <3>1. back.store \in Stores
      BY <2>3 DEF HeapGood
    <3>2. QED BY <2>13, <2>16, <3>1
  <2>18. NodeFrames(w) = NodeFrames(z) \ {f} /\ NodesApart(w.nodes)
    BY <1>1, <1>2, <1>4, <2>1, <2>8, <2>13 DEF NodeFrames, NodesApart
  <2>19. IsFiniteSet(DOMAIN w.nodes) /\ y.pages + Cardinality(DOMAIN w.nodes) = N
    <3>1. PICK S : S = DOMAIN z.nodes
      OBVIOUS
    <3>2. IsFiniteSet(S \ {node}) /\ Cardinality(S \ {node}) = Cardinality(S) - 1
          /\ Cardinality(S) \in Nat
      BY <1>1, <1>2, <1>4, <3>1, FS_RemoveElement, FS_CardinalityType
    <3>3. DOMAIN w.nodes = S \ {node}
      BY <2>8, <2>13, <3>1
    <3>4. QED BY <1>1, <1>2, <2>17, <3>1, <3>2, <3>3
  <2>20. FramesOf(y.store, "page_table") = kept \cup NodeFrames(w)
    BY <1>1, <1>2, <2>1, <2>3, <2>17, <2>18
  <2>21. FramesOf(y.store, "free") \cup NodeFrames(w) = all
    BY <1>1, <1>2, <2>1, <2>3, <2>17, <2>18
  <2>22. y \in TablesLeft(s, kept, all, N)
    <3>1. HeapGood(y.store) /\ Objects(y.store) = Objects(s)
      BY <1>1, <1>2, <2>3, <2>17
    <3>2. \A u \in Usages : u # "page_table" /\ u # "free" => FramesOf(y.store, u) = FramesOf(s, u)
      BY <1>1, <1>2, <2>3, <2>17
    <3>3. NodeFrames(w) \cap kept = {}
      BY <1>1, <1>2, <2>18
    <3>4. QED BY <2>17, <2>18, <2>19, <2>20, <2>21, <3>1, <3>2, <3>3 DEF TablesLeft
  <2>23. DOMAIN y.space.nodes = DOMAIN x.space.nodes \ {node} /\ y.pages = x.pages + 1
    BY <1>2, <2>8, <2>13, <2>17
  <2>24. node \in DOMAIN x.space.nodes
    BY <1>2, <1>4
  <2>25. QED BY <2>15, <2>22, <2>23, <2>24 DEF TableGone
<1>5. QED BY <1>3, <1>4

(* The run of FreeTable over a sequence of tables.                         *)
FreeRun(x, q, n, f) ==
  /\ f[0] = x /\ FoldLeft(FreeTable, x, q) = f[n]
  /\ \A k \in 1 .. n : f[k] = FreeTable(f[k - 1], q[k])

LEMMA FreeRuns ==
  ASSUME NEW s, NEW kept, NEW all, NEW N \in Nat, NEW x \in TablesLeft(s, kept, all, N),
         NEW n \in Nat, NEW q \in [1 .. n -> NodeIds]
  PROVE  \E f : FreeRun(x, q, n, f) /\ \A k \in 0 .. n : f[k] \in TablesLeft(s, kept, all, N)
<1> DEFINE R == TablesLeft(s, kept, all, N)
           F == [t \in R |-> [g \in NodeIds |-> FreeTable(t, g)]]
           Folded(it) == it = [z \in SUBSET (DOMAIN q) |->
                                 IF z = {} THEN x ELSE FreeTable(it[z \ {Max(z)}], q[Max(z)])]
           fold == CHOOSE it : Folded(it)
           f == [k \in 0 .. n |-> fold[1 .. k]]
<1>1. q \in Seq(NodeIds) /\ Len(q) = n /\ DOMAIN q = 1 .. n /\ (\A i \in 1 .. n : q[i] \in NodeIds)
  OBVIOUS
<1>2. x \in R
  OBVIOUS
<1>3. \A t \in R, g \in NodeIds : FreeTable(t, g) \in R
  BY TableFreed DEF TableGone
<1> HIDE DEF R
<1>4. \E it : Folded(it)
  <2>1. F \in [R -> [NodeIds -> R]]
    BY <1>3
  <2>2. PICK it : FoldsWithin(R, NodeIds, F, x, q, it)
    <3> HIDE DEF F
    <3>1. QED BY <1>1, <1>2, <2>1, FoldValues
  <2>3. Folded(it)
    <3>1. \A t \in R, g \in NodeIds : F[t][g] = FreeTable(t, g)
      OBVIOUS
    <3> HIDE DEF F
    <3>2. \A z \in SUBSET (DOMAIN q) :
            z # {} => F[it[z \ {Max(z)}]][q[Max(z)]] = FreeTable(it[z \ {Max(z)}], q[Max(z)])
      BY <2>2, <3>1 DEF FoldsWithin
    <3>3. QED BY <2>2, <3>2 DEF FoldsWithin, Folds
  <2>4. QED BY <2>3
<1>5. Folded(fold)
  <2> HIDE DEF Folded
  <2>1. QED BY <1>4
<1>6. FoldLeft(FreeTable, x, q) = fold[1 .. n]
  BY <1>1, Zenon DEF FoldLeft, MapThenFoldSet
<1>7. fold[{}] = x /\ \A k \in 1 .. n : fold[1 .. k] = FreeTable(fold[1 .. k - 1], q[k])
  <2> HIDE DEF fold
  <2>1. fold[{}] = x
    BY <1>5
  <2>2. ASSUME NEW k \in 1 .. n
        PROVE  fold[1 .. k] = FreeTable(fold[1 .. k - 1], q[k])
    <3>1. 1 .. k \in SUBSET (DOMAIN q) /\ 1 .. k # {}
          /\ Max(1 .. k) = k /\ (1 .. k) \ {k} = 1 .. k - 1
      BY <1>1, FoldPrefixes
    <3>2. QED BY <1>5, <3>1
  <2>3. QED BY <2>1, <2>2
<1> HIDE DEF fold
<1>8. \A k \in 0 .. n : fold[1 .. k] \in R
  <2> DEFINE Typed == {k \in 0 .. n : fold[1 .. k] \in R}
  <2>1. 0 \in Typed
    BY <1>1, <1>2, <1>7, FoldPrefixes
  <2>2. \A k \in 1 .. n : k - 1 \in Typed => k \in Typed
    BY <1>1, <1>3, <1>7
  <2>3. \A k \in 0 .. n : k \in Typed
    <3> HIDE DEF Typed
    <3>1. QED BY <1>1, <2>1, <2>2, NatInductionSet
  <2>4. QED BY <2>3
<1>9. FreeRun(x, q, n, f)
  <2>1. f[0] = x
    <3>1. 0 \in 0 .. n /\ 1 .. 0 = {}
      OBVIOUS
    <3>2. QED BY <1>7, <3>1
  <2>2. FoldLeft(FreeTable, x, q) = f[n]
    BY <1>6
  <2>3. \A k \in 1 .. n : f[k] = FreeTable(f[k - 1], q[k])
    BY <1>7
  <2> HIDE DEF f
  <2>4. QED BY <2>1, <2>2, <2>3 DEF FreeRun
<1>10. \A k \in 0 .. n : f[k] \in R
  BY <1>8
<1> HIDE DEF f
<1>11. QED BY <1>9, <1>10 DEF R

(* All of them are freed when each has its turn.                           *)
TablesFreed(s, kept, all, N, y) ==
  y \in TablesLeft(s, kept, all, N) /\ NodeFrames(y.space) = {} /\ y.pages = N

LEMMA AllTablesFreed ==
  ASSUME NEW s, NEW kept, NEW all, NEW N \in Nat, NEW x \in TablesLeft(s, kept, all, N),
         x.pages = 0, NEW nodes, nodes = DOMAIN x.space.nodes
  PROVE  TablesFreed(s, kept, all, N, FoldLeft(FreeTable, x, FreeingOrder(nodes)))
<1>1. /\ x \in [ok : {TRUE}, store : Stores, space : Spaces, pages : Nat]
      /\ IsFiniteSet(nodes) /\ x.pages + Cardinality(nodes) = N
  BY DEF TablesLeft
<1>2. nodes \in SUBSET NodeIds
  <2>1. x.space \in Spaces
    BY <1>1
  <2>2. QED BY <2>1, SpaceFields, PartialIs
<1>3. Cardinality(nodes) = N
  <2>1. Cardinality(nodes) \in Nat
    BY <1>1, FS_CardinalityType
  <2>2. QED BY <1>1, <2>1
<1>4. PICK q : q = FreeingOrder(nodes)
  OBVIOUS
<1>5. q \in [1 .. N -> nodes] /\ \A i, j \in 1 .. N : i < j => q[i] # q[j]
  BY <1>1, <1>2, <1>3, <1>4, FreedInOrder DEF InOrder
<1>6. q \in [1 .. N -> NodeIds]
  BY <1>2, <1>5
<1>7. PICK f : FreeRun(x, q, N, f) /\ \A k \in 0 .. N : f[k] \in TablesLeft(s, kept, all, N)
  BY <1>6, FreeRuns
<1> DEFINE Freed(k) == DOMAIN f[k].space.nodes = nodes \ {q[i] : i \in 1 .. k} /\ f[k].pages = k
           T == {k \in 0 .. N : Freed(k)}
<1>8. 0 \in T
  <2>1. f[0] = x /\ {q[i] : i \in 1 .. 0} = {}
    BY <1>7 DEF FreeRun
  <2>2. QED BY <2>1
<1>9. ASSUME NEW k \in 1 .. N, k - 1 \in T
      PROVE  k \in T
  <2>1. k \in 0 .. N /\ k - 1 \in 0 .. N /\ k \in Nat
    OBVIOUS
  <2>2. PICK u, v : u = f[k - 1] /\ v = f[k]
    OBVIOUS
  <2>3. v = FreeTable(u, q[k]) /\ u \in TablesLeft(s, kept, all, N) /\ q[k] \in NodeIds /\ q[k] \in nodes
    BY <1>5, <1>6, <1>7, <2>1, <2>2 DEF FreeRun
  <2>4. TableGone(s, kept, all, N, u, q[k], v)
    BY <2>3, TableFreed
  <2>5. DOMAIN u.space.nodes = nodes \ {q[i] : i \in 1 .. k - 1} /\ u.pages = k - 1
    BY <1>9, <2>2
  <2>6. \A i \in 1 .. k - 1 : q[i] # q[k]
    BY <1>5, <2>1
  <2>7. q[k] \in DOMAIN u.space.nodes
    BY <2>3, <2>5, <2>6
  <2>8. DOMAIN v.space.nodes = DOMAIN u.space.nodes \ {q[k]} /\ v.pages = u.pages + 1
    BY <2>4, <2>7 DEF TableGone
  <2>9. {q[i] : i \in 1 .. k} = {q[i] : i \in 1 .. k - 1} \cup {q[k]}
    <3>1. 1 .. k = (1 .. k - 1) \cup {k}
      BY <2>1
    <3>2. QED BY <3>1
  <2>10. QED BY <2>1, <2>2, <2>5, <2>8, <2>9
<1>10. N \in T
  <2> HIDE DEF T
  <2>1. \A k \in 0 .. N : k \in T
    BY <1>8, <1>9, NatInductionSet
  <2>2. QED BY <2>1
<1>11. PICK y : y = FoldLeft(FreeTable, x, q)
  OBVIOUS
<1>12. y = f[N] /\ y \in TablesLeft(s, kept, all, N) /\ y.pages = N
  BY <1>7, <1>10, <1>11 DEF FreeRun
<1>13. IsFiniteSet(DOMAIN y.space.nodes) /\ y.pages + Cardinality(DOMAIN y.space.nodes) = N
  BY <1>12 DEF TablesLeft
<1>14. Cardinality(DOMAIN y.space.nodes) = 0
  <2>1. Cardinality(DOMAIN y.space.nodes) \in Nat
    BY <1>13, FS_CardinalityType
  <2>2. QED BY <1>12, <1>13, <2>1
<1>15. DOMAIN y.space.nodes = {}
  BY <1>13, <1>14, FS_EmptySet
<1>16. NodeFrames(y.space) = {}
  BY <1>15 DEF NodeFrames
<1>17. QED BY <1>4, <1>11, <1>12, <1>16 DEF TablesFreed

-----------------------------------------------------------------------------
(* Destroying: everything goes back, in every state of the space.          *)

Freeings == [ok : {TRUE}, store : Stores, space : Spaces, pages : Nat]

PartFreed(x, y, usage, frames) ==
  /\ y \in Freeings /\ y.space = x.space
  /\ HeapGood(y.store) /\ Objects(y.store) = Objects(x.store)
  /\ FramesOf(y.store, usage) = FramesOf(x.store, usage) \ frames
  /\ FramesOf(y.store, "free") = FramesOf(x.store, "free") \cup frames
  /\ \A u \in Usages : u # usage /\ u # "free" => FramesOf(y.store, u) = FramesOf(x.store, u)

LEMMA PartGoesBack ==
  ASSUME NEW x \in Freeings, HeapGood(x.store), SpaceGood(x.space), NEW part \in Parts,
         PartFrames(x.space, part) \subseteq FramesOf(x.store, UsageOf(part))
  PROVE  PartFreed(x, FreePart(x, part), UsageOf(part), PartFrames(x.space, part))
<1>1. PICK p, frames, usage : /\ p = x.space.parts[part] /\ frames = Extent(p.frame, p.count)
                              /\ usage = UsageOf(part)
  OBVIOUS
<1>2. frames = PartFrames(x.space, part) /\ frames \subseteq FramesOf(x.store, usage)
      /\ usage \in PartUsages
  BY <1>1 DEF PartFrames, PartUsages, UsageOf, Parts
<1>3. x.ok = TRUE /\ x.store \in Stores /\ x.space \in Spaces /\ x.pages \in Nat
  BY DEF Freeings
<1>4. p.frame \in Nat /\ p.count \in Nat
  BY <1>1, PartIs
<1>5. CASE p.frame = 0 \/ p.count = 0
  <2>1. FreePart(x, part) = x
    BY <1>1, <1>5 DEF FreePart
  <2>2. PICK w : w = x.space /\ SpaceGood(w) /\ p = w.parts[part]
    BY <1>1
  <2>3. p = NoPart
    <3>1. /\ part \in w.has => w.parts[part].count > 0 /\ w.parts[part].frame > 0
          /\ part \notin w.has => w.parts[part] = NoPart
      BY <2>2, PartIs
    <3>2. QED BY <1>4, <1>5, <2>2, <3>1
  <2>4. frames = {}
    BY <1>1, <2>3 DEF NoPart, Extent
  <2>5. PartFreed(x, x, usage, {})
    BY DEF PartFreed
  <2>6. QED BY <1>1, <1>2, <2>1, <2>4, <2>5
<1>6. CASE p.frame # 0 /\ p.count # 0
  <2>1. PICK r : r = Release(x.store, p.frame, p.count)
    OBVIOUS
  <2>2. /\ r.ok /\ HeapGood(r.store) /\ Objects(r.store) = Objects(x.store)
        /\ FramesOf(r.store, usage) = FramesOf(x.store, usage) \ frames
        /\ FramesOf(r.store, "free") = FramesOf(x.store, "free") \cup frames
        /\ \A u \in Usages : u # usage /\ u # "free" => FramesOf(r.store, u) = FramesOf(x.store, u)
    <3>1. PICK s, b, c : s = x.store /\ b = p.frame /\ c = p.count
      OBVIOUS
    <3>2. Extent(b, c) \subseteq FramesOf(s, usage) /\ HeapGood(s) /\ r = Release(s, b, c)
          /\ frames = Extent(b, c)
      BY <1>1, <1>2, <2>1, <3>1
    <3>3. /\ r.ok /\ HeapGood(r.store) /\ Objects(r.store) = Objects(s)
          /\ FramesOf(r.store, usage) = FramesOf(s, usage) \ Extent(b, c)
          /\ FramesOf(r.store, "free") = FramesOf(s, "free") \cup Extent(b, c)
          /\ \A u \in Usages : u # usage /\ u # "free" => FramesOf(r.store, u) = FramesOf(s, u)
      BY <1>2, <3>2, ReleaseOfPart
    <3>4. QED BY <3>1, <3>2, <3>3
  <2>3. PICK y : y = FreePart(x, part)
    OBVIOUS
  <2>4. y = [x EXCEPT !.store = r.store, !.pages = @ + p.count]
    BY <1>1, <1>3, <1>6, <2>1, <2>2, <2>3 DEF FreePart
  <2>5. PICK a, b, c, d : a = x.store /\ b = x.space /\ c = x.pages /\ d = p.count
    OBVIOUS
  <2>6. y = [ok |-> TRUE, store |-> r.store, space |-> b, pages |-> c + d]
    BY <1>3, <2>4, <2>5 DEF Freeings
  <2>7. r.store \in Stores
    BY <2>2 DEF HeapGood
  <2>8. y \in Freeings /\ y.store = r.store /\ y.space = x.space
    BY <1>3, <1>4, <2>7, <2>5, <2>6 DEF Freeings
  <2>9. PartFreed(x, y, usage, frames)
    BY <2>2, <2>8 DEF PartFreed
  <2>10. QED BY <1>1, <1>2, <2>3, <2>9
<1>7. QED BY <1>5, <1>6

LEMMA NodesFinite ==
  ASSUME NEW sp \in Spaces, TablesApart(sp)
  PROVE  IsFiniteSet(DOMAIN sp.nodes) /\ Cardinality(DOMAIN sp.nodes) \in Nat
<1>1. PICK S, f : S = DOMAIN sp.nodes /\ f = [n \in S |-> sp.nodes[n]]
  OBVIOUS
<1>2. \A n \in S : sp.nodes[n] \in FrameIds
  BY <1>1, SpaceFields, PartialIs
<1>3. f \in [S -> FrameIds] /\ \A m, n \in S : f[m] = f[n] => m = n
  BY <1>1, <1>2 DEF TablesApart
<1>4. f \in Injection(S, FrameIds)
  BY <1>3 DEF Injection, IsInjective
<1>5. IsFiniteSet(FrameIds)
  BY FS_Interval, HeapNumbers DEF FrameIds
<1>6. IsFiniteSet(S)
  BY <1>4, <1>5, FS_Injection
<1>7. QED BY <1>1, <1>6, FS_CardinalityType

AllOwn(sp) == TableFrames(sp) \cup PartFrames(sp, "image") \cup PartFrames(sp, "stack")

Destroyed(s, at, sp, rest, o) ==
  LET n == Cardinality(DOMAIN sp.nodes) IN
  /\ o.status = "success" /\ o.wiped = TRUE
  /\ HeapGood(o.store) /\ Objects(o.store) = Objects(s) \ {at}
  /\ \A u \in SpaceUsages : FramesOf(o.store, u) = rest[u]
  /\ at[1] \in FramesOf(s, "address_space_object")
  /\ \/ o.pages = n + 1 /\ FramesOf(o.store, "free") = FramesOf(s, "free") \cup AllOwn(sp)
     \/ o.pages = n + 2 /\ FramesOf(o.store, "free") = FramesOf(s, "free") \cup AllOwn(sp) \cup {at[1]}

LEMMA DestroyIs ==
  ASSUME NEW sp, SpaceGood(sp), NEW rest, NEW s, Held(s, sp, rest), NEW at \in Objects(s)
  PROVE  Destroyed(s, at, sp, rest, DestroyOutcome(s, at, sp))
<1>1. HeapGood(s) /\ s \in Stores /\ sp \in Spaces /\ TablesApart(sp)
      /\ \A u \in SpaceUsages : FramesOf(s, u) = rest[u] \cup Own(sp, u) /\ rest[u] \cap Own(sp, u) = {}
  BY DEF Held, HeapGood
<1>2. PICK img, stk, tab : /\ img = PartFrames(sp, "image") /\ stk = PartFrames(sp, "stack")
                           /\ tab = TableFrames(sp)
  OBVIOUS
<1>3. PICK ri, rs, rt : ri = rest["service_image"] /\ rs = rest["service_stack"] /\ rt = rest["page_table"]
  OBVIOUS
<1>4. /\ FramesOf(s, "service_image") = ri \cup img /\ ri \cap img = {}
      /\ FramesOf(s, "service_stack") = rs \cup stk /\ rs \cap stk = {}
      /\ FramesOf(s, "page_table") = rt \cup tab /\ rt \cap tab = {}
  BY <1>1, <1>2, <1>3 DEF SpaceUsages, Own
<1>5. /\ "image" \in Parts /\ UsageOf("image") = "service_image"
      /\ "stack" \in Parts /\ UsageOf("stack") = "service_stack"
      /\ {"service_image", "service_stack", "page_table", "address_space_object"} \subseteq Usages
  BY DEF Parts, UsageOf, Usages
<1>6. PICK begun : begun = [ok |-> TRUE, store |-> s, space |-> sp, pages |-> 0]
  OBVIOUS
<1>7. begun \in Freeings /\ begun.store = s /\ begun.space = sp
  BY <1>1, <1>6 DEF Freeings
<1>8. PICK x : x = FreePart(begun, "image")
  OBVIOUS
<1>9. PartFreed(begun, x, "service_image", img)
  <2>1. PartFrames(begun.space, "image") \subseteq FramesOf(begun.store, UsageOf("image"))
    BY <1>2, <1>4, <1>5, <1>7
  <2>2. HeapGood(begun.store) /\ SpaceGood(begun.space) /\ PartFrames(begun.space, "image") = img
    BY <1>1, <1>2, <1>7
  <2>3. QED BY <1>5, <1>7, <1>8, <2>1, <2>2, PartGoesBack
<1>10. /\ x \in Freeings /\ x.space = sp /\ HeapGood(x.store) /\ Objects(x.store) = Objects(s)
       /\ FramesOf(x.store, "service_image") = ri
       /\ FramesOf(x.store, "free") = FramesOf(s, "free") \cup img
       /\ \A u \in Usages : u # "service_image" /\ u # "free" => FramesOf(x.store, u) = FramesOf(s, u)
  BY <1>4, <1>7, <1>9 DEF PartFreed
<1>11. PICK y : y = FreePart(x, "stack")
  OBVIOUS
<1>12. PartFreed(x, y, "service_stack", stk)
  <2>1. PartFrames(x.space, "stack") \subseteq FramesOf(x.store, UsageOf("stack"))
    BY <1>2, <1>4, <1>5, <1>10
  <2>2. SpaceGood(x.space) /\ PartFrames(x.space, "stack") = stk
    BY <1>2, <1>10
  <2>3. QED BY <1>5, <1>10, <1>11, <2>1, <2>2, PartGoesBack
<1>13. /\ y \in Freeings /\ y.space = sp /\ HeapGood(y.store) /\ Objects(y.store) = Objects(s)
       /\ FramesOf(y.store, "service_image") = ri /\ FramesOf(y.store, "service_stack") = rs
       /\ FramesOf(y.store, "free") = FramesOf(s, "free") \cup img \cup stk
       /\ \A u \in Usages : u # "service_image" /\ u # "service_stack" /\ u # "free" =>
            FramesOf(y.store, u) = FramesOf(s, u)
  BY <1>4, <1>5, <1>10, <1>12 DEF PartFreed
<1>14. PICK z : z = [y EXCEPT !.pages = 0]
  OBVIOUS
<1>15. z \in Freeings /\ z.pages = 0 /\ z.space = sp /\ z.store = y.store
  BY <1>13, <1>14 DEF Freeings
<1>16. PICK n, nodes : n \in Nat /\ n = Cardinality(nodes) /\ nodes = DOMAIN sp.nodes /\ IsFiniteSet(nodes)
  BY <1>1, NodesFinite
<1>17. PICK h : h = y.store
  OBVIOUS
<1>18. PICK kept, all : kept = rt \cup {sp.root} /\ all = FramesOf(h, "free") \cup NodeFrames(sp)
  OBVIOUS
<1>19. tab = NodeFrames(sp) \cup {sp.root} /\ sp.root \notin NodeFrames(sp) /\ NodesApart(sp.nodes)
  BY <1>1, <1>2 DEF TableFrames, NodeFrames, TablesApart, NodesApart
<1>20. z \in TablesLeft(h, kept, all, n)
  <2>1. FramesOf(h, "page_table") = kept \cup NodeFrames(sp)
    BY <1>4, <1>5, <1>13, <1>17, <1>18, <1>19
  <2>2. NodeFrames(sp) \cap kept = {}
    BY <1>4, <1>18, <1>19
  <2>3. z.store = h /\ HeapGood(h) /\ z.pages + Cardinality(DOMAIN z.space.nodes) = n
        /\ IsFiniteSet(DOMAIN z.space.nodes)
    BY <1>13, <1>15, <1>16, <1>17
  <2>4. z.space = sp /\ z \in [ok : {TRUE}, store : Stores, space : Spaces, pages : Nat]
    BY <1>15 DEF Freeings
  <2>5. QED BY <1>18, <1>19, <2>1, <2>2, <2>3, <2>4 DEF TablesLeft
<1>21. PICK t : t = FoldLeft(FreeTable, z, FreeingOrder(nodes))
  OBVIOUS
<1>22. t \in TablesLeft(h, kept, all, n) /\ NodeFrames(t.space) = {} /\ t.pages = n
  <2>1. nodes = DOMAIN z.space.nodes /\ z.pages = 0
    BY <1>15, <1>16
  <2>2. TablesFreed(h, kept, all, n, t)
    BY <1>16, <1>20, <1>21, <2>1, AllTablesFreed
  <2>3. QED BY <2>2 DEF TablesFreed
<1>23. /\ t.ok = TRUE /\ HeapGood(t.store) /\ Objects(t.store) = Objects(h)
       /\ FramesOf(t.store, "page_table") = kept /\ FramesOf(t.store, "free") = all
       /\ \A u \in Usages : u # "page_table" /\ u # "free" => FramesOf(t.store, u) = FramesOf(h, u)
       /\ t \in Freeings
  BY <1>22 DEF TablesLeft, Freeings
<1>24. PICK back : back = HeapFree(t.store, <<sp.root, 0>>)
  OBVIOUS
<1>25. /\ back.ok /\ back.pages = 1 /\ HeapGood(back.store) /\ Objects(back.store) = Objects(t.store)
       /\ FramesOf(back.store, "page_table") = kept \ {sp.root}
       /\ FramesOf(back.store, "free") = all \cup {sp.root}
       /\ \A u \in Usages : u # "page_table" /\ u # "free" => FramesOf(back.store, u) = FramesOf(t.store, u)
  <2>1. sp.root \in FramesOf(t.store, "page_table")
    BY <1>18, <1>23
  <2>2. QED BY <1>23, <1>24, <2>1, TableGivesPage
<1>26. PICK v : v = FreeAddress(t, <<sp.root, 0>>)
  OBVIOUS
<1>27. v.ok = TRUE /\ v.store = back.store /\ v.pages = n + 1 /\ v \in Freeings
  <2>1. PICK a : a = t.space /\ a \in Spaces
    BY <1>23 DEF Freeings
  <2>2. v = [ok |-> TRUE, store |-> back.store, space |-> a, pages |-> n + 1]
    <3>1. v = [t EXCEPT !.store = back.store, !.pages = @ + back.pages]
      BY <1>23, <1>24, <1>25, <1>26 DEF FreeAddress
    <3>2. PICK b, c, d : b = t.store /\ c = back.store /\ d = back.pages
      OBVIOUS
    <3>3. t = [ok |-> TRUE, store |-> b, space |-> a, pages |-> n]
      BY <1>22, <1>23, <2>1, <3>2 DEF Freeings
    <3>4. v = [t EXCEPT !.store = c, !.pages = n + 1]
      BY <1>25, <3>1, <3>2, <3>3
    <3>5. v = [ok |-> t.ok, store |-> c, space |-> t.space, pages |-> n + 1]
      BY <1>23, <3>4 DEF Freeings
    <3>6. QED BY <1>23, <2>1, <3>2, <3>5
  <2>3. back.store \in Stores
    BY <1>25 DEF HeapGood
  <2>4. QED BY <1>16, <2>2, <2>3, <2>1 DEF Freeings
<1>28. PICK last : last = HeapFree(v.store, at)
  OBVIOUS
<1>29. ObjectGiven(v.store, at, last)
  <2>1. at \in Objects(v.store) /\ HeapGood(v.store)
    BY <1>13, <1>17, <1>23, <1>25, <1>27
  <2>2. QED BY <1>28, <2>1, ObjectGivesMemory
<1>30. /\ last.ok = TRUE /\ HeapGood(last.store) /\ Objects(last.store) = Objects(s) \ {at}
       /\ \A u \in HeapOthers : FramesOf(last.store, u) = FramesOf(v.store, u)
       /\ at[1] \in FramesOf(v.store, "address_space_object")
       /\ \/ last.pages = 0 /\ FramesOf(last.store, "free") = FramesOf(v.store, "free")
          \/ last.pages = 1 /\ FramesOf(last.store, "free") = FramesOf(v.store, "free") \cup {at[1]}
  <2>1. Objects(v.store) = Objects(s)
    BY <1>13, <1>17, <1>23, <1>25, <1>27
  <2>2. QED BY <1>29, <2>1 DEF ObjectGiven
<1>31. PICK gone : gone = FreeAddress(v, at)
  OBVIOUS
<1>32. gone = [v EXCEPT !.store = last.store, !.pages = @ + last.pages]
  BY <1>27, <1>28, <1>30, <1>31 DEF FreeAddress
<1>33. gone.ok = TRUE /\ gone.store = last.store /\ gone.pages = n + 1 + last.pages
  BY <1>27, <1>32 DEF Freeings
<1>34. PICK o : o = DestroyOutcome(s, at, sp)
  OBVIOUS
<1>35. o = [status |-> IF gone.ok THEN "success" ELSE "conflict", wiped |-> v.ok,
            store |-> gone.store, space |-> gone.space, pages |-> gone.pages]
  BY <1>6, <1>8, <1>11, <1>14, <1>16, <1>21, <1>26, <1>31, <1>34 DEF DestroyOutcome
<1>36. o.status = "success" /\ o.wiped = TRUE /\ o.store = last.store /\ o.pages = n + 1 + last.pages
  BY <1>27, <1>33, <1>35
<1>37. FramesOf(v.store, "free") = FramesOf(s, "free") \cup AllOwn(sp)
  BY <1>2, <1>13, <1>17, <1>18, <1>19, <1>25, <1>27 DEF AllOwn
<1>38. ASSUME NEW u \in SpaceUsages
       PROVE  FramesOf(last.store, u) = rest[u]
  <2>1. u \in HeapOthers
    BY DEF SpaceUsages, HeapOthers
  <2>2. CASE u = "page_table"
    <3>1. FramesOf(v.store, u) = kept \ {sp.root}
      BY <1>25, <1>27, <2>2
    <3>2. sp.root \notin rt
      BY <1>4, <1>19
    <3>3. QED BY <1>3, <1>18, <1>30, <2>1, <2>2, <3>1, <3>2
  <2>3. CASE u = "service_image"
    <3>1. FramesOf(v.store, u) = FramesOf(h, u)
      BY <1>5, <1>23, <1>25, <1>27, <2>3
    <3>2. QED BY <1>3, <1>13, <1>17, <1>30, <2>1, <2>3, <3>1
  <2>4. CASE u = "service_stack"
    <3>1. FramesOf(v.store, u) = FramesOf(h, u)
      BY <1>5, <1>23, <1>25, <1>27, <2>4
    <3>2. QED BY <1>3, <1>13, <1>17, <1>30, <2>1, <2>4, <3>1
  <2>5. QED BY <2>2, <2>3, <2>4 DEF SpaceUsages
<1>39. at[1] \in FramesOf(s, "address_space_object")
  BY <1>5, <1>13, <1>17, <1>23, <1>25, <1>27, <1>30
<1>40. \/ o.pages = n + 1 /\ FramesOf(o.store, "free") = FramesOf(s, "free") \cup AllOwn(sp)
       \/ o.pages = n + 2 /\ FramesOf(o.store, "free") = FramesOf(s, "free") \cup AllOwn(sp) \cup {at[1]}
  BY <1>16, <1>30, <1>36, <1>37
<1>41. QED BY <1>16, <1>30, <1>34, <1>36, <1>38, <1>39, <1>40 DEF Destroyed

-----------------------------------------------------------------------------
(* Creating a space.                                                       *)

Created(s, o) ==
  /\ HeapGood(o.store)
  /\ \A u \in SpaceUsages : u # "page_table" => FramesOf(o.store, u) = FramesOf(s, u)
  /\ o.status # "success" =>
       Objects(o.store) = Objects(s) /\ FramesOf(o.store, "page_table") = FramesOf(s, "page_table")
  /\ o.status = "success" =>
       /\ o.at \notin Objects(s) /\ Objects(o.store) = Objects(s) \cup {o.at}
       /\ \E f \in FrameIds \ FramesOf(s, "page_table") :
            /\ o.space = NewSpace(f)
            /\ FramesOf(o.store, "page_table") = FramesOf(s, "page_table") \cup {f}

LEMMA CreateIs ==
  ASSUME NEW s, HeapGood(s)
  PROVE  Created(s, CreateOutcome(s))
<1>1. PICK object : object = HeapAllocate(s, ObjectBytes, 1, "address_space_object")
  OBVIOUS
<1>2. ObjectTaken(s, object)
  BY <1>1, SpaceNumbers, ObjectTakesMemory
<1>3. /\ object.ok \in BOOLEAN
      /\ ~object.ok => object.store = s
      /\ object.ok => /\ object.at \notin Objects(s)
                      /\ HeapGood(object.store) /\ Objects(object.store) = Objects(s) \cup {object.at}
                      /\ \A u \in HeapOthers : FramesOf(object.store, u) = FramesOf(s, u)
  BY <1>2 DEF ObjectTaken
<1>4. PICK o : o = CreateOutcome(s)
  OBVIOUS
<1>5. \A u \in SpaceUsages : u \in HeapOthers /\ u \in Usages /\ u # "free"
  BY DEF SpaceUsages, HeapOthers, Usages
<1>6. CASE ~object.ok
  <2>1. o = [status |-> "no resources", store |-> s]
    BY <1>1, <1>4, <1>6 DEF CreateOutcome
  <2>2. o.status = "no resources" /\ o.store = s
    BY <2>1
  <2>3. QED BY <1>4, <2>2 DEF Created
<1>7. CASE object.ok
  <2>1. PICK h, at : h = object.store /\ at = object.at
    OBVIOUS
  <2>2. /\ at \notin Objects(s) /\ HeapGood(h) /\ Objects(h) = Objects(s) \cup {at}
        /\ \A u \in SpaceUsages : FramesOf(h, u) = FramesOf(s, u)
    BY <1>3, <1>5, <1>7, <2>1
  <2>3. PICK root : root = HeapAllocatePage(h, "page_table")
    OBVIOUS
  <2>4. /\ root.ok \in BOOLEAN
        /\ root.ok => /\ root.at[1] \in FramesOf(h, "free") /\ root.at = <<root.at[1], 0>>
                      /\ HeapGood(root.store) /\ Objects(root.store) = Objects(h)
                      /\ FramesOf(root.store, "page_table") = FramesOf(h, "page_table") \cup {root.at[1]}
                      /\ \A u \in Usages : u # "page_table" /\ u # "free" =>
                           FramesOf(root.store, u) = FramesOf(h, u)
    BY <2>2, <2>3, TableTakesPage
  <2>5. CASE ~root.ok
    <3>1. PICK back : back = HeapFree(h, at)
      OBVIOUS
    <3>2. ObjectGiven(h, at, back)
      <4>1. at \in Objects(h)
        BY <2>2
      <4>2. QED BY <2>2, <3>1, <4>1, ObjectGivesMemory
    <3>3. HeapGood(back.store) /\ Objects(back.store) = Objects(s)
          /\ \A u \in SpaceUsages : FramesOf(back.store, u) = FramesOf(s, u)
      BY <1>5, <2>2, <3>2 DEF ObjectGiven
    <3>4. o = [status |-> "no resources", store |-> back.store]
      BY <1>1, <1>4, <1>7, <2>1, <2>3, <2>5, <3>1 DEF CreateOutcome
    <3>5. o.status = "no resources" /\ o.store = back.store
      BY <3>4
    <3>6. "page_table" \in SpaceUsages
      BY DEF SpaceUsages
    <3>7. QED BY <1>4, <3>3, <3>5, <3>6 DEF Created
  <2>6. CASE root.ok
    <3>1. PICK f, t : f = root.at[1] /\ t = root.store
      OBVIOUS
    <3>2. o = [status |-> "success", store |-> t, at |-> at, space |-> NewSpace(f)]
      BY <1>1, <1>4, <1>7, <2>1, <2>3, <2>6, <3>1 DEF CreateOutcome
    <3>3. o.status = "success" /\ o.store = t /\ o.at = at /\ o.space = NewSpace(f)
      BY <3>2
    <3>4. f \in FrameIds /\ f \notin FramesOf(s, "page_table") /\ "page_table" \in SpaceUsages
      <4>1. f \in FrameIds /\ h.frames[f] = "free"
        BY <2>4, <2>6, <3>1 DEF FramesOf
      <4>2. f \notin FramesOf(h, "page_table") /\ "page_table" \in SpaceUsages
        BY <4>1 DEF FramesOf, SpaceUsages
      <4>3. QED BY <2>2, <4>1, <4>2
    <3>5. /\ HeapGood(t) /\ Objects(t) = Objects(s) \cup {at}
          /\ FramesOf(t, "page_table") = FramesOf(s, "page_table") \cup {f}
          /\ \A u \in SpaceUsages : u # "page_table" => FramesOf(t, u) = FramesOf(s, u)
      BY <1>5, <2>2, <2>4, <2>6, <3>1, <3>4
    <3>6. QED BY <1>4, <2>2, <3>3, <3>4, <3>5 DEF Created
  <2>7. QED BY <2>4, <2>5, <2>6
<1>8. QED BY <1>3, <1>6, <1>7

LEMMA NewIsGood ==
  ASSUME NEW f \in FrameIds
  PROVE  /\ SpaceGood(NewSpace(f))
         /\ Own(NewSpace(f), "page_table") = {f}
         /\ Own(NewSpace(f), "service_image") = {} /\ Own(NewSpace(f), "service_stack") = {}
<1>1. PICK t : t = NewSpace(f)
  OBVIOUS
<1>2. /\ t.root = f /\ t.nodes = NoPages /\ t.leaves = NoPages /\ t.regions = <<>> /\ t.has = {}
      /\ t.parts = [p \in Parts |-> NoPart]
      /\ t = [root |-> f, nodes |-> NoPages, leaves |-> NoPages, regions |-> <<>>,
              parts |-> [p \in Parts |-> NoPart], has |-> {}]
  BY <1>1 DEF NewSpace
<1>3. DOMAIN NoPages = {} /\ \A D, R : NoPages \in Partial(D, R)
  <2>1. DOMAIN NoPages = {}
    BY DEF NoPages
  <2>2. ASSUME NEW D, NEW R
        PROVE  NoPages \in Partial(D, R)
    <3>1. NoPages = [k \in DOMAIN NoPages |-> NoPages[k]]
      BY DEF NoPages
    <3>2. QED BY <2>1, <3>1, PartialIs
  <2>3. QED BY <2>1, <2>2
<1>4. NoPart \in PartRecords
  BY DEF NoPart, PartRecords
<1>5. t \in Spaces
  <2>1. t.parts \in [Parts -> PartRecords] /\ t.regions \in Seq(Regions) /\ t.has \in SUBSET Parts
    BY <1>2, <1>4
  <2>2. t.nodes \in Partial(NodeIds, FrameIds) /\ t.leaves \in Partial(Nat, Leaves)
    BY <1>2, <1>3
  <2>3. PICK n, l, r, p, h : n = t.nodes /\ l = t.leaves /\ r = t.regions /\ p = t.parts /\ h = t.has
    OBVIOUS
  <2>4. t = [root |-> f, nodes |-> n, leaves |-> l, regions |-> r, parts |-> p, has |-> h]
    BY <1>2, <2>3
  <2>5. QED BY <2>1, <2>2, <2>3, <2>4 DEF Spaces
<1>6. TablesApart(t)
  BY <1>2, <1>3 DEF TablesApart
<1>7. \A p \in Parts : PartGood(t, p)
  BY <1>2 DEF PartGood
<1>8. RegionsGood(t)
  <2>1. Len(t.regions) = 0 /\ DOMAIN t.regions = {}
    BY <1>2
  <2>2. ToSet(t.regions) = {}
    BY <2>1 DEF ToSet
  <2>3. QED BY <1>2, <2>1, <2>2, SpaceNumbers DEF RegionsGood
<1>9. ASSUME NEW q \in Places
      PROVE  Halfway(t.leaves, q)
  <2>1. q[3] \in Nat /\ q[3] > 0
    BY PlacesTyped
  <2>2. Extent(q[2], 0) = {}
    BY PlacesTyped DEF Extent
  <2>3. QED BY <1>2, <1>3, <2>1, <2>2 DEF Halfway
<1>10. \A p \in Parts : PartFrames(t, p) = {}
  BY <1>2, NoFramesYet
<1>11. Own(t, "page_table") = {f}
  BY <1>2, <1>3 DEF Own, TableFrames
<1>12. Own(t, "service_image") = {} /\ Own(t, "service_stack") = {}
  BY <1>10 DEF Own, Parts
<1>13. QED BY <1>1, <1>5, <1>6, <1>7, <1>8, <1>9, <1>11, <1>12 DEF SpaceGood

-----------------------------------------------------------------------------
(* All spaces together: the store has the objects of the spaces, and the   *)
(* frames of each usage are those of the spaces, each in one of them.      *)

AllGood(s, S) ==
  /\ HeapGood(s)
  /\ DOMAIN S = Objects(s) /\ S = [a \in DOMAIN S |-> S[a]]
  /\ \A a \in DOMAIN S : SpaceGood(S[a])
  /\ \A u \in SpaceUsages :
       /\ FramesOf(s, u) = UNION {Own(S[a], u) : a \in DOMAIN S}
       /\ \A a, b \in DOMAIN S : a # b => Own(S[a], u) \cap Own(S[b], u) = {}

RestOf(S, at) == [u \in SpaceUsages |-> UNION {Own(S[a], u) : a \in DOMAIN S \ {at}}]

LEMMA RestIs ==
  ASSUME NEW s, NEW S, AllGood(s, S), NEW at \in DOMAIN S
  PROVE  RestOf(S, at) \in Rests /\ Held(s, S[at], RestOf(S, at)) /\ SpaceGood(S[at]) /\ at \in Objects(s)
<1>1. PICK r : r = RestOf(S, at)
  OBVIOUS
<1>2. ASSUME NEW u \in SpaceUsages
      PROVE  /\ r[u] \subseteq FrameIds /\ FramesOf(s, u) = r[u] \cup Own(S[at], u)
             /\ r[u] \cap Own(S[at], u) = {}
  <2>1. r[u] = UNION {Own(S[a], u) : a \in DOMAIN S \ {at}}
    BY <1>1 DEF RestOf
  <2>2. FramesOf(s, u) = UNION {Own(S[a], u) : a \in DOMAIN S}
        /\ \A a, b \in DOMAIN S : a # b => Own(S[a], u) \cap Own(S[b], u) = {}
    BY DEF AllGood
  <2>3. FramesOf(s, u) \subseteq FrameIds
    BY DEF FramesOf
  <2>4. QED BY <2>1, <2>2, <2>3
<1>3. r \in Rests
  <2>1. r = [u \in SpaceUsages |-> r[u]]
    BY <1>1 DEF RestOf
  <2>2. QED BY <1>2, <2>1 DEF Rests
<1>4. HeapGood(s) /\ SpaceGood(S[at]) /\ S[at] \in Spaces /\ TablesApart(S[at]) /\ at \in Objects(s)
  BY DEF AllGood, SpaceGood
<1>5. Held(s, S[at], r)
  BY <1>2, <1>4 DEF Held
<1>6. QED BY <1>1, <1>3, <1>4, <1>5

LEMMA AfterRequest ==
  ASSUME NEW s, NEW S, AllGood(s, S), NEW at \in DOMAIN S,
         NEW o, Settled(o, Objects(s), RestOf(S, at)),
         NEW T, T = [S EXCEPT ![at] = o.space]
  PROVE  AllGood(o.store, T)
<1>1. PICK t, h, r : t = o.space /\ h = o.store /\ r = RestOf(S, at)
  OBVIOUS
<1>2. Held(h, t, r) /\ Objects(h) = Objects(s) /\ SpaceGood(t)
  BY <1>1 DEF Settled
<1>3. HeapGood(h) /\ \A u \in SpaceUsages : FramesOf(h, u) = r[u] \cup Own(t, u) /\ r[u] \cap Own(t, u) = {}
  BY <1>2 DEF Held
<1>4. /\ DOMAIN S = Objects(s) /\ S = [a \in DOMAIN S |-> S[a]]
      /\ \A a \in DOMAIN S : SpaceGood(S[a])
      /\ \A u \in SpaceUsages : \A a, b \in DOMAIN S : a # b => Own(S[a], u) \cap Own(S[b], u) = {}
  BY DEF AllGood
<1>5. DOMAIN T = DOMAIN S /\ T[at] = t /\ (\A a \in DOMAIN S \ {at} : T[a] = S[a])
      /\ T = [a \in DOMAIN T |-> T[a]]
  BY <1>1, <1>4
<1>6. ASSUME NEW u \in SpaceUsages
      PROVE  /\ FramesOf(h, u) = UNION {Own(T[a], u) : a \in DOMAIN T}
             /\ \A a, b \in DOMAIN T : a # b => Own(T[a], u) \cap Own(T[b], u) = {}
  <2>1. r[u] = UNION {Own(S[a], u) : a \in DOMAIN S \ {at}}
    BY <1>1 DEF RestOf
  <2>2. FramesOf(h, u) = r[u] \cup Own(t, u) /\ r[u] \cap Own(t, u) = {}
    BY <1>3
  <2>3. r[u] = UNION {Own(T[a], u) : a \in DOMAIN T \ {at}}
    BY <1>5, <2>1
  <2>4. FramesOf(h, u) = UNION {Own(T[a], u) : a \in DOMAIN T}
    BY <1>5, <2>2, <2>3
  <2>5. ASSUME NEW a \in DOMAIN T, NEW b \in DOMAIN T, a # b
        PROVE  Own(T[a], u) \cap Own(T[b], u) = {}
    <3>1. CASE a # at /\ b # at
      BY <1>4, <1>5, <2>5, <3>1
    <3>2. CASE a = at
      BY <1>5, <2>2, <2>3, <2>5, <3>2
    <3>3. CASE b = at
      BY <1>5, <2>2, <2>3, <2>5, <3>3
    <3>4. QED BY <3>1, <3>2, <3>3
  <2>6. QED BY <2>4, <2>5
<1>7. \A a \in DOMAIN T : SpaceGood(T[a])
  BY <1>2, <1>4, <1>5
<1>8. QED BY <1>1, <1>2, <1>3, <1>4, <1>5, <1>6, <1>7 DEF AllGood

LEMMA AfterCreate ==
  ASSUME NEW s, NEW S, AllGood(s, S), NEW o, Created(s, o),
         NEW T, T = IF o.status = "success" THEN Put(S, o.at, o.space) ELSE S
  PROVE  AllGood(o.store, T)
<1>1. /\ HeapGood(s) /\ DOMAIN S = Objects(s) /\ S = [a \in DOMAIN S |-> S[a]]
      /\ \A a \in DOMAIN S : SpaceGood(S[a])
      /\ \A u \in SpaceUsages :
           /\ FramesOf(s, u) = UNION {Own(S[a], u) : a \in DOMAIN S}
           /\ \A a, b \in DOMAIN S : a # b => Own(S[a], u) \cap Own(S[b], u) = {}
  BY DEF AllGood
<1>2. CASE o.status # "success"
  <2>1. HeapGood(o.store) /\ Objects(o.store) = Objects(s)
        /\ \A u \in SpaceUsages : FramesOf(o.store, u) = FramesOf(s, u)
    BY <1>2 DEF Created, SpaceUsages
  <2>2. T = S
    BY <1>2
  <2>3. QED BY <1>1, <2>1, <2>2 DEF AllGood
<1>3. CASE o.status = "success"
  <2>1. PICK at, h : at = o.at /\ h = o.store
    OBVIOUS
  <2>2. /\ HeapGood(h) /\ at \notin Objects(s) /\ Objects(h) = Objects(s) \cup {at}
        /\ \A u \in SpaceUsages : u # "page_table" => FramesOf(h, u) = FramesOf(s, u)
    BY <1>3, <2>1 DEF Created
  <2>3. PICK f \in FrameIds \ FramesOf(s, "page_table") :
           /\ o.space = NewSpace(f)
           /\ FramesOf(h, "page_table") = FramesOf(s, "page_table") \cup {f}
    BY <1>3, <2>1 DEF Created
  <2>4. PICK t : t = NewSpace(f)
    OBVIOUS
  <2>5. /\ SpaceGood(t) /\ Own(t, "page_table") = {f}
        /\ Own(t, "service_image") = {} /\ Own(t, "service_stack") = {}
    BY <2>4, NewIsGood
  <2>6. T = [k \in DOMAIN S \cup {at} |-> IF k = at THEN t ELSE S[k]]
    BY <1>3, <2>1, <2>3, <2>4 DEF Put
  <2>7. /\ DOMAIN T = DOMAIN S \cup {at} /\ at \notin DOMAIN S /\ T[at] = t
        /\ (\A a \in DOMAIN S : T[a] = S[a]) /\ T = [a \in DOMAIN T |-> T[a]]
    BY <1>1, <2>2, <2>6
  <2>8. ASSUME NEW u \in SpaceUsages
        PROVE  /\ FramesOf(h, u) = UNION {Own(T[a], u) : a \in DOMAIN T}
               /\ \A a, b \in DOMAIN T : a # b => Own(T[a], u) \cap Own(T[b], u) = {}
    <3>1. FramesOf(h, u) = FramesOf(s, u) \cup Own(t, u) /\ FramesOf(s, u) \cap Own(t, u) = {}
      <4>1. CASE u = "page_table"
        BY <2>3, <2>5, <4>1
      <4>2. CASE u # "page_table"
        BY <2>2, <2>5, <4>2 DEF SpaceUsages
      <4>3. QED BY <4>1, <4>2
    <3>2. FramesOf(s, u) = UNION {Own(S[a], u) : a \in DOMAIN S}
      BY <1>1
    <3>3. FramesOf(s, u) = UNION {Own(T[a], u) : a \in DOMAIN S}
      BY <2>7, <3>2
    <3>4. FramesOf(h, u) = UNION {Own(T[a], u) : a \in DOMAIN T}
      BY <2>7, <3>1, <3>3
    <3>5. ASSUME NEW a \in DOMAIN T, NEW b \in DOMAIN T, a # b
          PROVE  Own(T[a], u) \cap Own(T[b], u) = {}
      <4>1. CASE a # at /\ b # at
        BY <1>1, <2>7, <3>5, <4>1
      <4>2. CASE a = at
        BY <2>7, <3>1, <3>3, <3>5, <4>2
      <4>3. CASE b = at
        BY <2>7, <3>1, <3>3, <3>5, <4>3
      <4>4. QED BY <4>1, <4>2, <4>3
    <3>6. QED BY <3>4, <3>5
  <2>9. \A a \in DOMAIN T : SpaceGood(T[a])
    BY <1>1, <2>5, <2>7
  <2>10. QED BY <1>1, <2>1, <2>2, <2>7, <2>8, <2>9 DEF AllGood
<1>4. QED BY <1>2, <1>3

LEMMA AfterDestroy ==
  ASSUME NEW s, NEW S, AllGood(s, S), NEW at \in DOMAIN S,
         NEW o, Destroyed(s, at, S[at], RestOf(S, at), o),
         NEW T, T = Without(S, {at})
  PROVE  AllGood(o.store, T)
<1>1. PICK h, r : h = o.store /\ r = RestOf(S, at)
  OBVIOUS
<1>2. HeapGood(h) /\ Objects(h) = Objects(s) \ {at} /\ \A u \in SpaceUsages : FramesOf(h, u) = r[u]
  BY <1>1 DEF Destroyed
<1>3. /\ DOMAIN S = Objects(s)
      /\ \A a \in DOMAIN S : SpaceGood(S[a])
      /\ \A u \in SpaceUsages : \A a, b \in DOMAIN S : a # b => Own(S[a], u) \cap Own(S[b], u) = {}
  BY DEF AllGood
<1>4. DOMAIN T = DOMAIN S \ {at} /\ (\A a \in DOMAIN S \ {at} : T[a] = S[a])
      /\ T = [a \in DOMAIN T |-> T[a]]
  BY DEF Without
<1>5. ASSUME NEW u \in SpaceUsages
      PROVE  FramesOf(h, u) = UNION {Own(T[a], u) : a \in DOMAIN T}
  <2>1. r[u] = UNION {Own(S[a], u) : a \in DOMAIN S \ {at}}
    BY <1>1 DEF RestOf
  <2>2. r[u] = UNION {Own(T[a], u) : a \in DOMAIN T}
    <3>1. PICK D : D = DOMAIN S \ {at}
      OBVIOUS
    <3>2. DOMAIN T = D /\ \A a \in D : T[a] = S[a]
      BY <1>4, <3>1
    <3>3. {Own(T[a], u) : a \in D} = {Own(S[a], u) : a \in D}
      BY <3>2
    <3>4. QED BY <2>1, <3>1, <3>2, <3>3
  <2>3. QED BY <1>2, <2>2
<1>6. \A a \in DOMAIN T : SpaceGood(T[a])
  BY <1>3, <1>4
<1>7. ASSUME NEW u \in SpaceUsages, NEW a \in DOMAIN T, NEW b \in DOMAIN T, a # b
      PROVE  Own(T[a], u) \cap Own(T[b], u) = {}
  <2>1. a \in DOMAIN S /\ b \in DOMAIN S /\ T[a] = S[a] /\ T[b] = S[b]
    BY <1>4
  <2>2. QED BY <1>3, <1>7, <2>1
<1>8. QED BY <1>1, <1>2, <1>3, <1>4, <1>5, <1>6, <1>7 DEF AllGood

-----------------------------------------------------------------------------
(* The inductive invariant.                                                *)

SpacesInv == AllGood(store, spaces)

LEMMA FreshIsGood == AllGood(FreshHeap, NoPages)
<1>1. PICK s : s = FreshHeap
  OBVIOUS
<1>2. /\ s.frames = [f \in FrameIds |-> IF f <= MetadataPages THEN "heap_metadata" ELSE "free"]
      /\ s.slabs = [i \in 1 .. MaxSlabPages |-> NoSlab] /\ s.large = {}
      /\ s.active = [c \in DOMAIN BlockSizes |-> 0]
      /\ s.counts = [pages |-> 0, slab |-> 0, large |-> 0]
      /\ s = [frames |-> s.frames, slabs |-> s.slabs, large |-> s.large,
              active |-> s.active, counts |-> s.counts]
  BY <1>1 DEF FreshHeap
<1>3. s \in Stores
  <2>1. s.frames \in FrameTables
    BY <1>2 DEF FrameTables, Usages
  <2>2. NoSlab \in SlabRecords
    BY HeapNumbers DEF NoSlab, SlabRecords
  <2>3. s.slabs \in [1 .. MaxSlabPages -> SlabRecords]
    BY <1>2, <2>2
  <2>4. s.active \in [DOMAIN BlockSizes -> Nat] /\ s.counts \in Counts /\ s.large \in SUBSET LargeRecords
    BY <1>2 DEF Counts
  <2>5. QED BY <1>2, <2>1, <2>3, <2>4 DEF Stores
<1>4. SlabPages(s) = {}
  <2>1. \A i \in 1 .. MaxSlabPages : s.slabs[i].frame = 0
    BY <1>2 DEF NoSlab
  <2>2. DOMAIN s.slabs = 1 .. MaxSlabPages
    BY <1>2
  <2>3. QED BY <2>1, <2>2 DEF SlabPages, IdleSlabs, IsActive
<1>5. BlocksInUse(s) = {} /\ HeapFrames(s) = {} /\ SlabFrames(s) = {}
  BY <1>2, <1>4 DEF BlocksInUse, HeapFrames, SlabFrames
<1>6. \A u \in Usages \ {"heap_metadata", "free"} : FramesOf(s, u) = {}
  BY <1>2 DEF FramesOf
<1>7. Lone(s) = {} /\ FramesOf(s, "page_table") = {} /\ Objects(s) = {}
  BY <1>5, <1>6 DEF Lone, Objects, Usages
<1>8. SlabsGood(s)
  <2>1. \A c \in DOMAIN BlockSizes : s.active[c] = 0 /\ OfClass(s, c) = {}
    BY <1>2, <1>4 DEF OfClass
  <2>2. QED BY <1>4, <2>1, FS_EmptySet DEF SlabsGood
<1>9. HeapGood(s)
  BY <1>2, <1>3, <1>5, <1>7, <1>8, FS_EmptySet, HeapNumbers DEF HeapGood
<1>10. PICK S : S = NoPages
  OBVIOUS
<1>11. DOMAIN S = {} /\ S = [a \in DOMAIN S |-> S[a]]
  BY <1>10 DEF NoPages
<1>12. \A u \in SpaceUsages : FramesOf(s, u) = {}
  BY <1>6 DEF SpaceUsages, Usages
<1>13. \A u \in SpaceUsages : FramesOf(s, u) = UNION {Own(S[a], u) : a \in DOMAIN S}
  BY <1>11, <1>12
<1>14. AllGood(s, S)
  BY <1>7, <1>9, <1>11, <1>13 DEF AllGood
<1>15. QED BY <1>1, <1>10, <1>14

LEMMA InitGood == Init => SpacesInv
BY FreshIsGood DEF Init, SpacesInv

LEMMA Applied ==
  ASSUME SpacesInv, NEW at \in DOMAIN spaces, NEW o,
         Settled(o, Objects(store), RestOf(spaces, at)), Apply(at, o)
  PROVE  SpacesInv'
<1>1. store' = o.store /\ spaces' = [spaces EXCEPT ![at] = o.space]
  BY DEF Apply
<1>2. AllGood(o.store, [spaces EXCEPT ![at] = o.space])
  BY AfterRequest DEF SpacesInv
<1>3. QED BY <1>1, <1>2 DEF SpacesInv

LEMMA CreateKeeps == ASSUME SpacesInv, CreateAddressSpace PROVE SpacesInv'
<1>1. PICK o : o = CreateOutcome(store)
  OBVIOUS
<1>2. PICK T : T = IF o.status = "success" THEN Put(spaces, o.at, o.space) ELSE spaces
  OBVIOUS
<1>3. store' = o.store /\ spaces' = T
  BY <1>1, <1>2 DEF CreateAddressSpace
<1>4. Created(store, o)
  BY <1>1, CreateIs DEF SpacesInv, AllGood
<1>5. AllGood(o.store, T)
  BY <1>2, <1>4, AfterCreate DEF SpacesInv
<1>6. QED BY <1>3, <1>5 DEF SpacesInv

LEMMA AttachKeeps ==
  ASSUME PlacesApart, SpacesInv, NEW at \in DOMAIN spaces, NEW img \in Images, AttachStagedImage(at, img)
  PROVE  SpacesInv'
<1>1. PICK o : o = AttachOutcome(store, at, spaces[at], img)
  OBVIOUS
<1>2. /\ RestOf(spaces, at) \in Rests /\ Held(store, spaces[at], RestOf(spaces, at))
      /\ SpaceGood(spaces[at]) /\ at \in Objects(store)
  BY RestIs DEF SpacesInv
<1>3. Settled(o, Objects(store), RestOf(spaces, at))
  BY <1>1, <1>2, AttachSettled
<1>4. Apply(at, o)
  BY <1>1 DEF AttachStagedImage
<1>5. QED BY <1>3, <1>4, Applied

LEMMA StackKeeps ==
  ASSUME PlacesApart, SpacesInv, NEW at \in DOMAIN spaces, NEW r \in StackRequests,
         AllocateAddressSpaceStack(at, r)
  PROVE  SpacesInv'
<1>1. PICK o : o = StackOutcome(store, spaces[at], r)
  OBVIOUS
<1>2. /\ RestOf(spaces, at) \in Rests /\ Held(store, spaces[at], RestOf(spaces, at))
      /\ SpaceGood(spaces[at])
  BY RestIs DEF SpacesInv
<1>3. Settled(o, Objects(store), RestOf(spaces, at))
  BY <1>1, <1>2, StackSettled
<1>4. Apply(at, o)
  BY <1>1 DEF AllocateAddressSpaceStack
<1>5. QED BY <1>3, <1>4, Applied

(* What a request for pages finds when it breaks no rule.                  *)
LEMMA NoRuleBroken ==
  ASSUME NEW sp, NEW r, BrokenRule(sp, r) = "no"
  PROVE  IsVirtualRangeReserved(sp, r.base, r.count) /\ r.flags \subseteq AllowedFlags
BY DEF BrokenRule

LEMMA AccessKeeps ==
  ASSUME SpacesInv, NEW at \in DOMAIN spaces, NEW r, NEW o, Access(at, r, o),
         BrokenRule(spaces[at], r) = "no" => Settled(o, Objects(store), RestOf(spaces, at))
  PROVE  SpacesInv'
<1>1. CASE BrokenRule(spaces[at], r) # "no"
  BY <1>1 DEF Access, Halt, SpacesInv
<1>2. CASE BrokenRule(spaces[at], r) = "no"
  <2>1. Apply(at, o)
    BY <1>2 DEF Access
  <2>2. QED BY <1>2, <2>1, Applied
<1>3. QED BY <1>1, <1>2

LEMMA MapKeeps ==
  ASSUME PlacesApart, SpacesInv, NEW at \in DOMAIN spaces, NEW r \in PageRequests, MapPages(at, r)
  PROVE  SpacesInv'
<1>1. PICK sp, rest : sp = spaces[at] /\ rest = RestOf(spaces, at)
  OBVIOUS
<1>2. Held(store, sp, rest) /\ SpaceGood(sp)
  BY <1>1, RestIs DEF SpacesInv
<1>3. PICK x0, x : /\ x0 = [ok |-> TRUE, store |-> store, space |-> sp]
                   /\ x = MapPagesInto(x0, r.base, r.frame, Alike(r.count, r.flags))
  OBVIOUS
<1>4. PICK o : o = Answered(IF x.ok THEN "success" ELSE "conflict", x.store, x.space)
  OBVIOUS
<1>5. o.store = x.store /\ o.space = x.space
  BY <1>4 DEF Answered
<1>6. Halt("base-plus-size-wrap") \/ Access(at, r, o)
  BY <1>1, <1>3, <1>4 DEF MapPages
<1>7. ASSUME BrokenRule(sp, r) = "no"
      PROVE  Settled(o, Objects(store), rest)
  <2>1. IsVirtualRangeReserved(sp, r.base, r.count) /\ r.flags \in SUBSET PageBits
    BY <1>7, NoRuleBroken DEF PageBits
  <2>2. PICK base, frame, count, flags :
          base = r.base /\ frame = r.frame /\ count = r.count /\ flags = r.flags
    OBVIOUS
  <2>3. base \in Nat /\ frame \in Nat /\ count \in Nat /\ count > 0
    BY <2>2, PageRequestIs
  <2>4. IsVirtualRangeReserved(sp, base, count) /\ flags \in SUBSET PageBits
        /\ x = MapPagesInto(x0, base, frame, Alike(count, flags))
    BY <1>3, <2>1, <2>2
  <2>5. QED BY <1>2, <1>3, <1>5, <2>3, <2>4, MapSettled
<1>8. CASE Halt("base-plus-size-wrap")
  BY <1>8 DEF Halt, SpacesInv
<1>9. CASE Access(at, r, o)
  BY <1>1, <1>7, <1>9, AccessKeeps
<1>10. QED BY <1>6, <1>8, <1>9

LEMMA UnmapKeeps ==
  ASSUME PlacesApart, SpacesInv, NEW at \in DOMAIN spaces, NEW r \in PageRequests, UnmapPages(at, r)
  PROVE  SpacesInv'
<1>1. PICK sp, rest : sp = spaces[at] /\ rest = RestOf(spaces, at)
  OBVIOUS
<1>2. Held(store, sp, rest) /\ SpaceGood(sp)
  BY <1>1, RestIs DEF SpacesInv
<1>3. PICK base, count : base = r.base /\ count = r.count
  OBVIOUS
<1>4. PICK q : q = [r EXCEPT !.flags = {}]
  OBVIOUS
<1>5. base \in Nat /\ count \in Nat /\ q.base = base /\ q.count = count
  BY <1>3, <1>4, PageRequestIs
<1>6. PICK o : o = Answered("done", store, UnmapFrom(sp, base, count))
  OBVIOUS
<1>7. o.store = store /\ o.space = UnmapFrom(sp, base, count)
  BY <1>6 DEF Answered
<1>8. Access(at, q, o)
  BY <1>1, <1>3, <1>4, <1>6 DEF UnmapPages
<1>9. ASSUME BrokenRule(sp, q) = "no"
      PROVE  Settled(o, Objects(store), rest)
  <2>1. IsVirtualRangeReserved(sp, base, count)
    BY <1>5, <1>9, NoRuleBroken
  <2>2. QED BY <1>2, <1>5, <1>7, <2>1, UnmapSettled
<1>10. QED BY <1>1, <1>8, <1>9, AccessKeeps

LEMMA ProtectKeeps ==
  ASSUME PlacesApart, SpacesInv, NEW at \in DOMAIN spaces, NEW r \in PageRequests, ProtectPages(at, r)
  PROVE  SpacesInv'
<1>1. PICK sp, rest : sp = spaces[at] /\ rest = RestOf(spaces, at)
  OBVIOUS
<1>2. Held(store, sp, rest) /\ SpaceGood(sp)
  BY <1>1, RestIs DEF SpacesInv
<1>3. PICK base, count, flags : base = r.base /\ count = r.count /\ flags = r.flags
  OBVIOUS
<1>4. base \in Nat /\ count \in Nat
  BY <1>3, PageRequestIs
<1>5. PICK o : o = Answered("done", store, ProtectIn(sp, base, count, flags))
  OBVIOUS
<1>6. o.store = store /\ o.space = ProtectIn(sp, base, count, flags)
  BY <1>5 DEF Answered
<1>7. Access(at, r, o)
  BY <1>1, <1>3, <1>5 DEF ProtectPages
<1>8. ASSUME BrokenRule(sp, r) = "no"
      PROVE  Settled(o, Objects(store), rest)
  <2>1. IsVirtualRangeReserved(sp, base, count) /\ flags \in SUBSET PageBits
    BY <1>3, <1>8, NoRuleBroken DEF PageBits
  <2>2. QED BY <1>2, <1>4, <1>6, <2>1, ProtectSettled
<1>9. QED BY <1>1, <1>7, <1>8, AccessKeeps

LEMMA DestroyKeeps ==
  ASSUME SpacesInv, NEW at \in DOMAIN spaces, DestroyAddressSpace(at)
  PROVE  SpacesInv'
<1>1. PICK o : o = DestroyOutcome(store, at, spaces[at])
  OBVIOUS
<1>2. /\ Held(store, spaces[at], RestOf(spaces, at)) /\ SpaceGood(spaces[at]) /\ at \in Objects(store)
  BY RestIs DEF SpacesInv
<1>3. Destroyed(store, at, spaces[at], RestOf(spaces, at), o)
  BY <1>1, <1>2, DestroyIs
<1>4. o.wiped = TRUE
  BY <1>3 DEF Destroyed
<1>5. store' = o.store /\ spaces' = Without(spaces, {at})
  BY <1>1, <1>4 DEF DestroyAddressSpace
<1>6. AllGood(o.store, Without(spaces, {at}))
  BY <1>3, AfterDestroy DEF SpacesInv
<1>7. QED BY <1>5, <1>6 DEF SpacesInv

LEMMA StepGood == ASSUME PlacesApart, SpacesInv, [Next]_vars PROVE SpacesInv'
<1>1. CASE CreateAddressSpace
  BY <1>1, CreateKeeps
<1>2. ASSUME NEW at \in DOMAIN spaces, NEW img \in Images, AttachStagedImage(at, img)
      PROVE  SpacesInv'
  BY <1>2, AttachKeeps
<1>3. ASSUME NEW at \in DOMAIN spaces, NEW r \in StackRequests, AllocateAddressSpaceStack(at, r)
      PROVE  SpacesInv'
  BY <1>3, StackKeeps
<1>4. ASSUME NEW at \in DOMAIN spaces, NEW r \in PageRequests,
             MapPages(at, r) \/ UnmapPages(at, r) \/ ProtectPages(at, r)
      PROVE  SpacesInv'
  BY <1>4, MapKeeps, UnmapKeeps, ProtectKeeps
<1>5. ASSUME NEW at \in DOMAIN spaces, DestroyAddressSpace(at)
      PROVE  SpacesInv'
  BY <1>5, DestroyKeeps
<1>6. CASE UNCHANGED vars
  BY <1>6 DEF vars, SpacesInv
<1>7. QED BY <1>1, <1>2, <1>3, <1>4, <1>5, <1>6 DEF Next

(* The invariant holds in every reachable state: wherever on its way a     *)
(* request that creates, fills, maps or destroys a space runs out, it      *)
(* leaves no frame with two owners, no space whose regions are not its     *)
(* parts, and no half-made placement that a repair would take for one.     *)
THEOREM SpacesInvariant == ASSUME PlacesApart PROVE Spec => []SpacesInv
<1>1. SpacesInv /\ [Next]_vars => SpacesInv'
  BY StepGood
<1>2. QED BY <1>1, InitGood, PTL DEF Spec

-----------------------------------------------------------------------------
(* What the invariant says of one space.                                   *)

LEMMA InvIs ==
  ASSUME SpacesInv
  PROVE  /\ HeapGood(store) /\ store \in Stores /\ DOMAIN spaces = Objects(store)
         /\ \A a \in DOMAIN spaces : SpaceGood(spaces[a]) /\ spaces[a] \in Spaces /\ TablesApart(spaces[a])
         /\ \A u \in SpaceUsages :
              /\ FramesOf(store, u) = UNION {Own(spaces[a], u) : a \in DOMAIN spaces}
              /\ \A a, b \in DOMAIN spaces : a # b => Own(spaces[a], u) \cap Own(spaces[b], u) = {}
BY DEF SpacesInv, AllGood, HeapGood, SpaceGood

LEMMA OwnIsClaimed ==
  ASSUME SpacesInv, NEW a \in DOMAIN spaces, NEW u \in SpaceUsages, NEW f \in Own(spaces[a], u)
  PROVE  f \in FrameIds /\ store.frames[f] = u
<1>1. f \in FramesOf(store, u)
  BY InvIs
<1>2. QED BY <1>1 DEF FramesOf

LEMMA BlocksAre ==
  ASSUME NEW s, HeapGood(s)
  PROVE  /\ BlocksInUse(s) \subseteq SlabFrames(s) \X Nat
         /\ SlabFrames(s) \subseteq FrameIds
         /\ \A i \in SlabPages(s) : /\ s.slabs[i].usage = "address_space_object"
                                    /\ s.frames[s.slabs[i].frame] = "address_space_object"
<1>1. \A i \in SlabPages(s) : SlabGood(s, i)
  BY DEF HeapGood, SlabsGood
<1>2. \A i \in SlabPages(s) : /\ s.slabs[i].frame \in FrameIds /\ s.slabs[i].class \in DOMAIN BlockSizes
                              /\ s.slabs[i].usage = "address_space_object"
                              /\ s.frames[s.slabs[i].frame] = "address_space_object"
  BY <1>1 DEF SlabGood
<1>3. ASSUME NEW x \in BlocksInUse(s)
      PROVE  x \in SlabFrames(s) \X Nat
  <2>1. PICK i \in SlabPages(s) :
          \E b \in 0 .. Blocks(s.slabs[i].class) - 1 : x = <<s.slabs[i].frame, b>>
    BY DEF BlocksInUse
  <2>2. PICK b \in 0 .. Blocks(s.slabs[i].class) - 1 : x = <<s.slabs[i].frame, b>>
    BY <2>1
  <2>3. s.slabs[i].frame \in SlabFrames(s) /\ b \in Nat
    BY DEF SlabFrames
  <2>4. QED BY <2>2, <2>3
<1>4. QED BY <1>2, <1>3 DEF SlabFrames

LEMMA ObjectIds ==
  ASSUME NEW s, HeapGood(s)
  PROVE  /\ Objects(s) \subseteq FrameIds \X Nat
         /\ \A f \in Lone(s) : <<f, 0>> \in Objects(s) /\ <<f, 0>> \notin BlocksInUse(s)
         /\ Objects(s) \ BlocksInUse(s) = {<<f, 0>> : f \in Lone(s)}
<1>1. BlocksInUse(s) \subseteq SlabFrames(s) \X Nat /\ SlabFrames(s) \subseteq FrameIds
  BY BlocksAre
<1>2. Lone(s) \subseteq FrameIds /\ \A f \in Lone(s) : f \notin SlabFrames(s)
  BY DEF Lone, FramesOf
<1>3. \A f \in Lone(s) : <<f, 0>> \notin BlocksInUse(s)
  BY <1>1, <1>2
<1>4. QED BY <1>1, <1>2, <1>3 DEF Objects

LEMMA InvTyped == SpacesInv => TypeOK
<1> SUFFICES ASSUME SpacesInv PROVE TypeOK
  OBVIOUS
<1>1. HeapGood(store) /\ store \in Stores /\ DOMAIN spaces = Objects(store)
  BY InvIs
<1>2. store.frames \in [FrameIds -> {"free", "heap_metadata", "address_space_object", "page_table",
                                     "service_image", "service_stack"}]
      /\ DOMAIN store.slabs = 1 .. MaxSlabPages
  BY <1>1 DEF Stores, FrameTables, Usages
<1>3. Cardinality(store.large) <= MaxLarge
  BY <1>1 DEF HeapGood
<1>4. DOMAIN spaces \subseteq FrameIds \X Nat
  BY <1>1, ObjectIds
<1>5. ASSUME NEW a \in DOMAIN spaces
      PROVE  /\ spaces[a].root \in FrameIds /\ Len(spaces[a].regions) <= MaxRegions
             /\ spaces[a].has \subseteq Parts
  <2>1. SpaceGood(spaces[a]) /\ spaces[a] \in Spaces
    BY InvIs
  <2>2. QED BY <2>1, SpaceFields, RegionsAre
<1>6. QED BY <1>2, <1>3, <1>4, <1>5 DEF TypeOK

-----------------------------------------------------------------------------
(* Every claimed frame has one holder.                                     *)

LEMMA HoldersAre ==
  ASSUME NEW f, NEW u, NEW z
  PROVE  z \in Holders(f, u) <=>
           \/ \E a \in DOMAIN spaces, p \in Parts :
                z = <<a, p>> /\ p \in spaces[a].has /\ u = UsageOf(p) /\ f \in PartFrames(spaces[a], p)
           \/ \E a \in DOMAIN spaces : \E t \in Tables(spaces[a]) :
                z = <<a, t[1]>> /\ t[2] = f /\ u = "page_table"
           \/ \E i \in SlabPages(store) :
                z = <<"heap", i>> /\ store.slabs[i].frame = f /\ store.slabs[i].usage = u
           \/ \E a \in DOMAIN spaces :
                z = <<"object", a>> /\ a = <<f, 0>> /\ a \notin BlocksInUse(store) /\ u = "address_space_object"
<1> DEFINE A == {x \in (DOMAIN spaces) \X Parts :
                   /\ x[2] \in spaces[x[1]].has /\ u = UsageOf(x[2])
                   /\ f \in PartFrames(spaces[x[1]], x[2])}
           B == UNION {{<<a, t[1]>> : t \in {w \in Tables(spaces[a]) : w[2] = f /\ u = "page_table"}} :
                       a \in DOMAIN spaces}
           C == {<<"heap", i>> : i \in {j \in SlabPages(store) :
                   store.slabs[j].frame = f /\ store.slabs[j].usage = u}}
           D == {<<"object", a>> : a \in {b \in DOMAIN spaces : b = <<f, 0>> /\ b \notin BlocksInUse(store)
                                                      /\ u = "address_space_object"}}
<1>1. Holders(f, u) = A \cup B \cup C \cup D
  BY DEF Holders
<1>2. z \in A <=> \E a \in DOMAIN spaces, p \in Parts :
        z = <<a, p>> /\ p \in spaces[a].has /\ u = UsageOf(p) /\ f \in PartFrames(spaces[a], p)
  OBVIOUS
<1>3. z \in B <=> \E a \in DOMAIN spaces : \E t \in Tables(spaces[a]) :
        z = <<a, t[1]>> /\ t[2] = f /\ u = "page_table"
  <2> DEFINE Of(a) == {<<a, t[1]>> : t \in {w \in Tables(spaces[a]) : w[2] = f /\ u = "page_table"}}
  <2>1. \A a : z \in Of(a) <=> \E t \in Tables(spaces[a]) : z = <<a, t[1]>> /\ t[2] = f /\ u = "page_table"
    OBVIOUS
  <2>2. z \in B <=> \E a \in DOMAIN spaces : z \in Of(a)
    OBVIOUS
  <2> HIDE DEF Of, B
  <2>3. QED BY <2>1, <2>2
<1>4. z \in C <=> \E i \in SlabPages(store) :
        z = <<"heap", i>> /\ store.slabs[i].frame = f /\ store.slabs[i].usage = u
  OBVIOUS
<1>5. z \in D <=> \E a \in DOMAIN spaces :
        z = <<"object", a>> /\ a = <<f, 0>> /\ a \notin BlocksInUse(store) /\ u = "address_space_object"
  OBVIOUS
<1> HIDE DEF A, B, C, D
<1>6. z \in Holders(f, u) <=> z \in A \/ z \in B \/ z \in C \/ z \in D
  BY <1>1
<1>7. QED BY <1>2, <1>3, <1>4, <1>5, <1>6

LEMMA TablesAre ==
  ASSUME NEW sp
  PROVE  TableFrames(sp) = {t[2] : t \in Tables(sp)}
<1>1. PICK root, nodes : root = sp.root /\ nodes = sp.nodes
  OBVIOUS
<1>2. PICK key : key = <<Levels + 1, 0>>
  OBVIOUS
<1>3. Tables(sp) = {<<key, root>>} \cup {<<n, nodes[n]>> : n \in DOMAIN nodes}
  BY <1>1, <1>2 DEF Tables
<1>4. TableFrames(sp) = {root} \cup {nodes[n] : n \in DOMAIN nodes}
  BY <1>1 DEF TableFrames
<1>5. PICK T : T = Tables(sp)
  OBVIOUS
<1>6. \A f : f \in {t[2] : t \in T} => f \in {root} \cup {nodes[n] : n \in DOMAIN nodes}
  BY <1>3, <1>5
<1>7. <<key, root>> \in T /\ \A n \in DOMAIN nodes : <<n, nodes[n]>> \in T
  BY <1>3, <1>5
<1>8. ASSUME NEW f \in {root} \cup {nodes[n] : n \in DOMAIN nodes}
      PROVE  f \in {t[2] : t \in T}
  <2>1. CASE f = root
    BY <1>7, <2>1
  <2>2. ASSUME NEW n \in DOMAIN nodes, f = nodes[n]
        PROVE  f \in {t[2] : t \in T}
    <3>1. PICK t \in T : t = <<n, f>>
      BY <1>7, <2>2
    <3>2. QED BY <3>1
  <2>3. QED BY <2>1, <2>2
<1>9. QED BY <1>4, <1>5, <1>6, <1>8

LEMMA OneHolder ==
  ASSUME NEW f, NEW u, NEW z, z \in Holders(f, u), \A y \in Holders(f, u) : y = z
  PROVE  Cardinality(Holders(f, u)) = 1
<1>1. Holders(f, u) = {z}
  OBVIOUS
<1>2. QED BY <1>1, FS_Singleton

LEMMA TableHeldOnce ==
  ASSUME SpacesInv, NEW f \in FrameIds, store.frames[f] = "page_table"
  PROVE  Cardinality(Holders(f, "page_table")) = 1
<1>1. "page_table" \in SpaceUsages /\ f \in FramesOf(store, "page_table")
  BY DEF SpaceUsages, FramesOf
<1>2. PICK a \in DOMAIN spaces : f \in TableFrames(spaces[a])
  BY <1>1, InvIs DEF Own
<1>3. \A b \in DOMAIN spaces : f \in TableFrames(spaces[b]) => b = a
  BY <1>1, <1>2, InvIs DEF Own
<1>4. \A b \in DOMAIN spaces : \A t \in Tables(spaces[b]) : t[2] \in TableFrames(spaces[b])
  BY TablesAre
<1>5. PICK t \in Tables(spaces[a]) : t[2] = f
  BY <1>2, TablesAre
<1>6. \A t2 \in Tables(spaces[a]) : t2[2] = f => t2 = t
  <2>1. TablesApart(spaces[a])
    BY InvIs
  <2>2. QED BY <1>5, <2>1 DEF Tables, TablesApart
<1>7. PICK z : z = <<a, t[1]>>
  OBVIOUS
<1>8. z \in Holders(f, "page_table")
  BY <1>5, <1>7, HoldersAre
<1>9. ASSUME NEW y \in Holders(f, "page_table")
      PROVE  y = z
  <2>1. \A p : UsageOf(p) # "page_table"
    BY DEF UsageOf
  <2>2. \A i \in SlabPages(store) : store.slabs[i].usage # "page_table"
    BY InvIs, BlocksAre
  <2>3. \E b \in DOMAIN spaces : \E t2 \in Tables(spaces[b]) : y = <<b, t2[1]>> /\ t2[2] = f
    BY <2>1, <2>2, HoldersAre
  <2>4. PICK b \in DOMAIN spaces : \E t2 \in Tables(spaces[b]) : y = <<b, t2[1]>> /\ t2[2] = f
    BY <2>3
  <2>5. PICK t2 \in Tables(spaces[b]) : y = <<b, t2[1]>> /\ t2[2] = f
    BY <2>4
  <2>6. b = a
    BY <1>3, <1>4, <2>5
  <2>7. t2 = t
    BY <1>6, <2>5, <2>6
  <2>8. QED BY <1>7, <2>5, <2>6, <2>7
<1>10. QED BY <1>8, <1>9, OneHolder

LEMMA PartHeldOnce ==
  ASSUME SpacesInv, NEW p \in Parts, NEW f \in FrameIds, store.frames[f] = UsageOf(p)
  PROVE  Cardinality(Holders(f, UsageOf(p))) = 1
<1>1. PICK u : u = UsageOf(p)
  OBVIOUS
<1>2. /\ u \in SpaceUsages /\ u # "page_table" /\ u # "address_space_object"
      /\ \A sp : Own(sp, u) = PartFrames(sp, p)
      /\ \A q \in Parts : u = UsageOf(q) => q = p
  BY <1>1 DEF Own, UsageOf, Parts, SpaceUsages
<1>3. f \in FramesOf(store, u)
  BY <1>1 DEF FramesOf
<1>4. PICK a \in DOMAIN spaces : f \in PartFrames(spaces[a], p)
  BY <1>2, <1>3, InvIs
<1>5. \A b \in DOMAIN spaces : f \in PartFrames(spaces[b], p) => b = a
  BY <1>2, <1>4, InvIs
<1>6. p \in spaces[a].has
  <2>1. CASE p \notin spaces[a].has
    <3>1. spaces[a].parts[p] = NoPart
      BY <2>1, InvIs, PartIs
    <3>2. QED BY <1>4, <3>1, NoFramesYet
  <2>2. QED BY <2>1
<1>7. PICK z : z = <<a, p>>
  OBVIOUS
<1>8. z \in Holders(f, u)
  BY <1>1, <1>4, <1>6, <1>7, HoldersAre
<1>9. ASSUME NEW y \in Holders(f, u)
      PROVE  y = z
  <2>1. \A i \in SlabPages(store) : store.slabs[i].usage # u
    BY <1>2, InvIs, BlocksAre
  <2>2. \E b \in DOMAIN spaces, q \in Parts : y = <<b, q>> /\ u = UsageOf(q) /\ f \in PartFrames(spaces[b], q)
    BY <1>2, <2>1, HoldersAre
  <2>3. QED BY <1>2, <1>5, <1>7, <2>2
<1>10. QED BY <1>1, <1>8, <1>9, OneHolder

LEMMA ObjectHeldOnce ==
  ASSUME SpacesInv, NEW f \in FrameIds, store.frames[f] = "address_space_object"
  PROVE  Cardinality(Holders(f, "address_space_object")) = 1
<1> DEFINE u == "address_space_object"
<1>1. \A p : UsageOf(p) # u
  BY DEF UsageOf
<1>2. HeapGood(store) /\ DOMAIN spaces = Objects(store)
  BY InvIs
<1>3. CASE f \in SlabFrames(store)
  <2>1. PICK i \in SlabPages(store) : store.slabs[i].frame = f
    BY <1>3 DEF SlabFrames
  <2>2. \A j \in SlabPages(store) : store.slabs[j].frame = f => j = i
    BY <1>2, <2>1 DEF HeapGood, SlabsGood
  <2>3. <<f, 0>> \notin DOMAIN spaces \/ <<f, 0>> \in BlocksInUse(store)
    <3>1. f \notin Lone(store)
      BY <1>3 DEF Lone
    <3>2. QED BY <1>2, <3>1 DEF Objects
  <2>4. PICK z : z = <<"heap", i>>
    OBVIOUS
  <2>5. z \in Holders(f, u)
    BY <1>2, <2>1, <2>4, BlocksAre, HoldersAre
  <2>6. ASSUME NEW y \in Holders(f, u)
        PROVE  y = z
    <3>1. \E j \in SlabPages(store) : y = <<"heap", j>> /\ store.slabs[j].frame = f
      BY <1>1, <2>3, HoldersAre
    <3>2. QED BY <2>2, <2>4, <3>1
  <2>7. QED BY <2>5, <2>6, OneHolder
<1>4. CASE f \notin SlabFrames(store)
  <2>1. f \in Lone(store)
    BY <1>4 DEF Lone, FramesOf
  <2>2. PICK a : a = <<f, 0>>
    OBVIOUS
  <2>3. a \in DOMAIN spaces /\ a \notin BlocksInUse(store)
    BY <1>2, <2>1, <2>2, ObjectIds
  <2>4. PICK z : z = <<"object", a>>
    OBVIOUS
  <2>5. z \in Holders(f, u)
    BY <2>2, <2>3, <2>4, HoldersAre
  <2>6. \A j \in SlabPages(store) : store.slabs[j].frame # f
    BY <1>4 DEF SlabFrames
  <2>7. \A y \in Holders(f, u) : y = z
    BY <1>1, <2>2, <2>4, <2>6, HoldersAre
  <2>8. QED BY <2>5, <2>7, OneHolder
<1>5. QED BY <1>3, <1>4

LEMMA InvAccounts == SpacesInv => FramesAccountedFor
<1> SUFFICES ASSUME SpacesInv PROVE FramesAccountedFor
  OBVIOUS
<1> DEFINE tables == UNION {TableAllocations(spaces[a]) : a \in DOMAIN spaces}
           objects == {[base |-> a[1], count |-> 1] : a \in DOMAIN spaces \ BlocksInUse(store)}
<1>1. HeapGood(store) /\ store \in Stores /\ DOMAIN spaces = Objects(store)
  BY InvIs
<1>2. ASSUME NEW f \in Claimed(store), store.frames[f] # "heap_metadata"
      PROVE  Cardinality(Holders(f, store.frames[f])) = 1
  <2>1. f \in FrameIds /\ store.frames[f] \in Usages /\ store.frames[f] # "free"
    BY <1>1 DEF Claimed, Stores, FrameTables
  <2>2. "image" \in Parts /\ "stack" \in Parts /\ UsageOf("image") = "service_image"
        /\ UsageOf("stack") = "service_stack"
    BY DEF Parts, UsageOf
  <2>3. store.frames[f] \in {"address_space_object", "page_table", UsageOf("image"), UsageOf("stack")}
    BY <1>2, <2>1, <2>2 DEF Usages
  <2>4. QED BY <2>1, <2>2, <2>3, TableHeldOnce, PartHeldOnce, ObjectHeldOnce
<1>3. BlocksInUse(store) \subseteq DOMAIN spaces
  BY <1>1 DEF Objects
<1>4. tables = {Single(f) : f \in FramesOf(store, "page_table")}
  <2>1. "page_table" \in SpaceUsages
    BY DEF SpaceUsages
  <2>2. FramesOf(store, "page_table") = UNION {TableFrames(spaces[a]) : a \in DOMAIN spaces}
    BY <2>1, InvIs DEF Own
  <2>3. \A a \in DOMAIN spaces : TableAllocations(spaces[a]) = {Single(f) : f \in TableFrames(spaces[a])}
    <3>1. ASSUME NEW a \in DOMAIN spaces, NEW F, NEW T,
                 F = TableFrames(spaces[a]), T = Tables(spaces[a])
          PROVE  {[base |-> t[2], count |-> 1] : t \in T} = {[base |-> f, count |-> 1] : f \in F}
      <4>1. F = {t[2] : t \in T}
        BY <3>1, TablesAre
      <4>2. QED BY <4>1
    <3>2. QED BY <3>1 DEF TableAllocations, Single
  <2>4. tables = UNION {{Single(f) : f \in TableFrames(spaces[a])} : a \in DOMAIN spaces}
    BY <2>3
  <2>5. QED BY <2>2, <2>4
<1>5. objects = {Single(f) : f \in Lone(store)}
  <2>1. PICK lone : lone = Lone(store)
    OBVIOUS
  <2>2. PICK S : S = DOMAIN spaces \ BlocksInUse(store)
    OBVIOUS
  <2>3. S = {<<f, 0>> : f \in lone}
    BY <1>1, <2>1, <2>2, ObjectIds
  <2>4. {[base |-> a[1], count |-> 1] : a \in S} = {[base |-> f, count |-> 1] : f \in lone}
    <3>1. \A a \in S : a[1] \in lone
      BY <2>3
    <3>2. \A f \in lone : \E a \in S : a[1] = f
      <4>1. ASSUME NEW f \in lone
            PROVE  \E a \in S : a[1] = f
        <5>1. PICK a \in S : a = <<f, 0>>
          BY <2>3
        <5>2. QED BY <5>1
      <4>2. QED BY <4>1
    <3>3. QED BY <3>1, <3>2
  <2>5. QED BY <2>1, <2>2, <2>4 DEF Single
<1>6. store.large = tables \cup objects
  BY <1>1, <1>4, <1>5 DEF HeapGood
<1>7. /\ store.counts = [pages |-> Cardinality(HeapFrames(store)),
                         slab |-> Cardinality(BlocksInUse(store)),
                         large |-> Cardinality(store.large)]
      /\ \A c \in DOMAIN BlockSizes :
           store.active[c] = Cardinality({i \in SlabPages(store) : store.slabs[i].class = c})
  BY <1>1 DEF HeapGood, SlabsGood, OfClass
<1>8. QED BY <1>2, <1>3, <1>6, <1>7 DEF FramesAccountedFor

-----------------------------------------------------------------------------
(* What a query says of a page, and that it leaves the space alone.        *)

LEMMA RegionRecords ==
  ASSUME NEW sp, SpaceGood(sp)
  PROVE  {[base |-> r.base, count |-> r.count, type |-> r.type, backing |-> r.backing] :
            r \in ToSet(sp.regions)} =
         {[base |-> sp.parts[p].base, count |-> sp.parts[p].count, type |-> p,
           backing |-> sp.parts[p].frame] : p \in sp.has}
<1>1. PICK R, H : R = ToSet(sp.regions) /\ H = sp.has
  OBVIOUS
<1>2. \A r \in R : r.type \in H /\ r = RegionOf(sp, r.type)
  BY <1>1, RegionsAre
<1>3. \A p \in H : RegionOf(sp, p) \in R
  BY <1>1, RegionsAre
<1>4. ASSUME NEW p
      PROVE  RegionOf(sp, p) = [base |-> RegionOf(sp, p).base, count |-> RegionOf(sp, p).count,
                                type |-> RegionOf(sp, p).type, backing |-> RegionOf(sp, p).backing]
  BY DEF RegionOf
<1>5. \A r \in R : r = [base |-> r.base, count |-> r.count, type |-> r.type, backing |-> r.backing]
  BY <1>2, <1>4
<1>6. {[base |-> r.base, count |-> r.count, type |-> r.type, backing |-> r.backing] : r \in R} = R
  BY <1>5
<1>7. {RegionOf(sp, p) : p \in H} = R
  <2>1. \A p \in H : RegionOf(sp, p) \in R
    BY <1>3
  <2>2. \A r \in R : \E p \in H : r = RegionOf(sp, p)
    BY <1>2
  <2>3. QED BY <2>1, <2>2
<1>8. QED BY <1>1, <1>6, <1>7 DEF RegionOf

(* Every part that the fields of an object describe has its region.        *)
LEMMA NothingToRecord ==
  ASSUME NEW sp, SpaceGood(sp)
  PROVE  Recorded(sp) = sp
<1> DEFINE Known(x, p) == 0 \notin {x.parts[p].base, x.parts[p].frame, x.parts[p].count}
           Step(x, p) == IF Known(x, p) THEN RecordedRegion([x EXCEPT !.has = @ \cup {p}], p) ELSE x
<1>1. ASSUME NEW p \in Parts
      PROVE  Step(sp, p) = sp
  <2>1. CASE ~Known(sp, p)
    BY <2>1
  <2>2. CASE Known(sp, p)
    <3>1. p \in sp.has
      <4>1. p \notin sp.has => sp.parts[p] = NoPart
        BY PartIs
      <4>2. NoPart.base = 0
        BY DEF NoPart
      <4>3. QED BY <2>2, <4>1, <4>2
    <3>2. [sp EXCEPT !.has = @ \cup {p}] = sp
      <4>1. sp.has \cup {p} = sp.has
        BY <3>1
      <4>2. sp = [root |-> sp.root, nodes |-> sp.nodes, leaves |-> sp.leaves,
                  regions |-> sp.regions, parts |-> sp.parts, has |-> sp.has]
        BY SpaceFields DEF SpaceGood
      <4>3. PICK h : h = sp.has \cup {p}
        OBVIOUS
      <4>4. h = sp.has /\ [sp EXCEPT !.has = @ \cup {p}] = [sp EXCEPT !.has = h]
        BY <4>1, <4>3
      <4>5. [sp EXCEPT !.has = h] = sp
        BY <4>2, <4>4
      <4>6. QED BY <4>4, <4>5
    <3>3. RegionOf(sp, p).type = p /\ RegionOf(sp, p).base = sp.parts[p].base
      BY DEF RegionOf
    <3>4. RecordedRegion(sp, p) = sp
      BY <3>1, <3>3, RegionsAre, RecordedAlready
    <3>5. QED BY <2>2, <3>2, <3>4
  <2>3. QED BY <2>1, <2>2
<1>2. Recorded(sp) = Step(Step(sp, "image"), "stack")
  BY DEF Recorded
<1>3. "image" \in Parts /\ "stack" \in Parts
  BY DEF Parts
<1> HIDE DEF Step
<1>4. QED BY <1>1, <1>2, <1>3

LEMMA QueryKeeps ==
  ASSUME NEW sp, SpaceGood(sp), NEW v
  PROVE  QueryMapping(sp, v).space = sp
<1>1. PICK t : t = Recorded(sp)
  OBVIOUS
<1>2. t = sp
  BY <1>1, NothingToRecord
<1>3. QED BY <1>1, <1>2 DEF QueryMapping

LEMMA RegionTellsItsFrame ==
  ASSUME PlacesApart, SpacesInv, NEW a \in DOMAIN spaces, NEW p \in spaces[a].has,
         NEW v \in Extent(spaces[a].parts[p].base, spaces[a].parts[p].count),
         NEW w, w = spaces[a].parts[p].frame + v - spaces[a].parts[p].base
  PROVE  store.frames[w] = UsageOf(p) /\ QueryMapping(spaces[a], v).frame = w
<1>1. PICK sp : sp = spaces[a]
  OBVIOUS
<1>2. SpaceGood(sp) /\ sp.has \subseteq Parts /\ p \in Parts
  BY <1>1, InvIs, RegionsAre
<1>3. PICK f, b, c : f = sp.parts[p].frame /\ b = sp.parts[p].base /\ c = sp.parts[p].count
  OBVIOUS
<1>4. f \in Nat /\ b \in Nat /\ c \in Nat /\ f > 0
  BY <1>1, <1>2, <1>3, PartIs
<1>5. v \in Extent(b, c) /\ v \in Nat /\ v >= b /\ v < b + c
  BY <1>1, <1>3, <1>4 DEF Extent
<1>6. w = f + v - b
  BY <1>1, <1>3
<1>7. w \in Nat /\ w > 0 /\ w \in Extent(f, c)
  BY <1>4, <1>5, <1>6 DEF Extent
<1>8. store.frames[w] = UsageOf(p)
  <2>1. PICK u : u = UsageOf(p)
    OBVIOUS
  <2>2. u \in SpaceUsages /\ Own(sp, u) = PartFrames(sp, p)
    BY <1>2, <2>1 DEF Own, UsageOf, Parts, SpaceUsages
  <2>3. w \in Own(sp, u)
    BY <1>3, <1>7, <2>2 DEF PartFrames
  <2>4. QED BY <1>1, <2>1, <2>2, <2>3, OwnIsClaimed
<1>9. BackingOf(sp, v) = w
  BY <1>1, <1>2, <1>3, <1>5, <1>6, RegionBehind
<1>10. QueryMapping(sp, v) = [frame |-> w, space |-> sp]
  BY <1>7, <1>9 DEF QueryMapping
<1>11. QED BY <1>1, <1>8, <1>10

LEMMA InvTells == ASSUME PlacesApart, SpacesInv PROVE RegionsTellTheFrames
<1>1. ASSUME NEW a \in DOMAIN spaces, NEW sp, sp = spaces[a]
      PROVE  /\ {[base |-> r.base, count |-> r.count, type |-> r.type, backing |-> r.backing] :
                   r \in ToSet(sp.regions)} =
                {[base |-> sp.parts[p].base, count |-> sp.parts[p].count, type |-> p,
                  backing |-> sp.parts[p].frame] : p \in sp.has}
             /\ \A r \in ToSet(sp.regions) : \A v \in Extent(r.base, r.count) :
                  /\ store.frames[r.backing + v - r.base] = UsageOf(r.type)
                  /\ QueryMapping(sp, v).frame = r.backing + v - r.base
             /\ \A v \in 0 .. LowHalfLimit - 1 : QueryMapping(sp, v).space = sp
  <2>1. SpaceGood(sp)
    BY <1>1, InvIs
  <2>2. ASSUME NEW r \in ToSet(sp.regions), NEW v \in Extent(r.base, r.count)
        PROVE  /\ store.frames[r.backing + v - r.base] = UsageOf(r.type)
               /\ QueryMapping(sp, v).frame = r.backing + v - r.base
    <3>1. PICK p : p = r.type
      OBVIOUS
    <3>2. p \in sp.has /\ r = RegionOf(sp, p)
      BY <2>1, <3>1, RegionsAre
    <3>3. r.base = sp.parts[p].base /\ r.count = sp.parts[p].count /\ r.backing = sp.parts[p].frame
      BY <3>2 DEF RegionOf
    <3>4. PICK w : w = r.backing + v - r.base
      OBVIOUS
    <3>5. /\ p \in spaces[a].has
          /\ v \in Extent(spaces[a].parts[p].base, spaces[a].parts[p].count)
          /\ w = spaces[a].parts[p].frame + v - spaces[a].parts[p].base
      BY <1>1, <3>2, <3>3, <3>4
    <3>6. store.frames[w] = UsageOf(p) /\ QueryMapping(spaces[a], v).frame = w
      BY <3>5, RegionTellsItsFrame
    <3>7. QED BY <1>1, <3>1, <3>4, <3>6
  <2>3. QED BY <2>1, <2>2, RegionRecords, QueryKeeps
<1>2. QED BY <1>1 DEF RegionsTellTheFrames

-----------------------------------------------------------------------------
(* A request for what is there changes nothing.                            *)

LEMMA AskedAgain ==
  ASSUME NEW sp, SpaceGood(sp), NEW part \in sp.has, NEW wanted, AnswerFrom(sp, part) = wanted
  PROVE  PopulateRequested(sp, part, wanted) = [found |-> TRUE, space |-> sp]
<1>1. part \in Parts
  BY RegionsAre
<1>2. PopulateExisting(sp, part) = [found |-> TRUE, space |-> sp]
  BY <1>1, ExistingIs
<1>3. PICK one : one = PopulateExisting(sp, part)
  OBVIOUS
<1>4. one.found = TRUE /\ one.space = sp
  BY <1>2, <1>3
<1>5. QED BY <1>3, <1>4 DEF PopulateRequested

LEMMA StackAskedAgain ==
  ASSUME NEW sp, SpaceGood(sp), "stack" \in sp.has, NEW s
  PROVE  StackOutcome(s, sp, [base |-> sp.parts["stack"].base, count |-> sp.parts["stack"].count]) =
         Answered("success", s, sp)
<1>1. "stack" \in Parts
  BY DEF Parts
<1>2. PICK b, c : b = sp.parts["stack"].base /\ c = sp.parts["stack"].count
  OBVIOUS
<1>3. sp.parts["stack"].entry = 0 /\ b # 0
  BY <1>1, <1>2 DEF SpaceGood, PartGood
<1>4. PICK r : r = [base |-> b, count |-> c]
  OBVIOUS
<1>5. r.base = b /\ r.count = c
  BY <1>4
<1>6. PICK wanted : wanted = [base |-> b, count |-> c, entry |-> 0]
  OBVIOUS
<1>7. AnswerFrom(sp, "stack") = wanted
  BY <1>2, <1>3, <1>6 DEF AnswerFrom
<1>8. PICK x : x = PopulateRequested(sp, "stack", wanted)
  OBVIOUS
<1>9. x.found = TRUE /\ x.space = sp
  BY <1>7, <1>8, AskedAgain
<1>10. StackOutcome(s, sp, r) = FromRequested(s, x)
  BY <1>3, <1>5, <1>6, <1>8 DEF StackOutcome
<1>11. FromRequested(s, x) = Answered("success", s, sp)
  BY <1>9 DEF FromRequested
<1>12. QED BY <1>2, <1>4, <1>10, <1>11

LEMMA ImageAskedAgain ==
  ASSUME SpacesInv, NEW a \in DOMAIN spaces, "image" \in spaces[a].has,
         NEW img \in Images, img.valid, HasLayout(img),
         Framed(WantedImage(img), spaces[a].parts["image"].frame) = spaces[a].parts["image"]
  PROVE  AttachOutcome(store, a, spaces[a], img) = Answered("success", store, spaces[a])
<1>1. PICK sp : sp = spaces[a]
  OBVIOUS
<1>2. SpaceGood(sp) /\ sp \in Spaces /\ "image" \in Parts
  BY <1>1, InvIs DEF Parts
<1>3. EnsureTracked(store, a, sp) = store
  <2>1. HeapGood(store) /\ store \in Stores /\ a \in Objects(store)
    BY InvIs
  <2>2. a[1] \in FramesOf(store, "address_space_object")
    BY <2>1, ObjectGivesMemory DEF ObjectGiven
  <2>3. store.frames[sp.root] = "page_table" /\ sp.root \in FrameIds
    <3>1. sp.root \in Own(sp, "page_table") /\ "page_table" \in SpaceUsages
      BY DEF Own, TableFrames, SpaceUsages
    <3>2. QED BY <1>1, <3>1, OwnIsClaimed
  <2>4. QED BY <2>1, <2>2, <2>3, TrackedAlready DEF FramesOf
<1>4. PICK wanted : wanted = WantedImage(img)
  OBVIOUS
<1>5. wanted = [base |-> wanted.base, count |-> wanted.count, entry |-> wanted.entry]
  BY <1>4 DEF WantedImage
<1>6. PICK f : f = sp.parts["image"].frame
  OBVIOUS
<1>7. Framed(wanted, f) = sp.parts["image"]
  BY <1>1, <1>4, <1>6
<1>8. PICK part : part = sp.parts["image"]
  OBVIOUS
<1>9. part.base = wanted.base /\ part.count = wanted.count /\ part.entry = wanted.entry
  BY <1>7, <1>8 DEF Framed
<1>10. part.entry # 0
  BY <1>1, <1>2, <1>8 DEF SpaceGood, PartGood
<1>11. AnswerFrom(sp, "image") = wanted
  BY <1>5, <1>8, <1>9, <1>10 DEF AnswerFrom
<1>12. PICK x : x = PopulateRequested(sp, "image", wanted)
  OBVIOUS
<1>13. x.found = TRUE /\ x.space = sp
  BY <1>1, <1>2, <1>11, <1>12, AskedAgain
<1>14. AttachOutcome(store, a, sp, img) = FromRequested(store, x)
  BY <1>1, <1>3, <1>4, <1>12 DEF AttachOutcome
<1>15. FromRequested(store, x) = Answered("success", store, sp)
  BY <1>13 DEF FromRequested
<1>16. QED BY <1>1, <1>14, <1>15

LEMMA InvRepeats == SpacesInv => RepeatedRequestsAnswerTheSame
<1> SUFFICES ASSUME SpacesInv PROVE RepeatedRequestsAnswerTheSame
  OBVIOUS
<1>1. \A a \in DOMAIN spaces : "stack" \in spaces[a].has =>
        StackOutcome(store, spaces[a], [base |-> spaces[a].parts["stack"].base,
                                        count |-> spaces[a].parts["stack"].count]) =
        Answered("success", store, spaces[a])
  BY InvIs, StackAskedAgain
<1>2. \A a \in DOMAIN spaces : \A img \in Images :
        (/\ "image" \in spaces[a].has /\ img.valid /\ HasLayout(img)
         /\ Framed(WantedImage(img), spaces[a].parts["image"].frame) = spaces[a].parts["image"]) =>
        AttachOutcome(store, a, spaces[a], img) = Answered("success", store, spaces[a])
  BY ImageAskedAgain
<1>3. QED BY <1>1, <1>2 DEF RepeatedRequestsAnswerTheSame

-----------------------------------------------------------------------------
(* What goes back when a space is destroyed.                               *)

LEMMA TableCount ==
  ASSUME NEW sp \in Spaces, TablesApart(sp)
  PROVE  /\ IsFiniteSet(TableFrames(sp))
         /\ Cardinality(TableFrames(sp)) = Cardinality(DOMAIN sp.nodes) + 1
<1>1. PICK nodes, root : nodes = sp.nodes /\ root = sp.root
  OBVIOUS
<1>2. PICK S : S = DOMAIN nodes
  OBVIOUS
<1>3. PICK T : T = {nodes[n] : n \in S}
  OBVIOUS
<1>4. PICK f : f = [n \in S |-> nodes[n]]
  OBVIOUS
<1>5. IsFiniteSet(S) /\ Cardinality(S) \in Nat
  BY <1>1, <1>2, NodesFinite
<1>6. f \in [S -> T] /\ \A t \in T : \E n \in S : f[n] = t
  BY <1>3, <1>4
<1>7. f \in Surjection(S, T)
  BY <1>6 DEF Surjection
<1>8. IsFiniteSet(T)
  BY <1>5, <1>7, FS_Surjection
<1>9. \A m, n \in S : f[m] = f[n] => m = n
  BY <1>1, <1>2, <1>4 DEF TablesApart
<1>10. f \in Injection(S, T)
  BY <1>6, <1>9 DEF Injection, IsInjective
<1>11. Cardinality(S) = Cardinality(T)
  BY <1>7, <1>8, <1>10, FS_Injection
<1>12. root \notin T
  BY <1>1, <1>2, <1>3 DEF TablesApart
<1>13. TableFrames(sp) = T \cup {root}
  BY <1>1, <1>2, <1>3 DEF TableFrames
<1>14. IsFiniteSet(T \cup {root}) /\ Cardinality(T \cup {root}) = Cardinality(T) + 1
  BY <1>8, <1>12, FS_AddElement
<1>15. QED BY <1>1, <1>2, <1>11, <1>13, <1>14

LEMMA PlacedIs ==
  ASSUME NEW sp, SpaceGood(sp)
  PROVE  UNION {PartFrames(sp, p) : p \in sp.has} = PartFrames(sp, "image") \cup PartFrames(sp, "stack")
<1>1. sp.has \subseteq {"image", "stack"}
  BY RegionsAre DEF Parts
<1>2. \A p \in {"image", "stack"} : p \notin sp.has => PartFrames(sp, p) = {}
  <2>1. ASSUME NEW p \in {"image", "stack"}, p \notin sp.has
        PROVE  PartFrames(sp, p) = {}
    <3>1. sp.parts[p] = NoPart
      BY <2>1, PartIs DEF Parts
    <3>2. QED BY <3>1, NoFramesYet
  <2>2. QED BY <2>1
<1>3. QED BY <1>1, <1>2

LEMMA OwnApart ==
  ASSUME SpacesInv, NEW a \in DOMAIN spaces
  PROVE  /\ \A f \in TableFrames(spaces[a]) : f \in FrameIds /\ store.frames[f] = "page_table"
         /\ \A f \in PartFrames(spaces[a], "image") : f \in FrameIds /\ store.frames[f] = "service_image"
         /\ \A f \in PartFrames(spaces[a], "stack") : f \in FrameIds /\ store.frames[f] = "service_stack"
<1>1. /\ "page_table" \in SpaceUsages /\ "service_image" \in SpaceUsages /\ "service_stack" \in SpaceUsages
      /\ Own(spaces[a], "page_table") = TableFrames(spaces[a])
      /\ Own(spaces[a], "service_image") = PartFrames(spaces[a], "image")
      /\ Own(spaces[a], "service_stack") = PartFrames(spaces[a], "stack")
  BY DEF SpaceUsages, Own
<1>2. QED BY <1>1, OwnIsClaimed

PlacedOf(sp) == UNION {PartFrames(sp, p) : p \in sp.has}
GivenBack(a, placed, own, back, gone) ==
  /\ gone.status = "success"
  /\ own \subseteq back /\ back \subseteq own \cup {a[1]}
  /\ gone.pages = Cardinality(back \ placed)

LEMMA DestroyedGivesBack ==
  ASSUME SpacesInv, NEW a \in DOMAIN spaces, NEW sp, sp = spaces[a],
         NEW gone, gone = DestroyOutcome(store, a, sp),
         NEW placed, placed = PlacedOf(sp),
         NEW own, own = placed \cup {t[2] : t \in Tables(sp)},
         NEW back, back = Claimed(store) \ Claimed(gone.store)
  PROVE  GivenBack(a, placed, own, back, gone)
<1> SUFFICES /\ gone.status = "success"
             /\ own \subseteq back /\ back \subseteq own \cup {a[1]}
             /\ gone.pages = Cardinality(back \ placed)
  BY DEF GivenBack
<1>1. PICK rest : rest = RestOf(spaces, a)
  OBVIOUS
<1>2. Held(store, sp, rest) /\ SpaceGood(sp) /\ a \in Objects(store) /\ sp \in Spaces /\ TablesApart(sp)
  BY <1>1, RestIs DEF SpacesInv, SpaceGood
<1>3. Destroyed(store, a, sp, rest, gone)
  BY <1>2, DestroyIs
<1>4. PICK n, tables, image, stack, object :
        /\ n = Cardinality(DOMAIN sp.nodes) /\ tables = TableFrames(sp)
        /\ image = PartFrames(sp, "image") /\ stack = PartFrames(sp, "stack")
        /\ object = a[1]
  OBVIOUS
<1>5. /\ gone.status = "success"
      /\ object \in FramesOf(store, "address_space_object")
      /\ \/ gone.pages = n + 1
            /\ FramesOf(gone.store, "free") = FramesOf(store, "free") \cup (tables \cup image \cup stack)
         \/ gone.pages = n + 2
            /\ FramesOf(gone.store, "free") = FramesOf(store, "free") \cup (tables \cup image \cup stack) \cup {object}
  BY <1>3, <1>4 DEF Destroyed, AllOwn
<1>6. placed = image \cup stack /\ own = placed \cup tables
  BY <1>2, <1>4, PlacedIs, TablesAre DEF PlacedOf
<1>7. /\ \A f \in tables : f \in FrameIds /\ store.frames[f] = "page_table"
      /\ \A f \in image : f \in FrameIds /\ store.frames[f] = "service_image"
      /\ \A f \in stack : f \in FrameIds /\ store.frames[f] = "service_stack"
      /\ object \in FrameIds /\ store.frames[object] = "address_space_object"
  BY <1>4, <1>5, OwnApart DEF FramesOf
<1>8. /\ \A f : f \in Claimed(store) <=> f \in FrameIds /\ f \notin FramesOf(store, "free")
      /\ \A f : f \in Claimed(gone.store) <=> f \in FrameIds /\ f \notin FramesOf(gone.store, "free")
  BY DEF Claimed, FramesOf
<1>9. FramesOf(store, "free") \subseteq FrameIds /\ \A f \in FramesOf(store, "free") : store.frames[f] = "free"
  BY DEF FramesOf
<1>10. IsFiniteSet(tables) /\ Cardinality(tables) = n + 1
  BY <1>2, <1>4, TableCount
<1>11. CASE gone.pages = n + 1
            /\ FramesOf(gone.store, "free") = FramesOf(store, "free") \cup (tables \cup image \cup stack)
  <2>1. back = tables \cup image \cup stack
    BY <1>7, <1>8, <1>9, <1>11
  <2>2. back \ placed = tables
    BY <1>6, <1>7, <2>1
  <2>3. QED BY <1>4, <1>5, <1>6, <1>10, <1>11, <2>1, <2>2
<1>12. CASE gone.pages = n + 2
            /\ FramesOf(gone.store, "free") = FramesOf(store, "free") \cup (tables \cup image \cup stack) \cup {object}
  <2>1. back = tables \cup image \cup stack \cup {object}
    BY <1>7, <1>8, <1>9, <1>12
  <2>2. back \ placed = tables \cup {object}
    BY <1>6, <1>7, <2>1
  <2>3. object \notin tables
    BY <1>7
  <2>4. n \in Nat
    BY <1>2, <1>4, NodesFinite
  <2>5. Cardinality(tables \cup {object}) = n + 2
    BY <1>10, <2>3, <2>4, FS_AddElement
  <2>6. QED BY <1>4, <1>5, <1>6, <1>12, <2>1, <2>2, <2>5
<1>13. QED BY <1>5, <1>11, <1>12

LEMMA InvGivesBack == SpacesInv => DestroyGivesBack
<1> SUFFICES ASSUME SpacesInv PROVE DestroyGivesBack
  OBVIOUS
<1>1. ASSUME NEW a \in DOMAIN spaces, NEW sp, sp = spaces[a],
             NEW gone, gone = DestroyOutcome(store, a, sp)
      PROVE  LET placed == UNION {PartFrames(sp, p) : p \in sp.has}
                 own == placed \cup {t[2] : t \in Tables(sp)}
                 back == Claimed(store) \ Claimed(gone.store)
             IN /\ gone.status = "success"
                /\ own \subseteq back /\ back \subseteq own \cup {a[1]}
                /\ gone.pages = Cardinality(back \ placed)
  <2>1. PICK placed : placed = PlacedOf(sp)
    OBVIOUS
  <2>2. PICK own : own = placed \cup {t[2] : t \in Tables(sp)}
    OBVIOUS
  <2>3. PICK back : back = Claimed(store) \ Claimed(gone.store)
    OBVIOUS
  <2>4. GivenBack(a, placed, own, back, gone)
    BY <1>1, <2>1, <2>2, <2>3, DestroyedGivesBack
  <2>5. QED BY <2>1, <2>2, <2>3, <2>4 DEF PlacedOf, GivenBack
<1>2. QED BY <1>1 DEF DestroyGivesBack

-----------------------------------------------------------------------------
(* The invariants of the runs.                                             *)

(* Frame tables, slab pages, the larger allocations that AllocateLarge     *)
(* records, objects and their regions stay within their types and sizes.   *)
THEOREM SpacesTyped == ASSUME PlacesApart PROVE Spec => []TypeOK
BY SpacesInvariant, InvTyped, PTL

(* Every claimed frame has exactly one holder, what the heap has handed    *)
(* out are the objects and the tables of the spaces, and its counts say    *)
(* so, also after a request gave frames back half way.                     *)
THEOREM SpacesAccounts == ASSUME PlacesApart PROVE Spec => []FramesAccountedFor
BY SpacesInvariant, InvAccounts, PTL

(* Whatever physical pages clients have mapped there, an image or a stack  *)
(* is one region with its frames claimed behind it, and                    *)
(* LosMemoryManagerServiceQueryMapping says those frames and changes       *)
(* nothing, whatever page it is asked for.                                 *)
THEOREM SpacesTell == ASSUME PlacesApart PROVE Spec => []RegionsTellTheFrames
<1>1. SpacesInv => RegionsTellTheFrames
  BY InvTells
<1>2. QED BY <1>1, SpacesInvariant, PTL

(* Attaching the image or allocating the stack that a space has succeeds   *)
(* again with no frame claimed and nothing changed.                        *)
THEOREM SpacesRepeat == ASSUME PlacesApart PROVE Spec => []RepeatedRequestsAnswerTheSame
BY SpacesInvariant, InvRepeats, PTL

(* LosMemoryManagerServiceDestroyAddressSpace succeeds in every state, all *)
(* frames of the space go back and no other, and the pages it answers are  *)
(* those that went back to the heap.                                       *)
THEOREM SpacesGiveBack == ASSUME PlacesApart PROVE Spec => []DestroyGivesBack
BY SpacesInvariant, InvGivesBack, PTL
=============================================================================
