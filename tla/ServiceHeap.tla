----------------------------- MODULE ServiceHeap -----------------------------
(***************************************************************************)
(* The heap of the memory-manager service: slab pages that are cut into    *)
(* blocks of one class and one usage, and larger allocations of whole      *)
(* pages.  Every page of it is a tracked claim on physical frames, of      *)
(* which only the usage is kept here: FrameDatabase models how a claim is  *)
(* found and recorded.                                                     *)
(*                                                                         *)
(* A store is [frames, slabs, large, active, counts]; an operator that     *)
(* takes one returns the store it leaves and whether it succeeded.         *)
(***************************************************************************)
EXTENDS Integers, Sequences, FiniteSets, FiniteSetsExt

CONSTANTS
  NumFrames,        \* physical frames 1 .. NumFrames
  BlockSizes,       \* the slab classes, smallest block first
  PageBytes,        \* bytes of a page, in the unit of BlockSizes
  MaxSlabPages,     \* slab page descriptors
  MaxLarge,         \* descriptors of larger allocations
  MetadataPages     \* pages of descriptors the heap claims for itself

(* Every class cuts a page into two blocks or more (64 to 2048 bytes).     *)
ASSUME HeapAssumption ==
  /\ {NumFrames, PageBytes, MaxSlabPages, MaxLarge, MetadataPages} \subseteq Nat \ {0}
  /\ BlockSizes \in Seq(1 .. PageBytes - 1) /\ BlockSizes # <<>>

FrameIds == 1 .. NumFrames
Extent(base, count) == base .. base + count - 1

-----------------------------------------------------------------------------
(* Tracked claims: the lowest run of free frames that is long enough.      *)

Runs(frames, count) ==
  {b \in 1 .. NumFrames - count + 1 : \A f \in Extent(b, count) : frames[f] = "free"}

Claim(s, count, usage) ==
  IF Runs(s.frames, count) = {} THEN [ok |-> FALSE, store |-> s, base |-> 0]
  ELSE LET base == Min(Runs(s.frames, count))
       IN [ok |-> TRUE, base |-> base,
           store |-> [s EXCEPT !.frames =
             [f \in FrameIds |-> IF f \in Extent(base, count) THEN usage ELSE @[f]]]]

(* A range goes back only as a whole, whoever it was claimed for.          *)
Release(s, base, count) ==
  IF \E f \in Extent(base, count) : f \notin FrameIds \/ s.frames[f] = "free"
  THEN [ok |-> FALSE, store |-> s]
  ELSE [ok |-> TRUE, store |-> [s EXCEPT !.frames =
          [f \in FrameIds |-> IF f \in Extent(base, count) THEN "free" ELSE @[f]]]]

-----------------------------------------------------------------------------
(* Slabs.                                                                  *)

Blocks(class) == PageBytes \div BlockSizes[class]
FreeBlocks(slab) == {slab.free[k] : k \in DOMAIN slab.free}
NoSlab == [frame |-> 0, usage |-> "none", class |-> 0, free |-> <<>>]
IsActive(slab) == slab.frame # 0

(* The descriptors that are not in use, and the one of an address.         *)
IdleSlabs(s) == {i \in DOMAIN s.slabs : ~IsActive(s.slabs[i])}
SlabsAt(s, at) == {i \in (DOMAIN s.slabs) \ IdleSlabs(s) : s.slabs[i].frame = at[1]}
LargeAt(s, at) == {a \in s.large : <<a.base, 0>> = at}

FreshHeap ==
  [frames |-> [f \in FrameIds |-> IF f <= MetadataPages THEN "heap_metadata" ELSE "free"],
   slabs |-> [i \in 1 .. MaxSlabPages |-> NoSlab], large |-> {},
   active |-> [c \in DOMAIN BlockSizes |-> 0],
   counts |-> [pages |-> 0, slab |-> 0, large |-> 0]]

(* LosMemoryManagerHeapSelectSlabClass: 0 when no class is large enough.   *)
SelectSlabClass(bytes, alignment) ==
  LET fitting == {c \in DOMAIN BlockSizes : BlockSizes[c] >= bytes /\ BlockSizes[c] >= alignment}
  IN IF fitting = {} THEN 0 ELSE Min(fitting)

Refused(s) == [ok |-> FALSE, store |-> s, at |-> <<0, 0>>]

AllocateFromSlabPage(s, i) ==
  [ok |-> TRUE, at |-> <<s.slabs[i].frame, Head(s.slabs[i].free)>>,
   store |-> [s EXCEPT !.slabs[i].free = Tail(@), !.counts.slab = @ + 1]]

(* A new page needs an idle descriptor and a frame; its blocks are handed  *)
(* out from the lowest.                                                    *)
GrowSlabClass(s, class, usage) ==
  LET idle == IdleSlabs(s)
      page == Claim(s, 1, usage)
      i == Min(idle)
  IN IF idle = {} \/ ~page.ok THEN Refused(s)
     ELSE AllocateFromSlabPage(
            [page.store EXCEPT
               !.slabs[i] = [frame |-> page.base, usage |-> usage, class |-> class,
                             free |-> [k \in 1 .. Blocks(class) |-> k - 1]],
               !.active[class] = @ + 1, !.counts.pages = @ + 1], i)

AllocateFromSlabs(s, class, usage) ==
  LET open == {i \in DOMAIN s.slabs : /\ IsActive(s.slabs[i]) /\ s.slabs[i].free # <<>>
                                      /\ s.slabs[i].class = class /\ s.slabs[i].usage = usage}
  IN IF open # {} THEN AllocateFromSlabPage(s, Min(open)) ELSE GrowSlabClass(s, class, usage)

(* Mutated form of AllocateLarge: it does not look for a free descriptor.  *)
AllocateLargeUnchecked(s, bytes, usage) ==
  LET count == (bytes + PageBytes - 1) \div PageBytes
      page == Claim(s, count, usage)
  IN IF ~page.ok THEN Refused(s)
     ELSE [ok |-> TRUE, at |-> <<page.base, 0>>,
           store |-> [page.store EXCEPT
             !.large = @ \cup {[base |-> page.base, count |-> count]},
             !.counts.large = @ + 1, !.counts.pages = @ + count]]

AllocateLarge(s, bytes, usage) ==
  LET count == (bytes + PageBytes - 1) \div PageBytes
      page == Claim(s, count, usage)
  IN IF Cardinality(s.large) = MaxLarge \/ ~page.ok THEN Refused(s)
     ELSE [ok |-> TRUE, at |-> <<page.base, 0>>,
           store |-> [page.store EXCEPT
             !.large = @ \cup {[base |-> page.base, count |-> count]},
             !.counts.large = @ + 1, !.counts.pages = @ + count]]

(* LosMemoryManagerHeapAllocate: what no slab can give is taken from whole *)
(* pages, also when the slabs have only run out.                           *)
HeapAllocate(s, bytes, alignment, usage) ==
  LET class == SelectSlabClass(bytes, alignment)
      block == AllocateFromSlabs(s, class, usage)
  IN IF class # 0 /\ block.ok THEN block ELSE AllocateLarge(s, bytes, usage)

HeapAllocatePage(s, usage) == HeapAllocate(s, PageBytes, PageBytes, usage)

(* The last slab page of a class is kept when it empties.                  *)
ReleaseEmptySlabPage(s, i) ==
  LET back == Release(s, s.slabs[i].frame, 1)
      class == s.slabs[i].class
  IN IF s.active[class] <= 1 THEN [ok |-> TRUE, store |-> s, pages |-> 0]
     ELSE IF ~back.ok THEN [ok |-> FALSE, store |-> s, pages |-> 0]
     ELSE [ok |-> TRUE, pages |-> 1,
           store |-> [back.store EXCEPT !.active[class] = @ - 1, !.counts.pages = @ - 1,
                                        !.slabs[i] = NoSlab]]

FreeSlabAllocation(s, i, block) ==
  LET slab == s.slabs[i]
      given == [s EXCEPT !.slabs[i].free = <<block>> \o @,
                         !.counts.slab = IF @ = 0 THEN 0 ELSE @ - 1]
  IN IF block \in FreeBlocks(slab) \/ Len(slab.free) = Blocks(slab.class)
     THEN [ok |-> FALSE, store |-> s, pages |-> 0]
     ELSE IF Len(slab.free) + 1 = Blocks(slab.class) THEN ReleaseEmptySlabPage(given, i)
     ELSE [ok |-> TRUE, store |-> given, pages |-> 0]

(* LosMemoryManagerHeapFree, of the address <<frame, block>>.              *)
HeapFree(s, at) ==
  LET slab == SlabsAt(s, at)
      large == LargeAt(s, at)
      Large == CHOOSE a \in large : TRUE
      back == Release(s, Large.base, Large.count)
      Failed == [ok |-> FALSE, store |-> s, pages |-> 0]
  IN IF slab # {} THEN FreeSlabAllocation(s, Min(slab), at[2])
     ELSE IF large = {} THEN Failed
     ELSE IF ~back.ok THEN Failed
     ELSE [ok |-> TRUE, pages |-> Large.count,
           store |-> [back.store EXCEPT
             !.large = @ \ {Large}, !.counts.pages = @ - Large.count,
             !.counts.large = IF @ = 0 THEN 0 ELSE @ - 1]]

-----------------------------------------------------------------------------
(* What a store should say of itself.                                      *)

SlabPages(s) == (DOMAIN s.slabs) \ IdleSlabs(s)
HeapFrames(s) ==
  {s.slabs[i].frame : i \in SlabPages(s)} \cup UNION {Extent(a.base, a.count) : a \in s.large}
BlocksInUse(s) ==
  UNION {{<<s.slabs[i].frame, b>> :
            b \in (0 .. Blocks(s.slabs[i].class) - 1) \ FreeBlocks(s.slabs[i])} : i \in SlabPages(s)}
=============================================================================
