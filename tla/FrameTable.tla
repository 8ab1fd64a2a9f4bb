----------------------------- MODULE FrameTable -----------------------------
(***************************************************************************)
(* The tables the memory-manager service keeps about physical frames, as   *)
(* operators: an ordered array of ranges in which neighbours that say the  *)
(* same are one entry, rewritten by cutting the entries a range touches.   *)
(*                                                                         *)
(* Addresses and lengths are in pages.  `source' stands for the fields     *)
(* Source and Attributes, which are copied together and never changed.     *)
(***************************************************************************)
EXTENDS Integers, SequencesExt

CONSTANTS MaxEntries,     \* entries an array holds (8192 in the code)
          AddressPages,   \* pages in the address space: 2^52 in the code
          Usages, Owners, \* values of the fields Usage and Owner
          Sources         \* and of Source with Attributes

ASSUME MaxEntriesAssumption == MaxEntries \in Nat \ {0}
ASSUME AddressPagesAssumption == AddressPages \in Nat \ {0}

States == {"free", "reserved", "runtime", "mmio"}

Entry == [base : Nat, count : Nat, state : States, usage : Usages,
          owner : Owners, source : Sources]

End(e) == e.base + e.count
Span(base, count) == base .. (base + count - 1)
Frames(e) == Span(e.base, e.count)
FramesOf(table) == UNION {Frames(e) : e \in ToSet(table)}

(* 64-bit addition that comes back to or below where it started. *)
DoesRangeWrap(base, count) == (base + count) % AddressPages <= base

(* Operations that can fail answer [ok, table].                            *)
Done(table) == [ok |-> TRUE, table |-> table]
Failed(table) == [ok |-> FALSE, table |-> table]

SaysTheSame(a, b) == \A f \in DOMAIN a \ {"base", "count"} : a[f] = b[f]
Continues(a, b) == End(a) = b.base /\ SaysTheSame(a, b)

(* Appends e, or lengthens the last entry when e continues it.  The arrays *)
(* of entries and of descriptors do this alike and have the same capacity. *)
AppendEntry(t, e) ==
  CASE ~t.ok \/ e.count = 0 -> t
    [] t.ok /\ e.count > 0 /\ t.table # <<>> /\ Continues(Last(t.table), e) ->
         Done([t.table EXCEPT ![Len(t.table)].count = @ + e.count])
    [] OTHER -> IF Len(t.table) < MaxEntries THEN Done(Append(t.table, e))
                                             ELSE Failed(t.table)

AppendAll(entries) == FoldLeft(AppendEntry, Done(<<>>), entries)

(* What a range leaves of an entry before and behind it, and the middle.   *)
Outside(e, base, count) == End(e) <= base \/ e.base >= base + count
Larger(a, b) == IF a > b THEN a ELSE b
Smaller(a, b) == IF a < b THEN a ELSE b
CutFrom(e, base, count) == Larger(base, e.base)
CutTo(e, base, count) == Smaller(base + count, End(e))
Before(e, base, count) == [e EXCEPT !.count = CutFrom(e, base, count) - e.base]
Behind(e, base, count) ==
  [e EXCEPT !.base = CutTo(e, base, count), !.count = End(e) - CutTo(e, base, count)]

Covers(table, base, count) == Span(base, count) \subseteq FramesOf(table)
CoversWithState(table, base, count, state) ==
  \A p \in Span(base, count) : \E e \in ToSet(table) : p \in Frames(e) /\ e.state = state

(* Gives a range a new state, usage and owner; nothing changes unless the  *)
(* table covers all of it and has room for the pieces.                     *)
RewriteFrameDatabaseRange(table, base, count, state, usage, owner) ==
  LET Middle(e) == [e EXCEPT !.base = CutFrom(e, base, count),
                             !.count = CutTo(e, base, count) - CutFrom(e, base, count),
                             !.state = state, !.usage = usage, !.owner = owner]
      Pieces(e) == IF Outside(e, base, count) THEN <<e>>
                   ELSE <<Before(e, base, count), Middle(e), Behind(e, base, count)>>
      scratch == AppendAll(FlattenSeq([i \in DOMAIN table |-> Pieces(table[i])]))
  IN IF scratch.ok /\ Covers(table, base, count) THEN scratch ELSE Failed(table)

(* The list of dynamic allocations: ordered, and merged in the same way.   *)
(* Mutated form of InsertEntry: appends instead of inserting in order.     *)
InsertAtEnd(list, new) ==
  IF AppendAll(Append(list, new)).ok /\ Len(list) < MaxEntries
  THEN AppendAll(Append(list, new)) ELSE Failed(list)

InsertEntry(list, new) ==
  LET behind == {i \in DOMAIN list : new.base < list[i].base}
      at == IF behind = {} THEN Len(list) + 1 ELSE Min(behind)
      scratch == AppendAll(InsertAt(list, at, new))
  IN IF scratch.ok /\ Len(list) < MaxEntries THEN scratch ELSE Failed(list)

(* Mutated form of RemoveRange: drops every entry the range touches.       *)
RemoveWholeEntries(list, base, count) ==
  IF Covers(list, base, count)
  THEN Done(SelectSeq(list, LAMBDA e : Outside(e, base, count))) ELSE Failed(list)

RemoveRange(list, base, count) ==
  LET Pieces(e) == IF Outside(e, base, count) THEN <<e>>
                   ELSE <<Before(e, base, count), Behind(e, base, count)>>
      scratch == AppendAll(FlattenSeq([i \in DOMAIN list |-> Pieces(list[i])]))
  IN IF scratch.ok /\ Covers(list, base, count) THEN scratch ELSE Failed(list)

(* First fit over the FREE entries: a run starts at an aligned frame, goes *)
(* on through entries that touch, and is taken when it is long enough.     *)
AlignUp(frame, align) == ((frame + align - 1) \div align) * align

(* Mutated form of RunStep: goes on through entries that do not touch.     *)
RunStepAcrossGaps(run, e, lowest, limit, align, count) ==
  LET low == Larger(e.base, lowest)
      high == Smaller(End(e), limit)
      grown == IF ~run.open THEN [run EXCEPT !.base = AlignUp(low, align), !.end = high]
               ELSE [run EXCEPT !.end = Larger(@, high)]
  IN IF run.found \/ e.state # "free" \/ high <= low THEN run
     ELSE [grown EXCEPT !.open = TRUE, !.found = grown.end - grown.base >= count]

RunStep(run, e, lowest, limit, align, count) ==
  LET low == Larger(e.base, lowest)
      high == Smaller(End(e), limit)
      start == AlignUp(low, align)
      fresh == ~run.open \/ low > run.end
      grown == IF fresh THEN [run EXCEPT !.base = start, !.end = high]
                        ELSE [run EXCEPT !.end = Larger(@, high)]
  IN CASE run.found \/ e.state # "free" \/ high <= low -> run
       [] ~run.found /\ e.state = "free" /\ high > low /\ fresh /\ start >= high ->
            [run EXCEPT !.open = FALSE]
       [] OTHER -> [grown EXCEPT !.open = TRUE, !.found = grown.end - grown.base >= count]

FindClaimableContiguousRange(table, lowest, limit, align, count) ==
  LET Step(run, e) == RunStep(run, e, lowest, limit, align, count)
  IN FoldLeft(Step, [open |-> FALSE, found |-> FALSE, base |-> 0, end |-> 0], table)

=============================================================================
