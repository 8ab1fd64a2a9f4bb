--------------------------- MODULE MCAddressSpaces ---------------------------
EXTENDS AddressSpaces

MCBlockSizes == <<1, 2>>
MCTableSpans == <<4, 16>>

Segment(base, count, write, exec) ==
  [base |-> base, count |-> count, write |-> write, exec |-> exec]
Image(segments, entry) ==
  [valid |-> TRUE, complete |-> TRUE, segments |-> segments, entry |-> entry]

(* Code and data on the two sides of a table's end.                        *)
Straddling == Image({Segment(3, 1, FALSE, TRUE), Segment(4, 1, TRUE, FALSE)}, 3)
(* Segments that share a page, with an entry relative to the image.        *)
Relative == Image({Segment(8, 2, FALSE, TRUE), Segment(9, 1, TRUE, FALSE)}, 1)
(* Pages that no segment covers, none at all, a cut-off file, not an ELF.  *)
Holed == Image({Segment(13, 1, FALSE, TRUE), Segment(15, 1, TRUE, FALSE)}, 13)
Empty == Image({Segment(3, 0, FALSE, TRUE)}, 3)
CutOff == [Straddling EXCEPT !.complete = FALSE]
NotElf == [Straddling EXCEPT !.valid = FALSE]
MCImages == {Straddling, Relative, Holed, Empty, CutOff, NotElf}

MCStackRequests == {[base |-> 0, count |-> 2], [base |-> 11, count |-> 2]}

Request(base, count, frame, flags) ==
  [base |-> base, count |-> count, frame |-> frame, flags |-> flags]

(* Pages across the end of a table, with frames that others have or may    *)
(* get and with frames an entry cuts off; an image's page, with a flag     *)
(* that is not allowed and with frames that end behind all memory.         *)
MCPageRequests ==
  {Request(7, 2, 3, {"writable", "nx"}), Request(7, 2, 15, {"nx"}),
   Request(4, 1, 0, {"user"}), Request(4, 1, 64, {})}

(* Some of these requests put two things in one place.  Without the ones   *)
(* that do, the hypothesis of the theorems holds.                          *)
Apart == INSTANCE AddressSpaces WITH
  Images <- MCImages \ {Relative}, StackRequests <- {[base |-> 0, count |-> 2]}
ASSUME ApartAssumption == Cardinality(Apart!Places) = 4 /\ Apart!PlacesApart

(* An image of one page, where the stack is put by default.                *)
MCOverStack == {Image({Segment(8, 1, FALSE, TRUE)}, 8)}
MCNoPageRequests == {}
=============================================================================
