------------------------------- MODULE Mailbox -------------------------------
(***************************************************************************)
(* The shared-page mailbox that the kernel and its services exchange       *)
(* messages through: a ring of slots, each free or ready with one message. *)
(* The indices are 64-bit counters that are only ever used modulo the      *)
(* number of slots, a power of two, so the model keeps their remainder.    *)
(***************************************************************************)
EXTENDS Integers

CONSTANT SlotCount   \* LOS_MEMORY_MANAGER_MAILBOX_SLOT_COUNT

ASSUME SlotAssumption == SlotCount \in Nat \ {0}

Slots == 0 .. SlotCount - 1

EmptyMailbox == [slots |-> [i \in Slots |-> {}], produce |-> 0, consume |-> 0]

AfterUnwrapped(i) == i + 1

After(i) == (i + 1) % SlotCount

Ready(box) == {i \in Slots : box.slots[i] # {}}

CanPut(box) == box.slots[box.produce] = {}

Put(box, m) ==
  [box EXCEPT !.slots[box.produce] = {m}, !.produce = After(@)]

AtHead(box) == box.slots[box.consume]

(* The consumer frees the slot it stands at and steps to the next one.     *)
TakeHead(box) ==
  [box EXCEPT !.slots[box.consume] = {}, !.consume = After(@)]

(* A reply is looked up by its request id from the consumer's slot on; the *)
(* consumer moves behind the reply it takes, whatever it passed over.      *)
Answering(box, id) == {i \in Slots : \E m \in box.slots[i] : m.id = id}

From(box, i) == (i - box.consume + SlotCount) % SlotCount

FirstAnswer(box, id) ==
  CHOOSE i \in Answering(box, id) :
    \A j \in Answering(box, id) : From(box, i) <= From(box, j)

TakeAnswerOnly(box, id) == [box EXCEPT !.slots[FirstAnswer(box, id)] = {}]

TakeAnswer(box, id) ==
  LET i == FirstAnswer(box, id)
  IN  [box EXCEPT !.slots[i] = {}, !.consume = After(i)]

=============================================================================
