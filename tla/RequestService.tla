--------------------------- MODULE RequestService ---------------------------
(***************************************************************************)
(* What the channel to the memory manager promises its callers: a call is  *)
(* carried out once, by the service, and its caller gets the answer to     *)
(* that very call.  Before the attach call has succeeded nothing else is   *)
(* carried out, and what was carried out is never carried out again.  The  *)
(* machine may stop instead of answering.                                  *)
(***************************************************************************)
EXTENDS Naturals

CONSTANTS Callers, Operations, AttachOperation, MayAnswer(_, _)

VARIABLES
  call,       \* what each caller asked, and what was answered
  attached    \* the attach call has succeeded

serviceVars == <<call, attached>>

Call(op, phase, status, times) ==
  [op |-> op, phase |-> phase, status |-> status, times |-> times]

Idle(times) == Call("none", "idle", "none", times)

ServiceInit ==
  /\ call = [c \in Callers |-> Idle(0)]
  /\ attached = FALSE

Ask(c) ==
  /\ call[c].phase = "idle"
  /\ \E op \in Operations : call' = [call EXCEPT ![c] = Call(op, "asked", "none", 0)]
  /\ UNCHANGED attached

Perform(c) ==
  /\ call[c].phase = "asked"
  /\ \E s \in MayAnswer(call[c].op, attached) :
       /\ call' = [call EXCEPT ![c] = Call(@.op, "answered", s, @.times + 1)]
       /\ attached' = (attached \/ (call[c].op = AttachOperation /\ s = "success"))

Return(c) ==
  /\ call[c].phase = "answered"
  /\ call' = [call EXCEPT ![c] = Idle(@.times)]
  /\ UNCHANGED attached

ServiceNext == \E c \in Callers : Ask(c) \/ Perform(c) \/ Return(c)

ServiceSpec == ServiceInit /\ [][ServiceNext]_serviceVars

=============================================================================
