----------------------- MODULE MCMemoryManagerChannel -----------------------
(***************************************************************************)
(* Two mailbox slots wrap at once, ids wrap after four, and one operation  *)
(* of each kind: one that needs a capability, one that needs the service,  *)
(* and the one the kernel could answer itself.                             *)
(***************************************************************************)
EXTENDS MemoryManagerChannel

=============================================================================
