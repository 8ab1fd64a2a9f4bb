----------------------------- MODULE ProfileTables -----------------------------
(***************************************************************************)
(* A bootstrap context assigns principals, by type and name, to profiles,  *)
(* and has a block of grants for each profile. The first entry that fits   *)
(* counts; 0 says that there is none.                                      *)
(***************************************************************************)
EXTENDS Integers, Sequences, SequencesExt

AssignmentOf(context, type, name) ==
  SelectInSeq(context.assignments, LAMBDA a : a.type = type /\ a.name = name)

BlockOf(context, profile) ==
  SelectInSeq(context.blocks, LAMBDA b : b.profile = profile)

(* The block of the profile that a principal is assigned to.               *)
ProfileOf(context, type, name) ==
  LET a == AssignmentOf(context, type, name)
  IN  IF a = 0 THEN 0 ELSE BlockOf(context, context.assignments[a].profile)

=============================================================================
