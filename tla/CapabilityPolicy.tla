--------------------------- MODULE CapabilityPolicy ---------------------------
(***************************************************************************)
(* The capability policy: the boot monitor reads CAPABILITIES.CFG line by  *)
(* line into the tables of the boot context, and the init command asks     *)
(* them for its authority to launch the capability manager.                *)
(*                                                                         *)
(* A capability (namespace and name) and a profile name are one value      *)
(* each. A line is a record: its kind says which keyword it begins with,   *)
(* "comment" stands for a line that begins with # or ; and "malformed" for *)
(* an unknown keyword or a line that lacks a word.                         *)
(***************************************************************************)
EXTENDS ProfileTables, FiniteSets

CONSTANTS
  PolicyFiles,         \* the files a machine may hold, <<>> for none
  PrincipalTypes,      \* the words LosMonitorPrincipalTypeFromToken knows
  ProfileIds,          \* LosMonitorHashText of a profile's name
  MaxBlocks,           \* ..._BOOTSTRAP_CONTEXT_MAX_BLOCKS
  MaxGrantsPerBlock,   \* ..._BOOTSTRAP_CONTEXT_MAX_GRANTS_PER_BLOCK
  MaxAssignments,      \* ..._BOOTSTRAP_CONTEXT_MAX_ASSIGNMENTS
  MaxBootEvents,       \* ..._BOOTSTRAP_CONTEXT_MAX_EVENTS
  BlockSpan            \* 2^32: how far the grant ids of two blocks lie apart

ASSUME PolicyAssumption ==
  /\ {MaxBlocks, MaxGrantsPerBlock, MaxAssignments, MaxBootEvents} \subseteq Nat
  /\ BlockSpan \in Nat /\ BlockSpan > MaxGrantsPerBlock

ASSUME FilesAssumption ==
  \A f \in PolicyFiles : /\ f \in Seq(ToSet(f))
                         /\ \A l \in ToSet(f) : l.kind = "block" => ProfileIds[l.profile] \in Nat

VARIABLES
  file,        \* the lines of the file
  line,        \* the line that Cursor stands in
  policy,      \* BootContext->Capabilities
  openBlock,   \* CurrentBlock is a block of the policy, the last one
  loading      \* "reading", then the status of the load

policyVars == <<file, line, policy, openBlock, loading>>

NoPolicy == [blocks |-> <<>>, assignments |-> <<>>, events |-> 0]

PolicyInit ==
  /\ file \in PolicyFiles
  /\ line = 1
  /\ policy = NoPolicy
  /\ openBlock = FALSE
  /\ loading = IF file = <<>> THEN "not_found" ELSE "reading"

-----------------------------------------------------------------------------
(* One action for each keyword. A line that fails ends the load with what  *)
(* was read before it.                                                     *)

At(kind) == loading = "reading" /\ line <= Len(file) /\ file[line].kind = kind

NextLine == line' = line + 1 /\ UNCHANGED <<file, loading>>

Fail(status) == loading' = status /\ UNCHANGED <<file, line, policy, openBlock>>

ReadBlock ==
  /\ At("block")
  /\ LET read == file[line] IN
     \/ Len(policy.blocks) = MaxBlocks /\ Fail("buffer_too_small")
     \/ /\ Len(policy.blocks) < MaxBlocks
        /\ read.type \notin PrincipalTypes
        /\ Fail("load_error")
     \/ /\ Len(policy.blocks) < MaxBlocks
        /\ read.type \in PrincipalTypes
        /\ policy' = [policy EXCEPT !.blocks =
             Append(@, [type |-> read.type, profile |-> read.profile,
                        id |-> ProfileIds[read.profile], grants |-> <<>>])]
        /\ openBlock' = TRUE
        /\ NextLine

GrantId(b, g) == b * BlockSpan + g

ReadGrant ==
  /\ At("grant")
  /\ LET b == Len(policy.blocks)
         g == Len(policy.blocks[b].grants) IN
     \/ ~openBlock /\ Fail("load_error")
     \/ openBlock /\ g = MaxGrantsPerBlock /\ Fail("buffer_too_small")
     \/ /\ openBlock /\ g < MaxGrantsPerBlock
        /\ policy.events = MaxBootEvents
        /\ Fail("buffer_too_small")
     \/ /\ openBlock /\ g < MaxGrantsPerBlock
        /\ policy.events < MaxBootEvents
        /\ policy' = [policy EXCEPT
             !.blocks[b].grants =
               Append(@, [id |-> GrantId(b, g + 1), cap |-> file[line].cap]),
             !.events = @ + 1]
        /\ UNCHANGED openBlock
        /\ NextLine

ReadAssign ==
  /\ At("assign")
  /\ LET read == file[line] IN
     \/ /\ Len(policy.assignments) = MaxAssignments
        /\ Fail("buffer_too_small")
     \/ /\ Len(policy.assignments) < MaxAssignments
        /\ read.type \notin PrincipalTypes
        /\ Fail("load_error")
     \/ /\ Len(policy.assignments) < MaxAssignments
        /\ read.type \in PrincipalTypes
        /\ policy' = [policy EXCEPT !.assignments =
             Append(@, [type |-> read.type, name |-> read.name,
                        profile |-> read.profile])]
        /\ UNCHANGED openBlock
        /\ NextLine

CloseBlock ==
  /\ At("endblock")
  /\ openBlock' = FALSE
  /\ UNCHANGED policy
  /\ NextLine

(* The loop finds the end of the line, sets Cursor back to its start and   *)
(* asks for a word. At a comment there is none, Cursor stays, and the next *)
(* iteration finds the same line.                                          *)
MeetComment == At("comment") /\ UNCHANGED policyVars

RejectLine == At("malformed") /\ Fail("load_error")

ReachEnd ==
  /\ loading = "reading" /\ line > Len(file)
  /\ loading' = "success"
  /\ UNCHANGED <<file, line, policy, openBlock>>

PolicyNext ==
  \/ ReadBlock \/ ReadGrant \/ ReadAssign \/ CloseBlock
  \/ MeetComment \/ RejectLine \/ ReachEnd

-----------------------------------------------------------------------------
(* What the kernel hands on, and the questions asked of it.                *)

(* Mutant of CapabilitiesValid: the load's status is not asked.            *)
CapabilitiesValidUnasked == policy.blocks # <<>>

CapabilitiesValid == loading = "success" /\ policy.blocks # <<>>

BootstrapCapabilities == IF CapabilitiesValid THEN policy ELSE NoPolicy

ProfileHasGrant(block, cap) == \E g \in ToSet(block.grants) : g.cap = cap

(* The grants of a bootstrap context are all active.                       *)
LaunchAuthority(context) ==
  LET b == ProfileOf(context, "task", "init")
  IN  b # 0 /\ \A cap \in {"service start", "service bootstrap.import"} :
                 ProfileHasGrant(context.blocks[b], cap)

-----------------------------------------------------------------------------
(* What a file says, asked of its lines and not of the loader.             *)

LinesOf(f, kind) == {i \in DOMAIN f : f[i].kind = kind}

(* The grants of the block that begins at line b.                          *)
GrantLines(f, b) ==
  {i \in LinesOf(f, "grant") : i > b /\
     \A j \in b + 1 .. i : f[j].kind \notin {"block", "endblock"}}

FileAuthorises(f) ==
  LET assigned == {i \in LinesOf(f, "assign") : f[i].type = "task" /\ f[i].name = "init"}
      blocks == {b \in LinesOf(f, "block") : f[b].profile = f[Min(assigned)].profile}
  IN  /\ assigned # {} /\ blocks # {}
      /\ {"service start", "service bootstrap.import"} \subseteq
           {f[i].cap : i \in GrantLines(f, Min(blocks))}

(* Comments apart: known keywords and types, and grants within blocks.     *)
WellFormed(f) ==
  /\ LinesOf(f, "malformed") = {} /\ LinesOf(f, "block") # {}
  /\ \A i \in LinesOf(f, "block") \cup LinesOf(f, "assign") : f[i].type \in PrincipalTypes
  /\ LinesOf(f, "grant") = UNION {GrantLines(f, b) : b \in LinesOf(f, "block")}

(* The loader is a loop of the boot: it goes on while it can.              *)
PolicySpec == PolicyInit /\ [][PolicyNext]_policyVars /\ WF_policyVars(PolicyNext)

(* The monitor parses the policy file into the boot context, and the       *)
(* kernel receives all of it: Docs/Services/CapabilitiesService.md:24-27   *)
(* says so of CAPABILITIES.CFG, and the shipped file is well formed        *)
(* (LosMonitorLoadCapabilitiesFromEsp, ..._BOOTSTRAP_CONTEXT_MAX_BLOCKS).  *)
PolicyReachesKernel ==
  WellFormed(file) =>
    <>(/\ Len(BootstrapCapabilities.blocks) = Cardinality(LinesOf(file, "block"))
       /\ Len(BootstrapCapabilities.assignments) = Cardinality(LinesOf(file, "assign"))
       /\ BootstrapCapabilities.events = Cardinality(LinesOf(file, "grant")))

=============================================================================
