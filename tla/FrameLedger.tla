----------------------------- MODULE FrameLedger -----------------------------
(***************************************************************************)
(* What the memory manager promises about physical frames: every usable    *)
(* frame has at most one holder, a grant gives frames nobody holds, and    *)
(* only what was granted comes back.                                       *)
(***************************************************************************)
VARIABLES usable,   \* frames the manager may hand out
          held,     \* the grants in force, each a set of frames
          stopped   \* the service halted itself

ledgerVars == <<usable, held, stopped>>

LedgerInit == usable = {} /\ held = {} /\ stopped = FALSE

Open == /\ ~stopped /\ usable = {} /\ held = {}
        /\ usable' # {}
        /\ UNCHANGED <<held, stopped>>

Grant == /\ ~stopped
         /\ \E g \in SUBSET usable : /\ g # {}
                                     /\ \A h \in held : g \cap h = {}
                                     /\ held' = held \cup {g}
         /\ UNCHANGED <<usable, stopped>>

Return == /\ ~stopped
          /\ held' \subseteq held
          /\ UNCHANGED <<usable, stopped>>

Stop == stopped' = TRUE /\ UNCHANGED <<usable, held>>

LedgerNext == Open \/ Grant \/ Return \/ Stop

LedgerSpec == LedgerInit /\ [][LedgerNext]_ledgerVars
=============================================================================
