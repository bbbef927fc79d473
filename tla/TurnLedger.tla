----------------------------- MODULE TurnLedger -----------------------------
(***************************************************************************)
(* What the turn pipeline of one game session promises to the rest of the  *)
(* system, with no workers, snapshots or plugin phases in sight: a ledger  *)
(* that grows in two kinds of atomic entries.  Narrate records one saved   *)
(* narrative and counts one turn; Publish records the blocks one plugin    *)
(* phase dispatched, of which a once-per-session type may only ever appear *)
(* once.  Nothing is ever taken back.                                      *)
(***************************************************************************)
EXTENDS Naturals

CONSTANTS BlockTypes,   \* the block types the enabled plugins declare
          OnceTypes     \* those whose trigger mode is once_per_session

VARIABLES turns,        \* the turn counter a reader of the session sees
          narratives,   \* how many narrative messages are stored
          published     \* per block type, how many blocks were dispatched

ledgerVars == <<turns, narratives, published>>

Init == /\ turns = 0
        /\ narratives = 0
        /\ published = [t \in BlockTypes |-> 0]

\* A narrative is stored and counted, both or neither.
Narrate == /\ narratives' = narratives + 1
           /\ turns' = turns + 1
           /\ UNCHANGED published

\* A plugin phase adds blocks; a once-per-session type stays at one at most.
Publish == /\ published' \in [BlockTypes -> Nat]
           /\ \A t \in BlockTypes : published[t] <= published'[t]
           /\ \A t \in OnceTypes : published'[t] <= 1
           /\ UNCHANGED <<turns, narratives>>

Next == Narrate \/ Publish

Spec == Init /\ [][Next]_ledgerVars
=============================================================================
