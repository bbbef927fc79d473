------------------------------ MODULE SaveSlots ------------------------------
(***************************************************************************)
(* What the archive of a game session promises its player: a bounded row   *)
(* of save slots.  Play moves the game on, Save puts the game as it is now *)
(* into a new slot, Load takes the game back to a slot.  Only Load turns   *)
(* the turn counter back, and a slot is never rewritten: it can only be    *)
(* pushed out at the old end when the row is full.                         *)
(***************************************************************************)
EXTENDS Naturals, Sequences

CONSTANT Capacity   \* how many slots are kept

VARIABLES live,     \* the game as it is: [turns, world]
          slots     \* the saved games, oldest first

slotVars == <<live, slots>>

Init == /\ live.turns = 0
        /\ slots = <<>>

Play == /\ live'.turns \in {live.turns, live.turns + 1}
        /\ UNCHANGED slots

Save == /\ LET added == Append(slots, live) IN
           slots' = IF Len(added) > Capacity THEN Tail(added) ELSE added
        /\ UNCHANGED live

Load == /\ \E i \in DOMAIN slots : live' = slots[i]
        /\ UNCHANGED slots

Next == Play \/ Save \/ Load

Spec == Init /\ [][Next]_slotVars
=============================================================================
