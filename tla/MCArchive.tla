------------------------------ MODULE MCArchive ------------------------------
(***************************************************************************)
(* Small instances of Archive: every second or every counted turn archives *)
(* and the list holds two versions, so that trimming, duplicate numbers    *)
(* and restores of versions that are gone all happen.                      *)
(***************************************************************************)
EXTENDS Archive, TLC

CONSTANTS c1, c2   \* clients

OneClient == {c1}

TwoClients == {c1, c2}

ClientSymmetry == Permutations(TwoClients)
=============================================================================
