--------------------------- MODULE MCSessionView ----------------------------
(***************************************************************************)
(* A small instance of SessionView: a project with two sessions and room   *)
(* for one more, created or forked.                                        *)
(***************************************************************************)
EXTENDS SessionView, TLC

CONSTANTS s1, s2, s3

ThreeSessions == {s1, s2, s3}

TwoAtFirst == {s1, s2}

SessionSymmetry == Permutations({s1, s2})
=============================================================================
