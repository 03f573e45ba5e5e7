---------------------------- MODULE MCTeamPool -----------------------------
(***************************************************************************)
(* Two members; the first makes all requests but one, or all of them.      *)
(***************************************************************************)
EXTENDS TeamPool, TLC

CONSTANTS m1, m2, r1, r2, r3, r4

MCOwner == [r \in Requests |-> IF r = r4 THEN m2 ELSE m1]
MCSymmetry == Permutations({r1, r2, r3})

=============================================================================
