--------------------------- MODULE MCTeamSeatDebt ---------------------------
(***************************************************************************)
(* Two new members, one of whom sends two requests at once.  A seat is two *)
(* credits, so that a debt can be below, at and above one seat.            *)
(***************************************************************************)
EXTENDS TeamSeatDebt, TLC

CONSTANTS m1, m2, p1, p2, p3

MCOwner == (p1 :> m1) @@ (p2 :> m1) @@ (p3 :> m2)

=============================================================================
