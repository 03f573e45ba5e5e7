--------------------------- MODULE SeatDebtLedger ---------------------------
(***************************************************************************)
(* What the seat-rotation protection of a team promises: the credits that  *)
(* removed members used up are owed by the organisation, and each new      *)
(* member inherits at most one seat's worth of what is owed, once.         *)
(***************************************************************************)
EXTENDS Integers, FiniteSets

CONSTANTS
    Members,        \* the members who join
    Seat            \* the credits of one seat

VARIABLES
    owed,           \* what removed members used and nobody has inherited
    inherited       \* what each new member has inherited

ledgerVars == <<owed, inherited>>

Init == owed = 0 /\ inherited = [m \in Members |-> 0]

MemberLeaves ==
    /\ owed' \in {n \in Nat : n > owed}
    /\ UNCHANGED inherited

\* Another joining member may hide a part of the debt for a moment, so the
\* share is not always the largest possible.
Inherit(m) ==
    /\ inherited[m] = 0
    /\ inherited' \in [Members -> 0..Seat]
    /\ inherited'[m] <= owed
    /\ inherited' = [inherited EXCEPT ![m] = inherited'[m]]
    /\ owed' = owed - inherited'[m]

\* The share could not be burned from the member's bucket.
GiveBack(m) ==
    /\ owed' = owed + inherited[m]
    /\ inherited' = [inherited EXCEPT ![m] = 0]

\* A renewal forgets the debt, except that what joining members hold for a
\* moment beyond their share comes back as debt: at most a seat of each.
Renew ==
    /\ owed' \in 0..(Seat * Cardinality(Members))
    /\ UNCHANGED inherited

Next ==
    \/ MemberLeaves
    \/ Renew
    \/ \E m \in Members : Inherit(m) \/ GiveBack(m)

Spec == Init /\ [][Next]_ledgerVars
=============================================================================
