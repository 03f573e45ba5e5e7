------------------------- MODULE TeamSeatDebtProofs -------------------------
(***************************************************************************)
(* Proofs about TeamSeatDebt, for any members, requests, debts and seat.   *)
(*                                                                         *)
(* SeatInv adds to the properties what a request that applies the debt     *)
(* relies on: it holds its member's flag, and what the member has          *)
(* inherited is what that request claimed.                                 *)
(*                                                                         *)
(* LedgerInv adds what the counter is made of: what the members have       *)
(* inherited, what concurrent claims hold of it for a moment (the loans),  *)
(* and the rest.  A sum is the number of units that it consists of, so     *)
(* that its laws follow from those of Cardinality, without induction.      *)
(***************************************************************************)
EXTENDS TeamSeatDebt, FiniteSetTheorems, TLAPS

FlagHeld == \A p \in Requests : Applying(p) => flag[Owner[p]]

\* What a member has inherited is what its one claimant holds, and nothing
\* before a claim or after it was given back.
ClaimCounted ==
    /\ \A p \in Requests :
          /\ pc[p] \in {"restore", "burn", "giveBack"} =>
                claimed[Owner[p]] = debit[p]
          /\ pc[p] \in {"decrement", "unflag"} => claimed[Owner[p]] = 0
    /\ \A m \in Members : ~flag[m] => claimed[m] = 0
    /\ InheritsAtMostASeat

SeatInv == TypeOK /\ FlagHeld /\ OneClaimant /\ ClaimCounted

LEMMA InitSeat == Init => SeatInv
<1> SUFFICES ASSUME Init PROVE SeatInv
  OBVIOUS
<1>1. TypeOK
  <2> USE DEF Init
  <2>1. 0 \in 0..MaxTokens /\ 0 \in 0..MaxRemovals /\ 0 \in 0..MaxClears
    BY MaxTokensAssumption, SeatDebtAssumption
  <2>2. /\ tokens \in [Members -> Int]
        /\ debit \in [Requests -> 0..MaxTokens]
        /\ lent \in [Requests -> 0..MaxTokens]
    BY <2>1, MaxTokensAssumption
  <2>3. /\ flag \in [Members -> BOOLEAN]
        /\ bucketExists \in [Members -> BOOLEAN]
        /\ claimed \in [Members -> Nat]
        /\ pc \in [Requests -> Labels]
    BY DEF Labels
  <2>4. /\ counter \in Int /\ removed \in Nat
        /\ removals \in 0..MaxRemovals /\ clears \in 0..MaxClears
    BY <2>1
  <2>5. faulted \in BOOLEAN
    BY Zenon
  <2> QED
    BY <2>2, <2>3, <2>4, <2>5 DEF TypeOK
<1>2. FlagHeld /\ OneClaimant /\ ClaimCounted
  BY MaxTokensAssumption, SeatDebtAssumption
     DEF Init, FlagHeld, OneClaimant, ClaimCounted, InheritsAtMostASeat,
         Applying
<1> QED
  BY <1>1, <1>2 DEF SeatInv

-----------------------------------------------------------------------------
(* Type correctness *)

LEMMA DecrementTypes ==
    ASSUME TypeOK, NEW p \in Requests, Decrement(p)
    PROVE  /\ counter' \in Int
           /\ debit' \in [Requests -> 0..MaxTokens]
           /\ lent' \in [Requests -> 0..MaxTokens]
           /\ claimed' \in [Members -> Nat]
<1> DEFINE overclaim == Overclaim(counter')
           share     == MaxTokens - overclaim
<1> USE MaxTokensAssumption, SeatDebtAssumption
<1>1. counter' = counter - MaxTokens /\ counter' \in Int
  BY DEF TypeOK, Decrement
<1>2. overclaim \in Nat /\ share \in Int /\ share <= MaxTokens
  BY <1>1 DEF Overclaim, Greater
<1>3. Greater(0, share) \in 0..MaxTokens
  BY <1>2 DEF Greater
<1>4. share > 0 => overclaim \in 0..MaxTokens
  BY <1>2
<1>5. Owner[p] \in Members
  OBVIOUS
<1>6. debit' = [debit EXCEPT ![p] = Greater(0, share)]
  BY DEF Decrement
<1>7. lent' = [lent EXCEPT ![p] = IF share <= 0 THEN MaxTokens ELSE overclaim]
  BY DEF Decrement
<1>8. claimed' = [claimed EXCEPT ![Owner[p]] = @ + Greater(0, share)]
  BY DEF Decrement
<1> HIDE DEF overclaim, share
<1>9. debit' \in [Requests -> 0..MaxTokens]
  BY <1>3, <1>6 DEF TypeOK
<1>10. lent' \in [Requests -> 0..MaxTokens]
  BY <1>2, <1>4, <1>7 DEF TypeOK
<1>11. claimed' \in [Members -> Nat]
  BY <1>3, <1>5, <1>8 DEF TypeOK
<1> QED
  BY <1>1, <1>9, <1>10, <1>11

\* The steps that move no credits.
LEMMA QuietStepKeepsType ==
    ASSUME TypeOK, NEW p \in Requests,
           \/ CheckExists(p) \/ Peek(p) \/ ClaimFlag(p) \/ Unflag(p)
           \/ ApplyErrs(p) \/ Crash(p)
    PROVE  TypeOK'
<1> USE SeatDebtAssumption DEF TypeOK, Goto, Labels
<1>1. CASE CheckExists(p)
  BY <1>1 DEF CheckExists
<1>2. CASE Peek(p)
  BY <1>2 DEF Peek
<1>3. CASE ClaimFlag(p)
  BY <1>3 DEF ClaimFlag
<1>4. CASE Unflag(p)
  BY <1>4 DEF Unflag
<1>5. CASE ApplyErrs(p)
  BY <1>5 DEF ApplyErrs
<1>6. CASE Crash(p)
  BY <1>6 DEF Crash
<1> QED
  BY <1>1, <1>2, <1>3, <1>4, <1>5, <1>6

LEMMA BucketStepKeepsType ==
    ASSUME TypeOK, NEW p \in Requests, Charge(p) \/ Burn(p) \/ BurnErrs(p)
    PROVE  TypeOK'
<1> USE SeatDebtAssumption, MaxTokensAssumption
    DEF TypeOK, Goto, Labels
<1>1. Owner[p] \in Members /\ tokens[Owner[p]] \in Int
  OBVIOUS
<1>2. \A n \in Int : AfterDebit(tokens[Owner[p]], n) \in Int
  BY <1>1 DEF AfterDebit
<1>3. \A n \in Int :
         [tokens EXCEPT ![Owner[p]] = AfterDebit(@, n)] \in [Members -> Int]
  BY <1>1, <1>2
<1>4. debit[p] \in Int /\ Charges \subseteq Int
  OBVIOUS
<1>5. tokens' \in [Members -> Int]
  BY <1>3, <1>4 DEF Charge, Burn, BurnErrs
<1>6. CASE Charge(p)
  BY <1>5, <1>6 DEF Charge
<1>7. CASE Burn(p)
  BY <1>5, <1>7 DEF Burn
<1>8. CASE BurnErrs(p)
  BY <1>5, <1>8 DEF BurnErrs
<1> QED
  BY <1>6, <1>7, <1>8

LEMMA CounterStepKeepsType ==
    ASSUME TypeOK, ClaimCounted, NEW p \in Requests,
           Decrement(p) \/ Restore(p) \/ GiveBack(p)
    PROVE  TypeOK'
<1> USE SeatDebtAssumption, MaxTokensAssumption
<1>1. CASE Decrement(p)
  BY <1>1, DecrementTypes DEF Decrement, TypeOK, Goto, Labels
<1>2. CASE Restore(p)
  BY <1>2 DEF Restore, TypeOK, Goto, Labels
<1>3. CASE GiveBack(p)
  <2>1. debit[p] \in Nat /\ claimed[Owner[p]] \in Nat
          /\ debit[p] <= claimed[Owner[p]]
    BY <1>3 DEF GiveBack, TypeOK, ClaimCounted
  <2>2. claimed' \in [Members -> Nat]
    BY <1>3, <2>1 DEF GiveBack, TypeOK
  <2> QED
    BY <1>3, <2>1, <2>2 DEF GiveBack, TypeOK, Goto, Labels
<1> QED
  BY <1>1, <1>2, <1>3

LEMMA OrganisationKeepsType ==
    ASSUME TypeOK, AddRemovedUsage \/ ClearRemovedUsage
    PROVE  TypeOK'
  BY SeatDebtAssumption DEF TypeOK, AddRemovedUsage, ClearRemovedUsage

-----------------------------------------------------------------------------
(* The claim *)

\* A request that is not applying the debt starts to only by taking a flag
\* that was not set, and a flag that is set is only cleared by its holder.
LEMMA ClaimStep ==
    ASSUME SeatInv, NEW p \in Requests, RequestStep(p)
    PROVE  /\ \A q \in Requests \ {p} : pc'[q] = pc[q]
           /\ Applying(p)' => Applying(p) \/ ~flag[Owner[p]]
           /\ Applying(p)' => flag'[Owner[p]]
           /\ \A m \in Members \ {Owner[p]} : flag'[m] = flag[m]
           /\ flag'[Owner[p]] \/ ~flag[Owner[p]] \/ Applying(p)
<1> USE SeatDebtAssumption DEF SeatInv, TypeOK, Goto, FlagHeld
<1>1. CASE ClaimFlag(p)
  BY <1>1 DEF ClaimFlag, Applying
<1>2. CASE Unflag(p)
  BY <1>2 DEF Unflag, Applying
<1>3. CASE CheckExists(p) \/ Peek(p) \/ Charge(p) \/ Burn(p)
  BY <1>3 DEF CheckExists, Peek, Charge, Burn, Applying
<1>4. CASE Decrement(p) \/ Restore(p)
  BY <1>4 DEF Decrement, Restore, Applying
<1>5. CASE BurnErrs(p) \/ GiveBack(p)
  BY <1>5 DEF BurnErrs, GiveBack, Applying
<1>6. CASE ApplyErrs(p) \/ Crash(p)
  BY <1>6 DEF ApplyErrs, Crash, Applying
<1> QED
  BY <1>1, <1>2, <1>3, <1>4, <1>5, <1>6 DEF RequestStep

LEMMA StepKeepsClaimant ==
    ASSUME SeatInv, NEW p \in Requests, RequestStep(p)
    PROVE  FlagHeld' /\ OneClaimant'
<1> USE SeatDebtAssumption
<1>1. /\ \A q \in Requests \ {p} : pc'[q] = pc[q]
      /\ Applying(p)' => Applying(p) \/ ~flag[Owner[p]]
      /\ Applying(p)' => flag'[Owner[p]]
      /\ \A m \in Members \ {Owner[p]} : flag'[m] = flag[m]
      /\ flag'[Owner[p]] \/ ~flag[Owner[p]] \/ Applying(p)
  BY ClaimStep
<1>2. \A q \in Requests \ {p} : Applying(q)' <=> Applying(q)
  BY <1>1 DEF Applying
<1>3. \A q \in Requests \ {p} :
         Applying(q) /\ Owner[q] = Owner[p] => flag[Owner[p]] /\ ~Applying(p)
  BY DEF SeatInv, FlagHeld, OneClaimant
<1>4. FlagHeld'
  <2> SUFFICES ASSUME NEW q \in Requests, Applying(q)'
               PROVE  flag'[Owner[q]]
    BY DEF FlagHeld
  <2>1. CASE q = p
    BY <1>1, <2>1
  <2>2. CASE q # p
    BY <1>1, <1>2, <1>3, <2>2 DEF SeatInv, FlagHeld
  <2> QED
    BY <2>1, <2>2
<1>5. OneClaimant'
  BY <1>1, <1>2, <1>3 DEF SeatInv, OneClaimant
<1> QED
  BY <1>4, <1>5

\* The steps of a request other than those that change its claim.
Untouched(p) ==
    /\ claimed' = claimed /\ debit' = debit
    /\ \A m \in Members : flag[m] => flag'[m]
    /\ pc'[p] \in {"restore", "burn", "giveBack"} =>
          pc[p] \in {"restore", "burn", "giveBack"}
    /\ pc'[p] \notin {"decrement", "unflag"}

LEMMA UntouchedKeepsCounted ==
    ASSUME SeatInv, NEW p \in Requests, RequestStep(p), Untouched(p)
    PROVE  ClaimCounted'
<1> USE SeatDebtAssumption
<1>1. \A q \in Requests \ {p} : pc'[q] = pc[q]
  BY ClaimStep
<1>2. InheritsAtMostASeat'
  BY DEF SeatInv, ClaimCounted, InheritsAtMostASeat, Untouched
<1>3. \A m \in Members : ~flag'[m] => claimed'[m] = 0
  BY DEF SeatInv, ClaimCounted, Untouched
<1>4. ASSUME NEW q \in Requests
      PROVE  /\ pc'[q] \in {"restore", "burn", "giveBack"} =>
                   claimed'[Owner[q]] = debit'[q]
             /\ pc'[q] \in {"decrement", "unflag"} => claimed'[Owner[q]] = 0
  <2>1. CASE q = p
    BY <2>1 DEF SeatInv, ClaimCounted, Untouched
  <2>2. CASE q # p
    BY <1>1, <2>2 DEF SeatInv, ClaimCounted, Untouched
  <2> QED
    BY <2>1, <2>2
<1> QED
  BY <1>2, <1>3, <1>4 DEF ClaimCounted

\* A claimant's step leaves the claims of the other members alone, and no other
\* request of its member is a claimant.
LEMMA ClaimantKeepsCounted ==
    ASSUME SeatInv, NEW p \in Requests, RequestStep(p), Applying(p),
           NEW n \in 0..MaxTokens,
           claimed' = [claimed EXCEPT ![Owner[p]] = n],
           \A q \in Requests \ {p} : debit'[q] = debit[q],
           pc'[p] \in {"restore", "burn", "giveBack"} => debit'[p] = n,
           pc'[p] \in {"decrement", "unflag"} \/ ~flag'[Owner[p]] => n = 0
    PROVE  ClaimCounted'
<1> USE SeatDebtAssumption, MaxTokensAssumption
<1>1. /\ \A q \in Requests \ {p} : pc'[q] = pc[q]
      /\ \A m \in Members \ {Owner[p]} : flag'[m] = flag[m]
  BY ClaimStep
<1>2. claimed'[Owner[p]] = n
        /\ \A m \in Members \ {Owner[p]} : claimed'[m] = claimed[m]
  BY DEF SeatInv, TypeOK
<1>3. ASSUME NEW m \in Members
      PROVE  claimed'[m] <= MaxTokens /\ (~flag'[m] => claimed'[m] = 0)
  <2>1. CASE m = Owner[p]
    BY <1>2, <2>1
  <2>2. CASE m # Owner[p]
    BY <1>1, <1>2, <2>2 DEF SeatInv, ClaimCounted, InheritsAtMostASeat
  <2> QED
    BY <2>1, <2>2
<1>4. ASSUME NEW q \in Requests
      PROVE  /\ pc'[q] \in {"restore", "burn", "giveBack"} =>
                   claimed'[Owner[q]] = debit'[q]
             /\ pc'[q] \in {"decrement", "unflag"} => claimed'[Owner[q]] = 0
  <2>1. CASE q = p
    BY <1>2, <2>1
  <2>2. CASE q # p /\ Owner[q] = Owner[p]
    <3>1. ~Applying(q)
      BY <2>2 DEF SeatInv, OneClaimant
    <3> QED
      BY <1>1, <2>2, <3>1 DEF Applying
  <2>3. CASE q # p /\ Owner[q] # Owner[p]
    BY <1>1, <1>2, <2>3 DEF SeatInv, ClaimCounted
  <2> QED
    BY <2>1, <2>2, <2>3
<1> QED
  BY <1>3, <1>4 DEF ClaimCounted, InheritsAtMostASeat

LEMMA StepKeepsCounted ==
    ASSUME SeatInv, NEW p \in Requests, RequestStep(p)
    PROVE  ClaimCounted'
<1> USE SeatDebtAssumption, MaxTokensAssumption
<1>1. CASE Decrement(p)
  <2> DEFINE share == Greater(0, MaxTokens - Overclaim(counter'))
  <2>1. share \in 0..MaxTokens
    BY <1>1 DEF Decrement, Greater, Overclaim, SeatInv, TypeOK
  <2>2. Applying(p) /\ claimed[Owner[p]] = 0 /\ flag[Owner[p]]
    BY <1>1 DEF Decrement, Applying, SeatInv, ClaimCounted, FlagHeld
  <2>3. debit' = [debit EXCEPT ![p] = share] /\ flag' = flag
          /\ pc'[p] \in {"restore", "burn"}
    BY <1>1 DEF Decrement, SeatInv, TypeOK, Goto
  <2>4. claimed' = [claimed EXCEPT ![Owner[p]] = claimed[Owner[p]] + share]
    BY <1>1 DEF Decrement
  <2> HIDE DEF share
  <2>5. claimed' = [claimed EXCEPT ![Owner[p]] = share]
    BY <2>1, <2>2, <2>4
  <2>6. debit'[p] = share /\ \A q \in Requests \ {p} : debit'[q] = debit[q]
    BY <2>3 DEF SeatInv, TypeOK
  <2> QED
    BY <2>1, <2>2, <2>3, <2>5, <2>6, ClaimantKeepsCounted
<1>2. CASE GiveBack(p)
  <2>1. Applying(p) /\ claimed[Owner[p]] = debit[p] /\ debit[p] \in Nat
    BY <1>2 DEF GiveBack, Applying, SeatInv, TypeOK, ClaimCounted
  <2>2. claimed' = [claimed EXCEPT ![Owner[p]] = 0]
    <3>1. claimed' = [claimed EXCEPT ![Owner[p]] =
                         claimed[Owner[p]] - debit[p]]
      BY <1>2 DEF GiveBack
    <3>2. claimed[Owner[p]] - debit[p] = 0
      BY <2>1
    <3> QED
      BY <3>1, <3>2
  <2>3. debit' = debit /\ pc'[p] = "unflag" /\ 0 \in 0..MaxTokens
    BY <1>2 DEF GiveBack, SeatInv, TypeOK, Goto
  <2> QED
    BY <2>1, <2>2, <2>3, ClaimantKeepsCounted
<1>3. CASE Unflag(p)
  <2>1. Applying(p) /\ claimed[Owner[p]] = 0
    BY <1>3 DEF Unflag, Applying, SeatInv, ClaimCounted
  <2>2. claimed' = [claimed EXCEPT ![Owner[p]] = 0]
    BY <1>3, <2>1 DEF Unflag, SeatInv, TypeOK
  <2>3. debit' = debit /\ pc'[p] = "charge" /\ 0 \in 0..MaxTokens
    BY <1>3 DEF Unflag, SeatInv, TypeOK, Goto
  <2> QED
    BY <2>1, <2>2, <2>3, ClaimantKeepsCounted
<1>4. CASE ClaimFlag(p) /\ ~flag[Owner[p]]
  <2>1. claimed[Owner[p]] = 0 /\ Owner[p] \in Members
    BY <1>4 DEF SeatInv, ClaimCounted
  <2>2. claimed' = claimed /\ debit' = debit /\ pc'[p] = "decrement"
          /\ flag' = [flag EXCEPT ![Owner[p]] = TRUE]
    BY <1>4 DEF ClaimFlag, SeatInv, TypeOK, Goto
  <2>3. \A q \in Requests \ {p} : pc'[q] = pc[q]
    BY ClaimStep
  <2>4. \A m \in Members : ~flag'[m] => ~flag[m]
    BY <2>2 DEF SeatInv, TypeOK
  <2> QED
    BY <2>1, <2>2, <2>3, <2>4
       DEF SeatInv, ClaimCounted, InheritsAtMostASeat
<1>5. CASE ClaimFlag(p) /\ flag[Owner[p]]
  <2>1. Untouched(p)
    BY <1>5 DEF Untouched, ClaimFlag, SeatInv, TypeOK, Goto
  <2> QED
    BY <2>1, UntouchedKeepsCounted
<1>6. CASE \/ CheckExists(p) \/ Peek(p) \/ Charge(p) \/ Restore(p)
           \/ Burn(p) \/ BurnErrs(p) \/ ApplyErrs(p) \/ Crash(p)
  <2>1. Untouched(p)
    BY <1>6
       DEF Untouched, CheckExists, Peek, Charge, Restore, Burn, BurnErrs,
           ApplyErrs, Crash, SeatInv, TypeOK, Goto
  <2> QED
    BY <2>1, UntouchedKeepsCounted
<1> QED
  BY <1>1, <1>2, <1>3, <1>4, <1>5, <1>6 DEF RequestStep

-----------------------------------------------------------------------------
LEMMA NextKeepsSeat == SeatInv /\ [Next]_seatVars => SeatInv'
<1> SUFFICES ASSUME SeatInv, [Next]_seatVars PROVE SeatInv'
  OBVIOUS
<1>1. ASSUME NEW p \in Requests, RequestStep(p) PROVE SeatInv'
  <2>1. TypeOK'
    BY <1>1, QuietStepKeepsType, BucketStepKeepsType, CounterStepKeepsType
       DEF SeatInv, RequestStep
  <2> QED
    BY <1>1, <2>1, StepKeepsClaimant, StepKeepsCounted DEF SeatInv
<1>2. CASE AddRemovedUsage \/ ClearRemovedUsage
  <2>1. UNCHANGED <<flag, pc, debit, claimed>>
    BY <1>2 DEF AddRemovedUsage, ClearRemovedUsage
  <2> QED
    BY <1>2, <2>1, OrganisationKeepsType
       DEF SeatInv, FlagHeld, OneClaimant, ClaimCounted,
           InheritsAtMostASeat, Applying
<1>3. CASE UNCHANGED seatVars
  BY <1>3
     DEF SeatInv, TypeOK, FlagHeld, OneClaimant, ClaimCounted,
         InheritsAtMostASeat, Applying, seatVars
<1> QED
  BY <1>1, <1>2, <1>3 DEF Next, AllDone

LEMMA SeatCorrect == Spec => []SeatInv
  BY InitSeat, NextKeepsSeat, PTL DEF Spec

\* No claim is negative, or above one seat, whatever was removed meanwhile.
THEOREM SeatTypeCorrect == Spec => []TypeOK
<1>1. SeatInv => TypeOK
  BY DEF SeatInv
<1> QED
  BY <1>1, SeatCorrect, PTL

\* A member inherits at most one seat's worth of debt, whatever was removed,
\* renewed or retried.
THEOREM SeatAtMostCorrect == Spec => []InheritsAtMostASeat
<1>1. SeatInv => InheritsAtMostASeat
  BY DEF SeatInv, ClaimCounted
<1> QED
  BY <1>1, SeatCorrect, PTL

\* At most one request of a member applies the seat debt at a time.
THEOREM OneClaimantCorrect == Spec => []OneClaimant
<1>1. SeatInv => OneClaimant
  BY DEF SeatInv
<1> QED
  BY <1>1, SeatCorrect, PTL

-----------------------------------------------------------------------------
(* The sum of a function, as a number of units *)

LEMMA UnitIn ==
    ASSUME NEW f, NEW u
    PROVE  u \in Units(f) <=>
              \E x \in DOMAIN f : \E i \in 1..f[x] : u = <<x, i>>
  BY DEF Units

LEMMA UnitsFinite ==
    ASSUME NEW S, IsFiniteSet(S), NEW f \in [S -> 0..MaxTokens]
    PROVE  IsFiniteSet(Units(f)) /\ Total(f) \in Nat
<1>1. IsFiniteSet(1..MaxTokens)
  BY FS_Interval, MaxTokensAssumption
<1>2. IsFiniteSet(S \X (1..MaxTokens))
  BY <1>1, FS_Product
<1>3. Units(f) \subseteq S \X (1..MaxTokens)
  BY UnitIn, MaxTokensAssumption
<1> QED
  BY <1>2, <1>3, FS_Subset, FS_CardinalityType DEF Total

LEMMA TotalZero ==
    ASSUME NEW f, \A x \in DOMAIN f : f[x] = 0
    PROVE  Total(f) = 0
<1>1. Units(f) = {}
  BY UnitIn
<1> QED
  BY <1>1, FS_EmptySet DEF Total

\* The units of one argument.
LEMMA UnitsOf ==
    ASSUME NEW x, NEW n \in Nat
    PROVE  IsFiniteSet({x} \X (1..n)) /\ Cardinality({x} \X (1..n)) = n
<1>1. IsFiniteSet({x}) /\ Cardinality({x}) = 1
  BY FS_Singleton
<1>2. IsFiniteSet(1..n) /\ Cardinality(1..n) = n
  BY FS_Interval
<1>3. /\ IsFiniteSet({x} \X (1..n))
      /\ Cardinality({x} \X (1..n)) = Cardinality({x}) * Cardinality(1..n)
  BY <1>1, <1>2, FS_Product
<1> QED
  BY <1>1, <1>2, <1>3

\* The units of all arguments but one.
Others(f, x) == {u \in Units(f) : u[1] # x}

LEMMA TotalSplit ==
    ASSUME NEW S, IsFiniteSet(S), NEW f \in [S -> 0..MaxTokens],
           NEW x \in S
    PROVE  /\ Cardinality(Others(f, x)) \in Nat
           /\ Total(f) = Cardinality(Others(f, x)) + f[x]
<1>1. IsFiniteSet(Units(f)) /\ f[x] \in Nat
  BY UnitsFinite
<1>2. IsFiniteSet(Others(f, x)) /\ Cardinality(Others(f, x)) \in Nat
  BY <1>1, FS_Subset, FS_CardinalityType DEF Others
<1>3. Units(f) = Others(f, x) \cup ({x} \X (1..f[x]))
  BY UnitIn DEF Others
<1>4. Others(f, x) \cap ({x} \X (1..f[x])) = {}
  BY DEF Others
<1>5. /\ IsFiniteSet({x} \X (1..f[x]))
      /\ Cardinality({x} \X (1..f[x])) = f[x]
  BY <1>1, UnitsOf
<1>6. Cardinality(Units(f)) =
         Cardinality(Others(f, x)) + f[x] - Cardinality({})
  BY <1>2, <1>3, <1>4, <1>5, FS_Union
<1> QED
  BY <1>1, <1>2, <1>6, FS_EmptySet DEF Total

LEMMA TotalUpdate ==
    ASSUME NEW S, IsFiniteSet(S), NEW f \in [S -> 0..MaxTokens],
           NEW x \in S, NEW n \in 0..MaxTokens
    PROVE  Total([f EXCEPT ![x] = n]) = Total(f) - f[x] + n
<1> DEFINE g == [f EXCEPT ![x] = n]
<1>1. g \in [S -> 0..MaxTokens] /\ g[x] = n
  OBVIOUS
<1>2. \A y \in S : y # x => g[y] = f[y]
  OBVIOUS
<1>3. Others(g, x) = Others(f, x)
  <2> SUFFICES ASSUME NEW u
               PROVE  u \in Others(g, x) <=> u \in Others(f, x)
    OBVIOUS
  <2> HIDE DEF g
  <2>1. DOMAIN g = S /\ DOMAIN f = S
    BY <1>1
  <2>2. \A y \in S : \A i : <<y, i>>[1] = y
    OBVIOUS
  <2>3. u \in Units(g) /\ u[1] # x <=>
           \E y \in S \ {x} : \E i \in 1..g[y] : u = <<y, i>>
    BY <2>1, <2>2, UnitIn
  <2>4. u \in Units(f) /\ u[1] # x <=>
           \E y \in S \ {x} : \E i \in 1..f[y] : u = <<y, i>>
    BY <2>1, <2>2, UnitIn
  <2> QED
    BY <1>2, <2>3, <2>4 DEF Others
<1> HIDE DEF g
<1>4. Total(g) = Cardinality(Others(g, x)) + n
  BY <1>1, TotalSplit
<1>5. Total(f) = Cardinality(Others(f, x)) + f[x]
        /\ Cardinality(Others(f, x)) \in Nat
  BY TotalSplit
<1>6. f[x] \in Nat
  OBVIOUS
<1> QED
  BY <1>3, <1>4, <1>5, <1>6 DEF g

LEMMA LoanTotal ==
    ASSUME NEW f \in [Requests -> 0..MaxTokens], NEW p \in Requests,
           NEW n \in 0..MaxTokens
    PROVE  Total([f EXCEPT ![p] = n]) = Total(f) - f[p] + n
<1>1. IsFiniteSet(Requests)
  BY SeatDebtAssumption
<1> QED
  BY <1>1, TotalUpdate

LEMMA ClaimTotal ==
    ASSUME NEW f \in [Members -> 0..MaxTokens], NEW m \in Members,
           NEW n \in 0..MaxTokens
    PROVE  Total([f EXCEPT ![m] = n]) = Total(f) - f[m] + n
<1>1. IsFiniteSet(Members)
  BY SeatDebtAssumption
<1> QED
  BY <1>1, TotalUpdate

\* Loans of requests of different members are together at most one seat each.
LEMMA TotalOfDistinctOwners ==
    ASSUME NEW f \in [Requests -> 0..MaxTokens],
           \A p, q \in Requests :
              Owner[p] = Owner[q] /\ f[p] > 0 /\ f[q] > 0 => p = q
    PROVE  Total(f) <= MaxTokens * Cardinality(Members)
<1> USE MaxTokensAssumption, SeatDebtAssumption
<1> DEFINE T == Members \X (1..MaxTokens)
           g == [u \in Units(f) |-> <<Owner[u[1]], u[2]>>]
<1>1. IsFiniteSet(1..MaxTokens) /\ Cardinality(1..MaxTokens) = MaxTokens
  BY FS_Interval
<1>2. /\ IsFiniteSet(T)
      /\ Cardinality(T) = Cardinality(Members) * Cardinality(1..MaxTokens)
  BY <1>1, FS_Product
<1>3. ASSUME NEW u \in Units(f)
      PROVE  /\ u = <<u[1], u[2]>> /\ u[1] \in Requests
             /\ u[2] \in 1..MaxTokens /\ f[u[1]] > 0
  BY <1>3, UnitIn
<1>4. g \in [Units(f) -> T]
  BY <1>3
<1>5. ASSUME NEW u \in Units(f), NEW v \in Units(f), g[u] = g[v]
      PROVE  u = v
  <2>1. Owner[u[1]] = Owner[v[1]] /\ u[2] = v[2]
    BY <1>5
  <2> QED
    BY <1>3, <2>1
<1>6. g \in Injection(Units(f), T)
  BY <1>4, <1>5 DEF Injection, IsInjective
<1>7. Cardinality(Units(f)) <= Cardinality(T)
  BY <1>2, <1>6, FS_Injection
<1>8. Cardinality(Members) \in Nat
  BY FS_CardinalityType
<1> QED
  BY <1>1, <1>2, <1>7, <1>8 DEF Total

-----------------------------------------------------------------------------
(* The loans *)

\* Whoever still holds a loan has kept its member's flag, and nobody else of
\* that member can claim.
LoanHeld ==
    \A p \in Requests : lent[p] > 0 =>
        /\ flag[Owner[p]]
        /\ pc[p] \in {"restore", "charge", "done", "crashed"}
        /\ \A q \in Requests \ {p} :
              Owner[q] = Owner[p] => ~Applying(q) /\ lent[q] = 0

\* Only a fault makes a loan outlive applyTeamSeatDebt.
LoanTransient ==
    ~faulted => \A p \in Requests : lent[p] > 0 => pc[p] = "restore"

\* The three places where debt can be.
Books == clears = 0 => counter + Total(lent) + Total(claimed) = removed

Covered == counter + Total(lent) >= 0

LedgerInv ==
    SeatInv /\ LoanHeld /\ LoanTransient /\ Books /\ Covered

LEMMA OverclaimBounds ==
    ASSUME NEW x \in Int
    PROVE  /\ Overclaim(x) \in Nat
           /\ Overclaim(x) = 0 \/ Overclaim(x) = -x
           /\ -x <= Overclaim(x)
  BY DEF Overclaim, Greater

LEMMA LoanStep ==
    ASSUME SeatInv, LoanHeld, LoanTransient, NEW p \in Requests,
           RequestStep(p)
    PROVE  /\ \A q \in Requests \ {p} : lent'[q] = lent[q]
           /\ lent'[p] > 0 => pc'[p] \in {"restore", "charge", "done", "crashed"}
           /\ lent'[p] > 0 => lent[p] > 0 \/ Applying(p)
           /\ faulted => faulted'
           /\ lent'[p] > 0 /\ ~faulted' => pc'[p] = "restore"
<1> USE SeatDebtAssumption, MaxTokensAssumption
    DEF SeatInv, TypeOK, Goto, LoanHeld, LoanTransient
<1>1. CASE Decrement(p)
  <2>1. counter' \in Int /\ pc' = [pc EXCEPT ![p] = pc'[p]]
          /\ lent' = [lent EXCEPT ![p] = lent'[p]] /\ faulted' = faulted
    BY <1>1 DEF Decrement
  <2>2. Overclaim(counter') \in Nat
    BY <2>1, OverclaimBounds
  <2>3. pc'[p] # "restore" => Overclaim(counter') = 0
    BY <1>1, <2>2 DEF Decrement
  <2>4. Overclaim(counter') = 0 => lent'[p] = 0
    BY <1>1 DEF Decrement
  <2> QED
    BY <1>1, <2>1, <2>3, <2>4 DEF Decrement, Applying
<1>2. CASE Restore(p)
  BY <1>2 DEF Restore
<1>3. CASE CheckExists(p) \/ Peek(p) \/ ClaimFlag(p) \/ Charge(p)
  BY <1>3 DEF CheckExists, Peek, ClaimFlag, Charge
<1>4. CASE Burn(p) \/ BurnErrs(p) \/ GiveBack(p) \/ Unflag(p)
  BY <1>4 DEF Burn, BurnErrs, GiveBack, Unflag
<1>5. CASE ApplyErrs(p) \/ Crash(p)
  BY <1>5 DEF ApplyErrs, Crash
<1> QED
  BY <1>1, <1>2, <1>3, <1>4, <1>5 DEF RequestStep

LEMMA StepKeepsLoans ==
    ASSUME SeatInv, LoanHeld, LoanTransient, NEW p \in Requests,
           RequestStep(p)
    PROVE  LoanHeld' /\ LoanTransient'
<1>1. /\ \A q \in Requests \ {p} : lent'[q] = lent[q]
      /\ lent'[p] > 0 => pc'[p] \in {"restore", "charge", "done", "crashed"}
      /\ lent'[p] > 0 => lent[p] > 0 \/ Applying(p)
      /\ faulted => faulted'
      /\ lent'[p] > 0 /\ ~faulted' => pc'[p] = "restore"
  BY LoanStep
<1>2. /\ \A q \in Requests \ {p} : pc'[q] = pc[q]
      /\ Applying(p)' => Applying(p) \/ ~flag[Owner[p]]
      /\ \A m \in Members \ {Owner[p]} : flag'[m] = flag[m]
      /\ flag'[Owner[p]] \/ ~flag[Owner[p]] \/ Applying(p)
  BY ClaimStep
<1>3. \A q \in Requests \ {p} : Applying(q)' <=> Applying(q)
  BY <1>2 DEF Applying
<1>4. lent \in [Requests -> 0..MaxTokens] /\ lent' \in [Requests -> 0..MaxTokens]
  <2>1. TypeOK'
    BY QuietStepKeepsType, BucketStepKeepsType, CounterStepKeepsType
       DEF SeatInv, RequestStep
  <2> QED
    BY <2>1 DEF SeatInv, TypeOK
<1>5. ASSUME NEW a \in Requests, lent'[a] > 0
      PROVE  /\ flag'[Owner[a]]
             /\ pc'[a] \in {"restore", "charge", "done", "crashed"}
             /\ \A q \in Requests \ {a} :
                   Owner[q] = Owner[a] => ~Applying(q)' /\ lent'[q] = 0
  <2>1. CASE a = p
    <3>1. lent[p] > 0 \/ Applying(p)
      BY <1>1, <1>5, <2>1
    <3>2. \A q \in Requests \ {p} :
             Owner[q] = Owner[p] => ~Applying(q) /\ lent[q] = 0
      BY <1>4, <3>1, MaxTokensAssumption DEF SeatInv, OneClaimant, LoanHeld
    <3>3. flag'[Owner[p]]
      <4>1. flag[Owner[p]]
        BY <3>1 DEF SeatInv, FlagHeld, LoanHeld
      <4>2. pc'[p] \in {"restore", "charge", "done", "crashed"}
        BY <1>1, <1>5, <2>1
      <4>3. ~Unflag(p)
        BY <1>1, <1>5, <2>1, <4>2, MaxTokensAssumption
           DEF Unflag, LoanHeld, SeatInv, TypeOK
      <4> QED
        BY <4>1, <4>3, SeatDebtAssumption
           DEF RequestStep, CheckExists, Peek, ClaimFlag, Charge, Decrement,
               Restore, Burn, BurnErrs, GiveBack, ApplyErrs, Crash, SeatInv,
               TypeOK
    <3> QED
      BY <1>1, <1>3, <1>5, <2>1, <3>2, <3>3
  <2>2. CASE a # p
    <3>1. lent[a] > 0
      BY <1>1, <1>5, <2>2
    <3>2. /\ flag[Owner[a]]
          /\ pc[a] \in {"restore", "charge", "done", "crashed"}
          /\ \A q \in Requests \ {a} :
                Owner[q] = Owner[a] => ~Applying(q) /\ lent[q] = 0
      BY <3>1 DEF LoanHeld
    <3>3. CASE Owner[p] = Owner[a]
      <4>1. ~Applying(p) /\ lent[p] = 0
        BY <2>2, <3>2, <3>3
      <4>2. ~Applying(p)' /\ lent'[p] = 0 /\ flag'[Owner[a]]
        BY <1>1, <1>2, <1>4, <3>2, <3>3, <4>1, MaxTokensAssumption
      <4> QED
        BY <1>1, <1>2, <1>3, <2>2, <3>2, <4>2
    <3>4. CASE Owner[p] # Owner[a]
      BY <1>1, <1>2, <1>3, <2>2, <3>2, <3>4, SeatDebtAssumption
    <3> QED
      BY <3>3, <3>4
  <2> QED
    BY <2>1, <2>2
<1>6. LoanHeld'
  BY <1>5 DEF LoanHeld
<1>7. LoanTransient'
  BY <1>1, <1>2 DEF LoanTransient
<1> QED
  BY <1>6, <1>7

-----------------------------------------------------------------------------
(* The books, and the steps of the ledger *)

LEMMA SeatTotals ==
    ASSUME SeatInv
    PROVE  /\ claimed \in [Members -> 0..MaxTokens]
           /\ Total(lent) \in Nat /\ Total(claimed) \in Nat
           /\ MaxTokens \in Nat
<1> USE SeatDebtAssumption, MaxTokensAssumption DEF SeatInv, TypeOK
<1>1. claimed \in [Members -> 0..MaxTokens]
  BY DEF ClaimCounted, InheritsAtMostASeat
<1> QED
  BY <1>1, SeatDebtAssumption, UnitsFinite

\* What DECRBY takes is the share and the loan, and the share is owed.
LEMMA DecrementBooks ==
    ASSUME LedgerInv, NEW p \in Requests, Decrement(p)
    PROVE  /\ debit'[p] \in 0..MaxTokens
           /\ debit'[p] <= counter + Total(lent)
           /\ claimed[Owner[p]] = 0
           /\ claimed' = [claimed EXCEPT ![Owner[p]] = debit'[p]]
           /\ counter' + Total(lent') = counter + Total(lent) - debit'[p]
           /\ Total(claimed') = Total(claimed) + debit'[p]
<1> USE SeatDebtAssumption, MaxTokensAssumption DEF LedgerInv, SeatInv
<1>1. /\ counter \in Int /\ lent \in [Requests -> 0..MaxTokens]
      /\ debit \in [Requests -> 0..MaxTokens] /\ Owner[p] \in Members
  BY DEF TypeOK
<1>2. lent[p] = 0 /\ claimed[Owner[p]] = 0
  BY <1>1 DEF Decrement, LoanHeld, ClaimCounted
<1>3. counter' = counter - MaxTokens
  BY DEF Decrement
<1> DEFINE over  == Overclaim(counter')
           share == MaxTokens - over
           loan  == IF share <= 0 THEN MaxTokens ELSE over
<1>4. over \in Nat /\ (over = 0 \/ over = -counter') /\ -counter' <= over
  BY <1>1, <1>3, OverclaimBounds
<1>5. Greater(0, share) \in 0..MaxTokens /\ loan \in 0..MaxTokens
        /\ loan + Greater(0, share) = MaxTokens
        /\ (Greater(0, share) = 0 \/ Greater(0, share) <= counter)
  BY <1>1, <1>3, <1>4 DEF Greater
<1>6. /\ debit' = [debit EXCEPT ![p] = Greater(0, share)]
      /\ lent' = [lent EXCEPT ![p] = loan]
      /\ claimed' = [claimed EXCEPT ![Owner[p]] =
                        claimed[Owner[p]] + Greater(0, share)]
  BY DEF Decrement
<1> HIDE DEF over, share, loan
<1>7. debit'[p] = Greater(0, share)
  BY <1>1, <1>6
<1>8. claimed' = [claimed EXCEPT ![Owner[p]] = debit'[p]]
  <2>1. claimed[Owner[p]] + Greater(0, share) = debit'[p]
    BY <1>2, <1>5, <1>7
  <2> QED
    BY <1>6, <2>1, Zenon
<1>9. Total(lent') = Total(lent) - lent[p] + loan
  BY <1>1, <1>5, <1>6, LoanTotal
<1>10. Total(claimed') = Total(claimed) - claimed[Owner[p]] + debit'[p]
  <2>1. claimed \in [Members -> 0..MaxTokens] /\ debit'[p] \in 0..MaxTokens
    BY <1>5, <1>7, SeatTotals
  <2> QED
    BY <1>1, <1>8, <2>1, ClaimTotal
<1>11. Total(lent) \in Nat /\ Total(claimed) \in Nat
  BY SeatTotals
<1>12. debit'[p] <= counter + Total(lent)
  BY <1>1, <1>5, <1>7, <1>11 DEF Covered
<1> QED
  BY <1>1, <1>2, <1>3, <1>5, <1>7, <1>8, <1>9, <1>10, <1>11, <1>12

LEMMA RestoreBooks ==
    ASSUME SeatInv, NEW p \in Requests, Restore(p)
    PROVE  counter' + Total(lent') = counter + Total(lent)
<1> USE SeatDebtAssumption, MaxTokensAssumption
<1>1. /\ lent \in [Requests -> 0..MaxTokens] /\ 0 \in 0..MaxTokens
      /\ counter \in Int
  BY DEF SeatInv, TypeOK
<1>2. lent' = [lent EXCEPT ![p] = 0]
  BY DEF Restore
<1>3. Total(lent') = Total(lent) - lent[p] + 0
  BY <1>1, <1>2, LoanTotal
<1> QED
  BY <1>1, <1>3, SeatTotals DEF Restore

LEMMA GiveBackBooks ==
    ASSUME SeatInv, NEW p \in Requests, GiveBack(p)
    PROVE  /\ counter' = counter + claimed[Owner[p]]
           /\ claimed' = [claimed EXCEPT ![Owner[p]] = 0]
           /\ Total(claimed') = Total(claimed) - claimed[Owner[p]]
<1> USE SeatDebtAssumption, MaxTokensAssumption
<1>1. claimed[Owner[p]] = debit[p] /\ debit[p] \in Nat /\ Owner[p] \in Members
  BY DEF SeatInv, TypeOK, ClaimCounted, GiveBack
<1>2. claimed' = [claimed EXCEPT ![Owner[p]] = claimed[Owner[p]] - debit[p]]
        /\ counter' = counter + debit[p]
  BY DEF GiveBack
<1>3. claimed[Owner[p]] - debit[p] = 0 /\ 0 \in 0..MaxTokens
  BY <1>1
<1>4. claimed' = [claimed EXCEPT ![Owner[p]] = 0]
  BY <1>2, <1>3
<1>5. Total(claimed') = Total(claimed) - claimed[Owner[p]] + 0
  BY <1>1, <1>3, <1>4, SeatTotals, ClaimTotal
<1>6. Total(claimed') = Total(claimed) - claimed[Owner[p]]
  BY <1>1, <1>5, SeatTotals
<1>7. counter' = counter + claimed[Owner[p]]
  BY <1>1, <1>2
<1> QED
  BY <1>4, <1>6, <1>7, Zenon

\* The steps that move no debt.
LEMMA OtherBooks ==
    ASSUME NEW p \in Requests, RequestStep(p),
           ~Decrement(p), ~Restore(p), ~GiveBack(p)
    PROVE  UNCHANGED <<counter, lent, claimed, removed, clears>>
  BY DEF RequestStep, CheckExists, Peek, ClaimFlag, Charge, Burn, BurnErrs,
         Unflag, ApplyErrs, Crash

LEMMA NextKeepsLedger == LedgerInv /\ [Next]_seatVars => LedgerInv'
<1> SUFFICES ASSUME LedgerInv, [Next]_seatVars PROVE LedgerInv'
  OBVIOUS
<1>1. SeatInv'
  BY NextKeepsSeat DEF LedgerInv
<1>2. /\ counter \in Int /\ removed \in Nat
      /\ Total(lent) \in Nat /\ Total(claimed) \in Nat
      /\ claimed \in [Members -> 0..MaxTokens]
  BY SeatTotals DEF LedgerInv, SeatInv, TypeOK
<1>3. /\ counter' \in Int /\ Total(lent') \in Nat /\ Total(claimed') \in Nat
      /\ clears \in Nat
  <2>1. counter' \in Int /\ lent' \in [Requests -> 0..MaxTokens]
          /\ clears \in Nat
    BY <1>1, SeatDebtAssumption DEF LedgerInv, SeatInv, TypeOK
  <2>2. claimed' \in [Members -> 0..MaxTokens]
    BY <1>1, MaxTokensAssumption
       DEF SeatInv, TypeOK, ClaimCounted, InheritsAtMostASeat
  <2> QED
    BY <2>1, <2>2, SeatDebtAssumption, UnitsFinite
<1>4. ASSUME NEW p \in Requests, RequestStep(p) PROVE Books' /\ Covered'
  <2>1. removed' = removed /\ clears' = clears
    BY <1>4
       DEF RequestStep, CheckExists, Peek, ClaimFlag, Charge, Decrement,
           Restore, Burn, BurnErrs, GiveBack, Unflag, ApplyErrs, Crash
  <2>2. CASE Decrement(p)
    BY <1>2, <1>3, <2>1, <2>2, DecrementBooks DEF LedgerInv, Books, Covered
  <2>3. CASE Restore(p)
    <3>1. claimed' = claimed
      BY <2>3 DEF Restore
    <3> QED
      BY <1>2, <1>3, <2>1, <2>3, <3>1, RestoreBooks
         DEF LedgerInv, Books, Covered
  <2>4. CASE GiveBack(p)
    <3>1. lent' = lent /\ claimed[Owner[p]] \in Nat
      BY <1>2, <2>4, SeatDebtAssumption DEF GiveBack
    <3> QED
      BY <1>2, <1>3, <2>1, <2>4, <3>1, GiveBackBooks
         DEF LedgerInv, Books, Covered
  <2>5. CASE ~Decrement(p) /\ ~Restore(p) /\ ~GiveBack(p)
    BY <1>4, <2>5, OtherBooks DEF LedgerInv, Books, Covered
  <2> QED
    BY <2>2, <2>3, <2>4, <2>5
<1>5. ASSUME NEW p \in Requests, RequestStep(p) PROVE LedgerInv'
  BY <1>1, <1>4, <1>5, StepKeepsLoans DEF LedgerInv
<1>6. CASE AddRemovedUsage
  <2>1. PICK n \in Debts : counter' = counter + n /\ removed' = removed + n
    BY <1>6 DEF AddRemovedUsage
  <2>2. UNCHANGED <<flag, pc, lent, claimed, clears, faulted>> /\ n \in Nat
    BY <1>6, SeatDebtAssumption DEF AddRemovedUsage
  <2>3. Total(lent') = Total(lent) /\ Total(claimed') = Total(claimed)
    BY <2>2
  <2>4. Books'
    BY <1>2, <2>1, <2>2, <2>3 DEF LedgerInv, Books
  <2>5. Covered'
    BY <1>2, <2>1, <2>2, <2>3 DEF LedgerInv, Covered
  <2>6. LoanHeld' /\ LoanTransient'
    BY <2>2 DEF LedgerInv, LoanHeld, LoanTransient, Applying
  <2> QED
    BY <1>1, <2>4, <2>5, <2>6 DEF LedgerInv
<1>7. CASE ClearRemovedUsage
  <2>1. UNCHANGED <<flag, pc, lent, claimed, removed, faulted>>
          /\ counter' = 0 /\ clears' = clears + 1
    BY <1>7 DEF ClearRemovedUsage
  <2> QED
    BY <1>1, <1>2, <1>3, <2>1
       DEF LedgerInv, Books, Covered, LoanHeld, LoanTransient, Applying
<1>8. CASE UNCHANGED seatVars
  BY <1>1, <1>8
     DEF LedgerInv, Books, Covered, LoanHeld, LoanTransient, Applying, seatVars
<1> QED
  BY <1>5, <1>6, <1>7, <1>8 DEF Next, AllDone

LEMMA InitLedger == Init => LedgerInv
<1> SUFFICES ASSUME Init PROVE LedgerInv
  OBVIOUS
<1>1. Total(lent) = 0 /\ Total(claimed) = 0
  BY TotalZero DEF Init
<1> QED
  BY <1>1, InitSeat
     DEF Init, LedgerInv, Books, Covered, LoanHeld, LoanTransient

LEMMA LedgerCorrect == Spec => []LedgerInv
  BY InitLedger, NextKeepsLedger, PTL DEF Spec

\* At rest the counter holds exactly the debt nobody inherited.
THEOREM CounterCorrect == Spec => []CounterExactAtRest
<1>1. LedgerInv => CounterExactAtRest
  <2> SUFFICES ASSUME LedgerInv, ~faulted, clears = 0,
                      \A p \in Requests : ~Applying(p)
               PROVE  counter = removed - Total(claimed)
    BY DEF CounterExactAtRest
  <2>1. lent \in [Requests -> 0..MaxTokens] /\ counter \in Int
          /\ removed \in Nat /\ Total(claimed) \in Nat
    BY SeatTotals DEF LedgerInv, SeatInv, TypeOK
  <2>2. \A p \in Requests : lent[p] = 0
    BY <2>1, MaxTokensAssumption DEF LedgerInv, LoanTransient, Applying
  <2>3. Total(lent) = 0
    BY <2>1, <2>2, TotalZero
  <2> QED
    BY <2>1, <2>3 DEF LedgerInv, Books
<1> QED
  BY <1>1, LedgerCorrect, PTL

-----------------------------------------------------------------------------
(* The refinement *)

LEMMA InitImplements == Init => Ledger!Init
  BY TotalZero DEF Init, Ledger!Init

\* What a renewal leaves: the loans, which come back as debt.
LEMMA LoansBounded ==
    ASSUME LedgerInv
    PROVE  Total(lent) \in 0..(MaxTokens * Cardinality(Members))
<1>1. lent \in [Requests -> 0..MaxTokens]
  BY DEF LedgerInv, SeatInv, TypeOK
<1>2. ASSUME NEW p \in Requests, NEW q \in Requests, Owner[p] = Owner[q],
             lent[p] > 0, lent[q] > 0
      PROVE  p = q
  BY <1>1, <1>2, MaxTokensAssumption DEF LedgerInv, LoanHeld
<1>3. Total(lent) <= MaxTokens * Cardinality(Members)
  BY <1>1, <1>2, TotalOfDistinctOwners
<1>4. MaxTokens * Cardinality(Members) \in Nat
  BY MaxTokensAssumption, SeatDebtAssumption, FS_CardinalityType
<1> QED
  BY <1>3, <1>4, SeatTotals DEF LedgerInv

LEMMA NextImplements ==
    ASSUME LedgerInv, [Next]_seatVars
    PROVE  [Ledger!Next]_(Ledger!ledgerVars)
<1> USE SeatDebtAssumption, MaxTokensAssumption
<1>1. /\ counter \in Int /\ Total(lent) \in Nat
      /\ claimed \in [Members -> 0..MaxTokens]
  BY SeatTotals DEF LedgerInv, SeatInv, TypeOK
<1>2. ASSUME NEW p \in Requests, Decrement(p)
      PROVE  Ledger!Inherit(Owner[p])
  <2>1. /\ debit'[p] \in 0..MaxTokens
        /\ debit'[p] <= counter + Total(lent)
        /\ claimed[Owner[p]] = 0
        /\ claimed' = [claimed EXCEPT ![Owner[p]] = debit'[p]]
        /\ counter' + Total(lent') = counter + Total(lent) - debit'[p]
    BY <1>2, DecrementBooks
  <2>2. Owner[p] \in Members /\ claimed'[Owner[p]] = debit'[p]
          /\ claimed' \in [Members -> 0..MaxTokens]
    BY <1>1, <2>1
  <2>3. claimed' = [claimed EXCEPT ![Owner[p]] = claimed'[Owner[p]]]
    BY <2>1, <2>2, Zenon
  <2>4. /\ claimed'[Owner[p]] <= counter + Total(lent)
        /\ (counter + Total(lent))' =
              (counter + Total(lent)) - claimed'[Owner[p]]
    BY <1>1, <2>1, <2>2
  <2> QED
    BY <2>1, <2>2, <2>3, <2>4 DEF Ledger!Inherit
<1>3. ASSUME NEW p \in Requests, Restore(p)
      PROVE  UNCHANGED Ledger!ledgerVars
  BY <1>3, RestoreBooks DEF Restore, Ledger!ledgerVars, LedgerInv
<1>4. ASSUME NEW p \in Requests, GiveBack(p)
      PROVE  Ledger!GiveBack(Owner[p])
  <2>1. lent' = lent /\ claimed[Owner[p]] \in Nat
    BY <1>1, <1>4 DEF GiveBack
  <2> QED
    BY <1>1, <1>4, <2>1, GiveBackBooks DEF Ledger!GiveBack, LedgerInv
<1>5. ASSUME NEW p \in Requests, RequestStep(p),
             ~Decrement(p), ~Restore(p), ~GiveBack(p)
      PROVE  UNCHANGED Ledger!ledgerVars
  BY <1>5, OtherBooks DEF Ledger!ledgerVars
<1>6. CASE AddRemovedUsage
  <2>1. PICK n \in Debts : counter' = counter + n
    BY <1>6 DEF AddRemovedUsage
  <2>2. lent' = lent /\ claimed' = claimed /\ n \in Nat \ {0}
    BY <1>6 DEF AddRemovedUsage
  <2>3. counter + Total(lent) >= 0
    BY DEF LedgerInv, Covered
  <2>4. Ledger!MemberLeaves
    BY <1>1, <2>1, <2>2, <2>3 DEF Ledger!MemberLeaves
  <2> QED
    BY <2>4 DEF Ledger!Next
<1>7. CASE ClearRemovedUsage
  <2>1. lent' = lent /\ claimed' = claimed /\ counter' = 0
    BY <1>7 DEF ClearRemovedUsage
  <2>2. Total(lent) \in 0..(MaxTokens * Cardinality(Members))
    BY LoansBounded
  <2>3. Ledger!Renew
    BY <2>1, <2>2 DEF Ledger!Renew, Ledger!Cardinality, Cardinality
  <2> QED
    BY <2>3 DEF Ledger!Next
<1>8. CASE UNCHANGED seatVars
  BY <1>8 DEF seatVars, Ledger!ledgerVars
<1> QED
  BY <1>2, <1>3, <1>4, <1>5, <1>6, <1>7, <1>8
     DEF Next, AllDone, Ledger!Next

\* The seat-debt protocol implements the ledger: each share comes out of what
\* is owed, whatever fails and whoever joins at the same time.
THEOREM LedgerImplemented == Spec => ImplementsLedger
<1>1. Init => Ledger!Init
  BY InitImplements
<1>2. LedgerInv /\ [Next]_seatVars => [Ledger!Next]_(Ledger!ledgerVars)
  BY NextImplements
<1> QED
  BY <1>1, <1>2, LedgerCorrect, PTL DEF Spec, ImplementsLedger, Ledger!Spec
=============================================================================
