--------------------------- MODULE FreeTierProofs ---------------------------
(***************************************************************************)
(* Proofs of the safety properties of FreeTier, for any number of requests *)
(* and of calls of the attribution route, any limits, costs and bounds.    *)
(***************************************************************************)
EXTENDS FreeTier, TLAPS

\* Whoever is between the acquisition and the release owns the lock.
LockHeld == \A r \in Requests : Holding(r) => lock = r

\* While the run that read the cost holds the lock, nothing is added to what
\* it read.
CostKnown ==
    /\ spent < MonthlyLimit + MaxCost
    /\ \A r \in Requests :
           /\ pc[r] = "running" => budget[r] = "ok"
           /\ pc[r] \in {"checking", "running"} /\ budget[r] = "ok"
                  => spent < MonthlyLimit

\* A call of the attribution route that may still grant finds the key set, or
\* the reward unmarked; one that is about to mark it has seen the key set.
GrantKnown ==
    /\ attribution = "missing" => ~grantKey
    /\ \A p \in Posts :
           /\ post[p] = "granting" => attribution /= "missing"
           /\ post[p] = "granting" /\ attribution = "awarded" => grantKey
           /\ post[p] = "marking" => attribution /= "missing" /\ grantKey

\* The bonus that is still to be granted.
Pending == IF attribution = "none" /\ ~grantKey THEN BonusUnits ELSE 0

\* What was taken, with what is left, is no more than what was promised.
UnitsKnown == taken + BaseRemaining + bonus + Pending <= promised

FreeTierInv ==
    TypeOK /\ LockHeld /\ CostKnown /\ GrantKnown /\ UnitsKnown

-----------------------------------------------------------------------------

\* Every step leaves the variables well typed.
LEMMA TypeStep ==
    ASSUME TypeOK, [Next]_vars
    PROVE  TypeOK'
<1> USE FreeAssumption, UnitsAssumption, CostAssumption, BoundsAssumption DEF
        TypeOK, vars, requestVars, redisVars, postVars, clockVars
<1>1. ASSUME NEW r \in Requests, Acquire(r) PROVE TypeOK'
    BY <1>1 DEF Acquire, LockIsFree
<1>2. ASSUME NEW r \in Requests, AcquireRefused(r) PROVE TypeOK'
    BY <1>2 DEF AcquireRefused, LockIsFree
<1>3. ASSUME NEW r \in Requests, AcquireErrs(r) PROVE TypeOK'
    BY <1>3 DEF AcquireErrs, LockIsFree
<1>4. ASSUME NEW r \in Requests, AskUnits(r) PROVE TypeOK'
    BY <1>4 DEF AskUnits
<1>5. ASSUME NEW r \in Requests, ConsumeFreeRequestUnits(r) PROVE TypeOK'
    BY <1>5 DEF ConsumeFreeRequestUnits, BaseRemaining, AtLeastZero, Cost,
            BonusAfter
<1>6. ASSUME NEW r \in Requests, CheckFreeMonthlyCostLimit(r) PROVE TypeOK'
    BY <1>6 DEF CheckFreeMonthlyCostLimit, WithinMonthlyLimit
<1>7. ASSUME NEW r \in Requests, Run(r) PROVE TypeOK'
    BY <1>7 DEF Run
<1>8. ASSUME NEW r \in Requests, FailsEarly(r) PROVE TypeOK'
    BY <1>8 DEF FailsEarly
<1>9. ASSUME NEW r \in Requests, NEW cost \in 0 .. MaxCost,
                      RecordFreeMonthlyCost(r, cost) PROVE TypeOK'
    BY <1>9 DEF RecordFreeMonthlyCost
<1>10. ASSUME NEW r \in Requests, EndUnrecorded(r) PROVE TypeOK'
    BY <1>10 DEF EndUnrecorded
<1>11. ASSUME NEW r \in Requests, Release(r) PROVE TypeOK'
    BY <1>11 DEF Release, Unlocked
<1>12. ASSUME NEW r \in Requests, ReleaseErrs(r) PROVE TypeOK'
    BY <1>12 DEF ReleaseErrs, Unlocked
<1>13. ASSUME NEW r \in Requests, Crash(r) PROVE TypeOK'
    BY <1>13 DEF Crash
<1>14. ASSUME NEW p \in Posts, AttributeReferredSignup(p) PROVE TypeOK'
    BY <1>14 DEF AttributeReferredSignup
<1>15. ASSUME NEW p \in Posts, AttributionBlocked(p) PROVE TypeOK'
    BY <1>15 DEF AttributionBlocked
<1>16. ASSUME NEW p \in Posts, GrantFreeReferralBonusUnits(p) PROVE TypeOK'
    BY <1>16 DEF GrantFreeReferralBonusUnits, Granted
<1>17. ASSUME NEW p \in Posts, GrantErrs(p) PROVE TypeOK'
  <2>1. bonus' \in Nat
    BY <1>17 DEF GrantErrs, Granted
  <2>2. grantKey' = TRUE \/ grantKey' = grantKey
    BY <1>17 DEF GrantErrs, Granted
  <2>3. grantKey' \in BOOLEAN
    BY <2>2
  <2>4. post' \in [Posts -> {"idle", "granting", "marking", "over"}]
    BY <1>17 DEF GrantErrs
  <2> QED
    BY <1>17, <2>1, <2>3, <2>4 DEF GrantErrs
<1>18. ASSUME NEW p \in Posts, MarkReferredSignupBonusGranted(p) PROVE TypeOK'
    BY <1>18 DEF MarkReferredSignupBonusGranted
<1>19. ASSUME NEW p \in Posts, MarkErrs(p) PROVE TypeOK'
    BY <1>19 DEF MarkErrs
<1>20. CASE LockExpires
    BY <1>20 DEF LockExpires, Outlived, Holding
<1>21. CASE NewDay
    BY <1>21 DEF NewDay
<1>22. CASE NewMonth
    BY <1>22 DEF NewMonth
<1>23. CASE BonusExpires
  <2>1. promised' \in Nat
    BY <1>23 DEF BonusExpires
  <2>2. grantKey' \in BOOLEAN
    BY <1>23 DEF BonusExpires
  <2>3. bonus' \in Nat
    BY <1>23 DEF BonusExpires
  <2> QED
    BY <1>23, <2>1, <2>2, <2>3 DEF BonusExpires
<1>24. CASE UNCHANGED vars
    BY <1>24
<1>25. QED
    BY <1>1, <1>2, <1>3, <1>4, <1>5, <1>6, <1>7, <1>8, <1>9, <1>10, <1>11,
            <1>12, <1>13, <1>14, <1>15, <1>16, <1>17, <1>18, <1>19, <1>20,
            <1>21, <1>22, <1>23, <1>24 DEF Next, RequestStep, PostStep

\* No step makes a second request hold the lock, or takes it from its holder.
LEMMA LockStep ==
    ASSUME TypeOK, LockHeld, [Next]_vars
    PROVE  LockHeld'
<1> USE FreeAssumption DEF LockHeld, Holding, TypeOK, vars, requestVars,
        redisVars, postVars, clockVars
<1>1. ASSUME NEW r \in Requests, Acquire(r) PROVE LockHeld'
    BY <1>1 DEF Acquire, LockIsFree
<1>2. ASSUME NEW r \in Requests, AcquireRefused(r) PROVE LockHeld'
    BY <1>2 DEF AcquireRefused, LockIsFree
<1>3. ASSUME NEW r \in Requests, AcquireErrs(r) PROVE LockHeld'
    BY <1>3 DEF AcquireErrs, LockIsFree
<1>4. ASSUME NEW r \in Requests, AskUnits(r) PROVE LockHeld'
    BY <1>4 DEF AskUnits
<1>5. ASSUME NEW r \in Requests, ConsumeFreeRequestUnits(r) PROVE LockHeld'
    BY <1>5 DEF ConsumeFreeRequestUnits, BaseRemaining, AtLeastZero, Cost,
            BonusAfter
<1>6. ASSUME NEW r \in Requests, CheckFreeMonthlyCostLimit(r) PROVE LockHeld'
    BY <1>6 DEF CheckFreeMonthlyCostLimit, WithinMonthlyLimit
<1>7. ASSUME NEW r \in Requests, Run(r) PROVE LockHeld'
    BY <1>7 DEF Run
<1>8. ASSUME NEW r \in Requests, FailsEarly(r) PROVE LockHeld'
    BY <1>8 DEF FailsEarly
<1>9. ASSUME NEW r \in Requests, NEW cost \in 0 .. MaxCost,
                      RecordFreeMonthlyCost(r, cost) PROVE LockHeld'
    BY <1>9 DEF RecordFreeMonthlyCost
<1>10. ASSUME NEW r \in Requests, EndUnrecorded(r) PROVE LockHeld'
    BY <1>10 DEF EndUnrecorded
<1>11. ASSUME NEW r \in Requests, Release(r) PROVE LockHeld'
    BY <1>11 DEF Release, Unlocked
<1>12. ASSUME NEW r \in Requests, ReleaseErrs(r) PROVE LockHeld'
    BY <1>12 DEF ReleaseErrs, Unlocked
<1>13. ASSUME NEW r \in Requests, Crash(r) PROVE LockHeld'
    BY <1>13 DEF Crash
<1>14. ASSUME NEW p \in Posts, AttributeReferredSignup(p) PROVE LockHeld'
    BY <1>14 DEF AttributeReferredSignup
<1>15. ASSUME NEW p \in Posts, AttributionBlocked(p) PROVE LockHeld'
    BY <1>15 DEF AttributionBlocked
<1>16. ASSUME NEW p \in Posts, GrantFreeReferralBonusUnits(p) PROVE LockHeld'
    BY <1>16 DEF GrantFreeReferralBonusUnits, Granted
<1>17. ASSUME NEW p \in Posts, GrantErrs(p) PROVE LockHeld'
    BY <1>17 DEF GrantErrs, Granted
<1>18. ASSUME NEW p \in Posts, MarkReferredSignupBonusGranted(p) PROVE
        LockHeld'
    BY <1>18 DEF MarkReferredSignupBonusGranted
<1>19. ASSUME NEW p \in Posts, MarkErrs(p) PROVE LockHeld'
    BY <1>19 DEF MarkErrs
<1>20. CASE LockExpires
    BY <1>20 DEF LockExpires, Outlived, Holding
<1>21. CASE NewDay
    BY <1>21 DEF NewDay
<1>22. CASE NewMonth
    BY <1>22 DEF NewMonth
<1>23. CASE BonusExpires
    BY <1>23 DEF BonusExpires
<1>24. CASE UNCHANGED vars
    BY <1>24
<1>25. QED
    BY <1>1, <1>2, <1>3, <1>4, <1>5, <1>6, <1>7, <1>8, <1>9, <1>10, <1>11,
            <1>12, <1>13, <1>14, <1>15, <1>16, <1>17, <1>18, <1>19, <1>20,
            <1>21, <1>22, <1>23, <1>24 DEF Next, RequestStep, PostStep

\* No step adds to the month's cost but that of the run that holds the lock.
LEMMA CostStep ==
    ASSUME TypeOK, LockHeld, CostKnown, [Next]_vars
    PROVE  CostKnown'
<1> USE CostAssumption DEF CostKnown, LockHeld, Holding, TypeOK, vars,
        requestVars, redisVars, postVars, clockVars
<1>1. ASSUME NEW r \in Requests, Acquire(r) PROVE CostKnown'
    BY <1>1 DEF Acquire, LockIsFree
<1>2. ASSUME NEW r \in Requests, AcquireRefused(r) PROVE CostKnown'
    BY <1>2 DEF AcquireRefused, LockIsFree
<1>3. ASSUME NEW r \in Requests, AcquireErrs(r) PROVE CostKnown'
    BY <1>3 DEF AcquireErrs, LockIsFree
<1>4. ASSUME NEW r \in Requests, AskUnits(r) PROVE CostKnown'
    BY <1>4 DEF AskUnits
<1>5. ASSUME NEW r \in Requests, ConsumeFreeRequestUnits(r) PROVE CostKnown'
    BY <1>5 DEF ConsumeFreeRequestUnits, BaseRemaining, AtLeastZero, Cost,
            BonusAfter
<1>6. ASSUME NEW r \in Requests, CheckFreeMonthlyCostLimit(r) PROVE CostKnown'
    BY <1>6 DEF CheckFreeMonthlyCostLimit, WithinMonthlyLimit
<1>7. ASSUME NEW r \in Requests, Run(r) PROVE CostKnown'
    BY <1>7 DEF Run
<1>8. ASSUME NEW r \in Requests, FailsEarly(r) PROVE CostKnown'
    BY <1>8 DEF FailsEarly
<1>9. ASSUME NEW r \in Requests, NEW cost \in 0 .. MaxCost,
                      RecordFreeMonthlyCost(r, cost) PROVE CostKnown'
    BY <1>9 DEF RecordFreeMonthlyCost
<1>10. ASSUME NEW r \in Requests, EndUnrecorded(r) PROVE CostKnown'
    BY <1>10 DEF EndUnrecorded
<1>11. ASSUME NEW r \in Requests, Release(r) PROVE CostKnown'
    BY <1>11 DEF Release, Unlocked
<1>12. ASSUME NEW r \in Requests, ReleaseErrs(r) PROVE CostKnown'
    BY <1>12 DEF ReleaseErrs, Unlocked
<1>13. ASSUME NEW r \in Requests, Crash(r) PROVE CostKnown'
    BY <1>13 DEF Crash
<1>14. ASSUME NEW p \in Posts, AttributeReferredSignup(p) PROVE CostKnown'
    BY <1>14 DEF AttributeReferredSignup
<1>15. ASSUME NEW p \in Posts, AttributionBlocked(p) PROVE CostKnown'
    BY <1>15 DEF AttributionBlocked
<1>16. ASSUME NEW p \in Posts, GrantFreeReferralBonusUnits(p) PROVE CostKnown'
    BY <1>16 DEF GrantFreeReferralBonusUnits, Granted
<1>17. ASSUME NEW p \in Posts, GrantErrs(p) PROVE CostKnown'
    BY <1>17 DEF GrantErrs, Granted
<1>18. ASSUME NEW p \in Posts, MarkReferredSignupBonusGranted(p) PROVE
        CostKnown'
    BY <1>18 DEF MarkReferredSignupBonusGranted
<1>19. ASSUME NEW p \in Posts, MarkErrs(p) PROVE CostKnown'
    BY <1>19 DEF MarkErrs
<1>20. CASE LockExpires
    BY <1>20 DEF LockExpires, Outlived, Holding
<1>21. CASE NewDay
    BY <1>21 DEF NewDay
<1>22. CASE NewMonth
    BY <1>22 DEF NewMonth
<1>23. CASE BonusExpires
    BY <1>23 DEF BonusExpires
<1>24. CASE UNCHANGED vars
    BY <1>24
<1>25. QED
    BY <1>1, <1>2, <1>3, <1>4, <1>5, <1>6, <1>7, <1>8, <1>9, <1>10, <1>11,
            <1>12, <1>13, <1>14, <1>15, <1>16, <1>17, <1>18, <1>19, <1>20,
            <1>21, <1>22, <1>23, <1>24 DEF Next, RequestStep, PostStep

\* The key, the row and the calls of the attribution route agree after every
\* step.
LEMMA GrantStep ==
    ASSUME TypeOK, GrantKnown, [Next]_vars
    PROVE  GrantKnown'
<1> USE UnitsAssumption DEF GrantKnown, TypeOK, vars, requestVars, redisVars,
        postVars, clockVars
<1>1. ASSUME NEW r \in Requests, Acquire(r) PROVE GrantKnown'
    BY <1>1 DEF Acquire, LockIsFree
<1>2. ASSUME NEW r \in Requests, AcquireRefused(r) PROVE GrantKnown'
    BY <1>2 DEF AcquireRefused, LockIsFree
<1>3. ASSUME NEW r \in Requests, AcquireErrs(r) PROVE GrantKnown'
    BY <1>3 DEF AcquireErrs, LockIsFree
<1>4. ASSUME NEW r \in Requests, AskUnits(r) PROVE GrantKnown'
    BY <1>4 DEF AskUnits
<1>5. ASSUME NEW r \in Requests, ConsumeFreeRequestUnits(r) PROVE GrantKnown'
    BY <1>5 DEF ConsumeFreeRequestUnits, BaseRemaining, AtLeastZero, Cost,
            BonusAfter
<1>6. ASSUME NEW r \in Requests, CheckFreeMonthlyCostLimit(r) PROVE
        GrantKnown'
    BY <1>6 DEF CheckFreeMonthlyCostLimit, WithinMonthlyLimit
<1>7. ASSUME NEW r \in Requests, Run(r) PROVE GrantKnown'
    BY <1>7 DEF Run
<1>8. ASSUME NEW r \in Requests, FailsEarly(r) PROVE GrantKnown'
    BY <1>8 DEF FailsEarly
<1>9. ASSUME NEW r \in Requests, NEW cost \in 0 .. MaxCost,
                      RecordFreeMonthlyCost(r, cost) PROVE GrantKnown'
    BY <1>9 DEF RecordFreeMonthlyCost
<1>10. ASSUME NEW r \in Requests, EndUnrecorded(r) PROVE GrantKnown'
    BY <1>10 DEF EndUnrecorded
<1>11. ASSUME NEW r \in Requests, Release(r) PROVE GrantKnown'
    BY <1>11 DEF Release, Unlocked
<1>12. ASSUME NEW r \in Requests, ReleaseErrs(r) PROVE GrantKnown'
    BY <1>12 DEF ReleaseErrs, Unlocked
<1>13. ASSUME NEW r \in Requests, Crash(r) PROVE GrantKnown'
    BY <1>13 DEF Crash
<1>14. ASSUME NEW p \in Posts, AttributeReferredSignup(p) PROVE GrantKnown'
    BY <1>14 DEF AttributeReferredSignup
<1>15. ASSUME NEW p \in Posts, AttributionBlocked(p) PROVE GrantKnown'
    BY <1>15 DEF AttributionBlocked
<1>16. ASSUME NEW p \in Posts, GrantFreeReferralBonusUnits(p) PROVE
        GrantKnown'
    BY <1>16 DEF GrantFreeReferralBonusUnits, Granted
<1>17. ASSUME NEW p \in Posts, GrantErrs(p) PROVE GrantKnown'
    BY <1>17 DEF GrantErrs, Granted
<1>18. ASSUME NEW p \in Posts, MarkReferredSignupBonusGranted(p) PROVE
        GrantKnown'
    BY <1>18 DEF MarkReferredSignupBonusGranted
<1>19. ASSUME NEW p \in Posts, MarkErrs(p) PROVE GrantKnown'
    BY <1>19 DEF MarkErrs
<1>20. CASE LockExpires
    BY <1>20 DEF LockExpires, Outlived, Holding
<1>21. CASE NewDay
    BY <1>21 DEF NewDay
<1>22. CASE NewMonth
    BY <1>22 DEF NewMonth
<1>23. CASE BonusExpires
    BY <1>23 DEF BonusExpires
<1>24. CASE UNCHANGED vars
    BY <1>24
<1>25. QED
    BY <1>1, <1>2, <1>3, <1>4, <1>5, <1>6, <1>7, <1>8, <1>9, <1>10, <1>11,
            <1>12, <1>13, <1>14, <1>15, <1>16, <1>17, <1>18, <1>19, <1>20,
            <1>21, <1>22, <1>23, <1>24 DEF Next, RequestStep, PostStep

\* A step takes no units that are not left, and leaves none that were not
\* promised.
LEMMA UnitsStep ==
    ASSUME TypeOK, GrantKnown, UnitsKnown, [Next]_vars
    PROVE  UnitsKnown'
<1> USE UnitsAssumption DEF UnitsKnown, GrantKnown, Pending, BaseRemaining,
        AtLeastZero,
              TypeOK, vars, requestVars, redisVars, postVars, clockVars
<1>1. ASSUME NEW r \in Requests, Acquire(r) PROVE UnitsKnown'
    BY <1>1 DEF Acquire, LockIsFree
<1>2. ASSUME NEW r \in Requests, AcquireRefused(r) PROVE UnitsKnown'
    BY <1>2 DEF AcquireRefused, LockIsFree
<1>3. ASSUME NEW r \in Requests, AcquireErrs(r) PROVE UnitsKnown'
    BY <1>3 DEF AcquireErrs, LockIsFree
<1>4. ASSUME NEW r \in Requests, AskUnits(r) PROVE UnitsKnown'
    BY <1>4 DEF AskUnits
<1>5. ASSUME NEW r \in Requests, ConsumeFreeRequestUnits(r) PROVE UnitsKnown'
    BY <1>5 DEF ConsumeFreeRequestUnits, BaseRemaining, AtLeastZero, Cost,
            BonusAfter
<1>6. ASSUME NEW r \in Requests, CheckFreeMonthlyCostLimit(r) PROVE
        UnitsKnown'
    BY <1>6 DEF CheckFreeMonthlyCostLimit, WithinMonthlyLimit
<1>7. ASSUME NEW r \in Requests, Run(r) PROVE UnitsKnown'
    BY <1>7 DEF Run
<1>8. ASSUME NEW r \in Requests, FailsEarly(r) PROVE UnitsKnown'
    BY <1>8 DEF FailsEarly
<1>9. ASSUME NEW r \in Requests, NEW cost \in 0 .. MaxCost,
                      RecordFreeMonthlyCost(r, cost) PROVE UnitsKnown'
    BY <1>9 DEF RecordFreeMonthlyCost
<1>10. ASSUME NEW r \in Requests, EndUnrecorded(r) PROVE UnitsKnown'
    BY <1>10 DEF EndUnrecorded
<1>11. ASSUME NEW r \in Requests, Release(r) PROVE UnitsKnown'
    BY <1>11 DEF Release, Unlocked
<1>12. ASSUME NEW r \in Requests, ReleaseErrs(r) PROVE UnitsKnown'
    BY <1>12 DEF ReleaseErrs, Unlocked
<1>13. ASSUME NEW r \in Requests, Crash(r) PROVE UnitsKnown'
    BY <1>13 DEF Crash
<1>14. ASSUME NEW p \in Posts, AttributeReferredSignup(p) PROVE UnitsKnown'
    BY <1>14 DEF AttributeReferredSignup
<1>15. ASSUME NEW p \in Posts, AttributionBlocked(p) PROVE UnitsKnown'
    BY <1>15 DEF AttributionBlocked
<1>16. ASSUME NEW p \in Posts, GrantFreeReferralBonusUnits(p) PROVE
        UnitsKnown'
    BY <1>16 DEF GrantFreeReferralBonusUnits, Granted
<1>17. ASSUME NEW p \in Posts, GrantErrs(p) PROVE UnitsKnown'
    BY <1>17 DEF GrantErrs, Granted
<1>18. ASSUME NEW p \in Posts, MarkReferredSignupBonusGranted(p) PROVE
        UnitsKnown'
    BY <1>18 DEF MarkReferredSignupBonusGranted
<1>19. ASSUME NEW p \in Posts, MarkErrs(p) PROVE UnitsKnown'
    BY <1>19 DEF MarkErrs
<1>20. CASE LockExpires
    BY <1>20 DEF LockExpires, Outlived, Holding
<1>21. CASE NewDay
    BY <1>21 DEF NewDay
<1>22. CASE NewMonth
    BY <1>22 DEF NewMonth
<1>23. CASE BonusExpires
    BY <1>23 DEF BonusExpires
<1>24. CASE UNCHANGED vars
    BY <1>24
<1>25. QED
    BY <1>1, <1>2, <1>3, <1>4, <1>5, <1>6, <1>7, <1>8, <1>9, <1>10, <1>11,
            <1>12, <1>13, <1>14, <1>15, <1>16, <1>17, <1>18, <1>19, <1>20,
            <1>21, <1>22, <1>23, <1>24 DEF Next, RequestStep, PostStep

-----------------------------------------------------------------------------

\* The inductive invariant holds in every reachable state.
THEOREM FreeTierCorrect == Spec => []FreeTierInv
<1>1. ASSUME Init PROVE FreeTierInv
  <2> USE <1>1 DEF Init
  <2>1. grantKey \in BOOLEAN
    OBVIOUS
  <2>2. TypeOK
    BY <2>1, UnitsAssumption, BoundsAssumption DEF TypeOK
  <2>3. LockHeld
    BY DEF LockHeld, Holding
  <2>4. CostKnown
    BY CostAssumption DEF CostKnown
  <2>5. GrantKnown
    BY DEF GrantKnown
  <2>6. UnitsKnown
    BY UnitsAssumption DEF UnitsKnown, Pending, BaseRemaining, AtLeastZero
  <2> QED
    BY <2>2, <2>3, <2>4, <2>5, <2>6 DEF FreeTierInv
<1>2. FreeTierInv /\ [Next]_vars => FreeTierInv'
    BY TypeStep, LockStep, CostStep, GrantStep, UnitsStep DEF FreeTierInv
<1>3. QED
    BY <1>1, <1>2, PTL DEF Spec

\* No key, counter or state of a call ever leaves its type: in particular the
\* bonus is never overdrawn.
THEOREM FreeTierTypeCorrect == Spec => []TypeOK
<1>1. FreeTierInv => TypeOK
    BY DEF FreeTierInv
<1>2. QED
    BY <1>1, FreeTierCorrect, PTL

\* No two runs of a free user overlap.
THEOREM OneFreeRunCorrect == Spec => []OneFreeRun
<1>1. FreeTierInv => OneFreeRun
    BY DEF FreeTierInv, LockHeld, OneFreeRun
<1>2. QED
    BY <1>1, FreeTierCorrect, PTL

\* The month's cost passes the limit by less than one run.
THEOREM CostCorrect == Spec => []CostOverrunBounded
<1>1. FreeTierInv => CostOverrunBounded
    BY DEF FreeTierInv, CostKnown, CostOverrunBounded
<1>2. QED
    BY <1>1, FreeTierCorrect, PTL

\* No more units are taken than the days and the referral brought.
THEOREM UnitsCorrect == Spec => []UnitsWithinPromise
<1>1. FreeTierInv => UnitsWithinPromise
    BY UnitsAssumption
    DEF FreeTierInv, TypeOK, UnitsKnown, Pending, BaseRemaining, AtLeastZero,
        UnitsWithinPromise
<1>2. QED
    BY <1>1, FreeTierCorrect, PTL

=============================================================================
