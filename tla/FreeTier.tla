------------------------------ MODULE FreeTier ------------------------------
(***************************************************************************)
(* The limits of a user without a plan: one run at a time, by a lock with  *)
(* a time to live; a number of request units a day, which the bonus of a   *)
(* referral extends; and a monthly cost, which is read before a run and    *)
(* written after it. All of it is in Redis, where a command may fail, or   *)
(* take effect and its reply be lost. The referral is recorded in Convex.  *)
(***************************************************************************)
EXTENDS Integers, FiniteSets

CONSTANTS
    Requests,      \* the requests of one user
    Posts,         \* the calls of /api/referrals/attribution by its tabs
    Free,          \* no request: the lock is not set
    DailyUnits,    \* FREE_RATE_LIMIT_REQUESTS
    BonusUnits,    \* REFERRAL_REFERRED_SIGNUP_BONUS_UNITS
    AgentUnits,    \* FREE_AGENT_REQUEST_COST
    MonthlyLimit,  \* FREE_MONTHLY_COST_LIMIT_USD, in points
    MaxCost,       \* the most that one run costs
    MaxDays,       \* changes of day
    MaxMonths      \* changes of month

ASSUME FreeAssumption == Free \notin Requests
ASSUME UnitsAssumption ==
    /\ DailyUnits \in Nat \ {0}
    /\ BonusUnits \in Nat \ {0}
    /\ AgentUnits \in Nat \ {0}
ASSUME CostAssumption == MonthlyLimit \in Nat \ {0} /\ MaxCost \in Nat
ASSUME BoundsAssumption == MaxDays \in Nat /\ MaxMonths \in Nat

VARIABLES
    pc,           \* how far a request has come
    agent,        \* the request is in agent mode
    units,        \* its call of the daily limit
    budget,       \* its call of the monthly limit
    lock,         \* free_run_lock: the request whose token it holds, or Free
    used,         \* free_limit of the day
    bonus,        \* free_referral_bonus
    spent,        \* free_monthly_cost of the month
    grantKey,     \* free_referral_bonus_grant is set
    attribution,  \* the row of referral_attributions, by its reward status
    post,         \* how far a call of the attribution route has come
    days,         \* changes of day so far
    months,       \* changes of month so far
    taken,        \* history: the units that requests were admitted with
    promised      \* history: the units of all days, and of the bonus

requestVars == <<pc, agent, units, budget>>
redisVars == <<lock, used, bonus, spent, grantKey>>
postVars == <<attribution, post>>
clockVars == <<days, months>>
vars == <<requestVars, redisVars, postVars, clockVars, taken, promised>>

Init ==
    /\ pc = [r \in Requests |-> "idle"]
    /\ agent \in [Requests -> BOOLEAN]
    /\ units = [r \in Requests |-> "none"]
    /\ budget = [r \in Requests |-> "none"]
    /\ lock = Free
    /\ used = 0
    /\ bonus = 0
    /\ spent = 0
    /\ grantKey = FALSE
    /\ attribution = "missing"
    /\ post = [p \in Posts |-> "idle"]
    /\ days = 0
    /\ months = 0
    /\ taken = 0
    /\ promised = DailyUnits

\* From the acquisition of the lock to its release.
Holding(r) == pc[r] \in {"checking", "running", "releasing"}

-----------------------------------------------------------------------------
(* The lock.                                                               *)

LockIsFree == lock = Free

\* acquireFreeRunConcurrencyLock. Then the calls of the first parallel block
\* are made; an agent's units are asked for later.
Acquire(r) ==
    /\ pc[r] = "idle"
    /\ LockIsFree
    /\ lock' = r
    /\ pc' = [pc EXCEPT ![r] = "checking"]
    /\ units' = [units EXCEPT ![r] = IF agent[r] THEN "none" ELSE "asked"]
    /\ budget' = [budget EXCEPT ![r] = "asked"]
    /\ UNCHANGED <<agent, used, bonus, spent, grantKey, postVars, clockVars,
                   taken, promised>>

AcquireRefused(r) ==
    /\ pc[r] = "idle"
    /\ ~LockIsFree
    /\ pc' = [pc EXCEPT ![r] = "over"]
    /\ UNCHANGED <<agent, units, budget, redisVars, postVars, clockVars, taken,
                   promised>>

\* The command throws. The handler does not know that it may hold the lock.
AcquireErrs(r) ==
    /\ pc[r] = "idle"
    /\ pc' = [pc EXCEPT ![r] = "over"]
    /\ lock' \in {lock, IF LockIsFree THEN r ELSE lock}
    /\ UNCHANGED <<agent, units, budget, used, bonus, spent, grantKey, postVars,
                   clockVars, taken, promised>>

\* The script deletes the key if it holds the token of r.
Unlocked(r) == IF lock = r THEN Free ELSE lock

Release(r) ==
    /\ pc[r] = "releasing"
    /\ pc' = [pc EXCEPT ![r] = "over"]
    /\ lock' = Unlocked(r)
    /\ UNCHANGED <<agent, units, budget, used, bonus, spent, grantKey, postVars,
                   clockVars, taken, promised>>

\* The script throws. The handler has forgotten its release function by then.
ReleaseErrs(r) ==
    /\ pc[r] = "releasing"
    /\ pc' = [pc EXCEPT ![r] = "over"]
    /\ lock' \in {lock, Unlocked(r)}
    /\ UNCHANGED <<agent, units, budget, used, bonus, spent, grantKey, postVars,
                   clockVars, taken, promised>>

\* Mutants of Outlived: the lock is set without a time to live, or lives shorter
\* than a run may take.
NeverOutlived == FALSE
AlwaysOutlived == TRUE

\* The platform ends a run after 300 seconds, the lock lives for 900.
Outlived == ~Holding(lock)

LockExpires ==
    /\ lock \in Requests
    /\ Outlived
    /\ lock' = Free
    /\ UNCHANGED <<requestVars, used, bonus, spent, grantKey, postVars,
                   clockVars, taken, promised>>

-----------------------------------------------------------------------------
(* The daily units and the monthly cost.                                   *)

Cost(r) == IF agent[r] THEN AgentUnits ELSE 1

AtLeastZero(n) == IF n > 0 THEN n ELSE 0

\* What the day has left without the bonus.
BaseRemaining == AtLeastZero(DailyUnits - used)

\* checkRateLimit for an agent, after the first block.
AskUnits(r) ==
    /\ pc[r] = "checking"
    /\ agent[r]
    /\ units[r] = "none"
    /\ budget[r] = "ok"
    /\ units' = [units EXCEPT ![r] = "asked"]
    /\ UNCHANGED <<pc, agent, budget, redisVars, postVars, clockVars, taken,
                   promised>>

BonusAfter(n) == bonus - AtLeastZero(n - BaseRemaining)

\* The script of consumeFreeRequestUnits: a request that does not fit takes
\* nothing, one that does counts in full on the day, and takes from the bonus
\* what the day has not left. The call may be on its way when its request has
\* been given up.
ConsumeFreeRequestUnits(r) ==
    /\ units[r] = "asked"
    /\ IF BaseRemaining + bonus < Cost(r)
       THEN /\ units' = [units EXCEPT ![r] = "refused"]
            /\ UNCHANGED <<used, bonus, taken>>
       ELSE /\ units' = [units EXCEPT ![r] = "ok"]
            /\ used' = used + Cost(r)
            /\ bonus' = BonusAfter(Cost(r))
            /\ taken' = taken + Cost(r)
    /\ UNCHANGED <<pc, agent, budget, lock, spent, grantKey, postVars,
                   clockVars, promised>>

\* Mutant of WithinMonthlyLimit: nothing need be left.
UpToMonthlyLimit == spent <= MonthlyLimit

WithinMonthlyLimit == spent < MonthlyLimit

CheckFreeMonthlyCostLimit(r) ==
    /\ budget[r] = "asked"
    /\ budget' = [budget EXCEPT ![r] = IF WithinMonthlyLimit THEN "ok"
                                       ELSE "refused"]
    /\ UNCHANGED <<pc, agent, units, redisVars, postVars, clockVars, taken,
                   promised>>

\* Both limits let the request pass, and the model starts to answer.
Run(r) ==
    /\ pc[r] = "checking"
    /\ units[r] = "ok"
    /\ budget[r] = "ok"
    /\ pc' = [pc EXCEPT ![r] = "running"]
    /\ UNCHANGED <<agent, units, budget, redisVars, postVars, clockVars, taken,
                   promised>>

\* A limit refuses, one of the calls throws, or something else does before the
\* answer starts: the outer catch releases the lock at once, whatever other
\* calls are on their way.
FailsEarly(r) ==
    /\ pc[r] = "checking"
    /\ pc' = [pc EXCEPT ![r] = "releasing"]
    /\ UNCHANGED <<agent, units, budget, redisVars, postVars, clockVars, taken,
                   promised>>

\* deductAccumulatedUsage, at the end of the answer and of its retry: the cost
\* goes to the month that it is by now. The release follows.
RecordFreeMonthlyCost(r, cost) ==
    /\ pc[r] = "running"
    /\ spent' = spent + cost
    /\ pc' = [pc EXCEPT ![r] = "releasing"]
    /\ UNCHANGED <<agent, units, budget, lock, used, bonus, grantKey, postVars,
                   clockVars, taken, promised>>

\* No usage was reported, onFinish or the script threw before, or the answer
\* never started: the lock is released all the same.
EndUnrecorded(r) ==
    /\ pc[r] = "running"
    /\ pc' = [pc EXCEPT ![r] = "releasing"]
    /\ UNCHANGED <<agent, units, budget, redisVars, postVars, clockVars, taken,
                   promised>>

\* The instance is killed: nothing is recorded, nothing released.
Crash(r) ==
    /\ Holding(r)
    /\ pc' = [pc EXCEPT ![r] = "over"]
    /\ UNCHANGED <<agent, units, budget, redisVars, postVars, clockVars, taken,
                   promised>>

\* Midnight: the key of the new day is empty.
NewDay ==
    /\ days < MaxDays
    /\ days' = days + 1
    /\ used' = 0
    /\ promised' = promised + DailyUnits
    /\ UNCHANGED <<requestVars, lock, bonus, spent, grantKey, postVars, months,
                   taken>>

NewMonth ==
    /\ months < MaxMonths
    /\ months' = months + 1
    /\ spent' = 0
    /\ UNCHANGED <<requestVars, lock, used, bonus, grantKey, postVars, days,
                   taken, promised>>

-----------------------------------------------------------------------------
(* The bonus of a user who was referred.                                   *)

\* attributeReferredSignup: the first call inserts the row; any call goes on
\* to the grant while the reward has not been marked.
AttributeReferredSignup(p) ==
    /\ post[p] = "idle"
    /\ attribution' = IF attribution = "missing" THEN "none" ELSE attribution
    /\ promised' = IF attribution = "missing" THEN promised + BonusUnits
                   ELSE promised
    /\ post' = [post EXCEPT ![p] = IF attribution = "awarded" THEN "over"
                                   ELSE "granting"]
    /\ UNCHANGED <<requestVars, redisVars, clockVars, taken>>

\* An invalid code, the user's own, or a user who is not new: nothing is
\* inserted but a line of the reward log.
AttributionBlocked(p) ==
    /\ post[p] = "idle"
    /\ attribution = "missing"
    /\ post' = [post EXCEPT ![p] = "over"]
    /\ UNCHANGED <<requestVars, redisVars, attribution, clockVars, taken,
                   promised>>

\* Mutant of Granted: the grant key is set and not asked.
GrantedAgain ==
    /\ grantKey' = TRUE
    /\ bonus' = bonus + BonusUnits

\* The script of grantFreeReferralBonusUnits.
Granted ==
    /\ grantKey' = TRUE
    /\ bonus' = IF grantKey THEN bonus ELSE bonus + BonusUnits

GrantFreeReferralBonusUnits(p) ==
    /\ post[p] = "granting"
    /\ Granted
    /\ post' = [post EXCEPT ![p] = "marking"]
    /\ UNCHANGED <<requestVars, lock, used, spent, attribution, clockVars,
                   taken, promised>>

\* The script throws; the cookie stays, and another page load tries again.
GrantErrs(p) ==
    /\ post[p] = "granting"
    /\ Granted \/ UNCHANGED <<grantKey, bonus>>
    /\ post' = [post EXCEPT ![p] = "over"]
    /\ UNCHANGED <<requestVars, lock, used, spent, attribution, clockVars,
                   taken, promised>>

MarkReferredSignupBonusGranted(p) ==
    /\ post[p] = "marking"
    /\ attribution' = "awarded"
    /\ post' = [post EXCEPT ![p] = "over"]
    /\ UNCHANGED <<requestVars, redisVars, clockVars, taken, promised>>

MarkErrs(p) ==
    /\ post[p] = "marking"
    /\ attribution' \in {attribution, "awarded"}
    /\ post' = [post EXCEPT ![p] = "over"]
    /\ UNCHANGED <<requestVars, redisVars, clockVars, taken, promised>>

\* Thirty days after the grant, which no call lives to see. Unless the grant
\* was marked, the user may get another one.
BonusExpires ==
    /\ grantKey
    /\ \A p \in Posts : post[p] \in {"idle", "over"}
    /\ grantKey' = FALSE
    /\ bonus' = 0
    /\ promised' = IF attribution = "none" THEN promised + BonusUnits
                   ELSE promised
    /\ UNCHANGED <<requestVars, lock, used, spent, postVars, clockVars, taken>>

-----------------------------------------------------------------------------

RequestStep(r) ==
    \/ Acquire(r) \/ AcquireRefused(r) \/ AcquireErrs(r)
    \/ AskUnits(r) \/ ConsumeFreeRequestUnits(r)
    \/ CheckFreeMonthlyCostLimit(r)
    \/ Run(r) \/ FailsEarly(r)
    \/ \E cost \in 0 .. MaxCost : RecordFreeMonthlyCost(r, cost)
    \/ EndUnrecorded(r)
    \/ Release(r) \/ ReleaseErrs(r)

PostStep(p) ==
    \/ AttributeReferredSignup(p) \/ AttributionBlocked(p)
    \/ GrantFreeReferralBonusUnits(p) \/ GrantErrs(p)
    \/ MarkReferredSignupBonusGranted(p) \/ MarkErrs(p)

Next ==
    \/ \E r \in Requests : RequestStep(r) \/ Crash(r)
    \/ \E p \in Posts : PostStep(p)
    \/ LockExpires \/ NewDay \/ NewMonth \/ BonusExpires

Spec == Init /\ [][Next]_vars

\* What a live instance has started goes on, and Redis drops expired keys.
FairSpec ==
    /\ Spec
    /\ \A r \in Requests : WF_vars(RequestStep(r))
    /\ WF_vars(LockExpires)

-----------------------------------------------------------------------------
(* Properties.                                                             *)

TypeOK ==
    /\ pc \in [Requests -> {"idle", "checking", "running", "releasing", "over"}]
    /\ agent \in [Requests -> BOOLEAN]
    /\ units \in [Requests -> {"none", "asked", "ok", "refused"}]
    /\ budget \in [Requests -> {"none", "asked", "ok", "refused"}]
    /\ lock \in Requests \cup {Free}
    /\ used \in Nat
    /\ bonus \in Nat
    /\ spent \in Nat
    /\ grantKey \in BOOLEAN
    /\ attribution \in {"missing", "none", "awarded"}
    /\ post \in [Posts -> {"idle", "granting", "marking", "over"}]
    /\ days \in 0 .. MaxDays
    /\ months \in 0 .. MaxMonths
    /\ taken \in Nat
    /\ promised \in Nat

\* A user has one free run at a time, although a lock may be lost with its
\* reply, outlive its run, expire, or be released by several catch blocks.
OneFreeRun ==
    \A r, q \in Requests : Holding(r) /\ Holding(q) => r = q

\* The monthly cost is checked before a run and recorded after it; it passes
\* the limit by less than the cost of one run, because the lock is held from
\* before the check until after the record.
CostOverrunBounded == spent < MonthlyLimit + MaxCost

\* Requests are admitted with no more units than the days had and the referral
\* brought, although the day's count runs past its limit into the bonus, calls
\* outlive their requests, and several tabs ask for the bonus and retry.
UnitsWithinPromise == taken <= promised

\* A lock that is set is lifted again, by its run, or by its expiry when the
\* run died or its calls were lost: no user is shut out for good.
LockFreed == lock /= Free ~> lock = Free

=============================================================================
