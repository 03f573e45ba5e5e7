---------------------------- MODULE UsageBilling ----------------------------
(***************************************************************************)
(* The billing life of the chat requests of one paid user, from the        *)
(* rate-limit check to the final settlement.  The requests run             *)
(* concurrently in serverless instances and share two stores that no       *)
(* transaction spans: the Redis bucket (TokenBucket) and the Convex        *)
(* balance (ExtraUsage).  Every `await` on a store is a step of its own.   *)
(*                                                                         *)
(*   checkTokenBucketLimit   config, peek, extra, debit, undo              *)
(*   chat-handler, runner    admitted, streaming, aborted, finish          *)
(*   UsageRefundTracker      failing, aborting                             *)
(*   deductUsage             giveBack, settlePeek, settleBucket,           *)
(*                           settleExtra                                   *)
(***************************************************************************)
EXTENDS TokenBucket, ExtraUsage

CONSTANTS
    Requests,       \* the chat requests
    Estimates,      \* upfront input costs, in points; 0 for a free model
    Costs,          \* final costs of a request that used something
    Caps,           \* the monthly caps the user may set (NoCap: none)
    TopUp,          \* points of one purchase or reward
    MaxTopUps,      \* bound: purchases in a behaviour
    MaxRefills      \* bound: elapsed bucket intervals in a behaviour

ASSUME BillingAssumption ==
    /\ Estimates \subseteq Nat
    /\ Costs \subseteq Nat
    /\ Caps \subseteq Nat \cup {NoCap}
    /\ TopUp \in Nat
    /\ MaxTopUps \in Nat
    /\ MaxRefills \in Nat

VARIABLES
    tokens,         \* the bucket; negative after racing debits
    refills,        \* intervals elapsed so far
    topUps,         \* purchases so far
    pc,             \* where each request stands
    est,            \* estimatedInputCost
    useExtra,       \* the ExtraUsageConfig snapshot allows extra usage
    short,          \* shortfall, charged to the balance
    points,         \* UsageRefundTracker.pointsDeducted
    extra,          \* UsageRefundTracker.extraUsagePointsDeducted
    hasRefunded,    \* UsageRefundTracker.hasRefunded
    usage,          \* UsageTracker.hasUsage
    retried,        \* isRetryWithFallback
    cost,           \* actualCostPoints
    owed,           \* points the pending bucket operation moves
    bucketRefund,   \* refundBucketTokens: "none", "increment" or "cap" next
    extraRefund,    \* refundToBalance still to run
    tookBucket,     \* history: bucket points taken less points returned
    tookExtra,      \* history: balance points taken less points returned
    faulted         \* history: a store call of the request failed

storeVars   == <<tokens, refills, topUps, accountVars>>
trackerVars == <<points, extra, hasRefunded>>
refundVars  == <<owed, bucketRefund, extraRefund>>
checkVars   == <<est, useExtra, short>>
streamVars  == <<usage, retried, cost>>
bookVars    == <<tookBucket, tookExtra, faulted>>
vars == <<storeVars, pc, checkVars, trackerVars, streamVars, refundVars,
          bookVars>>

Checking == {"config", "peek", "extra", "debit", "undo"}
Running  == {"admitted", "streaming", "aborted", "finish"}
Refunding == {"failing", "aborting"}
Settling == {"giveBack", "settlePeek", "settleBucket", "settleExtra"}
Ended    == {"rejected", "failed", "unbilled", "settled", "crashed"}
Labels   == Checking \cup Running \cup Refunding \cup Settling \cup Ended

Init ==
    /\ tokens = MaxTokens
    /\ refills = 0
    /\ topUps = 0
    /\ \E c \in Caps : AccountInit(c)
    /\ pc = [r \in Requests |-> "config"]
    /\ est \in [Requests -> Estimates]
    /\ useExtra = [r \in Requests |-> FALSE]
    /\ short = [r \in Requests |-> 0]
    /\ points = [r \in Requests |-> 0]
    /\ extra = [r \in Requests |-> 0]
    /\ hasRefunded = [r \in Requests |-> FALSE]
    /\ usage = [r \in Requests |-> FALSE]
    /\ retried = [r \in Requests |-> FALSE]
    /\ cost = [r \in Requests |-> 0]
    /\ owed = [r \in Requests |-> 0]
    /\ bucketRefund = [r \in Requests |-> "none"]
    /\ extraRefund = [r \in Requests |-> FALSE]
    /\ tookBucket = [r \in Requests |-> 0]
    /\ tookExtra = [r \in Requests |-> 0]
    /\ faulted = [r \in Requests |-> FALSE]

Goto(r, label) == pc' = [pc EXCEPT ![r] = label]
Fault(r)       == faulted' = [faulted EXCEPT ![r] = TRUE]
TakeBucket(r, n) == tookBucket' = [tookBucket EXCEPT ![r] = @ + n]
TakeExtra(r, n)  == tookExtra' = [tookExtra EXCEPT ![r] = @ + n]

-----------------------------------------------------------------------------
(* checkTokenBucketLimit *)

\* The balance is read once, long before it is spent.  A user with auto-reload
\* on, or whose lookup failed, gets the optimistic configuration.
BuildExtraUsageConfig(r) ==
    /\ pc[r] = "config"
    /\ \E enabled, optimistic \in BOOLEAN :
          useExtra' = [useExtra EXCEPT ![r] =
                          enabled /\ (balance > 0 \/ optimistic)]
    /\ Goto(r, "peek")
    /\ UNCHANGED <<storeVars, est, short, trackerVars, streamVars,
                   refundVars, bookVars>>

\* Step 1 reads the bucket; the shortfall it computes is acted on later.
PeekBucket(r) ==
    LET shortfall == Greater(0, est[r] - Remaining(tokens))
    IN  /\ pc[r] = "peek"
        /\ short' = [short EXCEPT ![r] = shortfall]
        /\ Goto(r, IF shortfall = 0 THEN "debit"
                   ELSE IF useExtra[r] THEN "extra" ELSE "rejected")
        /\ UNCHANGED <<storeVars, est, useExtra, trackerVars, streamVars,
                       refundVars, bookVars>>

PeekErrs(r) ==
    /\ pc[r] = "peek"
    /\ Fault(r)
    /\ Goto(r, "rejected")
    /\ UNCHANGED <<storeVars, checkVars, trackerVars, streamVars, refundVars,
                   tookBucket, tookExtra>>

\* deductFromBalance covers the shortfall ...
DrawShortfall(r) ==
    /\ pc[r] = "extra"
    /\ DeductPoints(short[r])
    /\ TakeExtra(r, short[r])
    /\ Goto(r, "debit")
    /\ UNCHANGED <<tokens, refills, topUps, checkVars, trackerVars,
                   streamVars, refundVars, tookBucket, faulted>>

\* ... or reports insufficient funds, or the monthly cap.
ShortfallRefused(r) ==
    /\ pc[r] = "extra"
    /\ ~CanDeduct(short[r])
    /\ Goto(r, "rejected")
    /\ UNCHANGED <<storeVars, checkVars, trackerVars, streamVars, refundVars,
                   bookVars>>

\* The call throws, before or after the mutation committed: deductFromBalance
\* swallows the error and the request is refused either way.
ShortfallErrs(r) ==
    /\ pc[r] = "extra"
    /\ \/ DeductPoints(short[r]) /\ TakeExtra(r, short[r])
       \/ UNCHANGED <<accountVars, tookExtra>>
    /\ Fault(r)
    /\ Goto(r, "rejected")
    /\ UNCHANGED <<tokens, refills, topUps, checkVars, trackerVars,
                   streamVars, refundVars, tookBucket>>

\* Steps 2-3 debit what the bucket is to contribute; recordDeductions then
\* copies the result into the request's refund tracker.
DebitBucket(r) ==
    LET rate == est[r] - short[r]
    IN  /\ pc[r] = "debit"
        /\ tokens' = AfterDebit(tokens, rate)
        /\ TakeBucket(r, tokens - AfterDebit(tokens, rate))
        /\ IF DebitSucceeds(tokens, rate)
           THEN /\ points' = [points EXCEPT ![r] = rate]
                /\ extra' = [extra EXCEPT ![r] = short[r]]
                /\ Goto(r, "admitted")
           ELSE /\ Goto(r, IF short[r] > 0 THEN "undo" ELSE "rejected")
                /\ UNCHANGED <<points, extra>>
        /\ UNCHANGED <<refills, topUps, accountVars, checkVars, hasRefunded,
                       streamVars, refundVars, tookExtra, faulted>>

\* limit() throws, before or after the script ran: the outer catch of
\* checkTokenBucketLimit refuses the request and returns nothing.
DebitErrs(r) ==
    LET rate == est[r] - short[r]
    IN  /\ pc[r] = "debit"
        /\ \/ /\ tokens' = AfterDebit(tokens, rate)
              /\ TakeBucket(r, tokens - AfterDebit(tokens, rate))
           \/ UNCHANGED <<tokens, tookBucket>>
        /\ Fault(r)
        /\ Goto(r, "rejected")
        /\ UNCHANGED <<refills, topUps, accountVars, checkVars, trackerVars,
                       streamVars, refundVars, tookExtra>>

\* Mutant of UndoExtra: the refusal keeps what the balance paid.
UndoForgotten(r) ==
    /\ pc[r] = "undo"
    /\ Goto(r, "rejected")
    /\ UNCHANGED <<storeVars, checkVars, trackerVars, streamVars, refundVars,
                   bookVars>>

\* The bucket refused after the balance had paid: refundToBalance.  (Here and
\* below, an error whose command did take effect leaves the stores as the
\* successful step does, so the error actions only model the others.)
UndoExtra(r) ==
    /\ pc[r] = "undo"
    /\ RefundPoints(short[r])
    /\ TakeExtra(r, -short[r])
    /\ Goto(r, "rejected")
    /\ UNCHANGED <<tokens, refills, topUps, checkVars, trackerVars,
                   streamVars, refundVars, tookBucket, faulted>>

UndoErrs(r) ==
    /\ pc[r] = "undo"
    /\ Fault(r)
    /\ Goto(r, "rejected")
    /\ UNCHANGED <<storeVars, checkVars, trackerVars, streamVars, refundVars,
                   tookBucket, tookExtra>>

-----------------------------------------------------------------------------
(* The request handler and the stream runner *)

\* Mutant of StartRefund: a second error refunds again.
StartRefundAgain(r, refunding, returned) ==
    /\ owed' = [owed EXCEPT ![r] = points[r]]
    /\ bucketRefund' = [bucketRefund EXCEPT ![r] =
                           IF points[r] > 0 THEN "increment" ELSE "none"]
    /\ extraRefund' = [extraRefund EXCEPT ![r] = extra[r] > 0]
    /\ Goto(r, refunding)

\* UsageRefundTracker.refund: nothing to do once refunded, otherwise both
\* refunds of refundUsage start together.
StartRefund(r, refunding, returned) ==
    IF ~hasRefunded[r] /\ (points[r] > 0 \/ extra[r] > 0)
    THEN /\ owed' = [owed EXCEPT ![r] = points[r]]
         /\ bucketRefund' = [bucketRefund EXCEPT ![r] =
                                IF points[r] > 0 THEN "increment" ELSE "none"]
         /\ extraRefund' = [extraRefund EXCEPT ![r] = extra[r] > 0]
         /\ Goto(r, refunding)
    ELSE UNCHANGED refundVars /\ Goto(r, returned)

\* The outer catch of the handler, and a failed attachment upload.
FailWithRefund(r) ==
    /\ pc[r] = "admitted"
    /\ StartRefund(r, "failing", "failed")
    /\ UNCHANGED <<storeVars, checkVars, trackerVars, streamVars, bookVars>>

\* Any other error of `execute` ends in the onError of createUIMessageStream.
ExecuteThrows(r) ==
    /\ pc[r] = "admitted"
    /\ Goto(r, "failed")
    /\ UNCHANGED <<storeVars, checkVars, trackerVars, streamVars, refundVars,
                   bookVars>>

StartStream(r) ==
    /\ pc[r] = "admitted"
    /\ Goto(r, "streaming")
    /\ UNCHANGED <<storeVars, checkVars, trackerVars, streamVars, refundVars,
                   bookVars>>

\* A step reports its usage, or a tool its cost, also after an abort.
AccumulateStep(r) ==
    /\ pc[r] \in {"streaming", "aborted"}
    /\ ~usage[r]
    /\ usage' = [usage EXCEPT ![r] = TRUE]
    /\ UNCHANGED <<storeVars, pc, checkVars, trackerVars, retried, cost,
                   refundVars, bookVars>>

\* One retry with the fallback model; resetModelLeg forgets the model's usage
\* and keeps what tools and summarization cost.  After a provider error the
\* second leg starts with the abort signal set.
RetryWithFallback(r) ==
    /\ pc[r] \in {"streaming", "aborted"}
    /\ ~retried[r]
    /\ retried' = [retried EXCEPT ![r] = TRUE]
    /\ \E kept \in BOOLEAN : usage' = [usage EXCEPT ![r] = @ /\ kept]
    /\ UNCHANGED <<storeVars, pc, checkVars, trackerVars, cost, refundVars,
                   bookVars>>

\* onError of the runner; a stream may report several errors.
ProviderError(r) ==
    /\ pc[r] \in {"streaming", "aborted"}
    /\ IF usage[r]
       THEN UNCHANGED refundVars /\ Goto(r, "aborted")
       ELSE StartRefund(r, "aborting", "aborted")
    /\ UNCHANGED <<storeVars, checkVars, trackerVars, streamVars, bookVars>>

\* Mutant of StreamEnds: a provider error does not abort the stream.
StreamEndsUnlessError(r) ==
    /\ pc[r] = "streaming"
    /\ Goto(r, "finish")
    /\ UNCHANGED <<storeVars, checkVars, trackerVars, streamVars, refundVars,
                   bookVars>>

\* The stream completes, is stopped by the user, times out or was aborted.
StreamEnds(r) ==
    /\ pc[r] \in {"streaming", "aborted"}
    /\ Goto(r, "finish")
    /\ UNCHANGED <<storeVars, checkVars, trackerVars, streamVars, refundVars,
                   bookVars>>

\* The instance is killed: its platform limit, a deployment.
Crash(r) ==
    /\ pc[r] \notin Ended
    /\ Goto(r, "crashed")
    /\ bucketRefund' = [bucketRefund EXCEPT ![r] = "none"]
    /\ extraRefund' = [extraRefund EXCEPT ![r] = FALSE]
    /\ Fault(r)
    /\ UNCHANGED <<storeVars, checkVars, trackerVars, streamVars, owed,
                   tookBucket, tookExtra>>

-----------------------------------------------------------------------------
(* refundUsage *)

RefundIncrement(r) ==
    /\ bucketRefund[r] = "increment"
    /\ tokens' = AfterIncrement(tokens, owed[r])
    /\ TakeBucket(r, -owed[r])
    /\ bucketRefund' = [bucketRefund EXCEPT ![r] =
                           IF NeedsCap(tokens') THEN "cap" ELSE "none"]
    /\ UNCHANGED <<refills, topUps, accountVars, pc, checkVars, trackerVars,
                   streamVars, owed, extraRefund, tookExtra, faulted>>

\* The cap is decided on the value HINCRBY returned, and written later.
RefundCap(r) ==
    /\ bucketRefund[r] = "cap"
    /\ tokens' = AfterCap
    /\ bucketRefund' = [bucketRefund EXCEPT ![r] = "none"]
    /\ UNCHANGED <<refills, topUps, accountVars, pc, checkVars, trackerVars,
                   streamVars, owed, extraRefund, bookVars>>

\* refundBucketTokens swallows the error of either command.
RefundBucketErrs(r) ==
    /\ bucketRefund[r] # "none"
    /\ bucketRefund' = [bucketRefund EXCEPT ![r] = "none"]
    /\ Fault(r)
    /\ UNCHANGED <<storeVars, pc, checkVars, trackerVars, streamVars, owed,
                   extraRefund, tookBucket, tookExtra>>

RefundExtra(r) ==
    /\ extraRefund[r]
    /\ RefundPoints(extra[r])
    /\ TakeExtra(r, -extra[r])
    /\ extraRefund' = [extraRefund EXCEPT ![r] = FALSE]
    /\ UNCHANGED <<tokens, refills, topUps, pc, checkVars, trackerVars,
                   streamVars, owed, bucketRefund, tookBucket, faulted>>

\* refundToBalance reports the failure in a result nobody reads.
RefundExtraErrs(r) ==
    /\ extraRefund[r]
    /\ extraRefund' = [extraRefund EXCEPT ![r] = FALSE]
    /\ Fault(r)
    /\ UNCHANGED <<storeVars, pc, checkVars, trackerVars, streamVars, owed,
                   bucketRefund, tookBucket, tookExtra>>

\* refundUsage never throws, so the flag is set whatever happened.
RefundReturns(r) ==
    /\ pc[r] \in Refunding
    /\ bucketRefund[r] = "none"
    /\ ~extraRefund[r]
    /\ hasRefunded' = [hasRefunded EXCEPT ![r] = TRUE]
    /\ Goto(r, IF pc[r] = "failing" THEN "failed" ELSE "aborted")
    /\ UNCHANGED <<storeVars, checkVars, points, extra, streamVars,
                   refundVars, bookVars>>

-----------------------------------------------------------------------------
(* deductAccumulatedUsage and deductUsage *)

\* Saving the chat comes first in onFinish; when it throws, or when nothing
\* was used, the request is never settled.
EndUnbilled(r) ==
    /\ pc[r] = "finish"
    /\ Goto(r, "unbilled")
    /\ \/ Fault(r)
       \/ ~usage[r] /\ UNCHANGED faulted
    /\ UNCHANGED <<storeVars, checkVars, trackerVars, streamVars, refundVars,
                   tookBucket, tookExtra>>

\* The sandbox session's cost alone makes a request billable.  The difference
\* is taken against the full estimate.
DeductAccumulatedUsage(r) ==
    /\ pc[r] = "finish"
    /\ \E actual \in Costs, sandboxUsed \in BOOLEAN :
          /\ usage[r] \/ sandboxUsed
          /\ cost' = [cost EXCEPT ![r] = actual]
          /\ IF actual < est[r]
             THEN /\ owed' = [owed EXCEPT ![r] = est[r] - actual]
                  /\ bucketRefund' = [bucketRefund EXCEPT ![r] = "increment"]
                  /\ Goto(r, "giveBack")
             ELSE /\ UNCHANGED <<owed, bucketRefund>>
                  /\ Goto(r, IF actual = est[r] THEN "settled"
                             ELSE "settlePeek")
    /\ UNCHANGED <<storeVars, checkVars, trackerVars, usage, retried,
                   extraRefund, bookVars>>

GiveBackReturns(r) ==
    /\ pc[r] = "giveBack"
    /\ bucketRefund[r] = "none"
    /\ Goto(r, "settled")
    /\ UNCHANGED <<storeVars, checkVars, trackerVars, streamVars, refundVars,
                   bookVars>>

\* Mutant of Overflow: the estimate, already paid, is charged again.
OverflowOfTotal(r, fromBucket) == cost[r] - fromBucket

Overflow(r, fromBucket) == cost[r] - est[r] - fromBucket

AfterBucket(r, fromBucket) ==
    IF Overflow(r, fromBucket) > 0 /\ useExtra[r] THEN "settleExtra"
    ELSE "settled"

SettlePeek(r) ==
    LET fromBucket == Lesser(cost[r] - est[r], Remaining(tokens))
    IN  /\ pc[r] = "settlePeek"
        /\ owed' = [owed EXCEPT ![r] = fromBucket]
        /\ Goto(r, IF fromBucket > 0 THEN "settleBucket"
                   ELSE AfterBucket(r, fromBucket))
        /\ UNCHANGED <<storeVars, checkVars, trackerVars, streamVars,
                       bucketRefund, extraRefund, bookVars>>

\* The result of this limit() call is not looked at.
SettleBucket(r) ==
    /\ pc[r] = "settleBucket"
    /\ tokens' = AfterDebit(tokens, owed[r])
    /\ TakeBucket(r, tokens - AfterDebit(tokens, owed[r]))
    /\ Goto(r, AfterBucket(r, owed[r]))
    /\ UNCHANGED <<refills, topUps, accountVars, checkVars, trackerVars,
                   streamVars, refundVars, tookExtra, faulted>>

SettleExtra(r) ==
    LET overflow == Overflow(r, owed[r])
    IN  /\ pc[r] = "settleExtra"
        /\ \/ DeductPoints(overflow) /\ TakeExtra(r, overflow)
           \/ ~CanDeduct(overflow) /\ UNCHANGED <<accountVars, tookExtra>>
        /\ Goto(r, "settled")
        /\ UNCHANGED <<tokens, refills, topUps, checkVars, trackerVars,
                       streamVars, refundVars, tookBucket, faulted>>

\* A store call of deductUsage fails: the catch logs and gives up.
SettleErrs(r) ==
    /\ pc[r] \in {"settlePeek", "settleBucket", "settleExtra"}
    /\ Fault(r)
    /\ Goto(r, "settled")
    /\ UNCHANGED <<storeVars, checkVars, trackerVars, streamVars, refundVars,
                   tookBucket, tookExtra>>

-----------------------------------------------------------------------------
(* The user, the clocks, and the whole system *)

Refill ==
    /\ refills < MaxRefills
    /\ refills' = refills + 1
    /\ tokens' = AfterRefill(tokens)
    /\ UNCHANGED <<topUps, accountVars, pc, checkVars, trackerVars,
                   streamVars, refundVars, bookVars>>

Purchase ==
    /\ topUps < MaxTopUps
    /\ topUps' = topUps + 1
    /\ AddPoints(TopUp)
    /\ UNCHANGED <<tokens, refills, pc, checkVars, trackerVars, streamVars,
                   refundVars, bookVars>>

ChangeCap ==
    /\ \E c \in Caps \ {cap} : SetMonthlyCap(c)
    /\ UNCHANGED <<tokens, refills, topUps, pc, checkVars, trackerVars,
                   streamVars, refundVars, bookVars>>

MonthPasses ==
    /\ NextMonth
    /\ UNCHANGED <<tokens, refills, topUps, pc, checkVars, trackerVars,
                   streamVars, refundVars, bookVars>>

Environment == Refill \/ Purchase \/ ChangeCap \/ MonthPasses

CheckStep(r) ==
    \/ BuildExtraUsageConfig(r) \/ PeekBucket(r) \/ PeekErrs(r)
    \/ DrawShortfall(r) \/ ShortfallRefused(r) \/ ShortfallErrs(r)
    \/ DebitBucket(r) \/ DebitErrs(r) \/ UndoExtra(r) \/ UndoErrs(r)

StreamStep(r) ==
    \/ FailWithRefund(r) \/ ExecuteThrows(r) \/ StartStream(r)
    \/ AccumulateStep(r) \/ RetryWithFallback(r) \/ ProviderError(r)
    \/ StreamEnds(r)

RefundStep(r) ==
    \/ RefundIncrement(r) \/ RefundCap(r) \/ RefundBucketErrs(r)
    \/ RefundExtra(r) \/ RefundExtraErrs(r) \/ RefundReturns(r)

SettleStep(r) ==
    \/ EndUnbilled(r) \/ DeductAccumulatedUsage(r) \/ GiveBackReturns(r)
    \/ SettlePeek(r) \/ SettleBucket(r) \/ SettleExtra(r) \/ SettleErrs(r)

RequestStep(r) ==
    CheckStep(r) \/ StreamStep(r) \/ RefundStep(r) \/ SettleStep(r)

\* Every request is over: nothing more need happen.
AllEnded ==
    /\ \A r \in Requests : pc[r] \in Ended
    /\ UNCHANGED vars

Next ==
    \/ \E r \in Requests : RequestStep(r) \/ Crash(r)
    \/ Environment
    \/ AllEnded

Spec == Init /\ [][Next]_vars

\* Every continuation of a live instance runs: the event loop is fair and each
\* store call returns or throws.  Crashes and the environment owe nothing.
FairSpec ==
    Spec /\ \A r \in Requests :
              /\ WF_vars(CheckStep(r)) /\ WF_vars(RefundStep(r))
              /\ WF_vars(SettleStep(r))
              /\ WF_vars(StartStream(r)) /\ WF_vars(StreamEnds(r))

-----------------------------------------------------------------------------
(* Properties *)

TypeOK ==
    /\ tokens \in Int
    /\ refills \in 0..MaxRefills
    /\ topUps \in 0..MaxTopUps
    /\ AccountTypeOK
    /\ pc \in [Requests -> Labels]
    /\ est \in [Requests -> Estimates]
    /\ useExtra \in [Requests -> BOOLEAN]
    /\ short \in [Requests -> Nat]
    /\ points \in [Requests -> Nat]
    /\ extra \in [Requests -> Nat]
    /\ hasRefunded \in [Requests -> BOOLEAN]
    /\ usage \in [Requests -> BOOLEAN]
    /\ retried \in [Requests -> BOOLEAN]
    /\ cost \in [Requests -> Nat]
    /\ owed \in [Requests -> Nat]
    /\ bucketRefund \in [Requests -> {"none", "increment", "cap"}]
    /\ extraRefund \in [Requests -> BOOLEAN]
    /\ tookBucket \in [Requests -> Int]
    /\ tookExtra \in [Requests -> Int]
    /\ faulted \in [Requests -> BOOLEAN]

\* What a request has cost its user so far, over both stores.
Taken(r) == tookBucket[r] + tookExtra[r]

\* While an admitted request runs and nothing was refunded, the stores have
\* given up exactly its estimate, split exactly as its refund tracker recorded
\* (recordDeductions), whatever other requests did between the awaits.
TrackerMatchesStores ==
    \A r \in Requests :
        pc[r] \in Running /\ ~hasRefunded[r] =>
            /\ tookBucket[r] = points[r]
            /\ tookExtra[r] = extra[r]
            /\ points[r] + extra[r] = est[r]

\* A request refused by the rate limiter keeps nothing of the prepaid balance
\* unless one of its own store calls failed (checkTokenBucketLimit refunds the
\* shortfall when the bucket debit fails).
RefusalReturnsExtra ==
    \A r \in Requests :
        pc[r] = "rejected" /\ ~faulted[r] => tookExtra[r] = 0

\* A refund gives back exactly what was taken, once, however many handlers and
\* errors ask for it (UsageRefundTracker): until the request is settled, it
\* then costs nothing.
RefundIsExact ==
    \A r \in Requests :
        /\ hasRefunded[r] /\ ~faulted[r]
        /\ pc[r] \in {"aborted", "finish", "failed", "unbilled"}
        => tookBucket[r] = 0 /\ tookExtra[r] = 0

\* A settled request that was not refunded has cost its user its actual cost
\* when that was within the estimate, and otherwise between the two: never
\* more than it used (deductUsage).
SettledFairly ==
    \A r \in Requests :
        pc[r] = "settled" /\ ~hasRefunded[r] /\ ~faulted[r] =>
            /\ Taken(r) <= cost[r]
            /\ Taken(r) >= Lesser(cost[r], est[r])

\* The bucket holds more than its capacity only between the two commands of a
\* refund (refundBucketTokens), or after one of them was lost.
OverfullOnlyWhileCapping ==
    tokens > MaxTokens =>
        \E r \in Requests : bucketRefund[r] = "cap" \/ faulted[r]

\* Every request that reached the rate limiter is refused, refunded, settled
\* or abandoned in the end; none waits on a store for ever.
RequestsEnd == \A r \in Requests : <>(pc[r] \in Ended)

=============================================================================
