------------------------- MODULE UsageBillingProofs -------------------------
(***************************************************************************)
(* Proofs about UsageBilling, for any set of requests, any estimates,      *)
(* costs, balances and caps.                                               *)
(*                                                                         *)
(* The safety properties speak of what a request has taken at the points   *)
(* where it stops for good or may be refunded.  They are not inductive:    *)
(* BillingInv says, for every program point, how much of the estimate each *)
(* store has given up, and which refund commands are still outstanding.    *)
(***************************************************************************)
EXTENDS UsageBilling, TLAPS

Quiet(r) == bucketRefund[r] = "none" /\ ~extraRefund[r]

\* checkTokenBucketLimit: the balance has paid the shortfall from the draw to
\* the undo, the bucket nothing before its debit.
CheckingInv(r) ==
    pc[r] \in Checking =>
        /\ Quiet(r)
        /\ ~hasRefunded[r] /\ ~faulted[r]
        /\ tookExtra[r] = IF pc[r] \in {"debit", "undo"} THEN short[r] ELSE 0
        /\ pc[r] # "undo" => tookBucket[r] = 0

\* Admitted and not refunded: the stores hold the estimate.
RunningInv(r) ==
    pc[r] \in Running =>
        /\ Quiet(r)
        /\ ~hasRefunded[r] => /\ tookBucket[r] = points[r]
                              /\ tookExtra[r] = extra[r]
                              /\ points[r] + extra[r] = est[r]

\* refundUsage: each store still holds its part while its command is pending.
RefundingInv(r) ==
    pc[r] \in Refunding =>
        /\ ~hasRefunded[r]
        /\ owed[r] = points[r]
        /\ ~faulted[r] =>
             /\ tookBucket[r] =
                  IF bucketRefund[r] = "increment" THEN points[r] ELSE 0
             /\ tookExtra[r] = IF extraRefund[r] THEN extra[r] ELSE 0

RefundedInv(r) ==
    /\ pc[r] \in Running \cup {"failed", "unbilled"}
    /\ hasRefunded[r] /\ ~faulted[r]
    => tookBucket[r] = 0 /\ tookExtra[r] = 0

\* deductUsage of a request that was not refunded.
SettlingInv(r) ==
    ~hasRefunded[r] /\ ~faulted[r] =>
        /\ pc[r] = "giveBack" =>
             /\ owed[r] = est[r] - cost[r]
             /\ Taken(r) =
                  IF bucketRefund[r] = "increment" THEN est[r] ELSE cost[r]
        /\ pc[r] = "settlePeek" => Taken(r) = est[r]
        /\ pc[r] = "settleBucket" => Taken(r) = est[r]
        /\ pc[r] = "settleExtra" =>
             est[r] <= Taken(r) /\ Taken(r) <= est[r] + owed[r]

\* Refund commands are outstanding only while their caller waits for them.
OutstandingInv(r) ==
    /\ pc[r] \notin Refunding => ~extraRefund[r]
    /\ pc[r] \notin Refunding \cup {"giveBack"} => bucketRefund[r] = "none"

EndedInv(r) ==
    /\ pc[r] = "rejected" /\ ~faulted[r] => tookExtra[r] = 0
    /\ pc[r] = "settled" /\ ~hasRefunded[r] /\ ~faulted[r] =>
         Taken(r) <= cost[r] /\ Taken(r) >= Lesser(cost[r], est[r])

\* The amounts the pending calls move are not negative, which the code never
\* checks: the shortfall is a part of the estimate, the charge on the bucket a
\* part of what is still due.
AmountsInv(r) ==
    /\ pc[r] \in Checking => short[r] <= est[r]
    /\ pc[r] \in {"settlePeek", "settleBucket", "settleExtra"} =>
         cost[r] > est[r]
    /\ pc[r] \in {"settleBucket", "settleExtra"} =>
         owed[r] <= cost[r] - est[r]

TypeInv == TypeOK /\ \A r \in Requests : AmountsInv(r)

RequestInv(r) ==
    /\ CheckingInv(r) /\ RunningInv(r) /\ RefundingInv(r) /\ RefundedInv(r)
    /\ SettlingInv(r) /\ OutstandingInv(r) /\ EndedInv(r)

BillingInv == \A r \in Requests : RequestInv(r)

-----------------------------------------------------------------------------
(* Type correctness *)

LEMMA AccountSteps ==
    ASSUME AccountTypeOK
    PROVE  /\ \A n \in Nat : DeductPoints(n) => AccountTypeOK'
           /\ \A n \in Nat : RefundPoints(n) => AccountTypeOK'
           /\ \A n \in Nat : AddPoints(n) => AccountTypeOK'
           /\ \A c \in Nat \cup {NoCap} : SetMonthlyCap(c) => AccountTypeOK'
           /\ NextMonth => AccountTypeOK'
           /\ UNCHANGED accountVars => AccountTypeOK'
  BY ExtraUsageAssumption
     DEF AccountTypeOK, DeductPoints, CanDeduct, WithinCap, SpentThisMonth,
         RefundPoints, AddPoints, SetMonthlyCap, NextMonth, accountVars

LEMMA BucketSteps ==
    ASSUME tokens \in Int, NEW n \in Int
    PROVE  /\ AfterDebit(tokens, n) \in Int
           /\ tokens - AfterDebit(tokens, n) \in Int
           /\ AfterIncrement(tokens, n) \in Int
           /\ AfterRefill(tokens) \in Int
           /\ AfterCap \in Int
           /\ Remaining(tokens) \in Nat
  BY MaxTokensAssumption
     DEF AfterDebit, DebitWrites, AfterIncrement, AfterRefill, AfterCap,
         Remaining, Lesser, Greater

LEMMA TypeInit == Init => TypeOK
  BY MaxTokensAssumption, ExtraUsageAssumption, BillingAssumption
     DEF Init, TypeOK, AccountInit, AccountTypeOK, Labels, Checking

LEMMA CheckKeepsType ==
    ASSUME TypeOK, NEW r \in Requests, AmountsInv(r), CheckStep(r)
    PROVE  TypeOK'
<1>1. est[r] \in Nat /\ short[r] \in Nat
  BY BillingAssumption DEF TypeOK
<1>2. AccountTypeOK /\ tokens \in Int
  BY DEF TypeOK
<1>3. tookBucket[r] \in Int /\ tookExtra[r] \in Int
  BY DEF TypeOK
<1> USE DEF TypeOK, Goto, Fault, TakeBucket, TakeExtra, storeVars,
            trackerVars, streamVars, refundVars, bookVars, checkVars,
            Labels, Checking, Running, Ended
<1>a. CASE BuildExtraUsageConfig(r)
  BY <1>a, <1>2, AccountSteps DEF BuildExtraUsageConfig
<1>b. CASE PeekBucket(r)
  <2>1. Greater(0, est[r] - Remaining(tokens)) \in Nat
    BY <1>1, <1>2, BucketSteps DEF Greater
  <2> QED
    BY <1>b, <1>2, <2>1, AccountSteps DEF PeekBucket
<1>c. CASE PeekErrs(r)
  BY <1>c, <1>2, AccountSteps DEF PeekErrs
<1>d. CASE DrawShortfall(r)
  BY <1>d, <1>1, <1>2, <1>3, AccountSteps DEF DrawShortfall
<1>e. CASE ShortfallRefused(r)
  BY <1>e, <1>2, AccountSteps DEF ShortfallRefused
<1>f. CASE ShortfallErrs(r)
  BY <1>f, <1>1, <1>2, <1>3, AccountSteps DEF ShortfallErrs, accountVars
<1>g. CASE DebitBucket(r)
  <2>1. /\ AfterDebit(tokens, est[r] - short[r]) \in Int
        /\ tokens - AfterDebit(tokens, est[r] - short[r]) \in Int
    BY <1>1, <1>2, BucketSteps
  <2>2. est[r] - short[r] \in Nat
    BY <1>1, <1>g DEF AmountsInv, DebitBucket
  <2> QED
    BY <1>g, <1>1, <1>2, <1>3, <2>1, <2>2, AccountSteps DEF DebitBucket
<1>h. CASE DebitErrs(r)
  <2>1. /\ AfterDebit(tokens, est[r] - short[r]) \in Int
        /\ tokens - AfterDebit(tokens, est[r] - short[r]) \in Int
    BY <1>1, <1>2, BucketSteps
  <2> QED
    BY <1>h, <1>2, <1>3, <2>1, AccountSteps DEF DebitErrs
<1>i. CASE UndoExtra(r)
  BY <1>i, <1>1, <1>2, <1>3, AccountSteps DEF UndoExtra
<1>j. CASE UndoErrs(r)
  BY <1>j, <1>2, AccountSteps DEF UndoErrs
<1> QED
  BY <1>a, <1>b, <1>c, <1>d, <1>e, <1>f, <1>g, <1>h, <1>i, <1>j
     DEF CheckStep

LEMMA StartRefundType ==
    ASSUME TypeOK, NEW r \in Requests,
           NEW refunding \in Labels, NEW returned \in Labels,
           StartRefund(r, refunding, returned)
    PROVE  /\ pc' \in [Requests -> Labels]
           /\ owed' \in [Requests -> Nat]
           /\ bucketRefund' \in [Requests -> {"none", "increment", "cap"}]
           /\ extraRefund' \in [Requests -> BOOLEAN]
<1>1. (extra[r] > 0) \in BOOLEAN
  OBVIOUS
<1>2. CASE ~hasRefunded[r] /\ (points[r] > 0 \/ extra[r] > 0)
  <2>1. extraRefund' \in [Requests -> BOOLEAN]
    BY <1>1, <1>2, Zenon DEF StartRefund, TypeOK
  <2> QED
    BY <1>2, <2>1 DEF StartRefund, TypeOK, Goto
<1>3. CASE ~(~hasRefunded[r] /\ (points[r] > 0 \/ extra[r] > 0))
  BY <1>3 DEF StartRefund, TypeOK, Goto, refundVars
<1> QED
  BY <1>2, <1>3

LEMMA StreamKeepsType ==
    ASSUME TypeOK, NEW r \in Requests, StreamStep(r) \/ Crash(r)
    PROVE  TypeOK'
<1>1. AccountTypeOK /\ points[r] \in Nat
  BY DEF TypeOK
<1> USE <1>1, AccountSteps
    DEF TypeOK, Goto, Fault, storeVars, trackerVars, streamVars,
        refundVars, bookVars, checkVars, Labels, Running, Refunding, Ended
<1>a. CASE FailWithRefund(r)
  BY <1>a, StartRefundType DEF FailWithRefund
<1>b. CASE ExecuteThrows(r)
  BY <1>b DEF ExecuteThrows
<1>c. CASE StartStream(r)
  BY <1>c DEF StartStream
<1>d. CASE AccumulateStep(r)
  BY <1>d DEF AccumulateStep
<1>e. CASE RetryWithFallback(r)
  BY <1>e DEF RetryWithFallback
<1>f. CASE ProviderError(r)
  BY <1>f, StartRefundType DEF ProviderError
<1>g. CASE StreamEnds(r)
  BY <1>g DEF StreamEnds
<1>h. CASE Crash(r)
  BY <1>h DEF Crash
<1> QED
  BY <1>a, <1>b, <1>c, <1>d, <1>e, <1>f, <1>g, <1>h DEF StreamStep

LEMMA RefundKeepsType ==
    ASSUME TypeOK, NEW r \in Requests, RefundStep(r)
    PROVE  TypeOK'
<1>1. /\ AccountTypeOK /\ tokens \in Int
      /\ points[r] \in Nat /\ extra[r] \in Nat /\ owed[r] \in Nat
      /\ tookBucket[r] \in Int /\ tookExtra[r] \in Int
  BY DEF TypeOK
<1> USE <1>1, AccountSteps
    DEF TypeOK, Goto, Fault, TakeBucket, TakeExtra, storeVars, trackerVars,
        streamVars, refundVars, bookVars, checkVars, Labels, Running, Ended
<1>a. CASE RefundIncrement(r)
  BY <1>a DEF RefundIncrement, AfterIncrement
<1>b. CASE RefundCap(r)
  BY <1>b, BucketSteps DEF RefundCap
<1>c. CASE RefundBucketErrs(r)
  BY <1>c DEF RefundBucketErrs
<1>d. CASE RefundExtra(r)
  BY <1>d DEF RefundExtra
<1>e. CASE RefundExtraErrs(r)
  BY <1>e DEF RefundExtraErrs
<1>f. CASE RefundReturns(r)
  BY <1>f DEF RefundReturns
<1> QED
  BY <1>a, <1>b, <1>c, <1>d, <1>e, <1>f DEF RefundStep

LEMMA SettleKeepsType ==
    ASSUME TypeOK, NEW r \in Requests, AmountsInv(r), SettleStep(r)
    PROVE  TypeOK'
<1>1. /\ AccountTypeOK /\ tokens \in Int
      /\ est[r] \in Nat /\ owed[r] \in Nat /\ cost[r] \in Nat
      /\ tookBucket[r] \in Int /\ tookExtra[r] \in Int
      /\ Costs \subseteq Nat
  BY BillingAssumption DEF TypeOK
<1> USE <1>1, AccountSteps
    DEF TypeOK, Goto, Fault, TakeBucket, TakeExtra, storeVars, trackerVars,
        streamVars, refundVars, bookVars, checkVars, Labels, Running,
        Settling, Ended, AfterBucket
<1>a. CASE EndUnbilled(r)
  BY <1>a DEF EndUnbilled
<1>b. CASE DeductAccumulatedUsage(r)
  BY <1>b DEF DeductAccumulatedUsage
<1>c. CASE GiveBackReturns(r)
  BY <1>c DEF GiveBackReturns
<1>d. CASE SettlePeek(r)
  <2>1. Lesser(cost[r] - est[r], Remaining(tokens)) \in Nat
    BY <1>d, BucketSteps DEF SettlePeek, AmountsInv, Lesser
  <2> QED
    BY <1>d, <2>1 DEF SettlePeek
<1>e. CASE SettleBucket(r)
  BY <1>e, BucketSteps DEF SettleBucket
<1>f. CASE SettleExtra(r)
  <2>1. Overflow(r, owed[r]) \in Nat
    BY <1>f DEF SettleExtra, AmountsInv, Overflow
  <2> QED
    BY <1>f, <2>1 DEF SettleExtra
<1>g. CASE SettleErrs(r)
  BY <1>g DEF SettleErrs
<1> QED
  BY <1>a, <1>b, <1>c, <1>d, <1>e, <1>f, <1>g DEF SettleStep

LEMMA EnvironmentKeepsType ==
    ASSUME TypeOK, Environment
    PROVE  TypeOK'
<1>1. AccountTypeOK /\ tokens \in Int /\ TopUp \in Nat
  BY BillingAssumption DEF TypeOK
<1> USE <1>1, AccountSteps
    DEF TypeOK, storeVars, trackerVars, streamVars, refundVars, bookVars,
        checkVars
<1>a. CASE Refill
  BY <1>a, BillingAssumption, BucketSteps DEF Refill
<1>b. CASE Purchase
  BY <1>b, BillingAssumption DEF Purchase
<1>c. CASE ChangeCap
  BY <1>c, BillingAssumption DEF ChangeCap
<1>d. CASE MonthPasses
  BY <1>d DEF MonthPasses
<1> QED
  BY <1>a, <1>b, <1>c, <1>d DEF Environment

\* What a step of one request leaves alone: everything about the others.
Same(q) ==
    /\ pc'[q] = pc[q] /\ est'[q] = est[q] /\ short'[q] = short[q]
    /\ points'[q] = points[q] /\ extra'[q] = extra[q]
    /\ hasRefunded'[q] = hasRefunded[q]
    /\ cost'[q] = cost[q] /\ owed'[q] = owed[q]
    /\ bucketRefund'[q] = bucketRefund[q]
    /\ extraRefund'[q] = extraRefund[q]
    /\ tookBucket'[q] = tookBucket[q] /\ tookExtra'[q] = tookExtra[q]
    /\ faulted'[q] = faulted[q]

LEMMA SameKeepsInv ==
    ASSUME NEW q \in Requests, Same(q)
    PROVE  /\ AmountsInv(q) => AmountsInv(q)'
           /\ RequestInv(q) => RequestInv(q)'
  BY DEF Same, AmountsInv, RequestInv, CheckingInv, RunningInv, RefundingInv,
         RefundedInv, SettlingInv, OutstandingInv, EndedInv, Quiet, Taken

LEMMA OthersUnchanged ==
    ASSUME TypeOK, NEW r \in Requests, RequestStep(r) \/ Crash(r),
           NEW q \in Requests, q # r
    PROVE  Same(q)
<1> USE DEF TypeOK, Same, Goto, Fault, TakeBucket, TakeExtra, StartRefund,
            checkVars, trackerVars, streamVars, refundVars, bookVars
<1>1. CASE CheckStep(r)
  BY <1>1
     DEF CheckStep, BuildExtraUsageConfig, PeekBucket, PeekErrs,
         DrawShortfall, ShortfallRefused, ShortfallErrs, DebitBucket,
         DebitErrs, UndoExtra, UndoErrs
<1>2. CASE StreamStep(r) \/ Crash(r)
  BY <1>2
     DEF StreamStep, FailWithRefund, ExecuteThrows, StartStream,
         AccumulateStep, RetryWithFallback, ProviderError, StreamEnds, Crash
<1>3. CASE RefundStep(r)
  BY <1>3
     DEF RefundStep, RefundIncrement, RefundCap, RefundBucketErrs,
         RefundExtra, RefundExtraErrs, RefundReturns
<1>4. CASE SettleStep(r)
  BY <1>4
     DEF SettleStep, EndUnbilled, DeductAccumulatedUsage, GiveBackReturns,
         SettlePeek, SettleBucket, SettleExtra, SettleErrs
<1> QED
  BY <1>1, <1>2, <1>3, <1>4 DEF RequestStep

LEMMA EnvironmentSame ==
    ASSUME Environment \/ UNCHANGED vars, NEW q \in Requests
    PROVE  Same(q)
  BY DEF Environment, Refill, Purchase, ChangeCap, MonthPasses, Same, vars,
         checkVars, trackerVars, streamVars, refundVars, bookVars

-----------------------------------------------------------------------------
(* The amounts *)

LEMMA AmountsInit == Init => \A r \in Requests : AmountsInv(r)
<1> SUFFICES ASSUME Init, NEW r \in Requests PROVE AmountsInv(r)
  OBVIOUS
<1>1. est[r] \in Nat /\ short[r] = 0 /\ pc[r] = "config"
  BY BillingAssumption DEF Init
<1> QED
  BY <1>1 DEF AmountsInv

LEMMA AmountsStep ==
    ASSUME TypeOK, NEW r \in Requests, AmountsInv(r),
           RequestStep(r) \/ Crash(r)
    PROVE  AmountsInv(r)'
<1>1. /\ est[r] \in Nat /\ short[r] \in Nat /\ cost[r] \in Nat
      /\ owed[r] \in Nat /\ Costs \subseteq Nat /\ pc[r] \in Labels
      /\ tokens \in Int
  BY BillingAssumption DEF TypeOK
<1> USE <1>1 DEF TypeOK, AmountsInv, Goto, checkVars, streamVars, refundVars
<1>2. CASE CheckStep(r)
  <2>1. CASE PeekBucket(r)
    <3>1. short'[r] = Greater(0, est[r] - Remaining(tokens))
      BY <2>1 DEF PeekBucket
    <3>2. short'[r] <= est'[r]
      BY <2>1, <3>1, BucketSteps DEF PeekBucket, Greater
    <3> QED
      BY <2>1, <3>2 DEF PeekBucket, Checking
  <2>2. CASE BuildExtraUsageConfig(r) \/ PeekErrs(r)
    BY <2>2 DEF BuildExtraUsageConfig, PeekErrs, Checking
  <2>3. CASE DrawShortfall(r) \/ ShortfallRefused(r) \/ ShortfallErrs(r)
    BY <2>3 DEF DrawShortfall, ShortfallRefused, ShortfallErrs,
                 Checking
  <2>4. CASE DebitBucket(r) \/ DebitErrs(r)
    BY <2>4 DEF DebitBucket, DebitErrs, Checking
  <2>5. CASE UndoExtra(r) \/ UndoErrs(r)
    BY <2>5 DEF UndoExtra, UndoErrs, Checking
  <2> QED
    BY <1>2, <2>1, <2>2, <2>3, <2>4, <2>5 DEF CheckStep
<1>3. CASE StreamStep(r) \/ Crash(r)
  BY <1>3
     DEF StreamStep, FailWithRefund, ExecuteThrows, StartStream, StartRefund,
         AccumulateStep, RetryWithFallback, ProviderError, StreamEnds, Crash,
         Checking, Ended
<1>4. CASE RefundStep(r)
  BY <1>4
     DEF RefundStep, RefundIncrement, RefundCap, RefundBucketErrs,
         RefundExtra, RefundExtraErrs, RefundReturns, Checking, Refunding
<1>5. CASE SettleStep(r)
  <2>1. CASE SettlePeek(r)
    <3>1. owed'[r] = Lesser(cost[r] - est[r], Remaining(tokens))
      BY <2>1 DEF SettlePeek
    <3>2. owed'[r] <= cost'[r] - est'[r]
      BY <2>1, <3>1, BucketSteps DEF SettlePeek, Lesser
    <3> QED
      BY <2>1, <3>2 DEF SettlePeek, AfterBucket, Checking
  <2>2. CASE SettleBucket(r)
    BY <2>2 DEF SettleBucket, AfterBucket, Checking
  <2>3. CASE DeductAccumulatedUsage(r)
    BY <2>3 DEF DeductAccumulatedUsage, Checking
  <2>4. CASE EndUnbilled(r) \/ GiveBackReturns(r) \/ SettleExtra(r)
             \/ SettleErrs(r)
    BY <2>4 DEF EndUnbilled, GiveBackReturns, SettleExtra, SettleErrs, Checking
  <2> QED
    BY <1>5, <2>1, <2>2, <2>3, <2>4 DEF SettleStep
<1> QED
  BY <1>2, <1>3, <1>4, <1>5 DEF RequestStep

LEMMA TypeNext ==
    ASSUME TypeInv, [Next]_vars
    PROVE  TypeInv'
<1>1. CASE \E r \in Requests : RequestStep(r) \/ Crash(r)
  <2>1. PICK r \in Requests : RequestStep(r) \/ Crash(r)
    BY <1>1
  <2>2. TypeOK'
    BY <2>1, CheckKeepsType, StreamKeepsType, RefundKeepsType,
       SettleKeepsType DEF TypeInv, RequestStep
  <2>3. ASSUME NEW q \in Requests PROVE AmountsInv(q)'
    BY <2>1, AmountsStep, OthersUnchanged, SameKeepsInv DEF TypeInv
  <2> QED
    BY <2>2, <2>3 DEF TypeInv
<1>2. CASE Environment
  BY <1>2, EnvironmentKeepsType, EnvironmentSame, SameKeepsInv DEF TypeInv
<1>3. CASE AllEnded \/ UNCHANGED vars
  <2>1. UNCHANGED vars
    BY <1>3 DEF AllEnded
  <2>2. TypeOK'
    BY <2>1 DEF TypeInv, TypeOK, AccountTypeOK, vars, storeVars, accountVars,
       trackerVars, checkVars, streamVars, refundVars, bookVars
  <2> QED
    BY <2>1, <2>2, EnvironmentSame, SameKeepsInv DEF TypeInv
<1> QED
  BY <1>1, <1>2, <1>3 DEF Next

\* Every reachable state is well typed: in particular no store call of the
\* billing code ever moves a negative amount, and the balance never becomes
\* negative, for any requests, estimates and costs.
THEOREM TypeCorrect == Spec => []TypeOK
<1>1. Init => TypeInv
  BY TypeInit, AmountsInit DEF TypeInv
<1>2. TypeInv /\ [Next]_vars => TypeInv'
  BY TypeNext
<1>3. TypeInv => TypeOK
  BY DEF TypeInv
<1> QED
  BY <1>1, <1>2, <1>3, PTL DEF Spec

-----------------------------------------------------------------------------
(* The billing invariant: one lemma per phase, one case per action *)

LEMMA CheckKeepsInv ==
    ASSUME TypeOK, NEW r \in Requests, AmountsInv(r), RequestInv(r),
           CheckStep(r)
    PROVE  RequestInv(r)'
<1>1. /\ est[r] \in Nat /\ short[r] \in Nat /\ tokens \in Int
      /\ tookBucket[r] \in Int /\ tookExtra[r] \in Int
  BY BillingAssumption DEF TypeOK
<1> USE <1>1
    DEF TypeOK, RequestInv, CheckingInv, RunningInv, RefundingInv,
        RefundedInv, SettlingInv, OutstandingInv, EndedInv, Quiet, Taken,
        Goto, Fault, TakeBucket, TakeExtra, Checking, Running, Refunding,
        checkVars, trackerVars, streamVars, refundVars, bookVars
<1>a. CASE BuildExtraUsageConfig(r)
  BY <1>a DEF BuildExtraUsageConfig
<1>b. CASE PeekBucket(r)
  BY <1>b DEF PeekBucket
<1>c. CASE PeekErrs(r)
  BY <1>c DEF PeekErrs
<1>d. CASE DrawShortfall(r)
  BY <1>d DEF DrawShortfall
<1>e. CASE ShortfallRefused(r)
  BY <1>e DEF ShortfallRefused
<1>f. CASE ShortfallErrs(r)
  BY <1>f DEF ShortfallErrs
<1>g. CASE DebitBucket(r)
  <2>1. CASE DebitSucceeds(tokens, est[r] - short[r])
    <3>1. tokens - AfterDebit(tokens, est[r] - short[r]) = est[r] - short[r]
      BY <2>1 DEF DebitSucceeds, AfterDebit
    <3> QED
      BY <1>g, <2>1, <3>1 DEF DebitBucket
  <2>2. CASE ~DebitSucceeds(tokens, est[r] - short[r])
    BY <1>g, <2>2 DEF DebitBucket
  <2> QED
    BY <2>1, <2>2
<1>h. CASE DebitErrs(r)
  BY <1>h DEF DebitErrs
<1>i. CASE UndoExtra(r)
  BY <1>i DEF UndoExtra
<1>j. CASE UndoErrs(r)
  BY <1>j DEF UndoErrs
<1> QED
  BY <1>a, <1>b, <1>c, <1>d, <1>e, <1>f, <1>g, <1>h, <1>i, <1>j
     DEF CheckStep

LEMMA StartRefundValues ==
    ASSUME TypeOK, NEW r \in Requests,
           NEW refunding \in Labels, NEW returned \in Labels,
           StartRefund(r, refunding, returned)
    PROVE  IF ~hasRefunded[r] /\ (points[r] > 0 \/ extra[r] > 0)
           THEN /\ pc'[r] = refunding
                /\ owed'[r] = points[r]
                /\ bucketRefund'[r] =
                      IF points[r] > 0 THEN "increment" ELSE "none"
                /\ extraRefund'[r] <=> extra[r] > 0
           ELSE pc'[r] = returned /\ UNCHANGED refundVars
<1>1. CASE ~hasRefunded[r] /\ (points[r] > 0 \/ extra[r] > 0)
  <2>1. extraRefund'[r] <=> extra[r] > 0
    <3>1. extraRefund' = [extraRefund EXCEPT ![r] = extra[r] > 0]
      BY <1>1 DEF StartRefund
    <3> QED
      BY <3>1, Zenon DEF TypeOK
  <2> QED
    BY <1>1, <2>1 DEF StartRefund, TypeOK, Goto
<1>2. CASE ~(~hasRefunded[r] /\ (points[r] > 0 \/ extra[r] > 0))
  BY <1>2 DEF StartRefund, TypeOK, Goto
<1> QED
  BY <1>1, <1>2

LEMMA StreamKeepsInv ==
    ASSUME TypeOK, NEW r \in Requests, RequestInv(r),
           StreamStep(r) \/ Crash(r)
    PROVE  RequestInv(r)'
<1>1. /\ est[r] \in Nat /\ points[r] \in Nat /\ extra[r] \in Nat
      /\ tookBucket[r] \in Int /\ tookExtra[r] \in Int
  BY BillingAssumption DEF TypeOK
<1> USE <1>1
    DEF TypeOK, RequestInv, CheckingInv, RunningInv, RefundingInv,
        RefundedInv, SettlingInv, OutstandingInv, EndedInv, Quiet, Taken,
        Goto, Fault, Checking, Running, Refunding, Ended,
        checkVars, trackerVars, streamVars, refundVars, bookVars
<1>2. {"failing", "failed", "aborting", "aborted"} \subseteq Labels
  BY DEF Labels
<1>a. CASE FailWithRefund(r)
  BY <1>a, StartRefundValues, <1>2
     DEF FailWithRefund
<1>b. CASE ExecuteThrows(r)
  BY <1>b DEF ExecuteThrows
<1>c. CASE StartStream(r)
  BY <1>c DEF StartStream
<1>d. CASE AccumulateStep(r)
  BY <1>d DEF AccumulateStep
<1>e. CASE RetryWithFallback(r)
  BY <1>e DEF RetryWithFallback
<1>f. CASE ProviderError(r)
  <2>1. CASE usage[r]
    BY <1>f, <2>1 DEF ProviderError
  <2>2. CASE ~usage[r]
    BY <1>f, <2>2, StartRefundValues, <1>2 DEF ProviderError
  <2> QED
    BY <2>1, <2>2
<1>g. CASE StreamEnds(r)
  BY <1>g DEF StreamEnds
<1>h. CASE Crash(r)
  BY <1>h DEF Crash, Ended
<1> QED
  BY <1>a, <1>b, <1>c, <1>d, <1>e, <1>f, <1>g, <1>h DEF StreamStep

LEMMA RefundKeepsInv ==
    ASSUME TypeOK, NEW r \in Requests, AmountsInv(r), RequestInv(r),
           RefundStep(r)
    PROVE  RequestInv(r)'
<1>1. /\ est[r] \in Nat /\ points[r] \in Nat /\ extra[r] \in Nat
      /\ owed[r] \in Nat /\ cost[r] \in Nat /\ tokens \in Int
      /\ tookBucket[r] \in Int /\ tookExtra[r] \in Int
  BY BillingAssumption DEF TypeOK
<1> USE <1>1
    DEF TypeOK, RequestInv, CheckingInv, RunningInv, RefundingInv,
        RefundedInv, SettlingInv, OutstandingInv, EndedInv, Quiet, Taken,
        Goto, Fault, TakeBucket, TakeExtra, Checking, Running, Refunding,
        checkVars, trackerVars, streamVars, refundVars, bookVars
<1>a. CASE RefundIncrement(r)
  <2>1. /\ tookBucket'[r] = tookBucket[r] - owed[r]
        /\ bucketRefund'[r] \in {"cap", "none"}
    BY <1>a DEF RefundIncrement
  <2>2. /\ pc'[r] = pc[r] /\ cost'[r] = cost[r] /\ est'[r] = est[r]
        /\ owed'[r] = owed[r] /\ points'[r] = points[r]
        /\ extra'[r] = extra[r] /\ tookExtra'[r] = tookExtra[r]
        /\ hasRefunded'[r] = hasRefunded[r] /\ faulted'[r] = faulted[r]
        /\ extraRefund'[r] = extraRefund[r] /\ bucketRefund[r] = "increment"
    BY <1>a DEF RefundIncrement
  <2>3. CASE pc[r] = "giveBack"
    BY <2>1, <2>2, <2>3
  <2>4. CASE pc[r] \in Refunding
    BY <2>1, <2>2, <2>4
  <2> QED
    BY <1>a, <2>3, <2>4 DEF RefundIncrement
<1>b. CASE RefundCap(r)
  BY <1>b DEF RefundCap
<1>c. CASE RefundBucketErrs(r)
  BY <1>c DEF RefundBucketErrs
<1>d. CASE RefundExtra(r)
  BY <1>d DEF RefundExtra
<1>e. CASE RefundExtraErrs(r)
  BY <1>e DEF RefundExtraErrs
<1>f. CASE RefundReturns(r)
  BY <1>f DEF RefundReturns
<1> QED
  BY <1>a, <1>b, <1>c, <1>d, <1>e, <1>f DEF RefundStep

LEMMA SettleKeepsInv ==
    ASSUME TypeOK, NEW r \in Requests, AmountsInv(r), RequestInv(r),
           SettleStep(r)
    PROVE  RequestInv(r)'
<1>1. /\ est[r] \in Nat /\ owed[r] \in Nat /\ cost[r] \in Nat
      /\ points[r] \in Nat /\ extra[r] \in Nat /\ tokens \in Int
      /\ tookBucket[r] \in Int /\ tookExtra[r] \in Int
      /\ Costs \subseteq Nat
  BY BillingAssumption DEF TypeOK
<1> USE <1>1
    DEF TypeOK, AmountsInv, RequestInv, CheckingInv, RunningInv,
        RefundingInv, RefundedInv, SettlingInv, OutstandingInv, EndedInv,
        Quiet, Taken, Goto, Fault, TakeBucket, TakeExtra, Checking, Running,
        Refunding, Lesser, AfterBucket, Overflow,
        checkVars, trackerVars, streamVars, refundVars, bookVars
<1>a. CASE EndUnbilled(r)
  BY <1>a DEF EndUnbilled
<1>b. CASE DeductAccumulatedUsage(r)
  BY <1>b DEF DeductAccumulatedUsage
<1>c. CASE GiveBackReturns(r)
  BY <1>c DEF GiveBackReturns
<1>d. CASE SettlePeek(r)
  <2>1. Lesser(cost[r] - est[r], Remaining(tokens)) \in Nat
    BY <1>d, BucketSteps DEF SettlePeek
  <2>2. owed'[r] = Lesser(cost[r] - est[r], Remaining(tokens))
    BY <1>d DEF SettlePeek
  <2>3. owed'[r] \in Nat
    BY <2>1, <2>2
  <2> QED
    BY <1>d, <2>3 DEF SettlePeek
<1>e. CASE SettleBucket(r)
  <2>1. /\ 0 <= tokens - AfterDebit(tokens, owed[r])
        /\ tokens - AfterDebit(tokens, owed[r]) <= owed[r]
    BY DEF AfterDebit
  <2> QED
    <3>1. /\ tookBucket'[r] = tookBucket[r]
                              + (tokens - AfterDebit(tokens, owed[r]))
          /\ tokens - AfterDebit(tokens, owed[r]) \in Int
      BY <1>e, BucketSteps DEF SettleBucket
    <3>2. /\ Taken(r)' >= Taken(r)
          /\ Taken(r)' <= Taken(r) + owed[r]
      BY <1>e, <2>1, <3>1 DEF SettleBucket
    <3> QED
      BY <1>e, <3>1, <3>2 DEF SettleBucket
<1>f. CASE SettleExtra(r)
  BY <1>f DEF SettleExtra
<1>g. CASE SettleErrs(r)
  BY <1>g DEF SettleErrs
<1> QED
  BY <1>a, <1>b, <1>c, <1>d, <1>e, <1>f, <1>g DEF SettleStep

LEMMA InvInit == Init => BillingInv
  BY DEF Init, BillingInv, RequestInv, CheckingInv, RunningInv, RefundingInv,
         RefundedInv, SettlingInv, OutstandingInv, EndedInv, Quiet, Taken,
         Checking, Running, Refunding

LEMMA InvNext ==
    ASSUME TypeInv, BillingInv, [Next]_vars
    PROVE  BillingInv'
<1>1. CASE \E r \in Requests : RequestStep(r) \/ Crash(r)
  <2>1. PICK r \in Requests : RequestStep(r) \/ Crash(r)
    BY <1>1
  <2>2. RequestInv(r)'
    BY <2>1, CheckKeepsInv, StreamKeepsInv, RefundKeepsInv, SettleKeepsInv
       DEF TypeInv, BillingInv, RequestStep
  <2>3. ASSUME NEW q \in Requests, q # r PROVE RequestInv(q)'
    BY <2>1, <2>3, OthersUnchanged, SameKeepsInv DEF TypeInv, BillingInv
  <2> QED
    BY <2>2, <2>3 DEF BillingInv
<1>2. CASE Environment \/ AllEnded \/ UNCHANGED vars
  BY <1>2, EnvironmentSame, SameKeepsInv DEF BillingInv, AllEnded
<1> QED
  BY <1>1, <1>2 DEF Next

LEMMA BillingCorrect == Spec => [](TypeInv /\ BillingInv)
<1>1. Init => TypeInv /\ BillingInv
  BY InvInit, TypeInit, AmountsInit DEF TypeInv
<1>2. TypeInv /\ BillingInv /\ [Next]_vars => TypeInv' /\ BillingInv'
  BY TypeNext, InvNext
<1> QED
  BY <1>1, <1>2, PTL DEF Spec

\* The stores and the refund tracker agree, for any number of concurrent
\* requests (recordDeductions, UsageRefundTracker).
THEOREM TrackerCorrect == Spec => []TrackerMatchesStores
<1>1. BillingInv => TrackerMatchesStores
  BY DEF BillingInv, RequestInv, RunningInv, TrackerMatchesStores
<1> QED
  BY <1>1, BillingCorrect, PTL

\* A refused request keeps nothing of the balance (checkTokenBucketLimit).
THEOREM RefusalCorrect == Spec => []RefusalReturnsExtra
<1>1. BillingInv => RefusalReturnsExtra
  BY DEF BillingInv, RequestInv, EndedInv, RefusalReturnsExtra
<1> QED
  BY <1>1, BillingCorrect, PTL

\* Refunds are exact and happen once until settlement (refundUsage).
THEOREM RefundCorrect == Spec => []RefundIsExact
<1>1. BillingInv => RefundIsExact
  BY DEF BillingInv, RequestInv, RefundedInv, RefundIsExact, Running
<1> QED
  BY <1>1, BillingCorrect, PTL

\* Settlement charges at most the actual cost (deductUsage), whatever the
\* races with other requests, refills and refunds.
THEOREM SettlementCorrect == Spec => []SettledFairly
<1>1. BillingInv => SettledFairly
  BY DEF BillingInv, RequestInv, EndedInv, SettledFairly
<1> QED
  BY <1>1, BillingCorrect, PTL

-----------------------------------------------------------------------------
(* The capacity of the bucket *)

\* Debits move no negative amount, so they cannot fill the bucket.
LEMMA DebitLowers ==
    ASSUME tokens \in Int, NEW n \in Nat
    PROVE  AfterDebit(tokens, n) <= tokens
  BY DEF AfterDebit

Capped(r) == bucketRefund[r] = "cap" \/ faulted[r]

\* A request that owes the capping write, or has lost it, keeps doing so until
\* RefundCap.
LEMMA CappedStays ==
    ASSUME TypeOK, BillingInv, NEW q \in Requests, Capped(q),
           NEW r \in Requests, RequestStep(r) \/ Crash(r), ~RefundCap(r)
    PROVE  Capped(q)'
<1>1. CASE q # r
  BY <1>1, OthersUnchanged DEF Same, Capped
<1>2. CASE q = r
  <2> USE <1>2 DEF TypeOK, Capped, Goto, Fault, checkVars, trackerVars,
          streamVars, refundVars, bookVars
  <2>1. bucketRefund[r] = "cap" => pc[r] \in Refunding \cup {"giveBack"}
    BY DEF BillingInv, RequestInv, OutstandingInv
  <2>a. CASE CheckStep(r)
    BY <2>a
       DEF CheckStep, BuildExtraUsageConfig, PeekBucket, PeekErrs,
           DrawShortfall, ShortfallRefused, ShortfallErrs, DebitBucket,
           DebitErrs, UndoExtra, UndoErrs
  <2>b. CASE StreamStep(r) \/ Crash(r)
    BY <2>1, <2>b
       DEF StreamStep, FailWithRefund, ExecuteThrows, StartStream,
           StartRefund, AccumulateStep, RetryWithFallback, ProviderError,
           StreamEnds, Crash, Refunding
  <2>c. CASE RefundStep(r)
    BY <2>c
       DEF RefundStep, RefundIncrement, RefundBucketErrs, RefundExtra,
           RefundExtraErrs, RefundReturns
  <2>d. CASE SettleStep(r)
    BY <2>1, <2>d
       DEF SettleStep, EndUnbilled, DeductAccumulatedUsage, GiveBackReturns,
           SettlePeek, SettleBucket, SettleExtra, SettleErrs, Refunding
  <2> QED
    BY <2>a, <2>b, <2>c, <2>d DEF RequestStep
<1> QED
  BY <1>1, <1>2

\* Only a refund raises the bucket.
LEMMA OnlyRefundRaises ==
    ASSUME TypeOK, NEW r \in Requests, AmountsInv(r),
           RequestStep(r) \/ Crash(r), ~RefundIncrement(r), ~RefundCap(r)
    PROVE  tokens' <= tokens
<1>1. /\ tokens \in Int /\ est[r] \in Nat /\ short[r] \in Nat
      /\ owed[r] \in Nat
  BY BillingAssumption DEF TypeOK
<1>2. pc[r] \in Checking => est[r] - short[r] \in Nat
  BY <1>1 DEF AmountsInv
<1>a. CASE CheckStep(r)
  BY <1>a, <1>1, <1>2, DebitLowers
     DEF CheckStep, BuildExtraUsageConfig, PeekBucket, PeekErrs,
         DrawShortfall, ShortfallRefused, ShortfallErrs, DebitBucket,
         DebitErrs, UndoExtra, UndoErrs, storeVars, Checking
<1>b. CASE StreamStep(r) \/ Crash(r)
  BY <1>b, <1>1
     DEF StreamStep, FailWithRefund, ExecuteThrows, StartStream,
         AccumulateStep, RetryWithFallback, ProviderError, StreamEnds, Crash,
         storeVars
<1>c. CASE RefundStep(r)
  BY <1>c, <1>1
     DEF RefundStep, RefundBucketErrs, RefundExtra, RefundExtraErrs,
         RefundReturns, storeVars
<1>d. CASE SettleStep(r)
  BY <1>d, <1>1, DebitLowers
     DEF SettleStep, EndUnbilled, DeductAccumulatedUsage, GiveBackReturns,
         SettlePeek, SettleBucket, SettleExtra, SettleErrs, storeVars
<1> QED
  BY <1>a, <1>b, <1>c, <1>d DEF RequestStep

LEMMA OverfullNext ==
    ASSUME TypeInv, BillingInv, OverfullOnlyWhileCapping, [Next]_vars
    PROVE  OverfullOnlyWhileCapping'
<1> USE MaxTokensAssumption DEF TypeInv
<1>1. tokens \in Int
  BY DEF TypeOK
<1>2. CASE \E r \in Requests : RequestStep(r) \/ Crash(r)
  <2>1. PICK r \in Requests : RequestStep(r) \/ Crash(r)
    BY <1>2
  <2>2. CASE RefundIncrement(r)
    BY <2>2, <1>1
       DEF RefundIncrement, NeedsCap, OverfullOnlyWhileCapping, TypeOK
  <2>3. CASE RefundCap(r)
    BY <2>3 DEF RefundCap, AfterCap, OverfullOnlyWhileCapping
  <2>4. CASE ~RefundIncrement(r) /\ ~RefundCap(r)
    <3>1. tokens' <= tokens /\ tokens' \in Int
      BY <2>1, <2>4, OnlyRefundRaises, TypeNext DEF TypeOK
    <3> SUFFICES ASSUME tokens' > MaxTokens
                 PROVE  \E q \in Requests : Capped(q)'
      BY DEF OverfullOnlyWhileCapping, Capped
    <3>2. PICK q \in Requests : Capped(q)
      BY <1>1, <3>1 DEF OverfullOnlyWhileCapping, Capped
    <3> QED
      BY <2>1, <2>4, <3>2, CappedStays
  <2> QED
    BY <2>2, <2>3, <2>4
<1>3. CASE Environment
  <2>1. CASE Refill
    BY <2>1, <1>1
       DEF Refill, AfterRefill, Lesser, OverfullOnlyWhileCapping
  <2>2. CASE Purchase \/ ChangeCap \/ MonthPasses
    BY <2>2 DEF Purchase, ChangeCap, MonthPasses, OverfullOnlyWhileCapping,
                refundVars, bookVars
  <2> QED
    BY <1>3, <2>1, <2>2 DEF Environment
<1>4. CASE AllEnded \/ UNCHANGED vars
  BY <1>4 DEF AllEnded, vars, storeVars, refundVars, bookVars,
              OverfullOnlyWhileCapping
<1> QED
  BY <1>2, <1>3, <1>4 DEF Next

\* The bucket is over its capacity only while a refund is about to cap it, or
\* after that write was lost (refundBucketTokens).
THEOREM OverfullCorrect == Spec => []OverfullOnlyWhileCapping
<1>1. Init => OverfullOnlyWhileCapping
  BY MaxTokensAssumption DEF Init, OverfullOnlyWhileCapping
<1>2. TypeInv /\ BillingInv /\ OverfullOnlyWhileCapping /\ [Next]_vars
      => OverfullOnlyWhileCapping'
  BY OverfullNext
<1> QED
  BY <1>1, <1>2, BillingCorrect, PTL DEF Spec

-----------------------------------------------------------------------------
(* The monthly cap *)

\* The lazily reset counter tells what the current month has really drawn.
AccountInv == drawn = SpentThisMonth /\ spentMonth <= month

LEMMA AccountInvNext ==
    ASSUME TypeInv, AccountInv, [Next]_vars
    PROVE  AccountInv'
<1>1. AccountTypeOK
  BY DEF TypeInv, TypeOK
<1> USE <1>1, ExtraUsageAssumption
    DEF AccountTypeOK, AccountInv, SpentThisMonth
<1>2. ASSUME NEW n, DeductPoints(n) PROVE AccountInv'
  BY <1>2 DEF DeductPoints
<1>3. ASSUME NEW n, RefundPoints(n) \/ AddPoints(n) \/ SetMonthlyCap(n)
      PROVE  AccountInv'
  BY <1>3 DEF RefundPoints, AddPoints, SetMonthlyCap
<1>4. CASE UNCHANGED accountVars
  BY <1>4 DEF accountVars
<1>5. CASE NextMonth
  BY <1>5 DEF NextMonth
<1>6. CASE \E r \in Requests : RequestStep(r) \/ Crash(r)
  BY <1>2, <1>3, <1>4, <1>6
     DEF RequestStep, CheckStep, BuildExtraUsageConfig, PeekBucket, PeekErrs,
         DrawShortfall, ShortfallRefused, ShortfallErrs, DebitBucket,
         DebitErrs, UndoExtra, UndoErrs, StreamStep, FailWithRefund,
         ExecuteThrows, StartStream, AccumulateStep, RetryWithFallback,
         ProviderError, StreamEnds, Crash, RefundStep, RefundIncrement,
         RefundCap, RefundBucketErrs, RefundExtra, RefundExtraErrs,
         RefundReturns, SettleStep, EndUnbilled, DeductAccumulatedUsage,
         GiveBackReturns, SettlePeek, SettleBucket, SettleExtra, SettleErrs,
         storeVars
<1>7. CASE Environment
  BY <1>3, <1>4, <1>5, <1>7
     DEF Environment, Refill, Purchase, ChangeCap, MonthPasses
<1>8. CASE AllEnded \/ UNCHANGED vars
  BY <1>4, <1>8 DEF AllEnded, vars, storeVars
<1> QED
  BY <1>6, <1>7, <1>8 DEF Next

\* What the account steps do to `drawn`, and every step of the system is one of
\* them or leaves the account alone.
DrawsWithinCap == drawn' > drawn /\ cap # NoCap => drawn' <= cap

LEMMA DrawsNext ==
    ASSUME TypeInv, AccountInv, [Next]_vars
    PROVE  [DrawsWithinCap]_accountVars
<1>1. AccountTypeOK
  BY DEF TypeInv, TypeOK
<1> USE <1>1, ExtraUsageAssumption
    DEF AccountTypeOK, AccountInv, DrawsWithinCap
<1>2. ASSUME NEW n, DeductPoints(n) PROVE DrawsWithinCap
  BY <1>2 DEF DeductPoints, CanDeduct, WithinCap
<1>3. ASSUME NEW n, RefundPoints(n) \/ AddPoints(n) \/ SetMonthlyCap(n)
      PROVE  DrawsWithinCap
  BY <1>3 DEF RefundPoints, AddPoints, SetMonthlyCap
<1>5. CASE NextMonth
  BY <1>5 DEF NextMonth
<1>6. CASE \E r \in Requests : RequestStep(r) \/ Crash(r)
  BY <1>2, <1>3, <1>6
     DEF RequestStep, CheckStep, BuildExtraUsageConfig, PeekBucket, PeekErrs,
         DrawShortfall, ShortfallRefused, ShortfallErrs, DebitBucket,
         DebitErrs, UndoExtra, UndoErrs, StreamStep, FailWithRefund,
         ExecuteThrows, StartStream, AccumulateStep, RetryWithFallback,
         ProviderError, StreamEnds, Crash, RefundStep, RefundIncrement,
         RefundCap, RefundBucketErrs, RefundExtra, RefundExtraErrs,
         RefundReturns, SettleStep, EndUnbilled, DeductAccumulatedUsage,
         GiveBackReturns, SettlePeek, SettleBucket, SettleExtra, SettleErrs,
         storeVars
<1>7. CASE Environment
  BY <1>3, <1>5, <1>7
     DEF Environment, Refill, Purchase, ChangeCap, MonthPasses
<1>8. CASE AllEnded \/ UNCHANGED vars
  BY <1>8 DEF AllEnded, vars, storeVars
<1> QED
  BY <1>6, <1>7, <1>8 DEF Next

\* No deduction ever takes a month's draws above the cap in force, through any
\* sequence of month changes and cap changes (deductPoints).
THEOREM CapCorrect == Spec => CapBindsDraws
<1>1. Init => AccountInv
  BY ExtraUsageAssumption DEF Init, AccountInit, AccountInv, SpentThisMonth
<1>2. TypeInv /\ AccountInv /\ [Next]_vars => AccountInv'
  BY AccountInvNext
<1>3. TypeInv /\ AccountInv /\ [Next]_vars
      => [drawn' > drawn /\ cap # NoCap => drawn' <= cap]_accountVars
  BY DrawsNext DEF DrawsWithinCap
<1> QED
  BY <1>1, <1>2, <1>3, BillingCorrect, PTL DEF Spec, CapBindsDraws
=============================================================================
