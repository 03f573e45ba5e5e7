---------------------------- MODULE TokenBucket ----------------------------
(***************************************************************************)
(* The monthly token bucket of a paid user, as lib/rate-limit/             *)
(* token-bucket.ts uses it: the `tokens` field of the Redis hash           *)
(* usage:monthly:<userId>:<tier>, driven by Ratelimit.tokenBucket of       *)
(* @upstash/ratelimit 2.0.8 (external) and, for refunds, by direct HINCRBY *)
(* and HSET commands of the program.                                       *)
(*                                                                         *)
(* Each operator is one atomic Redis command or script.  An absent hash is *)
(* a full bucket: the script creates it with MaxTokens.                    *)
(***************************************************************************)
EXTENDS Integers

CONSTANT MaxTokens      \* MONTHLY_CREDITS of the tier: capacity and refill

ASSUME MaxTokensAssumption == MaxTokens \in Nat \ {0}

Lesser(a, b)  == IF a <= b THEN a ELSE b
Greater(a, b) == IF a >= b THEN a ELSE b

\* What limit() reports: a bucket overdrawn by concurrent debits shows 0.
Remaining(tokens) == Greater(0, tokens)

\* Mutant of DebitSucceeds: the caller does not look at `success`.
SuccessUnread(tokens, rate) == TRUE

\* limit(key, {rate}).  An empty bucket refuses without writing.  Any other
\* bucket is debited whether or not it holds enough, and the call succeeds
\* only when the result is not negative.
DebitWrites(tokens, rate)   == ~(tokens = 0 /\ rate > 0)
DebitSucceeds(tokens, rate) == DebitWrites(tokens, rate) /\ tokens >= rate
AfterDebit(tokens, rate) ==
    IF DebitWrites(tokens, rate) THEN tokens - rate ELSE tokens

\* Mutant of NeedsCap: off by one.
CapsLate(tokens) == tokens > MaxTokens + 1

\* The elapsed interval adds a whole refill, up to the capacity.
AfterRefill(tokens) == Lesser(MaxTokens, tokens + MaxTokens)

\* refundBucketTokens: HINCRBY, then a separate HSET to the limit when the
\* value HINCRBY returned was above it.
AfterIncrement(tokens, points) == tokens + points
NeedsCap(tokens)               == tokens > MaxTokens
AfterCap                       == MaxTokens
=============================================================================
