---------------------------- MODULE TeamSeatDebt ----------------------------
(***************************************************************************)
(* Seat-rotation protection (applyTeamSeatDebt and its callers): the usage *)
(* of removed team members is kept in a Redis counter per organisation,    *)
(* and burned from the bucket of the next new member on its first request. *)
(* Every Redis command is a step; requests of one or of several new        *)
(* members run concurrently.  MaxTokens is TEAM_CREDITS, one seat.         *)
(***************************************************************************)
EXTENDS TokenBucket, FiniteSets

CONSTANTS
    Requests,       \* the requests that check the bucket
    Members,        \* the new members
    Owner,          \* the member who makes each request
    Debts,          \* what a removed member may have consumed
    Charges,        \* what a request then debits from the bucket
    MaxRemovals,    \* bound: members removed in a behaviour
    MaxClears       \* bound: renewals or counter expiries in a behaviour

ASSUME SeatDebtAssumption ==
    /\ IsFiniteSet(Requests) /\ IsFiniteSet(Members)
    /\ Owner \in [Requests -> Members]
    /\ Debts \subseteq Nat \ {0}
    /\ Charges \subseteq Nat
    /\ MaxRemovals \in Nat
    /\ MaxClears \in Nat

VARIABLES
    counter,        \* team:removed_usage:<org>; absent reads as 0
    flag,           \* team:debt_applied:<org>:<member> is set
    bucketExists,   \* the member's monthly bucket exists
    tokens,         \* its content
    pc,             \* where each request stands
    debit,          \* debt the request claimed
    lent,           \* taken off the counter beyond that, not yet restored
    removed,        \* history: debt added in all
    claimed,        \* history: debt each member has claimed and not returned
    removals,       \* members removed so far
    clears,         \* renewals so far
    faulted         \* history: some Redis call failed or a request died

seatVars == <<counter, flag, bucketExists, tokens, pc, debit, lent, removed,
              claimed, removals, clears, faulted>>

Init ==
    /\ counter = 0
    /\ flag = [m \in Members |-> FALSE]
    /\ bucketExists = [m \in Members |-> FALSE]
    /\ tokens = [m \in Members |-> MaxTokens]
    /\ pc = [p \in Requests |-> "exists"]
    /\ debit = [p \in Requests |-> 0]
    /\ lent = [p \in Requests |-> 0]
    /\ removed = 0
    /\ claimed = [m \in Members |-> 0]
    /\ removals = 0
    /\ clears = 0
    /\ faulted = FALSE

Goto(p, label) == pc' = [pc EXCEPT ![p] = label]

-----------------------------------------------------------------------------
(* checkTokenBucketLimit, up to the seat debt *)

\* isNewTeamBucket is read before the peek that creates the bucket.
CheckExists(p) ==
    /\ pc[p] = "exists"
    /\ Goto(p, IF bucketExists[Owner[p]] THEN "peekKnown" ELSE "peekNew")
    /\ UNCHANGED <<counter, flag, bucketExists, tokens, debit, lent, removed,
                   claimed, removals, clears, faulted>>

\* limit(key, {rate: 0}) creates an absent bucket.
Peek(p) ==
    /\ pc[p] \in {"peekKnown", "peekNew"}
    /\ bucketExists' = [bucketExists EXCEPT ![Owner[p]] = TRUE]
    /\ Goto(p, IF pc[p] = "peekNew" THEN "claim" ELSE "charge")
    /\ UNCHANGED <<counter, flag, tokens, debit, lent, removed, claimed,
                   removals, clears, faulted>>

\* The request goes on to debit its own estimate.
Charge(p) ==
    /\ pc[p] = "charge"
    /\ \E n \in Charges :
          tokens' = [tokens EXCEPT ![Owner[p]] = AfterDebit(@, n)]
    /\ Goto(p, "done")
    /\ UNCHANGED <<counter, flag, bucketExists, debit, lent, removed, claimed,
                   removals, clears, faulted>>

-----------------------------------------------------------------------------
(* applyTeamSeatDebt *)

\* Mutant of ClaimFlag: SET without NX.
ClaimFlagAlways(p) ==
    /\ pc[p] = "claim"
    /\ flag' = [flag EXCEPT ![Owner[p]] = TRUE]
    /\ Goto(p, "decrement")
    /\ UNCHANGED <<counter, bucketExists, tokens, debit, lent, removed,
                   claimed, removals, clears, faulted>>

\* SET NX: a concurrent first request of the same member does not wait for the
\* debt to be burned.
ClaimFlag(p) ==
    /\ pc[p] = "claim"
    /\ flag' = [flag EXCEPT ![Owner[p]] = TRUE]
    /\ Goto(p, IF flag[Owner[p]] THEN "charge" ELSE "decrement")
    /\ UNCHANGED <<counter, bucketExists, tokens, debit, lent, removed,
                   claimed, removals, clears, faulted>>

\* Mutant of Overclaim: only a debt below zero before the decrement is seen.
OverclaimBefore(afterDecr) == Greater(0, -(afterDecr + MaxTokens))

Overclaim(afterDecr) == Greater(0, -afterDecr)

\* DECRBY takes a whole seat; what exceeds the debt is to be restored.
Decrement(p) ==
    LET overclaim == Overclaim(counter')
        share     == MaxTokens - overclaim
    IN  /\ pc[p] = "decrement"
        /\ counter' = counter - MaxTokens
        /\ debit' = [debit EXCEPT ![p] = Greater(0, share)]
        /\ lent' = [lent EXCEPT ![p] = IF share <= 0 THEN MaxTokens
                                       ELSE overclaim]
        /\ claimed' = [claimed EXCEPT ![Owner[p]] = @ + Greater(0, share)]
        /\ Goto(p, IF overclaim > 0 THEN "restore" ELSE "burn")
        /\ UNCHANGED <<flag, bucketExists, tokens, removed, removals, clears,
                       faulted>>

\* Mutant of Restore: only a member with a debt restores the excess.
RestoreShareOnly(p) ==
    /\ pc[p] = "restore"
    /\ counter' = IF debit[p] > 0 THEN counter + lent[p] ELSE counter
    /\ lent' = [lent EXCEPT ![p] = 0]
    /\ Goto(p, IF debit[p] > 0 THEN "burn" ELSE "charge")
    /\ UNCHANGED <<flag, bucketExists, tokens, debit, removed, claimed,
                   removals, clears, faulted>>

\* The two INCRBY calls: no debt at all, or less than a seat's worth.
Restore(p) ==
    /\ pc[p] = "restore"
    /\ counter' = counter + lent[p]
    /\ lent' = [lent EXCEPT ![p] = 0]
    /\ Goto(p, IF debit[p] > 0 THEN "burn" ELSE "charge")
    /\ UNCHANGED <<flag, bucketExists, tokens, debit, removed, claimed,
                   removals, clears, faulted>>

\* The result of this limit() call is not looked at.
Burn(p) ==
    /\ pc[p] = "burn"
    /\ tokens' = [tokens EXCEPT ![Owner[p]] = AfterDebit(@, debit[p])]
    /\ Goto(p, "charge")
    /\ UNCHANGED <<counter, flag, bucketExists, debit, lent, removed, claimed,
                   removals, clears, faulted>>

\* limit() throws, before or after the script ran.
BurnErrs(p) ==
    /\ pc[p] = "burn"
    /\ tokens' \in {tokens, [tokens EXCEPT ![Owner[p]] =
                                AfterDebit(@, debit[p])]}
    /\ faulted' = TRUE
    /\ Goto(p, "giveBack")
    /\ UNCHANGED <<counter, flag, bucketExists, debit, lent, removed, claimed,
                   removals, clears>>

GiveBack(p) ==
    /\ pc[p] = "giveBack"
    /\ counter' = counter + debit[p]
    /\ claimed' = [claimed EXCEPT ![Owner[p]] = @ - debit[p]]
    /\ Goto(p, "unflag")
    /\ UNCHANGED <<flag, bucketExists, tokens, debit, lent, removed, removals,
                   clears, faulted>>

Unflag(p) ==
    /\ pc[p] = "unflag"
    /\ flag' = [flag EXCEPT ![Owner[p]] = FALSE]
    /\ Goto(p, "charge")
    /\ UNCHANGED <<counter, bucketExists, tokens, debit, lent, removed,
                   claimed, removals, clears, faulted>>

\* Any other command of applyTeamSeatDebt throws without effect: the outer
\* catch swallows the error and the request goes on.  (An error whose command
\* took effect leaves Redis as a crash after it does.)
ApplyErrs(p) ==
    /\ pc[p] \in {"claim", "decrement", "restore", "giveBack", "unflag"}
    /\ faulted' = TRUE
    /\ Goto(p, "charge")
    /\ UNCHANGED <<counter, flag, bucketExists, tokens, debit, lent, removed,
                   claimed, removals, clears>>

Crash(p) ==
    /\ pc[p] \notin {"done", "crashed"}
    /\ faulted' = TRUE
    /\ Goto(p, "crashed")
    /\ UNCHANGED <<counter, flag, bucketExists, tokens, debit, lent, removed,
                   claimed, removals, clears>>

-----------------------------------------------------------------------------
(* The organisation *)

\* addOrgRemovedUsage with what getTeamMemberConsumed read.
AddRemovedUsage ==
    /\ removals < MaxRemovals
    /\ removals' = removals + 1
    /\ \E n \in Debts : counter' = counter + n /\ removed' = removed + n
    /\ UNCHANGED <<flag, bucketExists, tokens, pc, debit, lent, claimed,
                   clears, faulted>>

\* clearOrgRemovedUsage, or the counter's expiry: DEL.
ClearRemovedUsage ==
    /\ clears < MaxClears
    /\ clears' = clears + 1
    /\ counter' = 0
    /\ UNCHANGED <<flag, bucketExists, tokens, pc, debit, lent, removed,
                   claimed, removals, faulted>>

AllDone ==
    /\ \A p \in Requests : pc[p] \in {"done", "crashed"}
    /\ UNCHANGED seatVars

RequestStep(p) ==
    \/ CheckExists(p) \/ Peek(p) \/ Charge(p)
    \/ ClaimFlag(p) \/ Decrement(p) \/ Restore(p)
    \/ Burn(p) \/ BurnErrs(p) \/ GiveBack(p) \/ Unflag(p)
    \/ ApplyErrs(p) \/ Crash(p)

Next ==
    \/ \E p \in Requests : RequestStep(p)
    \/ AddRemovedUsage \/ ClearRemovedUsage
    \/ AllDone

Spec == Init /\ [][Next]_seatVars

-----------------------------------------------------------------------------
(* Properties *)

Labels == {"exists", "peekKnown", "peekNew", "claim", "decrement", "restore",
           "burn", "giveBack", "unflag", "charge", "done", "crashed"}

TypeOK ==
    /\ counter \in Int
    /\ flag \in [Members -> BOOLEAN]
    /\ bucketExists \in [Members -> BOOLEAN]
    /\ tokens \in [Members -> Int]
    /\ pc \in [Requests -> Labels]
    /\ debit \in [Requests -> 0..MaxTokens]
    /\ lent \in [Requests -> 0..MaxTokens]
    /\ removed \in Nat
    /\ claimed \in [Members -> Nat]
    /\ removals \in 0..MaxRemovals
    /\ clears \in 0..MaxClears
    /\ faulted \in BOOLEAN

\* A request between its claim of the flag and the end of applyTeamSeatDebt.
Applying(p) == pc[p] \in {"decrement", "restore", "burn", "giveBack", "unflag"}

\* Two requests of one member never apply the seat debt together, although
\* both may have seen the bucket missing ("Atomically claim the flag").
OneClaimant ==
    \A p, q \in Requests :
        Applying(p) /\ Applying(q) /\ Owner[p] = Owner[q] => p = q

\* Whatever is removed, renewed or retried meanwhile, a member inherits at most
\* one seat's worth of debt ("burns up to one seat's worth").
InheritsAtMostASeat == \A m \in Members : claimed[m] <= MaxTokens

\* The sum of a function of naturals: the number of units it hands out.
Units(f) == UNION {{x} \X (1..f[x]) : x \in DOMAIN f}
Total(f) == Cardinality(Units(f))

\* At rest the counter holds exactly the debt nobody inherited: the transient
\* over-claims of concurrent members have all been restored.
CounterExactAtRest ==
    ~faulted /\ clears = 0 /\ (\A p \in Requests : ~Applying(p)) =>
        counter = removed - Total(claimed)

\* "concurrent new members can't claim the same debt": the program implements
\* the ledger, in which a share comes out of what is owed, through any
\* interleaving, failed call or crash.
Ledger == INSTANCE SeatDebtLedger
            WITH Seat <- MaxTokens,
                 owed <- counter + Total(lent),
                 inherited <- claimed

ImplementsLedger == Ledger!Spec

=============================================================================
