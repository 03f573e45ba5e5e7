--------------------------- MODULE WebhookClaims ---------------------------
(***************************************************************************)
(* At-least-once webhook deliveries made once-only by a claim in the       *)
(* Convex table processed_webhooks: claimWebhookProcessing, the WorkOS     *)
(* route that uses it, finalizeWebhookProcessing, and the daily purge of   *)
(* old rows.  A worker is one delivery being served; its two mutations are *)
(* serialisable, and anything may happen between them.  Time is in units   *)
(* small enough to tell the four durations below apart.                    *)
(***************************************************************************)
EXTENDS Integers

CONSTANTS
    Workers,        \* concurrent route invocations
    Events,         \* webhook event ids
    Birth,          \* when the provider first sends each event
    RetryWindow,    \* the provider's ~72 h of retries
    Runtime,        \* the platform kills an invocation that runs longer
    Stale,          \* STALE_CLAIM_MS
    Retention,      \* the purge's 7 days
    MaxNow          \* bound: the clock's last value

ASSUME ClaimsAssumption ==
    /\ Birth \in [Events -> Nat]
    /\ RetryWindow \in Nat
    /\ Runtime \in Nat
    /\ Stale \in Nat
    /\ Retention \in Nat
    /\ MaxNow \in Nat
    /\ Runtime < Stale
    /\ RetryWindow + Runtime <= Retention

VARIABLES
    now,            \* the clock
    status,         \* status of the event's row, or "absent"
    processedAt,    \* its processed_at
    claimedAt,      \* its claimed_at
    at,             \* where each worker stands
    job,            \* the event it was sent
    started,        \* when its invocation started
    acked,          \* the provider has received a 2xx for the event
    handled,        \* history: the handler ran for the event
    finalized       \* history: the event was marked completed

rowVars    == <<status, processedAt, claimedAt>>
workerVars == <<at, job, started>>
outcomeVars   == <<acked, handled, finalized>>
claimVars  == <<now, rowVars, workerVars, outcomeVars>>

ClaimsInit ==
    /\ now = 0
    /\ status = [e \in Events |-> "absent"]
    /\ processedAt = [e \in Events |-> 0]
    /\ claimedAt = [e \in Events |-> 0]
    /\ at = [w \in Workers |-> "idle"]
    /\ job \in [Workers -> Events]
    /\ started = [w \in Workers |-> 0]
    /\ acked = [e \in Events |-> FALSE]
    /\ handled = [e \in Events |-> FALSE]
    /\ finalized = [e \in Events |-> FALSE]

Move(w, label) == at' = [at EXCEPT ![w] = label]

\* A 2xx response, which may get lost on its way to the provider.
Respond(w) ==
    /\ Move(w, "idle")
    /\ acked' \in {acked, [acked EXCEPT ![job[w]] = TRUE]}

-----------------------------------------------------------------------------
(* The provider, the clock and the platform *)

\* A first delivery, a retry or a duplicate; deliveries of one event overlap.
Deliver(w, e) ==
    /\ at[w] = "idle"
    /\ Birth[e] <= now /\ now <= Birth[e] + RetryWindow
    /\ Move(w, "claim")
    /\ job' = [job EXCEPT ![w] = e]
    /\ started' = [started EXCEPT ![w] = now]
    /\ UNCHANGED <<now, rowVars, outcomeVars>>

\* No invocation outlives Runtime.
Tick ==
    /\ now < MaxNow
    /\ \A w \in Workers : at[w] # "idle" => now < started[w] + Runtime
    /\ now' = now + 1
    /\ UNCHANGED <<rowVars, workerVars, outcomeVars>>

\* The invocation is killed.
Crash(w) ==
    /\ at[w] # "idle"
    /\ Move(w, "idle")
    /\ UNCHANGED <<now, rowVars, job, started, outcomeVars>>

-----------------------------------------------------------------------------
(* claimWebhookProcessing and the route's reaction to its result *)

\* Mutant of ClaimIsStale: the age of the row, not of the claim.
RowIsStale(e) == now - processedAt[e] >= Stale

ClaimIsStale(e) == now - claimedAt[e] >= Stale

CanAcquire(e) ==
    \/ status[e] = "absent"
    \/ status[e] = "pending" /\ ClaimIsStale(e)

\* A new row, or the takeover of a stale claim, which keeps processed_at.
Acquire(e) ==
    /\ CanAcquire(e)
    /\ status' = [status EXCEPT ![e] = "pending"]
    /\ claimedAt' = [claimedAt EXCEPT ![e] = now]
    /\ processedAt' = [processedAt EXCEPT ![e] =
                          IF status[e] = "absent" THEN now ELSE @]

ClaimAcquired(w) ==
    /\ at[w] = "claim"
    /\ Acquire(job[w])
    /\ Move(w, "handle")
    /\ UNCHANGED <<now, job, started, outcomeVars>>

\* already_processed and claim_held are both answered with 200.
ClaimSkipped(w) ==
    /\ at[w] = "claim"
    /\ ~CanAcquire(job[w])
    /\ Respond(w)
    /\ UNCHANGED <<now, rowVars, job, started, handled, finalized>>

\* The mutation throws, before or after it committed: 500.
ClaimErrs(w) ==
    /\ at[w] = "claim"
    /\ Acquire(job[w]) \/ UNCHANGED rowVars
    /\ Move(w, "idle")
    /\ UNCHANGED <<now, job, started, outcomeVars>>

-----------------------------------------------------------------------------
(* The handler, and finalizeWebhookProcessing *)

Handle(w) ==
    /\ at[w] = "handle"
    /\ handled' = [handled EXCEPT ![job[w]] = TRUE]
    /\ Move(w, "finalize")
    /\ UNCHANGED <<now, rowVars, job, started, acked, finalized>>

\* 500; the claim stays.
HandlerFails(w) ==
    /\ at[w] = "handle"
    /\ Move(w, "idle")
    /\ UNCHANGED <<now, rowVars, job, started, outcomeVars>>

\* Patches the row whoever holds it; a missing row is tolerated.
Finalize(w) ==
    LET e == job[w]
    IN  /\ at[w] = "finalize"
        /\ IF status[e] = "absent" THEN UNCHANGED <<status, processedAt>>
           ELSE /\ status' = [status EXCEPT ![e] = "completed"]
                /\ processedAt' = [processedAt EXCEPT ![e] = now]
        /\ finalized' = [finalized EXCEPT ![e] = TRUE]
        /\ Respond(w)
        /\ UNCHANGED <<now, claimedAt, job, started, handled>>

\* The mutation throws without effect; the answer is 200 all the same.
FinalizeErrs(w) ==
    /\ at[w] = "finalize"
    /\ Respond(w)
    /\ UNCHANGED <<now, rowVars, job, started, handled, finalized>>

-----------------------------------------------------------------------------
(* purgeOldProcessedWebhooks *)

\* Mutant of PastRetention: rows go as soon as a claim on them could be stale.
PastStale(e) == processedAt[e] < now - Stale

PastRetention(e) == processedAt[e] < now - Retention

\* The batches of one run of the cron delete some of the rows past retention,
\* whatever their status.
Purge ==
    /\ \E rows \in SUBSET {e \in Events : status[e] # "absent"
                                            /\ PastRetention(e)} :
          /\ rows # {}
          /\ status' = [e \in Events |->
                           IF e \in rows THEN "absent" ELSE status[e]]
    /\ UNCHANGED <<now, processedAt, claimedAt, workerVars, outcomeVars>>

WorkerStep(w) ==
    \/ \E e \in Events : Deliver(w, e)
    \/ ClaimAcquired(w) \/ ClaimSkipped(w) \/ ClaimErrs(w)
    \/ Handle(w) \/ HandlerFails(w)
    \/ Finalize(w) \/ FinalizeErrs(w)
    \/ Crash(w)

\* The end of the bounded clock.
Stopped ==
    /\ now = MaxNow
    /\ UNCHANGED claimVars

ClaimsNext ==
    \/ \E w \in Workers : WorkerStep(w)
    \/ Tick \/ Purge \/ Stopped

ClaimsSpec == ClaimsInit /\ [][ClaimsNext]_claimVars

-----------------------------------------------------------------------------
(* Properties *)

Labels == {"idle", "claim", "handle", "finalize"}

ClaimsTypeOK ==
    /\ now \in 0..MaxNow
    /\ status \in [Events -> {"absent", "pending", "completed"}]
    /\ processedAt \in [Events -> 0..now]
    /\ claimedAt \in [Events -> 0..now]
    /\ at \in [Workers -> Labels]
    /\ job \in [Workers -> Events]
    /\ started \in [Workers -> 0..now]
    /\ acked \in [Events -> BOOLEAN]
    /\ handled \in [Events -> BOOLEAN]
    /\ finalized \in [Events -> BOOLEAN]

\* The worker has been told "acquired" and has not finished.
Owns(w) == at[w] \in {"handle", "finalize"}

\* Overlapping deliveries never process an event together: a takeover only
\* replaces a worker the platform has killed ("a still-running first attempt
\* is not pre-empted"), and the purge frees no claim that is in use.
OneOwner ==
    \A w1, w2 \in Workers :
        Owns(w1) /\ Owns(w2) /\ job[w1] = job[w2] => w1 = w2

\* A completed event is never processed again, not even after the purge has
\* deleted its row: late deliveries, takeovers and purges all come too early
\* or too late ("retention of a week is plenty").
CompletedStaysCompleted ==
    \A w \in Workers : Owns(w) => ~finalized[job[w]]

-----------------------------------------------------------------------------
(* What a comment of the source says, and the code does not do *)

\* "skip with 200 (the holder will finalize, or its claim will expire and a
\* future retry takes over)": the provider is not told that an event was
\* received unless it was handled, or someone is still at it.
AckedMeansHandled ==
    \A e \in Events :
        acked[e] => handled[e] \/ \E w \in Workers : Owns(w) /\ job[w] = e
=============================================================================
