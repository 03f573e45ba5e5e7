----------------------- MODULE ProcessedWebhooksProofs ----------------------
(***************************************************************************)
(* Proofs about the two modules that rest on the table processed_webhooks: *)
(* WebhookClaims, whose claims are its rows, and TeamPool, whose purchases *)
(* must be credited once although its rows are purged.                     *)
(*                                                                         *)
(* WebhookClaims: for any workers and events and any durations with        *)
(* Runtime < Stale and RetryWindow + Runtime <= Retention.  OneOwner is    *)
(* not inductive: ClaimsInv ties a worker that owns an event to the        *)
(* event's row and both to the clock.                                      *)
(*                                                                         *)
(* TeamPool: for any members, requests, amounts, caps and months.  The     *)
(* counters of its two tables are tied to what was really drawn: the       *)
(* team's exactly, a member's up to the refunds of draws of earlier        *)
(* months.                                                                 *)
(***************************************************************************)
EXTENDS WebhookClaims, TeamPool, TLAPS

-----------------------------------------------------------------------------
(* The claims *)

\* An invocation is young, and was sent within the provider's window.
Timely ==
    \A w \in Workers : at[w] # "idle" =>
        /\ now <= started[w] + Runtime
        /\ Birth[job[w]] <= started[w]
        /\ started[w] <= Birth[job[w]] + RetryWindow

\* An owner's row is pending, on a claim made during its invocation.
Held ==
    \A w \in Workers : Owns(w) =>
        /\ status[job[w]] = "pending"
        /\ started[w] <= claimedAt[job[w]]

\* No row is written before its event is first sent.
RowsBorn ==
    \A e \in Events : status[e] # "absent" => Birth[e] <= processedAt[e]

TooLate(e) == now > Birth[e] + RetryWindow + Runtime

\* A completed row only disappears when no delivery can still be running.
FinalizedInv ==
    \A e \in Events : finalized[e] => status[e] = "completed" \/ TooLate(e)

ClaimsInv ==
    ClaimsTypeOK /\ Timely /\ Held /\ RowsBorn /\ FinalizedInv /\ OneOwner

LEMMA InitClaims == ClaimsInit => ClaimsInv
  BY ClaimsAssumption
     DEF ClaimsInit, ClaimsInv, ClaimsTypeOK, Labels, Timely, Held, RowsBorn,
         FinalizedInv, OneOwner, Owns

\* While anybody serves an event, it is not too late for it.
LEMMA ServedInTime ==
    ASSUME ClaimsTypeOK, Timely, NEW w \in Workers, at[w] # "idle"
    PROVE  ~TooLate(job[w])
  BY ClaimsAssumption DEF ClaimsTypeOK, Timely, TooLate

\* An event whose claim can be acquired has no owner: a claim is stale only
\* after the platform has killed its owner.
LEMMA AcquireFindsNoOwner ==
    ASSUME ClaimsTypeOK, Timely, Held, NEW e \in Events, CanAcquire(e),
           NEW w \in Workers, job[w] = e
    PROVE  ~Owns(w)
<1>1. SUFFICES ASSUME Owns(w) PROVE FALSE
  OBVIOUS
<1>2. status[e] = "pending" /\ started[w] <= claimedAt[e]
  BY <1>1 DEF Held
<1>3. now - claimedAt[e] >= Stale
  BY <1>2 DEF CanAcquire, ClaimIsStale
<1>4. now <= started[w] + Runtime
  BY <1>1 DEF Timely, Owns
<1> QED
  BY <1>2, <1>3, <1>4, ClaimsAssumption DEF ClaimsTypeOK

-----------------------------------------------------------------------------
(* Steps that acquire a claim *)

LEMMA AcquireKeepsRows ==
    ASSUME ClaimsInv, NEW e \in Events, Acquire(e),
           UNCHANGED <<now, outcomeVars>>, Birth[e] <= now, ~TooLate(e)
    PROVE  /\ status' \in [Events -> {"absent", "pending", "completed"}]
           /\ processedAt' \in [Events -> 0..now]
           /\ claimedAt' \in [Events -> 0..now]
           /\ RowsBorn'
           /\ ~finalized[e]
           /\ FinalizedInv'
<1> USE ClaimsAssumption DEF ClaimsInv, ClaimsTypeOK, Acquire
<1>1. now \in 0..now
  OBVIOUS
<1>2. RowsBorn'
  BY DEF RowsBorn
<1>3. ~finalized[e]
  BY DEF FinalizedInv, CanAcquire
<1>4. FinalizedInv'
  BY <1>3 DEF FinalizedInv, TooLate, outcomeVars
<1> QED
  BY <1>1, <1>2, <1>3, <1>4

LEMMA AcquireStep ==
    ASSUME ClaimsInv, NEW w \in Workers, at[w] = "claim",
           Acquire(job[w]), Move(w, "handle") \/ Move(w, "idle"),
           UNCHANGED <<now, job, started, outcomeVars>>
    PROVE  ClaimsInv'
<1> DEFINE e == job[w]
<1>1. e \in Events /\ at[w] # "idle" /\ ~TooLate(e) /\ Birth[e] <= now
  <2>1. e \in Events /\ at[w] # "idle" /\ Birth[e] <= started[w]
           /\ started[w] <= now
    BY DEF ClaimsInv, ClaimsTypeOK, Timely
  <2> QED
    BY <2>1, ServedInTime, ClaimsAssumption DEF ClaimsInv, ClaimsTypeOK
<1>2. /\ status' \in [Events -> {"absent", "pending", "completed"}]
      /\ processedAt' \in [Events -> 0..now]
      /\ claimedAt' \in [Events -> 0..now]
      /\ RowsBorn'
      /\ ~finalized[e]
      /\ FinalizedInv'
  BY <1>1, AcquireKeepsRows
<1>3. \A v \in Workers : job[v] = e => ~Owns(v)
  BY <1>1, AcquireFindsNoOwner DEF ClaimsInv, Acquire
<1>4. at' \in [Workers -> Labels]
        /\ \A v \in Workers \ {w} : at'[v] = at[v]
  BY DEF ClaimsInv, ClaimsTypeOK, Move, Labels
<1>5. ClaimsTypeOK'
  BY <1>2, <1>4 DEF ClaimsInv, ClaimsTypeOK, outcomeVars
<1>6. Timely'
  BY <1>1, <1>4 DEF ClaimsInv, Timely, Move, ClaimsTypeOK
<1>7. Held'
  <2> SUFFICES ASSUME NEW v \in Workers, Owns(v)'
               PROVE  status'[job[v]] = "pending"
                        /\ started[v] <= claimedAt'[job[v]]
    BY DEF Held
  <2>1. CASE v = w
    BY <2>1, <1>1 DEF ClaimsInv, ClaimsTypeOK, Acquire
  <2>2. CASE v # w
    <3>1. Owns(v) /\ job[v] # e
      BY <2>2, <1>3, <1>4 DEF Owns
    <3> QED
      BY <3>1, <1>1 DEF ClaimsInv, ClaimsTypeOK, Acquire, Held
  <2> QED
    BY <2>1, <2>2
<1>8. OneOwner'
  BY <1>3, <1>4 DEF ClaimsInv, OneOwner, Owns
<1> QED
  BY <1>2, <1>5, <1>6, <1>7, <1>8 DEF ClaimsInv

-----------------------------------------------------------------------------
(* Every step keeps the invariant *)

\* A worker that stops, or goes from its handler to its finalisation.
LEMMA WorkerMovesOn ==
    ASSUME ClaimsInv, NEW w \in Workers, NEW label \in {"idle", "finalize"},
           at[w] # "idle", label = "finalize" => at[w] = "handle",
           Move(w, label), UNCHANGED <<now, rowVars, job, started, finalized>>,
           acked' \in [Events -> BOOLEAN], handled' \in [Events -> BOOLEAN]
    PROVE  ClaimsInv'
<1>0. at' \in [Workers -> Labels]
        /\ \A v \in Workers : at'[v] # "idle" => at[v] # "idle"
  BY DEF ClaimsInv, ClaimsTypeOK, Move, Labels
<1>1. \A v \in Workers : Owns(v)' => Owns(v)
  BY DEF ClaimsInv, ClaimsTypeOK, Move, Owns
<1>2. ClaimsTypeOK'
  BY <1>0 DEF ClaimsInv, ClaimsTypeOK, rowVars
<1>3. RowsBorn' /\ FinalizedInv'
  BY DEF ClaimsInv, RowsBorn, FinalizedInv, TooLate, rowVars
<1>5. Timely'
  <2> SUFFICES ASSUME NEW v \in Workers, at'[v] # "idle"
               PROVE  /\ now <= started[v] + Runtime
                      /\ Birth[job[v]] <= started[v]
                      /\ started[v] <= Birth[job[v]] + RetryWindow
    BY DEF Timely
  <2> QED
    BY <1>0 DEF ClaimsInv, Timely
<1>4. Held' /\ OneOwner'
  BY <1>1 DEF ClaimsInv, Held, OneOwner, rowVars
<1> QED
  BY <1>2, <1>3, <1>4, <1>5 DEF ClaimsInv

LEMMA DeliverStep ==
    ASSUME ClaimsInv, NEW w \in Workers, NEW e \in Events, Deliver(w, e)
    PROVE  ClaimsInv'
<1>0. at' \in [Workers -> Labels]
        /\ \A v \in Workers \ {w} : at'[v] = at[v] /\ job'[v] = job[v]
                                       /\ started'[v] = started[v]
  BY DEF ClaimsInv, ClaimsTypeOK, Deliver, Move, Labels
<1>1. \A v \in Workers : Owns(v)' => Owns(v) /\ v # w
  BY DEF ClaimsInv, ClaimsTypeOK, Deliver, Move, Owns
<1>2. job' \in [Workers -> Events] /\ job'[w] = e
        /\ started' \in [Workers -> 0..now] /\ started'[w] = now
  BY DEF ClaimsInv, ClaimsTypeOK, Deliver
<1>3. ClaimsTypeOK'
  BY <1>0, <1>2 DEF ClaimsInv, ClaimsTypeOK, Deliver, rowVars, outcomeVars
<1>4. Timely'
  <2> SUFFICES ASSUME NEW v \in Workers, at'[v] # "idle"
               PROVE  /\ now' <= started'[v] + Runtime
                      /\ Birth[job'[v]] <= started'[v]
                      /\ started'[v] <= Birth[job'[v]] + RetryWindow
    BY DEF Timely
  <2>1. CASE v = w
    BY <1>2, <2>1, ClaimsAssumption DEF ClaimsInv, ClaimsTypeOK, Deliver
  <2>2. CASE v # w
    <3>1. at[v] # "idle" /\ job'[v] = job[v] /\ started'[v] = started[v]
      BY <1>0, <2>2
    <3>2. now' = now
      BY DEF Deliver
    <3> QED
      BY <3>1, <3>2 DEF ClaimsInv, Timely
  <2> QED
    BY <2>1, <2>2
<1>5. RowsBorn' /\ FinalizedInv'
  BY DEF ClaimsInv, RowsBorn, FinalizedInv, TooLate, Deliver, rowVars,
         outcomeVars
<1>6. Held' /\ OneOwner'
  BY <1>0, <1>1 DEF ClaimsInv, Held, OneOwner, Deliver, rowVars
<1> QED
  BY <1>3, <1>4, <1>5, <1>6 DEF ClaimsInv

LEMMA FinalizeStep ==
    ASSUME ClaimsInv, NEW w \in Workers, Finalize(w)
    PROVE  ClaimsInv'
<1> DEFINE e == job[w]
<1>1. e \in Events /\ at[w] = "finalize" /\ Owns(w) /\ status[e] = "pending"
  BY DEF ClaimsInv, ClaimsTypeOK, Finalize, Owns, Held
<1>2. /\ status' = [status EXCEPT ![e] = "completed"]
      /\ processedAt' = [processedAt EXCEPT ![e] = now]
      /\ finalized' = [finalized EXCEPT ![e] = TRUE]
      /\ UNCHANGED <<now, claimedAt, job, started, handled>>
  BY <1>1 DEF Finalize
<1>3. at' = [at EXCEPT ![w] = "idle"] /\ acked' \in [Events -> BOOLEAN]
  BY DEF Finalize, Respond, Move, ClaimsInv, ClaimsTypeOK
<1>4. \A v \in Workers : Owns(v)' => Owns(v) /\ job[v] # e
  BY <1>1, <1>3 DEF ClaimsInv, ClaimsTypeOK, OneOwner, Owns
<1>5. ClaimsTypeOK'
  <2>1. now \in 0..now
    BY DEF ClaimsInv, ClaimsTypeOK
  <2>2. /\ at' \in [Workers -> Labels]
        /\ status' \in [Events -> {"absent", "pending", "completed"}]
        /\ finalized' \in [Events -> BOOLEAN]
    BY <1>2, <1>3 DEF ClaimsInv, ClaimsTypeOK, Labels
  <2>3. processedAt' \in [Events -> 0..now]
    BY <1>2, <2>1 DEF ClaimsInv, ClaimsTypeOK
  <2> QED
    BY <1>2, <1>3, <2>2, <2>3 DEF ClaimsInv, ClaimsTypeOK
<1>6. Timely'
  BY <1>2, <1>3 DEF ClaimsInv, ClaimsTypeOK, Timely
<1>7. RowsBorn'
  <2>1. Birth[e] <= now
    BY <1>1, ClaimsAssumption DEF ClaimsInv, ClaimsTypeOK, Timely
  <2> QED
    BY <1>1, <1>2, <2>1 DEF ClaimsInv, ClaimsTypeOK, RowsBorn
<1>8. FinalizedInv'
  BY <1>1, <1>2 DEF ClaimsInv, ClaimsTypeOK, FinalizedInv, TooLate
<1>9. Held' /\ OneOwner'
  BY <1>1, <1>2, <1>4 DEF ClaimsInv, ClaimsTypeOK, Held, OneOwner
<1> QED
  BY <1>5, <1>6, <1>7, <1>8, <1>9 DEF ClaimsInv

LEMMA TickStep == ASSUME ClaimsInv, Tick PROVE ClaimsInv'
<1>1. /\ now' = now + 1 /\ now' \in 0..MaxNow
      /\ UNCHANGED <<rowVars, workerVars, outcomeVars>>
  BY ClaimsAssumption DEF ClaimsInv, ClaimsTypeOK, Tick
<1>2. ClaimsTypeOK'
  BY <1>1 DEF ClaimsInv, ClaimsTypeOK, rowVars, workerVars, outcomeVars
<1>3. Timely'
  BY <1>1, ClaimsAssumption
     DEF ClaimsInv, ClaimsTypeOK, Tick, Timely, workerVars
<1>4. RowsBorn' /\ Held' /\ OneOwner'
  BY <1>1 DEF ClaimsInv, RowsBorn, Held, OneOwner, Owns, rowVars, workerVars
<1>5. FinalizedInv'
  BY <1>1, ClaimsAssumption
     DEF ClaimsInv, ClaimsTypeOK, FinalizedInv, TooLate, rowVars, outcomeVars
<1> QED
  BY <1>2, <1>3, <1>4, <1>5 DEF ClaimsInv

\* The purge deletes no row that has an owner, and no completed row of an
\* event that can still be delivered.
LEMMA ClaimsPurgeStep == ASSUME ClaimsInv, Purge PROVE ClaimsInv'
<1>1. PICK rows \in SUBSET {e \in Events : status[e] # "absent"
                                             /\ PastRetention(e)} :
         status' = [e \in Events |->
                       IF e \in rows THEN "absent" ELSE status[e]]
  BY DEF Purge
<1>2. UNCHANGED <<now, processedAt, claimedAt, at, job, started, acked,
                  handled, finalized>>
  BY DEF Purge, workerVars, outcomeVars
<1>3. \A e \in rows : e \in Events /\ TooLate(e)
  BY ClaimsAssumption
     DEF ClaimsInv, ClaimsTypeOK, RowsBorn, PastRetention, TooLate
<1>4. \A w \in Workers : Owns(w) => job[w] \notin rows
  BY <1>3, ServedInTime DEF ClaimsInv, Owns
<1>5. ClaimsTypeOK' /\ Timely' /\ OneOwner'
  BY <1>1, <1>2 DEF ClaimsInv, ClaimsTypeOK, Timely, OneOwner, Owns
<1>6. Held'
  BY <1>1, <1>2, <1>4 DEF ClaimsInv, ClaimsTypeOK, Held, Owns
<1>7. RowsBorn'
  BY <1>1, <1>2 DEF ClaimsInv, RowsBorn
<1>8. FinalizedInv'
  BY <1>1, <1>2, <1>3 DEF ClaimsInv, FinalizedInv, TooLate
<1> QED
  BY <1>5, <1>6, <1>7, <1>8 DEF ClaimsInv

LEMMA StopStep ==
    ASSUME ClaimsInv, NEW w \in Workers,
           \/ Crash(w) \/ ClaimSkipped(w) \/ Handle(w) \/ HandlerFails(w)
           \/ FinalizeErrs(w)
           \/ ClaimErrs(w) /\ UNCHANGED rowVars
    PROVE  ClaimsInv'
<1>1. \/ Move(w, "idle") /\ at[w] # "idle"
      \/ Move(w, "finalize") /\ at[w] = "handle"
  BY DEF Crash, ClaimSkipped, ClaimErrs, Handle, HandlerFails, FinalizeErrs,
         Respond
<1>2. UNCHANGED <<now, rowVars, job, started, finalized>>
  BY DEF Crash, ClaimSkipped, ClaimErrs, Handle, HandlerFails, FinalizeErrs,
         outcomeVars
<1>3. acked' \in [Events -> BOOLEAN] /\ handled' \in [Events -> BOOLEAN]
  BY DEF ClaimsInv, ClaimsTypeOK, Crash, ClaimSkipped, ClaimErrs, Handle,
         HandlerFails, FinalizeErrs, Respond, outcomeVars
<1> QED
  BY <1>1, <1>2, <1>3, WorkerMovesOn

LEMMA NextKeepsClaims == ClaimsInv /\ [ClaimsNext]_claimVars => ClaimsInv'
<1> SUFFICES ASSUME ClaimsInv, [ClaimsNext]_claimVars PROVE ClaimsInv'
  OBVIOUS
<1>1. ASSUME NEW w \in Workers, WorkerStep(w) PROVE ClaimsInv'
  <2>1. ASSUME NEW e \in Events, Deliver(w, e) PROVE ClaimsInv'
    BY <2>1, DeliverStep
  <2>2. CASE ClaimAcquired(w)
    BY <2>2, AcquireStep DEF ClaimAcquired
  <2>3. CASE ClaimErrs(w)
    <3>1. CASE UNCHANGED rowVars
      BY <2>3, <3>1, StopStep
    <3>2. CASE Acquire(job[w])
      BY <2>3, <3>2, AcquireStep DEF ClaimErrs
    <3> QED
      BY <2>3, <3>1, <3>2 DEF ClaimErrs
  <2>4. CASE Finalize(w)
    BY <2>4, FinalizeStep
  <2>5. CASE Crash(w) \/ ClaimSkipped(w) \/ Handle(w)
    BY <2>5, StopStep
  <2>6. CASE HandlerFails(w)
    BY <2>6, StopStep
  <2>7. CASE FinalizeErrs(w)
    BY <2>7, StopStep
  <2> QED
    BY <1>1, <2>1, <2>2, <2>3, <2>4, <2>5, <2>6, <2>7 DEF WorkerStep
<1>2. CASE Tick
  BY <1>2, TickStep
<1>3. CASE Purge
  BY <1>3, ClaimsPurgeStep
<1>4. CASE UNCHANGED claimVars
  BY <1>4
     DEF ClaimsInv, ClaimsTypeOK, Timely, Held, RowsBorn, FinalizedInv,
         TooLate, OneOwner, Owns, claimVars, rowVars, workerVars, outcomeVars
<1> QED
  BY <1>1, <1>2, <1>3, <1>4 DEF ClaimsNext, Stopped

-----------------------------------------------------------------------------
\* The inductive invariant holds in every reachable state.
THEOREM ClaimsCorrect == ClaimsSpec => []ClaimsInv
  BY InitClaims, NextKeepsClaims, PTL DEF ClaimsSpec

\* Every row and worker keeps its type, and no timestamp lies ahead.
THEOREM ClaimsTypeCorrect == ClaimsSpec => []ClaimsTypeOK
<1>1. ClaimsInv => ClaimsTypeOK
  BY DEF ClaimsInv
<1> QED
  BY <1>1, ClaimsCorrect, PTL

\* Two deliveries never process one event together (claimWebhookProcessing).
THEOREM OneOwnerCorrect == ClaimsSpec => []OneOwner
<1>1. ClaimsInv => OneOwner
  BY DEF ClaimsInv
<1> QED
  BY <1>1, ClaimsCorrect, PTL

\* A completed event is never processed again (finalizeWebhookProcessing and
\* the purge of its row).
THEOREM CompletedCorrect == ClaimsSpec => []CompletedStaysCompleted
<1>1. ClaimsInv => CompletedStaysCompleted
  <2> SUFFICES ASSUME ClaimsInv, NEW w \in Workers, Owns(w)
               PROVE  ~finalized[job[w]]
    BY DEF CompletedStaysCompleted
  <2>1. job[w] \in Events /\ at[w] # "idle" /\ status[job[w]] = "pending"
    BY DEF ClaimsInv, ClaimsTypeOK, Owns, Held
  <2>2. ~TooLate(job[w])
    BY <2>1, ServedInTime DEF ClaimsInv
  <2> QED
    BY <2>1, <2>2 DEF ClaimsInv, FinalizedInv
<1> QED
  BY <1>1, ClaimsCorrect, PTL

-----------------------------------------------------------------------------
(* The pool *)

TeamCounter == teamReset <= month /\ teamDrawn = TeamSpentNow

MemberCounter(m) ==
    spentReset[m] <= month /\ net[m] <= MemberSpentNow(m) + late[m]

CreditInv ==
    /\ sessions = {k \in Keys : credited[k] # 0}
    /\ CreditedOnce

PoolInv ==
    /\ TypeOK
    /\ TeamCounter
    /\ \A m \in Members : MemberCounter(m)
    /\ CreditInv

LEMMA InitPool == Init => PoolInv
<1> SUFFICES ASSUME Init PROVE PoolInv
  OBVIOUS
<1> USE PoolAssumption DEF Init
<1>1. 0 \in 0..MaxMonth /\ -1 \in Months
  BY DEF Months
<1>2. /\ month \in 0..MaxMonth /\ balance \in Nat /\ teamSpent \in Nat
      /\ teamReset \in Months /\ teamDrawn \in Nat
      /\ teamCap \in Nat \cup {NoCap}
      /\ memberCap \in [Members -> Nat \cup {NoCap}]
  BY <1>1
<1>3. /\ spent \in [Members -> Nat] /\ spentReset \in [Members -> Months]
      /\ net \in [Members -> Int] /\ late \in [Members -> Nat]
      /\ disabled \in [Members -> BOOLEAN]
  BY <1>1
<1>4. /\ pc \in [Requests -> {"ready", "drawn", "refused", "refunded", "kept"}]
      /\ amount \in [Requests -> Nat] /\ drawnIn \in [Requests -> 0..MaxMonth]
  BY <1>1
<1>5. /\ sessions \in SUBSET Keys /\ webhooks \in SUBSET Keys
      /\ credited \in [Keys -> Nat]
  OBVIOUS
<1>6. enabled \in BOOLEAN
  BY Zenon
<1>7. TypeOK
  BY <1>2, <1>3, <1>4, <1>5, <1>6 DEF TypeOK
<1>8. TeamCounter /\ (\A m \in Members : MemberCounter(m))
  BY DEF TeamCounter, TeamSpentNow, MemberCounter, MemberSpentNow
<1>9. CreditInv
  BY DEF CreditInv, CreditedOnce
<1> QED
  BY <1>7, <1>8, <1>9 DEF PoolInv

-----------------------------------------------------------------------------
(* Draws and refunds *)

LEMMA DrawFacts ==
    ASSUME PoolInv, NEW r \in Requests, NEW n \in Amounts, Draw(r, n)
    PROVE  /\ balance' \in Nat /\ teamSpent' \in Nat /\ teamReset' \in Months
           /\ spent' \in [Members -> Nat]
           /\ spentReset' \in [Members -> Months]
           /\ amount' \in [Requests -> Nat]
           /\ drawnIn' \in [Requests -> 0..MaxMonth]
           /\ teamDrawn' \in Nat
           /\ net' \in [Members -> Int]
           /\ TeamCounter'
           /\ \A m \in Members : MemberCounter(m)'
<1> DEFINE m0 == Owner[r]
<1>1. /\ m0 \in Members /\ n \in Nat /\ n <= balance
      /\ month \in 0..MaxMonth /\ month \in Months /\ month \in Int
  <2>1. m0 \in Members /\ n \in Nat
    BY PoolAssumption
  <2>2. n <= balance
    BY DEF Draw, CanDraw
  <2>3. month \in 0..MaxMonth
    BY DEF PoolInv, TypeOK
  <2>4. month \in Months /\ month \in Int
    BY <2>3, PoolAssumption DEF Months
  <2> QED
    BY <2>1, <2>2, <2>3, <2>4
<1>2. TeamSpentNow \in Nat /\ MemberSpentNow(m0) \in Nat
  BY <1>1 DEF PoolInv, TypeOK, TeamSpentNow, MemberSpentNow
<1>3. /\ balance' = balance - n /\ month' = month
      /\ teamSpent' = TeamSpentNow + n /\ teamReset' = month
      /\ spent' = [spent EXCEPT ![m0] = MemberSpentNow(m0) + n]
      /\ spentReset' = [spentReset EXCEPT ![m0] = month]
      /\ amount' = [amount EXCEPT ![r] = n]
      /\ drawnIn' = [drawnIn EXCEPT ![r] = month]
      /\ teamDrawn' = teamDrawn + n
      /\ net' = [net EXCEPT ![m0] = @ + n]
      /\ late' = late
  BY DEF Draw
<1> HIDE DEF m0
<1>4. balance' \in Nat /\ teamSpent' \in Nat /\ teamReset' \in Months
        /\ teamDrawn' \in Nat
  BY <1>1, <1>2, <1>3 DEF PoolInv, TypeOK
<1>5. /\ spent' \in [Members -> Nat] /\ spentReset' \in [Members -> Months]
      /\ net' \in [Members -> Int]
  BY <1>1, <1>2, <1>3 DEF PoolInv, TypeOK
<1>6. amount' \in [Requests -> Nat] /\ drawnIn' \in [Requests -> 0..MaxMonth]
  BY <1>1, <1>3 DEF PoolInv, TypeOK
<1>7. TeamCounter'
  BY <1>1, <1>2, <1>3 DEF PoolInv, TeamCounter, TeamSpentNow
<1>8. ASSUME NEW m \in Members PROVE MemberCounter(m)'
  <2>1. MemberCounter(m) /\ net[m] \in Int /\ late[m] \in Nat
    BY DEF PoolInv, TypeOK
  <2>2. CASE m = m0
    <3>1. spentReset'[m] = month /\ spent'[m] = MemberSpentNow(m) + n
            /\ net'[m] = net[m] + n /\ late'[m] = late[m]
      BY <1>3, <2>2 DEF PoolInv, TypeOK
    <3>2. MemberSpentNow(m)' = MemberSpentNow(m) + n
      BY <1>3, <3>1 DEF MemberSpentNow
    <3> QED
      BY <1>1, <1>2, <1>3, <2>1, <2>2, <3>1, <3>2 DEF MemberCounter
  <2>3. CASE m # m0
    <3>1. spentReset'[m] = spentReset[m] /\ spent'[m] = spent[m]
            /\ net'[m] = net[m] /\ late'[m] = late[m]
      BY <1>3, <2>3 DEF PoolInv, TypeOK
    <3> QED
      BY <1>3, <2>1, <3>1 DEF MemberCounter, MemberSpentNow
  <2> QED
    BY <2>2, <2>3
<1> QED
  BY <1>4, <1>5, <1>6, <1>7, <1>8

LEMMA DeductStep ==
    ASSUME PoolInv, NEW r \in Requests, DeductTeamPoints(r)
    PROVE  PoolInv'
<1>1. PICK n \in Amounts : Draw(r, n)
  BY DEF DeductTeamPoints
<1>2. pc' \in [Requests ->
                 {"ready", "drawn", "refused", "refunded", "kept"}]
  BY DEF DeductTeamPoints, Goto, PoolInv, TypeOK
<1>3. UNCHANGED <<month, enabled, teamCap, disabled, memberCap, sessions,
                  webhooks, credited, late>>
  BY <1>1 DEF Draw, creditVars
<1>4. TypeOK'
  BY <1>1, <1>2, <1>3, DrawFacts DEF PoolInv, TypeOK
<1>5. CreditInv'
  BY <1>3 DEF PoolInv, CreditInv, CreditedOnce
<1> QED
  BY <1>1, <1>4, <1>5, DrawFacts DEF PoolInv

LEMMA RefundStep ==
    ASSUME PoolInv, NEW r \in Requests, RefundTeamPoints(r)
    PROVE  PoolInv'
<1> DEFINE m0 == Owner[r]
           n  == amount[r]
<1>1. m0 \in Members /\ n \in Nat
  BY PoolAssumption DEF PoolInv, TypeOK
<1>2. /\ balance' = balance + n
      /\ spent' = [spent EXCEPT ![m0] = Less(@, n)]
      /\ \/ net' = [net EXCEPT ![m0] = @ - n] /\ late' = late
         \/ late' = [late EXCEPT ![m0] = @ + n] /\ net' = net
      /\ pc' = [pc EXCEPT ![r] = "refunded"]
      /\ UNCHANGED <<month, enabled, teamCap, teamSpent, teamReset, disabled,
                     memberCap, spentReset, sessions, webhooks, credited,
                     amount, drawnIn, teamDrawn>>
  BY DEF RefundTeamPoints, Goto, creditVars
<1> HIDE DEF m0, n
<1>3. \A s \in Nat : Less(s, n) \in Nat /\ Less(s, n) >= s - n
  BY <1>1 DEF Less
<1>4. spent' \in [Members -> Nat]
  BY <1>1, <1>2, <1>3 DEF PoolInv, TypeOK
<1>5. net' \in [Members -> Int] /\ late' \in [Members -> Nat]
  BY <1>1, <1>2 DEF PoolInv, TypeOK
<1>6. balance' \in Nat
  BY <1>1, <1>2 DEF PoolInv, TypeOK
<1>7. TypeOK'
  BY <1>2, <1>4, <1>5, <1>6 DEF PoolInv, TypeOK
<1>8. TeamCounter'
  BY <1>2 DEF PoolInv, TeamCounter, TeamSpentNow
<1>9. ASSUME NEW m \in Members PROVE MemberCounter(m)'
  <2>1. MemberCounter(m) /\ net[m] \in Int /\ late[m] \in Nat
          /\ spent[m] \in Nat
    BY DEF PoolInv, TypeOK
  <2>2. CASE m = m0
    <3>1. spent'[m] = Less(spent[m], n)
      BY <1>2, <2>2 DEF PoolInv, TypeOK
    <3>2. \/ net'[m] = net[m] - n /\ late'[m] = late[m]
          \/ net'[m] = net[m] /\ late'[m] = late[m] + n
      BY <1>2, <2>2 DEF PoolInv, TypeOK
    <3>3. Less(spent[m], n) \in Nat /\ Less(spent[m], n) >= spent[m] - n
      BY <1>3, <2>1
    <3>4. spentReset' = spentReset /\ month' = month
      BY <1>2
    <3> QED
      BY <1>1, <2>1, <3>1, <3>2, <3>3, <3>4 DEF MemberCounter, MemberSpentNow
  <2>3. CASE m # m0
    <3>1. spent'[m] = spent[m] /\ net'[m] = net[m] /\ late'[m] = late[m]
      BY <1>2, <2>3 DEF PoolInv, TypeOK
    <3> QED
      BY <1>2, <2>1, <3>1 DEF MemberCounter, MemberSpentNow
  <2> QED
    BY <2>2, <2>3
<1>10. CreditInv'
  BY <1>2 DEF PoolInv, CreditInv, CreditedOnce
<1> QED
  BY <1>7, <1>8, <1>9, <1>10 DEF PoolInv

-----------------------------------------------------------------------------
(* The other steps *)

\* Steps that leave the counters and what they are tied to alone.
LEMMA CountersKept ==
    ASSUME PoolInv,
           UNCHANGED <<month, teamSpent, teamReset, spent, spentReset,
                       teamDrawn, net, late>>
    PROVE  TeamCounter' /\ \A m \in Members : MemberCounter(m)'
  BY DEF PoolInv, TeamCounter, TeamSpentNow, MemberCounter, MemberSpentNow

LEMMA EndStep ==
    ASSUME PoolInv, NEW r \in Requests, DeductRefused(r) \/ Keep(r)
    PROVE  PoolInv'
<1>1. /\ pc' \in [Requests ->
                    {"ready", "drawn", "refused", "refunded", "kept"}]
      /\ UNCHANGED <<month, teamVars, memberVars, creditVars, amount, drawnIn,
                     histVars>>
  BY DEF DeductRefused, Keep, Goto, PoolInv, TypeOK
<1>2. TypeOK' /\ CreditInv'
  BY <1>1 DEF PoolInv, TypeOK, CreditInv, CreditedOnce, teamVars, memberVars,
              creditVars, histVars
<1>3. TeamCounter' /\ \A m \in Members : MemberCounter(m)'
  BY <1>1, CountersKept DEF teamVars, memberVars, histVars
<1> QED
  BY <1>2, <1>3 DEF PoolInv

LEMMA SettingsStep ==
    ASSUME PoolInv,
           \/ UpdateTeamExtraUsageSettings
           \/ \E m \in Members : UpdateTeamMemberUsage(m)
    PROVE  PoolInv'
<1>1. /\ enabled' \in BOOLEAN
      /\ disabled' \in [Members -> BOOLEAN]
      /\ UNCHANGED <<month, balance, teamSpent, teamReset, spent, spentReset,
                     sessions, webhooks, credited, pc, amount, drawnIn,
                     teamDrawn, net, late>>
  BY DEF UpdateTeamExtraUsageSettings, UpdateTeamMemberUsage, PoolInv, TypeOK,
         memberVars, teamVars, creditVars, drawVars, histVars
<1>2. /\ teamCap' \in Nat \cup {NoCap}
      /\ memberCap' \in [Members -> Nat \cup {NoCap}]
  BY PoolAssumption
     DEF UpdateTeamExtraUsageSettings, UpdateTeamMemberUsage, PoolInv, TypeOK,
         memberVars, teamVars
<1>3. TypeOK'
  BY <1>1, <1>2 DEF PoolInv, TypeOK
<1>4. TeamCounter' /\ \A m \in Members : MemberCounter(m)'
  BY <1>1, CountersKept
<1>5. CreditInv'
  BY <1>1 DEF PoolInv, CreditInv, CreditedOnce
<1> QED
  BY <1>3, <1>4, <1>5 DEF PoolInv

LEMMA CreditStep ==
    ASSUME PoolInv, NEW k \in Keys, AddTeamCredits(k)
    PROVE  PoolInv'
<1>1. /\ k \notin sessions
      /\ balance' = balance + Credit
      /\ sessions' = sessions \cup {k} /\ webhooks' = webhooks \cup {k}
      /\ credited' = [credited EXCEPT ![k] = @ + 1]
      /\ UNCHANGED <<month, enabled, teamCap, teamSpent, teamReset, disabled,
                     memberCap, spent, spentReset, pc, amount, drawnIn,
                     teamDrawn, net, late>>
  BY DEF AddTeamCredits, Processed, memberVars, drawVars, histVars
<1>2. balance' \in Nat
  BY <1>1, PoolAssumption DEF PoolInv, TypeOK
<1>3. /\ sessions' \in SUBSET Keys /\ webhooks' \in SUBSET Keys
      /\ credited' \in [Keys -> Nat]
  BY <1>1 DEF PoolInv, TypeOK
<1>4. TypeOK'
  BY <1>1, <1>2, <1>3 DEF PoolInv, TypeOK
<1>5. CreditInv'
  <2>1. credited[k] = 0
    BY <1>1 DEF PoolInv, CreditInv
  <2>2. credited'[k] = 1 /\ \A j \in Keys \ {k} : credited'[j] = credited[j]
    BY <1>1, <2>1 DEF PoolInv, TypeOK
  <2> QED
    BY <1>1, <2>2 DEF PoolInv, TypeOK, CreditInv, CreditedOnce
<1>6. TeamCounter' /\ \A m \in Members : MemberCounter(m)'
  BY <1>1, CountersKept
<1> QED
  BY <1>4, <1>5, <1>6 DEF PoolInv

LEMMA PurgeStep == ASSUME PoolInv, PurgeWebhooks PROVE PoolInv'
<1>1. /\ webhooks' \in SUBSET webhooks
      /\ UNCHANGED <<month, teamVars, memberVars, sessions, credited,
                     drawVars, histVars>>
  BY DEF PurgeWebhooks
<1>2. TypeOK' /\ CreditInv'
  BY <1>1 DEF PoolInv, TypeOK, CreditInv, CreditedOnce, teamVars, memberVars,
              drawVars, histVars
<1>3. TeamCounter' /\ \A m \in Members : MemberCounter(m)'
  BY <1>1, CountersKept DEF teamVars, memberVars, histVars
<1> QED
  BY <1>2, <1>3 DEF PoolInv

\* A new month starts every counter afresh: none can be of that month yet.
LEMMA MonthStep == ASSUME PoolInv, NextMonth PROVE PoolInv'
<1>1. /\ month' = month + 1 /\ month' \in 0..MaxMonth
      /\ teamDrawn' = 0
      /\ net' = [m \in Members |-> 0] /\ late' = [m \in Members |-> 0]
      /\ UNCHANGED <<teamVars, memberVars, creditVars, drawVars>>
  BY PoolAssumption DEF NextMonth, PoolInv, TypeOK
<1>2. net' \in [Members -> Int] /\ late' \in [Members -> Nat]
        /\ teamDrawn' \in Nat
  BY <1>1
<1>3. TypeOK' /\ CreditInv'
  BY <1>1, <1>2 DEF PoolInv, TypeOK, CreditInv, CreditedOnce, teamVars,
                    memberVars, creditVars, drawVars
<1>4. TeamCounter'
  BY <1>1 DEF PoolInv, TypeOK, TeamCounter, TeamSpentNow, Months, teamVars
<1>5. ASSUME NEW m \in Members PROVE MemberCounter(m)'
  <2>1. /\ spentReset[m] \in Int /\ spentReset[m] <= month
        /\ month \in Int /\ spent[m] \in Nat
    BY PoolAssumption DEF PoolInv, TypeOK, Months, MemberCounter
  <2>2. net'[m] = 0 /\ late'[m] = 0 /\ spentReset' = spentReset
    BY <1>1 DEF memberVars
  <2>3. MemberSpentNow(m)' = 0
    BY <1>1, <2>1, <2>2 DEF MemberSpentNow
  <2> QED
    BY <1>1, <2>1, <2>2, <2>3 DEF MemberCounter
<1> QED
  BY <1>3, <1>4, <1>5 DEF PoolInv

LEMMA NextKeepsPool == PoolInv /\ [Next]_poolVars => PoolInv'
<1> SUFFICES ASSUME PoolInv, [Next]_poolVars PROVE PoolInv'
  OBVIOUS
<1>1. ASSUME NEW r \in Requests, RequestStep(r) PROVE PoolInv'
  BY <1>1, DeductStep, RefundStep, EndStep DEF RequestStep
<1>2. CASE \/ UpdateTeamExtraUsageSettings
           \/ \E m \in Members : UpdateTeamMemberUsage(m)
  BY <1>2, SettingsStep
<1>3. ASSUME NEW k \in Keys, AddTeamCredits(k) PROVE PoolInv'
  BY <1>3, CreditStep
<1>4. CASE PurgeWebhooks
  BY <1>4, PurgeStep
<1>5. CASE NextMonth
  BY <1>5, MonthStep
<1>6. CASE UNCHANGED poolVars
  <2>1. TypeOK' /\ CreditInv'
    BY <1>6 DEF PoolInv, TypeOK, CreditInv, CreditedOnce, poolVars, teamVars,
                memberVars, creditVars, drawVars, histVars
  <2>2. TeamCounter' /\ \A m \in Members : MemberCounter(m)'
    BY <1>6, CountersKept DEF poolVars, teamVars, memberVars, histVars
  <2> QED
    BY <2>1, <2>2 DEF PoolInv
<1> QED
  BY <1>1, <1>2, <1>3, <1>4, <1>5, <1>6 DEF Next, AllDone

LEMMA PoolCorrect == Spec => []PoolInv
  BY InitPool, NextKeepsPool, PTL DEF Spec

-----------------------------------------------------------------------------
(* Only a draw takes points *)

LEMMA OnlyDrawsTake ==
    ASSUME PoolInv, [Next]_poolVars
    PROVE  \/ \E r \in Requests, n \in Amounts : Draw(r, n)
           \/ /\ teamDrawn' <= teamDrawn
              /\ \A m \in Members :
                    net'[m] <= net[m] \/ month' # month
              /\ \A m \in Members : month' # month => net'[m] = 0
<1> USE DEF PoolInv, TypeOK
<1>1. CASE \E r \in Requests : DeductTeamPoints(r)
  BY <1>1 DEF DeductTeamPoints
<1>2. CASE \E r \in Requests : DeductRefused(r) \/ Keep(r)
  BY <1>2 DEF DeductRefused, Keep, histVars
<1>3. ASSUME NEW r \in Requests, RefundTeamPoints(r)
      PROVE  /\ teamDrawn' <= teamDrawn /\ month' = month
             /\ \A m \in Members : net'[m] <= net[m]
  <2>1. amount[r] \in Nat /\ Owner[r] \in Members
    BY PoolAssumption
  <2> QED
    BY <1>3, <2>1 DEF RefundTeamPoints
<1>4. CASE \/ UpdateTeamExtraUsageSettings
           \/ \E m \in Members : UpdateTeamMemberUsage(m)
  BY <1>4 DEF UpdateTeamExtraUsageSettings, UpdateTeamMemberUsage, histVars
<1>5. CASE (\E k \in Keys : AddTeamCredits(k)) \/ PurgeWebhooks
  BY <1>5 DEF AddTeamCredits, PurgeWebhooks, histVars
<1>6. CASE NextMonth
  BY <1>6, PoolAssumption DEF NextMonth
<1>7. CASE UNCHANGED poolVars
  BY <1>7 DEF poolVars, histVars
<1> QED
  BY <1>1, <1>2, <1>3, <1>4, <1>5, <1>6, <1>7 DEF Next, RequestStep, AllDone

LEMMA TeamCapStep ==
    ASSUME PoolInv, [Next]_poolVars, teamDrawn' > teamDrawn, teamCap # NoCap
    PROVE  teamDrawn' <= teamCap
<1>1. teamDrawn \in Nat /\ teamDrawn' \in Nat
  BY NextKeepsPool DEF PoolInv, TypeOK
<1>2. PICK r \in Requests, n \in Amounts : Draw(r, n)
  BY <1>1, OnlyDrawsTake
<1>3. teamDrawn' = teamDrawn + n /\ teamDrawn = TeamSpentNow
        /\ TeamSpentNow + n <= teamCap
  BY <1>2 DEF PoolInv, TeamCounter, Draw, CanDraw, WithinTeamCap
<1> QED
  BY <1>3

LEMMA MemberCapStep ==
    ASSUME PoolInv, [Next]_poolVars, NEW m \in Members, net'[m] > net[m],
           memberCap[m] # NoCap, month' = month
    PROVE  net'[m] <= memberCap[m] + late[m]
<1>1. /\ net[m] \in Int /\ net'[m] \in Int /\ late[m] \in Nat
      /\ memberCap[m] \in Nat /\ MemberCounter(m)
  BY NextKeepsPool DEF PoolInv, TypeOK
<1>2. PICK r \in Requests, n \in Amounts : Draw(r, n)
  BY <1>1, OnlyDrawsTake
<1>3. m = Owner[r]
  BY <1>1, <1>2, PoolAssumption DEF Draw, PoolInv, TypeOK
<1>4. n \in Nat /\ MemberSpentNow(m) \in Nat
  BY PoolAssumption DEF PoolInv, TypeOK, MemberSpentNow
<1>5. net'[m] = net[m] + n /\ MemberSpentNow(m) + n <= memberCap[m]
        /\ net[m] <= MemberSpentNow(m) + late[m]
  BY <1>1, <1>2, <1>3
     DEF PoolInv, TypeOK, Draw, CanDraw, WithinMemberCap, MemberCounter
<1> QED
  BY <1>1, <1>4, <1>5

-----------------------------------------------------------------------------
\* The counters are right in every reachable state (TypeOK).
THEOREM PoolTypeCorrect == Spec => []TypeOK
<1>1. PoolInv => TypeOK
  BY DEF PoolInv
<1> QED
  BY <1>1, PoolCorrect, PTL

\* The team's cap binds what the team really draws in a month.
THEOREM TeamCapCorrect == Spec => TeamCapBinds
<1>1. PoolInv /\ [Next]_poolVars =>
         [teamDrawn' > teamDrawn /\ teamCap # NoCap
            => teamDrawn' <= teamCap]_poolVars
  BY TeamCapStep
<1> QED
  BY <1>1, PoolCorrect, PTL DEF Spec, TeamCapBinds

\* A member's cap binds what the member draws in a month, up to the refunds of
\* draws of earlier months (deductTeamPoints, refundTeamPoints).
THEOREM MemberCapCorrect == Spec => MemberCapBinds
<1>1. ASSUME PoolInv, [Next]_poolVars, NEW m \in Members, net'[m] > net[m],
             memberCap[m] # NoCap
      PROVE  net'[m] <= memberCap[m] + late[m]
  <2>1. CASE month' = month
    BY <1>1, <2>1, MemberCapStep
  <2>2. CASE month' # month
    <3>1. memberCap[m] \in Nat /\ late[m] \in Nat
      BY <1>1 DEF PoolInv, TypeOK
    <3>2. net'[m] = 0
      BY <1>1, <2>2, OnlyDrawsTake DEF Draw
    <3> QED
      BY <3>1, <3>2
  <2> QED
    BY <2>1, <2>2
<1>2. PoolInv /\ [Next]_poolVars =>
         [\A m \in Members :
             net'[m] > net[m] /\ memberCap[m] # NoCap
               => net'[m] <= memberCap[m] + late[m]]_poolVars
  BY <1>1
<1> QED
  BY <1>2, PoolCorrect, PTL DEF Spec, MemberCapBinds

\* A credit purchase is counted once, whatever the purge deletes.
THEOREM CreditCorrect == Spec => []CreditedOnce
<1>1. PoolInv => CreditedOnce
  BY DEF PoolInv, CreditInv
<1> QED
  BY <1>1, PoolCorrect, PTL
=============================================================================
