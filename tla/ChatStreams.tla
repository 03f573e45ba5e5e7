---------------------------- MODULE ChatStreams ----------------------------
(***************************************************************************)
(* The streams of one chat: the tab that sends, stops and regenerates, the *)
(* handlers of POST /api/chat that stream the answers, the chat row (or,   *)
(* for a temporary chat, the temp_streams row) they coordinate through,    *)
(* the cancellation channel in Redis, and GET /api/chat/[id]/stream, by    *)
(* which a reloaded tab rejoins a stream.                                  *)
(*                                                                         *)
(* The requests of the chat are numbered in the order the tab sends them.  *)
(* A request whose handler is over is never sent again.                    *)
(***************************************************************************)
EXTENDS Integers, Sequences, FiniteSets

CONSTANTS
    N,                \* requests the tab sends
    TemporaryValues,  \* the kinds of chat considered: is it temporary?
    MaxFaults         \* refused mutations, failing handlers, lost instances

ASSUME RequestsAssumption == N \in Nat \ {0}
ASSUME KindAssumption == TemporaryValues \subseteq BOOLEAN
ASSUME FaultAssumption == MaxFaults \in Nat

Requests == 1 .. N
None == 0

VARIABLES
    temporary,   \* is the chat temporary (no chat row, no messages)?
    active,      \* chats.active_stream_id: the request that set it, or None
    canceled,    \* is chats.canceled_at set?
    tempRow,     \* does the temp_streams row exist?
    log,         \* the messages of the chat, oldest first
    tab,         \* the tab: "idle", "streaming", "discarding"
    current,     \* the last request the tab sent, or None
    outbox,      \* mutations of the tab not yet executed (one at a time)
    published,   \* requests whose cancellation Redis has still to publish
    pc,          \* where the handler of a request stands
    regen,       \* is the request a regeneration (it saves no question)?
    listening,   \* its cancellation subscriber: "off", "pubsub", "poll"
    cause,       \* what aborted its userStopSignal
    keeps,       \* is its answer saved even when the signal aborts it: has
                 \* its preemptive timeout fired, or is it the fallback leg?
    ended,       \* how its stream ended: "stopped", or with an answer to "keep"
    recorded,    \* has its startStream been executed?
    rejoining,   \* has a reloaded tab read an active id it is to rejoin?
    faults,      \* mutations refused, handlers failed, instances lost so far
    stops,       \* history: requests whose cancellation was committed
    discarded,   \* history: requests whose answer the tab has deleted
    late,        \* history: requests recorded as active after their clean-up
    clean        \* history: requests sent while nothing older was unsettled

held == <<listening, cause, keeps>>
server == <<pc, held, ended, recorded, late>>
client == <<tab, current, outbox, regen, discarded, clean>>
vars == <<temporary, active, canceled, tempRow, log, published, rejoining,
          stops, faults, server, client>>

Fault == faults < MaxFaults /\ faults' = faults + 1

----------------------------------------------------------------------------

Question(r) == [kind |-> "question", of |-> r]
Answer(r) == [kind |-> "answer", of |-> r]
Message == [kind : {"question", "answer"}, of : Requests]

InLog(m) == \E i \in DOMAIN log : log[i] = m

\* Mutant of Insert: the id is not looked up.
InsertBlindly(m) == Append(log, m)

\* A row is inserted once: both save mutations look for its id first.
Insert(m) == IF InLog(m) THEN log ELSE Append(log, m)

\* Only answers follow the i-th message, which is the last question if any is.
LastQuestion(i) == /\ i > 0 => log[i].kind = "question"
                   /\ \A j \in i + 1 .. Len(log) : log[j].kind = "answer"

Call(op) == [op |-> op, of |-> current]
CallType == [op : {"cancel", "save", "delete"}, of : Requests]

Over == {"rejected", "done", "failed"}

\* Has the handler answered with a stream? The tab has then an answer to show.
Opened(r) == pc[r] \in {"streaming", "clearing", "saving", "done", "failed"}

Settled == /\ outbox' = << >> /\ published = {} /\ ~canceled
           /\ \A r \in Requests : pc[r] \in Over \cup {"idle"}

Init ==
    /\ temporary \in TemporaryValues
    /\ active = None
    /\ canceled = FALSE
    /\ tempRow = FALSE
    /\ log = << >>
    /\ tab = "idle"
    /\ current = None
    /\ outbox = << >>
    /\ published = {}
    /\ pc = [r \in Requests |-> "idle"]
    /\ regen = [r \in Requests |-> FALSE]
    /\ listening = [r \in Requests |-> "off"]
    /\ cause = [r \in Requests |-> "none"]
    /\ keeps = [r \in Requests |-> FALSE]
    /\ ended = [r \in Requests |-> "no"]
    /\ recorded = [r \in Requests |-> FALSE]
    /\ rejoining = FALSE
    /\ faults = 0
    /\ stops = {}
    /\ discarded = {}
    /\ late = {}
    /\ clean = {}

----------------------------------------------------------------------------
(* The tab. It executes its Convex mutations one at a time, in order.      *)

\* The next request leaves for the server.
Request(again) ==
    /\ current < N
    /\ current' = current + 1
    /\ pc' = [pc EXCEPT ![current + 1] = "arrived"]
    /\ regen' = [regen EXCEPT ![current + 1] = again]
    /\ tab' = "streaming"
    /\ clean' = IF Settled THEN clean \cup {current + 1} ELSE clean

\* handleSubmit while nothing streams.
Send ==
    /\ tab = "idle"
    /\ UNCHANGED <<outbox, discarded>>
    /\ Request(FALSE)

\* What a stop sends: the cancellation, and the answer as far as the tab
\* holds one. A temporary chat has no message to save.
StopCalls == {<<Call("cancel")>>} \cup
             IF temporary \/ ~Opened(current) THEN {}
             ELSE {<<Call("cancel"), Call("save")>>}

\* handleSubmit under "stop-and-send": neither call is awaited.
StopAndSend ==
    /\ tab = "streaming"
    /\ Opened(current)
    /\ \E calls \in StopCalls : outbox' = outbox \o calls
    /\ Request(FALSE)
    /\ UNCHANGED discarded

\* handleStop: the tab no longer streams.
Stop ==
    /\ tab = "streaming"
    /\ tab' = "idle"
    /\ \E calls \in StopCalls : outbox' = outbox \o calls
    /\ UNCHANGED <<current, pc, regen, discarded, clean>>

\* handleRegenerate, handleEditMessage and handleRetry: a running stream is
\* canceled with skipSave, the answer deleted (not by a retry), and both are
\* awaited before the request.
StartDiscard ==
    /\ tab = "idle" \/ (tab = "streaming" /\ Opened(current))
    /\ current \in 1 .. N - 1
    /\ tab' = "discarding"
    /\ \E deletes \in BOOLEAN :
           outbox' = outbox
               \o (IF tab = "streaming" THEN <<Call("cancel")>> ELSE << >>)
               \o (IF deletes /\ ~temporary THEN <<Call("delete")>> ELSE << >>)
    /\ UNCHANGED <<current, pc, regen, discarded, clean>>

Regenerate ==
    /\ tab = "discarding"
    /\ outbox = << >>
    /\ UNCHANGED <<outbox, discarded>>
    /\ Request(TRUE)

\* The response closes, or the tab loses it: the handler does not notice.
ResponseOver ==
    /\ tab = "streaming"
    /\ tab' = "idle"
    /\ UNCHANGED <<current, pc, regen, outbox, discarded, clean>>

TabMoves ==
    /\ Send \/ StopAndSend \/ Stop \/ StartDiscard \/ Regenerate \/ ResponseOver
    /\ UNCHANGED <<temporary, active, canceled, tempRow, log, published,
                   rejoining, stops, held, ended, recorded, late, faults>>

----------------------------------------------------------------------------
(* The tab's mutations, each one transaction. Any of them may be refused.  *)

Executes(op) ==
    /\ outbox /= << >>
    /\ Head(outbox).op = op
    /\ outbox' = Tail(outbox)

CancelStreamFromClient ==
    /\ ~temporary
    /\ Executes("cancel")
    /\ active' = None
    /\ canceled' = TRUE
    /\ published' = published \cup {Head(outbox).of}
    /\ stops' = stops \cup {Head(outbox).of}
    /\ UNCHANGED <<tempRow, log, tab, discarded>>

\* Without a row nothing is published either.
CancelTempStreamFromClient ==
    /\ temporary
    /\ Executes("cancel")
    /\ tempRow' = FALSE
    /\ published' = IF tempRow THEN published \cup {Head(outbox).of}
                    ELSE published
    /\ stops' = stops \cup {Head(outbox).of}
    /\ UNCHANGED <<active, canceled, log, tab, discarded>>

SaveAssistantMessage ==
    /\ Executes("save")
    /\ log' = Insert(Answer(Head(outbox).of))
    /\ UNCHANGED <<active, canceled, tempRow, tab, published, stops, discarded>>

\* It is meant for the answer of the tab's last request, saved by now or not;
\* an answer that a later question already follows stays.
DeleteLastAssistantMessage ==
    /\ Executes("delete")
    /\ \E k \in 0 .. Len(log) :
           /\ LastQuestion(k)
           /\ log' = SubSeq(log, 1, k)
           /\ discarded' = discarded \cup
                  {r \in Requests :
                      /\ \/ r = Head(outbox).of
                         \/ \E i \in k + 1 .. Len(log) : log[i].of = r
                      /\ ~\E i \in 1 .. k : log[i] = Answer(r)}
    /\ UNCHANGED <<active, canceled, tempRow, tab, published, stops>>

\* The errors of a stop are swallowed, and so are those of an edit; a failed
\* deletion ends a regeneration.
MutationFails ==
    /\ outbox /= << >>
    /\ outbox' = Tail(outbox)
    /\ tab' \in IF Head(outbox).op = "delete" THEN {tab, "idle"} ELSE {tab}
    /\ UNCHANGED <<active, canceled, tempRow, log, published, stops, discarded>>

MutationRuns ==
    /\ \/ /\ \/ CancelStreamFromClient \/ CancelTempStreamFromClient
             \/ SaveAssistantMessage \/ DeleteLastAssistantMessage
          /\ UNCHANGED faults
       \/ MutationFails /\ Fault
    /\ UNCHANGED <<temporary, current, regen, clean, rejoining, server>>

----------------------------------------------------------------------------
(* The cancellation signal of a handler.                                   *)

\* userStopSignal aborts once; whoever listens for it stops then.
Abort(R, why) ==
    /\ cause' = [r \in Requests |->
                    IF r \in R /\ cause[r] = "none" THEN why ELSE cause[r]]
    /\ listening' = [r \in Requests |-> IF r \in R THEN "off" ELSE listening[r]]

\* Every handler subscribed to the chat's channel hears the publication.
PublishCancellation(q) ==
    /\ q \in published
    /\ published' = published \ {q}
    /\ Abort({r \in Requests : listening[r] = "pubsub"}, "published")
    /\ UNCHANGED keeps

\* Redis is not configured or not reachable: nobody hears it.
PublicationLost(q) ==
    /\ q \in published
    /\ published' = published \ {q}
    /\ UNCHANGED <<cause, listening, keeps>>

\* Mutant of Poll: a chat without an active stream counts as canceled.
PollActive(r) ==
    /\ listening[r] = "poll"
    /\ IF temporary THEN ~tempRow ELSE active = None
    /\ Abort({r}, "polled")
    /\ UNCHANGED <<published, keeps>>

\* getTempCancellationStatus takes a missing row for a cancellation.
Poll(r) ==
    /\ listening[r] = "poll"
    /\ IF temporary THEN ~tempRow ELSE canceled
    /\ Abort({r}, "polled")
    /\ UNCHANGED <<published, keeps>>

PreemptiveTimeout(r) ==
    /\ pc[r] \in {"preparing", "streaming"}
    /\ keeps' = [keeps EXCEPT ![r] = TRUE]
    /\ Abort({r}, "timer")
    /\ UNCHANGED published

\* The agent's first token is overdue: an abort that does not count as
\* preemptive.
FirstTokenTimeout(r) ==
    /\ pc[r] \in {"preparing", "streaming"}
    /\ cause[r] = "none"
    /\ Abort({r}, "timer")
    /\ UNCHANGED <<published, keeps>>

SignalMoves ==
    /\ \E r \in Requests :
           \/ PublishCancellation(r) \/ PublicationLost(r) \/ Poll(r)
           \/ PreemptiveTimeout(r) \/ FirstTokenTimeout(r)
    /\ UNCHANGED <<temporary, active, canceled, tempRow, log, rejoining, stops,
                   pc, ended, recorded, late, faults, client>>

----------------------------------------------------------------------------
(* The handler of POST /api/chat.                                          *)

Goto(r, place) == pc' = [pc EXCEPT ![r] = place]

\* What the handler held to be told to stop is let go.
Release(r) == /\ listening' = [listening EXCEPT ![r] = "off"]
              /\ cause' = [cause EXCEPT ![r] = "none"]
              /\ keeps' = [keeps EXCEPT ![r] = FALSE]

\* createCancellationSubscriber falls back to polling without Redis.
Subscribe(r) ==
    /\ pc[r] = "arrived"
    /\ Goto(r, "preparing")
    /\ \E how \in {"pubsub", "poll"} :
           listening' = [listening EXCEPT ![r] = how]
    /\ UNCHANGED <<active, canceled, tempRow, log, ended, cause, keeps>>

\* handleInitialChatAndUserMessage, then the stream opens.
SaveQuestion(r) ==
    /\ pc[r] = "preparing"
    /\ ~temporary
    /\ Goto(r, "streaming")
    /\ log' = IF regen[r] THEN log ELSE Insert(Question(r))
    /\ UNCHANGED <<active, canceled, tempRow, ended, held>>

\* startTempStream is best effort: the stream opens without its row.
StartTempStream(r) ==
    /\ pc[r] = "preparing"
    /\ temporary
    /\ Goto(r, "streaming")
    /\ tempRow' \in {TRUE, tempRow}
    /\ UNCHANGED <<active, canceled, log, ended, held>>

\* An error before the stream: the outer catch leaves the subscriber alone.
FailsEarly(r) ==
    /\ pc[r] \in {"arrived", "preparing"}
    /\ Goto(r, "rejected")
    /\ UNCHANGED <<active, canceled, tempRow, log, ended, held>>

\* An empty first answer that was not aborted is retried, once.
RetryWithFallback(r) ==
    /\ pc[r] = "streaming"
    /\ ~keeps[r]
    /\ keeps' = [keeps EXCEPT ![r] = TRUE]
    /\ UNCHANGED <<active, canceled, tempRow, log, pc, ended, listening, cause>>

\* An answer the user aborted is not for the handler to keep; one that ended
\* by itself or by the preemptive timeout is, and so is the fallback leg's.
\* A signal that comes after the last chunk does not count as an abort.
Outcomes(r) ==
    {"keep"} \cup IF cause[r] /= "none" /\ ~keeps[r] THEN {"stopped"} ELSE {}

\* The stream ends and onFinish begins: up to its first await it reads the
\* timeout's flag, clears the timeout and stops the subscriber.
OnFinish(r) ==
    /\ pc[r] = "streaming"
    /\ Goto(r, "clearing")
    /\ \E how \in Outcomes(r) : ended' = [ended EXCEPT ![r] = how]
    /\ Release(r)
    /\ UNCHANGED <<active, canceled, tempRow, log>>

\* Mutant of PrepareForNewStream: the active id is left alone.
ClearCanceled(r) ==
    /\ pc[r] = "clearing"
    /\ ~temporary
    /\ Goto(r, "saving")
    /\ canceled' = FALSE
    /\ UNCHANGED <<active, tempRow, log, ended, held>>

\* updateChat and prepareForNewStream both clear the chat's stream state,
\* whichever stream it belongs to.
PrepareForNewStream(r) ==
    /\ pc[r] = "clearing"
    /\ ~temporary
    /\ Goto(r, "saving")
    /\ active' = None
    /\ canceled' = FALSE
    /\ UNCHANGED <<tempRow, log, ended, held>>

DeleteTempStream(r) ==
    /\ pc[r] = "clearing"
    /\ temporary
    /\ Goto(r, "done")
    /\ tempRow' = FALSE
    /\ UNCHANGED <<active, canceled, log, ended, held>>

\* Mutant of SaveAnswer: updateOnly is dropped.
SaveAborted(r) ==
    /\ pc[r] = "saving"
    /\ Goto(r, "done")
    /\ log' = Insert(Answer(r))
    /\ UNCHANGED <<active, canceled, tempRow, ended, held>>

\* An answer the user aborted is skipped or only patched (updateOnly): the
\* skipSave signal decides which, and neither adds a row.
SaveAnswer(r) ==
    /\ pc[r] = "saving"
    /\ Goto(r, "done")
    /\ log' = IF ended[r] = "keep" THEN Insert(Answer(r)) ELSE log
    /\ UNCHANGED <<active, canceled, tempRow, ended, held>>

\* A mutation of onFinish throws: what follows it is skipped.
FailsLate(r) ==
    /\ pc[r] \in {"clearing", "saving"}
    /\ Goto(r, "failed")
    /\ UNCHANGED <<active, canceled, tempRow, log, ended, held>>

\* The instance is lost with all the handler held.
Crash(r) ==
    /\ pc[r] \notin Over \cup {"idle"}
    /\ Goto(r, IF Opened(r) THEN "failed" ELSE "rejected")
    /\ Release(r)
    /\ UNCHANGED <<active, canceled, tempRow, log, ended>>

Handles(r) ==
    /\ \/ /\ \/ Subscribe(r) \/ SaveQuestion(r) \/ StartTempStream(r)
             \/ RetryWithFallback(r) \/ OnFinish(r) \/ PrepareForNewStream(r)
             \/ DeleteTempStream(r) \/ SaveAnswer(r)
          /\ UNCHANGED faults
       \/ (FailsEarly(r) \/ FailsLate(r) \/ Crash(r)) /\ Fault
    /\ UNCHANGED <<temporary, published, rejoining, stops, recorded, late, tab,
                   current, outbox, regen, discarded, clean>>

----------------------------------------------------------------------------
(* The resumable copy of the stream (consumeSseStream runs beside it).     *)

\* Without Redis, or after an error, the stream goes on without being recorded.
StartStream(r) ==
    /\ ~temporary
    /\ Opened(r)
    /\ ~recorded[r]
    /\ recorded' = [recorded EXCEPT ![r] = TRUE]
    /\ active' = r
    /\ canceled' = FALSE
    /\ late' = IF pc[r] \in {"streaming", "clearing"} THEN late
               ELSE late \cup {r}
    /\ UNCHANGED rejoining

\* GET /api/chat/[id]/stream reads the active id ...
ReadActive ==
    /\ active /= None
    /\ rejoining' = TRUE
    /\ UNCHANGED <<active, canceled, late, recorded>>

\* ... and joins that stream, or finds that there is something to replay ...
JoinOrReplay ==
    /\ rejoining
    /\ rejoining' = FALSE
    /\ UNCHANGED <<active, canceled, late, recorded>>

\* ... or finds no producer, because it is gone or has not registered its copy
\* yet, and clears whatever the chat row holds by then.
ClearStaleActiveStream ==
    /\ rejoining
    /\ rejoining' = FALSE
    /\ active' = None
    /\ canceled' = FALSE
    /\ UNCHANGED <<late, recorded>>

ResumeMoves ==
    /\ \/ \E r \in Requests : StartStream(r)
       \/ ReadActive \/ JoinOrReplay \/ ClearStaleActiveStream
    /\ UNCHANGED <<temporary, tempRow, log, published, stops, pc, held, ended,
                   faults, client>>

----------------------------------------------------------------------------

Next == \/ TabMoves \/ MutationRuns \/ SignalMoves \/ ResumeMoves
        \/ \E r \in Requests : Handles(r)

Spec == Init /\ [][Next]_vars

----------------------------------------------------------------------------
(* Properties.                                                             *)

TypeOK ==
    /\ temporary \in BOOLEAN
    /\ active \in Requests \cup {None}
    /\ canceled \in BOOLEAN
    /\ tempRow \in BOOLEAN
    /\ log \in Seq(Message)
    /\ tab \in {"idle", "streaming", "discarding"}
    /\ current \in Requests \cup {None}
    /\ tab /= "idle" => current \in Requests
    /\ outbox \in Seq(CallType)
    /\ published \subseteq Requests
    /\ pc \in [Requests -> {"idle", "arrived", "preparing", "streaming",
                            "clearing", "saving", "done", "rejected", "failed"}]
    /\ regen \in [Requests -> BOOLEAN]
    /\ listening \in [Requests -> {"off", "pubsub", "poll"}]
    /\ cause \in [Requests -> {"none", "published", "polled", "timer"}]
    /\ keeps \in [Requests -> BOOLEAN]
    /\ ended \in [Requests -> {"no", "keep", "stopped"}]
    /\ recorded \in [Requests -> BOOLEAN]
    /\ rejoining \in BOOLEAN
    /\ faults \in 0 .. MaxFaults
    /\ stops \subseteq Requests
    /\ discarded \subseteq Requests
    /\ late \subseteq Requests
    /\ clean \subseteq Requests

\* An answer the user aborted and then threw away (regenerate, edit) is not
\* written back by the handler that was still streaming it, whether or not it
\* heard the skipSave signal.
DiscardedStaysDiscarded ==
    \A r \in discarded :
        ended[r] = "stopped" => ~InLog(Answer(r))

\* The tab's save on stop and the handler's save in onFinish race, and the
\* answer, like the question, still appears in the chat only once.
MessagesSavedOnce ==
    \A i, j \in DOMAIN log : log[i] = log[j] => i = j

\* A request sent once everything older had settled is stopped only by a stop
\* pressed for it or later: what an older stop left behind cannot reach it.
\* Excepted is a temporary chat that polls: while its row is missing it reads
\* as canceled.
CleanStartNotStopped ==
    \A r \in clean :
        cause[r] = "published" \/ (cause[r] = "polled" /\ ~temporary)
            => \E q \in stops : q >= r

\* A handler that finished leaves no trace of its stream in the chat row,
\* unless its startStream came after its own clean-up: otherwise every reload
\* would try to rejoin a stream that no longer exists.
FinishedStreamNotActive ==
    \A r \in Requests : active = r /\ pc[r] = "done" => r \in late

=============================================================================
