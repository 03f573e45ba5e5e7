------------------------ MODULE ChatStreamsProofs -------------------------
(***************************************************************************)
(* Proofs about ChatStreams, for any number of requests and faults, in a   *)
(* saved or a temporary chat.                                              *)
(***************************************************************************)
EXTENDS ChatStreams, TLAPS

USE RequestsAssumption, KindAssumption, FaultAssumption DEF Requests, None

-----------------------------------------------------------------------------
(* The log                                                                 *)

\* Inserting a message adds it, and nothing else, and never twice.
LEMMA InsertFacts ==
    ASSUME NEW m \in Message, log \in Seq(Message)
    PROVE  /\ Insert(m) \in Seq(Message)
           /\ \A i \in DOMAIN Insert(m) :
                  \/ i \in DOMAIN log /\ Insert(m)[i] = log[i]
                  \/ Insert(m)[i] = m
           /\ MessagesSavedOnce =>
                  \A i, j \in DOMAIN Insert(m) :
                      Insert(m)[i] = Insert(m)[j] => i = j
<1>1. CASE InLog(m)
  BY <1>1 DEF Insert, MessagesSavedOnce
<1>2. CASE ~InLog(m)
  <2>1. Insert(m) = Append(log, m)
    BY <1>2 DEF Insert
  <2>2. DOMAIN Append(log, m) = 1 .. Len(log) + 1
    OBVIOUS
  <2>3. \A i \in 1 .. Len(log) : Append(log, m)[i] = log[i] /\ log[i] # m
    BY <1>2 DEF InLog
  <2>4. Append(log, m)[Len(log) + 1] = m
    OBVIOUS
  <2> QED
    BY <2>1, <2>2, <2>3, <2>4 DEF MessagesSavedOnce
<1> QED
  BY <1>1, <1>2

\* Deleting the trailing answers keeps a prefix of the log.
LEMMA PrefixFacts ==
    ASSUME log \in Seq(Message), NEW k \in 0 .. Len(log)
    PROVE  /\ SubSeq(log, 1, k) \in Seq(Message)
           /\ DOMAIN SubSeq(log, 1, k) = 1 .. k
           /\ \A i \in 1 .. k : SubSeq(log, 1, k)[i] = log[i]
  OBVIOUS

\* Taking the head off the outbox shifts the rest.
LEMMA TailFacts ==
    ASSUME outbox \in Seq(CallType), outbox # << >>
    PROVE  /\ Head(outbox) \in CallType
           /\ Head(outbox) = outbox[1]
           /\ 1 \in DOMAIN outbox
           /\ Tail(outbox) \in Seq(CallType)
           /\ Len(Tail(outbox)) = Len(outbox) - 1
           /\ \A i \in DOMAIN Tail(outbox) :
                  i + 1 \in DOMAIN outbox /\ Tail(outbox)[i] = outbox[i + 1]
  OBVIOUS

\* What a stop enqueues concerns the current request, and deletes nothing.
LEMMA StopCallFacts ==
    ASSUME outbox \in Seq(CallType), current \in Requests,
           NEW calls \in StopCalls
    PROVE  /\ outbox \o calls \in Seq(CallType)
           /\ \A i \in DOMAIN (outbox \o calls) :
                  \/ /\ i \in DOMAIN outbox
                     /\ (outbox \o calls)[i] = outbox[i]
                  \/ /\ (outbox \o calls)[i].of = current
                     /\ (outbox \o calls)[i].op # "delete"
<1>1. CASE calls = <<Call("cancel")>>
  BY <1>1 DEF Call, CallType
<1>2. CASE calls = <<Call("cancel"), Call("save")>>
  BY <1>2 DEF Call, CallType
<1> QED
  BY <1>1, <1>2 DEF StopCalls

-----------------------------------------------------------------------------
(* Types                                                                   *)

LEMMA InitType == Init => TypeOK
<1>1. << >> \in Seq(Message) /\ << >> \in Seq(CallType)
  OBVIOUS
<1> SUFFICES ASSUME Init
             PROVE  TypeOK
  OBVIOUS
<1>2. temporary \in BOOLEAN /\ canceled \in BOOLEAN /\ tempRow \in BOOLEAN
      /\ rejoining \in BOOLEAN
  BY DEF Init
<1>3. log \in Seq(Message) /\ outbox \in Seq(CallType)
  BY <1>1 DEF Init
<1> QED
  BY <1>2, <1>3 DEF Init, TypeOK

LEMMA RequestType ==
    ASSUME TypeOK, NEW again \in BOOLEAN, Request(again)
    PROVE  /\ current' \in Requests
           /\ pc' \in [Requests -> {"idle", "arrived", "preparing", "streaming",
                                   "clearing", "saving", "done", "rejected",
                                   "failed"}]
           /\ regen' \in [Requests -> BOOLEAN]
           /\ tab' = "streaming"
           /\ clean' \subseteq Requests
  BY DEF TypeOK, Request

LEMMA AbortType ==
    ASSUME TypeOK, NEW R \in SUBSET Requests,
           NEW why \in {"published", "polled", "timer"}, Abort(R, why)
    PROVE  /\ cause' \in [Requests -> {"none", "published", "polled", "timer"}]
           /\ listening' \in [Requests -> {"off", "pubsub", "poll"}]
  BY DEF TypeOK, Abort

LEMMA TabType ==
    ASSUME TypeOK, TabMoves
    PROVE  TypeOK'
<1> USE DEF TypeOK, TabMoves, held
<1>1. CASE Send
  BY <1>1, RequestType DEF Send
<1>2. CASE StopAndSend
  <2>1. outbox' \in Seq(CallType)
    BY <1>2, StopCallFacts DEF StopAndSend
  <2> QED
    BY <1>2, <2>1, RequestType DEF StopAndSend
<1>3. CASE Stop
  BY <1>3, StopCallFacts DEF Stop
<1>4. CASE StartDiscard
  <2>1. Call("cancel") \in CallType /\ Call("delete") \in CallType
    BY <1>4 DEF StartDiscard, Call, CallType
  <2>2. outbox' \in Seq(CallType)
    BY <1>4, <2>1 DEF StartDiscard
  <2> QED
    BY <1>4, <2>2 DEF StartDiscard
<1>5. CASE Regenerate
  BY <1>5, RequestType DEF Regenerate
<1>6. CASE ResponseOver
  BY <1>6 DEF ResponseOver
<1> QED
  BY <1>1, <1>2, <1>3, <1>4, <1>5, <1>6

LEMMA MutationType ==
    ASSUME TypeOK, MutationRuns
    PROVE  TypeOK'
<1> USE DEF TypeOK, MutationRuns, server, held
<1>0. outbox # << >>
  BY DEF CancelStreamFromClient, CancelTempStreamFromClient, Executes,
         SaveAssistantMessage, DeleteLastAssistantMessage, MutationFails
<1> USE <1>0, TailFacts
<1>1. CASE CancelStreamFromClient /\ UNCHANGED faults
  BY <1>1 DEF CancelStreamFromClient, Executes, CallType
<1>2. CASE CancelTempStreamFromClient /\ UNCHANGED faults
  BY <1>2 DEF CancelTempStreamFromClient, Executes, CallType
<1>3. CASE SaveAssistantMessage /\ UNCHANGED faults
  <2>1. Answer(Head(outbox).of) \in Message
    BY DEF Answer, Message, CallType
  <2> QED
    BY <1>3, <2>1, InsertFacts DEF SaveAssistantMessage, Executes
<1>4. CASE DeleteLastAssistantMessage /\ UNCHANGED faults
  <2>1. log' \in Seq(Message)
    BY <1>4, PrefixFacts DEF DeleteLastAssistantMessage
  <2>2. discarded' \subseteq Requests
    BY <1>4 DEF DeleteLastAssistantMessage
  <2> QED
    BY <1>4, <2>1, <2>2 DEF DeleteLastAssistantMessage, Executes
<1>5. CASE MutationFails /\ Fault
  BY <1>5 DEF MutationFails, Fault
<1> QED
  BY <1>1, <1>2, <1>3, <1>4, <1>5

LEMMA SignalType ==
    ASSUME TypeOK, SignalMoves
    PROVE  TypeOK'
<1> USE DEF SignalMoves, client
<1> PICK r \in Requests :
        \/ PublishCancellation(r) \/ PublicationLost(r) \/ Poll(r)
        \/ PreemptiveTimeout(r) \/ FirstTokenTimeout(r)
  OBVIOUS
<1>1. CASE PublishCancellation(r)
  <2> DEFINE R == {q \in Requests : listening[q] = "pubsub"}
  <2>1. Abort(R, "published")
    BY <1>1 DEF PublishCancellation
  <2> HIDE DEF R
  <2>2. R \in SUBSET Requests
    BY DEF R
  <2>3. /\ cause' \in [Requests -> {"none", "published", "polled", "timer"}]
        /\ listening' \in [Requests -> {"off", "pubsub", "poll"}]
    BY <2>1, <2>2, AbortType
  <2> QED
    BY <1>1, <2>3 DEF PublishCancellation, TypeOK
<1>2. CASE PublicationLost(r)
  BY <1>2 DEF PublicationLost, TypeOK
<1>3. CASE Poll(r)
  <2>1. /\ cause' \in [Requests -> {"none", "published", "polled", "timer"}]
        /\ listening' \in [Requests -> {"off", "pubsub", "poll"}]
    BY <1>3, AbortType DEF Poll
  <2> QED
    BY <1>3, <2>1 DEF Poll, TypeOK
<1>4. CASE PreemptiveTimeout(r) \/ FirstTokenTimeout(r)
  <2>1. /\ cause' \in [Requests -> {"none", "published", "polled", "timer"}]
        /\ listening' \in [Requests -> {"off", "pubsub", "poll"}]
    BY <1>4, AbortType DEF PreemptiveTimeout, FirstTokenTimeout
  <2> QED
    BY <1>4, <2>1 DEF PreemptiveTimeout, FirstTokenTimeout, TypeOK
<1> QED
  BY <1>1, <1>2, <1>3, <1>4

LEMMA ResumeType ==
    ASSUME TypeOK, ResumeMoves
    PROVE  TypeOK'
  BY DEF TypeOK, ResumeMoves, client, held, StartStream, ReadActive,
         JoinOrReplay, ClearStaleActiveStream

LEMMA HandlerType ==
    ASSUME TypeOK, NEW r \in Requests, Handles(r)
    PROVE  TypeOK'
<1> USE DEF TypeOK, Handles, held, Goto, Release
<1>1. CASE Subscribe(r) /\ UNCHANGED faults
  BY <1>1 DEF Subscribe
<1>2. CASE SaveQuestion(r) /\ UNCHANGED faults
  <2>1. Question(r) \in Message
    BY DEF Question, Message
  <2> QED
    BY <1>2, <2>1, InsertFacts DEF SaveQuestion
<1>3. CASE StartTempStream(r) /\ UNCHANGED faults
  BY <1>3 DEF StartTempStream
<1>4. CASE RetryWithFallback(r) /\ UNCHANGED faults
  BY <1>4 DEF RetryWithFallback
<1>5. CASE OnFinish(r) /\ UNCHANGED faults
  BY <1>5 DEF OnFinish, Outcomes
<1>6. CASE PrepareForNewStream(r) /\ UNCHANGED faults
  BY <1>6 DEF PrepareForNewStream
<1>7. CASE DeleteTempStream(r) /\ UNCHANGED faults
  BY <1>7 DEF DeleteTempStream
<1>8. CASE SaveAnswer(r) /\ UNCHANGED faults
  <2>1. Answer(r) \in Message
    BY DEF Answer, Message
  <2> QED
    BY <1>8, <2>1, InsertFacts DEF SaveAnswer
<1>9. CASE (FailsEarly(r) \/ FailsLate(r) \/ Crash(r)) /\ Fault
  <2>1. faults' \in 0 .. MaxFaults
    BY <1>9 DEF Fault
  <2>2. CASE FailsEarly(r)
    BY <2>1, <2>2 DEF FailsEarly
  <2>3. CASE FailsLate(r)
    BY <2>1, <2>3 DEF FailsLate
  <2>4. CASE Crash(r)
    BY <2>1, <2>4 DEF Crash
  <2> QED
    BY <1>9, <2>2, <2>3, <2>4
<1> QED
  BY <1>1, <1>2, <1>3, <1>4, <1>5, <1>6, <1>7, <1>8, <1>9

\* Every variable stays in its range.
THEOREM TypeCorrect == Spec => []TypeOK
<1>1. ASSUME TypeOK, [Next]_vars
      PROVE  TypeOK'
  <2>1. CASE UNCHANGED vars
    BY <1>1, <2>1 DEF vars, server, held, client, TypeOK
  <2> QED
    BY <1>1, <2>1, TabType, MutationType, SignalType, ResumeType, HandlerType
       DEF Next
<1> QED
  BY InitType, <1>1, PTL DEF Spec

-----------------------------------------------------------------------------
(* Every message is saved once                                             *)

\* What a step can do to the log.
LEMMA LogSteps ==
    ASSUME TypeOK, Next
    PROVE  \/ log' = log
           \/ \E r \in Requests :
                 pc[r] = "preparing" /\ log' = Insert(Question(r))
           \/ \E r \in Requests :
                 /\ pc[r] = "saving" /\ ended[r] = "keep"
                 /\ log' = Insert(Answer(r))
                 /\ UNCHANGED <<ended, discarded>>
           \/ MutationRuns /\ SaveAssistantMessage
           \/ MutationRuns /\ DeleteLastAssistantMessage
<1>1. CASE TabMoves \/ SignalMoves \/ ResumeMoves
  BY <1>1 DEF TabMoves, SignalMoves, ResumeMoves
<1>2. CASE MutationRuns
  BY <1>2 DEF MutationRuns, CancelStreamFromClient, CancelTempStreamFromClient,
              MutationFails
<1>3. ASSUME NEW r \in Requests, Handles(r)
      PROVE  \/ log' = log
             \/ pc[r] = "preparing" /\ log' = Insert(Question(r))
             \/ /\ pc[r] = "saving" /\ ended[r] = "keep"
                /\ log' = Insert(Answer(r))
                /\ UNCHANGED <<ended, discarded>>
  BY <1>3 DEF Handles, Subscribe, SaveQuestion, StartTempStream, OnFinish,
              RetryWithFallback, PrepareForNewStream, DeleteTempStream,
              SaveAnswer, FailsEarly, FailsLate, Crash
<1> QED
  BY <1>1, <1>2, <1>3 DEF Next

LEMMA MessageTypes ==
    ASSUME NEW r \in Requests
    PROVE  Answer(r) \in Message /\ Question(r) \in Message
  BY DEF Answer, Question, Message

LEMMA OnceStep ==
    ASSUME TypeOK, MessagesSavedOnce, [Next]_vars
    PROVE  MessagesSavedOnce'
<1>0. log \in Seq(Message)
  BY DEF TypeOK
<1>1. CASE log' = log
  BY <1>1 DEF MessagesSavedOnce
<1>2. CASE \E m \in Message : log' = Insert(m)
  BY <1>0, <1>2, InsertFacts DEF MessagesSavedOnce
<1>3. CASE DeleteLastAssistantMessage
  <2>1. PICK k \in 0 .. Len(log) : log' = SubSeq(log, 1, k)
    BY <1>3 DEF DeleteLastAssistantMessage
  <2>2. DOMAIN log' = 1 .. k /\ \A i \in 1 .. k : log'[i] = log[i]
    BY <1>0, <2>1, PrefixFacts
  <2> QED
    BY <1>0, <2>2 DEF MessagesSavedOnce
<1>4. CASE MutationRuns /\ SaveAssistantMessage
  <2>1. Head(outbox).of \in Requests
    BY <1>4, TailFacts DEF TypeOK, SaveAssistantMessage, Executes, CallType
  <2> QED
    BY <1>2, <1>4, <2>1, MessageTypes DEF SaveAssistantMessage
<1>5. CASE UNCHANGED vars
  BY <1>5, <1>1 DEF vars
<1> QED
  BY <1>1, <1>2, <1>3, <1>4, <1>5, LogSteps, MessageTypes

\* The tab's save and the handler's save, whichever comes first, leave one row.
THEOREM SavedOnce == Spec => []MessagesSavedOnce
<1>1. Init => MessagesSavedOnce
  BY DEF Init, MessagesSavedOnce
<1> QED
  BY <1>1, OnceStep, TypeCorrect, PTL DEF Spec

-----------------------------------------------------------------------------
(* A finished stream is not active                                         *)

ActiveInv ==
    /\ temporary => active = None
    /\ \A r \in Requests :
           active = r /\ pc[r] \in {"saving", "done"} => r \in late

\* The tab moves no handler, but it may send the next request.
LEMMA TabSends ==
    ASSUME TypeOK, TabMoves
    PROVE  \/ /\ UNCHANGED <<pc, current, clean>>
           \/ /\ current + 1 \in Requests
              /\ current' = current + 1
              /\ pc' = [pc EXCEPT ![current + 1] = "arrived"]
              /\ tab' = "streaming"
              /\ clean' = IF Settled THEN clean \cup {current + 1} ELSE clean
<1>1. CASE Send \/ StopAndSend \/ Regenerate
  <2>1. \E again \in BOOLEAN : Request(again)
    BY <1>1 DEF Send, StopAndSend, Regenerate
  <2>2. current + 1 \in Requests
    BY <2>1 DEF Request, TypeOK
  <2> QED
    BY <2>1, <2>2 DEF Request
<1>2. CASE Stop \/ StartDiscard \/ ResponseOver
  BY <1>2 DEF Stop, StartDiscard, ResponseOver
<1> QED
  BY <1>1, <1>2 DEF TabMoves

LEMMA ActiveStep ==
    ASSUME TypeOK, ActiveInv, [Next]_vars
    PROVE  ActiveInv'
<1>1. CASE TabMoves
  <2>1. temporary' = temporary /\ active' = active /\ late' = late
    BY <1>1 DEF TabMoves
  <2>2. pc' = pc \/ \E r \in Requests : pc' = [pc EXCEPT ![r] = "arrived"]
    BY <1>1, TabSends
  <2> QED
    BY <2>1, <2>2 DEF ActiveInv, TypeOK
<1>2. CASE MutationRuns
  BY <1>2 DEF MutationRuns, server, ActiveInv, CancelStreamFromClient,
              CancelTempStreamFromClient, SaveAssistantMessage,
              DeleteLastAssistantMessage, MutationFails
<1>3. CASE SignalMoves
  BY <1>3 DEF SignalMoves, ActiveInv
<1>4. CASE ResumeMoves
  BY <1>4 DEF ResumeMoves, StartStream, ReadActive, JoinOrReplay, Opened,
              ClearStaleActiveStream, ActiveInv, TypeOK
<1>5. ASSUME NEW r \in Requests, Handles(r)
      PROVE  ActiveInv'
  <2>1. temporary' = temporary /\ late' = late
    BY <1>5 DEF Handles
  <2>2. CASE active' = active /\ \E place : pc' = [pc EXCEPT ![r] = place]
                                 /\ place \notin {"saving", "done"}
    BY <2>1, <2>2 DEF ActiveInv, TypeOK
  <2>3. CASE PrepareForNewStream(r)
    BY <2>1, <2>3 DEF PrepareForNewStream, ActiveInv
  <2>4. CASE DeleteTempStream(r)
    BY <2>1, <2>4 DEF DeleteTempStream, ActiveInv
  <2>5. CASE SaveAnswer(r)
    BY <2>1, <2>5 DEF SaveAnswer, Goto, ActiveInv, TypeOK
  <2>6. CASE RetryWithFallback(r)
    BY <2>1, <2>6 DEF RetryWithFallback, ActiveInv
  <2> QED
    BY <1>5, <2>2, <2>3, <2>4, <2>5, <2>6
       DEF Handles, Goto, Subscribe, SaveQuestion, StartTempStream, OnFinish,
           FailsEarly, FailsLate, Crash
<1>6. CASE UNCHANGED vars
  BY <1>6 DEF vars, server, ActiveInv
<1> QED
  BY <1>1, <1>2, <1>3, <1>4, <1>5, <1>6 DEF Next

\* A stream that is over is not offered to a reloaded tab, unless its
\* startStream came after its clean-up.
THEOREM FinishedNotActive == Spec => []FinishedStreamNotActive
<1>1. Init => ActiveInv
  BY DEF Init, ActiveInv
<1>2. ActiveInv => FinishedStreamNotActive
  BY DEF ActiveInv, FinishedStreamNotActive
<1> QED
  BY <1>1, <1>2, ActiveStep, TypeCorrect, PTL DEF Spec

-----------------------------------------------------------------------------
(* What concerns a request comes after it was sent                         *)

SentBefore ==
    /\ \A r \in Requests : pc[r] # "idle" => r <= current
    /\ \A i \in DOMAIN log : log[i].of <= current
    /\ \A i \in DOMAIN outbox : outbox[i].of <= current
    /\ \A r \in discarded \cup clean : r <= current

\* What the tab's moves add to the outbox.
LEMMA TabCalls ==
    ASSUME TypeOK, TabMoves
    PROVE  /\ outbox' \in Seq(CallType)
           /\ \A i \in DOMAIN outbox' :
                  \/ i \in DOMAIN outbox /\ outbox'[i] = outbox[i]
                  \/ outbox'[i].of = current /\ tab \in {"idle", "streaming"}
<1>1. CASE Send \/ Regenerate \/ ResponseOver
  BY <1>1 DEF Send, Regenerate, ResponseOver, TypeOK
<1>2. CASE StopAndSend \/ Stop
  <2>1. tab = "streaming" /\ \E calls \in StopCalls : outbox' = outbox \o calls
    BY <1>2 DEF StopAndSend, Stop
  <2> QED
    BY <2>1, StopCallFacts DEF TypeOK
<1>3. CASE StartDiscard
  <2>1. Call("cancel") \in CallType /\ Call("delete") \in CallType
    BY <1>3 DEF StartDiscard, Call, CallType
  <2>2. Call("cancel").of = current /\ Call("delete").of = current
    BY DEF Call
  <2> DEFINE first == IF tab = "streaming" THEN <<Call("cancel")>> ELSE << >>
  <2> DEFINE last(b) == IF b /\ ~temporary THEN <<Call("delete")>> ELSE << >>
  <2>3. /\ tab \in {"idle", "streaming"}
        /\ \E b \in BOOLEAN : outbox' = (outbox \o first) \o last(b)
    BY <1>3 DEF StartDiscard
  <2> PICK deletes \in BOOLEAN : outbox' = (outbox \o first) \o last(deletes)
    BY <2>3
  <2> DEFINE second == last(deletes)
  <2>9. outbox' = (outbox \o first) \o second
    OBVIOUS
  <2>4. /\ outbox \o first \in Seq(CallType)
        /\ \A i \in DOMAIN (outbox \o first) :
               \/ i \in DOMAIN outbox /\ (outbox \o first)[i] = outbox[i]
               \/ (outbox \o first)[i].of = current
    BY <2>1, <2>2 DEF TypeOK
  <2>5. ASSUME NEW some \in Seq(CallType)
        PROVE  /\ some \o second \in Seq(CallType)
               /\ \A i \in DOMAIN (some \o second) :
                      \/ i \in DOMAIN some /\ (some \o second)[i] = some[i]
                      \/ (some \o second)[i].of = current
    BY <2>1, <2>2
  <2> HIDE DEF first, second
  <2> QED
    BY <2>9, <2>3, <2>4, <2>5
<1> QED
  BY <1>1, <1>2, <1>3 DEF TabMoves

LEMMA SentStep ==
    ASSUME TypeOK, SentBefore, [Next]_vars
    PROVE  SentBefore'
<1> USE DEF SentBefore
<1>1. CASE TabMoves
  <2>0. current \in Nat /\ current' \in Nat /\ current <= current'
    BY <1>1, TabSends DEF TypeOK
  <2>1. log' = log /\ discarded' = discarded /\ current <= current'
    BY <1>1, <2>0 DEF TabMoves, Send, StopAndSend, Stop, StartDiscard,
                      Regenerate, ResponseOver
  <2>2. \A i \in DOMAIN outbox' : outbox'[i].of <= current'
    <3> SUFFICES ASSUME NEW i \in DOMAIN outbox'
                 PROVE  outbox'[i].of <= current'
      OBVIOUS
    <3>1. outbox'[i].of <= current
      BY <1>1, <2>0, TabCalls
    <3>2. outbox'[i] \in CallType
      BY <1>1, TabCalls
    <3>3. outbox'[i].of \in Nat
      BY <3>2 DEF CallType
    <3> QED
      BY <2>0, <3>1, <3>3
  <2>3. /\ \A r \in Requests : pc'[r] # "idle" => r <= current'
        /\ \A r \in discarded' \cup clean' : r <= current'
    <3>1. CASE UNCHANGED <<pc, current, clean>>
      BY <2>1, <3>1
    <3>2. CASE /\ current + 1 \in Requests
               /\ current' = current + 1
               /\ pc' = [pc EXCEPT ![current + 1] = "arrived"]
               /\ clean' = IF Settled THEN clean \cup {current + 1} ELSE clean
      <4>1. \A r \in Requests : r <= current => r <= current'
        BY <2>0, <3>2
      <4>2. \A r \in Requests : pc'[r] # "idle" => r <= current'
        BY <2>0, <3>2, <4>1 DEF TypeOK
      <4>3. \A r \in discarded' \cup clean' : r <= current'
        BY <2>0, <2>1, <3>2, <4>1 DEF TypeOK
      <4> QED
        BY <4>2, <4>3
    <3> QED
      BY <1>1, <3>1, <3>2, TabSends
  <2>4. \A i \in DOMAIN log' : log'[i].of <= current'
    <3>1. ASSUME NEW i \in DOMAIN log
          PROVE  log[i].of \in Nat
      <4>1. log[i] \in Message
        BY DEF TypeOK
      <4> QED
        BY <4>1 DEF Message
    <3> QED
      BY <2>0, <2>1, <3>1
  <2> QED
    BY <2>2, <2>3, <2>4
<1>2. CASE MutationRuns
  <2>1. UNCHANGED <<pc, current, clean>>
    BY <1>2 DEF MutationRuns, server
  <2>2. outbox # << >> /\ outbox' = Tail(outbox)
    BY <1>2 DEF MutationRuns, CancelStreamFromClient, SaveAssistantMessage,
                CancelTempStreamFromClient, DeleteLastAssistantMessage,
                MutationFails, Executes
  <2>3. \A i \in DOMAIN outbox' : outbox'[i].of <= current'
    BY <2>1, <2>2, TailFacts DEF TypeOK
  <2>4. Head(outbox).of \in Requests /\ Head(outbox).of <= current
    BY <2>2, TailFacts DEF TypeOK, CallType
  <2>5. CASE DeleteLastAssistantMessage
    <3>1. PICK k \in 0 .. Len(log) :
             /\ log' = SubSeq(log, 1, k)
             /\ discarded' = discarded \cup
                    {r \in Requests :
                        /\ \/ r = Head(outbox).of
                           \/ \E i \in k + 1 .. Len(log) : log[i].of = r
                        /\ ~\E i \in 1 .. k : log[i] = Answer(r)}
      BY <2>5 DEF DeleteLastAssistantMessage
    <3>2. \A i \in DOMAIN log' : log'[i].of <= current'
      BY <2>1, <3>1, PrefixFacts DEF TypeOK
    <3>3. ASSUME NEW r \in discarded'
          PROVE  r <= current
      <4>1. CASE r \in discarded \/ r = Head(outbox).of
        BY <2>4, <4>1
      <4>2. CASE \E i \in k + 1 .. Len(log) : log[i].of = r
        <5>1. PICK i \in k + 1 .. Len(log) : log[i].of = r
          BY <4>2
        <5>2. i \in DOMAIN log
          BY <5>1 DEF TypeOK
        <5> QED
          BY <5>1, <5>2
      <4> QED
        BY <3>1, <4>1, <4>2
    <3> QED
      BY <2>1, <2>3, <3>2, <3>3
  <2>6. CASE SaveAssistantMessage
    <3> DEFINE m == Answer(Head(outbox).of)
    <3>0. m \in Message /\ m.of = Head(outbox).of
      BY <2>4, MessageTypes DEF Answer
    <3>1. \A i \in DOMAIN log' : log'[i].of <= current'
      <4>1. log' = Insert(m) /\ log \in Seq(Message)
        BY <2>6 DEF SaveAssistantMessage, TypeOK
      <4> HIDE DEF m
      <4> QED
        BY <2>1, <2>4, <3>0, <4>1, InsertFacts
    <3> QED
      BY <2>1, <2>3, <2>6, <3>1 DEF SaveAssistantMessage
  <2>7. CASE ~DeleteLastAssistantMessage /\ ~SaveAssistantMessage
    BY <1>2, <2>1, <2>3, <2>7
       DEF MutationRuns, CancelStreamFromClient, CancelTempStreamFromClient,
           MutationFails
  <2> QED
    BY <2>5, <2>6, <2>7
<1>3. CASE SignalMoves
  BY <1>3 DEF SignalMoves, client
<1>4. CASE ResumeMoves
  BY <1>4 DEF ResumeMoves, client
<1>5. ASSUME NEW r \in Requests, Handles(r)
      PROVE  SentBefore'
  <2>1. UNCHANGED <<current, outbox, discarded, clean>>
    BY <1>5 DEF Handles
  <2>2. pc[r] # "idle" /\ (pc' = pc \/ \E p : pc' = [pc EXCEPT ![r] = p])
    BY <1>5 DEF Handles, Goto, Subscribe, SaveQuestion, StartTempStream,
                RetryWithFallback, OnFinish, PrepareForNewStream, SaveAnswer,
                DeleteTempStream, FailsEarly, FailsLate, Crash
  <2>3. log' = log \/ log' = Insert(Question(r)) \/ log' = Insert(Answer(r))
    BY <1>5 DEF Handles, Subscribe, SaveQuestion, StartTempStream, SaveAnswer,
                RetryWithFallback, OnFinish, PrepareForNewStream,
                DeleteTempStream, FailsEarly, FailsLate, Crash
  <2>4. \A i \in DOMAIN log' : log'[i].of <= current
    <3>1. ASSUME NEW m \in Message, m.of = r, log' = Insert(m)
          PROVE  \A i \in DOMAIN log' : log'[i].of <= current
      BY <2>2, <3>1, InsertFacts DEF TypeOK
    <3>2. Answer(r).of = r /\ Question(r).of = r
      BY DEF Answer, Question
    <3> QED
      BY <2>3, <3>1, <3>2, MessageTypes
  <2> QED
    BY <2>1, <2>2, <2>4 DEF TypeOK
<1>6. CASE UNCHANGED vars
  BY <1>6 DEF vars, server, client
<1> QED
  BY <1>1, <1>2, <1>3, <1>4, <1>5, <1>6 DEF Next

-----------------------------------------------------------------------------
(* A discarded answer does not come back                                   *)

\* A stream that has not ended has no outcome.
NotEnded ==
    \A r \in Requests :
        pc[r] \in {"idle", "arrived", "preparing", "streaming", "rejected"}
            => ended[r] = "no"

\* The tab waits for its deletion, so nothing is enqueued behind it.
DeleteIsLast ==
    \A i \in DOMAIN outbox :
        outbox[i].op = "delete" => i = Len(outbox) /\ tab = "discarding"

\* An answer that was thrown away has no save under way from the tab, and is
\* in the log only if its handler kept it.
DiscardedInv ==
    /\ current \in discarded => tab = "discarding" /\ outbox = << >>
    /\ \A r \in discarded :
          /\ \A i \in DOMAIN outbox :
                 ~(outbox[i].op = "save" /\ outbox[i].of = r)
          /\ InLog(Answer(r)) => ended[r] = "keep"

LEMMA NotEndedStep ==
    ASSUME TypeOK, SentBefore, NotEnded, [Next]_vars
    PROVE  NotEnded'
<1> USE DEF NotEnded
<1>1. CASE TabMoves
  <2>1. ended' = ended
    BY <1>1 DEF TabMoves
  <2>2. CASE pc' = pc
    BY <2>1, <2>2
  <2>3. CASE /\ current + 1 \in Requests
             /\ pc' = [pc EXCEPT ![current + 1] = "arrived"]
    <3>1. pc[current + 1] = "idle"
      BY <2>3 DEF SentBefore, TypeOK
    <3> QED
      BY <2>1, <2>3, <3>1 DEF TypeOK
  <2> QED
    BY <1>1, <2>2, <2>3, TabSends
<1>2. CASE MutationRuns
  BY <1>2 DEF MutationRuns, server
<1>3. CASE SignalMoves
  BY <1>3 DEF SignalMoves
<1>4. CASE ResumeMoves
  BY <1>4 DEF ResumeMoves
<1>5. ASSUME NEW r \in Requests, Handles(r)
      PROVE  NotEnded'
  <2>1. CASE OnFinish(r)
    BY <2>1 DEF OnFinish, Outcomes, Goto, TypeOK
  <2>2. CASE RetryWithFallback(r)
    BY <2>2 DEF RetryWithFallback
  <2>3. CASE /\ ended' = ended
             /\ \E p : pc' = [pc EXCEPT ![r] = p]
             /\ \/ pc[r] \in {"arrived", "preparing", "streaming"}
                \/ pc'[r] \in {"saving", "done", "failed"}
    BY <2>3 DEF TypeOK
  <2>4. CASE Crash(r)
    BY <2>3, <2>4 DEF Crash, Goto, Opened, TypeOK
  <2>5. CASE Subscribe(r) \/ SaveQuestion(r) \/ StartTempStream(r)
             \/ FailsEarly(r)
    <3>1. /\ pc[r] \in {"arrived", "preparing"} /\ ended' = ended
          /\ \E p : pc' = [pc EXCEPT ![r] = p]
      BY <2>5 DEF Subscribe, SaveQuestion, StartTempStream, FailsEarly, Goto
    <3> QED
      BY <2>3, <3>1
  <2>6. CASE PrepareForNewStream(r) \/ DeleteTempStream(r) \/ SaveAnswer(r)
             \/ FailsLate(r)
    BY <2>3, <2>6 DEF PrepareForNewStream, DeleteTempStream, SaveAnswer,
                      FailsLate, Goto, TypeOK
  <2> QED
    BY <1>5, <2>1, <2>2, <2>4, <2>5, <2>6 DEF Handles
<1>6. CASE UNCHANGED vars
  BY <1>6 DEF vars, server
<1> QED
  BY <1>1, <1>2, <1>3, <1>4, <1>5, <1>6 DEF Next

\* Only the tab and its mutations touch the outbox.
LEMMA OutboxSteps ==
    ASSUME Next
    PROVE  TabMoves \/ MutationRuns \/ UNCHANGED client
  BY DEF Next, SignalMoves, ResumeMoves, Handles, client

LEMMA MutationTakesHead ==
    ASSUME TypeOK, MutationRuns
    PROVE  /\ outbox # << >> /\ outbox' = Tail(outbox)
           /\ current' = current
           /\ tab' # tab => Head(outbox).op = "delete"
           /\ ended' = ended
  BY DEF MutationRuns, CancelStreamFromClient, CancelTempStreamFromClient,
         SaveAssistantMessage, DeleteLastAssistantMessage, MutationFails,
         Executes, server

LEMMA DeleteIsLastStep ==
    ASSUME TypeOK, DeleteIsLast, [Next]_vars
    PROVE  DeleteIsLast'
<1> USE DEF DeleteIsLast
<1>1. CASE TabMoves
  <2>1. CASE Send \/ ResponseOver
    BY <2>1 DEF Send, ResponseOver, Request
  <2>2. CASE Regenerate
    BY <2>2 DEF Regenerate
  <2>3. CASE StopAndSend \/ Stop
    <3>1. \A i \in DOMAIN outbox : outbox[i].op # "delete"
      BY <2>3 DEF StopAndSend, Stop
    <3>2. /\ tab = "streaming"
          /\ \E calls \in StopCalls : outbox' = outbox \o calls
      BY <2>3 DEF StopAndSend, Stop
    <3> QED
      BY <3>1, <3>2, StopCallFacts DEF TypeOK
  <2>4. CASE StartDiscard
    <3>1. \A i \in DOMAIN outbox : outbox[i].op # "delete"
      BY <2>4 DEF StartDiscard
    <3>2. /\ Call("cancel") \in CallType /\ Call("cancel").op = "cancel"
          /\ Call("delete") \in CallType
      BY <2>4 DEF StartDiscard, Call, CallType
    <3> DEFINE first == IF tab = "streaming" THEN <<Call("cancel")>> ELSE << >>
    <3> DEFINE last(b) == IF b /\ ~temporary THEN <<Call("delete")>> ELSE << >>
    <3>3. /\ tab' = "discarding"
          /\ \E b \in BOOLEAN : outbox' = (outbox \o first) \o last(b)
      BY <2>4 DEF StartDiscard
    <3> PICK deletes \in BOOLEAN : outbox' = (outbox \o first) \o last(deletes)
      BY <3>3
    <3> DEFINE second == last(deletes)
    <3>9. outbox' = (outbox \o first) \o second
      OBVIOUS
    <3>4. /\ outbox \o first \in Seq(CallType)
          /\ \A i \in DOMAIN (outbox \o first) :
                 (outbox \o first)[i].op # "delete"
      BY <3>1, <3>2 DEF TypeOK
    <3>5. ASSUME NEW some \in Seq(CallType),
                 \A i \in DOMAIN some : some[i].op # "delete",
                 NEW i \in DOMAIN (some \o second),
                 (some \o second)[i].op = "delete"
          PROVE  i = Len(some \o second)
      BY <3>2, <3>5
    <3> HIDE DEF first, second
    <3> QED
      BY <3>9, <3>3, <3>4, <3>5
  <2> QED
    BY <1>1, <2>1, <2>2, <2>3, <2>4 DEF TabMoves
<1>2. CASE MutationRuns
  <2>0. outbox \in Seq(CallType) /\ outbox # << >> /\ outbox' = Tail(outbox)
    BY <1>2, MutationTakesHead DEF TypeOK
  <2>1. CASE Head(outbox).op = "delete"
    <3>1. Len(outbox) = 1
      BY <2>0, <2>1, TailFacts
    <3> QED
      BY <2>0, <3>1
  <2>2. CASE Head(outbox).op # "delete"
    <3>1. tab' = tab
      BY <1>2, <2>2, MutationTakesHead
    <3> SUFFICES ASSUME NEW i \in DOMAIN outbox', outbox'[i].op = "delete"
                 PROVE  i = Len(outbox') /\ tab' = "discarding"
      OBVIOUS
    <3>2. i + 1 \in DOMAIN outbox /\ outbox[i + 1].op = "delete"
      BY <2>0, TailFacts
    <3>3. i + 1 = Len(outbox) /\ tab = "discarding" /\ i \in Nat
      BY <2>0, <3>2
    <3> QED
      BY <2>0, <3>1, <3>3, TailFacts
  <2> QED
    BY <2>1, <2>2
<1>3. CASE UNCHANGED client \/ UNCHANGED vars
  BY <1>3 DEF client, vars
<1> QED
  BY <1>1, <1>2, <1>3, OutboxSteps

LEMMA InsertInLog ==
    ASSUME log \in Seq(Message), NEW m \in Message, NEW n \in Message,
           log' = Insert(m), InLog(n)'
    PROVE  InLog(n) \/ n = m
  BY InsertFacts DEF InLog

LEMMA DiscardedStep ==
    ASSUME TypeOK, SentBefore, NotEnded, DeleteIsLast, DiscardedInv,
           [Next]_vars
    PROVE  DiscardedInv'
<1>0. log \in Seq(Message) /\ outbox \in Seq(CallType)
  BY DEF TypeOK
<1>1. CASE TabMoves
  <2>1. UNCHANGED <<log, ended, discarded>>
    BY <1>1 DEF TabMoves, Send, StopAndSend, Stop, StartDiscard, Regenerate,
                ResponseOver
  <2>2. \A r \in discarded : InLog(Answer(r))' => ended'[r] = "keep"
    BY <2>1 DEF DiscardedInv, InLog
  <2>3. current + 1 \notin discarded
    BY DEF SentBefore, TypeOK
  <2>4. CASE current \in discarded
    <3>1. tab = "discarding" /\ outbox = << >>
      BY <2>4 DEF DiscardedInv
    <3>2. Regenerate
      BY <1>1, <3>1 DEF TabMoves, Send, StopAndSend, Stop, StartDiscard,
                        ResponseOver
    <3>3. outbox' = << >> /\ current' = current + 1
      BY <3>1, <3>2 DEF Regenerate, Request
    <3> QED
      BY <2>1, <2>2, <2>3, <3>3 DEF DiscardedInv
  <2>5. CASE current \notin discarded
    <3>1. current' \notin discarded
      BY <1>1, <2>3, <2>5, TabSends
    <3>2. \A r \in discarded : \A i \in DOMAIN outbox' :
              ~(outbox'[i].op = "save" /\ outbox'[i].of = r)
      BY <1>1, <2>5, TabCalls DEF DiscardedInv
    <3> QED
      BY <2>1, <2>2, <3>1, <3>2 DEF DiscardedInv
  <2> QED
    BY <2>4, <2>5
<1>2. CASE MutationRuns
  <2>0. outbox # << >> /\ outbox' = Tail(outbox) /\ UNCHANGED <<current, ended>>
    BY <1>2, MutationTakesHead
  <2>1. CASE DeleteLastAssistantMessage
    <3>1. outbox' = << >> /\ tab' = "discarding"
      BY <1>0, <2>0, <2>1, TailFacts
         DEF DeleteIsLast, DeleteLastAssistantMessage, Executes
    <3>2. PICK k \in 0 .. Len(log) :
             /\ log' = SubSeq(log, 1, k)
             /\ discarded' = discarded \cup
                    {r \in Requests :
                        /\ \/ r = Head(outbox).of
                           \/ \E i \in k + 1 .. Len(log) : log[i].of = r
                        /\ ~\E i \in 1 .. k : log[i] = Answer(r)}
      BY <2>1 DEF DeleteLastAssistantMessage
    <3>3. ASSUME NEW r \in discarded', InLog(Answer(r))'
          PROVE  ended'[r] = "keep"
      <4>1. \E i \in 1 .. k : log[i] = Answer(r)
        BY <1>0, <3>2, <3>3, PrefixFacts DEF InLog
      <4>2. r \in discarded
        BY <3>2, <4>1
      <4>3. InLog(Answer(r))
        BY <1>0, <4>1 DEF InLog
      <4> QED
        BY <2>0, <4>2, <4>3 DEF DiscardedInv
    <3> QED
      BY <3>1, <3>3 DEF DiscardedInv
  <2>2. CASE ~DeleteLastAssistantMessage
    <3>1. discarded' = discarded /\ current \notin discarded
      BY <1>2, <2>0, <2>2 DEF DiscardedInv, MutationRuns, SaveAssistantMessage,
              CancelStreamFromClient, CancelTempStreamFromClient, MutationFails
    <3>2. \A r \in discarded : \A i \in DOMAIN outbox' :
              ~(outbox'[i].op = "save" /\ outbox'[i].of = r)
      BY <1>0, <2>0, TailFacts DEF DiscardedInv
    <3>3. ASSUME NEW r \in discarded, InLog(Answer(r))'
          PROVE  ended'[r] = "keep"
      <4>1. CASE log' = log
        BY <2>0, <3>3, <4>1 DEF DiscardedInv, InLog
      <4>2. CASE SaveAssistantMessage
        <5>1. /\ Head(outbox).of \in Requests /\ Head(outbox).of # r
              /\ log' = Insert(Answer(Head(outbox).of))
          BY <1>0, <2>0, <4>2, TailFacts
             DEF DiscardedInv, SaveAssistantMessage, Executes, CallType
        <5>2. r \in Requests
          BY DEF TypeOK
        <5>3. InLog(Answer(r)) \/ Answer(r) = Answer(Head(outbox).of)
          BY <1>0, <3>3, <5>1, <5>2, InsertInLog, MessageTypes
        <5> QED
          BY <2>0, <5>1, <5>3 DEF DiscardedInv, Answer
      <4> QED
        BY <1>2, <2>2, <4>1, <4>2
           DEF MutationRuns, CancelStreamFromClient,
               CancelTempStreamFromClient, MutationFails
    <3> QED
      BY <2>0, <3>1, <3>2, <3>3 DEF DiscardedInv
  <2> QED
    BY <2>1, <2>2
<1>3. CASE SignalMoves \/ ResumeMoves \/ UNCHANGED vars
  BY <1>3 DEF SignalMoves, ResumeMoves, vars, server, client, DiscardedInv,
              InLog
<1>4. ASSUME NEW q \in Requests, Handles(q)
      PROVE  DiscardedInv'
  <2>1. UNCHANGED <<tab, current, outbox, discarded>>
    BY <1>4 DEF Handles
  <2>2. ASSUME NEW r \in discarded, InLog(Answer(r))'
        PROVE  ended'[r] = "keep"
    <3>0. r \in Requests
      BY DEF TypeOK
    <3>1. CASE OnFinish(q)
      BY <2>2, <3>0, <3>1 DEF OnFinish, NotEnded, DiscardedInv, InLog, TypeOK
    <3>2. CASE SaveAnswer(q)
      <4>1. ended' = ended
        BY <3>2 DEF SaveAnswer
      <4>2. CASE ended[q] = "keep"
        <5>1. InLog(Answer(r)) \/ Answer(r) = Answer(q)
          BY <1>0, <2>2, <3>0, <3>2, <4>2, InsertInLog, MessageTypes
             DEF SaveAnswer
        <5> QED
          BY <4>1, <4>2, <5>1 DEF DiscardedInv, Answer
      <4>3. CASE ended[q] # "keep"
        BY <2>2, <3>2, <4>1, <4>3 DEF SaveAnswer, DiscardedInv, InLog
      <4> QED
        BY <4>2, <4>3
    <3>3. CASE SaveQuestion(q)
      <4>1. ended' = ended
        BY <3>3 DEF SaveQuestion
      <4>2. log' = log \/ log' = Insert(Question(q))
        BY <3>3 DEF SaveQuestion
      <4>3. Answer(r) # Question(q)
        BY DEF Answer, Question
      <4>4. InLog(Answer(r))
        BY <1>0, <2>2, <3>0, <4>2, <4>3, InsertInLog, MessageTypes DEF InLog
      <4> QED
        BY <4>1, <4>4 DEF DiscardedInv
    <3>4. CASE log' = log /\ ended' = ended
      BY <2>2, <3>4 DEF DiscardedInv, InLog
    <3> QED
      BY <1>4, <3>1, <3>2, <3>3, <3>4
         DEF Handles, Subscribe, StartTempStream, RetryWithFallback,
             PrepareForNewStream, DeleteTempStream, FailsEarly, FailsLate, Crash
  <2> QED
    BY <2>1, <2>2 DEF DiscardedInv
<1> QED
  BY <1>1, <1>2, <1>3, <1>4 DEF Next

\* An answer that was aborted by the user and thrown away stays away: the
\* handler that streamed it adds no row, and the tab's save, if any, came
\* before the deletion.
THEOREM DiscardedStays == Spec => []DiscardedStaysDiscarded
<1> DEFINE Inv == SentBefore /\ NotEnded /\ DeleteIsLast /\ DiscardedInv
<1>1. Init => Inv
  BY DEF Init, SentBefore, NotEnded, DeleteIsLast, DiscardedInv
<1>2. TypeOK /\ Inv /\ [Next]_vars => Inv'
  BY SentStep, NotEndedStep, DeleteIsLastStep, DiscardedStep
<1>3. Inv => DiscardedStaysDiscarded
  BY DEF DiscardedInv, DiscardedStaysDiscarded
<1> HIDE DEF Inv
<1> QED
  BY <1>1, <1>2, <1>3, TypeCorrect, PTL DEF Spec

-----------------------------------------------------------------------------
(* A request sent into a settled chat is stopped only on purpose           *)

\* Before it is sent, nothing aborts a request or listens for it.
Untouched ==
    \A r \in Requests :
        pc[r] = "idle" => cause[r] = "none" /\ listening[r] = "off"

StoppedSince(r) == \E q \in stops : q >= r

\* Whatever could stop a request that was sent into a settled chat was asked
\* for since.
CleanInv ==
    /\ published \subseteq stops
    /\ \A r \in clean :
          /\ \A i \in DOMAIN outbox : outbox[i].of >= r
          /\ \A q \in published : q >= r
          /\ canceled => StoppedSince(r)
          /\ cause[r] = "published" \/ (cause[r] = "polled" /\ ~temporary)
                => StoppedSince(r)

LEMMA UntouchedStep ==
    ASSUME TypeOK, Untouched, [Next]_vars
    PROVE  Untouched'
<1> USE DEF Untouched
<1>1. CASE TabMoves
  <2>1. cause' = cause /\ listening' = listening
    BY <1>1 DEF TabMoves, held
  <2> QED
    BY <1>1, <2>1, TabSends DEF TypeOK
<1>2. CASE MutationRuns
  BY <1>2 DEF MutationRuns, server, held
<1>3. CASE SignalMoves
  <2>1. pc' = pc
    BY <1>3 DEF SignalMoves
  <2>2. PICK r \in Requests :
            \/ PublishCancellation(r) \/ PublicationLost(r) \/ Poll(r)
            \/ PreemptiveTimeout(r) \/ FirstTokenTimeout(r)
    BY <1>3 DEF SignalMoves
  <2>3. \A q \in Requests : pc[q] = "idle" =>
            cause'[q] = cause[q] /\ listening'[q] = listening[q]
    BY <2>2 DEF PublishCancellation, PublicationLost, Poll, PreemptiveTimeout,
                FirstTokenTimeout, Abort, TypeOK
  <2> QED
    BY <2>1, <2>3
<1>4. CASE ResumeMoves
  BY <1>4 DEF ResumeMoves, held
<1>5. ASSUME NEW r \in Requests, Handles(r)
      PROVE  Untouched'
  <2>1. /\ pc[r] # "idle"
        /\ pc' = pc \/ \E p : p # "idle" /\ pc' = [pc EXCEPT ![r] = p]
    BY <1>5 DEF Handles, Goto, Subscribe, SaveQuestion, StartTempStream,
                RetryWithFallback, OnFinish, PrepareForNewStream, SaveAnswer,
                DeleteTempStream, FailsEarly, FailsLate, Crash
  <2>2. \A q \in Requests \ {r} :
            cause'[q] = cause[q] /\ listening'[q] = listening[q]
    BY <1>5 DEF Handles, Release, held, Subscribe, SaveQuestion, SaveAnswer,
                StartTempStream, RetryWithFallback, OnFinish, FailsEarly,
                PrepareForNewStream, DeleteTempStream, FailsLate, Crash, TypeOK
  <2> QED
    BY <2>1, <2>2 DEF TypeOK
<1>6. CASE UNCHANGED vars
  BY <1>6 DEF vars, server, held
<1> QED
  BY <1>1, <1>2, <1>3, <1>4, <1>5, <1>6 DEF Next

LEMMA CleanStep ==
    ASSUME TypeOK, SentBefore, Untouched, CleanInv, [Next]_vars
    PROVE  CleanInv'
<1>0. /\ outbox \in Seq(CallType) /\ current \in Nat
      /\ clean \subseteq Requests /\ stops \subseteq Requests
      /\ published \subseteq Requests
  BY DEF TypeOK
<1>1. CASE TabMoves
  <2>1. UNCHANGED <<temporary, canceled, published, stops, cause>>
    BY <1>1 DEF TabMoves, held
  <2>2. ASSUME NEW r \in clean
        PROVE  \A i \in DOMAIN outbox' : outbox'[i].of >= r
    <3>1. r \in Nat /\ r <= current
      BY <1>0 DEF SentBefore
    <3> QED
      BY <1>0, <1>1, <3>1, TabCalls DEF CleanInv
  <2>3. CASE clean' \subseteq clean
    BY <2>1, <2>2, <2>3 DEF CleanInv, StoppedSince
  <2>4. CASE Settled /\ clean' = clean \cup {current + 1}
    <3>1. outbox' = << >> /\ published = {} /\ ~canceled
      BY <2>4 DEF Settled
    <3>2. current + 1 \in Requests => cause[current + 1] = "none"
      BY <1>0 DEF SentBefore, Untouched, TypeOK
    <3>3. current + 1 \in Requests \/ clean' = clean
      BY <1>1, TabSends DEF TypeOK
    <3> QED
      BY <2>1, <2>4, <3>1, <3>2, <3>3 DEF CleanInv, StoppedSince
  <2> QED
    BY <1>1, <2>3, <2>4, TabSends
<1>2. CASE MutationRuns
  <2>0. /\ outbox # << >> /\ outbox' = Tail(outbox)
        /\ UNCHANGED <<clean, cause, temporary>>
    BY <1>2, MutationTakesHead DEF MutationRuns, server, held
  <2>1. \A r \in clean : \A i \in DOMAIN outbox' : outbox'[i].of >= r
    BY <1>0, <2>0, TailFacts DEF CleanInv
  <2>2. Head(outbox).of \in Requests /\ \A r \in clean : Head(outbox).of >= r
    BY <1>0, <2>0, TailFacts DEF CleanInv, CallType
  <2>3. CASE CancelStreamFromClient \/ CancelTempStreamFromClient
    <3>1. /\ stops' = stops \cup {Head(outbox).of}
          /\ published \subseteq published'
          /\ published' \subseteq published \cup {Head(outbox).of}
      BY <2>3 DEF CancelStreamFromClient, CancelTempStreamFromClient
    <3>2. \A r \in clean : StoppedSince(r)'
      BY <2>2, <3>1 DEF StoppedSince
    <3> QED
      BY <2>0, <2>1, <2>2, <3>1, <3>2 DEF CleanInv
  <2>4. CASE SaveAssistantMessage \/ DeleteLastAssistantMessage \/ MutationFails
    <3>1. UNCHANGED <<stops, published, canceled>>
      BY <2>4 DEF SaveAssistantMessage, DeleteLastAssistantMessage,
                  MutationFails
    <3> QED
      BY <2>0, <2>1, <3>1 DEF CleanInv, StoppedSince
  <2> QED
    BY <1>2, <2>3, <2>4 DEF MutationRuns
<1>3. CASE SignalMoves
  <2>0. UNCHANGED <<outbox, clean, stops, canceled, temporary>>
    BY <1>3 DEF SignalMoves, client
  <2>1. PICK q \in Requests :
            \/ PublishCancellation(q) \/ PublicationLost(q) \/ Poll(q)
            \/ PreemptiveTimeout(q) \/ FirstTokenTimeout(q)
    BY <1>3 DEF SignalMoves
  <2>2. published' \subseteq published
    BY <2>1 DEF PublishCancellation, PublicationLost, Poll, PreemptiveTimeout,
                FirstTokenTimeout
  <2>3. ASSUME NEW r \in clean
        PROVE  cause'[r] = "published" \/ (cause'[r] = "polled" /\ ~temporary)
                   => StoppedSince(r)
    <3>0. r \in Requests
      BY <1>0
    <3>1. CASE cause'[r] = cause[r]
      BY <3>1 DEF CleanInv
    <3>2. CASE PublishCancellation(q)
      <4>1. q \in stops /\ q >= r
        BY <3>2 DEF PublishCancellation, CleanInv
      <4> QED
        BY <4>1 DEF StoppedSince
    <3>3. CASE Poll(q) /\ cause'[r] # cause[r]
      <4>1. temporary \/ canceled
        BY <3>3 DEF Poll
      <4> QED
        BY <3>0, <3>3, <4>1 DEF Poll, Abort, CleanInv, StoppedSince
    <3>4. CASE (PreemptiveTimeout(q) \/ FirstTokenTimeout(q))
               /\ cause'[r] # cause[r]
      BY <3>0, <3>4 DEF PreemptiveTimeout, FirstTokenTimeout, Abort
    <3>5. CASE PublicationLost(q)
      BY <3>1, <3>5 DEF PublicationLost
    <3> QED
      BY <2>1, <3>1, <3>2, <3>3, <3>4, <3>5
  <2> QED
    BY <2>0, <2>2, <2>3 DEF CleanInv, StoppedSince
<1>4. CASE ResumeMoves
  BY <1>4 DEF ResumeMoves, client, held, StartStream, ReadActive, JoinOrReplay,
              ClearStaleActiveStream, CleanInv, StoppedSince
<1>5. ASSUME NEW q \in Requests, Handles(q)
      PROVE  CleanInv'
  <2>1. UNCHANGED <<outbox, clean, stops, published, temporary>>
    BY <1>5 DEF Handles
  <2>2. canceled' => canceled
    BY <1>5 DEF Handles, Subscribe, SaveQuestion, SaveAnswer, StartTempStream,
                RetryWithFallback, OnFinish, FailsEarly, PrepareForNewStream,
                DeleteTempStream, FailsLate, Crash
  <2>3. \A r \in Requests : cause'[r] = cause[r] \/ cause'[r] = "none"
    BY <1>5 DEF Handles, Release, held, Subscribe, SaveQuestion, SaveAnswer,
                StartTempStream, RetryWithFallback, OnFinish, FailsEarly,
                PrepareForNewStream, DeleteTempStream, FailsLate, Crash, TypeOK
  <2> QED
    BY <1>0, <2>1, <2>2, <2>3 DEF CleanInv, StoppedSince
<1>6. CASE UNCHANGED vars
  BY <1>6 DEF vars, server, client, held, CleanInv, StoppedSince
<1> QED
  BY <1>1, <1>2, <1>3, <1>4, <1>5, <1>6 DEF Next

\* The cancellations pressed for older streams do not reach a request that was
\* sent once they had all settled.
THEOREM CleanNotStopped == Spec => []CleanStartNotStopped
<1> DEFINE Inv == SentBefore /\ Untouched /\ CleanInv
<1>1. Init => Inv
  BY DEF Init, SentBefore, Untouched, CleanInv
<1>2. TypeOK /\ Inv /\ [Next]_vars => Inv'
  BY SentStep, UntouchedStep, CleanStep
<1>3. Inv => CleanStartNotStopped
  BY DEF CleanInv, CleanStartNotStopped, StoppedSince
<1> HIDE DEF Inv
<1> QED
  BY <1>1, <1>2, <1>3, TypeCorrect, PTL DEF Spec

=============================================================================
