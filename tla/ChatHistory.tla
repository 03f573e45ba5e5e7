---------------------------- MODULE ChatHistory ----------------------------
(***************************************************************************)
(* The chats of one user as the database keeps them: messages, the files   *)
(* they refer to, the summary that stands for the older messages of a      *)
(* chat, branches and public shares. Every operation is one transaction,   *)
(* except a summary, which is written from messages read long before it is *)
(* saved, and the deletion of all chats, which runs in batches.            *)
(*                                                                         *)
(* Messages are numbered in the order of their insertion: the number is    *)
(* both the id and the creation time. The text of a message is the number  *)
(* of its edits.                                                           *)
(***************************************************************************)
EXTENDS FileStore

CONSTANTS
    Chats,         \* the ids chats may get
    MaxMessages,   \* messages ever inserted
    MaxEdits,      \* edits of one message
    MaxPrevious,   \* MAX_PREVIOUS_SUMMARIES
    MaxWriters,    \* summaries being written at once
    Batch          \* DELETE_ALL_CHATS_MESSAGE_BATCH_SIZE

ASSUME MessagesAssumption == MaxMessages \in Nat
ASSUME EditsAssumption == MaxEdits \in Nat
ASSUME PreviousAssumption == MaxPrevious \in Nat
ASSUME BatchAssumption == Batch \in Nat \ {0}

Ids == 1 .. MaxMessages
Nowhere == "nowhere"
ASSUME ChatsAssumption == Nowhere \notin Chats

VARIABLES
    exists,   \* the chats that have a row
    used,     \* the chat ids handed out so far
    next,     \* the number of the next message
    msg,      \* the message with an id, or Blank
    latest,   \* the latest summary of a chat, or NoSummary
    writing,  \* the summaries being written
    share,    \* what a chat showed when it was last shared, or NotShared
    emptied,  \* history: chats a batch has taken messages from
    crossed   \* history: messages edited while a summary up to them was written

chatVars ==
    <<exists, used, next, msg, latest, writing, share, emptied, crossed>>
vars == <<fileVars, chatVars>>

----------------------------------------------------------------------------

Roles == {"user", "hidden", "assistant"}

Message == [chat : Chats \cup {Nowhere}, role : Roles, copy : BOOLEAN,
            files : SUBSET Files, text : 0 .. MaxEdits, recent : BOOLEAN]

\* recent: updated since the chat was last shared.
Blank == [chat |-> Nowhere, role |-> "user", copy |-> FALSE, files |-> {},
          text |-> 0, recent |-> FALSE]

\* What a text says of messages: which ones, in which wording.
Content == SUBSET (Ids \X (0 .. MaxEdits))

\* time is summary_up_to_message_creation_time, 0 when it is not set. The
\* previous summaries are kept newest first, the order of their cutoffs.
Cut == [upTo : Ids, says : Content]
Summary == [upTo : Ids, says : Content, time : Ids \cup {0},
            previous : SUBSET Cut]
NoSummary == [upTo |-> 0]
NotShared == {<<0, 0>>}

Live == {i \in Ids : msg[i] /= Blank}
Of(c) == {i \in Ids : msg[i].chat = c}
Wording(I) == {<<i, msg[i].text>> : i \in I}
FilesOf(I) == UNION {msg[i].files : i \in I}
Without(I) == [i \in Ids |-> IF i \in I THEN Blank ELSE msg[i]]

Init ==
    /\ FileStoreInit
    /\ exists = {}
    /\ used = {}
    /\ next = 1
    /\ msg = [i \in Ids |-> Blank]
    /\ latest = [c \in Chats |-> NoSummary]
    /\ writing = {}
    /\ share = [c \in Chats |-> NotShared]
    /\ emptied = {}
    /\ crossed = {}

----------------------------------------------------------------------------
(* Chats and messages.                                                     *)

\* handleInitialChatAndUserMessage found no chat: a new one, or one that was
\* deleted while another tab still showed it.
SaveChat(c) ==
    /\ c \notin exists
    /\ exists' = exists \cup {c}
    /\ used' = used \cup {c}
    /\ UNCHANGED <<fileVars, next, msg, latest, writing, share, emptied,
                   crossed>>

\* Mutant of VerifyChatOwnership: whether the chat is still there is not asked.
VerifyNothing(c) == TRUE

VerifyChatOwnership(c) == c \in exists

\* The composer and the agent offer files that no message has taken up; a
\* hidden question, which asks the agent to go on, has none. A file that is
\* gone by now fails the whole mutation.
SaveMessage(c, role, F) ==
    /\ VerifyChatOwnership(c)
    /\ next \in Ids
    /\ F \subseteq rows \ attached
    /\ role = "hidden" => F = {}
    /\ msg' = [msg EXCEPT ![next] =
                  [chat |-> c, role |-> role, copy |-> FALSE, files |-> F,
                   text |-> 0, recent |-> TRUE]]
    /\ next' = next + 1
    /\ AttachFiles(F)
    /\ UNCHANGED <<exists, used, latest, writing, share, emptied, crossed>>

\* The handler saves an answer that the tab has saved already: what the agent
\* has produced is added, and the row is updated.
PatchMessage(i, F) ==
    /\ i \in Live
    /\ msg[i].role = "assistant"
    /\ ~msg[i].copy
    /\ F \subseteq rows \ attached
    /\ msg' = [msg EXCEPT ![i].files = @ \cup F, ![i].recent = TRUE]
    /\ AttachFiles(F)
    /\ UNCHANGED <<exists, used, next, latest, writing, share, emptied,
                   crossed>>

\* Mutant of Trails: only what is older than the cutoff counts.
TrailsLoosely(s, I) == s.upTo \in Live /\ \A i \in I : i >= s.upTo

\* Does the summary's cutoff still exist, and lie before everything in I?
Trails(s, I) == s.upTo \in Live /\ \A i \in I : i > s.upTo

Newest(cuts) == CHOOSE cut \in cuts : \A d \in cuts : d.upTo <= cut.upTo
Before(cuts, i) == {d \in cuts : d.upTo < i}

\* tryFallbackSummary: the newest older summary that ends before I takes the
\* place of s, which keeps the creation time of its own cutoff.
Fallback(s, I) ==
    LET fit == {cut \in s.previous : Trails(cut, I)}
        cut == Newest(fit)
    IN  IF fit = {} THEN NoSummary
        ELSE [upTo |-> cut.upTo, says |-> cut.says, time |-> s.time,
              previous |-> Before(s.previous, cut.upTo)]

\* checkAndInvalidateSummary, before the messages I of c are deleted or edited.
Invalidated(c, I) ==
    IF latest[c] = NoSummary \/ Trails(latest[c], I) THEN latest[c]
    ELSE Fallback(latest[c], I)

\* The answers, and the hidden questions between them, at the end of c.
Trailing(c) ==
    {i \in Of(c) : \A j \in Of(c) : j >= i => msg[j].role /= "user"}

DeleteLastAssistantMessage(c) ==
    /\ VerifyChatOwnership(c)
    /\ Trailing(c) /= {}
    /\ latest' = [latest EXCEPT ![c] = Invalidated(c, Trailing(c))]
    /\ RemoveFiles(FilesOf(Trailing(c)))
    /\ msg' = Without(Trailing(c))
    /\ UNCHANGED <<exists, used, next, writing, share, emptied, crossed>>

\* Mutant of Edited: the message keeps its update time.
EditedQuietly(m, K) == [m EXCEPT !.files = K, !.text = @ + 1]

Edited(m, K) == [m EXCEPT !.files = K, !.text = @ + 1, !.recent = TRUE]

\* The question i is edited in place, keeps the files K, and what follows it in
\* its chat is deleted.
RegenerateWithNewContent(i, K) ==
    LET c == msg[i].chat
        later == {j \in Of(c) : j > i}
    IN  /\ i \in Live
        /\ VerifyChatOwnership(c)
        /\ msg[i].role = "user"
        /\ msg[i].text < MaxEdits
        /\ K \subseteq msg[i].files
        /\ latest' = [latest EXCEPT ![c] = Invalidated(c, later \cup {i})]
        /\ RemoveFiles((msg[i].files \ K) \cup FilesOf(later))
        /\ msg' = [Without(later) EXCEPT ![i] = Edited(@, K)]
        /\ crossed' = IF \E w \in writing : w.upTo = i THEN crossed \cup {i}
                      ELSE crossed
        /\ UNCHANGED <<exists, used, next, writing, share, emptied>>

----------------------------------------------------------------------------
(* Branches and forks. Copies are inserted in the order of the originals.  *)

CopyOf(I, j) == next + Cardinality({h \in I : h < j})
Original(I, k) == CHOOSE j \in I : CopyOf(I, j) = k
Copies(I) == {CopyOf(I, j) : j \in I}

\* Copies are not hidden any more.
CopyMessage(j, b, F) ==
    [msg[j] EXCEPT !.chat = b, !.copy = TRUE, !.recent = TRUE, !.files = F,
                   !.role = IF @ = "hidden" THEN "user" ELSE @]

\* A new chat b starts with copies of the messages I, which keep the files
\* that keep(j) says.
StartWithCopies(I, b, keep) ==
    /\ b \in Chats \ used
    /\ next + Cardinality(I) <= MaxMessages + 1
    /\ exists' = exists \cup {b}
    /\ used' = used \cup {b}
    /\ next' = next + Cardinality(I)
    /\ msg' = [k \in Ids |->
                  IF k \in Copies(I)
                  THEN CopyMessage(Original(I, k), b, keep[Original(I, k)])
                  ELSE msg[k]]
    /\ crossed' = crossed \cup {CopyOf(I, j) : j \in I \cap crossed}
    /\ UNCHANGED <<fileVars, writing, share, emptied>>

CopyCut(I, s) ==
    [upTo |-> CopyOf(I, s.upTo),
     says |-> {<<CopyOf(I, p[1]), p[2]>> : p \in {q \in s.says : q[1] \in I}}]

\* copyChatSummary: unless the summary reaches beyond the branch. The creation
\* time is not copied.
CopyChatSummary(I, s) ==
    IF s.upTo \notin I THEN NoSummary
    ELSE [upTo |-> CopyCut(I, s).upTo, says |-> CopyCut(I, s).says, time |-> 0,
          previous |-> {CopyCut(I, d) :
                           d \in {e \in s.previous : e.upTo \in I}}]

\* The new chat has all up to the message i, with the files of the originals.
BranchChat(i, b) ==
    LET I == {j \in Of(msg[i].chat) : j <= i}
    IN  /\ i \in Live
        /\ VerifyChatOwnership(msg[i].chat)
        /\ StartWithCopies(I, b, [j \in Ids |-> msg[j].files])
        /\ latest' = [latest EXCEPT ![b] =
                         CopyChatSummary(I, latest[msg[i].chat])]

\* The messages of c that whoever has its link may read: those that were not
\* updated since, and are not hidden.
Frozen(c) == {i \in Of(c) : ~msg[i].recent /\ msg[i].role /= "hidden"}

\* The owner follows the link as well: a new chat without files and summary.
ForkSharedChat(c, b) ==
    /\ share[c] /= NotShared
    /\ StartWithCopies(Frozen(c), b, [j \in Ids |-> {}])
    /\ UNCHANGED latest

----------------------------------------------------------------------------
(* Summaries.                                                              *)

\* A request of c reads its messages up to its question i, leaving out the
\* answer that it is to replace; the existing summary stands for the messages
\* up to its own cutoff.
StartSummary(c, i) ==
    LET s == latest[c]
    IN  /\ Cardinality(writing) < MaxWriters
        /\ c \in exists
        /\ i \in Of(c)
        /\ msg[i].role /= "assistant"
        /\ \A j \in Of(c) : j > i => msg[j].role = "assistant"
        /\ writing' = writing \cup
               {[chat |-> c, upTo |-> i,
                 says |-> IF s = NoSummary
                          THEN Wording({j \in Of(c) : j <= i})
                          ELSE s.says \cup Wording({j \in Of(c) :
                                                      s.upTo < j /\ j <= i})]}
        /\ UNCHANGED <<fileVars, exists, used, next, msg, latest, share,
                       emptied, crossed>>

\* Mutant of IsStale: a save never finds its summary overtaken.
NeverStale(w, s) == FALSE

\* The summary s reaches as far as w by the creation time it carries, or by
\* that of its cutoff when it carries none.
IsStale(w, s) ==
    LET reached == IF s.time > 0 THEN s.time
                   ELSE IF s.upTo \in Live THEN s.upTo ELSE 0
    IN  w.upTo < reached \/ (w.upTo = reached /\ w.upTo = s.upTo)

\* The newest MAX_PREVIOUS_SUMMARIES of them.
Shortened(cuts) ==
    {d \in cuts : Cardinality(cuts \ Before(cuts, d.upTo + 1)) < MaxPrevious}

\* saveLatestSummary: dropped when the chat or the cutoff is gone, or when the
\* summary is stale; otherwise the old one becomes its predecessor.
SaveLatestSummary(w) ==
    LET c == w.chat
        s == latest[c]
        older == IF s = NoSummary THEN {}
                 ELSE {[upTo |-> s.upTo, says |-> s.says]} \cup s.previous
    IN  /\ w \in writing
        /\ writing' = writing \ {w}
        /\ latest' = IF \/ c \notin exists
                        \/ w.upTo \notin Live
                        \/ s /= NoSummary /\ IsStale(w, s)
                     THEN latest
                     ELSE [latest EXCEPT ![c] =
                              [upTo |-> w.upTo, says |-> w.says,
                               time |-> w.upTo, previous |-> Shortened(older)]]
        /\ UNCHANGED <<fileVars, exists, used, next, msg, share, emptied,
                       crossed>>

\* The request is aborted, or the model fails.
SummaryFails(w) ==
    /\ w \in writing
    /\ writing' = writing \ {w}
    /\ UNCHANGED <<fileVars, exists, used, next, msg, latest, share, emptied,
                   crossed>>

----------------------------------------------------------------------------
(* Shares.                                                                 *)

\* shareChat and updateShareDate.
ShareChat(c) ==
    /\ c \in exists
    /\ share' = [share EXCEPT ![c] = Wording(Of(c))]
    /\ msg' = [i \in Ids |->
                  IF i \in Of(c) THEN [msg[i] EXCEPT !.recent = FALSE]
                  ELSE msg[i]]
    /\ UNCHANGED <<fileVars, exists, used, next, latest, writing, emptied,
                   crossed>>

UnshareChat(c) ==
    /\ c \in exists
    /\ share[c] /= NotShared
    /\ share' = [share EXCEPT ![c] = NotShared]
    /\ UNCHANGED <<fileVars, exists, used, next, msg, latest, writing, emptied,
                   crossed>>

UnshareAllChats ==
    /\ \E c \in Chats : share[c] /= NotShared
    /\ share' = [c \in Chats |-> NotShared]
    /\ UNCHANGED <<fileVars, exists, used, next, msg, latest, writing, emptied,
                   crossed>>

----------------------------------------------------------------------------
(* Deletions.                                                              *)

\* Mutant of OwnFiles: copies count as originals.
AllFiles(I) == FilesOf(I)

\* The files that go with the messages I: copies leave the files of their
\* originals alone.
OwnFiles(I) == FilesOf({i \in I : ~msg[i].copy})

DeleteChat(c) ==
    /\ c \in exists
    /\ RemoveFiles(OwnFiles(Of(c)))
    /\ msg' = Without(Of(c))
    /\ latest' = [latest EXCEPT ![c] = NoSummary]
    /\ share' = [share EXCEPT ![c] = NotShared]
    /\ exists' = exists \ {c}
    /\ emptied' = emptied \ {c}
    /\ UNCHANGED <<used, next, writing, crossed>>

\* The oldest messages of c, a batch of them.
Oldest(c) == {i \in Of(c) : Cardinality({j \in Of(c) : j < i}) < Batch}

\* deleteNextUserChatBatch: messages first, then the summaries, then the chat.
DeleteNextUserChatBatch(c) ==
    /\ c \in exists
    /\ IF Of(c) /= {}
       THEN /\ RemoveFiles(OwnFiles(Oldest(c)))
            /\ msg' = Without(Oldest(c))
            /\ emptied' = emptied \cup {c}
            /\ UNCHANGED <<exists, latest, share>>
       ELSE /\ latest' = [latest EXCEPT ![c] = NoSummary]
            /\ IF latest[c] /= NoSummary
               THEN UNCHANGED <<exists, share, emptied>>
               ELSE /\ exists' = exists \ {c}
                    /\ share' = [share EXCEPT ![c] = NotShared]
                    /\ emptied' = emptied \ {c}
            /\ UNCHANGED <<fileVars, msg>>
    /\ UNCHANGED <<used, next, writing, crossed>>

\* deleteAllUserData: the chats with all they hold, then the orphaned files.
DeleteAllUserData ==
    /\ exists \cup rows /= {}
    /\ RemoveFiles(rows)
    /\ msg' = Without(Live)
    /\ latest' = [c \in Chats |-> NoSummary]
    /\ share' = [c \in Chats |-> NotShared]
    /\ exists' = {}
    /\ emptied' = {}
    /\ UNCHANGED <<used, next, writing, crossed>>

----------------------------------------------------------------------------

Next ==
    \/ \E c \in Chats :
           \/ SaveChat(c) \/ DeleteLastAssistantMessage(c)
           \/ ShareChat(c) \/ UnshareChat(c)
           \/ DeleteChat(c) \/ DeleteNextUserChatBatch(c)
           \/ \E role \in Roles, F \in SUBSET Files : SaveMessage(c, role, F)
           \/ \E i \in Ids : StartSummary(c, i)
           \/ \E b \in Chats : ForkSharedChat(c, b)
    \/ \E i \in Ids :
           \/ \E F \in SUBSET Files :
                  PatchMessage(i, F) \/ RegenerateWithNewContent(i, F)
           \/ \E b \in Chats : BranchChat(i, b)
    \/ \E w \in writing : SaveLatestSummary(w) \/ SummaryFails(w)
    \/ UnshareAllChats \/ DeleteAllUserData
    \/ FileMoves /\ UNCHANGED chatVars

Spec == Init /\ [][Next]_vars

----------------------------------------------------------------------------
(* Properties.                                                             *)

\* The values of all variables; a message or a summary belongs to a chat that
\* exists, so that deleting a chat leaves nothing behind that nobody can reach.
TypeOK ==
    /\ FileStoreTypeOK
    /\ exists \subseteq used /\ used \subseteq Chats
    /\ next \in 1 .. MaxMessages + 1
    /\ msg \in [Ids -> Message]
    /\ latest \in [Chats -> Summary \cup {NoSummary}]
    /\ writing \subseteq [chat : Chats, upTo : Ids, says : Content]
    /\ share \in [Chats -> Content \cup {NotShared}]
    /\ emptied \subseteq exists
    /\ crossed \subseteq Ids
    /\ \A i \in Ids : msg[i] /= Blank => i < next /\ msg[i].chat \in exists
    /\ \A c \in Chats \ exists : latest[c] = NoSummary /\ share[c] = NotShared

Said(s) == {p[1] : p \in s.says}

\* What the model is told in place of the older messages of a chat is neither
\* more nor less than those messages: its cutoff is one of them, it says all up
\* to the cutoff and nothing that was deleted or edited since, whichever of
\* regenerations, edits, branches and late saves came between; and the previous
\* summaries that may take its place all end before it. Excepted are a chat
\* being deleted in batches and a question edited during its summary.
SummaryIsTrue ==
    \A c \in exists \ emptied : latest[c] /= NoSummary =>
        /\ latest[c].upTo \in Of(c)
        /\ Said(latest[c]) = {i \in Of(c) : i <= latest[c].upTo}
        /\ \A p \in latest[c].says : p[1] \in crossed \/ p[2] = msg[p[1]].text
        /\ Before(latest[c].previous, latest[c].upTo) = latest[c].previous

\* A summary that arrives late never takes the place of one that reaches
\* further: while the messages of a chat stay, its cutoff only moves forward.
SummaryAdvances ==
    [][\A c \in exists \ emptied :
           latest[c] /= NoSummary /\ Wording(Of(c)) = Wording(Of(c))'
               => latest'[c].upTo >= latest[c].upTo]_vars

\* Nothing that was written or rewritten after the owner last shared a chat goes
\* with its link, to a reader or into a fork.
SharedIsFrozen ==
    \A c \in exists :
        share[c] /= NotShared => Wording(Frozen(c)) \subseteq share[c]

\* The hourly purge takes no file that a message refers to, the copies of a
\* branch included, whatever became of the message it was first sent with.
PurgeSparesSentFiles ==
    [][PurgeExpiredUnattachedFiles =>
           FilesOf(Live) \cap rows \subseteq rows']_vars

\* Deleting a chat, at once or in batches, takes no file from a message that
\* stays, unless that is a copy: a deleted branch leaves its original whole.
DeletionSparesOriginals ==
    [][(\E c \in Chats : DeleteChat(c) \/ DeleteNextUserChatBatch(c)) =>
           \A i \in Live : msg'[i] = msg[i] /\ ~msg[i].copy =>
               msg[i].files \cap rows \subseteq rows']_vars

\* What a comment of deleteChat says of copied messages: they refer to files of
\* the original chat, which are not deleted with the copies.
OriginalsKeepFiles ==
    [][\A c \in Chats : DeleteLastAssistantMessage(c) =>
           \A i \in Live : msg[i].chat /= c /\ ~msg[i].copy =>
               msg[i].files \cap rows \subseteq rows']_vars

=============================================================================
