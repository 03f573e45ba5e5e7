--------------------------- MODULE MCChatHistory ---------------------------
(***************************************************************************)
(* Two chats, one of which may branch off the other, and a file.           *)
(***************************************************************************)
EXTENDS ChatHistory, TLC

Symmetry == Permutations(Files) \cup Permutations(Chats)

\* Messages, files uploaded, chats shared and summaries being written together:
\* four messages alone, three with one of the others, two with two.
Bound ==
    next + Cardinality(writing)
         + Cardinality({f \in Files : upload[f] /= "none"})
         + Cardinality({c \in Chats : share[c] /= NotShared}) <= 5

\* Summaries, files and shares have in common only the messages they refer to: a
\* behaviour has one of the three.
OneAtATime ==
    LET summarized == writing /= {} \/ \E c \in Chats : latest[c] /= NoSummary
        uploaded == \E f \in Files : upload[f] /= "none"
        shared == \/ \E c \in Chats : share[c] /= NotShared
                  \/ \E i \in Live : ~msg[i].recent
    IN  Cardinality({k \in 1 .. 3 : <<summarized, uploaded, shared>>[k]}) <= 1

=============================================================================
