------------------------- MODULE ChatHistoryProofs -------------------------
(***************************************************************************)
(* Proofs about ChatHistory, for any chats, files, quota and bounds: its   *)
(* types, the accounts of the files, the files that deletions and the      *)
(* purge spare, what a shared chat shows, and that the summary of a chat   *)
(* says neither more nor less than the messages it stands for.             *)
(***************************************************************************)
EXTENDS ChatHistory, FiniteSetTheorems, TLAPS

(* The files. A file has a row only once its upload is saved, so that the  *)
(* aggregate counts each row once.                                         *)
FilesInv ==
    /\ FileStoreTypeOK
    /\ FilesAccounted
    /\ \A f \in rows : upload[f] = "saved"

LEMMA InitFiles == Init => FilesInv
BY FilesAssumption, QuotaAssumption, FS_EmptySet
   DEF Init, FileStoreInit, FilesInv, FileStoreTypeOK, FilesAccounted

LEMMA RowsFinite ==
  ASSUME FilesInv
  PROVE  IsFiniteSet(rows) /\ counted = Cardinality(rows)
BY FilesAssumption, FS_Subset DEF FilesInv, FileStoreTypeOK, FilesAccounted

\* Rows that go with their objects are taken off the aggregate once each.
LEMMA RemoveKeepsFiles ==
  ASSUME FilesInv, NEW S, RemoveFiles(S)
  PROVE  FilesInv' /\ rows' = rows \ S /\ attached' = attached \ S
<1> DEFINE gone == S \cap rows \cap blobs
<1>1. /\ rows' = rows \ gone /\ blobs' = blobs \ gone
      /\ attached' = attached \ gone /\ old' = old \ gone
      /\ counted' = counted - Cardinality(gone) /\ upload' = upload
  BY DEF RemoveFiles
<1>2. gone = S \cap rows /\ gone = rows \cap gone
  BY DEF FilesInv, FilesAccounted
<1>3. IsFiniteSet(rows) /\ counted = Cardinality(rows)
  BY RowsFinite
<1>4. /\ Cardinality(rows \ gone) = Cardinality(rows) - Cardinality(gone)
      /\ IsFiniteSet(gone) /\ Cardinality(gone) \in Nat
      /\ Cardinality(rows) \in Nat
  <2> HIDE DEF gone
  <2>1. IsFiniteSet(gone)
    BY <1>2, <1>3, FS_Subset
  <2>2. Cardinality(rows \ gone)
            = Cardinality(rows) - Cardinality(rows \cap gone)
    BY <1>3, FS_Difference
  <2>3. Cardinality(gone) \in Nat /\ Cardinality(rows) \in Nat
    BY <1>3, <2>1, FS_CardinalityType
  <2>4. rows \cap gone = gone
    BY <1>2
  <2> QED
    BY <2>1, <2>2, <2>3, <2>4
<1>5. FileStoreTypeOK'
  BY <1>1, <1>3, <1>4 DEF FilesInv, FileStoreTypeOK
<1>6. FilesAccounted'
  <2>1. counted' = Cardinality(rows')
    BY <1>1, <1>3, <1>4
  <2>2. counted' <= Quota
    BY <1>1, <1>3, <1>4, QuotaAssumption DEF FilesInv, FilesAccounted
  <2>3. attached' \cup old' \subseteq rows' /\ rows' \subseteq blobs'
    BY <1>1 DEF FilesInv, FilesAccounted
  <2> QED
    BY <2>1, <2>2, <2>3 DEF FilesAccounted
<1>7. (\A f \in rows : upload[f] = "saved")'
  BY <1>1 DEF FilesInv
<1>8. rows' = rows \ S /\ attached' = attached \ S
  BY <1>1, <1>2 DEF FilesInv, FilesAccounted
<1> QED
  BY <1>5, <1>6, <1>7, <1>8 DEF FilesInv

LEMMA AttachKeepsFiles ==
  ASSUME FilesInv, NEW S, S \subseteq rows, AttachFiles(S)
  PROVE  FilesInv'
BY DEF FilesInv, FileStoreTypeOK, FilesAccounted, AttachFiles

LEMMA PurgeKeepsFiles ==
  ASSUME FilesInv, PurgeExpiredUnattachedFiles
  PROVE  FilesInv'
<1>1. IsFiniteSet(rows) /\ counted = Cardinality(rows)
  BY RowsFinite
<1>2. Expired \subseteq rows /\ rows \cap Expired = Expired
  BY DEF Expired
<1>3. /\ Cardinality(rows \ Expired) = Cardinality(rows) - Cardinality(Expired)
      /\ Cardinality(Expired) \in Nat /\ Cardinality(rows) \in Nat
  BY <1>1, <1>2, FS_Subset, FS_Difference, FS_CardinalityType
<1>4. FileStoreTypeOK'
  BY <1>1, <1>3 DEF FilesInv, FileStoreTypeOK, PurgeExpiredUnattachedFiles
<1>5. counted' = Cardinality(rows') /\ counted' <= Quota
  BY <1>1, <1>3, QuotaAssumption
     DEF FilesInv, FilesAccounted, PurgeExpiredUnattachedFiles
<1>6. FilesAccounted'
  BY <1>5 DEF FilesInv, FilesAccounted, PurgeExpiredUnattachedFiles, Expired
<1> QED
  BY <1>4, <1>6 DEF FilesInv, PurgeExpiredUnattachedFiles

LEMMA MovesKeepFiles ==
  ASSUME FilesInv, FileMoves
  PROVE  FilesInv'
<1>1. ASSUME NEW f \in Files, Upload(f)
      PROVE  FilesInv'
  BY <1>1 DEF Upload, FilesInv, FileStoreTypeOK, FilesAccounted
<1>2. ASSUME NEW f \in Files, SaveFile(f)
      PROVE  FilesInv'
  <2>1. IsFiniteSet(rows) /\ counted = Cardinality(rows) /\ f \notin rows
    BY <1>2, RowsFinite DEF SaveFile, FilesInv
  <2>2. Cardinality(rows \cup {f}) = Cardinality(rows) + 1
    BY <2>1, FS_AddElement
  <2>3. FileStoreTypeOK'
    BY <1>2 DEF SaveFile, FilesInv, FileStoreTypeOK
  <2>4. FilesAccounted'
    BY <1>2, <2>1, <2>2 DEF SaveFile, WithinQuota, FilesInv, FilesAccounted
  <2> QED
    BY <1>2, <2>3, <2>4 DEF SaveFile, FilesInv, FileStoreTypeOK
<1>3. ASSUME NEW f \in Files, \/ SaveFileOverQuota(f) \/ SaveFileRejected(f)
                                 \/ SaveFileRateLimited(f)
      PROVE  FilesInv'
  BY <1>3 DEF SaveFileOverQuota, SaveFileRejected, SaveFileRateLimited,
              FilesInv, FileStoreTypeOK, FilesAccounted
<1>4. ASSUME NEW f \in Files, DeleteFile(f)
      PROVE  FilesInv'
  BY <1>4, RemoveKeepsFiles DEF DeleteFile
<1>5. ASSUME NEW f \in Files, AgeFile(f)
      PROVE  FilesInv'
  BY <1>5 DEF AgeFile, FilesInv, FileStoreTypeOK, FilesAccounted
<1> QED
  BY <1>1, <1>2, <1>3, <1>4, <1>5, PurgeKeepsFiles DEF FileMoves

----------------------------------------------------------------------------
(* The messages. The files of a message that still have a row are attached, *)
(* and no file was sent with two messages other than copies.                *)

MessagesInv ==
    /\ msg \in [Ids -> Message]
    /\ \A i \in Ids : msg[i].files \cap rows \subseteq attached
    /\ \A i \in Ids : \A f \in msg[i].files : upload[f] = "saved"
    /\ \A i, j \in Ids : i /= j /\ ~msg[i].copy /\ ~msg[j].copy
                             => msg[i].files \cap msg[j].files = {}

LEMMA BlankIsMessage == Blank \in Message /\ Blank.files = {} /\ ~Blank.copy
BY EditsAssumption DEF Blank, Message, Roles

LEMMA InitMessages == Init => MessagesInv
BY BlankIsMessage DEF Init, MessagesInv

LEMMA WithoutKeepsMessages ==
  ASSUME FilesInv, MessagesInv, NEW S, NEW I, RemoveFiles(S),
         msg' = Without(I)
  PROVE  MessagesInv'
<1>1. rows' = rows \ S /\ attached' = attached \ S /\ upload' = upload
  BY RemoveKeepsFiles DEF RemoveFiles
<1>2. \A i \in Ids : msg'[i] \in {Blank, msg[i]}
  BY DEF Without
<1>3. msg' \in [Ids -> Message]
  BY <1>2, BlankIsMessage DEF Without, MessagesInv
<1>4. \A i \in Ids : \/ msg'[i].files = {}
                     \/ /\ msg'[i].files = msg[i].files
                        /\ msg'[i].copy = msg[i].copy
  BY <1>2, BlankIsMessage
<1> QED
  BY <1>1, <1>3, <1>4 DEF MessagesInv

LEMMA SaveKeepsMessages ==
  ASSUME FilesInv, MessagesInv, NEW c \in Chats, NEW role \in Roles,
         NEW F \in SUBSET Files, SaveMessage(c, role, F)
  PROVE  MessagesInv'
<1> DEFINE m == [chat |-> c, role |-> role, copy |-> FALSE, files |-> F,
                 text |-> 0, recent |-> TRUE]
<1>1. m \in Message /\ m.files = F /\ ~m.copy
  BY EditsAssumption DEF Message
<1>2. /\ next \in Ids /\ F \subseteq rows \ attached
      /\ msg' = [msg EXCEPT ![next] = m]
      /\ attached' = attached \cup F /\ rows' = rows /\ upload' = upload
  BY DEF SaveMessage, AttachFiles
<1> HIDE DEF m
<1>3. msg' \in [Ids -> Message]
  BY <1>1, <1>2 DEF MessagesInv
<1>4. \A i \in Ids : msg'[i] = IF i = next THEN m ELSE msg[i]
  BY <1>2 DEF MessagesInv
<1>5. \A i \in Ids : msg[i].files \cap F = {}
  BY <1>2 DEF MessagesInv
<1>6. \A f \in F : upload[f] = "saved"
  BY <1>2 DEF FilesInv
<1> QED
  BY <1>1, <1>2, <1>3, <1>4, <1>5, <1>6 DEF MessagesInv

LEMMA PatchKeepsMessages ==
  ASSUME FilesInv, MessagesInv, NEW i \in Ids, NEW F \in SUBSET Files,
         PatchMessage(i, F)
  PROVE  MessagesInv'
<1> DEFINE m == [msg[i] EXCEPT !.files = @ \cup F, !.recent = TRUE]
<1>1. msg[i] \in Message /\ msg[i].files \in SUBSET Files
  BY DEF MessagesInv, Message
<1>2. m \in Message /\ m.files = msg[i].files \cup F /\ m.copy = msg[i].copy
  BY <1>1 DEF Message
<1>3. /\ F \subseteq rows \ attached /\ ~msg[i].copy
      /\ msg' = [msg EXCEPT ![i] = m]
      /\ attached' = attached \cup F /\ rows' = rows /\ upload' = upload
  BY DEF PatchMessage, AttachFiles, MessagesInv
<1> HIDE DEF m
<1>4. msg' \in [Ids -> Message]
  BY <1>2, <1>3 DEF MessagesInv
<1>5. \A j \in Ids : msg'[j] = IF j = i THEN m ELSE msg[j]
  BY <1>3 DEF MessagesInv
<1>6. \A j \in Ids : msg[j].files \cap F = {}
  BY <1>3 DEF MessagesInv
<1>7. \A f \in F : upload[f] = "saved"
  BY <1>3 DEF FilesInv
<1> QED
  BY <1>2, <1>3, <1>4, <1>5, <1>6, <1>7 DEF MessagesInv

LEMMA RegenerateKeepsMessages ==
  ASSUME FilesInv, MessagesInv, NEW i \in Ids, NEW K \in SUBSET Files,
         RegenerateWithNewContent(i, K)
  PROVE  MessagesInv'
<1> DEFINE later == {j \in Of(msg[i].chat) : j > i}
           S == (msg[i].files \ K) \cup FilesOf(later)
           m == Edited(Without(later)[i], K)
<1>1. /\ K \subseteq msg[i].files /\ msg[i].text < MaxEdits
      /\ RemoveFiles(S)
      /\ msg' = [Without(later) EXCEPT ![i] = m]
  BY DEF RegenerateWithNewContent
<1>2. rows' = rows \ S /\ attached' = attached \ S /\ upload' = upload
  BY <1>1, RemoveKeepsFiles DEF RemoveFiles
<1>3. i \notin later /\ Without(later)[i] = msg[i]
  BY DEF Without, Ids
<1>4. m \in Message /\ m.files = K /\ m.copy = msg[i].copy
  <2>1. msg[i] \in Message
    BY DEF MessagesInv
  <2>2. msg[i].text + 1 \in 0 .. MaxEdits
    BY <1>1, <2>1, EditsAssumption DEF Message
  <2> QED
    BY <1>3, <2>1, <2>2 DEF Message, Edited
<1> HIDE DEF m
<1>5. Without(later) \in [Ids -> Message]
  BY BlankIsMessage DEF Without, MessagesInv
<1>6. msg' \in [Ids -> Message]
  BY <1>1, <1>4, <1>5
<1>7. \A j \in Ids : msg'[j] = IF j = i THEN m
                               ELSE IF j \in later THEN Blank ELSE msg[j]
  BY <1>1, <1>5 DEF Without
<1> HIDE DEF later, S
<1>8. \A j \in Ids : \/ msg'[j].files = {}
                     \/ /\ msg'[j].files \subseteq msg[j].files
                        /\ msg'[j].copy = msg[j].copy
  BY <1>1, <1>4, <1>7, BlankIsMessage
<1> QED
  BY <1>2, <1>6, <1>8 DEF MessagesInv

\* Each copy is the copy of a message of I.
LEMMA OriginalIn ==
  ASSUME NEW I, NEW k \in Copies(I)
  PROVE  Original(I, k) \in I
<1>1. \E j \in I : CopyOf(I, j) = k
  BY DEF Copies
<1> QED
  BY <1>1 DEF Original

LEMMA CopiesKeepMessages ==
  ASSUME FilesInv, MessagesInv, NEW I \in SUBSET Ids, NEW b \in Chats,
         NEW keep, \A j \in I : keep[j] \subseteq msg[j].files,
         StartWithCopies(I, b, keep)
  PROVE  MessagesInv'
<1>1. /\ msg' = [k \in Ids |->
                   IF k \in Copies(I)
                   THEN CopyMessage(Original(I, k), b, keep[Original(I, k)])
                   ELSE msg[k]]
      /\ rows' = rows /\ attached' = attached /\ upload' = upload
  BY DEF StartWithCopies, fileVars
<1>2. \A k \in Copies(I) : Original(I, k) \in I
  BY OriginalIn
<1>3. ASSUME NEW j \in I
      PROVE  /\ CopyMessage(j, b, keep[j]) \in Message
             /\ CopyMessage(j, b, keep[j]).files \subseteq msg[j].files
             /\ CopyMessage(j, b, keep[j]).copy
  <2>1. msg[j] \in Message
    BY DEF MessagesInv
  <2>2. keep[j] \subseteq msg[j].files
    OBVIOUS
  <2>3. keep[j] \in SUBSET Files
    BY <2>1, <2>2 DEF Message
  <2> HIDE DEF Message
  <2>4. /\ CopyMessage(j, b, keep[j]) \in Message
        /\ CopyMessage(j, b, keep[j]).files = keep[j]
        /\ CopyMessage(j, b, keep[j]).copy
    BY <2>1, <2>3 DEF CopyMessage, Message, Roles
  <2> QED
    BY <2>2, <2>4
<1>4. \A k \in Ids : msg'[k] = IF k \in Copies(I)
                               THEN CopyMessage(Original(I, k), b,
                                                keep[Original(I, k)])
                               ELSE msg[k]
  BY <1>1
<1>5. msg' \in [Ids -> Message]
  BY <1>1, <1>2, <1>3 DEF MessagesInv
<1>6. \A k \in Ids : \/ msg'[k] = msg[k]
                     \/ /\ msg'[k].copy
                        /\ \E j \in Ids : msg'[k].files \subseteq msg[j].files
  BY <1>2, <1>3, <1>4
<1>7. (\A k \in Ids : msg[k].files \cap rows \subseteq attached)'
  BY <1>1, <1>6 DEF MessagesInv
<1>8. (\A k \in Ids : \A f \in msg[k].files : upload[f] = "saved")'
  BY <1>1, <1>6 DEF MessagesInv
<1>9. (\A k, j \in Ids : k /= j /\ ~msg[k].copy /\ ~msg[j].copy
                             => msg[k].files \cap msg[j].files = {})'
  BY <1>6 DEF MessagesInv
<1> QED
  BY <1>5, <1>7, <1>8, <1>9 DEF MessagesInv

LEMMA ShareKeepsMessages ==
  ASSUME MessagesInv, NEW c \in Chats, ShareChat(c)
  PROVE  MessagesInv'
<1>1. /\ msg' = [i \in Ids |-> IF i \in Of(c)
                              THEN [msg[i] EXCEPT !.recent = FALSE] ELSE msg[i]]
      /\ rows' = rows /\ attached' = attached /\ upload' = upload
  BY DEF ShareChat, fileVars
<1>2. ASSUME NEW i \in Ids
      PROVE  /\ msg'[i] \in Message /\ msg'[i].files = msg[i].files
             /\ msg'[i].copy = msg[i].copy
  <2>1. msg[i] \in Message
    BY DEF MessagesInv
  <2> QED
    BY <1>1, <2>1 DEF Message
<1>3. msg' \in [Ids -> Message]
  BY <1>1, <1>2
<1> QED
  BY <1>1, <1>2, <1>3 DEF MessagesInv

LEMMA MovesKeepMessages ==
  ASSUME FilesInv, MessagesInv, FileMoves, msg' = msg
  PROVE  MessagesInv'
<1>1. \A f \in Files : upload[f] = "saved" => upload'[f] = "saved"
  BY DEF FileMoves, Upload, SaveFile, SaveFileOverQuota, SaveFileRejected,
         SaveFileRateLimited, DeleteFile, RemoveFiles, AgeFile,
         PurgeExpiredUnattachedFiles,
         FilesInv, FileStoreTypeOK
<1>2. \A i \in Ids : msg[i].files \subseteq Files
  BY DEF MessagesInv, Message
<1>3. (\A i \in Ids : msg[i].files \cap rows \subseteq attached)'
  <2>1. CASE \E f \in Files : SaveFile(f)
    <3>1. PICK f \in Files : SaveFile(f)
      BY <2>1
    <3>2. rows' = rows \cup {f} /\ attached' = attached
          /\ upload[f] = "uploaded"
      BY <3>1 DEF SaveFile
    <3>3. \A i \in Ids : f \notin msg[i].files
      BY <3>2 DEF MessagesInv
    <3> QED
      BY <3>2, <3>3 DEF MessagesInv
  <2>2. CASE \E f \in Files : DeleteFile(f)
    <3>1. PICK f \in Files : DeleteFile(f)
      BY <2>2
    <3>2. rows' = rows \ {f} /\ attached' = attached \ {f}
      BY <3>1, RemoveKeepsFiles DEF DeleteFile
    <3> QED
      BY <3>2 DEF MessagesInv
  <2>3. CASE PurgeExpiredUnattachedFiles
    BY <2>3 DEF PurgeExpiredUnattachedFiles, MessagesInv
  <2>4. CASE \E f \in Files : \/ Upload(f) \/ SaveFileOverQuota(f)
                              \/ SaveFileRejected(f) \/ SaveFileRateLimited(f)
                              \/ AgeFile(f)
    <3>1. rows' = rows /\ attached' = attached
      BY <2>4 DEF Upload, SaveFileOverQuota, SaveFileRejected,
                  SaveFileRateLimited, AgeFile
    <3> QED
      BY <3>1 DEF MessagesInv
  <2> QED
    BY <2>1, <2>2, <2>3, <2>4 DEF FileMoves
<1> QED
  BY <1>1, <1>2, <1>3 DEF MessagesInv

----------------------------------------------------------------------------
(* The shares. Only a chat that exists is shared, so that the copies that  *)
(* a branch makes are not shown.                                           *)

SharesInv ==
    /\ exists \subseteq used /\ used \subseteq Chats
    /\ share \in [Chats -> Content \cup {NotShared}]
    /\ \A c \in Chats : share[c] /= NotShared => c \in exists
    /\ \A c \in Chats :
           share[c] /= NotShared => Wording(Frozen(c)) \subseteq share[c]

LEMMA InitShares == Init => SharesInv
BY DEF Init, SharesInv

\* A message that shows what it did not show before is the only way out.
LEMMA ShownShrinks ==
  ASSUME NEW c \in Chats,
         \A i \in Ids : msg'[i].chat = c /\ ~msg'[i].recent
                            => msg'[i] = msg[i]
  PROVE  Wording(Frozen(c))' \subseteq Wording(Frozen(c))
BY DEF Frozen, Wording, Of

LEMMA SharesStay ==
  ASSUME SharesInv, exists \subseteq exists',
         exists' \subseteq used', used' \subseteq Chats,
         share' = share,
         \A i \in Ids : ~msg'[i].recent /\ msg'[i].chat \in exists
                            => msg'[i] = msg[i]
  PROVE  SharesInv'
<1>1. ASSUME NEW c \in Chats, share[c] /= NotShared
      PROVE  Wording(Frozen(c))' \subseteq share[c]
  BY <1>1, ShownShrinks DEF SharesInv
<1> QED
  BY <1>1 DEF SharesInv

\* Without(I) shows less, and Blank is of no chat.
LEMMA WithoutShows ==
  ASSUME NEW I, msg' = Without(I)
  PROVE  \A i \in Ids : msg'[i].chat \in Chats => msg'[i] = msg[i]
BY ChatsAssumption DEF Without, Blank

LEMMA ShareKeepsShares ==
  ASSUME MessagesInv, SharesInv, NEW c \in Chats, ShareChat(c)
  PROVE  SharesInv'
<1>1. /\ c \in exists /\ exists' = exists /\ used' = used
      /\ share' = [share EXCEPT ![c] = Wording(Of(c))]
      /\ msg' = [i \in Ids |-> IF i \in Of(c)
                              THEN [msg[i] EXCEPT !.recent = FALSE] ELSE msg[i]]
  BY DEF ShareChat
<1>2. \A i \in Ids : msg'[i].chat = msg[i].chat /\ msg'[i].text = msg[i].text
  BY <1>1 DEF MessagesInv, Message
<1>3. Wording(Of(c)) \in Content
  BY DEF Wording, Of, Content, MessagesInv, Message
<1>4. Wording(Frozen(c))' \subseteq Wording(Of(c))
  BY <1>2 DEF Frozen, Wording, Of
<1>5. ASSUME NEW d \in Chats, d /= c
      PROVE  Wording(Frozen(d))' \subseteq Wording(Frozen(d))
  <2>1. \A i \in Ids : msg'[i].chat = d => msg'[i] = msg[i]
    BY <1>1, <1>2, <1>5 DEF Of
  <2> QED
    BY <2>1, ShownShrinks
<1>6. share' \in [Chats -> Content \cup {NotShared}]
  BY <1>1, <1>3 DEF SharesInv
<1>7. \A d \in Chats : share'[d] = IF d = c THEN Wording(Of(c)) ELSE share[d]
  BY <1>1 DEF SharesInv
<1> QED
  BY <1>1, <1>4, <1>5, <1>6, <1>7 DEF SharesInv

\* Chats go together with what they share.
LEMMA DeletionKeepsShares ==
  ASSUME SharesInv, NEW D \in SUBSET Chats, NEW I,
         exists' = exists \ D, used' = used, msg' = Without(I),
         share' = [c \in Chats |-> IF c \in D THEN NotShared ELSE share[c]]
  PROVE  SharesInv'
<1>1. \A c \in Chats : Wording(Frozen(c))' \subseteq Wording(Frozen(c))
  BY WithoutShows, ShownShrinks
<1>2. share' \in [Chats -> Content \cup {NotShared}]
  BY DEF SharesInv
<1> QED
  BY <1>1, <1>2 DEF SharesInv

----------------------------------------------------------------------------
(* The steps.                                                              *)

Inv == FilesInv /\ MessagesInv /\ SharesInv

LEMMA InitInv == Init => Inv
BY InitFiles, InitMessages, InitShares DEF Inv

LEMMA NextInv == Inv /\ [Next]_vars => Inv'
<1> SUFFICES ASSUME Inv, [Next]_vars PROVE Inv'
  OBVIOUS
<1> USE DEF Inv
<1>1. ASSUME NEW c \in Chats, SaveChat(c)
      PROVE  Inv'
  <2>1. FilesInv' /\ MessagesInv'
    BY <1>1 DEF SaveChat, fileVars, FilesInv, FileStoreTypeOK, FilesAccounted,
                MessagesInv
  <2>2. /\ exists \subseteq exists' /\ exists' \subseteq used'
        /\ used' \subseteq Chats /\ share' = share /\ msg' = msg
    BY <1>1 DEF SaveChat, SharesInv
  <2> QED
    BY <2>1, <2>2, SharesStay
<1>2. ASSUME NEW c \in Chats, NEW role \in Roles, NEW F \in SUBSET Files,
             SaveMessage(c, role, F)
      PROVE  Inv'
  <2>1. F \subseteq rows /\ AttachFiles(F)
    BY <1>2 DEF SaveMessage
  <2>2. FilesInv' /\ MessagesInv'
    BY <1>2, <2>1, AttachKeepsFiles, SaveKeepsMessages
  <2>3. /\ exists' = exists /\ used' = used /\ share' = share
        /\ \A i \in Ids : ~msg'[i].recent => msg'[i] = msg[i]
    BY <1>2 DEF SaveMessage, MessagesInv
  <2> QED
    BY <2>2, <2>3, SharesStay DEF SharesInv
<1>3. ASSUME NEW i \in Ids, NEW F \in SUBSET Files, PatchMessage(i, F)
      PROVE  Inv'
  <2>1. F \subseteq rows /\ AttachFiles(F)
    BY <1>3 DEF PatchMessage
  <2>2. FilesInv' /\ MessagesInv'
    BY <1>3, <2>1, AttachKeepsFiles, PatchKeepsMessages
  <2>3. msg[i] \in Message
    BY DEF MessagesInv
  <2>4. /\ exists' = exists /\ used' = used /\ share' = share
        /\ \A j \in Ids : ~msg'[j].recent => msg'[j] = msg[j]
    BY <1>3, <2>3 DEF PatchMessage, MessagesInv, Message
  <2> QED
    BY <2>2, <2>4, SharesStay DEF SharesInv
<1>4. ASSUME NEW c \in Chats, DeleteLastAssistantMessage(c)
      PROVE  Inv'
  <2>1. /\ RemoveFiles(FilesOf(Trailing(c))) /\ msg' = Without(Trailing(c))
        /\ exists' = exists /\ used' = used /\ share' = share
    BY <1>4 DEF DeleteLastAssistantMessage
  <2>2. FilesInv' /\ MessagesInv'
    BY <2>1, RemoveKeepsFiles, WithoutKeepsMessages
  <2>3. \A i \in Ids : msg'[i].chat \in Chats => msg'[i] = msg[i]
    BY <2>1, WithoutShows
  <2>4. exists' \subseteq used' /\ SharesInv
    BY <2>1 DEF SharesInv
  <2>5. ASSUME NEW c2 \in Chats
        PROVE  Wording(Frozen(c2))' \subseteq Wording(Frozen(c2))
    BY <2>3, ShownShrinks
  <2> QED
    BY <2>1, <2>2, <2>4, <2>5 DEF SharesInv
<1>5. ASSUME NEW i \in Ids, NEW K \in SUBSET Files,
             RegenerateWithNewContent(i, K)
      PROVE  Inv'
  <2> DEFINE later == {j \in Of(msg[i].chat) : j > i}
             S == (msg[i].files \ K) \cup FilesOf(later)
  <2>1. /\ RemoveFiles(S) /\ exists' = exists /\ used' = used
        /\ share' = share
        /\ msg' = [Without(later) EXCEPT ![i] = Edited(@, K)]
    BY <1>5 DEF RegenerateWithNewContent
  <2>2. FilesInv' /\ MessagesInv'
    BY <1>5, <2>1, RemoveKeepsFiles, RegenerateKeepsMessages
  <2>3. msg'[i].recent
    <3>1. Without(later)[i] = msg[i] /\ msg[i] \in Message
      BY DEF Without, Ids, MessagesInv
    <3> QED
      BY <2>1, <3>1 DEF Without, Edited, Message
  <2>4. \A j \in Ids : j /= i => msg'[j] \in {Blank, msg[j]}
    BY <2>1 DEF Without
  <2>5. ASSUME NEW c \in Chats
        PROVE  Wording(Frozen(c))' \subseteq Wording(Frozen(c))
    <3>1. \A j \in Ids : msg'[j].chat = c /\ ~msg'[j].recent
                            => msg'[j] = msg[j]
      BY <2>3, <2>4, ChatsAssumption DEF Blank
    <3> QED
      BY <3>1, ShownShrinks
  <2> QED
    BY <2>1, <2>2, <2>5 DEF SharesInv
<1>6. ASSUME NEW I \in SUBSET Ids, NEW b \in Chats, NEW keep,
             \A j \in I : keep[j] \subseteq msg[j].files,
             StartWithCopies(I, b, keep)
      PROVE  Inv'
  <2>1. FilesInv'
    BY <1>6 DEF StartWithCopies, fileVars, FilesInv, FileStoreTypeOK,
                FilesAccounted
  <2>2. MessagesInv'
    BY <1>6, CopiesKeepMessages
  <2>3. /\ b \notin exists /\ exists' = exists \cup {b}
        /\ used' = used \cup {b} /\ share' = share
    BY <1>6 DEF StartWithCopies, SharesInv
  <2>4. \A k \in Ids : msg'[k].chat = b \/ msg'[k] = msg[k]
    <3>1. msg' = [k \in Ids |->
                    IF k \in Copies(I)
                    THEN CopyMessage(Original(I, k), b, keep[Original(I, k)])
                    ELSE msg[k]]
      BY <1>6 DEF StartWithCopies
    <3>2. ASSUME NEW k \in Copies(I)
          PROVE  CopyMessage(Original(I, k), b, keep[Original(I, k)]).chat = b
      <4>1. Original(I, k) \in Ids
        BY OriginalIn
      <4>2. msg[Original(I, k)] \in Message
        BY <4>1 DEF MessagesInv
      <4> QED
        BY <4>2 DEF CopyMessage, Message
    <3> QED
      BY <3>1, <3>2
  <2> QED
    BY <2>1, <2>2, <2>3, <2>4, SharesStay DEF SharesInv
<1>7. ASSUME NEW i \in Ids, NEW b \in Chats, BranchChat(i, b)
      PROVE  Inv'
  <2> DEFINE I == {j \in Of(msg[i].chat) : j <= i}
             keep == [j \in Ids |-> msg[j].files]
  <2>1. StartWithCopies(I, b, keep)
    BY <1>7 DEF BranchChat
  <2>2. I \in SUBSET Ids /\ \A j \in I : keep[j] \subseteq msg[j].files
    BY DEF Of
  <2> HIDE DEF I, keep
  <2> QED
    BY <2>1, <2>2, <1>6
<1>8. ASSUME NEW c \in Chats, NEW b \in Chats, ForkSharedChat(c, b)
      PROVE  Inv'
  <2> DEFINE keep == [j \in Ids |-> {}]
  <2>1. StartWithCopies(Frozen(c), b, keep)
    BY <1>8 DEF ForkSharedChat
  <2>2. /\ Frozen(c) \in SUBSET Ids
        /\ \A j \in Frozen(c) : keep[j] \subseteq msg[j].files
    BY DEF Of, Frozen
  <2> HIDE DEF keep
  <2> QED
    BY <2>1, <2>2, <1>6
<1>9. ASSUME UnshareAllChats
      PROVE  Inv'
  <2>1. /\ UNCHANGED <<fileVars, exists, used, msg>>
        /\ share' = [c \in Chats |-> NotShared]
    BY <1>9 DEF UnshareAllChats
  <2>2. FilesInv' /\ MessagesInv'
    BY <2>1 DEF fileVars, FilesInv, FileStoreTypeOK, FilesAccounted,
                MessagesInv
  <2>3. SharesInv'
    BY <2>1 DEF SharesInv
  <2> QED
    BY <2>2, <2>3
<1>10. ASSUME NEW c \in Chats, NEW i \in Ids, StartSummary(c, i)
      PROVE  Inv'
  <2>1. UNCHANGED <<fileVars, exists, used, msg, share>>
    BY <1>10 DEF StartSummary
  <2> QED
    BY <2>1 DEF fileVars, FilesInv, FileStoreTypeOK, FilesAccounted,
                MessagesInv, SharesInv, Frozen, Wording, Of
<1>11. ASSUME NEW w \in writing, SaveLatestSummary(w) \/ SummaryFails(w)
      PROVE  Inv'
  <2>1. UNCHANGED <<fileVars, exists, used, msg, share>>
    BY <1>11 DEF SaveLatestSummary, SummaryFails
  <2> QED
    BY <2>1 DEF fileVars, FilesInv, FileStoreTypeOK, FilesAccounted,
                MessagesInv, SharesInv, Frozen, Wording, Of
<1>12. ASSUME NEW c \in Chats, ShareChat(c)
      PROVE  Inv'
  <2>1. FilesInv'
    BY <1>12 DEF ShareChat, fileVars, FilesInv, FileStoreTypeOK, FilesAccounted
  <2> QED
    BY <1>12, <2>1, ShareKeepsMessages, ShareKeepsShares
<1>13. ASSUME NEW c \in Chats, UnshareChat(c)
       PROVE  Inv'
  <2>1. /\ UNCHANGED <<fileVars, exists, used, msg>>
        /\ share' = [share EXCEPT ![c] = NotShared]
    BY <1>13 DEF UnshareChat
  <2>2. FilesInv' /\ MessagesInv'
    BY <2>1 DEF fileVars, FilesInv, FileStoreTypeOK, FilesAccounted,
                MessagesInv
  <2>3. SharesInv'
    BY <2>1 DEF SharesInv, Frozen, Wording, Of
  <2> QED
    BY <2>2, <2>3
<1>14. ASSUME NEW c \in Chats, DeleteChat(c)
       PROVE  Inv'
  <2>1. /\ RemoveFiles(OwnFiles(Of(c))) /\ msg' = Without(Of(c))
        /\ exists' = exists \ {c} /\ used' = used
        /\ share' = [share EXCEPT ![c] = NotShared]
    BY <1>14 DEF DeleteChat
  <2>2. FilesInv' /\ MessagesInv'
    BY <2>1, RemoveKeepsFiles, WithoutKeepsMessages
  <2>3. share' = [d \in Chats |-> IF d \in {c} THEN NotShared ELSE share[d]]
    BY <2>1 DEF SharesInv
  <2> QED
    BY <2>1, <2>2, <2>3, DeletionKeepsShares
<1>15. ASSUME NEW c \in Chats, DeleteNextUserChatBatch(c)
       PROVE  Inv'
  <2>1. CASE Of(c) /= {}
    <3>1. /\ RemoveFiles(OwnFiles(Oldest(c))) /\ msg' = Without(Oldest(c))
          /\ exists' = exists \ {} /\ used' = used /\ share' = share
      BY <1>15, <2>1 DEF DeleteNextUserChatBatch
    <3>2. FilesInv' /\ MessagesInv'
      BY <3>1, RemoveKeepsFiles, WithoutKeepsMessages
    <3>3. share' = [d \in Chats |-> IF d \in {} THEN NotShared ELSE share[d]]
      BY <3>1 DEF SharesInv
    <3>4. {} \in SUBSET Chats /\ SharesInv
      OBVIOUS
    <3>5. SharesInv'
      <4> HIDE DEF Inv
      <4> QED
        BY <3>1, <3>3, <3>4, DeletionKeepsShares
    <3> QED
      BY <3>2, <3>5
  <2>2. CASE Of(c) = {}
    <3>1. /\ UNCHANGED <<fileVars, msg, used>>
          /\ \/ exists' = exists /\ share' = share
             \/ /\ exists' = exists \ {c}
                /\ share' = [share EXCEPT ![c] = NotShared]
      BY <1>15, <2>2 DEF DeleteNextUserChatBatch
    <3>2. FilesInv' /\ MessagesInv'
      BY <3>1 DEF fileVars, FilesInv, FileStoreTypeOK, FilesAccounted,
                  MessagesInv
    <3>3. SharesInv'
      BY <3>1 DEF SharesInv, Frozen, Wording, Of
    <3> QED
      BY <3>2, <3>3
  <2> QED
    BY <2>1, <2>2
<1>16. ASSUME DeleteAllUserData
       PROVE  Inv'
  <2>1. /\ RemoveFiles(rows) /\ msg' = Without(Live)
        /\ exists' = {} /\ used' = used
        /\ share' = [c \in Chats |-> NotShared]
    BY <1>16 DEF DeleteAllUserData
  <2>2. FilesInv' /\ MessagesInv'
    BY <2>1, RemoveKeepsFiles, WithoutKeepsMessages
  <2>3. SharesInv'
    BY <2>1 DEF SharesInv
  <2> QED
    BY <2>2, <2>3
<1>17. ASSUME FileMoves, UNCHANGED chatVars
       PROVE  Inv'
  <2>1. UNCHANGED <<exists, used, msg, share>>
    BY <1>17 DEF chatVars
  <2>2. FilesInv' /\ MessagesInv'
    BY <1>17, <2>1, MovesKeepFiles, MovesKeepMessages
  <2>3. SharesInv'
    BY <2>1 DEF SharesInv, Frozen, Wording, Of
  <2> QED
    BY <2>2, <2>3
<1>18. ASSUME UNCHANGED vars
       PROVE  Inv'
  BY <1>18 DEF vars, fileVars, chatVars, FilesInv, FileStoreTypeOK,
               FilesAccounted, MessagesInv, SharesInv, Frozen, Wording, Of
<1> QED
  BY <1>1, <1>2, <1>3, <1>4, <1>5, <1>6, <1>7, <1>8, <1>9, <1>10, <1>11,
     <1>12, <1>13, <1>14, <1>15, <1>16, <1>17, <1>18 DEF Next

LEMMA Invariance == Spec => []Inv
<1>1. Init => Inv
  BY InitInv
<1>2. Inv /\ [Next]_vars => Inv'
  BY NextInv
<1> QED
  BY <1>1, <1>2, PTL DEF Spec

----------------------------------------------------------------------------
(* The summaries. A cut d, which is a summary, one of its predecessors or  *)
(* a summary being written, is sound for the chat c when it says of the    *)
(* messages that are left those of c up to its cutoff, whatever was        *)
(* deleted. It is current when, besides, it says nothing that is gone, and *)
(* says it in the present wording.                                         *)

Placed(d) ==
    /\ d.upTo \in Ids /\ d.upTo < next
    /\ d.says \in Content
    /\ \A i \in Said(d) : i < next

CutoffStays(c, d) ==
    d.upTo \in Live => d.upTo \in Of(c) /\ msg[d.upTo].role /= "assistant"

Covers(c, d) ==
    \A i \in Live : i \in Said(d) <=> i \in Of(c) /\ i <= d.upTo

Sound(c, d) == Placed(d) /\ CutoffStays(c, d) /\ Covers(c, d)

Worded(d) ==
    \A p \in d.says :
        p[1] \in Live => p[1] \in crossed \/ p[2] = msg[p[1]].text

Current(c, d) == Worded(d) /\ (c \notin emptied => Said(d) \subseteq Live)

PlacesInv ==
    /\ next \in 1 .. MaxMessages + 1
    /\ crossed \subseteq Ids
    /\ emptied \subseteq exists
    /\ \A i \in Live : i < next /\ msg[i].chat \in exists
    /\ latest \in [Chats -> Summary \cup {NoSummary}]
    /\ \A c \in Chats : latest[c] = NoSummary \/ c \in exists
    /\ writing \subseteq [chat : Chats, upTo : Ids, says : Content]

\* The cuts that a chat with the summary s keeps.
Kept(s) == {[upTo |-> s.upTo, says |-> s.says]} \cup s.previous

\* A batch of deletions takes the cutoff of a summary only together with all
\* that lies before it.
SummaryInv(c, s) ==
    /\ s.time = 0 \/ s.time >= s.upTo
    /\ \A d \in s.previous : d.upTo < s.upTo
    /\ s.upTo \in Live \/ \A j \in Of(c) : j > s.upTo
    /\ \A d \in Kept(s) : Sound(c, d) /\ Current(c, d)
    /\ c \notin emptied => \A d \in Kept(s) : d.upTo \in Live

DraftInv(w) ==
    /\ w.chat \in used
    /\ Sound(w.chat, w)
    /\ w.upTo \in Live => Current(w.chat, w)

SummariesInv ==
    \A c \in Chats : \A s \in Summary : latest[c] = s => SummaryInv(c, s)
DraftsInv == \A w \in writing : DraftInv(w)

HistoryInv == PlacesInv /\ SummariesInv /\ DraftsInv

LEMMA SummaryParts ==
  ASSUME NEW s \in Summary
  PROVE  /\ s.upTo \in Ids /\ s.upTo \in Nat \ {0} /\ s.says \in Content
         /\ s.time \in Ids \cup {0} /\ s.time \in Nat
         /\ s.previous \subseteq Cut
         /\ s /= NoSummary
<1>1. /\ s.upTo \in Ids /\ s.says \in Content
      /\ s.time \in Ids \cup {0} /\ s.previous \in SUBSET Cut
  BY DEF Summary
<1>2. s.upTo /= NoSummary.upTo
  BY <1>1, MessagesAssumption DEF Ids, NoSummary
<1> QED
  BY <1>1, <1>2, MessagesAssumption DEF Ids

LEMMA CutParts ==
  ASSUME NEW d \in Cut
  PROVE  d.upTo \in Ids /\ d.upTo \in Nat \ {0} /\ d.says \in Content
BY MessagesAssumption DEF Cut, Ids

LEMMA SaidIn ==
  ASSUME NEW d, NEW i
  PROVE  i \in Said(d) <=> \E p \in d.says : i = p[1]
BY DEF Said

\* What is of a chat is there.
LEMMA OfLive ==
  ASSUME NEW c \in Chats
  PROVE  Of(c) \subseteq Live /\ \A i \in Ids : i \in Of(c) <=> msg[i].chat = c
BY ChatsAssumption DEF Of, Live, Blank

LEMMA KeptIn ==
  ASSUME NEW s \in Summary, NEW d \in Kept(s)
  PROVE  /\ d \in Cut
         /\ \/ d.upTo = s.upTo /\ d.says = s.says
            \/ d \in s.previous
<1>1. [upTo |-> s.upTo, says |-> s.says] \in Cut
  BY SummaryParts DEF Cut
<1> QED
  BY <1>1, SummaryParts DEF Kept

----------------------------------------------------------------------------
(* How a step may change what cuts speak of: messages go or change their   *)
(* text, and later ones come.                                              *)

Onward ==
    /\ next' \in 1 .. MaxMessages + 1 /\ next <= next'
    /\ crossed \subseteq crossed' /\ crossed' \subseteq Ids
    /\ \A i \in Ids : i < next /\ msg'[i] /= Blank =>
           /\ msg[i] /= Blank
           /\ msg'[i].chat = msg[i].chat
           /\ msg'[i].role = msg[i].role

\* A message of I that stays keeps its text, or was edited during a summary.
TextStays(I) ==
    \A i \in I \cap Ids : i < next /\ msg'[i] /= Blank =>
        i \in crossed' \/ msg'[i].text = msg[i].text

\* What stays of c is a beginning of it.
Beginning(c) ==
    \A i, j \in Of(c) : i <= j /\ msg'[j] /= Blank => msg'[i] /= Blank

LEMMA SoundStays ==
  ASSUME PlacesInv, Onward, NEW c \in Chats, NEW d, Sound(c, d)
  PROVE  Sound(c, d)'
<1>1. /\ d.upTo \in Ids /\ d.upTo \in Int /\ d.upTo < next
      /\ \A i \in Said(d) : i \in Int /\ i < next
  BY MessagesAssumption DEF Sound, Placed, Ids, Said, Content
<1>2. next \in Int /\ next' \in Int /\ next <= next'
  BY MessagesAssumption DEF PlacesInv, Onward
<1>3. Placed(d)'
  <2>1. Said(d)' = Said(d)
    BY DEF Said
  <2>2. d.upTo < next' /\ \A i \in Said(d) : i < next'
    BY <1>1, <1>2
  <2> QED
    BY <1>1, <2>1, <2>2 DEF Sound, Placed
<1>4. CutoffStays(c, d)'
  BY <1>1 DEF Sound, CutoffStays, Onward, Live, Of
<1>5. Covers(c, d)'
  <2> SUFFICES ASSUME NEW i \in Ids, msg'[i] /= Blank
               PROVE  i \in Said(d) <=> msg'[i].chat = c /\ i <= d.upTo
    BY DEF Covers, Live, Of, Said
  <2>1. CASE i < next
    BY <2>1 DEF Sound, Covers, Live, Of, Onward
  <2>2. CASE ~(i < next)
    <3>1. i \in Int /\ next <= i
      BY <1>2, <2>2, MessagesAssumption DEF Ids
    <3>2. i \notin Said(d) /\ ~(i <= d.upTo)
      BY <1>1, <1>2, <3>1
    <3> QED
      BY <3>2
  <2> QED
    BY <2>1, <2>2
<1> QED
  BY <1>3, <1>4, <1>5 DEF Sound

LEMMA CurrentStays ==
  ASSUME PlacesInv, Onward, NEW c \in Chats, NEW d,
         Sound(c, d), Current(c, d), TextStays(Said(d)),
         c \notin emptied' =>
             c \notin emptied /\ d.upTo \in Live' /\ Beginning(c)
  PROVE  Current(c, d)'
<1>1. \A p \in d.says : p[1] \in Said(d) /\ p[1] \in Ids /\ p[1] < next
  BY DEF Sound, Placed, Said, Content
<1>2. Worded(d)'
  <2> SUFFICES ASSUME NEW p \in d.says, msg'[p[1]] /= Blank
               PROVE  p[1] \in crossed' \/ p[2] = msg'[p[1]].text
    BY DEF Worded, Live
  <2>1. p[1] \in crossed' \/ msg'[p[1]].text = msg[p[1]].text
    BY <1>1 DEF TextStays
  <2>2. p[1] \in Live
    BY <1>1 DEF Onward, Live
  <2>3. p[1] \in crossed \/ p[2] = msg[p[1]].text
    BY <2>2 DEF Current, Worded
  <2> QED
    BY <2>1, <2>3 DEF Onward
<1>3. ASSUME c \notin emptied', NEW i \in Said(d)
      PROVE  i \in Live'
  <2>1. c \notin emptied /\ d.upTo \in Live' /\ Beginning(c)
    BY <1>3
  <2>2. i \in Live
    BY <1>3, <2>1 DEF Current
  <2>3. i \in Of(c) /\ i <= d.upTo
    BY <2>2 DEF Sound, Covers
  <2>4. d.upTo \in Of(c)
    BY <2>1 DEF Sound, Placed, CutoffStays, Onward, Live
  <2> QED
    BY <2>1, <2>2, <2>3, <2>4 DEF Beginning, Live
<1> QED
  BY <1>2, <1>3 DEF Current, Said

LEMMA SummaryStays ==
  ASSUME PlacesInv, Onward, NEW c \in Chats, NEW s \in Summary,
         SummaryInv(c, s),
         \A d \in Kept(s) : TextStays(Said(d)),
         c \notin emptied' => /\ c \notin emptied /\ Beginning(c)
                              /\ \A d \in Kept(s) : d.upTo \in Live',
         s.upTo \in Live' \/ \A j \in Of(c)' : j > s.upTo
  PROVE  SummaryInv(c, s)'
<1>1. ASSUME NEW d \in Kept(s)
      PROVE  Sound(c, d)' /\ Current(c, d)'
  <2>1. Sound(c, d) /\ Current(c, d)
    BY DEF SummaryInv
  <2> QED
    BY <2>1, SoundStays, CurrentStays
<1>2. Kept(s)' = Kept(s)
  BY DEF Kept
<1> QED
  BY <1>1, <1>2 DEF SummaryInv

LEMMA DraftStays ==
  ASSUME PlacesInv, Onward, NEW w \in writing, DraftInv(w),
         used \subseteq used',
         w.upTo \in Live' =>
             /\ TextStays(Said(w))
             /\ w.chat \notin emptied' =>
                    w.chat \notin emptied /\ Beginning(w.chat)
  PROVE  DraftInv(w)'
<1>1. w.chat \in Chats
  BY DEF PlacesInv
<1>2. Sound(w.chat, w)'
  BY <1>1, SoundStays DEF DraftInv
<1>3. ASSUME w.upTo \in Live'
      PROVE  Current(w.chat, w)'
  <2>1. w.upTo \in Live
    BY <1>3 DEF DraftInv, Sound, Placed, Onward, Live
  <2> QED
    BY <1>1, <1>3, <2>1, CurrentStays DEF DraftInv
<1> QED
  BY <1>2, <1>3 DEF DraftInv

----------------------------------------------------------------------------
(* The newest of some cuts, and the summary an invalidation leaves.        *)

\* A set of message numbers has a greatest one: of the sets of those above one
\* of them, which are finite, one is minimal.
LEMMA GreatestOf ==
  ASSUME NEW U \in SUBSET Ids, U /= {}
  PROVE  \E m \in U : \A u \in U : u <= m
<1> DEFINE above(u) == {v \in U : v > u}
           T == {above(u) : u \in U}
<1>1. IsFiniteSet(Ids)
  BY FS_Interval, MessagesAssumption DEF Ids
<1>2. \A u \in U : above(u) \in FiniteSubsetsOf(Ids)
  BY <1>1, FS_Subset DEF FiniteSubsetsOf
<1>3. T \subseteq FiniteSubsetsOf(Ids) /\ T /= {}
  BY <1>2
<1>4. IsWellFoundedOn(StrictSubsetOrdering(Ids), FiniteSubsetsOf(Ids))
  BY FS_StrictSubsetOrderingWellFounded
<1>5. PICK x \in T : \A y \in T : <<y, x>> \notin StrictSubsetOrdering(Ids)
  <2> HIDE DEF T
  <2> QED
    BY <1>3, <1>4, WFMin
<1>6. PICK m \in U : x = above(m)
  OBVIOUS
<1>7. ASSUME NEW u \in U, ~(u <= m)
      PROVE  FALSE
  <2>1. u \in Int /\ m \in Int /\ u > m
    BY <1>7, MessagesAssumption DEF Ids
  <2>2. \A v \in U : v \in Int
    BY MessagesAssumption DEF Ids
  <2>3. above(u) \subseteq above(m) /\ u \in above(m) /\ u \notin above(u)
    <3>1. ASSUME NEW v \in U, v > u
          PROVE  v > m
      BY <2>1, <2>2, <3>1
    <3>2. ~(u > u)
      BY <2>1
    <3> QED
      BY <2>1, <3>1, <3>2
  <2>4. above(u) \in SUBSET Ids /\ above(m) \in SUBSET Ids
    OBVIOUS
  <2>5. <<above(u), above(m)>> \in StrictSubsetOrdering(Ids)
    <3> HIDE DEF above
    <3> QED
      BY <2>3, <2>4 DEF StrictSubsetOrdering
  <2>6. above(u) \in T
    OBVIOUS
  <2> QED
    BY <1>5, <1>6, <2>5, <2>6
<1> QED
  BY <1>7

LEMMA NewestIn ==
  ASSUME NEW cuts \in SUBSET Cut, cuts /= {}
  PROVE  /\ Newest(cuts) \in cuts
         /\ \A d \in cuts : d.upTo <= Newest(cuts).upTo
<1> DEFINE U == {d.upTo : d \in cuts}
<1>1. U \in SUBSET Ids /\ U /= {}
  BY CutParts
<1>2. \E m \in U : \A u \in U : u <= m
  <2> HIDE DEF U
  <2> QED
    BY <1>1, GreatestOf
<1>3. \E cut \in cuts : \A d \in cuts : d.upTo <= cut.upTo
  BY <1>2
<1> QED
  BY <1>3 DEF Newest

LEMMA CutIsSound ==
  ASSUME NEW c \in Chats, NEW d, NEW e, d.upTo = e.upTo, d.says = e.says
  PROVE  (Sound(c, d) <=> Sound(c, e)) /\ (Current(c, d) <=> Current(c, e))
BY DEF Sound, Placed, CutoffStays, Covers, Current, Worded, Said

\* What is left of the summary of c when the messages I are about to go or to
\* be edited speaks of what lies before them.
LEMMA InvalidatedIs ==
  ASSUME PlacesInv, NEW c \in Chats, NEW s \in Summary, latest[c] = s,
         SummaryInv(c, s), NEW I \in SUBSET Ids,
         NEW t \in Summary, t = Invalidated(c, I)
  PROVE  /\ SummaryInv(c, t) /\ t.upTo \in Live
         /\ \A d \in Kept(t) : \A i \in I : d.upTo < i
<1>1. s /= NoSummary /\ t /= NoSummary
  BY SummaryParts
<1>2. CASE Trails(s, I)
  <2>1. t = s
    BY <1>2 DEF Invalidated
  <2>2. s.upTo \in Live /\ \A i \in I : i > s.upTo
    BY <1>2 DEF Trails
  <2>3. ASSUME NEW d \in Kept(s), NEW i \in I
        PROVE  d.upTo < i
    <3>1. d.upTo \in Int /\ i \in Int /\ s.upTo \in Int
      <4>1. d.upTo \in Nat /\ s.upTo \in Nat
        BY KeptIn, CutParts, SummaryParts
      <4>2. i \in Int
        BY MessagesAssumption DEF Ids
      <4> QED
        BY <4>1, <4>2
    <3>2. d.upTo <= s.upTo
      BY <3>1, KeptIn DEF SummaryInv
    <3> QED
      BY <2>2, <3>1, <3>2
  <2> QED
    BY <2>1, <2>2, <2>3
<1>3. CASE ~Trails(s, I)
  <2> DEFINE fit == {cut \in s.previous : Trails(cut, I)}
             cut == Newest(fit)
  <2>1. t = Fallback(s, I)
    BY <1>1, <1>3 DEF Invalidated
  <2>2. fit /= {}
    BY <1>1, <2>1 DEF Fallback
  <2>3. fit \in SUBSET Cut
    BY SummaryParts
  <2>4. cut \in fit
    <3> HIDE DEF fit
    <3> QED
      BY <2>2, <2>3, NewestIn
  <2>5. /\ cut \in Cut /\ cut \in s.previous
        /\ cut.upTo \in Live /\ \A i \in I : i > cut.upTo
    BY <2>3, <2>4 DEF Trails
  <2>6. t = [upTo |-> cut.upTo, says |-> cut.says, time |-> s.time,
             previous |-> Before(s.previous, cut.upTo)]
    BY <2>1, <2>2 DEF Fallback
  <2> HIDE DEF fit, cut
  <2>7. /\ t.upTo = cut.upTo /\ t.says = cut.says /\ t.time = s.time
        /\ t.previous = {d \in s.previous : d.upTo < cut.upTo}
    BY <2>6 DEF Before
  <2>8. cut.upTo < s.upTo /\ cut.upTo \in Nat /\ s.upTo \in Nat
        /\ s.time \in Nat
    BY <2>5, SummaryParts, CutParts DEF SummaryInv
  <2>9. \A d \in s.previous : /\ Sound(c, d) /\ Current(c, d)
                              /\ c \notin emptied => d.upTo \in Live
    BY DEF SummaryInv, Kept
  <2>10. ASSUME NEW d \in Kept(t)
         PROVE  /\ Sound(c, d) /\ Current(c, d)
                /\ c \notin emptied => d.upTo \in Live
                /\ d.upTo <= cut.upTo /\ d.upTo \in Nat
    <3>1. CASE d \in t.previous
      BY <2>7, <2>8, <2>9, <3>1, SummaryParts, CutParts
    <3>2. CASE d = [upTo |-> t.upTo, says |-> t.says]
      <4>1. d.upTo = cut.upTo /\ d.says = cut.says
        BY <2>7, <3>2
      <4> QED
        BY <2>5, <2>8, <2>9, <4>1, CutIsSound
    <3> QED
      BY <3>1, <3>2 DEF Kept
  <2>11. SummaryInv(c, t)
    <3>1. t.time = 0 \/ t.time >= t.upTo
      BY <2>7, <2>8 DEF SummaryInv
    <3>2. \A d \in t.previous : d.upTo < t.upTo
      BY <2>7
    <3>3. t.upTo \in Live
      BY <2>5, <2>7
    <3> QED
      BY <2>10, <3>1, <3>2, <3>3 DEF SummaryInv
  <2>12. \A d \in Kept(t) : \A i \in I : d.upTo < i
    <3>1. \A i \in I : i \in Int /\ i > cut.upTo
      BY <2>5, MessagesAssumption DEF Ids
    <3> QED
      BY <2>8, <2>10, <3>1
  <2> QED
    BY <2>5, <2>7, <2>11, <2>12
<1> QED
  BY <1>2, <1>3

\* An invalidation makes no summary where there was none.
LEMMA InvalidatedType ==
  ASSUME PlacesInv, NEW c \in Chats, NEW I \in SUBSET Ids
  PROVE  /\ Invalidated(c, I) \in Summary \cup {NoSummary}
         /\ latest[c] = NoSummary => Invalidated(c, I) = NoSummary
<1>1. CASE latest[c] = NoSummary \/ Trails(latest[c], I)
  BY <1>1 DEF Invalidated, PlacesInv
<1>2. CASE ~(latest[c] = NoSummary \/ Trails(latest[c], I))
  <2> DEFINE s == latest[c]
             fit == {cut \in s.previous : Trails(cut, I)}
             cut == Newest(fit)
             P == Before(s.previous, cut.upTo)
  <2>1. s \in Summary /\ Invalidated(c, I) = Fallback(s, I)
    BY <1>2 DEF Invalidated, PlacesInv
  <2>2. CASE fit = {}
    BY <1>2, <2>1, <2>2 DEF Fallback
  <2>3. CASE fit /= {}
    <3>1. fit \in SUBSET Cut
      BY <2>1, SummaryParts
    <3>2. cut \in fit
      <4> HIDE DEF fit
      <4> QED
        BY <2>3, <3>1, NewestIn
    <3>3. cut.upTo \in Ids /\ cut.says \in Content
      BY <3>1, <3>2, CutParts
    <3>4. P \in SUBSET Cut /\ s.time \in Ids \cup {0}
      BY <2>1, SummaryParts DEF Before
    <3>5. Fallback(s, I) = [upTo |-> cut.upTo, says |-> cut.says,
                            time |-> s.time, previous |-> P]
      BY <2>3 DEF Fallback
    <3> HIDE DEF cut, P
    <3>6. Fallback(s, I) \in Summary
      BY <3>3, <3>4, <3>5 DEF Summary
    <3> QED
      BY <1>2, <2>1, <3>6
  <2> QED
    BY <2>2, <2>3
<1> QED
  BY <1>1, <1>2

----------------------------------------------------------------------------
(* Steps that leave the chats of messages, their roles and texts alone.    *)

Unmoved ==
    \A i \in Ids : i < next =>
        /\ msg'[i] = Blank <=> msg[i] = Blank
        /\ msg'[i].chat = msg[i].chat
        /\ msg'[i].role = msg[i].role
        /\ msg'[i].text = msg[i].text

LEMMA UnmovedKeeps ==
  ASSUME PlacesInv, DraftsInv, Unmoved,
         next' \in 1 .. MaxMessages + 1, next <= next',
         crossed \subseteq crossed', crossed' \subseteq Ids,
         used \subseteq used', emptied' = emptied
  PROVE  /\ \A c \in Chats : \A s \in Summary :
                SummaryInv(c, s) => SummaryInv(c, s)'
         /\ \A w \in writing : DraftInv(w)'
<1>1. Onward
  BY DEF Onward, Unmoved
<1>2. \A I : TextStays(I)
  BY DEF TextStays, Unmoved
<1>3. ASSUME NEW c \in Chats
      PROVE  Beginning(c)
  <2>1. \A i \in Of(c) : i \in Ids /\ i < next /\ msg[i] /= Blank
    BY OfLive DEF PlacesInv, Live, Of
  <2> QED
    BY <2>1 DEF Beginning, Unmoved
<1>4. ASSUME NEW c \in Chats, NEW s \in Summary, SummaryInv(c, s)
      PROVE  SummaryInv(c, s)'
  <2>1. s \in Summary /\ \A d \in Kept(s) : d.upTo \in Ids /\ d.upTo < next
    BY <1>4 DEF SummaryInv, Sound, Placed
  <2>2. c \notin emptied => \A d \in Kept(s) : d.upTo \in Live'
    BY <1>4, <2>1 DEF SummaryInv, Unmoved, Live
  <2>3. s.upTo \in Int /\ s.upTo \in Ids /\ s.upTo < next
    <3>1. [upTo |-> s.upTo, says |-> s.says] \in Kept(s)
      BY DEF Kept
    <3> QED
      BY <2>1, <3>1, SummaryParts
  <2>4. s.upTo \in Live' \/ \A j \in Of(c)' : j > s.upTo
    <3>1. CASE s.upTo \in Live
      BY <2>3, <3>1 DEF Unmoved, Live
    <3>2. CASE \A j \in Of(c) : j > s.upTo
      <4> SUFFICES ASSUME NEW j \in Ids, msg'[j].chat = c
                   PROVE  j > s.upTo
        BY DEF Of
      <4>1. j \in Int /\ next \in Int
        BY MessagesAssumption DEF Ids, PlacesInv
      <4>2. CASE j < next
        BY <3>2, <4>2 DEF Unmoved, Of
      <4>3. CASE next <= j
        BY <2>3, <4>1, <4>3
      <4> QED
        BY <4>1, <4>2, <4>3
    <3> QED
      BY <1>4, <3>1, <3>2 DEF SummaryInv
  <2> QED
    BY <1>1, <1>2, <1>3, <1>4, <2>2, <2>4, SummaryStays
<1>5. ASSUME NEW w \in writing
      PROVE  DraftInv(w)'
  <2>1. w.chat \in Chats /\ DraftInv(w)
    BY DEF PlacesInv, DraftsInv
  <2> QED
    BY <1>1, <1>2, <1>3, <2>1, DraftStays
<1> QED
  BY <1>4, <1>5

\* ... and the summaries too.
LEMMA HistoryStays ==
  ASSUME HistoryInv, PlacesInv', Unmoved, next <= next',
         crossed \subseteq crossed', used \subseteq used',
         emptied' = emptied, latest' = latest, writing' \subseteq writing
  PROVE  HistoryInv'
<1>1. /\ \A c \in Chats : \A s \in Summary :
             SummaryInv(c, s) => SummaryInv(c, s)'
      /\ \A w \in writing : DraftInv(w)'
  BY UnmovedKeeps DEF HistoryInv, PlacesInv
<1>2. SummariesInv'
  BY <1>1 DEF HistoryInv, SummariesInv
<1>3. DraftsInv'
  BY <1>1 DEF DraftsInv
<1> QED
  BY <1>2, <1>3 DEF HistoryInv

LEMMA SaveChatHistory ==
  ASSUME HistoryInv, NEW c \in Chats, SaveChat(c)
  PROVE  HistoryInv'
<1>1. /\ exists \subseteq exists' /\ used \subseteq used'
      /\ UNCHANGED <<next, msg, latest, writing, emptied, crossed>>
  BY DEF SaveChat
<1>2. PlacesInv'
  BY <1>1 DEF HistoryInv, PlacesInv, Live
<1>3. Unmoved /\ next <= next'
  BY <1>1, MessagesAssumption DEF Unmoved, HistoryInv, PlacesInv
<1> QED
  BY <1>1, <1>2, <1>3, HistoryStays

LEMMA SaveMessageHistory ==
  ASSUME MessagesInv, HistoryInv, NEW c \in Chats, NEW role \in Roles,
         NEW F \in SUBSET Files, SaveMessage(c, role, F)
  PROVE  HistoryInv'
<1> DEFINE m == [chat |-> c, role |-> role, copy |-> FALSE, files |-> F,
                 text |-> 0, recent |-> TRUE]
<1>1. /\ c \in exists /\ next \in Ids /\ next' = next + 1
      /\ msg' = [msg EXCEPT ![next] = m]
      /\ UNCHANGED <<exists, used, latest, writing, emptied, crossed>>
  BY DEF SaveMessage, VerifyChatOwnership
<1>2. m.chat = c
  OBVIOUS
<1> HIDE DEF m
<1>3. \A i \in Ids : msg'[i] = IF i = next THEN m ELSE msg[i]
  BY <1>1 DEF MessagesInv
<1>4. next \in Int /\ next < next' /\ next' \in 1 .. MaxMessages + 1
      /\ \A i \in Ids : i \in Int
  BY <1>1, MessagesAssumption DEF Ids
<1>5. \A i \in Live' : i < next' /\ msg'[i].chat \in exists'
  <2>1. \A i \in Live : i < next /\ msg[i].chat \in exists
    BY DEF HistoryInv, PlacesInv
  <2>2. ASSUME NEW i \in Ids, msg'[i] /= Blank
        PROVE  i < next' /\ msg'[i].chat \in exists'
    BY <1>1, <1>2, <1>3, <1>4, <2>1, <2>2 DEF Live
  <2> QED
    BY <2>2 DEF Live
<1>6. PlacesInv'
  BY <1>1, <1>4, <1>5 DEF HistoryInv, PlacesInv
<1>7. Unmoved
  BY <1>3, <1>4 DEF Unmoved
<1> QED
  BY <1>1, <1>4, <1>6, <1>7, HistoryStays

\* A patch and a share leave messages where they are.
LEMMA TouchHistory ==
  ASSUME HistoryInv,
         \A i \in Ids : /\ msg'[i] = Blank <=> msg[i] = Blank
                        /\ msg'[i].chat = msg[i].chat
                        /\ msg'[i].role = msg[i].role
                        /\ msg'[i].text = msg[i].text,
         UNCHANGED <<exists, used, next, latest, writing, emptied, crossed>>
  PROVE  HistoryInv'
<1>1. PlacesInv'
  BY DEF HistoryInv, PlacesInv, Live
<1>2. Unmoved /\ next <= next'
  BY MessagesAssumption DEF Unmoved, HistoryInv, PlacesInv
<1> QED
  BY <1>1, <1>2, HistoryStays

LEMMA PatchHistory ==
  ASSUME MessagesInv, HistoryInv, NEW i \in Ids, NEW F \in SUBSET Files,
         PatchMessage(i, F)
  PROVE  HistoryInv'
<1> DEFINE m == [msg[i] EXCEPT !.files = @ \cup F, !.recent = TRUE]
<1>1. /\ i \in Live /\ msg[i].role = "assistant"
      /\ msg' = [msg EXCEPT ![i] = m]
      /\ UNCHANGED <<exists, used, next, latest, writing, emptied, crossed>>
  BY DEF PatchMessage, MessagesInv
<1>2. msg[i] \in Message
  BY DEF MessagesInv
<1>3. m.chat = msg[i].chat /\ m.role = msg[i].role /\ m.text = msg[i].text
  BY <1>2 DEF Message
<1>4. m /= Blank
  BY <1>1, <1>3 DEF Blank
<1> HIDE DEF m
<1>5. \A j \in Ids : msg'[j] = IF j = i THEN m ELSE msg[j]
  BY <1>1 DEF MessagesInv
<1> QED
  BY <1>1, <1>3, <1>4, <1>5, TouchHistory DEF Live

LEMMA ShareHistory ==
  ASSUME MessagesInv, HistoryInv, NEW c \in Chats, ShareChat(c)
  PROVE  HistoryInv'
<1>1. /\ msg' = [i \in Ids |-> IF i \in Of(c)
                               THEN [msg[i] EXCEPT !.recent = FALSE]
                               ELSE msg[i]]
      /\ UNCHANGED <<exists, used, next, latest, writing, emptied, crossed>>
  BY DEF ShareChat
<1>2. ASSUME NEW i \in Ids
      PROVE  /\ msg'[i] = Blank <=> msg[i] = Blank
             /\ msg'[i].chat = msg[i].chat
             /\ msg'[i].role = msg[i].role
             /\ msg'[i].text = msg[i].text
  <2>1. CASE i \in Of(c)
    <3>1. msg[i] \in Message /\ msg[i].chat = c
      BY <2>1 DEF MessagesInv, Of
    <3>2. msg'[i] = [msg[i] EXCEPT !.recent = FALSE]
      BY <1>1, <2>1
    <3>3. /\ msg'[i].chat = c /\ msg'[i].role = msg[i].role
          /\ msg'[i].text = msg[i].text
      BY <3>1, <3>2 DEF Message
    <3>4. Blank.chat /= c
      BY ChatsAssumption DEF Blank
    <3> QED
      BY <3>1, <3>3, <3>4
  <2>2. CASE i \notin Of(c)
    BY <1>1, <2>2
  <2> QED
    BY <2>1, <2>2
<1> QED
  BY <1>1, <1>2, TouchHistory

----------------------------------------------------------------------------
(* Deletions at the end of a chat. The messages J end c: all of them go,   *)
(* except that the first of them, k, may stay with another text.           *)

LEMMA CutBackHistory ==
  ASSUME HistoryInv, NEW c \in Chats, NEW J \in SUBSET Of(c), NEW k \in Int,
         \A j \in J : \A h \in Of(c) : h >= j => h \in J,
         \A i \in Ids : i \notin J => msg'[i] = msg[i],
         \A i \in J : i /= k => msg'[i] = Blank /\ i > k,
         k \in J => /\ msg'[k].chat = msg[k].chat
                    /\ msg'[k].role = msg[k].role
                    /\ \A w \in writing : w.upTo = k => k \in crossed',
         latest' = [latest EXCEPT ![c] = Invalidated(c, J)],
         UNCHANGED <<exists, used, next, writing, emptied>>,
         crossed \subseteq crossed', crossed' \subseteq Ids
  PROVE  HistoryInv'
<1>1. /\ J \subseteq Ids /\ J \subseteq Live
      /\ \A i \in Ids : i \in Int
      /\ \A i \in J : msg[i].chat = c
  BY OfLive, MessagesAssumption DEF Of, Ids
<1>2. PlacesInv /\ next \in Int
  BY MessagesAssumption DEF HistoryInv, PlacesInv
<1>3. \A i \in Ids : msg'[i] /= Blank =>
          /\ msg[i] /= Blank /\ msg'[i].chat = msg[i].chat
          /\ msg'[i].role = msg[i].role
          /\ i \in J => i = k
  BY <1>1 DEF Live
<1>4. Onward
  BY <1>2, <1>3 DEF Onward, PlacesInv
<1>5. ASSUME NEW d \in Chats
      PROVE  Beginning(d)
  <2> SUFFICES ASSUME NEW i \in Of(d), NEW j \in Of(d), i <= j,
                      msg'[j] /= Blank
               PROVE  msg'[i] /= Blank
    BY DEF Beginning
  <2>1. i \in Ids /\ i \in Live /\ j \in Ids /\ i \in Int /\ j \in Int
        /\ msg[i].chat = d
    BY <1>1, OfLive DEF Of
  <2>2. CASE i \notin J
    BY <2>1, <2>2 DEF Live
  <2>3. CASE i \in J
    <3>1. d = c
      BY <1>1, <2>1, <2>3
    <3>2. j \in J
      BY <2>1, <2>3, <3>1
    <3>3. j = k
      BY <1>3, <2>1, <3>2
    <3>4. i = k
      BY <2>1, <2>3, <3>3
    <3> QED
      BY <3>3, <3>4
  <2> QED
    BY <2>2, <2>3
<1>6. PlacesInv'
  <2>1. \A i \in Live' : i < next' /\ msg'[i].chat \in exists'
    BY <1>2, <1>3 DEF PlacesInv, Live
  <2>2. Invalidated(c, J) \in Summary \cup {NoSummary}
        /\ (latest[c] = NoSummary => Invalidated(c, J) = NoSummary)
    BY <1>1, <1>2, InvalidatedType
  <2>3. latest' \in [Chats -> Summary \cup {NoSummary}]
    BY <1>2, <2>2 DEF PlacesInv
  <2>4. \A d \in Chats : latest'[d] = NoSummary \/ d \in exists'
    BY <1>2, <2>2 DEF PlacesInv
  <2> QED
    BY <1>2, <2>1, <2>3, <2>4 DEF PlacesInv
<1>7. ASSUME NEW d \in Chats, NEW s \in Summary, latest'[d] = s
      PROVE  SummaryInv(d, s)'
  <2>1. CASE d /= c
    <3>1. SummaryInv(d, s)
      BY <1>2, <1>7, <2>1 DEF HistoryInv, SummariesInv, PlacesInv
    <3>2. \A i \in Of(d) : i \notin J
      BY <1>1, <2>1 DEF Of
    <3>3. ASSUME NEW e \in Kept(s)
          PROVE  /\ TextStays(Said(e))
                 /\ e.upTo \in Live => e.upTo \in Live'
      <4>1. Sound(d, e)
        BY <3>1 DEF SummaryInv
      <4>2. \A i \in Said(e) \cap Live : i \in Of(d)
        BY <4>1 DEF Sound, Covers
      <4>3. TextStays(Said(e))
        BY <1>3, <3>2, <4>2 DEF TextStays, Live
      <4>4. e.upTo \in Live => e.upTo \in Of(d)
        BY <4>1 DEF Sound, CutoffStays
      <4> QED
        BY <3>2, <4>3, <4>4 DEF Live
    <3>4. d \notin emptied' => \A e \in Kept(s) : e.upTo \in Live'
      BY <3>1, <3>3 DEF SummaryInv
    <3>5. s.upTo \in Live' \/ \A j \in Of(d)' : j > s.upTo
      <4>1. s.upTo \in Live => s.upTo \in Live'
        <5>1. [upTo |-> s.upTo, says |-> s.says] \in Kept(s)
          BY DEF Kept
        <5> QED
          BY <3>3, <5>1
      <4>2. \A j \in Of(d)' : j \in Of(d)
        BY <1>3, ChatsAssumption DEF Of, Blank
      <4> QED
        BY <3>1, <4>1, <4>2 DEF SummaryInv
    <3> QED
      BY <1>2, <1>4, <1>5, <3>1, <3>3, <3>4, <3>5, SummaryStays
  <2>2. CASE d = c
    <3>1. s = Invalidated(c, J)
      BY <1>2, <1>7, <2>2 DEF PlacesInv
    <3>2. latest[c] \in Summary
      BY <1>1, <1>2, <3>1, InvalidatedType, SummaryParts DEF PlacesInv
    <3>3. SummaryInv(c, latest[c])
      BY <3>2 DEF HistoryInv, SummariesInv
    <3>4. /\ SummaryInv(c, s) /\ s.upTo \in Live
          /\ \A e \in Kept(s) : \A j \in J : e.upTo < j
      BY <1>1, <1>2, <3>1, <3>2, <3>3, InvalidatedIs
    <3>5. ASSUME NEW e \in Kept(s)
          PROVE  TextStays(Said(e)) /\ (e.upTo \in Live => e.upTo \in Live')
      <4>1. Sound(c, e) /\ e.upTo \in Int
        BY <1>1, <3>4 DEF SummaryInv, Sound, Placed
      <4>2. \A i \in Said(e) \cap Live : i \in Int /\ i <= e.upTo
        BY <1>1, <4>1 DEF Sound, Covers, Live
      <4>3. \A i \in Said(e) \cap Live : i \notin J
        BY <3>4, <4>1, <4>2
      <4>4. TextStays(Said(e))
        BY <1>3, <4>3 DEF TextStays, Live
      <4>5. e.upTo \notin J
        BY <3>4, <4>1
      <4> QED
        BY <4>4, <4>5 DEF Live
    <3>6. c \notin emptied' => \A e \in Kept(s) : e.upTo \in Live'
      BY <3>4, <3>5 DEF SummaryInv
    <3>7. s.upTo \in Live'
      <4>1. [upTo |-> s.upTo, says |-> s.says] \in Kept(s)
        BY DEF Kept
      <4> QED
        BY <3>4, <3>5, <4>1
    <3> QED
      BY <1>2, <1>4, <1>5, <2>2, <3>4, <3>5, <3>6, <3>7, SummaryStays
  <2> QED
    BY <2>1, <2>2
<1>8. ASSUME NEW w \in writing
      PROVE  DraftInv(w)'
  <2>1. w.chat \in Chats /\ DraftInv(w) /\ Sound(w.chat, w)
    BY <1>2 DEF HistoryInv, DraftsInv, PlacesInv, DraftInv
  <2>2. ASSUME w.upTo \in Live', NEW i \in Said(w) \cap Ids, msg'[i] /= Blank
        PROVE  i \in crossed' \/ msg'[i].text = msg[i].text
    <3>1. i \in Live /\ w.upTo \in Live /\ w.upTo \in Ids
      BY <1>3, <2>2 DEF Live
    <3>2. /\ i \in Of(w.chat) /\ i <= w.upTo /\ w.upTo \in Of(w.chat)
      BY <2>1, <2>2, <3>1 DEF Sound, Covers, CutoffStays
    <3>3. CASE i \in J
      <4>1. w.chat = c
        BY <1>1, <3>2, <3>3 DEF Of
      <4>2. w.upTo \in J /\ k \in J
        BY <1>1, <1>3, <2>2, <3>1, <3>2, <3>3, <4>1
      <4>3. w.upTo = k /\ i = k
        BY <1>3, <2>2, <3>1, <3>3, <4>2 DEF Live
      <4> QED
        BY <4>2, <4>3
    <3>4. CASE i \notin J
      BY <3>4
    <3> QED
      BY <3>3, <3>4
  <2>3. w.upTo \in Live' => TextStays(Said(w))
    BY <2>2 DEF TextStays
  <2> QED
    BY <1>2, <1>4, <1>5, <2>1, <2>3, DraftStays
<1> QED
  BY <1>6, <1>7, <1>8 DEF HistoryInv, SummariesInv, DraftsInv

LEMMA DeleteLastHistory ==
  ASSUME MessagesInv, HistoryInv, NEW c \in Chats,
         DeleteLastAssistantMessage(c)
  PROVE  HistoryInv'
<1> DEFINE J == Trailing(c)
<1>1. /\ latest' = [latest EXCEPT ![c] = Invalidated(c, J)]
      /\ msg' = Without(J)
      /\ UNCHANGED <<exists, used, next, writing, emptied, crossed>>
  BY DEF DeleteLastAssistantMessage
<1>2. J \in SUBSET Of(c) /\ \A i \in J : i \in Int /\ i > 0
  BY MessagesAssumption DEF Trailing, Of, Ids
<1>3. \A j \in J : \A h \in Of(c) : h >= j => h \in J
  <2> SUFFICES ASSUME NEW j \in J, NEW h \in Of(c), h >= j,
                      NEW i \in Of(c), i >= h
               PROVE  msg[i].role /= "user"
    BY DEF Trailing
  <2>1. i \in Int /\ h \in Int /\ j \in Int
    BY MessagesAssumption DEF Trailing, Of, Ids
  <2>2. i >= j
    BY <2>1
  <2> QED
    BY <2>2 DEF Trailing
<1>4. /\ \A i \in Ids : i \notin J => msg'[i] = msg[i]
      /\ \A i \in J : msg'[i] = Blank
  BY <1>1, <1>2 DEF Without, Of
<1>5. crossed' \subseteq Ids /\ 0 \in Int /\ 0 \notin J
  BY <1>1, <1>2 DEF HistoryInv, PlacesInv
<1> HIDE DEF J
<1> QED
  BY <1>1, <1>2, <1>3, <1>4, <1>5, CutBackHistory

LEMMA RegenerateHistory ==
  ASSUME Inv, HistoryInv, NEW i \in Ids, NEW K \in SUBSET Files,
         RegenerateWithNewContent(i, K)
  PROVE  HistoryInv'
<1> DEFINE c == msg[i].chat
           later == {j \in Of(c) : j > i}
           J == later \cup {i}
           m == Edited(Without(later)[i], K)
<1>1. /\ i \in Live /\ c \in exists
      /\ latest' = [latest EXCEPT ![c] = Invalidated(c, J)]
      /\ msg' = [Without(later) EXCEPT ![i] = m]
      /\ crossed' = IF \E w \in writing : w.upTo = i THEN crossed \cup {i}
                    ELSE crossed
      /\ UNCHANGED <<exists, used, next, writing, emptied>>
  BY DEF RegenerateWithNewContent, VerifyChatOwnership
<1>2. c \in Chats /\ \A j \in Ids : j \in Int
  BY <1>1, MessagesAssumption DEF Inv, SharesInv, Ids
<1>3. J \in SUBSET Of(c) /\ \A j \in J : j /= i => j \in later /\ j > i
  BY DEF Of
<1>4. \A j \in J : \A h \in Of(c) : h >= j => h \in J
  <2> SUFFICES ASSUME NEW j \in J, NEW h \in Of(c), h >= j, h /= i
               PROVE  h > i
    OBVIOUS
  <2>1. j \in Int /\ h \in Int /\ i \in Int /\ j >= i
    BY <1>2, <1>3 DEF Of
  <2> QED
    BY <2>1
<1>5. i \notin later /\ Without(later)[i] = msg[i] /\ msg[i] \in Message
  BY <1>2 DEF Without, Inv, MessagesInv
<1>6. m.chat = msg[i].chat /\ m.role = msg[i].role
  BY <1>5 DEF Edited, Message
<1>7. \A j \in Ids : msg'[j] = IF j = i THEN m
                               ELSE IF j \in later THEN Blank ELSE msg[j]
  BY <1>1 DEF Without
<1>8. /\ crossed \subseteq crossed' /\ crossed' \subseteq Ids
      /\ \A w \in writing : w.upTo = i => i \in crossed'
  BY <1>1 DEF HistoryInv, PlacesInv
<1>9. i \in J /\ i \in Int
  BY <1>2
<1>10. /\ \A j \in Ids : j \notin J => msg'[j] = msg[j]
       /\ \A j \in J : j /= i => msg'[j] = Blank /\ j > i
       /\ msg'[i].chat = msg[i].chat /\ msg'[i].role = msg[i].role
  <2> HIDE DEF m
  <2>1. J \subseteq Ids
    BY <1>3 DEF Of
  <2>2. \A j \in Ids : j \notin J => j /= i /\ j \notin later
    OBVIOUS
  <2> HIDE DEF later, J
  <2> QED
    BY <1>3, <1>6, <1>7, <2>1, <2>2
<1> HIDE DEF c, later, J, m
<1> QED
  BY <1>1, <1>2, <1>3, <1>4, <1>8, <1>9, <1>10, CutBackHistory

----------------------------------------------------------------------------
(* The deletion of chats.                                                  *)

\* The messages of the chats D are deleted, and perhaps the summaries, and the
\* chats.
LEMMA EmptiedHistory ==
  ASSUME SharesInv, HistoryInv, NEW D \in SUBSET Chats,
         NEW E \in SUBSET Chats,
         \A i \in Ids : msg'[i] = IF msg[i].chat \in D THEN Blank ELSE msg[i],
         exists' = exists \ D, emptied' = emptied \ D,
         latest' = [c \in Chats |-> IF c \in E THEN NoSummary ELSE latest[c]],
         D \subseteq E,
         UNCHANGED <<used, next, writing, crossed>>
  PROVE  HistoryInv'
<1>1. PlacesInv /\ SharesInv
  BY DEF HistoryInv
<1>2. \A i \in Ids : msg'[i] /= Blank => /\ msg'[i] = msg[i]
                                         /\ msg[i].chat \notin D
  OBVIOUS
<1>3. Onward
  <2>1. next' \in 1 .. MaxMessages + 1 /\ next <= next'
    BY <1>1, MessagesAssumption DEF PlacesInv
  <2> QED
    BY <1>1, <1>2, <2>1 DEF Onward, PlacesInv
<1>4. \A I : TextStays(I)
  BY <1>2 DEF TextStays
<1>5. ASSUME NEW c \in Chats
      PROVE  Beginning(c)
  BY <1>2, OfLive DEF Beginning, Of, Live
<1>6. PlacesInv'
  <2>1. \A i \in Live' : i < next' /\ msg'[i].chat \in exists'
    BY <1>1, <1>2 DEF PlacesInv, Live
  <2>2. latest' \in [Chats -> Summary \cup {NoSummary}]
    BY <1>1 DEF PlacesInv
  <2>3. \A c \in Chats : latest'[c] = NoSummary \/ c \in exists'
    BY <1>1 DEF PlacesInv
  <2> QED
    BY <1>1, <2>1, <2>2, <2>3 DEF PlacesInv
<1>7. ASSUME NEW c \in Chats, NEW s \in Summary, latest'[c] = s
      PROVE  SummaryInv(c, s)'
  <2>1. c \notin D /\ latest[c] = s
    BY <1>7, SummaryParts
  <2>2. SummaryInv(c, s)
    BY <2>1 DEF HistoryInv, SummariesInv
  <2>3. ASSUME NEW d \in Kept(s), d.upTo \in Live
        PROVE  d.upTo \in Live'
    <3>1. d.upTo \in Of(c)
      BY <2>2, <2>3 DEF SummaryInv, Sound, CutoffStays
    <3> QED
      BY <2>1, <2>3, <3>1 DEF Of, Live
  <2>4. c \notin emptied' => /\ c \notin emptied
                             /\ \A d \in Kept(s) : d.upTo \in Live'
    BY <2>1, <2>2, <2>3 DEF SummaryInv
  <2>5. s.upTo \in Live' \/ \A j \in Of(c)' : j > s.upTo
    <3>1. [upTo |-> s.upTo, says |-> s.says] \in Kept(s)
      BY DEF Kept
    <3>2. s.upTo \in Live => s.upTo \in Live'
      BY <2>3, <3>1
    <3>3. \A j \in Of(c)' : j \in Of(c)
      BY <1>2, ChatsAssumption DEF Of, Blank
    <3> QED
      BY <2>2, <3>2, <3>3 DEF SummaryInv
  <2> QED
    BY <1>1, <1>3, <1>4, <1>5, <2>2, <2>4, <2>5, SummaryStays
<1>8. ASSUME NEW w \in writing
      PROVE  DraftInv(w)'
  <2>1. w.chat \in Chats /\ DraftInv(w) /\ Sound(w.chat, w)
    BY <1>1 DEF HistoryInv, DraftsInv, PlacesInv, DraftInv
  <2>2. w.upTo \in Live' => w.chat \notin D
    BY <1>2, <2>1 DEF Sound, CutoffStays, Live, Of
  <2> QED
    BY <1>1, <1>3, <1>4, <1>5, <2>1, <2>2, DraftStays
<1> QED
  BY <1>6, <1>7, <1>8 DEF HistoryInv, SummariesInv, DraftsInv

LEMMA DeleteChatHistory ==
  ASSUME SharesInv, HistoryInv, NEW c \in Chats, DeleteChat(c)
  PROVE  HistoryInv'
<1>1. /\ msg' = Without(Of(c)) /\ latest' = [latest EXCEPT ![c] = NoSummary]
      /\ exists' = exists \ {c} /\ emptied' = emptied \ {c}
      /\ UNCHANGED <<used, next, writing, crossed>>
  BY DEF DeleteChat
<1>2. \A i \in Ids : msg'[i] = IF msg[i].chat \in {c} THEN Blank ELSE msg[i]
  BY <1>1 DEF Without, Of
<1>3. latest' = [d \in Chats |-> IF d \in {c} THEN NoSummary ELSE latest[d]]
  BY <1>1 DEF HistoryInv, PlacesInv
<1>4. {c} \in SUBSET Chats
  OBVIOUS
<1> QED
  BY <1>1, <1>2, <1>3, <1>4, EmptiedHistory

LEMMA DeleteAllHistory ==
  ASSUME SharesInv, MessagesInv, HistoryInv, DeleteAllUserData
  PROVE  HistoryInv'
<1>1. /\ msg' = Without(Live) /\ latest' = [c \in Chats |-> NoSummary]
      /\ exists' = {} /\ emptied' = {}
      /\ UNCHANGED <<used, next, writing, crossed>>
  BY DEF DeleteAllUserData
<1>2. \A i \in Ids : msg'[i] = IF msg[i].chat \in Chats THEN Blank ELSE msg[i]
  <2>1. \A i \in Live : msg[i].chat \in Chats
    BY DEF SharesInv, HistoryInv, PlacesInv
  <2> QED
    BY <1>1, <2>1 DEF Without, Live
<1>3. exists' = exists \ Chats /\ emptied' = emptied \ Chats
  BY <1>1 DEF SharesInv, HistoryInv, PlacesInv
<1>4. latest' = [c \in Chats |-> IF c \in Chats THEN NoSummary ELSE latest[c]]
  BY <1>1
<1> QED
  BY <1>1, <1>2, <1>3, <1>4, EmptiedHistory

\* The oldest messages lie before the others.
LEMMA OldestFirst ==
  ASSUME NEW c \in Chats, NEW i \in Oldest(c), NEW j \in Of(c) \ Oldest(c)
  PROVE  i < j
<1>1. i \in Int /\ j \in Int /\ i \in Of(c) /\ \A h \in Of(c) : h \in Int
  BY MessagesAssumption DEF Oldest, Of, Ids
<1> DEFINE B(k) == {h \in Of(c) : h < k}
<1>2. Cardinality(B(i)) < Batch /\ ~(Cardinality(B(j)) < Batch)
  BY DEF Oldest
<1>3. IsFiniteSet(B(i)) /\ IsFiniteSet(B(j))
  <2>1. IsFiniteSet(Ids)
    BY FS_Interval, MessagesAssumption DEF Ids
  <2>2. B(i) \in SUBSET Ids /\ B(j) \in SUBSET Ids
    BY DEF Of
  <2> HIDE DEF B
  <2> QED
    BY <2>1, <2>2, FS_Subset
<1>4. ASSUME j <= i
      PROVE  FALSE
  <2>1. B(j) \in SUBSET B(i)
    <3>1. ASSUME NEW h \in Of(c), h < j
          PROVE  h < i
      <4>1. h \in Int
        BY <1>1
      <4> QED
        BY <1>1, <1>4, <3>1, <4>1
    <3> QED
      BY <3>1
  <2> HIDE DEF B
  <2>2. Cardinality(B(j)) <= Cardinality(B(i))
    BY <1>3, <2>1, FS_Subset
  <2>3. Cardinality(B(j)) \in Nat /\ Cardinality(B(i)) \in Nat
    BY <1>3, FS_CardinalityType
  <2> QED
    BY <1>2, <2>2, <2>3, BatchAssumption
<1> QED
  BY <1>1, <1>4

LEMMA BatchHistory ==
  ASSUME SharesInv, HistoryInv, NEW c \in exists,
         msg' = Without(Oldest(c)), emptied' = emptied \cup {c},
         UNCHANGED <<exists, used, next, latest, writing, crossed>>
  PROVE  HistoryInv'
<1>1. PlacesInv /\ c \in Chats
  BY DEF HistoryInv, SharesInv
<1>2. /\ \A i \in Ids : msg'[i] = IF i \in Oldest(c) THEN Blank ELSE msg[i]
      /\ \A i \in Oldest(c) : i \in Of(c) /\ i \in Ids
  BY DEF Without, Oldest, Of
<1>3. Onward
  <2>1. next' \in 1 .. MaxMessages + 1 /\ next <= next'
    BY <1>1, MessagesAssumption DEF PlacesInv
  <2> QED
    BY <1>1, <1>2, <2>1 DEF Onward, PlacesInv
<1>4. \A I : TextStays(I)
  BY <1>2 DEF TextStays
<1>5. ASSUME NEW d \in Chats, d /= c
      PROVE  \A i \in Of(d) : i \in Ids /\ msg'[i] = msg[i]
  BY <1>2, <1>5 DEF Of
<1>6. ASSUME NEW d \in Chats, d /= c
      PROVE  Beginning(d)
  BY <1>5, <1>6, OfLive DEF Beginning, Of, Live
<1>7. PlacesInv'
  <2>1. \A i \in Live' : i < next' /\ msg'[i].chat \in exists'
    BY <1>1, <1>2 DEF PlacesInv, Live
  <2> QED
    BY <1>1, <2>1 DEF PlacesInv
<1>8. ASSUME NEW d \in Chats, NEW s \in Summary, latest'[d] = s
      PROVE  SummaryInv(d, s)'
  <2>1. SummaryInv(d, s)
    BY <1>8 DEF HistoryInv, SummariesInv
  <2>2. d \notin emptied' =>
            /\ d \notin emptied /\ Beginning(d)
            /\ \A e \in Kept(s) : e.upTo \in Live'
    <3> SUFFICES ASSUME d \notin emptied'
                 PROVE  /\ d \notin emptied /\ Beginning(d)
                        /\ \A e \in Kept(s) : e.upTo \in Live'
      OBVIOUS
    <3>1. d /= c /\ d \notin emptied
      OBVIOUS
    <3>2. ASSUME NEW e \in Kept(s)
          PROVE  e.upTo \in Live'
      <4>1. e.upTo \in Live /\ e.upTo \in Of(d)
        BY <2>1, <3>1 DEF SummaryInv, Sound, CutoffStays
      <4> QED
        BY <1>5, <3>1, <4>1 DEF Live
    <3> QED
      BY <1>6, <3>1, <3>2
  <2>3. s.upTo \in Live' \/ \A j \in Of(d)' : j > s.upTo
    <3>1. \A j \in Of(d)' : j \in Of(d) /\ j \notin Oldest(c)
      BY <1>2, ChatsAssumption DEF Of, Blank
    <3>2. CASE s.upTo \in Oldest(c)
      <4>1. [upTo |-> s.upTo, says |-> s.says] \in Kept(s)
        BY DEF Kept
      <4>2. s.upTo \in Live => s.upTo \in Of(d)
        BY <2>1, <4>1 DEF SummaryInv, Sound, CutoffStays
      <4>3. s.upTo \in Of(c) /\ s.upTo \in Live
        BY <1>1, <1>2, <3>2, OfLive
      <4>4. d = c
        BY <4>2, <4>3 DEF Of
      <4>5. \A j \in Of(d)' : s.upTo < j
        BY <1>1, <3>1, <3>2, <4>4, OldestFirst
      <4>6. s.upTo \in Int /\ \A j \in Of(d)' : j \in Int
        BY SummaryParts, MessagesAssumption DEF Of, Ids
      <4> QED
        BY <4>5, <4>6
    <3>3. CASE s.upTo \notin Oldest(c)
      <4>1. s.upTo \in Live => s.upTo \in Live'
        BY <1>2, <3>3 DEF Live
      <4> QED
        BY <2>1, <3>1, <4>1 DEF SummaryInv
    <3> QED
      BY <3>2, <3>3
  <2> QED
    BY <1>1, <1>3, <1>4, <2>1, <2>2, <2>3, SummaryStays
<1>9. ASSUME NEW w \in writing
      PROVE  DraftInv(w)'
  <2>1. w.chat \in Chats /\ DraftInv(w)
    BY <1>1 DEF HistoryInv, DraftsInv, PlacesInv
  <2>2. w.chat \notin emptied' => w.chat \notin emptied /\ Beginning(w.chat)
    BY <1>6, <2>1
  <2> QED
    BY <1>1, <1>3, <1>4, <2>1, <2>2, DraftStays
<1> QED
  BY <1>7, <1>8, <1>9 DEF HistoryInv, SummariesInv, DraftsInv

LEMMA DeleteNextHistory ==
  ASSUME SharesInv, HistoryInv, NEW c \in Chats, DeleteNextUserChatBatch(c)
  PROVE  HistoryInv'
<1>1. CASE Of(c) /= {}
  BY <1>1, BatchHistory DEF DeleteNextUserChatBatch
<1>2. CASE Of(c) = {}
  <2> DEFINE D == IF latest[c] /= NoSummary THEN {} ELSE {c}
  <2>1. /\ msg' = msg /\ latest' = [latest EXCEPT ![c] = NoSummary]
        /\ exists' = exists \ D /\ emptied' = emptied \ D
        /\ UNCHANGED <<used, next, writing, crossed>>
    BY <1>2 DEF DeleteNextUserChatBatch
  <2>2. \A i \in Ids : msg[i].chat \notin D
    BY <1>2 DEF Of
  <2>3. D \in SUBSET Chats /\ D \subseteq {c} /\ {c} \in SUBSET Chats
    OBVIOUS
  <2> HIDE DEF D
  <2>4. \A i \in Ids : msg'[i] = IF msg[i].chat \in D THEN Blank ELSE msg[i]
    BY <2>1, <2>2
  <2>5. latest' = [d \in Chats |-> IF d \in {c} THEN NoSummary ELSE latest[d]]
    BY <2>1 DEF HistoryInv, PlacesInv
  <2> QED
    BY <2>1, <2>3, <2>4, <2>5, EmptiedHistory
<1> QED
  BY <1>1, <1>2

----------------------------------------------------------------------------
(* Summaries that are started and saved.                                   *)

LEMMA WordingSays ==
  ASSUME NEW I \in SUBSET Ids
  PROVE  /\ \A p \in Wording(I) : p[1] \in I /\ p[2] = msg[p[1]].text
         /\ \A i \in I : \E p \in Wording(I) : p[1] = i
<1>1. ASSUME NEW p \in Wording(I)
      PROVE  p[1] \in I /\ p[2] = msg[p[1]].text
  BY <1>1 DEF Wording
<1>2. ASSUME NEW i \in I
      PROVE  \E p \in Wording(I) : p[1] = i
  <2>1. <<i, msg[i].text>> \in Wording(I)
    BY DEF Wording
  <2>2. <<i, msg[i].text>>[1] = i
    OBVIOUS
  <2> QED
    BY <2>1, <2>2
<1> QED
  BY <1>1, <1>2

LEMMA WordingType ==
  ASSUME MessagesInv, NEW I \in SUBSET Ids
  PROVE  Wording(I) \in Content
<1>1. \A i \in I : msg[i].text \in 0 .. MaxEdits
  BY DEF MessagesInv, Message
<1> QED
  BY <1>1 DEF Wording, Content

\* The question asked last lies behind the cutoff of the summary.
LEMMA StartedIsTrue ==
  ASSUME MessagesInv, SharesInv, HistoryInv,
         NEW c \in Chats, NEW i \in Ids, StartSummary(c, i),
         NEW w, w.chat = c, w.upTo = i,
         w.says = IF latest[c] = NoSummary
                  THEN Wording({j \in Of(c) : j <= i})
                  ELSE latest[c].says \cup Wording({j \in Of(c) :
                                           latest[c].upTo < j /\ j <= i})
  PROVE  w.says \in Content /\ DraftInv(w)
<1>1. /\ c \in exists /\ i \in Of(c) /\ msg[i].role /= "assistant"
      /\ \A j \in Of(c) : j > i => msg[j].role = "assistant"
  BY DEF StartSummary
<1>2. /\ PlacesInv /\ c \in used /\ next \in Int
      /\ \A j \in Of(c) : j \in Ids /\ j \in Int /\ j \in Live /\ j < next
  <2>1. PlacesInv /\ c \in used
    BY <1>1 DEF HistoryInv, SharesInv
  <2>2. next \in Int
    BY <2>1, MessagesAssumption DEF PlacesInv
  <2>3. ASSUME NEW j \in Of(c)
        PROVE  j \in Ids /\ j \in Int /\ j \in Live /\ j < next
    <3>1. j \in Ids /\ j \in Live
      BY OfLive DEF Of
    <3> QED
      BY <2>1, <3>1, MessagesAssumption DEF PlacesInv, Ids
  <2> QED
    BY <2>1, <2>2, <2>3
<1>3. CutoffStays(c, w)
  BY <1>1 DEF CutoffStays
<1>4. /\ w.says \in Content /\ \A j \in Said(w) : j < next
      /\ Covers(c, w) /\ Current(c, w)
  <2>1. CASE latest[c] = NoSummary
    <3> DEFINE I == {j \in Of(c) : j <= i}
    <3>1. w.says = Wording(I) /\ I \in SUBSET Ids
      BY <2>1 DEF Of
    <3>2. w.says \in Content
      BY <3>1, WordingType
    <3>3. /\ \A p \in w.says : p[1] \in I /\ p[2] = msg[p[1]].text
          /\ \A j \in I : \E p \in w.says : p[1] = j
      <4> HIDE DEF I
      <4>1. /\ \A p \in Wording(I) : p[1] \in I /\ p[2] = msg[p[1]].text
            /\ \A j \in I : \E p \in Wording(I) : p[1] = j
        BY <3>1, WordingSays
      <4> QED
        BY <3>1, <4>1
    <3>4. \A j : j \in Said(w) <=> j \in I
      <4> HIDE DEF I
      <4> QED
        BY <3>3 DEF Said
    <3>5. \A j \in I : j \in Of(c) /\ j <= i
      OBVIOUS
    <3>6. Covers(c, w)
      BY <3>4 DEF Covers
    <3>7. Worded(w)
      BY <3>3 DEF Worded
    <3>8. Said(w) \subseteq Live
      BY <1>2, <3>4, <3>5
    <3> QED
      BY <1>2, <3>2, <3>4, <3>5, <3>6, <3>7, <3>8 DEF Current
  <2>2. CASE latest[c] /= NoSummary
    <3> DEFINE s == latest[c]
               I == {j \in Of(c) : s.upTo < j /\ j <= i}
    <3>1. /\ w.says = s.says \cup Wording(I) /\ I \in SUBSET Ids
          /\ s \in Summary
      BY <1>2, <2>2 DEF Of, PlacesInv
    <3>2. SummaryInv(c, s)
      BY <3>1 DEF HistoryInv, SummariesInv
    <3>3. Sound(c, s) /\ Current(c, s)
      <4> DEFINE d == [upTo |-> s.upTo, says |-> s.says]
      <4>1. d \in Kept(s)
        BY DEF Kept
      <4>2. Sound(c, d) /\ Current(c, d)
        BY <3>2, <4>1 DEF SummaryInv
      <4>3. d.upTo = s.upTo /\ d.says = s.says
        OBVIOUS
      <4> HIDE DEF d, s
      <4> QED
        BY <4>2, <4>3, CutIsSound
    <3>4. s.upTo \in Int /\ s.upTo \in Ids /\ s.says \in Content
      BY <3>1, SummaryParts
    <3> HIDE DEF s
    <3>5. \A j \in Of(c) : j <= s.upTo => j <= i
      <4>1. CASE s.upTo \in Live
        <5>1. s.upTo \in Of(c) /\ msg[s.upTo].role /= "assistant"
          BY <3>3, <4>1 DEF Sound, CutoffStays
        <5>2. ~(s.upTo > i)
          BY <1>1, <5>1
        <5> QED
          BY <1>1, <1>2, <3>4, <5>2
      <4>2. CASE \A j \in Of(c) : j > s.upTo
        BY <1>2, <3>4, <4>2
      <4> QED
        BY <3>2, <4>1, <4>2 DEF SummaryInv
    <3>6. \A j \in I : j \in Of(c) /\ s.upTo < j /\ j <= i
      OBVIOUS
    <3>7. \A j \in Of(c) : j <= i <=> j <= s.upTo \/ j \in I
      BY <1>2, <3>4, <3>5
    <3> HIDE DEF I
    <3>8. w.says \in Content
      <4>1. Wording(I) \in Content
        BY <3>1, WordingType
      <4> QED
        BY <3>1, <3>4, <4>1 DEF Content
    <3>9. /\ \A p \in Wording(I) : p[1] \in I /\ p[2] = msg[p[1]].text
          /\ \A j \in I : \E p \in Wording(I) : p[1] = j
      BY <3>1, WordingSays
    <3>10. \A j : j \in Said(w) <=> j \in Said(s) \/ j \in I
      BY <3>1, <3>9 DEF Said
    <3>11. \A j \in Said(w) : j < next
      BY <1>2, <3>3, <3>6, <3>10 DEF Sound, Placed
    <3>12. Covers(c, w)
      <4> SUFFICES ASSUME NEW j \in Live
                   PROVE  j \in Said(w) <=> j \in Of(c) /\ j <= i
        BY DEF Covers
      <4>1. j \in Said(s) <=> j \in Of(c) /\ j <= s.upTo
        BY <3>3 DEF Sound, Covers
      <4> QED
        BY <3>6, <3>7, <3>10, <4>1
    <3>13. Current(c, w)
      <4>1. Worded(w)
        BY <3>1, <3>3, <3>9 DEF Current, Worded
      <4>2. c \notin emptied => Said(w) \subseteq Live
        BY <1>2, <3>3, <3>6, <3>10 DEF Current
      <4> QED
        BY <4>1, <4>2 DEF Current
    <3> QED
      BY <3>8, <3>11, <3>12, <3>13
  <2> QED
    BY <2>1, <2>2
<1>5. Placed(w)
  BY <1>1, <1>2, <1>4 DEF Placed
<1> QED
  BY <1>2, <1>3, <1>4, <1>5 DEF DraftInv, Sound

LEMMA SameDraft ==
  ASSUME NEW w, DraftInv(w),
         UNCHANGED <<used, next, msg, emptied, crossed>>
  PROVE  DraftInv(w)'
BY DEF DraftInv, Sound, Placed, CutoffStays, Covers, Current, Worded, Said,
       Live, Of

LEMMA SameSummary ==
  ASSUME NEW c, NEW s, SummaryInv(c, s),
         UNCHANGED <<next, msg, emptied, crossed>>
  PROVE  SummaryInv(c, s)'
<1>1. Live' = Live /\ Of(c)' = Of(c) /\ Kept(s)' = Kept(s)
  BY DEF Live, Of, Kept
<1>2. ASSUME NEW d, Sound(c, d) /\ Current(c, d)
      PROVE  Sound(c, d)' /\ Current(c, d)'
  BY <1>2 DEF Sound, Placed, CutoffStays, Covers, Current, Worded, Said,
              Live, Of
<1> QED
  BY <1>1, <1>2 DEF SummaryInv

LEMMA StartHistory ==
  ASSUME MessagesInv, SharesInv, HistoryInv,
         NEW c \in Chats, NEW i \in Ids, StartSummary(c, i)
  PROVE  HistoryInv'
<1> DEFINE X == IF latest[c] = NoSummary
                THEN Wording({j \in Of(c) : j <= i})
                ELSE latest[c].says \cup Wording({j \in Of(c) :
                                          latest[c].upTo < j /\ j <= i})
           w == [chat |-> c, upTo |-> i, says |-> X]
<1>1. /\ writing' = writing \cup {w}
      /\ UNCHANGED <<exists, used, next, msg, latest, emptied, crossed>>
  BY DEF StartSummary
<1>2. w.chat = c /\ w.upTo = i /\ w.says = X
  OBVIOUS
<1>3. w.says \in Content /\ DraftInv(w)
  <2> HIDE DEF w
  <2> QED
    BY <1>2, StartedIsTrue
<1>4. w \in [chat : Chats, upTo : Ids, says : Content]
  BY <1>3
<1> HIDE DEF w
<1>5. PlacesInv'
  BY <1>1, <1>4 DEF HistoryInv, PlacesInv, Live
<1>6. SummariesInv'
  BY <1>1, SameSummary DEF HistoryInv, SummariesInv
<1>7. DraftsInv'
  BY <1>1, <1>3, SameDraft DEF HistoryInv, DraftsInv
<1> QED
  BY <1>5, <1>6, <1>7 DEF HistoryInv

\* A summary that is not stale reaches further than the one it replaces.
LEMMA SavedReachesFurther ==
  ASSUME HistoryInv, NEW w \in writing, NEW s \in Summary,
         s = latest[w.chat], w.upTo \in Live, ~IsStale(w, s)
  PROVE  s.upTo < w.upTo
<1>1. /\ w.chat \in Chats /\ w.upTo \in Int
      /\ s.upTo \in Int /\ s.time \in Int /\ s.upTo > 0
  BY SummaryParts, MessagesAssumption DEF HistoryInv, PlacesInv, Ids
<1>2. SummaryInv(w.chat, s)
  BY <1>1 DEF HistoryInv, SummariesInv
<1>3. CASE s.time > 0
  <2>1. s.time >= s.upTo
    BY <1>1, <1>2, <1>3 DEF SummaryInv
  <2>2. ~(w.upTo < s.time \/ (w.upTo = s.time /\ w.upTo = s.upTo))
    BY <1>3 DEF IsStale
  <2> QED
    BY <1>1, <2>1, <2>2
<1>4. CASE ~(s.time > 0) /\ s.upTo \in Live
  <2>1. ~(w.upTo < s.upTo \/ (w.upTo = s.upTo /\ w.upTo = s.upTo))
    BY <1>4 DEF IsStale
  <2> QED
    BY <1>1, <2>1
<1>5. CASE s.upTo \notin Live
  <2>1. w.upTo \in Of(w.chat)
    BY DEF HistoryInv, DraftsInv, DraftInv, Sound, CutoffStays
  <2> QED
    BY <1>1, <1>2, <1>5, <2>1 DEF SummaryInv
<1> QED
  BY <1>3, <1>4, <1>5

LEMMA SaveHistory ==
  ASSUME HistoryInv, NEW w \in writing, SaveLatestSummary(w)
  PROVE  HistoryInv'
<1> DEFINE c == w.chat
           s == latest[c]
           older == IF s = NoSummary THEN {}
                    ELSE {[upTo |-> s.upTo, says |-> s.says]} \cup s.previous
           P == Shortened(older)
           t == [upTo |-> w.upTo, says |-> w.says, time |-> w.upTo,
                 previous |-> P]
<1>1. /\ writing' = writing \ {w}
      /\ UNCHANGED <<exists, used, next, msg, emptied, crossed>>
  BY DEF SaveLatestSummary
<1>2. PlacesInv /\ c \in Chats /\ w.upTo \in Ids /\ w.says \in Content
      /\ DraftInv(w)
  BY DEF HistoryInv, PlacesInv, DraftsInv
<1>3. DraftsInv'
  BY <1>1, SameDraft DEF HistoryInv, DraftsInv
<1>4. CASE latest' = latest
  <2>1. PlacesInv'
    BY <1>1, <1>2, <1>4 DEF PlacesInv, Live
  <2>2. SummariesInv'
    BY <1>1, <1>4, SameSummary DEF HistoryInv, SummariesInv
  <2> QED
    BY <1>3, <2>1, <2>2 DEF HistoryInv
<1>5. CASE latest' /= latest
  <2>1. /\ c \in exists /\ w.upTo \in Live
        /\ s /= NoSummary => ~IsStale(w, s)
        /\ latest' = [latest EXCEPT ![c] = t]
    BY <1>5 DEF SaveLatestSummary
  <2>2. P \subseteq older
    BY DEF Shortened
  <2>3. ASSUME NEW d \in older
        PROVE  /\ s \in Summary /\ d \in Kept(s) /\ d \in Cut
               /\ d.upTo < w.upTo
               /\ Sound(c, d) /\ Current(c, d)
               /\ c \notin emptied => d.upTo \in Live
    <3>1. s \in Summary /\ s /= NoSummary
      BY <1>2, <2>3 DEF PlacesInv
    <3>2. d \in Kept(s)
      BY <2>3, <3>1 DEF Kept
    <3>3. SummaryInv(c, s)
      BY <1>2, <3>1 DEF HistoryInv, SummariesInv
    <3> HIDE DEF s, c
    <3>4. d \in Cut /\ d.upTo \in Int /\ s.upTo \in Int /\ w.upTo \in Int
      BY <1>2, <3>1, <3>2, KeptIn, CutParts, SummaryParts, MessagesAssumption
         DEF Ids
    <3>5. s.upTo < w.upTo
      BY <2>1, <3>1, SavedReachesFurther DEF s, c
    <3>6. d.upTo <= s.upTo
      BY <3>1, <3>2, <3>3, <3>4, KeptIn DEF SummaryInv
    <3> QED
      BY <3>1, <3>2, <3>3, <3>4, <3>5, <3>6 DEF SummaryInv
  <2> HIDE DEF P
  <2>4. t.upTo = w.upTo /\ t.says = w.says /\ t.time = w.upTo
        /\ t.previous = P
    OBVIOUS
  <2>5. P \in SUBSET Cut
    BY <2>2, <2>3
  <2>6. t \in Summary
    BY <1>2, <2>5 DEF Summary
  <2> HIDE DEF older, t, s
  <2>7. SummaryInv(c, t)
    <3>1. t.time >= t.upTo
      BY <1>2, <2>4, MessagesAssumption DEF Ids
    <3>2. \A d \in t.previous : d.upTo < t.upTo
      BY <2>2, <2>3, <2>4
    <3>3. Sound(c, w) /\ Current(c, w)
      BY <1>2, <2>1 DEF DraftInv
    <3>4. ASSUME NEW d \in Kept(t)
          PROVE  /\ Sound(c, d) /\ Current(c, d)
                 /\ c \notin emptied => d.upTo \in Live
      <4>1. CASE d = [upTo |-> t.upTo, says |-> t.says]
        <5>1. d.upTo = w.upTo /\ d.says = w.says
          BY <2>4, <4>1
        <5> QED
          BY <1>2, <2>1, <3>3, <5>1, CutIsSound
      <4>2. CASE d \in t.previous
        BY <2>2, <2>3, <2>4, <4>2
      <4> QED
        BY <4>1, <4>2 DEF Kept
    <3> QED
      BY <2>1, <2>4, <3>1, <3>2, <3>4 DEF SummaryInv
  <2> HIDE DEF c
  <2>8. \A d \in Chats : latest'[d] = IF d = c THEN t ELSE latest[d]
    BY <1>2, <2>1 DEF PlacesInv
  <2>9. PlacesInv'
    <3>1. latest' \in [Chats -> Summary \cup {NoSummary}]
      BY <1>2, <2>1, <2>6 DEF PlacesInv
    <3>2. \A d \in Chats : latest'[d] = NoSummary \/ d \in exists'
      BY <1>1, <1>2, <2>1, <2>8 DEF PlacesInv
    <3> QED
      BY <1>1, <1>2, <3>1, <3>2 DEF PlacesInv, Live
  <2>10. SummariesInv'
    BY <1>1, <2>7, <2>8, SameSummary DEF HistoryInv, SummariesInv
  <2> QED
    BY <1>3, <2>9, <2>10 DEF HistoryInv
<1> QED
  BY <1>4, <1>5

LEMMA FailsHistory ==
  ASSUME HistoryInv, NEW w \in writing, SummaryFails(w)
  PROVE  HistoryInv'
<1>1. /\ writing' = writing \ {w}
      /\ UNCHANGED <<exists, used, next, msg, latest, emptied, crossed>>
  BY DEF SummaryFails
<1>2. PlacesInv'
  BY <1>1 DEF HistoryInv, PlacesInv, Live
<1>3. Unmoved /\ next <= next'
  BY <1>1, MessagesAssumption DEF Unmoved, HistoryInv, PlacesInv
<1> QED
  BY <1>1, <1>2, <1>3, HistoryStays

----------------------------------------------------------------------------
(* Branches and forks.                                                     *)

\* The copies take the numbers from next on, in the order of the originals.
LEMMA CopyOfType ==
  ASSUME NEW I \in SUBSET Ids, next \in 1 .. MaxMessages + 1,
         next + Cardinality(I) <= MaxMessages + 1
  PROVE  /\ Cardinality(I) \in Nat
         /\ \A j \in I : /\ CopyOf(I, j) \in Ids
                         /\ next <= CopyOf(I, j)
                         /\ CopyOf(I, j) < next + Cardinality(I)
<1>1. IsFiniteSet(I)
  <2>1. IsFiniteSet(Ids)
    BY FS_Interval, MessagesAssumption DEF Ids
  <2> QED
    BY <2>1, FS_Subset
<1>2. Cardinality(I) \in Nat
  BY <1>1, FS_CardinalityType
<1>3. ASSUME NEW j \in I
      PROVE  /\ CopyOf(I, j) \in Ids
             /\ next <= CopyOf(I, j)
             /\ CopyOf(I, j) < next + Cardinality(I)
  <2> DEFINE B == {h \in I : h < j}
  <2>1. B \in SUBSET I /\ j \notin B
    <3>1. j \in Int
      BY MessagesAssumption DEF Ids
    <3> QED
      BY <3>1
  <2>2. CopyOf(I, j) = next + Cardinality(B)
    BY DEF CopyOf
  <2> HIDE DEF B
  <2>3. /\ IsFiniteSet(B) /\ Cardinality(B) <= Cardinality(I)
        /\ Cardinality(B) = Cardinality(I) => B = I
    BY <1>1, <2>1, FS_Subset, Zenon
  <2>4. Cardinality(B) \in Nat /\ Cardinality(B) /= Cardinality(I)
    BY <2>1, <2>3, FS_CardinalityType
  <2> QED
    BY <1>2, <2>2, <2>3, <2>4, MessagesAssumption DEF Ids
<1> QED
  BY <1>2, <1>3

LEMMA CopyOfGrows ==
  ASSUME NEW I \in SUBSET Ids, next \in Int,
         NEW j \in I, NEW k \in I, j < k
  PROVE  CopyOf(I, j) < CopyOf(I, k)
<1> DEFINE B(m) == {h \in I : h < m}
<1>1. \A h \in I : h \in Int
  BY MessagesAssumption DEF Ids
<1>2. B(j) \in SUBSET B(k) /\ j \in B(k) /\ j \notin B(j)
  <2>1. ASSUME NEW h \in I, h < j
        PROVE  h < k
    BY <1>1, <2>1
  <2>2. ~(j < j)
    BY <1>1
  <2> QED
    BY <2>1, <2>2
<1>3. IsFiniteSet(B(k))
  <2>1. IsFiniteSet(Ids)
    BY FS_Interval, MessagesAssumption DEF Ids
  <2>2. B(k) \in SUBSET Ids
    OBVIOUS
  <2> HIDE DEF B
  <2> QED
    BY <2>1, <2>2, FS_Subset
<1>4. CopyOf(I, j) = next + Cardinality(B(j))
      /\ CopyOf(I, k) = next + Cardinality(B(k))
  BY DEF CopyOf
<1> HIDE DEF B
<1>5. /\ IsFiniteSet(B(j)) /\ Cardinality(B(j)) <= Cardinality(B(k))
      /\ Cardinality(B(k)) = Cardinality(B(j)) => B(k) = B(j)
  BY <1>2, <1>3, FS_Subset
<1>6. Cardinality(B(j)) \in Nat /\ Cardinality(B(k)) \in Nat
  BY <1>3, <1>5, FS_CardinalityType
<1>7. Cardinality(B(k)) /= Cardinality(B(j))
  BY <1>2, <1>5
<1> QED
  BY <1>4, <1>5, <1>6, <1>7

LEMMA CopyOfOrders ==
  ASSUME NEW I \in SUBSET Ids, next \in 1 .. MaxMessages + 1,
         next + Cardinality(I) <= MaxMessages + 1
  PROVE  \A j, k \in I : /\ j <= k <=> CopyOf(I, j) <= CopyOf(I, k)
                         /\ j < k => CopyOf(I, j) < CopyOf(I, k)
                         /\ CopyOf(I, j) = CopyOf(I, k) => j = k
<1> SUFFICES ASSUME NEW j \in I, NEW k \in I
             PROVE  /\ j <= k <=> CopyOf(I, j) <= CopyOf(I, k)
                    /\ j < k => CopyOf(I, j) < CopyOf(I, k)
                    /\ CopyOf(I, j) = CopyOf(I, k) => j = k
  OBVIOUS
<1>1. j \in Int /\ k \in Int /\ next \in Int
  BY MessagesAssumption DEF Ids
<1>2. CopyOf(I, j) \in Int /\ CopyOf(I, k) \in Int
  <2>1. CopyOf(I, j) \in Ids /\ CopyOf(I, k) \in Ids
    BY CopyOfType
  <2> QED
    BY <2>1, MessagesAssumption DEF Ids
<1>3. /\ j < k => CopyOf(I, j) < CopyOf(I, k)
      /\ k < j => CopyOf(I, k) < CopyOf(I, j)
  BY <1>1, CopyOfGrows
<1> QED
  BY <1>1, <1>2, <1>3

LEMMA OriginalOf ==
  ASSUME NEW I \in SUBSET Ids, next \in 1 .. MaxMessages + 1,
         next + Cardinality(I) <= MaxMessages + 1, NEW j \in I
  PROVE  Original(I, CopyOf(I, j)) = j
<1>1. \A h \in I : CopyOf(I, h) = CopyOf(I, j) => h = j
  BY CopyOfOrders
<1> QED
  BY <1>1 DEF Original

\* What becomes of the messages when b starts with copies of some of c.
LEMMA CopiesStep ==
  ASSUME Inv, HistoryInv, NEW c \in Chats, NEW I \in SUBSET Of(c),
         NEW b \in Chats, NEW keep, StartWithCopies(I, b, keep)
  PROVE  /\ I \in SUBSET Ids /\ b \notin exists /\ b \notin used
         /\ next + Cardinality(I) <= MaxMessages + 1
         /\ next' = next + Cardinality(I)
         /\ next <= next' /\ next' \in 1 .. MaxMessages + 1
         /\ exists' = exists \cup {b} /\ used' = used \cup {b}
         /\ \A k \in Ids : k \notin Copies(I) => msg'[k] = msg[k]
         /\ \A j \in I : /\ CopyOf(I, j) \in Ids
                         /\ next <= CopyOf(I, j) /\ CopyOf(I, j) < next'
                         /\ msg'[CopyOf(I, j)].chat = b
                         /\ msg'[CopyOf(I, j)].text = msg[j].text
                         /\ msg[j].role /= "assistant" =>
                                msg'[CopyOf(I, j)].role /= "assistant"
                         /\ j \in crossed => CopyOf(I, j) \in crossed'
         /\ crossed \subseteq crossed' /\ crossed' \subseteq Ids
         /\ writing' = writing /\ emptied' = emptied
<1>1. /\ I \in SUBSET Ids /\ PlacesInv /\ next \in 1 .. MaxMessages + 1
      /\ next \in Int
  BY MessagesAssumption DEF Of, HistoryInv, PlacesInv
<1>2. /\ b \notin used /\ next + Cardinality(I) <= MaxMessages + 1
      /\ next' = next + Cardinality(I)
      /\ exists' = exists \cup {b} /\ used' = used \cup {b}
      /\ msg' = [k \in Ids |->
                   IF k \in Copies(I)
                   THEN CopyMessage(Original(I, k), b, keep[Original(I, k)])
                   ELSE msg[k]]
      /\ crossed' = crossed \cup {CopyOf(I, j) : j \in I \cap crossed}
      /\ writing' = writing /\ emptied' = emptied
  BY DEF StartWithCopies
<1>3. /\ Cardinality(I) \in Nat
      /\ \A j \in I : /\ CopyOf(I, j) \in Ids
                      /\ next <= CopyOf(I, j)
                      /\ CopyOf(I, j) < next + Cardinality(I)
  BY <1>1, <1>2, CopyOfType
<1>4. next <= next' /\ next' \in 1 .. MaxMessages + 1
  BY <1>1, <1>2, <1>3, MessagesAssumption
<1>5. ASSUME NEW j \in I
      PROVE  /\ msg'[CopyOf(I, j)].chat = b
             /\ msg'[CopyOf(I, j)].text = msg[j].text
             /\ msg[j].role /= "assistant" =>
                    msg'[CopyOf(I, j)].role /= "assistant"
             /\ j \in crossed => CopyOf(I, j) \in crossed'
  <2>1. CopyOf(I, j) \in Copies(I) /\ CopyOf(I, j) \in Ids
    BY <1>3 DEF Copies
  <2>2. Original(I, CopyOf(I, j)) = j
    BY <1>1, <1>2, OriginalOf
  <2>3. msg'[CopyOf(I, j)] = CopyMessage(j, b, keep[j])
    BY <1>2, <2>1, <2>2
  <2>4. msg[j] \in Message
    BY <1>1 DEF Inv, MessagesInv
  <2>5. /\ CopyMessage(j, b, keep[j]).chat = b
        /\ CopyMessage(j, b, keep[j]).text = msg[j].text
        /\ CopyMessage(j, b, keep[j]).role =
               IF msg[j].role = "hidden" THEN "user" ELSE msg[j].role
    BY <2>4 DEF CopyMessage, Message
  <2> QED
    BY <1>2, <2>3, <2>5
<1>6. crossed' \subseteq Ids /\ b \notin exists
  BY <1>1, <1>2, <1>3 DEF PlacesInv, Inv, SharesInv
<1> QED
  BY <1>1, <1>2, <1>3, <1>4, <1>5, <1>6

\* The copy of a cut speaks of the copies as the cut does of the originals.
LEMMA CopyCutIsTrue ==
  ASSUME Inv, HistoryInv, NEW c \in Chats, NEW I \in SUBSET Of(c),
         NEW b \in Chats, NEW keep, StartWithCopies(I, b, keep),
         NEW e, Sound(c, e), Current(c, e), e.upTo \in I,
         NEW f, f = CopyCut(I, e)
  PROVE  /\ f \in Cut /\ Sound(b, f)' /\ Current(b, f)' /\ f.upTo \in Live'
<1>1. /\ I \in SUBSET Ids /\ b \notin exists
      /\ next \in 1 .. MaxMessages + 1
      /\ next + Cardinality(I) <= MaxMessages + 1
      /\ \A k \in Ids : k \notin Copies(I) => msg'[k] = msg[k]
      /\ \A j \in I : /\ CopyOf(I, j) \in Ids /\ CopyOf(I, j) < next'
                      /\ msg'[CopyOf(I, j)].chat = b
                      /\ msg'[CopyOf(I, j)].text = msg[j].text
                      /\ msg[j].role /= "assistant" =>
                             msg'[CopyOf(I, j)].role /= "assistant"
                      /\ j \in crossed => CopyOf(I, j) \in crossed'
  BY CopiesStep DEF HistoryInv, PlacesInv
<1>2. /\ f.upTo = CopyOf(I, e.upTo)
      /\ f.says = {<<CopyOf(I, p[1]), p[2]>> :
                      p \in {q \in e.says : q[1] \in I}}
  BY DEF CopyCut
<1>3. \A j \in I : CopyOf(I, j) \in Live'
  <2>1. Blank.chat /= b
    BY ChatsAssumption DEF Blank
  <2> QED
    BY <1>1, <2>1 DEF Live
<1>4. \A j \in I : j \in Live /\ j \in Of(c)
  BY OfLive
<1>5. ASSUME NEW p \in f.says
      PROVE  \E q \in e.says : /\ q[1] \in I /\ p = <<CopyOf(I, q[1]), q[2]>>
                               /\ p[1] = CopyOf(I, q[1]) /\ p[2] = q[2]
  BY <1>2
<1>6. ASSUME NEW q \in e.says, q[1] \in I
      PROVE  <<CopyOf(I, q[1]), q[2]>> \in f.says
  BY <1>2, <1>6
<1>7. \A k \in Said(f) : \E j \in I \cap Said(e) : k = CopyOf(I, j)
  BY <1>5 DEF Said
<1>8. \A j \in I \cap Said(e) : CopyOf(I, j) \in Said(f)
  <2> SUFFICES ASSUME NEW j \in I, j \in Said(e)
               PROVE  CopyOf(I, j) \in Said(f)
    OBVIOUS
  <2>1. PICK q \in e.says : j = q[1]
    BY DEF Said
  <2>2. <<CopyOf(I, j), q[2]>> \in f.says
    BY <1>6, <2>1
  <2>3. <<CopyOf(I, j), q[2]>>[1] = CopyOf(I, j)
    OBVIOUS
  <2> QED
    BY <2>2, <2>3, SaidIn
<1>9. f.says \in Content
  <2>1. \A q \in e.says : q[2] \in 0 .. MaxEdits
    BY DEF Sound, Placed, Content
  <2>2. \A p \in f.says : p \in Ids \X (0 .. MaxEdits)
    BY <1>1, <1>5, <2>1
  <2> QED
    BY <2>2 DEF Content
<1>10. f \in Cut
  <2>1. f.upTo \in Ids
    BY <1>1, <1>2
  <2>2. f = [upTo |-> f.upTo, says |-> f.says]
    BY DEF CopyCut
  <2> QED
    BY <1>9, <2>1, <2>2 DEF Cut
<1>11. Placed(f)'
  <2>1. \A k \in Said(f) : k < next'
    BY <1>1, <1>7
  <2> QED
    BY <1>1, <1>2, <1>9, <2>1 DEF Placed, Said
<1>12. CutoffStays(b, f)'
  <2>1. msg[e.upTo].role /= "assistant"
    BY <1>4 DEF Sound, CutoffStays
  <2> QED
    BY <1>1, <1>2, <2>1 DEF CutoffStays, Of
<1>13. Covers(b, f)'
  <2> SUFFICES ASSUME NEW k \in Ids
               PROVE  k \in Said(f) <=> msg'[k].chat = b /\ k <= f.upTo
    BY DEF Covers, Live, Of, Said
  <2>1. ASSUME NEW j \in I
        PROVE  /\ j \in Said(e) <=> j <= e.upTo
               /\ j <= e.upTo <=> CopyOf(I, j) <= f.upTo
    <3>1. j \in Said(e) <=> j <= e.upTo
      BY <1>4 DEF Sound, Covers
    <3>2. j <= e.upTo <=> CopyOf(I, j) <= CopyOf(I, e.upTo)
      BY <1>1, CopyOfOrders
    <3> QED
      BY <1>2, <3>1, <3>2
  <2>2. ASSUME k \in Said(f)
        PROVE  msg'[k].chat = b /\ k <= f.upTo
    BY <1>1, <1>7, <2>1, <2>2
  <2>3. ASSUME msg'[k].chat = b, k <= f.upTo
        PROVE  k \in Said(f)
    <3>1. msg[k].chat /= b
      BY <1>1, OfLive DEF HistoryInv, PlacesInv, Of
    <3>2. k \in Copies(I)
      BY <1>1, <2>3, <3>1
    <3>3. PICK j \in I : k = CopyOf(I, j)
      BY <3>2 DEF Copies
    <3> QED
      BY <1>8, <2>1, <2>3, <3>3
  <2> QED
    BY <2>2, <2>3
<1>14. Current(b, f)'
  <2>1. Worded(f)'
    <3> SUFFICES ASSUME NEW p \in f.says
                 PROVE  p[1] \in crossed' \/ p[2] = msg'[p[1]].text
      BY DEF Worded
    <3>1. PICK q \in e.says : /\ q[1] \in I
                              /\ p[1] = CopyOf(I, q[1]) /\ p[2] = q[2]
      BY <1>5
    <3>2. q[1] \in crossed \/ q[2] = msg[q[1]].text
      BY <1>4, <3>1 DEF Current, Worded
    <3> QED
      BY <1>1, <3>1, <3>2
  <2>2. Said(f) \subseteq Live'
    BY <1>3, <1>7
  <2> QED
    BY <2>1, <2>2 DEF Current, Said
<1> QED
  BY <1>2, <1>3, <1>10, <1>11, <1>12, <1>13, <1>14 DEF Sound

LEMMA CopiedSummaryIsTrue ==
  ASSUME Inv, HistoryInv, NEW c \in Chats, NEW I \in SUBSET Of(c),
         NEW b \in Chats, NEW keep, StartWithCopies(I, b, keep),
         NEW s \in Summary, SummaryInv(c, s), s.upTo \in I,
         NEW t, t = CopyChatSummary(I, s)
  PROVE  t \in Summary /\ SummaryInv(b, t)'
<1>1. Sound(c, s) /\ Current(c, s)
  <2> DEFINE d == [upTo |-> s.upTo, says |-> s.says]
  <2>1. d \in Kept(s)
    BY DEF Kept
  <2>2. Sound(c, d) /\ Current(c, d)
    BY <2>1 DEF SummaryInv
  <2>3. d.upTo = s.upTo /\ d.says = s.says
    OBVIOUS
  <2> HIDE DEF d
  <2> QED
    BY <2>2, <2>3, CutIsSound
<1>2. PICK P : P = {CopyCut(I, d) : d \in {e \in s.previous : e.upTo \in I}}
  OBVIOUS
<1>3. PICK f : f = CopyCut(I, s)
  OBVIOUS
<1>4. t = [upTo |-> f.upTo, says |-> f.says, time |-> 0, previous |-> P]
  BY <1>2, <1>3 DEF CopyChatSummary
<1>5. f = [upTo |-> f.upTo, says |-> f.says] /\ f.upTo = CopyOf(I, s.upTo)
  BY <1>3 DEF CopyCut
<1>6. /\ f \in Cut /\ Sound(b, f)' /\ Current(b, f)' /\ f.upTo \in Live'
  BY <1>1, <1>3, CopyCutIsTrue
<1>7. ASSUME NEW g \in P
      PROVE  /\ g \in Cut /\ Sound(b, g)' /\ Current(b, g)'
             /\ g.upTo \in Live' /\ g.upTo < f.upTo
  <2>1. PICK d \in s.previous : d.upTo \in I /\ g = CopyCut(I, d)
    BY <1>2
  <2>2. Sound(c, d) /\ Current(c, d) /\ d.upTo < s.upTo
    BY DEF SummaryInv, Kept
  <2>3. g.upTo = CopyOf(I, d.upTo)
    BY <2>1 DEF CopyCut
  <2>4. /\ I \in SUBSET Ids /\ next \in 1 .. MaxMessages + 1
        /\ next + Cardinality(I) <= MaxMessages + 1
    BY CopiesStep DEF HistoryInv, PlacesInv
  <2>5. g.upTo < f.upTo
    BY <1>5, <2>1, <2>2, <2>3, <2>4, CopyOfOrders
  <2> QED
    BY <2>1, <2>2, <2>5, CopyCutIsTrue
<1>8. t.upTo = f.upTo /\ t.says = f.says /\ t.time = 0 /\ t.previous = P
  BY <1>4
<1>9. t \in Summary
  <2>1. P \in SUBSET Cut /\ f.upTo \in Ids /\ f.says \in Content
    BY <1>6, <1>7, CutParts
  <2> QED
    BY <1>4, <2>1 DEF Summary
<1>10. \A g \in Kept(t) : g = f \/ g \in P
  BY <1>5, <1>8 DEF Kept
<1>11. SummaryInv(b, t)'
  <2>1. \A g \in Kept(t) : /\ Sound(b, g)' /\ Current(b, g)'
                           /\ g.upTo \in Live'
    BY <1>6, <1>7, <1>10
  <2>2. Kept(t)' = Kept(t)
    BY DEF Kept
  <2>3. /\ t.time = 0 /\ \A g \in t.previous : g.upTo < t.upTo
        /\ t.upTo \in Live'
    BY <1>6, <1>7, <1>8
  <2> QED
    BY <2>1, <2>2, <2>3 DEF SummaryInv
<1> QED
  BY <1>9, <1>11

LEMMA CopiesHistory ==
  ASSUME Inv, HistoryInv, NEW c \in Chats, NEW I \in SUBSET Of(c),
         NEW b \in Chats, NEW keep, StartWithCopies(I, b, keep),
         \/ latest' = latest
         \/ latest' = [latest EXCEPT ![b] = CopyChatSummary(I, latest[c])]
  PROVE  HistoryInv'
<1>1. /\ I \in SUBSET Ids /\ b \notin exists /\ b \notin used
      /\ next <= next' /\ next' \in 1 .. MaxMessages + 1
      /\ exists' = exists \cup {b} /\ used' = used \cup {b}
      /\ \A k \in Ids : k \notin Copies(I) => msg'[k] = msg[k]
      /\ \A j \in I : /\ CopyOf(I, j) \in Ids
                      /\ next <= CopyOf(I, j) /\ CopyOf(I, j) < next'
                      /\ msg'[CopyOf(I, j)].chat = b
      /\ crossed \subseteq crossed' /\ crossed' \subseteq Ids
      /\ writing' = writing /\ emptied' = emptied
  BY CopiesStep
<1>2. /\ PlacesInv /\ DraftsInv /\ next \in Int /\ next' \in Int
      /\ \A k \in Ids : k \in Int
  BY <1>1, MessagesAssumption DEF HistoryInv, PlacesInv, Ids
<1>3. Unmoved
  <2>1. \A k \in Copies(I) : next <= k
    BY <1>1 DEF Copies
  <2>2. \A k \in Ids : k < next => k \notin Copies(I)
    BY <1>2, <2>1
  <2> QED
    BY <1>1, <2>2 DEF Unmoved
<1>4. /\ \A d \in Chats : \A s \in Summary :
             SummaryInv(d, s) => SummaryInv(d, s)'
      /\ \A w \in writing : DraftInv(w)'
  BY <1>1, <1>2, <1>3, UnmovedKeeps
<1>5. ASSUME NEW s \in Summary, latest'[b] = s
      PROVE  /\ SummaryInv(b, s)'
             /\ latest' = [latest EXCEPT ![b] = s]
  <2>1. latest[b] = NoSummary /\ s /= NoSummary
    BY <1>1, <1>2, SummaryParts DEF PlacesInv
  <2>2. /\ latest' = [latest EXCEPT ![b] = s]
        /\ s = CopyChatSummary(I, latest[c])
    BY <1>2, <1>5, <2>1 DEF PlacesInv
  <2>3. latest[c].upTo \in I
    BY <2>1, <2>2 DEF CopyChatSummary
  <2>4. latest[c] \in Summary
    <3>1. NoSummary.upTo \notin Ids
      BY MessagesAssumption DEF NoSummary, Ids
    <3> QED
      BY <1>1, <1>2, <2>3, <3>1 DEF PlacesInv
  <2>5. SummaryInv(c, latest[c])
    BY <2>4 DEF HistoryInv, SummariesInv
  <2> QED
    BY <2>2, <2>3, <2>4, <2>5, CopiedSummaryIsTrue
<1>6. latest'[b] \in Summary \cup {NoSummary}
  <2>1. CASE latest' = latest
    BY <1>2, <2>1 DEF PlacesInv
  <2>2. CASE latest' = [latest EXCEPT ![b] = CopyChatSummary(I, latest[c])]
    <3>1. latest'[b] = CopyChatSummary(I, latest[c])
      BY <1>2, <2>2 DEF PlacesInv
    <3>2. CASE latest[c].upTo \notin I
      BY <3>1, <3>2 DEF CopyChatSummary
    <3>3. CASE latest[c].upTo \in I
      <4>1. NoSummary.upTo \notin Ids
        BY MessagesAssumption DEF NoSummary, Ids
      <4>2. latest[c] \in Summary
        BY <1>1, <1>2, <3>3, <4>1 DEF PlacesInv
      <4>3. SummaryInv(c, latest[c])
        BY <4>2 DEF HistoryInv, SummariesInv
      <4> QED
        BY <3>1, <3>3, <4>2, <4>3, CopiedSummaryIsTrue
    <3> QED
      BY <3>2, <3>3
  <2> QED
    BY <2>1, <2>2
<1>7. \A d \in Chats : d /= b => latest'[d] = latest[d]
  BY <1>2 DEF PlacesInv
<1>8. PlacesInv'
  <2>1. ASSUME NEW k \in Ids, msg'[k] /= Blank
        PROVE  k < next' /\ msg'[k].chat \in exists'
    <3>1. CASE k \in Copies(I)
      BY <1>1, <3>1 DEF Copies
    <3>2. CASE k \notin Copies(I)
      <4>1. k < next /\ msg[k].chat \in exists
        BY <1>1, <1>2, <2>1, <3>2 DEF PlacesInv, Live
      <4> QED
        BY <1>1, <1>2, <3>2, <4>1
    <3> QED
      BY <3>1, <3>2
  <2>2. latest' \in [Chats -> Summary \cup {NoSummary}]
    <3>1. latest' = [d \in Chats |-> latest'[d]]
      BY <1>2 DEF PlacesInv
    <3>2. \A d \in Chats : latest'[d] \in Summary \cup {NoSummary}
      BY <1>2, <1>6, <1>7 DEF PlacesInv
    <3> QED
      BY <3>1, <3>2
  <2>3. \A d \in Chats : latest'[d] = NoSummary \/ d \in exists'
    BY <1>1, <1>2, <1>7 DEF PlacesInv
  <2> QED
    BY <1>1, <1>2, <2>1, <2>2, <2>3 DEF PlacesInv, Live
<1>9. SummariesInv'
  <2> SUFFICES ASSUME NEW d \in Chats, NEW s \in Summary, latest'[d] = s
               PROVE  SummaryInv(d, s)'
    BY DEF SummariesInv
  <2>1. CASE d = b
    BY <1>5, <2>1
  <2>2. CASE d /= b
    BY <1>4, <1>7, <2>2 DEF HistoryInv, SummariesInv
  <2> QED
    BY <2>1, <2>2
<1>10. DraftsInv'
  BY <1>1, <1>4 DEF DraftsInv
<1> QED
  BY <1>8, <1>9, <1>10 DEF HistoryInv

LEMMA BranchHistory ==
  ASSUME Inv, HistoryInv, NEW i \in Ids, NEW b \in Chats, BranchChat(i, b)
  PROVE  HistoryInv'
<1> DEFINE c == msg[i].chat
           I == {j \in Of(c) : j <= i}
           keep == [j \in Ids |-> msg[j].files]
<1>1. /\ StartWithCopies(I, b, keep) /\ c \in exists
      /\ latest' = [latest EXCEPT ![b] = CopyChatSummary(I, latest[c])]
  BY DEF BranchChat, VerifyChatOwnership
<1>2. c \in Chats /\ I \in SUBSET Of(c)
  BY <1>1 DEF Inv, SharesInv
<1> HIDE DEF c, I, keep
<1> QED
  BY <1>1, <1>2, CopiesHistory

LEMMA ForkHistory ==
  ASSUME Inv, HistoryInv, NEW c \in Chats, NEW b \in Chats,
         ForkSharedChat(c, b)
  PROVE  HistoryInv'
<1> DEFINE keep == [j \in Ids |-> {}]
<1>1. StartWithCopies(Frozen(c), b, keep) /\ latest' = latest
  BY DEF ForkSharedChat
<1>2. Frozen(c) \in SUBSET Of(c)
  BY DEF Frozen
<1> HIDE DEF keep
<1> QED
  BY <1>1, <1>2, CopiesHistory

----------------------------------------------------------------------------
(* The steps, for the summaries.                                           *)

LEMMA InitHistory == Init => HistoryInv
<1> SUFFICES ASSUME Init PROVE HistoryInv
  OBVIOUS
<1>1. Live = {}
  BY DEF Init, Live
<1>2. PlacesInv
  BY <1>1, MessagesAssumption DEF Init, PlacesInv
<1>3. SummariesInv
  BY SummaryParts DEF Init, SummariesInv
<1>4. DraftsInv
  BY DEF Init, DraftsInv
<1> QED
  BY <1>2, <1>3, <1>4 DEF HistoryInv

LEMMA NextHistory == Inv /\ HistoryInv /\ [Next]_vars => HistoryInv'
<1> SUFFICES ASSUME Inv, HistoryInv, [Next]_vars PROVE HistoryInv'
  OBVIOUS
<1>1. MessagesInv /\ SharesInv
  BY DEF Inv
<1>2. ASSUME UNCHANGED <<exists, used, next, msg, latest, writing, emptied,
                         crossed>>
      PROVE  HistoryInv'
  BY <1>2, TouchHistory
<1>3. ASSUME NEW c \in Chats, SaveChat(c)
      PROVE  HistoryInv'
  BY <1>3, SaveChatHistory
<1>4. ASSUME NEW c \in Chats, DeleteLastAssistantMessage(c)
      PROVE  HistoryInv'
  BY <1>1, <1>4, DeleteLastHistory
<1>5. ASSUME NEW c \in Chats, ShareChat(c)
      PROVE  HistoryInv'
  BY <1>1, <1>5, ShareHistory
<1>6. ASSUME NEW c \in Chats, UnshareChat(c)
      PROVE  HistoryInv'
  BY <1>2, <1>6 DEF UnshareChat
<1>7. ASSUME NEW c \in Chats, DeleteChat(c)
      PROVE  HistoryInv'
  BY <1>1, <1>7, DeleteChatHistory
<1>8. ASSUME NEW c \in Chats, DeleteNextUserChatBatch(c)
      PROVE  HistoryInv'
  BY <1>1, <1>8, DeleteNextHistory
<1>9. ASSUME NEW c \in Chats, NEW role \in Roles, NEW F \in SUBSET Files,
             SaveMessage(c, role, F)
      PROVE  HistoryInv'
  BY <1>1, <1>9, SaveMessageHistory
<1>10. ASSUME NEW c \in Chats, NEW i \in Ids, StartSummary(c, i)
       PROVE  HistoryInv'
  BY <1>1, <1>10, StartHistory
<1>11. ASSUME NEW c \in Chats, NEW b \in Chats, ForkSharedChat(c, b)
       PROVE  HistoryInv'
  BY <1>11, ForkHistory
<1>12. ASSUME NEW i \in Ids, NEW F \in SUBSET Files, PatchMessage(i, F)
       PROVE  HistoryInv'
  BY <1>1, <1>12, PatchHistory
<1>13. ASSUME NEW i \in Ids, NEW F \in SUBSET Files,
              RegenerateWithNewContent(i, F)
       PROVE  HistoryInv'
  BY <1>13, RegenerateHistory
<1>14. ASSUME NEW i \in Ids, NEW b \in Chats, BranchChat(i, b)
       PROVE  HistoryInv'
  BY <1>14, BranchHistory
<1>15. ASSUME NEW w \in writing, SaveLatestSummary(w)
       PROVE  HistoryInv'
  BY <1>15, SaveHistory
<1>16. ASSUME NEW w \in writing, SummaryFails(w)
       PROVE  HistoryInv'
  BY <1>16, FailsHistory
<1>17. ASSUME UnshareAllChats
       PROVE  HistoryInv'
  BY <1>2, <1>17 DEF UnshareAllChats
<1>18. ASSUME DeleteAllUserData
       PROVE  HistoryInv'
  BY <1>1, <1>18, DeleteAllHistory
<1>19. ASSUME UNCHANGED chatVars
       PROVE  HistoryInv'
  BY <1>2, <1>19 DEF chatVars
<1>20. ASSUME UNCHANGED vars
       PROVE  HistoryInv'
  BY <1>19, <1>20 DEF vars
<1> QED
  BY <1>3, <1>4, <1>5, <1>6, <1>7, <1>8, <1>9, <1>10, <1>11, <1>12, <1>13,
     <1>14, <1>15, <1>16, <1>17, <1>18, <1>19, <1>20 DEF Next

LEMMA HistoryInvariance == Spec => [](Inv /\ HistoryInv)
<1>1. Init => Inv /\ HistoryInv
  BY InitInv, InitHistory
<1>2. Inv /\ HistoryInv /\ [Next]_vars => (Inv /\ HistoryInv)'
  BY NextInv, NextHistory
<1> QED
  BY <1>1, <1>2, PTL DEF Spec

----------------------------------------------------------------------------
(* The theorems.                                                           *)

\* The values of all variables: every message and summary belongs to a chat that
\* exists, whatever deletions, branches and late saves did.
THEOREM TypeCorrect == Spec => []TypeOK
<1>1. Inv /\ HistoryInv => TypeOK
  BY DEF Inv, HistoryInv, PlacesInv, FilesInv, MessagesInv, SharesInv, TypeOK,
         Live
<1> QED
  BY <1>1, HistoryInvariance, PTL

\* The summary that the model is told in place of the older messages says
\* neither more nor less than those messages, through invalidations, fallbacks
\* to a previous summary, copies into a branch and late saves.
THEOREM SummaryCorrect == Spec => []SummaryIsTrue
<1>1. Inv /\ HistoryInv => SummaryIsTrue
  <2> SUFFICES ASSUME Inv, HistoryInv,
                      NEW c \in exists \ emptied, latest[c] /= NoSummary
               PROVE  /\ latest[c].upTo \in Of(c)
                      /\ Said(latest[c]) = {i \in Of(c) : i <= latest[c].upTo}
                      /\ \A p \in latest[c].says :
                             p[1] \in crossed \/ p[2] = msg[p[1]].text
                      /\ Before(latest[c].previous, latest[c].upTo)
                             = latest[c].previous
    BY DEF SummaryIsTrue
  <2> DEFINE s == latest[c]
             d == [upTo |-> s.upTo, says |-> s.says]
  <2>1. c \in Chats /\ s \in Summary
    BY DEF Inv, SharesInv, HistoryInv, PlacesInv
  <2>2. SummaryInv(c, s)
    BY <2>1 DEF HistoryInv, SummariesInv
  <2>3. d \in Kept(s) /\ d.upTo = s.upTo /\ d.says = s.says
    BY DEF Kept
  <2> HIDE DEF d, s
  <2>4. Sound(c, s) /\ Current(c, s) /\ s.upTo \in Live
    BY <2>1, <2>2, <2>3, CutIsSound DEF SummaryInv
  <2>5. s.upTo \in Of(c) /\ Said(s) \subseteq Live
    BY <2>4 DEF Sound, CutoffStays, Current
  <2>6. Said(s) = {i \in Of(c) : i <= s.upTo}
    BY <2>1, <2>4, <2>5, OfLive DEF Sound, Covers
  <2>7. \A p \in s.says : p[1] \in crossed \/ p[2] = msg[p[1]].text
    BY <2>4, <2>5 DEF Current, Worded, Said
  <2>8. Before(s.previous, s.upTo) = s.previous
    BY <2>2 DEF SummaryInv, Before
  <2> QED
    BY <2>5, <2>6, <2>7, <2>8 DEF s
<1> QED
  BY <1>1, HistoryInvariance, PTL

\* Whichever operations delete files, the aggregate equals what the rows take
\* up and stays within the quota.
THEOREM Accounted == Spec => []FilesAccounted
<1>1. Inv => FilesAccounted
  BY DEF Inv, FilesInv
<1> QED
  BY <1>1, Invariance, PTL

\* A shared chat shows nothing newer than its share.
THEOREM SharesFrozen == Spec => []SharedIsFrozen
<1>1. Inv => SharedIsFrozen
  BY DEF Inv, SharesInv, SharedIsFrozen
<1> QED
  BY <1>1, Invariance, PTL

\* The purge takes no file of a message, copied or not.
THEOREM PurgeSpares == Spec => PurgeSparesSentFiles
<1>1. Inv /\ [Next]_vars =>
          (PurgeExpiredUnattachedFiles =>
               FilesOf(Live) \cap rows \subseteq rows')
  BY DEF Inv, MessagesInv, PurgeExpiredUnattachedFiles, Expired, FilesOf, Live
<1>2. Inv /\ [Next]_vars =>
          [PurgeExpiredUnattachedFiles =>
               FilesOf(Live) \cap rows \subseteq rows']_vars
  BY <1>1
<1> QED
  BY <1>2, Invariance, PTL DEF Spec, PurgeSparesSentFiles

\* Deleting a chat takes no file of an original message that stays.
THEOREM DeletionSpares == Spec => DeletionSparesOriginals
<1> DEFINE A == (\E c \in Chats : DeleteChat(c) \/ DeleteNextUserChatBatch(c))
                =>
                \A i \in Live : msg'[i] = msg[i] /\ ~msg[i].copy =>
                    msg[i].files \cap rows \subseteq rows'
<1>1. Inv /\ [Next]_vars => A
  <2> SUFFICES ASSUME Inv, NEW c \in Chats,
                      DeleteChat(c) \/ DeleteNextUserChatBatch(c),
                      NEW i \in Live, msg'[i] = msg[i], ~msg[i].copy
               PROVE  msg[i].files \cap rows \subseteq rows'
    OBVIOUS
  <2>1. ASSUME NEW I \in SUBSET Ids, RemoveFiles(OwnFiles(I)),
               msg' = Without(I)
        PROVE  msg[i].files \cap rows \subseteq rows'
    <3>1. rows' = rows \ OwnFiles(I)
      BY <2>1, RemoveKeepsFiles DEF Inv
    <3>2. i \notin I
      BY <2>1 DEF Without, Live
    <3>3. msg[i].files \cap OwnFiles(I) = {}
      BY <2>1, <3>2 DEF Inv, MessagesInv, OwnFiles, FilesOf, Live
    <3> QED
      BY <3>1, <3>3
  <2>2. CASE DeleteChat(c)
    BY <2>1, <2>2 DEF DeleteChat, Of
  <2>3. CASE DeleteNextUserChatBatch(c)
    <3>1. CASE Of(c) /= {}
      BY <2>1, <2>3, <3>1 DEF DeleteNextUserChatBatch, Oldest, Of
    <3>2. CASE Of(c) = {}
      BY <2>3, <3>2 DEF DeleteNextUserChatBatch, fileVars
    <3> QED
      BY <3>1, <3>2
  <2> QED
    BY <2>2, <2>3
<1>2. Inv /\ [Next]_vars => [A]_vars
  BY <1>1
<1> QED
  BY <1>2, Invariance, PTL DEF Spec, DeletionSparesOriginals

\* Equal wordings are of the same messages with the same texts.
LEMMA SameWording ==
  ASSUME NEW c \in Chats, Wording(Of(c)) = Wording(Of(c))', NEW i \in Of(c)
  PROVE  msg'[i].chat = c /\ msg'[i].text = msg[i].text
<1>1. <<i, msg[i].text>> \in Wording(Of(c))
  BY DEF Wording
<1>2. Wording(Of(c))' = {<<j, msg'[j].text>> : j \in Of(c)'}
  BY DEF Wording
<1>3. PICK j \in Of(c)' : <<i, msg[i].text>> = <<j, msg'[j].text>>
  BY <1>1, <1>2
<1> QED
  BY <1>3 DEF Of

\* saveLatestSummary never puts a late summary in the place of one that reaches
\* further, as long as the messages of the chat stay.
THEOREM SummaryAdvance == Spec => SummaryAdvances
<1> DEFINE A == \A c \in exists \ emptied :
                    latest[c] /= NoSummary
                        /\ Wording(Of(c)) = Wording(Of(c))'
                    => latest'[c].upTo >= latest[c].upTo
<1>1. Inv /\ HistoryInv /\ [Next]_vars => A
  <2> SUFFICES ASSUME Inv, HistoryInv, [Next]_vars,
                      NEW c \in exists \ emptied, latest[c] /= NoSummary,
                      Wording(Of(c)) = Wording(Of(c))'
               PROVE  latest'[c].upTo >= latest[c].upTo
    OBVIOUS
  <2>1. /\ c \in Chats /\ PlacesInv /\ latest[c] \in Summary
        /\ \A i \in Ids : msg[i] \in Message
    BY DEF Inv, SharesInv, MessagesInv, HistoryInv, PlacesInv
  <2>2. latest[c].upTo \in Int
    BY <2>1, SummaryParts
  <2>3. latest[c].upTo \in Of(c)
    <3> DEFINE d == [upTo |-> latest[c].upTo, says |-> latest[c].says]
    <3>1. SummaryInv(c, latest[c])
      BY <2>1 DEF HistoryInv, SummariesInv
    <3>2. d \in Kept(latest[c]) /\ d.upTo = latest[c].upTo
      BY DEF Kept
    <3>3. d.upTo \in Live /\ Sound(c, d)
      BY <3>1, <3>2 DEF SummaryInv
    <3> HIDE DEF d
    <3> QED
      BY <3>2, <3>3 DEF Sound, CutoffStays
  <2>4. \A i \in Of(c) : /\ msg'[i].chat = c /\ msg'[i].text = msg[i].text
                         /\ i \in Ids /\ msg'[i] /= Blank
    <3>1. Blank.chat /= c
      BY <2>1, ChatsAssumption DEF Blank
    <3> QED
      BY <2>1, <3>1, SameWording DEF Of
  <2>5. ASSUME latest'[c] = latest[c]
        PROVE  latest'[c].upTo >= latest[c].upTo
    BY <2>2, <2>5
  <2>6. ASSUME NEW d \in Chats, DeleteLastAssistantMessage(d)
        PROVE  latest'[c] = latest[c]
    <3>1. CASE d = c
      <4>1. PICK i \in Trailing(c) : i \in Of(c)
        BY <2>6, <3>1 DEF DeleteLastAssistantMessage, Trailing
      <4>2. msg'[i] = Blank
        BY <2>4, <2>6, <3>1, <4>1 DEF DeleteLastAssistantMessage, Without
      <4> QED
        BY <2>4, <4>1, <4>2
    <3>2. CASE d /= c
      BY <2>1, <2>6, <3>2 DEF DeleteLastAssistantMessage, PlacesInv
    <3> QED
      BY <3>1, <3>2
  <2>7. ASSUME NEW i \in Ids, NEW K \in SUBSET Files,
               RegenerateWithNewContent(i, K)
        PROVE  latest'[c] = latest[c]
    <3> DEFINE later == {j \in Of(msg[i].chat) : j > i}
    <3>1. CASE msg[i].chat = c
      <4>1. i \in Of(c) /\ i \notin later
        BY <3>1, MessagesAssumption DEF Of, Ids
      <4>2. Without(later)[i] = msg[i] /\ msg[i] \in Message
        BY <2>1, <4>1 DEF Without
      <4>3. msg'[i] = Edited(msg[i], K)
        BY <2>7, <4>2 DEF RegenerateWithNewContent, Without
      <4>4. Edited(msg[i], K).text = msg[i].text + 1
        BY <4>2 DEF Edited, Message
      <4>5. msg[i].text \in Int
        BY <4>2, EditsAssumption DEF Message
      <4> QED
        BY <2>4, <4>1, <4>3, <4>4, <4>5
    <3>2. CASE msg[i].chat /= c
      BY <2>1, <2>7, <3>2 DEF RegenerateWithNewContent, PlacesInv
    <3> QED
      BY <3>1, <3>2
  <2>8. ASSUME NEW i \in Ids, NEW b \in Chats, BranchChat(i, b)
        PROVE  latest'[c] = latest[c]
    <3>1. b \notin exists
      BY <2>8 DEF BranchChat, StartWithCopies, Inv, SharesInv
    <3> QED
      BY <2>1, <2>8, <3>1 DEF BranchChat, PlacesInv
  <2>9. ASSUME NEW w \in writing, SaveLatestSummary(w)
        PROVE  latest'[c].upTo >= latest[c].upTo
    <3>1. CASE latest'[c] = latest[c]
      BY <2>5, <3>1
    <3>2. CASE latest'[c] /= latest[c]
      <4>1. w.chat = c /\ w.upTo \in Live /\ ~IsStale(w, latest[c])
        BY <2>1, <2>9, <3>2 DEF SaveLatestSummary, PlacesInv
      <4>2. latest'[c].upTo = w.upTo
        BY <2>1, <2>9, <3>2, <4>1 DEF SaveLatestSummary, PlacesInv
      <4>3. latest[c].upTo < w.upTo /\ w.upTo \in Int
        <5>1. latest[c].upTo < w.upTo
          BY <2>1, <4>1, SavedReachesFurther
        <5>2. w.upTo \in Int
          BY <2>1, MessagesAssumption DEF PlacesInv, Ids
        <5> QED
          BY <5>1, <5>2
      <4> QED
        BY <2>2, <4>2, <4>3
    <3> QED
      BY <3>1, <3>2
  <2>10. ASSUME NEW d \in Chats, DeleteChat(d)
         PROVE  latest'[c] = latest[c]
    <3>1. CASE d = c
      BY <2>3, <2>4, <2>10, <3>1 DEF DeleteChat, Without
    <3>2. CASE d /= c
      BY <2>1, <2>10, <3>2 DEF DeleteChat, PlacesInv
    <3> QED
      BY <3>1, <3>2
  <2>11. ASSUME NEW d \in Chats, DeleteNextUserChatBatch(d)
         PROVE  latest'[c] = latest[c]
    BY <2>1, <2>3, <2>11 DEF DeleteNextUserChatBatch, PlacesInv
  <2>12. ASSUME DeleteAllUserData
         PROVE  FALSE
    BY <2>1, <2>3, <2>4, <2>12, OfLive DEF DeleteAllUserData, Without
  <2>13. CASE UNCHANGED latest
    BY <2>5, <2>13
  <2>14. CASE Next
    <3>1. ASSUME NEW d \in Chats,
                 \/ SaveChat(d) \/ ShareChat(d) \/ UnshareChat(d)
                 \/ \E role \in Roles, F \in SUBSET Files :
                        SaveMessage(d, role, F)
                 \/ \E i \in Ids : StartSummary(d, i)
                 \/ \E b \in Chats : ForkSharedChat(d, b)
          PROVE  UNCHANGED latest
      BY <3>1 DEF SaveChat, ShareChat, UnshareChat, SaveMessage, StartSummary,
                  ForkSharedChat
    <3>2. ASSUME NEW i \in Ids, NEW F \in SUBSET Files, PatchMessage(i, F)
          PROVE  UNCHANGED latest
      BY <3>2 DEF PatchMessage
    <3>3. ASSUME \/ \E w \in writing : SummaryFails(w)
                 \/ UnshareAllChats \/ UNCHANGED chatVars
          PROVE  UNCHANGED latest
      BY <3>3 DEF SummaryFails, UnshareAllChats, chatVars
    <3> QED
      BY <2>5, <2>6, <2>7, <2>8, <2>9, <2>10, <2>11, <2>12, <2>13, <2>14,
         <3>1, <3>2, <3>3 DEF Next
  <2>15. CASE UNCHANGED vars
    BY <2>13, <2>15 DEF vars, chatVars
  <2> QED
    BY <2>14, <2>15
<1>2. Inv /\ HistoryInv /\ [Next]_vars => [A]_vars
  BY <1>1
<1> QED
  BY <1>2, HistoryInvariance, PTL DEF Spec, SummaryAdvances

=============================================================================
