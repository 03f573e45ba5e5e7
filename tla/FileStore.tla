----------------------------- MODULE FileStore -----------------------------
(***************************************************************************)
(* The files of one user: the stored objects, the rows of the files table  *)
(* that describe them, and the aggregate that counts the rows' bytes       *)
(* against the storage quota. A file is uploaded first and described       *)
(* afterwards; the hourly purge removes what no message ever took up.      *)
(*                                                                         *)
(* Every file has the same size, which is the unit of the quota.           *)
(***************************************************************************)
EXTENDS Integers, FiniteSets

CONSTANTS
    Files,  \* the objects the user, or the agent for the user, may upload
    Quota   \* MAX_STORAGE_BYTES, in files

ASSUME FilesAssumption == IsFiniteSet(Files)
ASSUME QuotaAssumption == Quota \in Nat

VARIABLES
    upload,    \* how far the upload of a file has come
    blobs,     \* the objects in Convex storage
    rows,      \* the files that have a row
    attached,  \* rows with is_attached: some message refers to the file
    old,       \* rows that the purge's cutoff of 24 hours has passed
    counted    \* fileCountAggregate: the sum of the rows' sizes

fileVars == <<upload, blobs, rows, attached, old, counted>>

FileStoreInit ==
    /\ upload = [f \in Files |-> "none"]
    /\ blobs = {}
    /\ rows = {}
    /\ attached = {}
    /\ old = {}
    /\ counted = 0

----------------------------------------------------------------------------

\* generateUploadUrl finds the limiter willing, and the client posts the object.
Upload(f) ==
    /\ upload[f] = "none"
    /\ upload' = [upload EXCEPT ![f] = "uploaded"]
    /\ blobs' = blobs \cup {f}
    /\ UNCHANGED <<rows, attached, old, counted>>

\* Mutant of WithinQuota: the new file itself is not counted.
BelowQuota == counted <= Quota

WithinQuota == counted + 1 <= Quota

\* saveFile asks the limiter again, which has no slot left when this upload, or
\* another one admitted with it, took the last. The object stays.
SaveFileRateLimited(f) ==
    /\ upload[f] = "uploaded"
    /\ upload' = [upload EXCEPT ![f] = "refused"]
    /\ UNCHANGED <<blobs, rows, attached, old, counted>>

\* saveFileToDb: the check, the row and the aggregate are one transaction.
SaveFile(f) ==
    /\ upload[f] = "uploaded"
    /\ f \in blobs
    /\ WithinQuota
    /\ upload' = [upload EXCEPT ![f] = "saved"]
    /\ rows' = rows \cup {f}
    /\ counted' = counted + 1
    /\ UNCHANGED <<blobs, attached, old>>

\* The quota is used up: only the agent's artifacts are cleaned up, the object
\* of a user's upload stays.
SaveFileOverQuota(f) ==
    /\ upload[f] = "uploaded"
    /\ f \in blobs
    /\ ~WithinQuota
    /\ upload' = [upload EXCEPT ![f] = "refused"]
    /\ blobs' \in {blobs, blobs \ {f}}
    /\ UNCHANGED <<rows, attached, old, counted>>

\* Too large, too many tokens or unreadable: the object is deleted, and a
\* failure to do so is only logged.
SaveFileRejected(f) ==
    /\ upload[f] = "uploaded"
    /\ f \in blobs
    /\ upload' = [upload EXCEPT ![f] = "refused"]
    /\ blobs' \in {blobs, blobs \ {f}}
    /\ UNCHANGED <<rows, attached, old, counted>>

\* Removes the rows and objects of S; a row whose object is missing stays,
\* because the storage throws and the loop goes on.
RemoveFiles(S) ==
    LET gone == S \cap rows \cap blobs
    IN  /\ rows' = rows \ gone
        /\ blobs' = blobs \ gone
        /\ attached' = attached \ gone
        /\ old' = old \ gone
        /\ counted' = counted - Cardinality(gone)
        /\ UNCHANGED <<upload>>

\* The message that refers to the files S is saved.
AttachFiles(S) ==
    /\ attached' = attached \cup S
    /\ UNCHANGED <<upload, blobs, rows, old, counted>>

\* The user takes a file out of the composer. The call may arrive when a
\* message with the file has been sent after all.
DeleteFile(f) ==
    /\ f \in rows
    /\ RemoveFiles({f})

\* A day passes for the row of f.
AgeFile(f) ==
    /\ f \in rows \ old
    /\ old' = old \cup {f}
    /\ UNCHANGED <<upload, blobs, rows, attached, counted>>

Expired == (rows \cap old) \ attached

\* Mutant of PurgeExpiredUnattachedFiles: the attached flag is not asked.
PurgeExpiredFiles ==
    /\ rows \cap old /= {}
    /\ RemoveFiles(rows \cap old)

\* A batch of the hourly purge. Unlike the other deletions it drops the row
\* even when the object could not be deleted.
PurgeExpiredUnattachedFiles ==
    /\ Expired /= {}
    /\ rows' = rows \ Expired
    /\ blobs' = blobs \ Expired
    /\ old' = old \ Expired
    /\ counted' = counted - Cardinality(Expired)
    /\ UNCHANGED <<upload, attached>>

FileMoves ==
    \/ \E f \in Files :
           \/ Upload(f) \/ SaveFile(f) \/ SaveFileOverQuota(f)
           \/ SaveFileRejected(f) \/ SaveFileRateLimited(f)
           \/ DeleteFile(f) \/ AgeFile(f)
    \/ PurgeExpiredUnattachedFiles

----------------------------------------------------------------------------

FileStoreTypeOK ==
    /\ upload \in [Files -> {"none", "uploaded", "saved", "refused"}]
    /\ blobs \subseteq Files
    /\ rows \subseteq Files
    /\ attached \subseteq Files
    /\ old \subseteq Files
    /\ counted \in Int

\* The aggregate equals what the rows take up, so the quota is neither passed
\* by uploads that are saved together nor used up by files that six different
\* operations have deleted since; and no row outlives its object.
FilesAccounted ==
    /\ counted = Cardinality(rows)
    /\ counted <= Quota
    /\ attached \cup old \subseteq rows
    /\ rows \subseteq blobs

=============================================================================
