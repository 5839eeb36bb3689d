---- MODULE Intake ----
(***************************************************************************)
(* The files of the one-call endpoint POST /extract/pdf: a request checks  *)
(* its files, writes them below a directory of its own and commits the     *)
(* rows; indexing tasks, re-runs, deletions and the daily retention sweep  *)
(* go on beside it.  Each request has its own tenant, so that a request    *)
(* names its directory too, and a file is <<request, place>>.              *)
(*                                                                         *)
(* An upload is [pdf, size, known]: whether it looks like a PDF, its size, *)
(* and whether the size is known before it is read.                        *)
(***************************************************************************)
EXTENDS Integers, FiniteSets, FiniteSetsExt, Sequences

CONSTANTS
    Requests,
    Uploads,       \* of each request, a sequence of uploads
    MaxFiles,      \* max_pdfs_per_request
    PerFile,       \* max_upload_size_mb
    Total          \* max_upload_total_mb

ASSUME IntakeAssumption ==
    /\ {MaxFiles, PerFile, Total} \subseteq Nat
    /\ \A r \in Requests : Uploads[r] \in Seq([pdf : BOOLEAN, size : Nat, known : BOOLEAN])

VARIABLES
    pc,            \* of a request
    dirs,          \* the tenants' directories on disk
    disk, old,     \* the files on disk, and those older than upload_retention_days
    rows,          \* the committed Document rows, which name their files
    index,         \* the documents with an indexing task in the queue
    ended,         \* the documents whose indexing task has ended
    status,        \* ocr_status
    job,           \* the status of a request's job
    read,          \* the documents whose values come from their text
    sweep          \* the paths the sweep has still to look at

vars == <<pc, dirs, disk, old, rows, index, ended, status, job, read, sweep>>
files == <<dirs, disk, old>>

Files(r) == {<<r, n>> : n \in DOMAIN Uploads[r]}
AllFiles == UNION {Files(r) : r \in Requests}
In(r) == {f \in disk : f[1] = r}
Written(r) == Cardinality(In(r))
Answered == {"accepted", "refused", "failed", "unavailable"}

----------------------------------------------------------------------------
(* extract_pdf *)

\* Before anything is written; sizes that are not known do not count.
Acceptable(r) ==
    LET known == {n \in DOMAIN Uploads[r] : Uploads[r][n].known}
    IN /\ Uploads[r] # <<>> /\ Len(Uploads[r]) <= MaxFiles
       /\ \A n \in DOMAIN Uploads[r] : Uploads[r][n].pdf
       /\ \A n \in known : Uploads[r][n].size <= PerFile
       /\ MapThenSumSet(LAMBDA n : Uploads[r][n].size, known) <= Total

Validate(r) ==
    /\ pc[r] = "start"
    /\ pc' = [pc EXCEPT ![r] = IF Acceptable(r) THEN "mkdir" ELSE "refused"]
    /\ UNCHANGED <<files, rows, index, ended, status, job, read, sweep>>

MakeDir(r) ==
    /\ pc[r] = "mkdir"
    /\ dirs' = dirs \cup {r}
    /\ pc' = [pc EXCEPT ![r] = "write"]
    /\ UNCHANGED <<disk, old, rows, index, ended, status, job, read, sweep>>

\* The next file.  Its directory may be gone; it may be too large after all, and then it
\* is unlinked, the ones before it stay, and the transaction is rolled back.  The task is
\* published at once, unless the broker refuses it, which is only logged.
WriteFile(r) ==
    LET n == Written(r) + 1
    IN /\ pc[r] = "write" /\ n \in DOMAIN Uploads[r]
       /\ \/ r \notin dirs /\ pc' = [pc EXCEPT ![r] = "failed"] /\ UNCHANGED <<disk, index>>
          \/ r \in dirs /\ Uploads[r][n].size > PerFile /\ pc' = [pc EXCEPT ![r] = "refused"] /\ UNCHANGED <<disk, index>>
          \/ /\ r \in dirs /\ Uploads[r][n].size <= PerFile
             /\ disk' = disk \cup {<<r, n>>}
             /\ index' \in {index, index \cup {<<r, n>>}}
             /\ UNCHANGED pc
       /\ UNCHANGED <<dirs, old, rows, ended, status, job, read, sweep>>

CommitRows(r) ==
    /\ pc[r] = "write" /\ Written(r) = Len(Uploads[r])
    /\ rows' = rows \cup Files(r)
    /\ status' = [f \in AllFiles |-> IF f \in Files(r) THEN "pending" ELSE status[f]]
    /\ job' = [job EXCEPT ![r] = "queued"]
    /\ pc' = [pc EXCEPT ![r] = "dispatch"]
    /\ UNCHANGED <<files, index, ended, read, sweep>>

\* The job is published, or it fails and its directory is removed while the rows stay.
Dispatch(r) ==
    /\ pc[r] = "dispatch"
    /\ \/ pc' = [pc EXCEPT ![r] = "accepted"] /\ UNCHANGED <<files, job>>
       \/ /\ pc' = [pc EXCEPT ![r] = "unavailable"]
          /\ job' = [job EXCEPT ![r] = "failed"]
          /\ dirs' = dirs \ {r} /\ disk' = disk \ In(r) /\ old' = old \ In(r)
    /\ UNCHANGED <<rows, index, ended, status, read, sweep>>

----------------------------------------------------------------------------
(* The other users of rows and files *)

\* The worker runs the job, or a later request for the same tenant: all values are wiped
\* and filled again from the files that are there.  Extraction has what happens between.
Extract(r) ==
    /\ \/ pc[r] = "accepted" /\ job[r] = "queued"
       \/ pc[r] \in {"accepted", "unavailable"} /\ job[r] \in {"complete", "failed"}
    /\ LET docs == rows \cap Files(r)
       IN /\ read' = (read \ docs) \cup (docs \cap disk)
          /\ status' = [f \in AllFiles |-> IF f \in docs THEN "complete" ELSE status[f]]
    /\ job' = [job EXCEPT ![r] = "complete"]
    /\ UNCHANGED <<pc, files, rows, index, ended, sweep>>

\* index_document_sync.  A row that is not committed yet, or not any more, is not found;
\* for one that is found the first call to the store raises, for no store has a
\* has_document, and the task is not retried for that.
IndexDocument(f) ==
    /\ f \in index
    /\ index' = index \ {f}
    /\ ended' = ended \cup {f}
    /\ UNCHANGED <<pc, files, rows, status, job, read, sweep>>

\* delete_document: the file, then the row.
DeleteDocument(f) ==
    /\ f \in rows
    /\ disk' = disk \ {f} /\ old' = old \ {f}
    /\ rows' = rows \ {f} /\ read' = read \ {f}
    /\ UNCHANGED <<pc, dirs, index, ended, status, job, sweep>>

----------------------------------------------------------------------------
(* Retention *)

\* upload_retention_days pass, in which every request is answered.
Age ==
    /\ \A r \in Requests : pc[r] \in Answered \cup {"start"}
    /\ old # disk
    /\ old' = disk
    /\ UNCHANGED <<pc, dirs, disk, rows, index, ended, status, job, read, sweep>>

\* Mutant of Listing: what is in the directories is not listed.
TopLevel == dirs

\* rglob
Listing == disk \cup dirs

SweepStart ==
    /\ sweep = {} /\ Listing # {}
    /\ sweep' = Listing
    /\ UNCHANGED <<pc, files, rows, index, ended, status, job, read>>

\* Mutant of SweptAway: a directory goes with all that is in it.
SweptWithDirectory(p) == IF p \in Requests THEN In(p) ELSE {p} \cap old

\* The files that go when a path is looked at: an old one itself.
SweptAway(p) == {p} \cap old

\* Mutant of Emptied: a directory goes whatever is left in it.
RemovedAnyway(p) == p \in Requests

\* A directory goes if it is empty, whoever has just made it.
Emptied(p) == p \in Requests /\ In(p) \ SweptAway(p) = {}

\* The deepest paths first.
SweepPath(p) ==
    /\ p \in sweep
    /\ p \in Requests => sweep \subseteq Requests
    /\ disk' = disk \ SweptAway(p) /\ old' = old \ SweptAway(p)
    /\ dirs' = IF Emptied(p) THEN dirs \ {p} ELSE dirs
    /\ sweep' = sweep \ {p}
    /\ UNCHANGED <<pc, rows, index, ended, status, job, read>>

----------------------------------------------------------------------------

Init ==
    /\ pc = [r \in Requests |-> "start"]
    /\ dirs = {} /\ disk = {} /\ old = {}
    /\ rows = {} /\ index = {} /\ ended = {}
    /\ status = [f \in AllFiles |-> "none"]
    /\ job = [r \in Requests |-> "none"]
    /\ read = {}
    /\ sweep = {}

Handle(r) == Validate(r) \/ MakeDir(r) \/ WriteFile(r) \/ CommitRows(r) \/ Dispatch(r)
Retention == SweepStart \/ \E p \in sweep : SweepPath(p)

Next ==
    \/ \E r \in Requests : Handle(r) \/ Extract(r)
    \/ \E f \in index : IndexDocument(f)
    \/ \E f \in rows : DeleteDocument(f)
    \/ Age \/ Retention

Spec == Init /\ [][Next]_vars

\* Requests are answered, time passes, and beat starts the sweep every day.
FairSpec == Spec /\ WF_vars(Retention) /\ WF_vars(Age) /\ \A r \in Requests : WF_vars(Handle(r))

----------------------------------------------------------------------------
(* Correctness *)

\* Every variable keeps its type; what is on disk is in a directory, what is old is on
\* disk, and what was read has a row.
TypeOK ==
    /\ pc \in [Requests -> Answered \cup {"start", "mkdir", "write", "dispatch"}]
    /\ dirs \subseteq Requests /\ disk \subseteq AllFiles /\ old \subseteq disk
    /\ \A f \in disk : f[1] \in dirs
    /\ read \subseteq rows /\ rows \subseteq AllFiles /\ index \subseteq AllFiles
    /\ status \in [AllFiles -> {"none", "pending", "complete"}]
    /\ job \in [Requests -> {"none", "queued", "complete", "failed"}]

\* A job is published with the files of all its documents in place, whatever retention did
\* while they were written, and then a file is not lost before its time: only the deletion of
\* its document, a job that could not be published, and retention take it, and retention
\* neither before its days nor with a directory it finds empty (tasks.py:104-139,
\* extract_pdf.py:246-316).
FreshFilesAreKept ==
    /\ [](\A r \in Requests : pc[r] = "dispatch" => rows \cap Files(r) \subseteq disk)
    /\ [][\A f \in rows \cap disk :
            \/ f \in disk' \/ f \in old \/ f \notin rows' \/ job'[f[1]] = "failed"]_vars

\* Files that no row refers to, as a request leaves them that is refused midway or a
\* deletion that overtakes nothing else, do not stay for ever (config.py:73-76).
OrphansAreCollected ==
    \A f \in AllFiles :
      (f \in disk /\ f \notin rows /\ pc[f[1]] \in Answered) ~> (f \notin disk)

\* "on document upload, OCR the PDF and index every clause into the vector store",
\* doc_indexer.py:1-2, and what fails is logged and marked: when its task has ended, a
\* document is indexed or failed, or an extraction has read it since.
IndexedOrFailed ==
    \A f \in ended \cap rows : status[f] # "pending"
====
