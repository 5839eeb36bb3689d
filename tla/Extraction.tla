---- MODULE Extraction ----
(***************************************************************************)
(* The extraction of one tenant's documents: the API routes that create    *)
(* ExtractionJob rows, the broker's queue, the worker threads that run     *)
(* extract_tenant_task, the database rows they share, and the hourly       *)
(* stale-job sweeper.                                                      *)
(*                                                                         *)
(* A step is one committed database transaction of one actor, except that  *)
(* _persist_field_value (DELETE, then INSERT and COMMIT) and the sweeper   *)
(* (SELECT, then COMMIT) are split where another actor can come between.   *)
(* A worker's SQLAlchemy session is "poisoned" once a flush or a statement *)
(* has failed: nothing in app/ rolls it back, so every later use of it     *)
(* raises until the task closes it.                                        *)
(***************************************************************************)
EXTENDS Naturals, FiniteSets

CONSTANTS
    Workers,      \* threads of the worker process (worker_concurrency)
    Jobs,         \* ids of ExtractionJob rows
    Docs,         \* ids of Document rows, in document_order
    Fields,       \* field ids of the BRD playbooks, in the specialists' order
    JobFields,    \* job -> the field sets that versions of its schema select, {} for none
    MaxRetries,   \* max_retries of extract_tenant_task
    MaxFaults,    \* bound: failures of the environment in one behaviour
    RedFlagged,   \* jobs whose reconciliation report has red flags
    AuditCheck    \* the database has ck_audit_action (made by schema.sql)

ASSUME OrderAssumption == Docs \subseteq Nat /\ Fields \subseteq Nat
ASSUME FiniteAssumption == IsFiniteSet(Docs) /\ IsFiniteSet(Fields)
ASSUME SchemaAssumption == JobFields \in [Jobs -> SUBSET (SUBSET Fields)]
ASSUME BoundAssumption ==
    /\ MaxRetries \in Nat /\ MaxFaults \in Nat /\ AuditCheck \in BOOLEAN
    /\ RedFlagged \subseteq Jobs

VARIABLES
    \* extraction_jobs
    status, total, completed, progress,
    \* documents.ocr_status, field_values rows, jobs that logged red flags
    ocr, rows, flagged,
    \* the broker, the sweeper's selection, the jobs it found older than the TTL
    queue, sweep, old,
    \* one task execution per worker thread
    pc, msg, sess, exc, snap, stale, want, todo, item, clash,
    \* history: rows this run committed; two executions have overlapped; those that
    \* did had the same documents and fields
    saved, overlap, alike,
    \* failures of the environment so far, at most MaxFaults
    faults

jobVars == <<status, total, completed, progress>>
docVars == <<ocr, rows, flagged>>
sysVars == <<queue, sweep, old, faults, overlap, alike>>
runVars == <<snap, stale, want, todo, item, clash, saved>>
vars == <<jobVars, docVars, sysVars, pc, msg, sess, exc, runVars>>

Pairs == Fields \X Docs
Messages == [job : Jobs, retries : 0..MaxRetries]
NoMessage == [job |-> "none"]
NoPair == <<>>

Statuses == {"none", "queued", "running", "complete", "failed"}
Terminal == {"complete", "failed"}
LiveStatus == {"pending", "ocr_in_progress", "complete", "failed"}
Places == {"idle", "load", "empty", "wipe", "start", "loop", "insert", "bump",
           "flags", "complete", "fail", "faildocs", "raise", "ack"}

Present == {d \in Docs : ocr[d] \in LiveStatus}
MyJob(w) == msg[w].job
\* A document of the run was deleted since the run read the tenant.
DocsGone(w) == ~(snap[w] \subseteq Present)

\* Mutant of Before: a thread pool over the fields.
NoOrder(p, q) == TRUE

\* The order of the coordinator's loops: field by field, each over the documents.
Before(p, q) == p[1] < q[1] \/ (p[1] = q[1] /\ p[2] < q[2])

Goto(w, place) == pc' = [pc EXCEPT ![w] = place]
Poison(w) == sess' = [sess EXCEPT ![w] = "poisoned"]
Fault == faults < MaxFaults /\ faults' = faults + 1

----------------------------------------------------------------------------
(* The API *)

\* POST /tenants/{id}/documents, as far as extraction sees it.
UploadDocument(d) ==
    /\ ocr[d] = "none"
    /\ ocr' = [ocr EXCEPT ![d] = "pending"]
    /\ UNCHANGED <<jobVars, rows, flagged, sysVars, pc, msg, sess, exc, runVars>>

\* DELETE /tenants/{id}/documents/{doc}: the row goes, its field values cascade.
DeleteDocument(d) ==
    /\ d \in Present
    /\ ocr' = [ocr EXCEPT ![d] = "deleted"]
    /\ rows' = {p \in rows : p[2] # d}
    /\ UNCHANGED <<jobVars, flagged, sysVars, pc, msg, sess, exc, runVars>>

\* POST /tenants/{id}/extract.  The commit comes before .delay(): if the broker
\* refuses, the request ends in a 500 and the row stays queued with no message.
\* Nothing looks for another job of the tenant.  The route takes no schema.
TriggerExtraction(j) ==
    /\ status[j] = "none"
    /\ JobFields[j] = {}
    /\ Present # {}
    /\ status' = [status EXCEPT ![j] = "queued"]
    /\ \/ /\ queue' = queue \cup {[job |-> j, retries |-> 0]}
          /\ UNCHANGED faults
       \/ /\ Fault
          /\ UNCHANGED queue
    /\ UNCHANGED <<total, completed, progress, docVars, sweep, old, overlap, alike,
                   pc, msg, sess, exc, runVars>>

\* POST /extract/pdf creates the tenant, its documents D and the job at once;
\* when the broker refuses, the job is marked failed and a 503 returned.
ExtractPdf(j, D) ==
    /\ \A k \in Jobs : status[k] = "none"
    /\ \A d \in Docs : ocr[d] = "none"
    /\ D # {}
    /\ ocr' = [d \in Docs |-> IF d \in D THEN "pending" ELSE "none"]
    /\ \/ /\ status' = [status EXCEPT ![j] = "queued"]
          /\ queue' = queue \cup {[job |-> j, retries |-> 0]}
          /\ UNCHANGED faults
       \/ /\ Fault
          /\ status' = [status EXCEPT ![j] = "failed"]
          /\ UNCHANGED queue
    /\ UNCHANGED <<total, completed, progress, rows, flagged, sweep, old, overlap, alike,
                   pc, msg, sess, exc, runVars>>

----------------------------------------------------------------------------
(* The broker and the worker process *)

\* A free thread takes a message; with acks_late it stays unacknowledged.
Receive(w, m) ==
    /\ pc[w] = "idle"
    /\ m \in queue
    /\ queue' = queue \ {m}
    /\ Goto(w, "load")
    /\ msg' = [msg EXCEPT ![w] = m]
    /\ sess' = [sess EXCEPT ![w] = "ok"]
    /\ overlap' = (overlap \/ \E v \in Workers \ {w} : pc[v] # "idle")
    /\ UNCHANGED <<jobVars, docVars, sweep, old, faults, alike, exc, runVars>>

\* The execution is over, one way or another: the thread forgets it.
Release(w) ==
    /\ Goto(w, "idle")
    /\ msg' = [msg EXCEPT ![w] = NoMessage]
    /\ sess' = [sess EXCEPT ![w] = "ok"]
    /\ exc' = [exc EXCEPT ![w] = "none"]
    /\ snap' = [snap EXCEPT ![w] = {}]
    /\ stale' = [stale EXCEPT ![w] = {}]
    /\ want' = [want EXCEPT ![w] = {}]
    /\ todo' = [todo EXCEPT ![w] = {}]
    /\ item' = [item EXCEPT ![w] = NoPair]
    /\ clash' = [clash EXCEPT ![w] = FALSE]
    /\ saved' = [saved EXCEPT ![w] = {}]

\* The worker dies before it acknowledged: task_reject_on_worker_lost puts the
\* message back.
WorkerLost(w) ==
    /\ pc[w] # "idle"
    /\ Fault
    /\ queue' = queue \cup {msg[w]}
    /\ Release(w)
    /\ UNCHANGED <<jobVars, docVars, sweep, old, overlap, alike>>

\* The hard time limit kills the execution; the message counts as handled.
TimeLimit(w) ==
    /\ pc[w] # "idle"
    /\ Fault
    /\ Release(w)
    /\ UNCHANGED <<jobVars, docVars, queue, sweep, old, overlap, alike>>

\* The broker gives a message that is still unacknowledged to another thread.
VisibilityTimeout(w) ==
    /\ pc[w] # "idle"
    /\ Fault
    /\ queue' = queue \cup {msg[w]}
    /\ UNCHANGED <<jobVars, docVars, sweep, old, overlap, alike, pc, msg, sess, exc, runVars>>

\* Mutant of Retried: every failure goes back to the queue.
RetriedAlways(w) == IF exc[w] # "none" THEN {msg[w]} ELSE {}

\* The message autoretry_for publishes when the task raises.
Retried(w) ==
    IF exc[w] = "retryable" /\ msg[w].retries < MaxRetries
    THEN {[msg[w] EXCEPT !.retries = @ + 1]}
    ELSE {}

\* The task returned or raised: publish the retry, then acknowledge.
Ack(w) ==
    /\ pc[w] = "ack"
    /\ queue' = queue \cup Retried(w)
    /\ Release(w)
    /\ UNCHANGED <<jobVars, docVars, sweep, old, overlap, alike, faults>>

----------------------------------------------------------------------------
(* run_extraction_for_tenant, up to the coordinator *)

\* The run reads the tenant's documents and the latest version of its schema,
\* whatever version the request saw; no schema, or one deleted since, means the
\* full BRD set.  stale: the documents whose ocr_status the run will change.
Load(w) ==
    /\ pc[w] = "load"
    /\ \E F \in JobFields[MyJob(w)] \cup {Fields} :
         want' = [want EXCEPT ![w] = IF Present = {} THEN {} ELSE F \X Present]
    /\ snap' = [snap EXCEPT ![w] = Present]
    /\ stale' = [stale EXCEPT ![w] = {d \in Present : ocr[d] # "ocr_in_progress"}]
    /\ alike' = (alike /\ \A v \in Workers \ {w} :
                            snap[v] # {} => snap[v] = Present /\ want[v] = want'[w])
    /\ Goto(w, IF Present = {} THEN "empty" ELSE "wipe")
    /\ UNCHANGED <<jobVars, docVars, queue, sweep, old, faults, overlap,
                   msg, sess, exc, todo, item, clash, saved>>

\* _complete_job(total=0, done=0): a tenant without documents.
CompleteEmpty(w) ==
    /\ pc[w] = "empty"
    /\ status' = [status EXCEPT ![MyJob(w)] = "complete"]
    /\ total' = [total EXCEPT ![MyJob(w)] = 0]
    /\ completed' = [completed EXCEPT ![MyJob(w)] = 0]
    /\ progress' = [progress EXCEPT ![MyJob(w)] = 100]
    /\ Goto(w, "ack")
    /\ UNCHANGED <<docVars, sysVars, msg, sess, exc, runVars>>

\* Mutant of Wiped: the run relies on its upserts alone.
WipedNothing(w) == {}

\* The rows the run's DELETE takes away.
Wiped(w) == {p \in rows : p[2] \in snap[w]}

\* Mark the documents and delete their field values in one transaction.  The
\* UPDATE of a document deleted meanwhile matches no row and fails the flush.
Wipe(w) ==
    /\ pc[w] = "wipe"
    /\ IF stale[w] \subseteq Present
       THEN /\ ocr' = [d \in Docs |-> IF d \in stale[w] THEN "ocr_in_progress" ELSE ocr[d]]
            /\ rows' = rows \ Wiped(w)
            \* a row that would have clashed with another run's insert is gone
            /\ clash' = [v \in Workers |->
                           clash[v] /\ ~(v # w /\ pc[v] = "insert" /\ item[v][2] \in snap[w])]
            /\ Goto(w, "start")
            /\ UNCHANGED <<sess, exc>>
       ELSE /\ Poison(w)
            /\ exc' = [exc EXCEPT ![w] = "fatal"]
            /\ Goto(w, "raise")
            /\ UNCHANGED <<ocr, rows, clash>>
    /\ UNCHANGED <<jobVars, flagged, sysVars, msg, snap, stale, want, todo, item, saved>>

\* The documents are read again for the coordinator's input (a deleted one
\* raises), _start_job marks the job running, whatever its status was, and the
\* coordinator counts the work.  OCR failures are caught per document.
Start(w) ==
    /\ pc[w] = "start"
    /\ IF DocsGone(w)
       THEN /\ exc' = [exc EXCEPT ![w] = "fatal"]
            /\ Goto(w, "raise")
            /\ UNCHANGED <<jobVars, todo>>
       ELSE /\ status' = [status EXCEPT ![MyJob(w)] = "running"]
            /\ total' = [total EXCEPT ![MyJob(w)] = 0]
            /\ completed' = [completed EXCEPT ![MyJob(w)] = 0]
            /\ progress' = [progress EXCEPT ![MyJob(w)] = 0]
            /\ todo' = [todo EXCEPT ![w] = want[w]]
            /\ Goto(w, "loop")
            /\ UNCHANGED exc
    /\ UNCHANGED <<docVars, sysVars, msg, sess, snap, stale, want, item, clash, saved>>

\* The constructor (outside the try) or Coordinator.run (inside it) raises: the
\* context or the playbooks before the loop, a post_process or the soft time
\* limit within it, the reconciliation after it.
CoordinatorRaises(w) ==
    /\ pc[w] = "loop"
    /\ Fault
    /\ \E kind \in {"retryable", "fatal"} : exc' = [exc EXCEPT ![w] = kind]
    /\ \/ Goto(w, "fail")
       \/ todo[w] = want[w] /\ Goto(w, "raise")
    /\ UNCHANGED <<jobVars, docVars, queue, sweep, old, overlap, alike, msg, sess, runVars>>

----------------------------------------------------------------------------
(* The loop: on_result persists one field of one document, on_progress bumps *)
(* the job.  The coordinator swallows what either callback raises.            *)

\* The DELETE of _persist_field_value, which no other session sees before the
\* COMMIT.
PersistDelete(w) ==
    /\ pc[w] = "loop"
    /\ sess[w] = "ok"
    /\ \E p \in todo[w] :
         /\ \A q \in todo[w] : q = p \/ Before(p, q)
         /\ item' = [item EXCEPT ![w] = p]
         /\ todo' = [todo EXCEPT ![w] = @ \ {p}]
    /\ clash' = [clash EXCEPT ![w] = FALSE]
    /\ Goto(w, "insert")
    /\ UNCHANGED <<jobVars, docVars, sysVars, msg, sess, exc, snap, stale, want, saved>>

\* Mutant of InsertFails: no foreign key (SQLite without the pragma).
InsertFailsOnClash(w) == clash[w]

\* The document is gone (foreign key), or another run inserted the same row
\* since the DELETE (uq_fv_unique).
InsertFails(w) == item[w][2] \notin Present \/ clash[w]

\* Mutant of SessionAfterError: a rollback where the exception is swallowed.
RolledBack == "ok"

\* The coordinator swallows the callback's exception and nothing rolls back.
SessionAfterError == "poisoned"

\* The INSERT and the COMMIT.
PersistInsert(w) ==
    /\ pc[w] = "insert"
    /\ IF ~InsertFails(w)
       THEN /\ rows' = rows \cup {item[w]}
            /\ saved' = [saved EXCEPT ![w] = @ \cup {item[w]}]
            /\ clash' = [v \in Workers |->
                           clash[v] \/ (v # w /\ pc[v] = "insert" /\ item[v] = item[w])]
            /\ UNCHANGED sess
       ELSE /\ sess' = [sess EXCEPT ![w] = SessionAfterError]
            /\ UNCHANGED <<rows, saved, clash>>
    /\ Goto(w, "bump")
    /\ UNCHANGED <<jobVars, ocr, flagged, sysVars, msg, exc, snap, stale, want, todo, item>>

\* The INSERT fails for another reason: a CHECK, a value that does not
\* serialise, a lost connection.
PersistFails(w) ==
    /\ pc[w] = "insert"
    /\ Fault
    /\ sess' = [sess EXCEPT ![w] = SessionAfterError]
    /\ Goto(w, "bump")
    /\ UNCHANGED <<jobVars, docVars, queue, sweep, old, overlap, alike, msg, exc, runVars>>

\* Mutant of Done: counts from one.
DoneAhead(w) == Cardinality(want[w] \ todo[w]) + 1

\* The results so far, persisted or not.
Done(w) == Cardinality(want[w] \ todo[w])

\* Mutant of CanBump: progress in a session of its own.
BumpsAnyway(w) == TRUE

\* on_progress runs in the same session as on_result.
CanBump(w) == sess[w] = "ok"

\* int(100 * done / total) of a job row that may be in any status by now.
BumpProgress(w) ==
    /\ pc[w] = "bump"
    /\ LET j == MyJob(w)
           n == Cardinality(want[w])
           done == Done(w)
       IN IF CanBump(w)
          THEN /\ completed' = [completed EXCEPT ![j] = done]
               /\ total' = [total EXCEPT ![j] = n]
               /\ progress' = [progress EXCEPT ![j] = IF n = 0 THEN 0 ELSE (100 * done) \div n]
          ELSE UNCHANGED <<completed, total, progress>>
    /\ Goto(w, "loop")
    /\ item' = [item EXCEPT ![w] = NoPair]
    /\ clash' = [clash EXCEPT ![w] = FALSE]
    /\ UNCHANGED <<status, docVars, sysVars, msg, sess, exc, snap, stale, want, todo, saved>>

----------------------------------------------------------------------------
(* After the coordinator *)

\* ocr_status of every document of the run, in one transaction; the UPDATE of
\* a deleted document fails the flush.
SetDocs(w, s) ==
    ocr' = [d \in Docs |-> IF d \in snap[w] THEN s ELSE ocr[d]]

\* Coordinator.run has returned.
MarkDocsComplete(w) ==
    /\ pc[w] = "loop"
    /\ sess[w] = "ok"
    /\ todo[w] = {}
    /\ IF ~DocsGone(w)
       THEN /\ SetDocs(w, "complete")
            /\ Goto(w, "flags")
            /\ UNCHANGED <<sess, exc>>
       ELSE /\ Poison(w)
            /\ exc' = [exc EXCEPT ![w] = "fatal"]
            /\ Goto(w, "raise")
            /\ UNCHANGED ocr
    /\ UNCHANGED <<jobVars, rows, flagged, sysVars, msg, runVars>>

\* On a poisoned session the callbacks that are left fail and are swallowed,
\* and the commit after the coordinator raises.
EndPoisoned(w) ==
    /\ pc[w] = "loop"
    /\ sess[w] = "poisoned"
    /\ exc' = [exc EXCEPT ![w] = "fatal"]
    /\ Goto(w, "raise")
    /\ UNCHANGED <<jobVars, docVars, sysVars, msg, sess, runVars>>

\* The red flags of the report, if any, go to the audit log, with an action that
\* the CHECK of schema.sql does not list.
LogRedFlags(w) ==
    /\ pc[w] = "flags"
    /\ IF MyJob(w) \in RedFlagged /\ AuditCheck
       THEN /\ Poison(w)
            /\ exc' = [exc EXCEPT ![w] = "fatal"]
            /\ Goto(w, "raise")
            /\ UNCHANGED flagged
       ELSE /\ flagged' = flagged \cup ({MyJob(w)} \cap RedFlagged)
            /\ Goto(w, "complete")
            /\ UNCHANGED <<sess, exc>>
    /\ UNCHANGED <<jobVars, ocr, rows, sysVars, msg, runVars>>

\* _complete_job(total=None, done=None): complete, whatever the status was.
CompleteJob(w) ==
    /\ pc[w] = "complete"
    /\ status' = [status EXCEPT ![MyJob(w)] = "complete"]
    /\ progress' = [progress EXCEPT ![MyJob(w)] = 100]
    /\ Goto(w, "ack")
    /\ UNCHANGED <<total, completed, docVars, sysVars, msg, sess, exc, runVars>>

\* The handler around Coordinator.run: _fail_job first, then the documents.
FailJob(w) ==
    /\ pc[w] = "fail"
    /\ IF sess[w] = "ok"
       THEN /\ status' = [status EXCEPT ![MyJob(w)] = "failed"]
            /\ Goto(w, "faildocs")
            /\ UNCHANGED exc
       ELSE /\ exc' = [exc EXCEPT ![w] = "fatal"]
            /\ Goto(w, "raise")
            /\ UNCHANGED status
    /\ UNCHANGED <<total, completed, progress, docVars, sysVars, msg, sess, runVars>>

MarkDocsFailed(w) ==
    /\ pc[w] = "faildocs"
    /\ Goto(w, "raise")
    /\ IF ~DocsGone(w)
       THEN SetDocs(w, "failed") /\ UNCHANGED <<sess, exc>>
       ELSE Poison(w) /\ exc' = [exc EXCEPT ![w] = "fatal"] /\ UNCHANGED ocr
    /\ UNCHANGED <<jobVars, rows, flagged, sysVars, msg, runVars>>

\* The task's own handler: it looks the job up in the same session, so on a
\* poisoned one it raises itself and the job keeps its status.
HandleException(w) ==
    /\ pc[w] = "raise"
    /\ IF sess[w] = "ok"
       THEN status' = [status EXCEPT ![MyJob(w)] = "failed"]
       ELSE UNCHANGED status
    /\ Goto(w, "ack")
    /\ UNCHANGED <<total, completed, progress, docVars, sysVars, msg, sess, exc, runVars>>

----------------------------------------------------------------------------
(* cleanup_stale_jobs_task *)

\* Mutants of Unfinished: the status filter dropped, or one status forgotten.
AnyStatus(j) == status[j] # "none"
RunningOnly(j) == status[j] = "running"

\* The status filter of the sweeper's SELECT.
Unfinished(j) == status[j] \in {"queued", "running"}

\* S: unfinished jobs that have become older than job_stale_ttl_hours.
SweepSelect(S) ==
    /\ sweep = {}
    /\ S # {} /\ \A j \in S : Unfinished(j)
    /\ sweep' = S
    /\ old' = old \cup S
    /\ UNCHANGED <<jobVars, docVars, queue, faults, overlap, alike, pc, msg, sess, exc, runVars>>

\* The commit writes failed over whatever the row holds by now.
SweepCommit ==
    /\ sweep # {}
    /\ status' = [j \in Jobs |-> IF j \in sweep THEN "failed" ELSE status[j]]
    /\ sweep' = {}
    /\ UNCHANGED <<total, completed, progress, docVars, queue, old, faults, overlap, alike,
                   pc, msg, sess, exc, runVars>>

----------------------------------------------------------------------------

Init ==
    /\ status = [j \in Jobs |-> "none"]
    /\ total = [j \in Jobs |-> 0]
    /\ completed = [j \in Jobs |-> 0]
    /\ progress = [j \in Jobs |-> 0]
    /\ ocr = [d \in Docs |-> "none"]
    /\ rows = {}
    /\ flagged = {}
    /\ queue = {}
    /\ sweep = {}
    /\ old = {}
    /\ pc = [w \in Workers |-> "idle"]
    /\ msg = [w \in Workers |-> NoMessage]
    /\ sess = [w \in Workers |-> "ok"]
    /\ exc = [w \in Workers |-> "none"]
    /\ snap = [w \in Workers |-> {}]
    /\ stale = [w \in Workers |-> {}]
    /\ want = [w \in Workers |-> {}]
    /\ todo = [w \in Workers |-> {}]
    /\ item = [w \in Workers |-> NoPair]
    /\ clash = [w \in Workers |-> FALSE]
    /\ saved = [w \in Workers |-> {}]
    /\ overlap = FALSE /\ alike = TRUE
    /\ faults = 0

Api ==
    \/ \E d \in Docs : UploadDocument(d) \/ DeleteDocument(d)
    \/ \E j \in Jobs : TriggerExtraction(j)
    \/ \E j \in Jobs, D \in SUBSET Docs : ExtractPdf(j, D)

\* What a worker thread does by itself once it has a message.
Work(w) ==
    \/ Load(w) \/ CompleteEmpty(w) \/ Wipe(w) \/ Start(w)
    \/ PersistDelete(w) \/ PersistInsert(w) \/ BumpProgress(w)
    \/ MarkDocsComplete(w) \/ EndPoisoned(w) \/ LogRedFlags(w) \/ CompleteJob(w)
    \/ FailJob(w) \/ MarkDocsFailed(w) \/ HandleException(w) \/ Ack(w)

Failure(w) ==
    \/ CoordinatorRaises(w) \/ PersistFails(w)
    \/ WorkerLost(w) \/ TimeLimit(w) \/ VisibilityTimeout(w)

Sweeper ==
    \/ \E S \in SUBSET Jobs : SweepSelect(S)
    \/ SweepCommit

Next ==
    \/ Api
    \/ \E w \in Workers, m \in queue : Receive(w, m)
    \/ \E w \in Workers : Work(w) \/ Failure(w)
    \/ Sweeper

Spec == Init /\ [][Next]_vars

\* The worker process keeps its threads going, beat ticks every hour and time
\* passes; clients and the environment owe nothing.
Fairness ==
    /\ \A w \in Workers :
         /\ WF_vars(\E m \in queue : Receive(w, m))
         /\ WF_vars(Work(w))
    /\ \A j \in Jobs : WF_vars(\E S \in SUBSET Jobs : j \in S /\ SweepSelect(S))
    /\ WF_vars(SweepCommit)

FairSpec == Spec /\ Fairness

----------------------------------------------------------------------------
(* Correctness *)

\* Every variable keeps its type; the counters are those ck_ej_progress allows.
TypeOK ==
    /\ status \in [Jobs -> Statuses]
    /\ total \in [Jobs -> Nat]
    /\ completed \in [Jobs -> Nat]
    /\ progress \in [Jobs -> 0..100]
    /\ ocr \in [Docs -> LiveStatus \cup {"none", "deleted"}]
    /\ rows \subseteq Pairs
    /\ flagged \subseteq Jobs
    /\ queue \subseteq Messages
    /\ sweep \subseteq Jobs
    /\ old \subseteq Jobs
    /\ pc \in [Workers -> Places]
    /\ msg \in [Workers -> Messages \cup {NoMessage}]
    /\ \A w \in Workers : pc[w] # "idle" => msg[w] \in Messages
    /\ sess \in [Workers -> {"ok", "poisoned"}]
    /\ exc \in [Workers -> {"none", "retryable", "fatal"}]
    /\ snap \in [Workers -> SUBSET Docs]
    /\ stale \in [Workers -> SUBSET Docs]
    /\ want \in [Workers -> SUBSET Pairs]
    /\ todo \in [Workers -> SUBSET Pairs]
    /\ item \in [Workers -> Pairs \cup {NoPair}]
    /\ \A w \in Workers : pc[w] \in {"insert", "bump"} => item[w] \in Pairs
    /\ clash \in [Workers -> BOOLEAN]
    /\ saved \in [Workers -> SUBSET Pairs]
    /\ overlap \in BOOLEAN /\ alike \in BOOLEAN
    /\ faults \in 0..MaxFaults

\* A field value never outlives its document, however the delete of the document
\* falls between the DELETE and the INSERT of a run (pipeline.py:158-195).
RowsHaveDocument == \A p \in rows : p[2] \in Present

\* The coordinator swallows a failing on_result, yet a run whose session still
\* works when the coordinator returns has committed every result it produced:
\* no job becomes complete over a result that was lost (coordinator.py:231-242).
CompletingRunsSavedAll ==
    \A w \in Workers :
        pc[w] \in {"flags", "complete"} => saved[w] = want[w]

\* While executions do not overlap, the progress a client polls never counts a
\* result that was not committed (pipeline.py:220-227).
ProgressCountsSavedResults ==
    ~overlap =>
        \A w \in Workers :
            pc[w] \in {"loop", "insert", "bump"}
                => completed[MyJob(w)] <= Cardinality(saved[w])

\* While executions do not overlap, a run that is about to complete its job leaves
\* exactly its own rows on its documents: none missing, and none stale from an
\* earlier run that asked for more fields (pipeline.py:69-79).
SerialRunsLeaveOnlyTheirRows ==
    ~overlap =>
        \A w \in Workers :
            pc[w] \in {"flags", "complete"}
                => {p \in rows : p[2] \in snap[w]} = {p \in want[w] : p[2] \in Present}

\* The ticket a polling client sees: something holds the job while a message,
\* an execution or the sweeper's selection refers to it.
Held == [j \in Jobs |->
            \/ \E m \in queue : m.job = j
            \/ \E w \in Workers : msg[w] # NoMessage /\ MyJob(w) = j
            \/ j \in sweep]

Ticket == INSTANCE JobTicket WITH live <- Held

\* The system implements the ticket: a status moves only while something holds
\* the job, never back to queued, and a finished job nothing holds is settled.
ImplementsTicket == Ticket!Spec

\* A finished job changes its status again only after a fault of the
\* environment (a redelivery, a retry), or once it is older than the TTL, when
\* the sweeper and a late worker overwrite each other.
FinishedReopensOnlyByFault ==
    [][\A j \in Jobs :
          status[j] \in Terminal /\ faults' = 0 /\ j \notin old
              => status'[j] = status[j]]_vars

\* Every job is in the end complete or failed and stays so, whatever workers
\* die, messages are lost or sessions break: the sweeper is the last resort.
EveryJobSettles ==
    \A j \in Jobs : <>[](status[j] \in Terminal \cup {"none"})

\* No message, no execution, no sweep under way.
Quiet == queue = {} /\ sweep = {} /\ \A w \in Workers : pc[w] = "idle"

RowsOf(d) == {f \in Fields : <<f, d>> \in rows}

\* A document holds the result of one whole run: all the fields of a version of
\* some job's schema (or of the BRD set), and nothing left from another run.
HoldsOneRun(d) == \E F \in {Fields} \cup UNION {JobFields[j] : j \in Jobs} : RowsOf(d) = F

\* At rest, with a job complete, each document marked complete holds the rows of
\* one whole run, none missing and none left from another run, whatever order
\* the runs took: what the wipe is for (pipeline.py:69-71).
CompleteMeansWhole ==
    Quiet /\ (\E j \in Jobs : status[j] = "complete")
        => \A d \in Docs : ocr[d] = "complete" => HoldsOneRun(d)

\* Overlapping runs of the same documents and fields do no harm while nothing fails and
\* no document is deleted: at rest no document is left in progress and each complete one
\* holds one whole run.  The runs go through the fields in one order, so a run that
\* loses an insert has all the rest done by the run ahead of it (coordinator.py:171-242).
OverlappingRunsAgree ==
    Quiet /\ faults = 0 /\ alike /\ (\A d \in Docs : ocr[d] # "deleted")
        => \A d \in Docs : ocr[d] # "ocr_in_progress" /\ (ocr[d] = "complete" => HoldsOneRun(d))

\* At rest, if no fault happened and the documents are complete, the red flags of
\* every job are in the audit log: "Persist red flags to audit log so LeaseLens
\* endpoint can read them" (pipeline.py:132).
RedFlagsReachAuditLog ==
    Quiet /\ faults = 0 /\ (\E d \in Docs : ocr[d] = "complete")
        => \A j \in RedFlagged : status[j] # "none" => j \in flagged
====
