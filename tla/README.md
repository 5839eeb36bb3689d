# LeaseGenie backend: TLA+ models, checks and proofs

LeaseGenie extracts lease abstracts from PDFs.  A FastAPI process takes
uploads and requests, a Celery worker (threads pool, Redis broker) runs the
extractions through a chain of LLM agents, PostgreSQL (or SQLite in
development) keeps the results.  What is hard is around the agents (requests,
retries, redeliveries, sweepers and several runs that share rows and files with
no lock but the database's constraints), in the process-wide singletons the
worker's threads share, and inside a run: which fields are asked, in which
order, and what becomes of an answer on its way to the grid.

Paths are relative to the repository; `pipeline.py` is
`app/services/pipeline.py`, and so on.

## 1. The system's parts

| Part | State | Operations | Talks to |
|---|---|---|---|
| Extraction API (`api/v1/extraction.py`, `extract_pdf.py`) | `extraction_jobs` rows | trigger, PDF upload with job, poll, result | queue (publish after commit), documents, schemas |
| Worker (`workers/tasks.py`, `celery_app.py`) | unacknowledged messages, one session per task | run a task, retry (max 2), redeliver, hourly sweeper, retention | pipeline, jobs |
| Pipeline (`services/pipeline.py`) | `documents.ocr_status`, `field_values`, `audit_log`, job progress | wipe, per-field upsert, progress, red flags, complete or fail | coordinator by callbacks `on_result`, `on_progress` |
| Coordinator and agents (`app/agents/`) | shared facts of one run | specialists in order, each field over each document, reconciliation, derivations | LLM client, retrieval |
| Documents API (`api/v1/documents.py`) | `documents` rows, files under `uploads/<tenant>/` | upload (slot 0, or 1..7 with retry), delete | vector store, index task |
| Schema store (`services/schema_store.py`, `api/v1/schemas.py`) | `extraction_schemas` rows with `is_active` | upload/replace (new version), activate, delete | PDF extraction, pipeline |
| Overrides and abstraction (`api/v1/abstraction.py`, `services/concluded_value.py`, `services/abstraction.py`) | `field_overrides`, `audit_log` | set, revert, concluded value, red flags (read) | field values |
| Playbooks (`agents/playbook_executor.py`, `playbook_loader.py`, `playbooks/compiler.py`, `services/schema_validator.py`) | compiled built-in set | compile guides and sheet, validate, load, walk a question graph, vote, critique | LLM |
| Intake (`api/v1/extract_pdf.py`, `doc_indexer.py`, retention in `workers/tasks.py`) | files and `documents` rows of a request, queued indexing tasks | write, commit, dispatch or undo, index, sweep by age | jobs, disk |
| Retrieval (`services/ocr.py`, `tools.py`, `vector_store.py`, `reranker.py`, `embeddings.py`) | process singletons, the clauses of a run | read or OCR a page, cut clauses, search, rerank | Postgres, Ollama |
| Shell (`main.py`, `config.py`, `rate_limit.py`, `observability.py`, scripts, deploy) | settings, metrics | start-up, limits | |

What makes each correct:

* **Jobs**: a status moves only while something is working on the job, every
  job is settled in the end, progress is backed by committed results.
* **Pipeline**: a completed run has saved everything it asked for, leaves no row
  of an earlier run, and no row outlives its document.
* **Documents**: one base lease, at most 7 amendments, one document per slot, a
  file for each document that is its own, every request answered.
* **Schemas**: one default, the latest version of its schema; a job runs the
  schema it recorded.
* **Overrides**: the audit chain reproduces the values; the concluded value
  follows the precedence override, latest amendment, base lease, "None".
* **Playbooks**: every field asked for is answered, the walk ends, an answer that
  two of three samples give wins and YES wins no tie with NO or UNKNOWN (that is
  all a vote guarantees: one sample may win, section 5), what the critique refutes
  is shown as doubtful, a field is derived after the fields it needs.
* **Intake**: no document loses its file before its time, and no file stays that
  no row refers to.
* **Retrieval**: the clauses of a document are its text, once; the hybrid search
  finds something wherever the search for words does; a singleton stays.

The hard behaviours are listed one by one, with their lines, under "hazards" in
`PROJECT.json`.

## 2. Modules

| Module | What it is |
|---|---|
| `JobTicket` | abstract specification: what a client polling `GET /jobs/{id}` may rely on |
| `Extraction` | jobs, queue, worker threads, pipeline, sweeper, documents as the pipeline sees them |
| `DocumentTable` | abstract specification: the documents of a tenant as clients of the API see them |
| `DocumentSlots` | upload and delete requests, order slots, files |
| `SchemaStore` | schema versions and the default under READ COMMITTED, the jobs that read them |
| `ConcludedValue` | operators: the concluded value of a field, confidence bands, the summary |
| `Overrides` | PATCH requests on a field, their audit trail, the grid, under running extractions |
| `SchemaFields` | operators: validation, loading, selection and order of playbooks |
| `PlaybookWalk` | operators: voting, one step of the walk, outcome, critique |
| `Reconciliation` | operators: the report, derived fields, the red flags of the API |
| `PlaybookCompiler` | operators: the built-in playbooks compiled from guides and sheet |
| `FieldRun` | composes the four above: one job from its schema to its final results |
| `DocumentText` | operators: text layer or OCR, clauses, property type |
| `Retrieval` | worker threads that read, search and rerank, and the singletons they share |
| `Intake` | files and rows of PDF extraction requests, indexing tasks, retention |
| `MC...` | instances for TLC |
| `JobTicket_proofs`, `Extraction_proofs`, `DocumentSlots_proofs`, `SchemaStore_proofs`, `Overrides_proofs`, `FieldRun_proofs`, `Retrieval_proofs`, `Intake_proofs` | theorems, section 4 |

`PROJECT.json` maps each definition to the lines it stands for.

How they meet: `Extraction` says when a run executes and what its callbacks do to
the database, and treats what a field holds as opaque; `FieldRun` says what one
run decides, and treats retrieval as an oracle; `Retrieval` says what a question
is given to read.  `Overrides` takes the rows a run leaves as arbitrary and says
what a user sees of them.  `SchemaStore` decides which schema a job runs,
`FieldRun` what that schema selects.  `Intake` and `DocumentSlots` are the two
ways files and document rows come and go.

### Extraction

A step is one committed transaction of one actor.  Two code paths are split
further because another actor can come in between: `_persist_field_value`
(`PersistDelete`, `PersistInsert`) and the sweeper (`SweepSelect`,
`SweepCommit`).  Field values are pairs (field, document): what is in them does
not matter to these properties, which rows are there does.

* The **session** is a variable of its own (`sess`).  When a flush fails in
  SQLAlchemy the session refuses further work until it is rolled back.  Nothing
  in `app/` rolls back in a worker, and the coordinator swallows what a callback
  raises (`coordinator.py:231-242`), so after one failed INSERT every later
  callback fails, the commit after the coordinator raises, and the task's
  handler, which uses the same session, raises too.  The model follows this
  path to its end (`EndPoisoned`, `HandleException`): the job stays `running`.
* `clash` is what PostgreSQL does for two INSERTs of one key: the later one
  fails on `uq_fv_unique` if the earlier committed after the later's DELETE.
* `stale` is what SQLAlchemy does for an unchanged attribute: a document that is
  already `ocr_in_progress` is not in the UPDATE, so its deletion goes
  unnoticed at the wipe and is noticed at the reload (`Start`).
* The **queue** is a set: order and retry delays are not modelled, which only
  adds behaviours.  Redelivery (`WorkerLost`, `VisibilityTimeout`), the hard
  time limit, refused publishes, a failing INSERT and a raising coordinator
  (the soft time limit is one) are faults, at most `MaxFaults` in a behaviour.
* A **schema** is the set of fields its versions select (`JobFields`); the run
  takes any of them, because a new version may be uploaded at any time, or all
  of `Fields` if the schema is gone.
* The sweeper may select any unfinished job at any time: jobs get old.
* `overlap` and `alike` are history: whether two executions have overlapped, and
  whether all that did had the same documents and the same fields.

Overlapping runs of one tenant may harm each other: `extraction_whole` is the
case of different fields.  `OverlappingRunsAgree` says when they do not, and an
attempt to prove it showed that little suffices to break it.  Runs whose fields
merely begin alike are not safe: a run of {1} whose wipe falls after a run of {1, 2, 3}
has done its second field leaves {1, 3}.  Runs of the same documents and fields
are safe while nothing fails: both go through one list in one order, so a run
that loses an insert, and with it its session, has a run ahead of it that
does all the rest.  That run may lose in turn, but not the one furthest ahead.

`JobTicket` is `status` plus one bit per job, whether a message, an
execution or the sweeper refers to the job.  `Extraction` implements it
under `live <- Held`.

### DocumentSlots

An upload checks the tenant's documents, writes the file, and inserts in a loop
under `uq_tenant_doc_order`; the loser recounts, renames its file and tries
again.  The name of an upload is its sanitised filename, a path is
(order, name), and the content of a file is the upload it came from, so that
"the file of a document is its own" can be said.  `rename` over an existing
file replaces it (POSIX) or fails (Windows); both are choices of `Rename`.  A
delete request unlinks before it deletes the row.

`DocumentsKeepTheirFiles` says when the code gives each document its own file:
always for a name no other upload has, and for all documents while uploads are
answered one after the other.  Two uploads that share a name and compute one
order do write the same path.

`DocumentTable` says what clients see of all this: each upload is answered at
one moment, with a free slot of its kind or with a refusal, and a refusal means
that every slot the request might have had was taken at that moment, or that
something has been deleted before.  `DocumentSlots` implements it: the answer of
a request is 201 when its row is committed and 409 when it is done without one
(`Answer`), the holder of a slot is the document with that order (`Holder`), and
everything else (the check, the file, the lost INSERTs, counting again, renaming)
is invisible.  What has to be shown is that the loop of `MAX_AMENDMENTS + 1` tries
never gives up on a tenant that has room; it may, once documents are deleted,
because `max + 1` and the count then disagree, so the abstract `Refuse` says so.

### SchemaStore

Rows are numbered in the order of `created_at`.  An UPDATE of all rows starts with
its snapshot (`ClearStart`); rows inserted later are missed, as READ COMMITTED
allows.  It then locks the rows one after another (`ClearRow`), in any order,
because an UPDATE moves a row in the table it scans; a deletion sends one DELETE per
row (`DeleteRow`), in the order of the ids, which are random and so an input
(`RowId`).  Either keeps what it has locked while it waits for the next row, so
requests may wait for each other in a circle: an activation against another, against
a deletion, against an upload of the default.  PostgreSQL finds the circle and
aborts one of its transactions (`OnCycle`, `Abort`); nothing in the endpoints
catches the error, so the request ends with a 500 and its rollback.  The two upload
endpoints are coroutines that never await once they use the session, so in the one
API process no two of them overlap; activations and deletions run in threads.
`mixed` remembers whether an upload and an activation have overlapped, because
`DefaultIsOneLatest` holds exactly until then.  A job has a history field,
`versions`: the versions its schema had when it recorded one.
`JobRunsWhatItRecorded` says that it runs the recorded version if these are still
the same when it runs; the code does not give more, because the pipeline looks for
the latest version of the schema.

### ConcludedValue and Overrides

`set_override` is `Read` (the SELECT of the row) followed by `Revert`, `Insert`
or `Update`, in one transaction.  Other requests come between: a second INSERT
of a field fails on `uq_override_unique`, an UPDATE of a row that is gone is
SQLAlchemy's StaleDataError, and both are answered with 500 and change nothing; a
DELETE of such a row only warns.  An UPDATE holds the columns that differ from
what was read.  An audit row says what the request read as the old value.  `raced`
remembers the fields on which requests have overlapped: `TrailIsAChain` (each
old value is the new value before it, and the last is what is stored) holds
where they have not.  `AcknowledgedIsStored` holds also under overlap for a
request that sets a value other than the one it read, and says why not for the
rest.  `Wipe` and `Persist` are
what a run does to the values.

`Concluded` is translated branch by branch; `ConcludedFollowsRule` compares it
with the precedence rule of the module's docstring, for every assignment of
dates to the documents.  A mixture of dated and undated amendments cannot be sorted on PostgreSQL (`Incomparable`): the missing date is
`datetime.min`, which has no time zone, and the dates of a TIMESTAMPTZ column have
one.  `Concluded` is then `TypeError` and the whole grid is a 500; `AwareDates` says
which database it is, and with FALSE (SQLite) the missing date sorts first.
`SummaryAddsUp` is about the two notions of "has a
value" in `abstraction.py` and `concluded_value.py` (`Shown`, `HasValue`).

### FieldRun, SchemaFields, PlaybookWalk, Reconciliation, PlaybookCompiler

One behaviour is one job: `Upload` validates the schema (`Errors`), `Start` loads it
(`Load`, which drops questions and references without a word) or takes the compiled
set (`builtin`, which the process reads once) and infers the property type.
`NextCell` takes the next field and document in the order of the specialists; `Ask`
puts one question and takes one branch (`After`); `Conclude` builds the outcome, has
it criticised, has the specialist of its category correct it and calls `on_result`;
`Raise` is the playbook that raised, whose outcome the specialist makes up;
`Reconcile` writes the report and the derived fields.

* The LLM's reply, each voting sample and the critique's verdict are arbitrary
  over the small sets of texts of the instance (`LlmValues`); three samples of a
  voted question are taken together, so that every split and tie occurs.  The answer of
  a sample is any text (`playbook_executor.py:529`): YES, NO, UNKNOWN or one of
  `OtherWords`, which rank after YES.
* A playbook's `output` is "text", "number" or "currency"; for the last two
  `Normalized` keeps the first number of the text (`FirstNumber`).  All built-in
  playbooks of dates and the term have the output type Number, so what is saved of
  06/15/2020 is 6: no date reaches `BasicInfoAgent`, the derivation of the term or the
  report.  Inline fields of a schema with a text output keep their dates;
  `DependentsFollow` says that a term is derived from such dates and from no others.
* `saved` is what the pipeline got, field by field, and `outcomes` what the run
  ends with.  The properties about values (`DependentsFollow`,
  `DerivedFromBaseLease`) speak of `saved`, since that is what a client sees: an
  outcome handed on before the specialist has corrected it breaks them.
* Playbooks run in the order of their names within a category.
  `DependentsFollow` states what that order does to Lease Term and to the
  fields that inherit "No Recovery".
* A date is its MM/DD/YYYY text, a year and a count of days.  How a text is read as a
  date (`Dates`) and the order of texts (`Rank`) are inputs, because the report
  compares dates and the API compares stored texts, whatever they say;
  `DateChecksAgree` says where they agree.
* The guides are sequences of classified lines (a section heading, a field's
  heading, a question, a branch) and the sheet a sequence of rows; the compiler is
  from there to question graphs.  `SchemaIsCovered` follows a field from its
  paragraph or row through compilation, loading and selection to its outcome. What
  the compiler overwrites (a heading that comes again, a file written by a later
  guide or by the sheet) is the greatest place of a set, not a fold over the lines,
  so that it can be reasoned about.  `BuiltinIsCovered` names a field as the
  compiler does (`FieldOfName`): a row of the sheet whose field is a heading of a
  guide, or an alias of one, adds to that field and makes none of its own.

### DocumentText and Retrieval

A page has a text layer and what each OCR engine makes of it; `Chosen` is the
cascade between them, `Segments` the cut into clauses at the marks that coincide
or not.  A thread's job is an extraction or the orphan sweep; its steps are those
between which another thread may run: look at a singleton, wait for its lock,
construct it (which may fail), build vectors (the embedder may fail for any of
them), search, rerank.  The store and the embedder are under double-checked
locks, the reranker under none.  Scores are ranks given by the query; the fusion
(`Hybrid`, with its 60 and its cut-offs) is computed.

### Intake

A request checks its files, makes the directory, writes file by file, commits
rows and job, and dispatches; a refused publish removes the files and fails the
job (`Dispatch`), a file found too large midway leaves those before it
(`WriteFile`).  Beside it: indexing tasks, which may run before the commit they
need; re-runs of the tenant's job; deletions; and retention, which lists all
paths once and looks at each later, the deepest first (`SweepPath`), so that
files and directories come and go under it.  `Age` is upload_retention_days
passing.

## 3. Runs

Bounds are chosen so that each hazard the run is about happens; each mutant in
`PROJECT.json` is found within them.

| Run | Instance | Shows |
|---|---|---|
| `extraction_jobs` | 2 threads, 2 jobs (one by PDF upload with a schema that selects field 1 of 2, one by trigger), 1 document, no faults, red flags refused by the CHECK | types; no row without document; serial runs leave exactly their rows; overlapping runs of the same documents and fields leave one whole run and no document in progress; a finished job reopens only through the sweeper's race |
| `extraction_faults` | 2 threads, 1 job, 2 documents, 1 field, 1 retry, 1 fault, fair | no completed run lost a result; progress is backed; the ticket is implemented; every job settles |
| `extraction_whole` | 2 jobs, fields {2} against {1,2,3} | violated: a mixture of two runs is left as complete |
| `extraction_redflags` | 1 job with red flags, the CHECK of schema.sql | violated: they never arrive |
| `document_slots` | 2 base leases, 3 amendments, four uploads of one name, 2 amendment slots, 2 requests and 1 deletion at a time, fair | limits, files, the table of documents is implemented, every request answered |
| `document_slots_order` | 3 amendments one after the other, a deletion | violated: the recomputed order is taken |
| `schema_store` | 4 requests, 2 schemas, 2 rows, 1 job, fair | one default, the latest of its schema, kept by uploads; a job runs what it recorded; no request waits for ever, deadlocks included |
| `overrides` | 1 field, 4 requests with a value or "None", a base lease and 2 amendments, 3 extractions per document | the trail, acknowledged requests, the concluded value for every way to date the amendments, and the summary |
| `field_run` | 22 jobs, one for each thing that can happen to a schema, a walk or a pair of fields; at most 2 documents, `MaxSteps` 3, fair | coverage of a schema and of the compiled set, votes, critique, order, derivation, dates; every run ends |
| `retrieval` | 2 threads, documents of up to 2 pages and 4 clauses, all cut-offs 2 | clauses tile the text; hybrid search finds; singletons stay |
| `intake` | 3 requests of up to 2 files, limits 2 files, 2 per file, 3 in all, fair | a job is published with its files, fresh files stay, orphans go |
| `intake_index` | the same | violated: a document is neither indexed nor failed |

Why these sizes are enough: an overlap needs two executions, a mixture two jobs
and (for the violation) three fields, a clash one document; a fault of each
kind can fall at every point of a run with two results, which has a first, a
middle and a last.  The slot race needs one request more than there are slots,
so two amendment slots and three amendments, and two base leases.  Two defaults
need one upload and two activations after a first upload: four requests and
two rows.  A circle of waiting requests needs two rows and two requests that
lock them in different orders; four requests have circles beside requests that are not
on them.  An override's row is inserted, updated, removed and inserted again by
four requests, with any of them overlapping; the concluded value compares
documents two by two, so two amendments with equal, different and missing dates
and a base lease show all its branches, the error of a mixture among them.
A vote has three samples, so two `OtherWords` beside the three known answers make
every split but that of three different other words.  A walk with `MaxSteps` 3 exceeds the
bound in a cycle of two; the fields of `field_run` are two or three at a time,
because facts flow between pairs (CAM and what inherits) or triples (the two
dates and the term).  Two threads suffice for a double-checked lock, and four
clauses in two documents for the cut-offs at 2 to hide a clause.  Retention
needs a request that is refused midway, one that is accepted and one refused
before it wrote anything.

`MaxActive`, `MaxRows`, `RowId`, `MaxFaults`, `LlmValues`, `OtherWords`, `Dates`,
`Rank`, `Extractions` and `Queries` are bounds of the instance, not of the code;
`MaxRetries`, `MaxAmendments`, `MaxSteps`, `Pool`, `Deep`, `Final`, `MinCandidates`,
`MaxPages`, `MaxFiles`, `PerFile` and `Total` are the code's numbers made smaller.
All systems but `Overrides` and `Intake` may stop (all requests answered), so their
runs do not look for deadlock; that a request never hangs is `EveryUploadAnswers`
and `EveryRequestEnds`, and that a run ends `EveryRunEnds`.  In `intake_index` the
property speaks of safety only.

Symmetry is used for the worker threads in `extraction_jobs` and for the requests
in `overrides`, which state no liveness.

### Fairness

* `Extraction`: each worker thread takes a message if there is one and goes on
  with its task (the pool's loop); the sweeper finds a job that stays unfinished
  and commits (beat ticks hourly, `celery_app.py:44-48`, and a job gets older
  than the TTL).  Clients and faults owe nothing.  Assumed: `JOB_STALE_TTL_HOURS`
  is positive (`tasks.py:174` turns the sweeper off at 0).
* `DocumentSlots`, `SchemaStore`: a handler that has started goes on, unless it
  waits for a lock, and PostgreSQL breaks a circle of such waits after
  `deadlock_timeout` (`Abort` is part of `Handle`).  Nobody is obliged to send a
  request, and a delete request may stop between its unlink and its commit.
* `FieldRun`: the run goes on unless its worker is lost, which is `Extraction`'s
  matter; the calls to the LLM have time-outs.
* `Intake`: requests are answered, beat starts retention every day and it goes
  on, and days pass.  Assumed: `upload_retention_days` is positive (0 turns
  retention off).

`EveryJobSettles` depends on the sweeper: without it, a job whose session broke
or whose message was lost stays `running` or `queued` for ever.
`OrphansAreCollected` depends on retention: nothing else removes a file that a
request refused midway has written.

## 4. What is proved

Every safety invariant and every action property that a passing run checks,
and both refinements, are theorems: they hold for all values of the
constants that satisfy the assumptions of the module, not only in the
instance.  Each `..._proofs` module begins with the inductive invariant; a
theorem is then "it holds initially, every step keeps it, it implies the
property". Proofs have a step for each action, and one step for the actions
that leave alone what the invariant speaks of.

### Extraction and JobTicket

For any number of threads, jobs, documents, fields, retries and faults.
Assumed: documents and fields are finite sets of numbers (their order is the
order of the coordinator's loops), `JobFields` gives sets of fields.

* `TypeCorrect`.  Not bookkeeping: progress stays in 0..100, by `DoneBound`
  (what is done is part of what is wanted) and `PercentBound`.
* `RowsKeepTheirDocument`: an insert checks the document, a deletion takes its
  rows.
* `CompletingRunsLoseNothing`, by `RunSaved`: while a session works, what a
  run has saved is what it wants minus what it still has to do and the item in
  hand; after a failure only the session remembers, and `MarkDocsComplete`
  needs a working one.
* `ProgressIsBacked` and `SerialRunsAreExact`, by `OneRun` (until executions
  overlap, at most one thread is busy), `Scope` (a run works on documents that
  exist or existed) and `OwnRows` (after the wipe the rows of the run's
  documents are those it has saved).
* `SystemImplementsTicket`: the refinement.  An action moves holders
  (`StatusStays`) or the status of a job that an execution or the sweeper
  holds (`ExecutionMoves`); `HoldersOK` says that a holder refers to a real
  job.
* `FinishedAndReleasedIsFinal` and `NoJobRequeued` are what any implementation of
  the ticket gives a client; `ClientsMayRely` carries them over to the system.  A
  finished job that nothing refers to never changes again; the second premise is
  needed, since a failed job that is to be retried does run again.
* `FinishedStays`, by `OneCarrier`: while nothing has failed a job has one
  carrier, a message or an execution, none is retried, and the carrier of a
  finished job that is not old has only to acknowledge it.
* `AlikeRunsDoNoHarm`, by `InStep` and `RunsAgree`.  `InStep`: runs under way
  want the same results, and what a run has still to do is what comes after
  the item in its hand (`Paced`), so two runs with one item in hand have the
  same results ahead.  `RunsAgree`: on a document that runs work on, each
  wanted row is there or ahead of a run whose session works and that has not
  lost its insert (`Covered`, `Healthy`); a document in progress has such a
  run.  A winner of an insert takes over what the loser had ahead; a wipe puts
  everything ahead of the run that wipes; when the last run leaves, nothing is
  ahead of anyone, so all is there.
* `ExecutionsRunOut`: an execution has at most 8 steps left and three for each
  result (`StepsLeft`), each step of its own takes one, and nothing that a
  client, another thread, the sweeper or the broker does gives one back.  Its
  loop always has a next result, or is at its end, or has a broken session
  (`FirstResult`: the order of the coordinator's loops has a first element).

### DocumentSlots

For any uploads, names, slots and number of requests at a time.  Assumed:
finitely many uploads, `Nothing` is not one of them.

* `TypeCorrect` and `LimitsHold`, by `SlotsApart`: a row is inserted in a slot
  that no document has (`uq_tenant_doc_order`), and what is counted for an
  amendment is never slot 0.  Amendments in slots of their own, none of them
  0, are at most `MAX_AMENDMENTS`: this needs a counting argument over a
  finite set.
* `FilesKept`, by three invariants: `NamesKept` (a path ends in the name of
  its request, and so does what lies there), `UnsharedOwnFile` (so a name that
  nobody shares is nobody else's to write, rename or unlink), and
  `SerialSlots` (until requests overlap or something is deleted the amendments
  have the slots 1..n, so the slot computed is free and its path unused).
* `SystemImplementsTable`: the refinement, by `TriesFit`.  While nothing has been
  deleted the orders of the amendments are at most their number, a request has
  lost fewer INSERTs than the order it tries next, and it never tries beyond
  their number plus one; so its tries run out only when the tenant is full, and
  a full tenant has every slot taken (`FullTakesAll`, the pigeonhole).  A COMMIT
  maps to `Accept`, a 409 to `Refuse`, the end of a deletion to `Delete`
  (`InsertMaps`, `RefusalMaps`, `DeleteMaps`), all other steps to stutters
  (`SilentMaps`).
* `ClientsSeeSlots`: a created document holds one slot, of its kind, and a slot
  changes hands only by a deletion: the table's own properties, of the system.
* `RequestsRunOut`: a request under way has at most `3 * MaxAmendments + 6` steps
  left, its own steps take one each, and no other request or deletion gives one
  back.

### SchemaStore

For any number of requests, schemas, rows and jobs.  Assumed: finitely many
requests.

* `LocksHold`: types, and that no row is locked by two transactions.  The
  locks rely on `RowsAreCounted`, `RequestsFit` and `RowsSeen` (nobody has
  seen or locked a row that is not committed yet), and on `TargetsHeld` (the
  row an activation is about to flag cannot be deleted under it).
* `DefaultHolds`, `DefaultKept`, `JobsKeepTheirWord`, by `DefaultInv`: while
  `mixed` is false, the active row is one and the newest of its schema, an
  activation's UPDATE has seen every row it may have to clear (the table only
  shrinks under it), and what an upload found out about its schema stays so
  until it commits.  Without `~mixed` each of the three fails, which TLC
  shows: the first and the third on the run's own instance, the second with a
  fifth request and a third row (an upload finds its schema to be the
  default's, another schema is activated before the upload clears the old
  rows, and the upload's commit takes the default away from it).
* `NobodyDeadlocks`, about requests that take their locks one row at a time: while any
  is under way, one waits for nobody or is on a circle that PostgreSQL breaks
  (`SomeoneMoves`); the row that is flagged last is never waited for
  (`FlagsAreFree`), since the UPDATE before it has locked it; and each request has at
  most `MaxRows + 4` steps left, which only it uses up (`StepsAreUsed`).  The argument
  (`StuckOnCycle`): if all wait, each waits for one that is under way too; take a
  smallest set of requests that wait for members of it, and each of them is
  waited for as well.

### ConcludedValue and Overrides

For any fields, requests, documents and extractions.  Assumed: a value asked
for is not `Null` (that is a revert), documents are finitely many of distinct
orders (`uq_tenant_doc_order`), confidences are 0..100 (`ck_fv_confidence`).

* `TypeCorrect` and `SuccessIsStored`, by `RowsInv`: one row per field and per
  request, the row a request has read is or was of its field (`ReadRowsFit`),
  and a request alone on its field has read what is there
  (`AloneReadsCurrent`).
* `TrailHolds`: `TrailIsAChain` is inductive with `RowsInv`; a row is appended
  by a request that read what the last row of the trail tells.
* `RuleHolds`: the code's branches conclude what the rule says, for every finite set
  of documents and every assignment of dates; the TypeError is the result only if some
  amendments with a value are dated, some are not, and dates have time zones.
  `LatestExists` gives the latest amendment (the one whose set of later ones is
  minimal), `FirstExists` the base lease (the least order); `EvidenceOfDocuments`
  says that what the documents contribute has distinct orders still.
* `CountsAgree`: the bands of the summary are a partition (`SplitCount`) and
  every concluded confidence falls in one (`GridConfidence`).

### FieldRun and its operators

For any jobs, schemas, playbooks, question graphs, replies and `MaxSteps`.
Assumed (`JobsAssumption`): documents are a list with distinct labels, since
they are the keys of a dictionary; questions and entries are lists; the
playbooks of a run are finitely many, and those of a category have distinct
places in the sort, which is stable.  `DatesAssumption`: within a year days go
by month and day, and "None" is no date.  `GuidesAssumption`: guides and sheet are
lists.  `AliasAssumption`: what an alias stands for stands for itself
(`DOCX_FIELD_ALIASES`).

* `TypeCorrect`, `RefutedShown`, `SchemaCovered`, `BuiltinCovered`,
  `DerivedFromBase`, by `RunInv` (which playbooks a run has), `WalkInv` (what
  a walk has found is what its playbook or the LLM may say, in at most
  `MaxSteps` questions), `CellsInv` (the outcomes are those of the cells
  closed, one each) and `SharedInv` (what was saved is what is kept, and each
  row is as critique and post-processing leave it).  They rest on
  `OrderLists`, that the order of the fields lists each playbook that applies
  once (the sort as a ranking: its place is the number of those before it),
  and on the numbering of cells (`CellSplit`, `CellJoin`: division with
  remainder).
* `VotesHold`: `WinnerWins`, `VotesAreApart` and `VoteIsMajority`, about the operators
  of the vote, for every three samples and any words they answer: two equal answers
  win, YES needs more samples than NO and than UNKNOWN.  That it needs two is not
  so (section 5).
* `DependentsHold`, by `FollowInv`: the facts and the set of "No Recovery"
  documents are those of the outcomes that are there, and a field finds the
  fields it depends on only if they come before it (`NoneAfter`).  A term is derived from
  dates of its own document only (`DatesOf`): each fact is the value of an outcome of
  the base lease.
* `BuiltinCovered` needs besides that the compiled set has a playbook for each
  heading and each row (`CompiledFields`), whose category is a real one.
* `RunsRunOut`: a run that has started is over after at most `MaxSteps + 2` steps
  for each field and document and two more, since every turn of a walk counts
  (`TurnCounts`), whatever cycles the questions have.
* `DatesAgree`: in a job of one document a field has one date, and for texts in
  MM/DD/YYYY form of one year the textual and the calendar comparison coincide.

### DocumentText and Retrieval

For any documents, queries, cut-offs and threads.  Assumed (`WorkAssumption`):
documents, pages and lines are lists, labels are the keys of a dictionary
(`coordinator.py:402-406`); `QueriesAssumption`: a query gives every clause
its scores.

* `TypeCorrect`, by `ThreadInv`: a thread's corpus is that of its own job, and
  what it has found are places in it, of the target document, each once.
* `Tiles`: `FlatLists` (the corpus lists the entries, one for each start),
  `OneClause` (a line is in the clause of the last start before it, which
  exists because the first line is a start) and `OneReference`.
* `HybridFindsToo`: `SortLists` (a sort by a strict order lists the set, by
  the rank of an element), `SearchFinds`, `NearFinds`, `FreshLists`, and from
  them `HybridFinds`: the two rankings are lists without repetition, their
  fusion is one, and what the words find within the pool survives the cut.
* `StaysSettled`: only an empty singleton is assigned.

### Intake

For any requests, files and limits.  Assumed: limits are numbers, a request's
files are a list.

* `TypeCorrect`: what is on disk is in a directory that exists; a directory
  goes only when it is empty.
* `FreshKept`, by `WritesInOrder` (while a request writes, the files it has
  are the first k, and none of them is old) and `FilesInPlace`.

### Only model-checked

* Liveness: fairness and ENABLED are out of TLAPS's reach.  For
  `EveryUploadAnswers`, `EveryRequestEnds` and `EveryRunEnds` the half that is
  safety is a theorem (`RequestsRunOut`, `NobodyDeadlocks`, `RunsRunOut`: the
  steps left are bounded, own steps use them up, others' give none back), and
  what stays with TLC is that a step which can be taken is.  For `EveryJobSettles`
  the theorem is `ExecutionsRunOut`, about one execution; that the sweeper ends
  what a lost message or a broken session has left open is TLC's.
  `OrphansAreCollected` is TLC's as a whole.
* The instances' values, as far as the theorems' assumptions go: TLC evaluates each
  assumption on every run.

No module declares a RECURSIVE operator.

## 5. Disagreements between the code and what it says of itself

Each of these has a run; `PROJECT.json` quotes the lines.

1. `extraction_whole`: the wipe is meant to leave no stale rows; two overlapping
   runs defeat it.
2. `extraction_redflags`: red flags go to the audit log under an action that the
   CHECK of `schema.sql` refuses; such a run never completes on PostgreSQL.
   (SQLite databases made from the ORM have no such CHECK: `AuditCheck`.)
3. `document_slots_order`: the losers do not compute a free order after a
   deletion.
4. `intake_index`: the indexing task calls `has_document`, which no vector store
   has (`doc_indexer.py:36`), and ends in an AttributeError before it reads the
   file or marks the document; published before the commit of its document
   (`extract_pdf.py:285`), it may also end as `not_found`.

Also met, without a run of their own (of the first four the models have the behaviour,
and the properties named say how far it reaches):

* Amendments: the latest by effective date cannot be found when one amendment with a
  value has a date and another none, as the upload allows (`documents.py:43`) and PDF
  extraction always leaves it (`extract_pdf.py:277`).  On PostgreSQL the sort raises a
  TypeError, which `abstraction.py:23-26` does not catch: the grid of the tenant is a
  500 (`concluded_value.py:67`; `ConcludedFollowsRule`: nothing else fails).
* Votes: "only say YES when we have >=2 votes" and "ties default to NO"
  (`playbook_executor.py:501`, `895-896`), but one YES wins when the other samples
  failed, and it wins a tie with any word that is not NO or UNKNOWN (`:534`, `:899`;
  `VotesAreMajorities`).
* Built-in dates: they are to be saved as MM/DD/YYYY (`basic_info.py:11`), but their
  playbooks have the output type Number, so they are cut to their first number before
  the specialist sees them (`playbook_executor.py:600`).  The report finds no dates and
  the term is never derived (`DependentsFollow`).
* Red flags: the API compares stored texts, the cut numbers among them ("2030" comes
  before "6") or MM/DD/YYYY texts of different years, and flags leases whose dates are
  in order and of which the report says nothing (`abstraction.py:263`;
  `DateChecksAgree`).
* Jobs: clients are told to poll until `complete` or `failed`
  (`extraction.py:47-49`), but the retry of a failed task goes on after it
  (`tasks.py:30`).
* Schemas: two rows can be active after an upload has overlapped an activation
  (`orm.py:219-220`, `schema_store.py:200`); a job runs the latest version of its
  schema, not the recorded one (`CHANGELOG.md:300`, `pipeline.py:52`).
* Results: derived fields are in the coordinator's return value and nowhere else;
  the pipeline stores only what `on_result` was given (`CHANGELOG.md:384`,
  `coordinator.py:286-310`, `pipeline.py:98-99`, `143-145`).
* Walk: the winner of a vote loses `is_monthly` (`README.md:558`,
  `playbook_executor.py:573-585`); the search is not widened to the full corpus
  when it finds nothing (`:375`); the `needs_review` of a vote is never read
  (`:501-502`, `:561`); a literal keeps the citation of an earlier question;
  "No Recovery" and "undated" keep confidence 0.
* Order: Lease Term is named before the dates it needs, so that it would not be
  derived in the built-in set even if the dates were kept (`README.md:21`); Base
  Year comes before CAM and never inherits "No Recovery".
* Loading: the validator accepts an inline question without a priority and the
  loader drops its field; `few_shot_examples` are accepted and ignored
  (`playbook_loader.py:145-146`).
* Compiled data: `leased_rsf` Q1 goes to a question that does not exist and
  `lease_guarantor` has two questions Q3; the walk takes the first.
* Reranker: loaded once, says the comment; without a lock two threads load it
  twice, and a failing load after a successful one switches it off
  (`reranker.py:37-38`).
* Classification: Mixed-Use needs (a) and (b) where the comment says or
  (`doc_classifier.py:187`, `195-198`), and the tie-break the comment describes
  (`:166`) is a strict comparison.
* Clauses: a clause's number may be a whole heading of 81 characters, for which
  the column has 64 (`ocr.py:360-364`, `schema.sql:101`, `:217`).
* Files: rows stay when retention has taken their files, and a re-run then
  completes with values of nothing; `clause_embeddings` is never written
  (`upsert_clauses` has no caller), so the orphan sweep has nothing to sweep.

## 6. Abstractions worth knowing

* One tenant, or one per request in `Intake`.  Nothing relates two tenants.
* PostgreSQL.  SQLite serialises writers and, without its pragma, checks no foreign
  keys.
* The read and the write of a job row within one helper are one step; so is a file
  write.  Row locks are taken one at a time where requests can wait for each other
  (`SchemaStore`); an override has one row.
* In `Extraction`, `error`, `started_at` and `finished_at` of jobs, the values,
  citations and confidences of fields, and the audit rows other than red flags
  are left out.  In `FieldRun` a value is an atom, a citation is whether there is
  one, and a confidence is in hundredths.
* What texts come to is given by tables of the instance: their canonical form
  (`Canonical`), their first number (`FirstNumber`), which are dates (`Dates`) or
  terms (`Terms`), their order (`Rank`).  The canonical form by which the samples of
  a vote are compared does not depend on the question's output type.  Prompts, the
  parsing of replies and the wording of errors are left out: an unreadable reply is
  `Failed`.
* Scores of BM25 and cosine similarity are numbers of the query, ranks are
  computed; the reranker gives any order.
* `Age` passes the whole of upload_retention_days at once, and only when no
  request is in the middle: requests are shorter than days.
* The hard time limit and the loss of a worker are modelled whatever the pool;
  Celery's threads pool, the default here, enforces no time limits.

### Not modelled

* `GET /jobs/{id}/result` of the PDF API: a read of the tenant's current rows,
  with the grid of `Overrides` and no job of its own.
* Few-shot library and keyword matcher: tables of prompt examples and a scorer of
  texts, without state.
* The retry loop of the LLM client: one thread, no shared state; what it returns,
  an answer or an error, is an input of `FieldRun`.
* Orders, fields and playbooks APIs and the Excel export: plain inserts and
  read-only views.
* OCR engines, prompts, parsing of dates and amounts: conversions of text and
  images, which their unit tests reach.
* Start-up, metrics, rate limits, configuration, migrations, deployment, and the
  scripts run by hand (`add_missing_playbooks.py`, `run_baseline_sample6.py`,
  `scripts/db/manage.py`): I/O and configuration.

## 7. Plan

1. `JobTicket`, `Extraction`, their runs. (done; all safety and action properties
   proved, the ticket's theorems carried over)
2. `DocumentTable`, `DocumentSlots`. (done, proved, the refinement too)
3. `SchemaStore`. (done, proved)
4. `ConcludedValue`, `Overrides`. (done, proved)
5. `SchemaFields`, `PlaybookWalk`, `Reconciliation`, `PlaybookCompiler`,
   `FieldRun`. (done, proved)
6. `DocumentText`, `Retrieval`, `Intake`. (done, proved)
7. Left: `Intake` against an abstract specification of a tenant's files, with the
   part of it that `DocumentSlots` keeps.
