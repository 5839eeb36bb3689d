---- MODULE SchemaStore ----
(***************************************************************************)
(* The extraction_schemas table under concurrent requests: uploads of new  *)
(* versions, activations of the default, deletions, and the extraction     *)
(* jobs that name a schema when they are requested and read it when they   *)
(* run.                                                                    *)
(*                                                                         *)
(* The isolation level is PostgreSQL's READ COMMITTED: an UPDATE touches   *)
(* the rows its statement saw when it started, locks them one after another *)
(* and keeps what it has locked while it waits for the next, and misses    *)
(* what others insert meanwhile.  Of the transactions that wait for each   *)
(* other in a circle PostgreSQL aborts one.  The upload endpoints are      *)
(* coroutines that never await once they touch the session, so of these    *)
(* there is one at a time; the others run in threads.                      *)
(***************************************************************************)
EXTENDS Naturals, FiniteSets

CONSTANTS
    Schemas,     \* schema_id slugs
    Requests,    \* requests that change the table
    Jobs,        \* extraction jobs requested through POST /extract/pdf
    MaxRows,     \* bound: rows ever inserted
    RowId(_)     \* the place of a row's id, a random UUID, in the order of ids

ASSUME RequestsAssumption == IsFiniteSet(Requests)
ASSUME RowsAssumption == MaxRows \in Nat
ASSUME RowIdAssumption == \A n \in 1..MaxRows : RowId(n) \in Nat

VARIABLES
    table,      \* committed rows, numbered in the order of their created_at
    slug,       \* the schema_id of every row ever inserted
    active,     \* the committed rows with is_active
    pc,         \* the requests
    op,
    target,     \* the row the request read or inserted, 0 for none
    todo,       \* the rows its statements still have to lock
    turn,       \* the one of them it locks next, or waits for
    locked,     \* the row locks it holds
    heir,       \* the upload found an active version of its schema
    job,        \* what each job recorded, of which versions (history), and the row it ran against
    mixed       \* history: an upload and an activation have overlapped

reqVars == <<pc, op, target, todo, turn, locked, heir>>
vars == <<table, slug, active, reqVars, job, mixed>>

Rows == 1..MaxRows
NoRow == 0
Builtin == [schema |-> "builtin", row |-> NoRow]
NoOp == [kind |-> "none"]
NoJob == [at |-> "none", asked |-> Builtin, versions |-> {}, ran |-> NoRow]

MaxOf(S) == CHOOSE n \in S : \A m \in S : m <= n
VersionsOf(s) == {n \in table : slug[n] = s}
\* get_schema without a version.
Latest(s) == IF VersionsOf(s) = {} THEN NoRow ELSE MaxOf(VersionsOf(s))
\* get_active_schema: the newest, should there be several.
Default == IF active = {} THEN NoRow ELSE MaxOf(active)

Inserted == Cardinality(DOMAIN slug)
Busy(r) == pc[r] \notin {"idle", "done"}
LockedByOthers(r) == UNION {locked[q] : q \in Requests \ {r}}
\* Another transaction holds the lock the request stands at.
Blocked(r) == turn[r] \in LockedByOthers(r)
Goto(r, place) == pc' = [pc EXCEPT ![r] = place]
Overlaps(kind) == \E q \in Requests : Busy(q) /\ op[q].kind = kind

\* What a handler that has returned leaves behind.
Forget(r) ==
    /\ Goto(r, "done")
    /\ op' = [op EXCEPT ![r] = NoOp]
    /\ target' = [target EXCEPT ![r] = NoRow]
    /\ todo' = [todo EXCEPT ![r] = {}]
    /\ turn' = [turn EXCEPT ![r] = NoRow]
    /\ heir' = [heir EXCEPT ![r] = FALSE]

\* Mutant of Finish: a session that nobody closes.
FinishHolding(r) == Forget(r) /\ UNCHANGED locked

\* Commit, or the rollback and close of get_db: the locks go either way.
Finish(r) == Forget(r) /\ locked' = [locked EXCEPT ![r] = {}]

\* A request has the rows S left to lock and goes to one of those in next.
Visit(r, S, next) ==
    /\ todo' = [todo EXCEPT ![r] = S]
    /\ \E n \in (IF S = {} THEN {NoRow} ELSE next) : turn' = [turn EXCEPT ![r] = n]

\* It gets the lock it stands at; a row deleted while it waited is skipped.
LockTurn(r) ==
    /\ ~Blocked(r)
    /\ locked' = [locked EXCEPT ![r] = @ \cup ({turn[r]} \cap table)]

----------------------------------------------------------------------------
(* upload_schema and replace_schema_endpoint: upsert_schema, commit *)

\* Mutant of Inherits: the new version starts inactive (CHANGELOG.md:214).
InheritsNothing(s) == FALSE

\* Mutant of Inherits: an upload becomes the default.
InheritsAlways(s) == TRUE

\* any(p.is_active for p in prior_versions)
Inherits(s) == VersionsOf(s) \cap active # {}

\* The reads of upsert_schema.  The version is bumped until it is free.
Upload(r, s) ==
    /\ pc[r] = "idle"
    /\ ~Overlaps("upload")
    /\ Inserted < MaxRows
    /\ op' = [op EXCEPT ![r] = [kind |-> "upload", schema |-> s]]
    /\ heir' = [heir EXCEPT ![r] = Inherits(s)]
    /\ Goto(r, "insert")
    /\ mixed' = (mixed \/ Overlaps("activate"))
    /\ UNCHANGED <<table, slug, active, target, todo, turn, locked, job>>

\* The INSERT: nobody else sees the row before the commit.
InsertVersion(r) ==
    /\ pc[r] = "insert"
    /\ LET n == Inserted + 1
       IN /\ slug' = [m \in DOMAIN slug \cup {n} |-> IF m = n THEN op[r].schema ELSE slug[m]]
          /\ target' = [target EXCEPT ![r] = n]
          /\ locked' = [locked EXCEPT ![r] = {n}]
    /\ Goto(r, IF heir[r] THEN "clear" ELSE "commit")
    /\ UNCHANGED <<table, active, op, todo, turn, heir, job, mixed>>

----------------------------------------------------------------------------
(* activate_schema_endpoint: set_active_schema, commit *)

\* get_schema; SchemaNotFound is a 404.
Activate(r, s) ==
    /\ pc[r] = "idle"
    /\ IF Latest(s) = NoRow
       THEN Finish(r) /\ UNCHANGED mixed
       ELSE /\ op' = [op EXCEPT ![r] = [kind |-> "activate", schema |-> s]]
            /\ target' = [target EXCEPT ![r] = Latest(s)]
            /\ Goto(r, "clear")
            /\ mixed' = (mixed \/ Overlaps("upload"))
            /\ UNCHANGED <<todo, turn, locked, heir>>
    /\ UNCHANGED <<table, slug, active, job>>

\* Mutant of Matched: UPDATE ... WHERE is_active.
MatchedActive == active

\* The rows UPDATE extraction_schemas SET is_active = false matches.
Matched == table

\* The UPDATE starts: its snapshot is what is committed now.  It meets the rows in any
\* order, for an update moves a row to another place of the table.
ClearStart(r) ==
    /\ pc[r] = "clear"
    /\ Visit(r, Matched, Matched)
    /\ Goto(r, IF Matched = {} THEN "flag" ELSE "clearing")
    /\ UNCHANGED <<table, slug, active, op, target, locked, heir, job, mixed>>

\* It locks and updates a row and goes on to the next.
ClearRow(r) ==
    /\ pc[r] = "clearing"
    /\ LockTurn(r)
    /\ LET left == todo[r] \ {turn[r]}
       IN Visit(r, left, left) /\ Goto(r, IF left = {} THEN "flag" ELSE "clearing")
    /\ UNCHANGED <<table, slug, active, op, target, heir, job, mixed>>

\* Mutant of RowGone: an UPDATE that matches no row passes for done.
RowNeverGone(r) == FALSE

\* The row was deleted after set_active_schema had read it.
RowGone(r) == op[r].kind = "activate" /\ target[r] \notin table

\* row.is_active = True and flush, which fails the request if the row is gone.
Flag(r) ==
    /\ pc[r] = "flag"
    /\ IF RowGone(r)
       THEN Finish(r)
       ELSE /\ target[r] \notin LockedByOthers(r)
            /\ locked' = [locked EXCEPT ![r] = @ \cup {target[r]}]
            /\ Goto(r, "commit")
            /\ UNCHANGED <<op, target, todo, turn, heir>>
    /\ UNCHANGED <<table, slug, active, job, mixed>>

\* The audit row and the COMMIT of an upload or an activation.
Commit(r) ==
    /\ pc[r] = "commit"
    /\ op[r].kind # "delete"
    /\ table' = IF op[r].kind = "upload" THEN table \cup {target[r]} ELSE table
    /\ active' = IF op[r].kind = "activate" \/ heir[r]
                 THEN (active \ locked[r]) \cup {target[r]}
                 ELSE active
    /\ Finish(r)
    /\ UNCHANGED <<slug, job, mixed>>

----------------------------------------------------------------------------
(* delete_schema_endpoint: delete_schema, commit *)

\* The flush deletes row by row, each with a DELETE of its own, in the order of their ids.
FirstById(S) == {n \in S : \A m \in S : RowId(n) <= RowId(m)}

\* The versions are read; none is a 404.
Delete(r, s) ==
    /\ pc[r] = "idle"
    /\ IF VersionsOf(s) = {}
       THEN Finish(r)
       ELSE /\ op' = [op EXCEPT ![r] = [kind |-> "delete", schema |-> s]]
            /\ Visit(r, VersionsOf(s), FirstById(VersionsOf(s)))
            /\ Goto(r, "lock")
            /\ UNCHANGED <<target, locked, heir>>
    /\ UNCHANGED <<table, slug, active, job, mixed>>

\* One DELETE; that its row is gone is only a warning.
DeleteRow(r) ==
    /\ pc[r] = "lock"
    /\ LockTurn(r)
    /\ LET left == todo[r] \ {turn[r]}
       IN Visit(r, left, FirstById(left)) /\ Goto(r, IF left = {} THEN "commit" ELSE "lock")
    /\ UNCHANGED <<table, slug, active, op, target, heir, job, mixed>>

CommitDelete(r) ==
    /\ pc[r] = "commit"
    /\ op[r].kind = "delete"
    /\ table' = table \ locked[r]
    /\ active' = active \ locked[r]
    /\ Finish(r)
    /\ UNCHANGED <<slug, job, mixed>>

----------------------------------------------------------------------------
(* Deadlocks *)

\* Statements that take their locks one by one can wait for each other.
Waits(q, p) == turn[q] \in locked[p]

\* The requests that wait for each other in a circle.  Each waits for one at most.
OnCycle(r) ==
    \E C \in SUBSET {q \in Requests : Blocked(q)} :
        r \in C /\ \A q \in C : (\E p \in C : Waits(q, p)) /\ (\E p \in C : Waits(p, q))

\* PostgreSQL aborts one of them after deadlock_timeout: the statement fails, which
\* nothing in the endpoints catches, and the session is rolled back.
Abort(r) ==
    /\ OnCycle(r)
    /\ Finish(r)
    /\ UNCHANGED <<table, slug, active, job, mixed>>

----------------------------------------------------------------------------
(* The jobs *)

\* extract_pdf: ?schema_id= names the latest version, its absence the default.
RequestJob(j) ==
    /\ job[j].at = "none"
    /\ \E n \in {Latest(s) : s \in Schemas} \cup {Default} :
         job' = [job EXCEPT ![j] =
                   [at |-> "queued", ran |-> NoRow,
                    asked |-> IF n = NoRow THEN Builtin ELSE [schema |-> slug[n], row |-> n],
                    versions |-> IF n = NoRow THEN {} ELSE VersionsOf(slug[n])]]
    /\ UNCHANGED <<table, slug, active, reqVars, mixed>>

\* run_extraction_for_tenant gets the schema_id only, and reads its latest
\* version; a schema that is gone means the built-in set.
RunJob(j) ==
    /\ job[j].at = "queued"
    /\ job' = [job EXCEPT ![j].at = "done",
                          ![j].ran = IF job[j].asked = Builtin THEN NoRow
                                     ELSE Latest(job[j].asked.schema)]
    /\ UNCHANGED <<table, slug, active, reqVars, mixed>>

----------------------------------------------------------------------------

Init ==
    /\ table = {}
    /\ slug = [n \in {} |-> NoRow]
    /\ active = {}
    /\ pc = [r \in Requests |-> "idle"]
    /\ op = [r \in Requests |-> NoOp]
    /\ target = [r \in Requests |-> NoRow]
    /\ todo = [r \in Requests |-> {}]
    /\ turn = [r \in Requests |-> NoRow]
    /\ locked = [r \in Requests |-> {}]
    /\ heir = [r \in Requests |-> FALSE]
    /\ job = [j \in Jobs |-> NoJob]
    /\ mixed = FALSE

Handle(r) ==
    \/ InsertVersion(r) \/ ClearStart(r) \/ ClearRow(r) \/ Flag(r) \/ Commit(r)
    \/ DeleteRow(r) \/ CommitDelete(r) \/ Abort(r)

Next ==
    \/ \E r \in Requests, s \in Schemas : Upload(r, s) \/ Activate(r, s) \/ Delete(r, s)
    \/ \E r \in Requests : Handle(r)
    \/ \E j \in Jobs : RequestJob(j) \/ RunJob(j)

Spec == Init /\ [][Next]_vars

\* A handler runs to its end unless it waits for a lock, and deadlocks are detected.
FairSpec == Spec /\ \A r \in Requests : WF_vars(Handle(r))

----------------------------------------------------------------------------
(* Correctness *)

Ops == [kind : {"upload", "activate", "delete"}, schema : Schemas]
JobRecords == [at : {"none", "queued", "done"},
               asked : [schema : Schemas \cup {"builtin"}, row : Rows \cup {NoRow}],
               versions : SUBSET Rows,
               ran : Rows \cup {NoRow}]

\* Every variable keeps its type.
TypeOK ==
    /\ table \subseteq DOMAIN slug /\ active \subseteq table
    /\ DOMAIN slug \subseteq Rows /\ \A n \in DOMAIN slug : slug[n] \in Schemas
    /\ pc \in [Requests -> {"idle", "insert", "clear", "clearing", "flag", "lock", "commit", "done"}]
    /\ op \in [Requests -> Ops \cup {NoOp}]
    /\ target \in [Requests -> Rows \cup {NoRow}]
    /\ todo \in [Requests -> SUBSET Rows]
    /\ turn \in [Requests -> Rows \cup {NoRow}]
    /\ locked \in [Requests -> SUBSET Rows]
    /\ heir \in [Requests -> BOOLEAN]
    /\ job \in [Jobs -> JobRecords]
    /\ mixed \in BOOLEAN

\* No two transactions hold a lock on the same row.
LocksExclude == \A q, r \in Requests : q # r => locked[q] \cap locked[r] = {}

AtMostOneActive == Cardinality(active) <= 1

\* One row is the default, and it is the latest version of its schema, so that a
\* new version of the default schema replaces it.  is_active has no unique index,
\* and "the API ensures this": it does as long as no upload overlaps an
\* activation.  Activations and deletions may race each other, for an UPDATE of
\* every row waits for the one before it and clears the flag that one has set
\* (orm.py:218-220, schema_store.py:140-143, 192-215, 228-245, CHANGELOG.md:214).
DefaultIsOneLatest ==
    ~mixed => AtMostOneActive /\ \A n \in active : n = Latest(slug[n])

\* An upload does not change which schema is the default (schema_store.py:140-173).
UploadKeepsDefault ==
    [][\A r \in Requests :
          op[r].kind = "upload" /\ pc[r] = "commit" /\ pc'[r] = "done" /\ ~mixed /\ Default # NoRow
              => Default' # NoRow /\ slug[Default'] = slug[Default]]_vars

\* Every request is answered: one that waits for a row lock gets it, because each holder
\* commits, or is rolled back when its session is closed (session.py:68-81), or waits
\* itself, and then not for ever: the rows are locked in different orders
\* (schema_store.py:160-165, 200-204, 233-235), but circles are broken.
EveryRequestEnds == \A r \in Requests : Busy(r) ~> pc[r] = "done"

\* A job runs against the version it records, the default's or that of the schema
\* it was asked for, if no version of that schema came or went in between
\* (extract_pdf.py:190-211, pipeline.py:52).  It does not hold for versions
\* uploaded meanwhile, whatever CHANGELOG.md:300 says.
JobRunsWhatItRecorded ==
    [][\A j \in Jobs :
          LET asked == job[j].asked
          IN job[j].at = "queued" /\ job'[j].at = "done" /\ ~mixed
               /\ (asked = Builtin \/ VersionsOf(asked.schema) = job[j].versions)
             => job'[j].ran = asked.row]_vars
====
