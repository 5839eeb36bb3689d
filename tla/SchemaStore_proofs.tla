---- MODULE SchemaStore_proofs ----
(* Row locks, the one default schema, and what jobs run against, for every     *)
(* number of schemas, requests, jobs and rows.                                *)
EXTENDS SchemaStore, FiniteSetTheorems, WellFoundedInduction, TLAPS

----------------------------------------------------------------------------
(* The inductive invariant, in parts *)

\* What a request is doing.
Uploading(r) == op[r].kind = "upload"
Activating(r) == op[r].kind = "activate"
\* The request has inserted its row, and not committed it.
HasInserted(r) == Uploading(r) /\ pc[r] \in {"clear", "clearing", "flag", "commit"}

\* Rows are numbered as they are inserted, and one upload is under way at a time.
RowsAreCounted ==
    /\ Inserted \in 0..MaxRows /\ DOMAIN slug = 1..Inserted
    /\ \A r \in Requests : pc[r] = "insert" => Uploading(r) /\ Inserted < MaxRows
    /\ \A q, r \in Requests : Uploading(q) /\ Uploading(r) => q = r

\* Which request is where, and what it has read so far.
RequestsFit ==
    \A r \in Requests :
        /\ Busy(r) <=> op[r] # NoOp
        /\ pc[r] \in {"clear", "clearing", "flag"} => Activating(r) \/ (Uploading(r) /\ heir[r])
        /\ pc[r] = "lock" => op[r].kind = "delete"
        /\ heir[r] => Uploading(r)
        /\ Activating(r) => target[r] \in DOMAIN slug /\ slug[target[r]] = op[r].schema
        /\ HasInserted(r) => /\ target[r] = Inserted /\ Inserted # 0
                             /\ target[r] \notin table /\ slug[target[r]] = op[r].schema

\* What is locked or was seen has been inserted, and a row not committed yet was not seen.
RowsSeen ==
    \A r \in Requests :
        /\ todo[r] \subseteq DOMAIN slug /\ locked[r] \subseteq DOMAIN slug
        /\ \A q \in Requests : HasInserted(q) => target[q] \notin todo[r]

\* A request stands at a row as long as its statements have rows to lock.
TurnsFit ==
    \A r \in Requests :
        /\ todo[r] # {} <=> pc[r] \in {"clearing", "lock"}
        /\ IF todo[r] = {} THEN turn[r] = NoRow ELSE turn[r] \in todo[r]

\* The row an activation is about to flag cannot be deleted under it.
TargetsHeld ==
    \A r \in Requests : Activating(r) /\ pc[r] = "commit" => target[r] \in table \cap locked[r]

\* What the locks rely on.
LocksInv == TypeOK /\ RowsAreCounted /\ RequestsFit /\ RowsSeen /\ TurnsFit /\ LocksExclude /\ TargetsHeld

\* The active row is one, and no version of its schema is newer.
ActiveIsNewest ==
    /\ \A m, n \in active : m = n
    /\ \A n \in active, m \in table : slug[m] = slug[n] => m <= n

\* An activation flags the newest version: the table only shrinks under it, so that its
\* UPDATE has met every row it could have to clear.
ActivationsSeeAll ==
    \A r \in Requests : Activating(r) =>
        /\ \A m \in table : slug[m] = op[r].schema => m <= target[r]
        /\ pc[r] \in {"clearing", "flag", "commit"} => table \subseteq locked[r] \cup todo[r]

\* What an upload found of its schema stays so until it commits.
UploadsFindSame ==
    \A r \in Requests : Uploading(r) =>
        /\ \A q \in Requests : ~Activating(q)
        /\ \A n \in active : heir[r] <=> slug[n] = op[r].schema
        /\ heir[r] /\ pc[r] \in {"clearing", "flag", "commit"} => table \subseteq locked[r] \cup todo[r]

\* A job that is not for the built-in set recorded the newest of some versions.
JobsRecordNewest ==
    \A j \in Jobs : job[j].at = "queued" /\ job[j].asked # Builtin =>
        /\ job[j].asked.row \in job[j].versions
        /\ \A m \in job[j].versions : m <= job[j].asked.row

\* What the default and the jobs rely on besides, as long as requests are of one kind.
DefaultInv ==
    /\ LocksInv
    /\ ~mixed => ActiveIsNewest /\ ActivationsSeeAll /\ UploadsFindSame /\ JobsRecordNewest
----------------------------------------------------------------------------
(* Rows and their numbers *)

\* A set of rows has a newest one, and that is the one MaxOf chooses.
LEMMA NewestExists ==
    ASSUME NEW S \in SUBSET Rows, S # {}
    PROVE  MaxOf(S) \in S /\ \A m \in S : m <= MaxOf(S)
<1> DEFINE T == {MaxRows - n : n \in S}
<1>1. T \subseteq Nat /\ T # {}
  <2>1. \A n \in S : MaxRows - n \in Nat
    BY RowsAssumption DEF Rows
  <2> QED BY <2>1
<1>2. PICK t \in T : \A y \in T : <<y, t>> \notin OpToRel(<, Nat)
  BY <1>1, NatLessThanWellFounded, WFMin, Zenon
<1>3. PICK n \in S : t = MaxRows - n
  BY <1>2
<1>4. \A m \in S : m <= n
  <2> SUFFICES ASSUME NEW m \in S, n < m PROVE FALSE
    BY DEF Rows
  <2>1. MaxRows - m \in T /\ MaxRows - m < t
    BY <1>3, RowsAssumption DEF Rows
  <2>2. <<MaxRows - m, t>> \in OpToRel(<, Nat)
    BY <1>1, <1>2, <2>1 DEF OpToRel
  <2> QED BY <1>2, <2>1, <2>2
<1> QED BY <1>4 DEF MaxOf

\* The newest version a schema has.
LEMMA LatestIsNewest ==
    ASSUME TypeOK, NEW s
    PROVE  /\ Latest(s) = NoRow <=> VersionsOf(s) = {}
           /\ VersionsOf(s) # {} => /\ Latest(s) \in table /\ slug[Latest(s)] = s
                                    /\ \A m \in table : slug[m] = s => m <= Latest(s)
<1>1. VersionsOf(s) \in SUBSET Rows
  BY DEF TypeOK, VersionsOf
<1>2. ASSUME VersionsOf(s) # {}
      PROVE  Latest(s) \in VersionsOf(s) /\ \A m \in VersionsOf(s) : m <= Latest(s)
  BY <1>1, <1>2, NewestExists DEF Latest
<1>3. NoRow \notin VersionsOf(s)
  BY <1>1 DEF NoRow, Rows
<1> QED BY <1>2, <1>3 DEF VersionsOf, Latest

\* The default is an active row, the newest of them.
LEMMA DefaultIsActive ==
    ASSUME TypeOK
    PROVE  /\ Default = NoRow <=> active = {}
           /\ active # {} => Default \in active
<1>1. active \in SUBSET Rows /\ NoRow \notin active
  BY DEF TypeOK, NoRow, Rows
<1>2. ASSUME active # {} PROVE Default \in active
  BY <1>1, <1>2, NewestExists DEF Default
<1> QED BY <1>1, <1>2 DEF Default

\* The row an upload inserts is the next number.
LEMMA InsertedRow ==
    ASSUME RowsAreCounted, Inserted < MaxRows,
           DOMAIN slug' = DOMAIN slug \cup {Inserted + 1}
    PROVE  DOMAIN slug' = 1..(Inserted + 1) /\ Inserted' = Inserted + 1 /\ Inserted + 1 \in Rows
<1>1. Inserted \in Nat /\ DOMAIN slug = 1..Inserted
  BY RowsAssumption DEF RowsAreCounted
<1>2. DOMAIN slug' = 1..(Inserted + 1)
  BY <1>1
<1> DEFINE n == Inserted + 1
<1>3. Cardinality(1..n) = n
  BY <1>1, FS_Interval
<1> QED BY <1>1, <1>2, <1>3, RowsAssumption DEF Inserted, Rows

\* What a request does, if anything.
LEMMA OpTypes ==
    /\ \A s \in Schemas, k \in {"upload", "activate", "delete"} :
         LET o == [kind |-> k, schema |-> s] IN o \in Ops /\ o # NoOp /\ o.kind = k /\ o.schema = s
    /\ \A o \in Ops : o # NoOp /\ o.schema \in Schemas /\ o.kind \in {"upload", "activate", "delete"}
    /\ NoOp.kind = "none"
BY DEF Ops, NoOp

\* No row has been inserted while nobody numbers one.
LEMMA InsertedFrame == UNCHANGED slug => UNCHANGED Inserted
BY DEF Inserted

\* Who waits has rows left to lock, and who is on a circle waits.
LEMMA CyclesWait ==
    ASSUME TypeOK, RowsSeen, TurnsFit, NEW r \in Requests, OnCycle(r)
    PROVE  Blocked(r) /\ turn[r] \in todo[r] /\ pc[r] \in {"clearing", "lock"}
<1>1. Blocked(r)
  BY DEF OnCycle
<1>2. turn[r] # NoRow
  BY <1>1 DEF Blocked, LockedByOthers, TypeOK, Rows, NoRow
<1> QED BY <1>1, <1>2 DEF TurnsFit

----------------------------------------------------------------------------
(* Types and locks *)

\* An empty table and nobody at work.
LEMMA LocksInit == Init => LocksInv
<1> SUFFICES ASSUME Init PROVE LocksInv
  OBVIOUS
<1>1. DOMAIN slug = {} /\ Inserted = 0 /\ 1..0 = {}
  BY FS_EmptySet DEF Init, Inserted
<1>2. NoJob \in JobRecords
  BY DEF NoJob, JobRecords, Builtin
<1>3. TypeOK
  BY <1>1, <1>2 DEF Init, TypeOK, Busy
<1>4. RowsAreCounted /\ RequestsFit /\ RowsSeen /\ TurnsFit /\ LocksExclude /\ TargetsHeld
  BY <1>1, RowsAssumption
  DEF Init, RowsAreCounted, RequestsFit, RowsSeen, TurnsFit, LocksExclude, TargetsHeld, Uploading, Activating,
      HasInserted, Busy, NoOp
<1> QED BY <1>3, <1>4 DEF LocksInv

\* Every variable keeps its type.
LEMMA TypeStep ==
    ASSUME LocksInv, [Next]_vars
    PROVE  TypeOK'
<1> USE OpTypes DEF LocksInv, TypeOK, Goto, Finish, Forget, Busy
<1>1. ASSUME NEW r \in Requests, NEW s \in Schemas, Upload(r, s) PROVE TypeOK'
  <2>1. mixed' \in BOOLEAN
    BY <1>1, Zenon DEF Upload
  <2>2. Inherits(s) \in BOOLEAN
    BY Zenon DEF Inherits
  <2> DEFINE o == [kind |-> "upload", schema |-> s]
  <2>3. o \in Ops
    OBVIOUS
  <2>4. /\ op' = [op EXCEPT ![r] = o] /\ heir' = [heir EXCEPT ![r] = Inherits(s)]
        /\ pc' = [pc EXCEPT ![r] = "insert"] /\ UNCHANGED <<table, slug, active, target, todo, turn, locked, job>>
    BY <1>1 DEF Upload
  <2> HIDE DEF o
  <2> QED BY <2>1, <2>2, <2>3, <2>4
<1>2. ASSUME NEW r \in Requests, NEW s \in Schemas, Activate(r, s) PROVE TypeOK'
  <2>1. CASE Latest(s) = NoRow
    <3>1. Finish(r) /\ UNCHANGED <<table, slug, active, job, mixed>>
      BY <1>2, <2>1 DEF Activate
    <3> QED BY <3>1
  <2>2. CASE Latest(s) # NoRow
    <3> DEFINE o == [kind |-> "activate", schema |-> s]
    <3>1. o \in Ops /\ Latest(s) \in Rows
      BY <2>2, LatestIsNewest
    <3>2. mixed' \in BOOLEAN
      BY <1>2, <2>2, Zenon DEF Activate
    <3>3. /\ op' = [op EXCEPT ![r] = o] /\ target' = [target EXCEPT ![r] = Latest(s)]
          /\ pc' = [pc EXCEPT ![r] = "clear"] /\ UNCHANGED <<table, slug, active, todo, turn, locked, heir, job>>
      BY <1>2, <2>2 DEF Activate
    <3> HIDE DEF o
    <3> QED BY <3>1, <3>2, <3>3
  <2> QED BY <2>1, <2>2
<1>3. ASSUME NEW r \in Requests, NEW s \in Schemas, Delete(r, s) PROVE TypeOK'
  <2>1. CASE VersionsOf(s) = {}
    <3>1. Finish(r) /\ UNCHANGED <<table, slug, active, job, mixed>>
      BY <1>3, <2>1 DEF Delete
    <3> QED BY <3>1
  <2>2. CASE VersionsOf(s) # {}
    <3> DEFINE o == [kind |-> "delete", schema |-> s]
    <3>1. o \in Ops /\ VersionsOf(s) \in SUBSET Rows
      BY DEF VersionsOf
    <3>2. /\ op' = [op EXCEPT ![r] = o] /\ todo' = [todo EXCEPT ![r] = VersionsOf(s)]
          /\ \E n \in Rows : turn' = [turn EXCEPT ![r] = n]
          /\ pc' = [pc EXCEPT ![r] = "lock"] /\ UNCHANGED <<table, slug, active, target, locked, heir, job, mixed>>
      BY <1>3, <2>2, <3>1 DEF Delete, Visit, FirstById
    <3> HIDE DEF o
    <3> QED BY <3>1, <3>2
  <2> QED BY <2>1, <2>2
<1>4. ASSUME NEW r \in Requests, InsertVersion(r) PROVE TypeOK'
  <2>1. Inserted + 1 \in Rows /\ DOMAIN slug' = DOMAIN slug \cup {Inserted + 1} /\ op[r].schema \in Schemas
    BY <1>4, InsertedRow DEF InsertVersion, RowsAreCounted, RequestsFit
  <2> QED BY <1>4, <2>1 DEF InsertVersion
<1>5. ASSUME NEW r \in Requests, ClearStart(r) PROVE TypeOK'
  BY <1>5 DEF ClearStart, Visit, Matched
<1>6. ASSUME NEW r \in Requests, ClearRow(r) PROVE TypeOK'
  BY <1>6 DEF ClearRow, LockTurn, Visit
<1>7. ASSUME NEW r \in Requests, Flag(r) PROVE TypeOK'
  <2>1. target[r] \in Rows
    BY <1>7 DEF Flag, RequestsFit, RowsAreCounted, HasInserted, Activating, Uploading
  <2>2. CASE RowGone(r)
    <3>1. Finish(r) /\ UNCHANGED <<table, slug, active, job, mixed>>
      BY <1>7, <2>2 DEF Flag
    <3> QED BY <3>1
  <2>3. CASE ~RowGone(r)
    BY <1>7, <2>1, <2>3 DEF Flag
  <2> QED BY <2>2, <2>3
<1>8. ASSUME NEW r \in Requests, Commit(r) PROVE TypeOK'
  <2>1. op[r].kind \in {"upload", "activate"}
    BY <1>8 DEF Commit, RequestsFit
  <2>2. IF Uploading(r) THEN target[r] \in DOMAIN slug ELSE target[r] \in table
    BY <1>8, <2>1 DEF Commit, RequestsFit, RowsAreCounted, HasInserted, TargetsHeld, Activating, Uploading
  <2>3. table' \subseteq DOMAIN slug' /\ active' \subseteq table'
    BY <1>8, <2>1, <2>2 DEF Commit, Uploading, RequestsFit
  <2> QED BY <1>8, <2>3 DEF Commit
<1>9. ASSUME NEW r \in Requests, DeleteRow(r) PROVE TypeOK'
  BY <1>9 DEF DeleteRow, LockTurn, Visit, FirstById
<1>10. ASSUME NEW r \in Requests, CommitDelete(r) PROVE TypeOK'
  BY <1>10 DEF CommitDelete
<1>11. ASSUME NEW j \in Jobs, RequestJob(j) PROVE TypeOK'
  <2>1. PICK n \in {Latest(s) : s \in Schemas} \cup {Default} :
          job' = [job EXCEPT ![j] =
                   [at |-> "queued", ran |-> NoRow,
                    asked |-> IF n = NoRow THEN Builtin ELSE [schema |-> slug[n], row |-> n],
                    versions |-> IF n = NoRow THEN {} ELSE VersionsOf(slug[n])]]
    BY <1>11 DEF RequestJob
  <2>2. n = NoRow \/ n \in DOMAIN slug
    BY DefaultIsActive, LatestIsNewest
  <2>3. \A s : VersionsOf(s) \in SUBSET Rows
    BY DEF VersionsOf
  <2>4. job'[j] \in JobRecords
    BY <2>1, <2>2, <2>3 DEF JobRecords, Builtin, NoRow
  <2> QED BY <1>11, <2>1, <2>4 DEF RequestJob, reqVars
<1>12. ASSUME NEW j \in Jobs, RunJob(j) PROVE TypeOK'
  <2>1. \A s : Latest(s) \in Rows \cup {NoRow}
    BY LatestIsNewest
  <2> DEFINE ran == IF job[j].asked = Builtin THEN NoRow ELSE Latest(job[j].asked.schema)
  <2>2. ran \in Rows \cup {NoRow}
    BY <2>1
  <2>3. /\ job' = [job EXCEPT ![j].at = "done", ![j].ran = ran]
        /\ UNCHANGED <<table, slug, active, reqVars, mixed>>
    BY <1>12 DEF RunJob
  <2> HIDE DEF ran
  <2>4. job'[j] = [[job[j] EXCEPT !.at = "done"] EXCEPT !.ran = ran]
    BY <2>3, Zenon
  <2> DEFINE b == [job[j] EXCEPT !.at = "done"]
  <2>5. job[j] \in JobRecords
    OBVIOUS
  <2>6. b \in JobRecords
    BY <2>5 DEF JobRecords
  <2> HIDE DEF b
  <2>7. [b EXCEPT !.ran = ran] \in JobRecords
    BY <2>2, <2>6 DEF JobRecords
  <2>8. job'[j] \in JobRecords
    BY <2>4, <2>7 DEF b
  <2> QED BY <2>3, <2>8 DEF reqVars
<1>13. CASE UNCHANGED vars
  BY <1>13 DEF vars, reqVars
<1>14. ASSUME NEW r \in Requests, Abort(r) PROVE TypeOK'
  BY <1>14 DEF Abort
<1> QED BY <1>1, <1>2, <1>3, <1>4, <1>5, <1>6, <1>7, <1>8, <1>9, <1>10, <1>11, <1>12, <1>13, <1>14 DEF Next, Handle

\* Rows are numbered without gaps, by one upload at a time.
LEMMA CountStep ==
    ASSUME LocksInv, [Next]_vars
    PROVE  RowsAreCounted'
<1> USE OpTypes, InsertedFrame DEF LocksInv, TypeOK, RowsAreCounted, RequestsFit, Uploading, Goto, Finish, Forget, Busy
<1>1. ASSUME NEW r \in Requests, NEW s \in Schemas, Upload(r, s) PROVE RowsAreCounted'
  <2>1. /\ Inserted < MaxRows /\ UNCHANGED slug
        /\ op' = [op EXCEPT ![r] = [kind |-> "upload", schema |-> s]]
        /\ pc' = [pc EXCEPT ![r] = "insert"]
        /\ \A q \in Requests : op[q].kind # "upload"
    BY <1>1 DEF Upload, Overlaps
  <2> QED BY <2>1
<1>2. ASSUME NEW r \in Requests, NEW s \in Schemas, Activate(r, s) PROVE RowsAreCounted'
  BY <1>2 DEF Activate
<1>3. ASSUME NEW r \in Requests, NEW s \in Schemas, Delete(r, s) PROVE RowsAreCounted'
  BY <1>3 DEF Delete
<1>4. ASSUME NEW r \in Requests, InsertVersion(r) PROVE RowsAreCounted'
  <2>1. pc[r] = "insert" /\ op[r].kind = "upload" /\ Inserted < MaxRows /\ op' = op
    BY <1>4 DEF InsertVersion
  <2>2. DOMAIN slug' = 1..(Inserted + 1) /\ Inserted' = Inserted + 1
    BY <1>4, <2>1, InsertedRow DEF InsertVersion
  <2>3. \A q \in Requests : pc'[q] # "insert"
    BY <1>4, <2>1 DEF InsertVersion
  <2> QED BY <2>1, <2>2, <2>3, RowsAssumption
<1>5. ASSUME NEW r \in Requests, ClearStart(r) PROVE RowsAreCounted'
  BY <1>5 DEF ClearStart, Visit
<1>6. ASSUME NEW r \in Requests, ClearRow(r) PROVE RowsAreCounted'
  BY <1>6 DEF ClearRow, LockTurn, Visit
<1>7. ASSUME NEW r \in Requests, Flag(r) PROVE RowsAreCounted'
  BY <1>7 DEF Flag
<1>8. ASSUME NEW r \in Requests, Commit(r) PROVE RowsAreCounted'
  BY <1>8 DEF Commit
<1>9. ASSUME NEW r \in Requests, DeleteRow(r) PROVE RowsAreCounted'
  BY <1>9 DEF DeleteRow, LockTurn, Visit
<1>10. ASSUME NEW r \in Requests, CommitDelete(r) PROVE RowsAreCounted'
  BY <1>10 DEF CommitDelete
<1>11. ASSUME UNCHANGED <<table, slug, active, reqVars>> PROVE RowsAreCounted'
  BY <1>11 DEF reqVars
<1>12. ASSUME NEW r \in Requests, Abort(r) PROVE RowsAreCounted'
  BY <1>12 DEF Abort
<1> QED BY <1>1, <1>2, <1>3, <1>4, <1>5, <1>6, <1>7, <1>8, <1>9, <1>10, <1>11, <1>12 DEF Next, Handle, RequestJob, RunJob, vars

\* Requests are where their kind of request goes.
LEMMA FitStep ==
    ASSUME LocksInv, [Next]_vars
    PROVE  RequestsFit'
<1> USE OpTypes, InsertedFrame DEF LocksInv, TypeOK, RowsAreCounted, RequestsFit, Uploading, Activating, HasInserted, Goto, Finish, Forget, Busy
<1>1. ASSUME NEW r \in Requests, NEW s \in Schemas, Upload(r, s) PROVE RequestsFit'
  BY <1>1 DEF Upload
<1>2. ASSUME NEW r \in Requests, NEW s \in Schemas, Activate(r, s) PROVE RequestsFit'
  <2>1. CASE Latest(s) = NoRow
    <3>1. Finish(r) /\ UNCHANGED <<table, slug>>
      BY <1>2, <2>1 DEF Activate
    <3> QED BY <3>1
  <2>2. CASE Latest(s) # NoRow
    <3>1. /\ op' = [op EXCEPT ![r] = [kind |-> "activate", schema |-> s]]
          /\ target' = [target EXCEPT ![r] = Latest(s)]
          /\ pc[r] = "idle" /\ pc' = [pc EXCEPT ![r] = "clear"]
          /\ UNCHANGED <<table, slug, heir>>
      BY <1>2, <2>2 DEF Activate
    <3>2. Latest(s) \in DOMAIN slug /\ slug[Latest(s)] = s
      BY <2>2, LatestIsNewest
    <3> QED BY <3>1, <3>2
  <2> QED BY <2>1, <2>2
<1>3. ASSUME NEW r \in Requests, NEW s \in Schemas, Delete(r, s) PROVE RequestsFit'
  BY <1>3 DEF Delete
<1>4. ASSUME NEW r \in Requests, InsertVersion(r) PROVE RequestsFit'
  <2> DEFINE n == Inserted + 1
  <2>1. /\ pc[r] = "insert" /\ op[r].kind = "upload" /\ Inserted < MaxRows
        /\ DOMAIN slug' = DOMAIN slug \cup {n} /\ slug'[n] = op[r].schema
        /\ \A m \in DOMAIN slug : m # n => slug'[m] = slug[m]
        /\ target' = [target EXCEPT ![r] = n]
        /\ pc' = [pc EXCEPT ![r] = IF heir[r] THEN "clear" ELSE "commit"]
        /\ UNCHANGED <<table, op, heir>>
    BY <1>4 DEF InsertVersion
  <2>2. n # 0 /\ n \notin DOMAIN slug /\ Inserted' = n
    BY <2>1, InsertedRow, RowsAssumption
  <2> HIDE DEF n
  <2>3. \A q \in Requests : op[q].kind = "upload" => q = r
    BY <2>1
  <2> QED BY <2>1, <2>2, <2>3
<1>5. ASSUME NEW r \in Requests, ClearStart(r) PROVE RequestsFit'
  BY <1>5 DEF ClearStart, Visit
<1>6. ASSUME NEW r \in Requests, ClearRow(r) PROVE RequestsFit'
  BY <1>6 DEF ClearRow, LockTurn, Visit
<1>7. ASSUME NEW r \in Requests, Flag(r) PROVE RequestsFit'
  BY <1>7 DEF Flag
<1>8. ASSUME NEW r \in Requests, Commit(r) PROVE RequestsFit'
  BY <1>8 DEF Commit
<1>9. ASSUME NEW r \in Requests, DeleteRow(r) PROVE RequestsFit'
  BY <1>9 DEF DeleteRow, LockTurn, Visit
<1>10. ASSUME NEW r \in Requests, CommitDelete(r) PROVE RequestsFit'
  BY <1>10 DEF CommitDelete
<1>11. ASSUME UNCHANGED <<table, slug, active, reqVars>> PROVE RequestsFit'
  BY <1>11 DEF reqVars
<1>12. ASSUME NEW r \in Requests, Abort(r) PROVE RequestsFit'
  BY <1>12 DEF Abort
<1> QED BY <1>1, <1>2, <1>3, <1>4, <1>5, <1>6, <1>7, <1>8, <1>9, <1>10, <1>11, <1>12 DEF Next, Handle, RequestJob, RunJob, vars

\* An UPDATE or a DELETE sees committed rows only.
LEMMA SeenStep ==
    ASSUME LocksInv, [Next]_vars
    PROVE  RowsSeen'
<1> USE OpTypes DEF LocksInv, TypeOK, RequestsFit, RowsSeen, Uploading, HasInserted, Goto, Finish, Forget, Busy
<1>1. ASSUME NEW r \in Requests, NEW s \in Schemas, Upload(r, s) PROVE RowsSeen'
  BY <1>1 DEF Upload
<1>2. ASSUME NEW r \in Requests, NEW s \in Schemas, Activate(r, s) PROVE RowsSeen'
  <2>1. CASE Latest(s) = NoRow
    <3>1. Finish(r) /\ UNCHANGED slug
      BY <1>2, <2>1 DEF Activate
    <3> QED BY <3>1
  <2>2. CASE Latest(s) # NoRow
    <3>1. /\ op' = [op EXCEPT ![r] = [kind |-> "activate", schema |-> s]]
          /\ target' = [target EXCEPT ![r] = Latest(s)]
          /\ pc' = [pc EXCEPT ![r] = "clear"] /\ UNCHANGED <<slug, todo, locked>>
      BY <1>2, <2>2 DEF Activate
    <3> QED BY <3>1
  <2> QED BY <2>1, <2>2
<1>3. ASSUME NEW r \in Requests, NEW s \in Schemas, Delete(r, s) PROVE RowsSeen'
  <2>1. CASE VersionsOf(s) = {}
    <3>1. Finish(r) /\ UNCHANGED slug
      BY <1>3, <2>1 DEF Delete
    <3> QED BY <3>1
  <2>2. CASE VersionsOf(s) # {}
    <3>1. /\ op' = [op EXCEPT ![r] = [kind |-> "delete", schema |-> s]]
          /\ todo' = [todo EXCEPT ![r] = VersionsOf(s)]
          /\ pc' = [pc EXCEPT ![r] = "lock"] /\ UNCHANGED <<slug, target, locked>>
      BY <1>3, <2>2 DEF Delete, Visit
    <3> QED BY <3>1 DEF VersionsOf
  <2> QED BY <2>1, <2>2
<1>4. ASSUME NEW r \in Requests, InsertVersion(r) PROVE RowsSeen'
  <2> DEFINE n == Inserted + 1
  <2>1. /\ pc[r] = "insert" /\ op[r].kind = "upload"
        /\ DOMAIN slug' = DOMAIN slug \cup {n} /\ locked' = [locked EXCEPT ![r] = {n}]
        /\ target' = [target EXCEPT ![r] = n]
        /\ UNCHANGED <<op, todo>>
    BY <1>4 DEF InsertVersion, RowsAreCounted
  <2>2. n \notin DOMAIN slug
    BY RowsAssumption DEF RowsAreCounted
  <2> HIDE DEF n
  <2>3. \A q \in Requests : op[q].kind = "upload" => q = r
    BY <2>1 DEF RowsAreCounted
  <2> QED BY <2>1, <2>2, <2>3
<1>5. ASSUME NEW r \in Requests, ClearStart(r) PROVE RowsSeen'
  BY <1>5 DEF ClearStart, Visit, Matched
<1>6. ASSUME NEW r \in Requests, ClearRow(r) PROVE RowsSeen'
  BY <1>6 DEF ClearRow, LockTurn, Visit
<1>7. ASSUME NEW r \in Requests, Flag(r) PROVE RowsSeen'
  <2>1. target[r] \in DOMAIN slug
    BY <1>7, RowsAssumption DEF Flag, RowsAreCounted, Activating
  <2>2. CASE RowGone(r)
    <3>1. Finish(r) /\ UNCHANGED slug
      BY <1>7, <2>2 DEF Flag
    <3> QED BY <3>1
  <2>3. CASE ~RowGone(r)
    BY <1>7, <2>1, <2>3 DEF Flag
  <2> QED BY <2>2, <2>3
<1>8. ASSUME NEW r \in Requests, Commit(r) PROVE RowsSeen'
  BY <1>8 DEF Commit
<1>9. ASSUME NEW r \in Requests, DeleteRow(r) PROVE RowsSeen'
  BY <1>9 DEF DeleteRow, LockTurn, Visit
<1>10. ASSUME NEW r \in Requests, CommitDelete(r) PROVE RowsSeen'
  BY <1>10 DEF CommitDelete
<1>11. ASSUME UNCHANGED <<table, slug, active, reqVars>> PROVE RowsSeen'
  BY <1>11 DEF reqVars
<1>12. ASSUME NEW r \in Requests, Abort(r) PROVE RowsSeen'
  BY <1>12 DEF Abort
<1> QED BY <1>1, <1>2, <1>3, <1>4, <1>5, <1>6, <1>7, <1>8, <1>9, <1>10, <1>11, <1>12 DEF Next, Handle, RequestJob, RunJob, vars

\* A request that has rows left to lock stands at one of them.
LEMMA TurnStep ==
    ASSUME LocksInv, [Next]_vars
    PROVE  TurnsFit'
<1> USE OpTypes DEF LocksInv, TypeOK, TurnsFit, Goto, Finish, Forget, Busy
<1>1. ASSUME NEW r \in Requests, NEW s \in Schemas, Upload(r, s) PROVE TurnsFit'
  BY <1>1 DEF Upload
<1>2. ASSUME NEW r \in Requests, NEW s \in Schemas, Activate(r, s) PROVE TurnsFit'
  BY <1>2 DEF Activate
<1>3. ASSUME NEW r \in Requests, NEW s \in Schemas, Delete(r, s) PROVE TurnsFit'
  <2>1. CASE VersionsOf(s) = {}
    <3>1. Finish(r)
      BY <1>3, <2>1 DEF Delete
    <3> QED BY <3>1
  <2>2. CASE VersionsOf(s) # {}
    <3>1. /\ todo' = [todo EXCEPT ![r] = VersionsOf(s)]
          /\ \E n \in VersionsOf(s) : turn' = [turn EXCEPT ![r] = n]
          /\ pc' = [pc EXCEPT ![r] = "lock"]
      BY <1>3, <2>2 DEF Delete, Visit, FirstById
    <3> QED BY <2>2, <3>1
  <2> QED BY <2>1, <2>2
<1>4. ASSUME NEW r \in Requests, InsertVersion(r) PROVE TurnsFit'
  BY <1>4 DEF InsertVersion
<1>5. ASSUME NEW r \in Requests, ClearStart(r) PROVE TurnsFit'
  BY <1>5 DEF ClearStart, Visit
<1>6. ASSUME NEW r \in Requests, ClearRow(r) PROVE TurnsFit'
  BY <1>6 DEF ClearRow, Visit
<1>7. ASSUME NEW r \in Requests, Flag(r) PROVE TurnsFit'
  BY <1>7 DEF Flag
<1>8. ASSUME NEW r \in Requests, Commit(r) PROVE TurnsFit'
  BY <1>8 DEF Commit
<1>9. ASSUME NEW r \in Requests, DeleteRow(r) PROVE TurnsFit'
  BY <1>9 DEF DeleteRow, Visit, FirstById
<1>10. ASSUME NEW r \in Requests, CommitDelete(r) PROVE TurnsFit'
  BY <1>10 DEF CommitDelete
<1>11. ASSUME UNCHANGED <<table, slug, active, reqVars>> PROVE TurnsFit'
  BY <1>11 DEF reqVars
<1>12. ASSUME NEW r \in Requests, Abort(r) PROVE TurnsFit'
  BY <1>12 DEF Abort
<1> QED BY <1>1, <1>2, <1>3, <1>4, <1>5, <1>6, <1>7, <1>8, <1>9, <1>10, <1>11, <1>12 DEF Next, Handle, RequestJob, RunJob, vars

\* A transaction takes only locks that no other holds.
LEMMA ExcludeStep ==
    ASSUME LocksInv, [Next]_vars
    PROVE  LocksExclude'
<1> USE OpTypes DEF LocksInv, TypeOK, LocksExclude, LockedByOthers, Goto, Finish, Forget, Busy
<1>1. ASSUME NEW r \in Requests, NEW s \in Schemas, Upload(r, s) PROVE LocksExclude'
  BY <1>1 DEF Upload
<1>2. ASSUME NEW r \in Requests, NEW s \in Schemas, Activate(r, s) PROVE LocksExclude'
  BY <1>2 DEF Activate
<1>3. ASSUME NEW r \in Requests, NEW s \in Schemas, Delete(r, s) PROVE LocksExclude'
  BY <1>3 DEF Delete
<1>4. ASSUME NEW r \in Requests, InsertVersion(r) PROVE LocksExclude'
  <2>1. Inserted + 1 \notin DOMAIN slug
    BY RowsAssumption DEF RowsAreCounted
  <2> QED BY <1>4, <2>1 DEF InsertVersion, RowsSeen
<1>5. ASSUME NEW r \in Requests, ClearStart(r) PROVE LocksExclude'
  BY <1>5 DEF ClearStart, Visit
<1>6. ASSUME NEW r \in Requests, ClearRow(r) PROVE LocksExclude'
  BY <1>6 DEF ClearRow, LockTurn, Blocked
<1>7. ASSUME NEW r \in Requests, Flag(r) PROVE LocksExclude'
  BY <1>7 DEF Flag
<1>8. ASSUME NEW r \in Requests, Commit(r) PROVE LocksExclude'
  BY <1>8 DEF Commit
<1>9. ASSUME NEW r \in Requests, DeleteRow(r) PROVE LocksExclude'
  BY <1>9 DEF DeleteRow, LockTurn, Blocked
<1>10. ASSUME NEW r \in Requests, CommitDelete(r) PROVE LocksExclude'
  BY <1>10 DEF CommitDelete
<1>11. ASSUME UNCHANGED <<table, slug, active, reqVars>> PROVE LocksExclude'
  BY <1>11 DEF reqVars
<1>12. ASSUME NEW r \in Requests, Abort(r) PROVE LocksExclude'
  BY <1>12 DEF Abort
<1> QED BY <1>1, <1>2, <1>3, <1>4, <1>5, <1>6, <1>7, <1>8, <1>9, <1>10, <1>11, <1>12 DEF Next, Handle, RequestJob, RunJob, vars

\* What an activation has locked to flag stays in the table.
LEMMA HeldStep ==
    ASSUME LocksInv, [Next]_vars
    PROVE  TargetsHeld'
<1> USE OpTypes DEF LocksInv, TypeOK, RequestsFit, LocksExclude, TargetsHeld, Uploading, Activating, RowGone, Goto, Finish, Forget, Busy
<1>1. ASSUME NEW r \in Requests, NEW s \in Schemas, Upload(r, s) PROVE TargetsHeld'
  BY <1>1 DEF Upload
<1>2. ASSUME NEW r \in Requests, NEW s \in Schemas, Activate(r, s) PROVE TargetsHeld'
  BY <1>2 DEF Activate
<1>3. ASSUME NEW r \in Requests, NEW s \in Schemas, Delete(r, s) PROVE TargetsHeld'
  BY <1>3 DEF Delete
<1>4. ASSUME NEW r \in Requests, InsertVersion(r) PROVE TargetsHeld'
  <2>1. /\ op[r].kind = "upload" /\ op' = op /\ table' = table
        /\ \A q \in Requests \ {r} : target'[q] = target[q] /\ pc'[q] = pc[q] /\ locked'[q] = locked[q]
    BY <1>4 DEF InsertVersion, RowsAreCounted
  <2> QED BY <2>1
<1>5. ASSUME NEW r \in Requests, ClearStart(r) PROVE TargetsHeld'
  BY <1>5 DEF ClearStart, Visit
<1>6. ASSUME NEW r \in Requests, ClearRow(r) PROVE TargetsHeld'
  BY <1>6 DEF ClearRow, LockTurn, Visit
<1>7. ASSUME NEW r \in Requests, Flag(r) PROVE TargetsHeld'
  BY <1>7 DEF Flag
<1>8. ASSUME NEW r \in Requests, Commit(r) PROVE TargetsHeld'
  BY <1>8 DEF Commit
<1>9. ASSUME NEW r \in Requests, DeleteRow(r) PROVE TargetsHeld'
  BY <1>9 DEF DeleteRow, LockTurn, Visit
<1>10. ASSUME NEW r \in Requests, CommitDelete(r) PROVE TargetsHeld'
  BY <1>10 DEF CommitDelete
<1>11. ASSUME UNCHANGED <<table, slug, active, reqVars>> PROVE TargetsHeld'
  BY <1>11 DEF reqVars
<1>12. ASSUME NEW r \in Requests, Abort(r) PROVE TargetsHeld'
  BY <1>12 DEF Abort
<1> QED BY <1>1, <1>2, <1>3, <1>4, <1>5, <1>6, <1>7, <1>8, <1>9, <1>10, <1>11, <1>12 DEF Next, Handle, RequestJob, RunJob, vars

\* The row locks are exclusive and every variable keeps its type.
THEOREM LocksHold == Spec => [](TypeOK /\ LocksExclude)
<1>1. LocksInv /\ [Next]_vars => LocksInv'
  BY TypeStep, CountStep, FitStep, SeenStep, TurnStep, ExcludeStep, HeldStep DEF LocksInv
<1>2. LocksInv => TypeOK /\ LocksExclude
  BY DEF LocksInv
<1> QED BY <1>1, <1>2, LocksInit, PTL DEF Spec

----------------------------------------------------------------------------
(* The default *)

\* An upload and an activation that have overlapped always have.
LEMMA UnmixedBefore ==
    ASSUME TypeOK, [Next]_vars, ~mixed'
    PROVE  ~mixed
<1>1. ASSUME NEW r \in Requests, NEW s \in Schemas, Upload(r, s) \/ Activate(r, s) PROVE ~mixed
  BY <1>1, Zenon DEF Upload, Activate
<1>2. UNCHANGED mixed => ~mixed
  OBVIOUS
<1>3. ASSUME NEW r \in Requests, NEW s \in Schemas, Delete(r, s) PROVE UNCHANGED mixed
  BY <1>3, Zenon DEF Delete
<1>4. ASSUME NEW r \in Requests, Handle(r) PROVE UNCHANGED mixed
  BY <1>4 DEF Handle, InsertVersion, ClearStart, ClearRow, Flag, Commit, DeleteRow, CommitDelete, Abort
<1>5. ASSUME NEW j \in Jobs, RequestJob(j) \/ RunJob(j) PROVE UNCHANGED mixed
  BY <1>5, Zenon DEF RequestJob, RunJob
<1>6. CASE UNCHANGED vars
  BY <1>2, <1>6 DEF vars
<1> QED BY <1>1, <1>2, <1>3, <1>4, <1>5, <1>6 DEF Next

\* A commit that flags a row clears every other, and the row it flags is the newest.
LEMMA NewestStep ==
    ASSUME DefaultInv, [Next]_vars, ~mixed'
    PROVE  ActiveIsNewest'
<1> USE OpTypes DEF DefaultInv, LocksInv, TypeOK, RequestsFit, Uploading, Activating, HasInserted, Goto, Finish, Forget, Busy, ActiveIsNewest
<1>0. ~mixed
  BY UnmixedBefore DEF DefaultInv, LocksInv
<1>1. ASSUME NEW r \in Requests, NEW s \in Schemas, Upload(r, s) PROVE ActiveIsNewest'
  BY <1>0, <1>1 DEF Upload
<1>2. ASSUME NEW r \in Requests, NEW s \in Schemas, Activate(r, s) PROVE ActiveIsNewest'
  BY <1>0, <1>2 DEF Activate
<1>3. ASSUME NEW r \in Requests, NEW s \in Schemas, Delete(r, s) PROVE ActiveIsNewest'
  BY <1>0, <1>3 DEF Delete
<1>4. ASSUME NEW r \in Requests, InsertVersion(r) PROVE ActiveIsNewest'
  <2>1. UNCHANGED <<table, active>> /\ \A m \in table : slug'[m] = slug[m]
    <3>1. Inserted + 1 \notin DOMAIN slug
      BY RowsAssumption DEF RowsAreCounted
    <3> QED BY <1>4, <3>1 DEF InsertVersion
  <2> QED BY <1>0, <2>1
<1>5. ASSUME NEW r \in Requests, ClearStart(r) PROVE ActiveIsNewest'
  BY <1>0, <1>5 DEF ClearStart, Visit
<1>6. ASSUME NEW r \in Requests, ClearRow(r) PROVE ActiveIsNewest'
  BY <1>0, <1>6 DEF ClearRow, LockTurn, Visit
<1>7. ASSUME NEW r \in Requests, Flag(r) PROVE ActiveIsNewest'
  BY <1>0, <1>7 DEF Flag
<1>8. ASSUME NEW r \in Requests, Commit(r) PROVE ActiveIsNewest'
  <2>1. \A m \in table : m <= Inserted
    BY DEF RowsAreCounted
  <2>2. CASE op[r].kind = "activate"
    <3>1. table \subseteq locked[r] /\ target[r] \in table /\ slug[target[r]] = op[r].schema
      BY <1>8, <1>0, <2>2 DEF Commit, ActivationsSeeAll, TargetsHeld, TurnsFit
    <3>2. active' = {target[r]} /\ UNCHANGED <<table, slug>>
      BY <1>8, <2>2, <3>1 DEF Commit
    <3>3. \A m \in table : slug[m] = op[r].schema => m <= target[r]
      BY <1>0, <2>2 DEF ActivationsSeeAll
    <3> QED BY <3>1, <3>2, <3>3
  <2>3. CASE op[r].kind # "activate"
    <3>1. op[r].kind = "upload" /\ target[r] = Inserted /\ slug[target[r]] = op[r].schema
      BY <1>8, <2>3 DEF Commit
    <3>2. table' = table \cup {target[r]} /\ UNCHANGED slug
      BY <1>8, <3>1 DEF Commit
    <3>3. Inserted \in Nat
      BY RowsAssumption DEF RowsAreCounted
    <3>4. CASE heir[r]
      <4>1. table \subseteq locked[r]
        BY <1>8, <1>0, <3>1, <3>4 DEF Commit, UploadsFindSame, TurnsFit
      <4>2. active' = {target[r]}
        BY <1>8, <3>4, <4>1 DEF Commit
      <4> QED BY <2>1, <3>1, <3>2, <3>3, <4>2
    <3>5. CASE ~heir[r]
      <4>1. \A n \in active : slug[n] # op[r].schema
        BY <1>0, <3>1, <3>5 DEF UploadsFindSame
      <4>2. active' = active
        BY <1>8, <2>3, <3>5 DEF Commit
      <4> QED BY <1>0, <3>1, <3>2, <4>1, <4>2
    <3> QED BY <3>4, <3>5
  <2> QED BY <2>2, <2>3
<1>9. ASSUME NEW r \in Requests, DeleteRow(r) PROVE ActiveIsNewest'
  BY <1>0, <1>9 DEF DeleteRow, LockTurn, Visit
<1>10. ASSUME NEW r \in Requests, CommitDelete(r) PROVE ActiveIsNewest'
  BY <1>0, <1>10 DEF CommitDelete
<1>11. ASSUME UNCHANGED <<table, slug, active, reqVars>> PROVE ActiveIsNewest'
  BY <1>0, <1>11 DEF reqVars
<1>12. ASSUME NEW r \in Requests, Abort(r) PROVE ActiveIsNewest'
  BY <1>0, <1>12 DEF Abort
<1> QED BY <1>1, <1>2, <1>3, <1>4, <1>5, <1>6, <1>7, <1>8, <1>9, <1>10, <1>11, <1>12 DEF Next, Handle, RequestJob, RunJob, vars

\* No upload adds a row under an activation.
LEMMA SeeAllStep ==
    ASSUME DefaultInv, [Next]_vars, ~mixed'
    PROVE  ActivationsSeeAll'
<1> USE OpTypes DEF DefaultInv, LocksInv, TypeOK, RequestsFit, Uploading, Activating, HasInserted, Goto, Finish, Forget, Busy, ActivationsSeeAll
<1>0. ~mixed
  BY UnmixedBefore DEF DefaultInv, LocksInv
<1>1. ASSUME NEW r \in Requests, NEW s \in Schemas, Upload(r, s) PROVE ActivationsSeeAll'
  BY <1>0, <1>1 DEF Upload
<1>2. ASSUME NEW r \in Requests, NEW s \in Schemas, Activate(r, s) PROVE ActivationsSeeAll'
  <2>1. CASE Latest(s) = NoRow
    <3>1. Finish(r) /\ UNCHANGED <<table, slug>>
      BY <1>2, <2>1 DEF Activate
    <3> QED BY <1>0, <3>1
  <2>2. CASE Latest(s) # NoRow
    <3>1. /\ op' = [op EXCEPT ![r] = [kind |-> "activate", schema |-> s]]
          /\ target' = [target EXCEPT ![r] = Latest(s)]
          /\ pc' = [pc EXCEPT ![r] = "clear"] /\ UNCHANGED <<table, slug, todo, locked>>
      BY <1>2, <2>2 DEF Activate
    <3>2. \A m \in table : slug[m] = s => m <= Latest(s)
      BY <2>2, LatestIsNewest
    <3> QED BY <1>0, <3>1, <3>2
  <2> QED BY <2>1, <2>2
<1>3. ASSUME NEW r \in Requests, NEW s \in Schemas, Delete(r, s) PROVE ActivationsSeeAll'
  BY <1>0, <1>3 DEF Delete, Visit
<1>4. ASSUME NEW r \in Requests, InsertVersion(r) PROVE ActivationsSeeAll'
  <2>1. op[r].kind = "upload" /\ UNCHANGED op
    BY <1>4 DEF InsertVersion, RowsAreCounted
  <2> QED BY <1>0, <2>1 DEF UploadsFindSame
<1>5. ASSUME NEW r \in Requests, ClearStart(r) PROVE ActivationsSeeAll'
  BY <1>0, <1>5 DEF ClearStart, Visit, Matched
<1>6. ASSUME NEW r \in Requests, ClearRow(r) PROVE ActivationsSeeAll'
  BY <1>0, <1>6 DEF ClearRow, LockTurn, Visit
<1>7. ASSUME NEW r \in Requests, Flag(r) PROVE ActivationsSeeAll'
  BY <1>0, <1>7 DEF Flag
<1>8. ASSUME NEW r \in Requests, Commit(r) PROVE ActivationsSeeAll'
  <2>1. CASE op[r].kind = "activate"
    BY <1>8, <1>0, <2>1 DEF Commit
  <2>2. CASE op[r].kind # "activate"
    <3>1. op[r].kind = "upload"
      BY <1>8, <2>2 DEF Commit
    <3>2. \A q \in Requests : op'[q].kind # "activate"
      BY <1>8, <1>0, <3>1 DEF Commit, UploadsFindSame
    <3> QED BY <3>2
  <2> QED BY <2>1, <2>2
<1>9. ASSUME NEW r \in Requests, DeleteRow(r) PROVE ActivationsSeeAll'
  BY <1>0, <1>9 DEF DeleteRow, LockTurn, Visit
<1>10. ASSUME NEW r \in Requests, CommitDelete(r) PROVE ActivationsSeeAll'
  BY <1>0, <1>10 DEF CommitDelete
<1>11. ASSUME UNCHANGED <<table, slug, active, reqVars>> PROVE ActivationsSeeAll'
  BY <1>0, <1>11 DEF reqVars
<1>12. ASSUME NEW r \in Requests, Abort(r) PROVE ActivationsSeeAll'
  BY <1>0, <1>12 DEF Abort
<1> QED BY <1>1, <1>2, <1>3, <1>4, <1>5, <1>6, <1>7, <1>8, <1>9, <1>10, <1>11, <1>12 DEF Next, Handle, RequestJob, RunJob, vars

\* Nothing but a deletion touches what an upload has found.
LEMMA FindSameStep ==
    ASSUME DefaultInv, [Next]_vars, ~mixed'
    PROVE  UploadsFindSame'
<1> USE OpTypes DEF DefaultInv, LocksInv, TypeOK, RequestsFit, Uploading, Activating, HasInserted, Goto, Finish, Forget, Busy, UploadsFindSame
<1>0. ~mixed
  BY UnmixedBefore DEF DefaultInv, LocksInv
<1>1. ASSUME NEW r \in Requests, NEW s \in Schemas, Upload(r, s) PROVE UploadsFindSame'
  <2>1. \A q \in Requests : op[q].kind # "activate"
    BY <1>1, <1>0 DEF Upload, Overlaps
  <2>2. \A n \in active : Inherits(s) <=> slug[n] = s
    BY <1>0 DEF ActiveIsNewest, Inherits, VersionsOf
  <2>3. \A q \in Requests : op[q].kind # "upload"
    BY <1>1 DEF Upload, Overlaps
  <2>4. /\ op' = [op EXCEPT ![r] = [kind |-> "upload", schema |-> s]]
        /\ heir' = [heir EXCEPT ![r] = Inherits(s)]
        /\ pc' = [pc EXCEPT ![r] = "insert"] /\ UNCHANGED <<table, slug, active, todo, locked>>
    BY <1>1 DEF Upload
  <2> QED BY <2>1, <2>2, <2>3, <2>4
<1>2. ASSUME NEW r \in Requests, NEW s \in Schemas, Activate(r, s) PROVE UploadsFindSame'
  <2>1. CASE Latest(s) = NoRow
    <3>1. Finish(r) /\ UNCHANGED <<table, slug, active>>
      BY <1>2, <2>1 DEF Activate
    <3> QED BY <1>0, <3>1
  <2>2. CASE Latest(s) # NoRow
    <3>1. ~Overlaps("upload")
      BY <1>2, <2>2, Zenon DEF Activate
    <3>2. \A q \in Requests : op[q].kind # "upload"
      BY <3>1 DEF Overlaps
    <3>3. op' = [op EXCEPT ![r] = [kind |-> "activate", schema |-> s]]
      BY <1>2, <2>2 DEF Activate
    <3> QED BY <3>2, <3>3
  <2> QED BY <2>1, <2>2
<1>3. ASSUME NEW r \in Requests, NEW s \in Schemas, Delete(r, s) PROVE UploadsFindSame'
  BY <1>0, <1>3 DEF Delete, Visit
<1>4. ASSUME NEW r \in Requests, InsertVersion(r) PROVE UploadsFindSame'
  <2>1. UNCHANGED <<table, active, op, heir, todo>> /\ \A m \in table : slug'[m] = slug[m]
    <3>1. Inserted + 1 \notin DOMAIN slug
      BY RowsAssumption DEF RowsAreCounted
    <3> QED BY <1>4, <3>1 DEF InsertVersion
  <2>2. /\ pc' = [pc EXCEPT ![r] = IF heir[r] THEN "clear" ELSE "commit"]
        /\ \A q \in Requests \ {r} : locked'[q] = locked[q]
    BY <1>4 DEF InsertVersion
  <2> QED BY <1>0, <2>1, <2>2
<1>5. ASSUME NEW r \in Requests, ClearStart(r) PROVE UploadsFindSame'
  BY <1>0, <1>5 DEF ClearStart, Visit, Matched
<1>6. ASSUME NEW r \in Requests, ClearRow(r) PROVE UploadsFindSame'
  BY <1>0, <1>6 DEF ClearRow, LockTurn, Visit
<1>7. ASSUME NEW r \in Requests, Flag(r) PROVE UploadsFindSame'
  BY <1>0, <1>7 DEF Flag
<1>8. ASSUME NEW r \in Requests, Commit(r) PROVE UploadsFindSame'
  <2>1. op[r].kind \in {"upload", "activate"}
    BY <1>8 DEF Commit
  <2>2. \A q \in Requests : op'[q].kind # "upload"
    BY <1>8, <1>0, <2>1 DEF Commit, RowsAreCounted
  <2> QED BY <2>2
<1>9. ASSUME NEW r \in Requests, DeleteRow(r) PROVE UploadsFindSame'
  BY <1>0, <1>9 DEF DeleteRow, LockTurn, Visit
<1>10. ASSUME NEW r \in Requests, CommitDelete(r) PROVE UploadsFindSame'
  BY <1>0, <1>10 DEF CommitDelete
<1>11. ASSUME UNCHANGED <<table, slug, active, reqVars>> PROVE UploadsFindSame'
  BY <1>0, <1>11 DEF reqVars
<1>12. ASSUME NEW r \in Requests, Abort(r) PROVE UploadsFindSame'
  BY <1>0, <1>12 DEF Abort
<1> QED BY <1>1, <1>2, <1>3, <1>4, <1>5, <1>6, <1>7, <1>8, <1>9, <1>10, <1>11, <1>12 DEF Next, Handle, RequestJob, RunJob, vars

\* What a job records is the newest of the versions its schema has then.
LEMMA RecordStep ==
    ASSUME DefaultInv, [Next]_vars, ~mixed'
    PROVE  JobsRecordNewest'
<1>0. ~mixed /\ LocksInv /\ TypeOK
  BY UnmixedBefore DEF DefaultInv, LocksInv
<1> USE DEF JobsRecordNewest
<1>1. ASSUME NEW j \in Jobs, RequestJob(j) PROVE JobsRecordNewest'
  <2>1. PICK n \in {Latest(s) : s \in Schemas} \cup {Default} :
          job' = [job EXCEPT ![j] =
                   [at |-> "queued", ran |-> NoRow,
                    asked |-> IF n = NoRow THEN Builtin ELSE [schema |-> slug[n], row |-> n],
                    versions |-> IF n = NoRow THEN {} ELSE VersionsOf(slug[n])]]
    BY <1>1 DEF RequestJob
  <2>2. n # NoRow => n \in VersionsOf(slug[n]) /\ \A m \in VersionsOf(slug[n]) : m <= n
    <3>1. CASE n = Default
      BY <1>0, <3>1, DefaultIsActive DEF DefaultInv, ActiveIsNewest, VersionsOf, TypeOK
    <3>2. CASE \E s \in Schemas : n = Latest(s)
      BY <1>0, <3>2, LatestIsNewest DEF VersionsOf
    <3> QED BY <2>1, <3>1, <3>2
  <2>3. \A i \in Jobs \ {j} : job'[i] = job[i]
    BY <1>0, <2>1 DEF TypeOK
  <2>4. /\ job'[j].asked = IF n = NoRow THEN Builtin ELSE [schema |-> slug[n], row |-> n]
        /\ job'[j].versions = IF n = NoRow THEN {} ELSE VersionsOf(slug[n])
    BY <1>0, <2>1 DEF TypeOK
  <2>5. job'[j].asked # Builtin => /\ job'[j].asked.row \in job'[j].versions
                                   /\ \A m \in job'[j].versions : m <= job'[j].asked.row
    BY <2>2, <2>4
  <2> QED BY <1>0, <2>3, <2>5 DEF DefaultInv
<1>2. ASSUME NEW j \in Jobs, RunJob(j) PROVE JobsRecordNewest'
  <2>1. /\ \A i \in Jobs \ {j} : job'[i] = job[i]
        /\ job'[j].at = "done"
    BY <1>0, <1>2 DEF RunJob, TypeOK, JobRecords
  <2> QED BY <1>0, <2>1 DEF DefaultInv
<1>3. CASE UNCHANGED job
  BY <1>0, <1>3 DEF DefaultInv
<1>4. ASSUME NEW r \in Requests, Handle(r) PROVE UNCHANGED job
  BY <1>4 DEF Handle, InsertVersion, ClearStart, ClearRow, Flag, Commit, DeleteRow, CommitDelete, Abort
<1>5. ASSUME NEW r \in Requests, NEW s \in Schemas, Upload(r, s) \/ Activate(r, s) \/ Delete(r, s)
      PROVE  UNCHANGED job
  BY <1>5 DEF Upload, Activate, Delete
<1> QED BY <1>1, <1>2, <1>3, <1>4, <1>5 DEF Next, vars

\* An empty table has no default.
LEMMA DefaultInit == Init => DefaultInv
<1> SUFFICES ASSUME Init PROVE DefaultInv
  OBVIOUS
<1>1. ActiveIsNewest /\ ActivationsSeeAll /\ UploadsFindSame /\ JobsRecordNewest
  BY DEF Init, ActiveIsNewest, ActivationsSeeAll, UploadsFindSame, JobsRecordNewest, Activating, Uploading,
         NoOp, NoJob
<1> QED BY <1>1, LocksInit DEF DefaultInv

\* The parts together.
LEMMA DefaultStep == DefaultInv /\ [Next]_vars => DefaultInv'
<1> SUFFICES ASSUME DefaultInv, [Next]_vars PROVE DefaultInv'
  OBVIOUS
<1>1. LocksInv'
  BY TypeStep, CountStep, FitStep, SeenStep, TurnStep, ExcludeStep, HeldStep DEF LocksInv, DefaultInv
<1>2. ASSUME ~mixed' PROVE (ActiveIsNewest /\ ActivationsSeeAll /\ UploadsFindSame /\ JobsRecordNewest)'
  BY <1>2, NewestStep, SeeAllStep, FindSameStep, RecordStep
<1> QED BY <1>1, <1>2 DEF DefaultInv

\* What is active is one row, the newest version of its schema.
LEMMA DefaultBound == DefaultInv => DefaultIsOneLatest
<1> SUFFICES ASSUME DefaultInv, ~mixed
             PROVE  AtMostOneActive /\ \A n \in active : n = Latest(slug[n])
  BY DEF DefaultIsOneLatest
<1> USE DEF DefaultInv, LocksInv, TypeOK, ActiveIsNewest
<1>1. AtMostOneActive
  <2>1. CASE active = {}
    <3>1. Cardinality(active) = 0
      BY <2>1, FS_EmptySet, Zenon
    <3> QED BY <3>1 DEF AtMostOneActive
  <2>2. CASE active # {}
    <3>0. \A m, n \in active : m = n
      OBVIOUS
    <3>1. PICK n \in active : TRUE
      BY <2>2
    <3>3. active = {n}
      BY <3>0, Zenon
    <3>2. Cardinality(active) = 1
      BY <3>3, FS_Singleton, Zenon
    <3> QED BY <3>2 DEF AtMostOneActive
  <2> QED BY <2>1, <2>2
<1>2. ASSUME NEW n \in active PROVE n = Latest(slug[n])
  <2>1. n \in VersionsOf(slug[n])
    BY DEF VersionsOf
  <2>2. /\ Latest(slug[n]) \in table /\ slug[Latest(slug[n])] = slug[n] /\ n <= Latest(slug[n])
    BY <2>1, LatestIsNewest
  <2>3. Latest(slug[n]) <= n
    BY <2>2
  <2> QED BY <2>2, <2>3 DEF Rows
<1> QED BY <1>1, <1>2

\* One row is the default and it is the newest version of its schema, whatever requests race,
\* as long as no upload overlaps an activation (schema_store.py:140-143, 192-215, 228-245).
THEOREM DefaultHolds == Spec => []DefaultIsOneLatest
BY DefaultInit, DefaultStep, DefaultBound, PTL DEF Spec

\* A request moves by its own steps only, and starts from the beginning.
LEMMA RequestsMove ==
    ASSUME NEW q \in Requests
    PROVE  /\ \A s \in Schemas : Upload(q, s) \/ Activate(q, s) \/ Delete(q, s)
                                   => pc[q] = "idle" /\ \E v : pc' = [pc EXCEPT ![q] = v]
           /\ Handle(q) => \E v : pc' = [pc EXCEPT ![q] = v]
<1> USE DEF Finish, Forget, Goto
<1>1. ASSUME NEW s \in Schemas, Upload(q, s) PROVE pc[q] = "idle" /\ \E v : pc' = [pc EXCEPT ![q] = v]
  BY <1>1, Zenon DEF Upload
<1>2. ASSUME NEW s \in Schemas, Activate(q, s) PROVE pc[q] = "idle" /\ \E v : pc' = [pc EXCEPT ![q] = v]
  BY <1>2, Zenon DEF Activate
<1>3. ASSUME NEW s \in Schemas, Delete(q, s) PROVE pc[q] = "idle" /\ \E v : pc' = [pc EXCEPT ![q] = v]
  BY <1>3, Zenon DEF Delete
<1>4. ASSUME Handle(q) PROVE \E v : pc' = [pc EXCEPT ![q] = v]
  BY <1>4, Zenon DEF Handle, InsertVersion, ClearStart, ClearRow, Flag, Commit, DeleteRow, CommitDelete, Abort
<1> QED BY <1>1, <1>2, <1>3, <1>4

\* An upload leaves the default with the schema that has it (schema_store.py:140-173).
THEOREM DefaultKept == Spec => UploadKeepsDefault
<1> DEFINE Kept(r) == op[r].kind = "upload" /\ pc[r] = "commit" /\ pc'[r] = "done" /\ ~mixed /\ Default # NoRow
                        => Default' # NoRow /\ slug[Default'] = slug[Default]
<1>1. ASSUME DefaultInv, [Next]_vars, NEW r \in Requests PROVE Kept(r)
  <2> SUFFICES ASSUME op[r].kind = "upload", pc[r] = "commit", pc'[r] = "done", ~mixed, Default # NoRow
               PROVE  Default' # NoRow /\ slug[Default'] = slug[Default]
    OBVIOUS
  <2>0. TypeOK /\ RowsAreCounted /\ RequestsFit /\ RowsSeen /\ TurnsFit /\ UploadsFindSame
    BY <1>1 DEF DefaultInv, LocksInv
  <2>1. Commit(r)
    <3>1. ASSUME NEW q \in Requests, NEW s \in Schemas, Upload(q, s) \/ Activate(q, s) \/ Delete(q, s) PROVE FALSE
      <4>1. pc[q] = "idle" /\ \E v : pc' = [pc EXCEPT ![q] = v]
        BY <3>1, RequestsMove
      <4> QED BY <2>0, <4>1 DEF TypeOK
    <3>2. ASSUME NEW q \in Requests, Handle(q) PROVE Commit(r)
      <4>1. q = r
        <5>1. \E v : pc' = [pc EXCEPT ![q] = v]
          BY <3>2, RequestsMove
        <5> QED BY <2>0, <5>1 DEF TypeOK
      <4>2. ~Abort(r)
        BY <2>0, CyclesWait DEF Abort
      <4> QED BY <3>2, <4>1, <4>2 DEF Handle, InsertVersion, ClearStart, ClearRow, Flag, DeleteRow, CommitDelete
    <3>3. ASSUME UNCHANGED pc PROVE FALSE
      BY <3>3
    <3> QED BY <1>1, <3>1, <3>2, <3>3 DEF Next, RequestJob, RunJob, vars, reqVars
  <2>2. slug' = slug /\ Default \in active
    BY <2>0, <2>1, DefaultIsActive DEF Commit
  <2>3. CASE heir[r]
    <3>1. table \subseteq locked[r] /\ slug[Default] = op[r].schema
      BY <2>0, <2>2, <2>3 DEF UploadsFindSame, Uploading, TypeOK, TurnsFit
    <3>2. slug[target[r]] = op[r].schema /\ target[r] \in Rows
      BY <2>0 DEF TypeOK, RequestsFit, RowsAreCounted, HasInserted, Uploading
    <3>3. active' = {target[r]}
      BY <2>0, <2>1, <2>3, <3>1 DEF Commit, TypeOK
    <3>4. Default' = MaxOf({target[r]})
      BY <3>3 DEF Default
    <3>5. Default' = target[r] /\ target[r] # NoRow
      BY <3>2, <3>4, NewestExists DEF Rows, NoRow
    <3> QED BY <2>2, <3>1, <3>2, <3>5
  <2>4. CASE ~heir[r]
    <3>1. active' = active
      BY <2>1, <2>4 DEF Commit
    <3>2. Default' = Default
      BY <3>1 DEF Default
    <3> QED BY <2>2, <3>2
  <2> QED BY <2>3, <2>4
<1>2. DefaultInv /\ [Next]_vars => [\A r \in Requests : Kept(r)]_vars
  BY <1>1
<1> QED BY <1>2, DefaultInit, DefaultStep, PTL DEF Spec, UploadKeepsDefault

\* A job runs against the version it recorded, if its schema has the versions it had then
\* (extract_pdf.py:190-211, pipeline.py:52).
THEOREM JobsKeepTheirWord == Spec => JobRunsWhatItRecorded
<1> DEFINE Keeps(j) == LET asked == job[j].asked
                       IN job[j].at = "queued" /\ job'[j].at = "done" /\ ~mixed
                            /\ (asked = Builtin \/ VersionsOf(asked.schema) = job[j].versions)
                          => job'[j].ran = asked.row
<1>1. ASSUME DefaultInv, [Next]_vars, NEW j \in Jobs PROVE Keeps(j)
  <2> DEFINE asked == job[j].asked
  <2> SUFFICES ASSUME job[j].at = "queued", job'[j].at = "done", ~mixed,
                      asked = Builtin \/ VersionsOf(asked.schema) = job[j].versions
               PROVE  job'[j].ran = asked.row
    BY Zenon
  <2>0. TypeOK /\ JobsRecordNewest
    BY <1>1 DEF DefaultInv, LocksInv
  <2>1. RunJob(j)
    <3>1. ASSUME NEW r \in Requests, NEW s \in Schemas, Upload(r, s) \/ Activate(r, s) \/ Delete(r, s)
          PROVE  UNCHANGED job
      BY <3>1 DEF Upload, Activate, Delete
    <3>2. ASSUME NEW r \in Requests, Handle(r) PROVE UNCHANGED job
      BY <3>2 DEF Handle, InsertVersion, ClearStart, ClearRow, Flag, Commit, DeleteRow, CommitDelete, Abort
    <3>3. ASSUME NEW i \in Jobs, RequestJob(i) PROVE FALSE
      <4>1. job[i].at = "none" /\ (i = j \/ job'[j] = job[j])
        BY <2>0, <3>3 DEF RequestJob, TypeOK
      <4> QED BY <4>1
    <3>4. ASSUME NEW i \in Jobs, RunJob(i), i # j PROVE FALSE
      <4>1. job'[j] = job[j]
        BY <2>0, <3>4 DEF RunJob, TypeOK, JobRecords
      <4> QED BY <4>1
    <3>5. UNCHANGED job => FALSE
      OBVIOUS
    <3> QED BY <1>1, <3>1, <3>2, <3>3, <3>4, <3>5 DEF Next, vars
  <2>2. job'[j].ran = IF asked = Builtin THEN NoRow ELSE Latest(asked.schema)
    BY <2>0, <2>1 DEF RunJob, TypeOK, JobRecords
  <2>3. CASE asked = Builtin
    BY <2>2, <2>3 DEF Builtin
  <2>4. CASE asked # Builtin
    <3>1. asked.row \in VersionsOf(asked.schema) /\ \A m \in VersionsOf(asked.schema) : m <= asked.row
      BY <2>0, <2>4 DEF JobsRecordNewest
    <3>2. /\ Latest(asked.schema) \in VersionsOf(asked.schema)
          /\ asked.row <= Latest(asked.schema)
      BY <2>0, <3>1, LatestIsNewest DEF VersionsOf
    <3>3. asked.row \in Nat /\ Latest(asked.schema) \in Nat
      BY <2>0, <3>1, <3>2 DEF VersionsOf, TypeOK, Rows
    <3>4. Latest(asked.schema) <= asked.row
      BY <3>1, <3>2
    <3> QED BY <2>2, <2>4, <3>2, <3>3, <3>4
  <2> QED BY <2>3, <2>4
<1>2. DefaultInv /\ [Next]_vars => [\A j \in Jobs : Keeps(j)]_vars
  BY <1>1
<1> QED BY <1>2, DefaultInit, DefaultStep, PTL DEF Spec, JobRunsWhatItRecorded
----------------------------------------------------------------------------
(* Waiting for locks *)

\* The row that is flagged is free: the UPDATE before it has locked it, unless it is gone.
FlagsAreFree ==
    \A r \in Requests : pc[r] = "flag" /\ ~RowGone(r) => target[r] \notin LockedByOthers(r)

\* As long as a request is under way, one is that does not wait for a lock, or that is on a
\* circle of waiting and can be aborted.
SomeoneMoves ==
    (\E r \in Requests : Busy(r)) => \E r \in Requests : Busy(r) /\ (~Blocked(r) \/ OnCycle(r))

\* A deletion with rows left finds one to go to.
DeletesGoOn ==
    \A r \in Requests : LET left == todo[r] \ {turn[r]} IN left # {} => FirstById(left) # {}

\* How many steps a request has left at most.
StepsLeft(r) ==
    CASE pc[r] = "insert" -> MaxRows + 4 [] pc[r] = "clear" -> MaxRows + 3
      [] pc[r] = "clearing" -> Cardinality(todo[r]) + 2 [] pc[r] = "flag" -> 2
      [] pc[r] = "lock" -> Cardinality(todo[r]) + 1 [] pc[r] = "commit" -> 1 [] OTHER -> 0

\* A step of a request under way uses one up, and only its own steps do.
StepsAreUsed ==
    \A r \in Requests : Busy(r) =>
        /\ StepsLeft(r) \in 0..(MaxRows + 4)
        /\ StepsLeft(r)' <= StepsLeft(r)
        /\ Handle(r) => StepsLeft(r)' < StepsLeft(r)

\* Only a request under way holds locks: an upload that on the row it has inserted, and an
\* activation, once its UPDATE is through, that on the row it will flag, unless that is gone.
LocksTaken ==
    /\ \A r \in Requests :
        /\ locked[r] # {} => Busy(r)
        /\ HasInserted(r) => target[r] \in locked[r]
        /\ Activating(r) /\ target[r] \in table /\ pc[r] \in {"clearing", "flag"}
             => target[r] \in locked[r] \cup todo[r]
    /\ \A q, r \in Requests : Activating(r) /\ HasInserted(q) => target[r] # target[q]

\* A statement locks the rows it meets one by one, and a transaction keeps them to its end.
LEMMA TakenStep ==
    ASSUME LocksInv, LocksTaken, [Next]_vars
    PROVE  LocksTaken'
<1> USE OpTypes DEF LocksInv, TypeOK, RequestsFit, LocksTaken, Uploading, Activating, HasInserted, Goto, Finish, Forget, Busy
<1>1. ASSUME NEW r \in Requests, NEW s \in Schemas, Upload(r, s) PROVE LocksTaken'
  BY <1>1 DEF Upload
<1>2. ASSUME NEW r \in Requests, NEW s \in Schemas, Activate(r, s) PROVE LocksTaken'
  <2>1. CASE Latest(s) = NoRow
    <3>1. Finish(r) /\ UNCHANGED table
      BY <1>2, <2>1 DEF Activate
    <3> QED BY <3>1
  <2>2. CASE Latest(s) # NoRow
    <3>1. /\ op' = [op EXCEPT ![r] = [kind |-> "activate", schema |-> s]]
          /\ target' = [target EXCEPT ![r] = Latest(s)]
          /\ pc[r] = "idle" /\ pc' = [pc EXCEPT ![r] = "clear"]
          /\ UNCHANGED <<table, todo, locked>>
      BY <1>2, <2>2 DEF Activate
    <3>2. Latest(s) \in table
      BY <2>2, LatestIsNewest
    <3> QED BY <3>1, <3>2
  <2> QED BY <2>1, <2>2
<1>3. ASSUME NEW r \in Requests, NEW s \in Schemas, Delete(r, s) PROVE LocksTaken'
  <2>1. CASE VersionsOf(s) = {}
    <3>1. Finish(r) /\ UNCHANGED table
      BY <1>3, <2>1 DEF Delete
    <3> QED BY <3>1
  <2>2. CASE VersionsOf(s) # {}
    <3>1. /\ op' = [op EXCEPT ![r] = [kind |-> "delete", schema |-> s]]
          /\ todo' = [todo EXCEPT ![r] = VersionsOf(s)]
          /\ pc[r] = "idle" /\ pc' = [pc EXCEPT ![r] = "lock"] /\ UNCHANGED <<table, target, locked>>
      BY <1>3, <2>2 DEF Delete, Visit
    <3> QED BY <3>1
  <2> QED BY <2>1, <2>2
<1>4. ASSUME NEW r \in Requests, InsertVersion(r) PROVE LocksTaken'
  <2> DEFINE n == Inserted + 1
  <2>1. /\ pc[r] = "insert" /\ op[r].kind = "upload"
        /\ target' = [target EXCEPT ![r] = n] /\ locked' = [locked EXCEPT ![r] = {n}]
        /\ pc' = [pc EXCEPT ![r] = IF heir[r] THEN "clear" ELSE "commit"]
        /\ UNCHANGED <<table, op, todo>>
    BY <1>4 DEF InsertVersion, RowsAreCounted
  <2>2. n \notin DOMAIN slug
    BY RowsAssumption DEF RowsAreCounted
  <2> HIDE DEF n
  <2>3. \A q \in Requests : op[q].kind = "upload" => q = r
    BY <2>1 DEF RowsAreCounted
  <2>4. \A q \in Requests : op[q].kind = "activate" => target[q] # n
    BY <2>2
  <2>5. \A q \in Requests \ {r} :
          target'[q] = target[q] /\ locked'[q] = locked[q] /\ pc'[q] = pc[q] /\ ~HasInserted(q)'
    BY <2>1, <2>3
  <2>6. target'[r] = n /\ locked'[r] = {n} /\ pc'[r] \in {"clear", "commit"}
    BY <2>1
  <2>7. op' = op /\ todo' = todo /\ table' = table
    BY <2>1
  <2>8. ASSUME NEW q \in Requests
        PROVE  /\ locked'[q] # {} => pc'[q] \notin {"idle", "done"}
               /\ HasInserted(q)' => target'[q] \in locked'[q]
               /\ op'[q].kind = "activate" /\ target'[q] \in table' /\ pc'[q] \in {"clearing", "flag"}
                    => target'[q] \in locked'[q] \cup todo'[q]
    <3>1. CASE q = r
      BY <2>1, <2>6, <2>7, <3>1
    <3>2. CASE q # r
      <4>1. ~HasInserted(q) /\ ~HasInserted(q)'
        BY <2>3, <2>5, <3>2
      <4>2. /\ pc'[q] = pc[q] /\ op'[q] = op[q] /\ target'[q] = target[q]
            /\ locked'[q] = locked[q] /\ todo'[q] = todo[q]
        BY <2>5, <2>7, <3>2
      <4>3. /\ locked[q] # {} => pc[q] \notin {"idle", "done"}
            /\ op[q].kind = "activate" /\ target[q] \in table /\ pc[q] \in {"clearing", "flag"}
                 => target[q] \in locked[q] \cup todo[q]
        BY <4>1
      <4> HIDE DEF HasInserted
      <4> QED BY <2>7, <4>1, <4>2, <4>3
    <3> QED BY <3>1, <3>2
  <2>9. ASSUME NEW p \in Requests, NEW q \in Requests, op'[q].kind = "activate", HasInserted(p)'
        PROVE  target'[q] # target'[p]
    <3>1. p = r /\ q # r
      BY <2>1, <2>3, <2>7, <2>9
    <3> QED BY <2>4, <2>5, <2>6, <2>7, <2>9, <3>1
  <2>10. (\A q \in Requests :
            /\ locked[q] # {} => Busy(q)
            /\ HasInserted(q) => target[q] \in locked[q]
            /\ Activating(q) /\ target[q] \in table /\ pc[q] \in {"clearing", "flag"}
                 => target[q] \in locked[q] \cup todo[q])'
    BY <2>8
  <2>11. (\A p, q \in Requests : Activating(q) /\ HasInserted(p) => target[q] # target[p])'
    BY <2>9
  <2> QED BY <2>10, <2>11 DEF LocksTaken
<1>5. ASSUME NEW r \in Requests, ClearStart(r) PROVE LocksTaken'
  BY <1>5 DEF ClearStart, Visit, Matched
<1>6. ASSUME NEW r \in Requests, ClearRow(r) PROVE LocksTaken'
  BY <1>6 DEF ClearRow, LockTurn, Visit
<1>7. ASSUME NEW r \in Requests, Flag(r) PROVE LocksTaken'
  <2>1. CASE RowGone(r)
    <3>1. Finish(r) /\ UNCHANGED table
      BY <1>7, <2>1 DEF Flag
    <3> QED BY <3>1
  <2>2. CASE ~RowGone(r)
    <3>1. /\ pc[r] = "flag" /\ pc' = [pc EXCEPT ![r] = "commit"]
          /\ locked' = [locked EXCEPT ![r] = @ \cup {target[r]}]
          /\ UNCHANGED <<table, op, target, todo>>
      BY <1>7, <2>2 DEF Flag
    <3> QED BY <3>1
  <2> QED BY <2>1, <2>2
<1>8. ASSUME NEW r \in Requests, Commit(r) PROVE LocksTaken'
  <2>1. /\ Finish(r) /\ pc[r] = "commit"
        /\ table' = table \/ (Uploading(r) /\ table' = table \cup {target[r]})
    BY <1>8 DEF Commit
  <2> QED BY <2>1
<1>9. ASSUME NEW r \in Requests, DeleteRow(r) PROVE LocksTaken'
  BY <1>9 DEF DeleteRow, LockTurn, Visit
<1>10. ASSUME NEW r \in Requests, CommitDelete(r) PROVE LocksTaken'
  <2>1. Finish(r) /\ table' \subseteq table
    BY <1>10 DEF CommitDelete
  <2> QED BY <2>1
<1>11. ASSUME UNCHANGED <<table, slug, active, reqVars>> PROVE LocksTaken'
  BY <1>11 DEF reqVars
<1>12. ASSUME NEW r \in Requests, Abort(r) PROVE LocksTaken'
  BY <1>12 DEF Abort
<1> QED BY <1>1, <1>2, <1>3, <1>4, <1>5, <1>6, <1>7, <1>8, <1>9, <1>10, <1>11, <1>12 DEF Next, Handle, RequestJob, RunJob, vars

\* No other transaction holds the lock on a row that is about to be flagged.
LEMMA FlagsFree == LocksInv /\ LocksTaken => FlagsAreFree
<1> SUFFICES ASSUME LocksInv, LocksTaken, NEW r \in Requests, pc[r] = "flag", ~RowGone(r)
             PROVE  target[r] \notin LockedByOthers(r)
  BY DEF FlagsAreFree
<1>1. target[r] \in locked[r]
  BY DEF LocksInv, TurnsFit, RequestsFit, LocksTaken, RowGone, Activating, Uploading, HasInserted
<1> QED BY <1>1 DEF LocksInv, LocksExclude, LockedByOthers

\* Requests that all wait for one another: each has one of them to wait for.
Stuck(C) == C # {} /\ \A q \in C : Blocked(q) /\ \E p \in C : Waits(q, p)

\* In the smallest such set each is waited for as well: without one that is not, the set
\* would be smaller still.
LEMMA StuckOnCycle ==
    ASSUME NEW C \in SUBSET Requests, Stuck(C)
    PROVE  \E r \in C : OnCycle(r)
<1> DEFINE Sizes == {Cardinality(D) : D \in {D \in SUBSET C : Stuck(D)}}
<1>1. IsFiniteSet(C) /\ \A D \in SUBSET C : IsFiniteSet(D) /\ Cardinality(D) \in Nat
  BY RequestsAssumption, FS_Subset, FS_CardinalityType
<1>2. Sizes \subseteq Nat /\ Sizes # {}
  BY <1>1
<1>3. PICK n \in Sizes : \A m \in Sizes : <<m, n>> \notin OpToRel(<, Nat)
  BY <1>2, NatLessThanWellFounded, WFMin, Zenon
<1>4. PICK D \in SUBSET C : Stuck(D) /\ n = Cardinality(D)
  BY <1>3
<1>5. ASSUME NEW q \in D, \A p \in D : ~Waits(p, q) PROVE FALSE
  <2> DEFINE E == D \ {q}
  <2>1. \A p \in E : Blocked(p) /\ \E o \in E : Waits(p, o)
    BY <1>4, <1>5 DEF Stuck
  <2>2. E # {}
    <3>1. PICK p \in D : Waits(q, p)
      BY <1>4 DEF Stuck
    <3>2. p # q
      BY <1>5, <3>1
    <3> QED BY <3>2
  <2>3. Stuck(E)
    BY <2>1, <2>2 DEF Stuck
  <2>4. Cardinality(E) \in Sizes
    BY <2>3
  <2>5. Cardinality(E) = Cardinality(D) - 1
    BY <1>1, FS_RemoveElement
  <2>6. Cardinality(E) < n /\ Cardinality(E) \in Nat /\ n \in Nat
    BY <1>1, <1>4, <2>5
  <2>7. <<Cardinality(E), n>> \in OpToRel(<, Nat)
    BY <2>6 DEF OpToRel
  <2> QED BY <1>3, <2>4, <2>7
<1>6. PICK r \in D : TRUE
  BY <1>4 DEF Stuck
<1>7. D \in SUBSET {q \in Requests : Blocked(q)}
  BY <1>4 DEF Stuck
<1>8. \A q \in D : (\E p \in D : Waits(q, p)) /\ (\E p \in D : Waits(p, q))
  BY <1>4, <1>5 DEF Stuck
<1>9. OnCycle(r)
  BY <1>7, <1>8 DEF OnCycle
<1> QED BY <1>9

\* When every request under way waits, they wait for one another.
LEMMA SomeoneCanMove == LocksInv /\ LocksTaken => SomeoneMoves
<1> SUFFICES ASSUME LocksInv, LocksTaken, NEW r \in Requests, Busy(r),
                    \A q \in Requests : Busy(q) => Blocked(q)
             PROVE  \E q \in Requests : Busy(q) /\ OnCycle(q)
  BY DEF SomeoneMoves
<1> DEFINE C == {q \in Requests : Busy(q)}
<1>1. ASSUME NEW q \in C PROVE \E p \in C : Waits(q, p)
  <2>1. PICK p \in Requests : turn[q] \in locked[p]
    BY DEF Blocked, LockedByOthers
  <2>2. Busy(p)
    BY <2>1 DEF LocksTaken
  <2> QED BY <2>1, <2>2 DEF Waits
<1>2. Stuck(C)
  BY <1>1 DEF Stuck
<1>3. PICK q \in C : OnCycle(q)
  BY <1>2, StuckOnCycle
<1> QED BY <1>3

\* A set of rows has one whose id is first.
LEMMA FirstExists == LocksInv => DeletesGoOn
<1> SUFFICES ASSUME LocksInv, NEW S \in SUBSET Rows, S # {} PROVE FirstById(S) # {}
  BY DEF DeletesGoOn, LocksInv, TypeOK
<1> DEFINE T == {RowId(n) : n \in S}
<1>1. T \subseteq Nat /\ T # {}
  BY RowIdAssumption DEF Rows
<1>2. PICK t \in T : \A y \in T : <<y, t>> \notin OpToRel(<, Nat)
  BY <1>1, NatLessThanWellFounded, WFMin, Zenon
<1>3. PICK n \in S : t = RowId(n)
  BY <1>2
<1>4. \A m \in S : RowId(n) <= RowId(m)
  <2> SUFFICES ASSUME NEW m \in S, ~(RowId(n) <= RowId(m)) PROVE FALSE
    OBVIOUS
  <2>1. RowId(m) \in Nat /\ RowId(n) \in Nat /\ RowId(m) \in T
    BY <1>1
  <2>2. RowId(m) < RowId(n)
    BY <2>1
  <2>3. <<RowId(m), t>> \in OpToRel(<, Nat)
    BY <1>3, <2>1, <2>2 DEF OpToRel
  <2> QED BY <1>2, <2>1, <2>3
<1> QED BY <1>4 DEF FirstById

\* There are finitely many rows.
LEMMA RowsAreFinite ==
    ASSUME NEW S \in SUBSET Rows
    PROVE  IsFiniteSet(S) /\ Cardinality(S) \in 0..MaxRows
<1>1. IsFiniteSet(Rows) /\ Cardinality(Rows) = MaxRows
  BY RowsAssumption, FS_Interval DEF Rows
<1> QED BY <1>1, FS_Subset, FS_CardinalityType, RowsAssumption

\* What a request has left to lock shrinks by the row it has locked.
LEMMA LeftIsFinite ==
    ASSUME TypeOK, NEW r \in Requests
    PROVE  /\ IsFiniteSet(todo[r]) /\ Cardinality(todo[r]) \in 0..MaxRows
           /\ turn[r] \in todo[r] => Cardinality(todo[r] \ {turn[r]}) = Cardinality(todo[r]) - 1
           /\ Cardinality(table) \in 0..MaxRows
<1>1. todo[r] \in SUBSET Rows /\ table \in SUBSET Rows
  BY DEF TypeOK
<1>2. turn[r] \in todo[r] => Cardinality(todo[r] \ {turn[r]}) = Cardinality(todo[r]) - 1
  BY <1>1, RowsAreFinite, FS_RemoveElement
<1> QED BY <1>1, <1>2, RowsAreFinite

\* A step of a request under way lowers what it has left.
LEMMA HandleUsesStep ==
    ASSUME LocksInv, NEW r \in Requests, Handle(r)
    PROVE  StepsLeft(r)' < StepsLeft(r)
<1> DEFINE left == Cardinality(todo[r])
<1>0. /\ left \in 0..MaxRows /\ Cardinality(table) \in 0..MaxRows
      /\ turn[r] \in todo[r] => Cardinality(todo[r] \ {turn[r]}) = left - 1
  BY LeftIsFinite DEF LocksInv
<1> HIDE DEF left
<1> USE DEF LocksInv, TypeOK, Goto, Finish, Forget
<1>1. ASSUME InsertVersion(r) PROVE StepsLeft(r)' < StepsLeft(r)
  BY <1>1, RowsAssumption DEF InsertVersion, StepsLeft
<1>2. ASSUME ClearStart(r) PROVE StepsLeft(r)' < StepsLeft(r)
  <2>1. pc[r] = "clear" /\ pc'[r] \in {"flag", "clearing"} /\ todo'[r] = table
    BY <1>2 DEF ClearStart, Visit, Matched
  <2>2. StepsLeft(r)' <= MaxRows + 2 /\ StepsLeft(r) = MaxRows + 3 /\ StepsLeft(r)' \in Nat
    BY <1>0, <2>1, RowsAssumption DEF StepsLeft
  <2> QED BY <2>2, RowsAssumption
<1>3. ASSUME ClearRow(r) PROVE StepsLeft(r)' < StepsLeft(r)
  <2>1. pc[r] = "clearing" /\ pc'[r] \in {"flag", "clearing"} /\ todo'[r] = todo[r] \ {turn[r]} /\ turn[r] \in todo[r]
    BY <1>3 DEF ClearRow, Visit, TurnsFit
  <2>2. pc'[r] = "flag" => StepsLeft(r)' = 2
    BY DEF StepsLeft
  <2>3. pc'[r] = "clearing" => StepsLeft(r)' = left + 1
    BY <1>0, <2>1 DEF StepsLeft
  <2>4. StepsLeft(r) = left + 2 /\ left >= 1
    <3>1. Cardinality(todo[r] \ {turn[r]}) \in Nat
      BY <2>1, LeftIsFinite, FS_RemoveElement, FS_CardinalityType
    <3> QED BY <1>0, <2>1, <3>1 DEF StepsLeft, left
  <2> QED BY <1>0, <2>1, <2>2, <2>3, <2>4
<1>4. ASSUME DeleteRow(r) PROVE StepsLeft(r)' < StepsLeft(r)
  <2>1. pc[r] = "lock" /\ pc'[r] \in {"commit", "lock"} /\ todo'[r] = todo[r] \ {turn[r]} /\ turn[r] \in todo[r]
    BY <1>4 DEF DeleteRow, Visit, TurnsFit
  <2>2. pc'[r] = "commit" => StepsLeft(r)' = 1
    BY DEF StepsLeft
  <2>3. pc'[r] = "lock" => StepsLeft(r)' = left
    BY <1>0, <2>1 DEF StepsLeft
  <2>4. StepsLeft(r) = left + 1 /\ left >= 1
    <3>1. Cardinality(todo[r] \ {turn[r]}) \in Nat
      BY <2>1, LeftIsFinite, FS_RemoveElement, FS_CardinalityType
    <3> QED BY <1>0, <2>1, <3>1 DEF StepsLeft, left
  <2> QED BY <1>0, <2>1, <2>2, <2>3, <2>4
<1>5. ASSUME Flag(r) PROVE StepsLeft(r)' < StepsLeft(r)
  BY <1>5 DEF Flag, StepsLeft
<1>6. ASSUME Commit(r) \/ CommitDelete(r) PROVE StepsLeft(r)' < StepsLeft(r)
  BY <1>6 DEF Commit, CommitDelete, StepsLeft
<1>7. ASSUME Abort(r) PROVE StepsLeft(r)' < StepsLeft(r)
  <2>1. pc[r] \in {"clearing", "lock"} /\ pc'[r] = "done"
    BY <1>7, CyclesWait DEF Abort
  <2> QED BY <1>0, <2>1 DEF StepsLeft, left
<1> QED BY <1>1, <1>2, <1>3, <1>4, <1>5, <1>6, <1>7 DEF Handle

\* The steps of others leave it.
LEMMA OthersUseNone ==
    ASSUME LocksInv, NEW r \in Requests, Busy(r), [Next]_vars, ~Handle(r)
    PROVE  StepsLeft(r)' = StepsLeft(r)
<1> USE DEF LocksInv, TypeOK, Goto, Finish, Forget
<1>1. pc'[r] = pc[r] /\ todo'[r] = todo[r]
  <2>1. ASSUME NEW q \in Requests, NEW s \in Schemas, Upload(q, s) \/ Activate(q, s) \/ Delete(q, s)
        PROVE  pc'[r] = pc[r] /\ todo'[r] = todo[r]
    <3>1. q # r
      BY <2>1 DEF Upload, Activate, Delete, Busy
    <3> QED BY <2>1, <3>1 DEF Upload, Activate, Delete, Visit
  <2>2. ASSUME NEW q \in Requests \ {r}, Handle(q) PROVE pc'[r] = pc[r] /\ todo'[r] = todo[r]
    BY <2>2 DEF Handle, InsertVersion, ClearStart, ClearRow, Flag, Commit, DeleteRow, CommitDelete, Abort, Visit
  <2>3. ASSUME UNCHANGED <<pc, todo>> PROVE pc'[r] = pc[r] /\ todo'[r] = todo[r]
    BY <2>3
  <2> QED BY <2>1, <2>2, <2>3 DEF Next, RequestJob, RunJob, vars, reqVars
<1> QED BY <1>1 DEF StepsLeft

\* No deadlock lasts, however many requests lock the rows of the table, each in an order of its
\* own: as long as one is under way, one of them waits for no lock or is on a circle that
\* PostgreSQL breaks by aborting it, for only requests under way hold locks; and each has at
\* most four steps more than there are rows, which only its own steps use up
\* (schema_store.py:156-245, session.py:68-81).  That the request that can go on does, and
\* that circles are found, is fairness.
THEOREM NobodyDeadlocks ==
    Spec => [](FlagsAreFree /\ DeletesGoOn /\ SomeoneMoves) /\ [][StepsAreUsed]_vars
<1>1. Init => LocksTaken
  BY OpTypes DEF Init, LocksTaken, HasInserted, Uploading, Activating
<1>2. LocksInv /\ [Next]_vars => LocksInv'
  BY TypeStep, CountStep, FitStep, SeenStep, TurnStep, ExcludeStep, HeldStep DEF LocksInv
<1>3. LocksInv /\ LocksTaken => FlagsAreFree /\ DeletesGoOn /\ SomeoneMoves
  BY FlagsFree, FirstExists, SomeoneCanMove
<1>4. LocksInv /\ [Next]_vars => StepsAreUsed
  <2> SUFFICES ASSUME LocksInv, [Next]_vars, NEW r \in Requests, Busy(r)
               PROVE  /\ StepsLeft(r) \in 0..(MaxRows + 4)
                      /\ StepsLeft(r)' <= StepsLeft(r)
                      /\ Handle(r) => StepsLeft(r)' < StepsLeft(r)
    BY DEF StepsAreUsed
  <2>1. StepsLeft(r) \in 0..(MaxRows + 4)
    <3>1. Cardinality(todo[r]) \in 0..MaxRows
      BY RowsAreFinite DEF LocksInv, TypeOK
    <3> QED BY <3>1, RowsAssumption DEF StepsLeft
  <2>2. TypeOK'
    BY TypeStep
  <2>3. StepsLeft(r)' \in 0..(MaxRows + 4)
    <3>1. Cardinality(todo'[r]) \in 0..MaxRows
      BY <2>2, RowsAreFinite DEF TypeOK
    <3> QED BY <3>1, RowsAssumption DEF StepsLeft
  <2>4. CASE Handle(r)
    BY <2>1, <2>3, <2>4, HandleUsesStep
  <2>5. CASE ~Handle(r)
    BY <2>1, <2>3, <2>5, OthersUseNone
  <2> QED BY <2>1, <2>4, <2>5
<1> QED BY <1>1, <1>2, <1>3, <1>4, TakenStep, LocksInit, PTL DEF Spec
====
