---- MODULE Extraction_proofs ----
(* Extraction for every number of threads, jobs, documents, fields, retries and *)
(* faults: types, what runs save, what holds while runs do not overlap, that the *)
(* system implements JobTicket, that finished jobs stay so and that runs of the  *)
(* same documents and fields do no harm to each other, and that executions end.  *)
EXTENDS Extraction, FiniteSetTheorems, WellFoundedInduction, TLAPS

\* The percentage _bump_progress computes stays within ck_ej_progress
\* (pipeline.py:220-227, schema.sql:170).
LEMMA PercentBound ==
    ASSUME NEW n \in Nat, NEW done \in Nat, done <= n
    PROVE  (IF n = 0 THEN 0 ELSE (100 * done) \div n) \in 0..100
BY SMT

\* The pairs of a run are finitely many, and so are those already done.
LEMMA PairsFinite == IsFiniteSet(Pairs)
BY FiniteAssumption, FS_Product DEF Pairs

\* No more results are done than are wanted.
LEMMA DoneBound ==
    ASSUME NEW W \in SUBSET Pairs, NEW T \in SUBSET Pairs
    PROVE  /\ Cardinality(W) \in Nat
           /\ Cardinality(W \ T) \in Nat
           /\ Cardinality(W \ T) <= Cardinality(W)
<1>1. IsFiniteSet(W) BY PairsFinite, FS_Subset
<1>2. W \ T \subseteq W OBVIOUS
<1>3. IsFiniteSet(W \ T) /\ Cardinality(W \ T) <= Cardinality(W)
  BY <1>1, <1>2, FS_Subset
<1> QED BY <1>1, <1>3, FS_CardinalityType

USE DEF jobVars, docVars, sysVars, runVars

\* Nothing exists, and no worker runs a task.
LEMMA TypeInit == Init => TypeOK
<1> SUFFICES ASSUME Init PROVE TypeOK
  OBVIOUS
<1>1. /\ status \in [Jobs -> Statuses] /\ total \in [Jobs -> Nat]
      /\ completed \in [Jobs -> Nat] /\ progress \in [Jobs -> 0..100]
      /\ ocr \in [Docs -> LiveStatus \cup {"none", "deleted"}]
  BY DEF Init, Statuses
<1>2. /\ rows \subseteq Pairs /\ flagged \subseteq Jobs /\ queue \subseteq Messages
      /\ sweep \subseteq Jobs /\ old \subseteq Jobs
  BY DEF Init
<1>3. /\ pc \in [Workers -> Places] /\ \A w \in Workers : pc[w] = "idle"
      /\ msg \in [Workers -> Messages \cup {NoMessage}]
      /\ sess \in [Workers -> {"ok", "poisoned"}]
      /\ exc \in [Workers -> {"none", "retryable", "fatal"}]
      /\ clash \in [Workers -> BOOLEAN] /\ item \in [Workers -> Pairs \cup {NoPair}]
  BY DEF Init, Places
<1>4. /\ snap \in [Workers -> SUBSET Docs] /\ stale \in [Workers -> SUBSET Docs]
      /\ want \in [Workers -> SUBSET Pairs] /\ todo \in [Workers -> SUBSET Pairs]
      /\ saved \in [Workers -> SUBSET Pairs]
  BY DEF Init
<1>5. faults \in 0..MaxFaults
  BY BoundAssumption DEF Init
<1>6. overlap \in BOOLEAN /\ alike \in BOOLEAN
  BY Zenon DEF Init
<1> QED BY <1>1, <1>2, <1>3, <1>4, <1>5, <1>6 DEF TypeOK

\* Every action keeps the types.
LEMMA TypeStep == TypeOK /\ [Next]_vars => TypeOK'
<1> SUFFICES ASSUME TypeOK, [Next]_vars PROVE TypeOK'
  OBVIOUS
<1> USE BoundAssumption
<1>a. ASSUME NEW w \in Workers, pc[w] # "idle"
      PROVE  msg[w] \in Messages /\ MyJob(w) \in Jobs /\ Retried(w) \subseteq Messages
  BY <1>a DEF TypeOK, Messages, MyJob, Retried
<1>b. \A w \in Workers : {d \in Present : ocr[d] # "ocr_in_progress"} \subseteq Docs /\ Present \subseteq Docs
  BY DEF Present
<1>c. \A w \in Workers : /\ Done(w) \in Nat /\ Cardinality(want[w]) \in Nat
                        /\ Done(w) <= Cardinality(want[w])
  BY DoneBound DEF Done, TypeOK

<1>1. ASSUME NEW d \in Docs, UploadDocument(d) PROVE TypeOK'
  BY <1>1, SMTT(30) DEF UploadDocument, TypeOK, LiveStatus
<1>2. ASSUME NEW d \in Docs, DeleteDocument(d) PROVE TypeOK'
  BY <1>2, SMTT(30) DEF DeleteDocument, TypeOK, LiveStatus, Present
<1>3. ASSUME NEW j \in Jobs, TriggerExtraction(j) PROVE TypeOK'
  BY <1>3, SMTT(30) DEF TriggerExtraction, TypeOK, Statuses, Messages, Fault
<1>4. ASSUME NEW j \in Jobs, NEW D \in SUBSET Docs, ExtractPdf(j, D) PROVE TypeOK'
  BY <1>4, SMTT(30) DEF ExtractPdf, TypeOK, Statuses, Messages, LiveStatus, Fault
<1>5. ASSUME NEW w \in Workers, NEW m \in queue, Receive(w, m) PROVE TypeOK'
  BY <1>5, SMTT(30) DEF Receive, TypeOK, Goto, Places
<1>6. ASSUME NEW w \in Workers, Load(w) PROVE TypeOK'
  <2>1. PICK F \in JobFields[MyJob(w)] \cup {Fields} :
          want' = [want EXCEPT ![w] = IF Present = {} THEN {} ELSE F \X Present]
    BY <1>6 DEF Load
  <2>2. F \subseteq Fields
    BY <1>6, <1>a, SchemaAssumption DEF Load
  <2>3. F \X Present \subseteq Pairs
    BY <1>b, <2>2 DEF Pairs
  <2>4. want' \in [Workers -> SUBSET Pairs]
    BY <2>1, <2>3 DEF TypeOK
  <2>5. /\ snap' \in [Workers -> SUBSET Docs] /\ stale' \in [Workers -> SUBSET Docs]
        /\ pc' \in [Workers -> Places]
        /\ \A v \in Workers : v # w => pc'[v] = pc[v]
        /\ pc'[w] \in {"empty", "wipe"} /\ pc[w] # "idle"
    BY <1>6, <1>b DEF Load, TypeOK, Goto, Places
  <2>6. UNCHANGED <<jobVars, docVars, queue, sweep, old, faults, overlap, msg, sess, exc, todo, item, clash, saved>>
    BY <1>6 DEF Load
  <2>7. alike' \in BOOLEAN
    BY <1>6, Zenon DEF Load, TypeOK
  <2> QED BY <1>a, <2>4, <2>5, <2>6, <2>7 DEF TypeOK
<1>7. ASSUME NEW w \in Workers, CompleteEmpty(w) PROVE TypeOK'
  BY <1>7, <1>a, SMTT(30) DEF CompleteEmpty, TypeOK, Goto, Places, Statuses
<1>8. ASSUME NEW w \in Workers, Wipe(w) PROVE TypeOK'
  <2>1. CASE stale[w] \subseteq Present
    <3>1. /\ ocr' = [d \in Docs |-> IF d \in stale[w] THEN "ocr_in_progress" ELSE ocr[d]]
          /\ rows' = rows \ Wiped(w)
          /\ clash' = [v \in Workers |->
                         clash[v] /\ ~(v # w /\ pc[v] = "insert" /\ item[v][2] \in snap[w])]
          /\ pc' = [pc EXCEPT ![w] = "start"] /\ pc[w] = "wipe"
          /\ UNCHANGED <<sess, exc>>
          /\ UNCHANGED <<jobVars, flagged, sysVars, msg, snap, stale, want, todo, item, saved>>
      BY <1>8, <2>1 DEF Wipe, Goto
    <3>2. ocr' \in [Docs -> LiveStatus \cup {"none", "deleted"}]
      BY <3>1 DEF TypeOK, LiveStatus
    <3>3. clash' \in [Workers -> BOOLEAN]
      BY <3>1, Zenon DEF TypeOK
    <3>4. rows' \subseteq Pairs
      BY <3>1 DEF TypeOK
    <3>5. /\ pc' \in [Workers -> Places]
          /\ \A v \in Workers : pc'[v] # "idle" => pc[v] # "idle"
          /\ \A v \in Workers : pc'[v] \in {"insert", "bump"} => pc[v] \in {"insert", "bump"}
      BY <3>1 DEF TypeOK, Places
    <3> QED BY <3>1, <3>2, <3>3, <3>4, <3>5 DEF TypeOK
  <2>2. CASE ~(stale[w] \subseteq Present)
    BY <1>8, <2>2 DEF Wipe, TypeOK, Goto, Places, Poison
  <2> QED BY <2>1, <2>2
<1>9. ASSUME NEW w \in Workers, Start(w) PROVE TypeOK'
  <2>1. pc[w] = "start" /\ MyJob(w) \in Jobs /\ UNCHANGED <<docVars, sysVars, msg, sess, snap, stale, want, item, clash, saved>>
    BY <1>9, <1>a DEF Start
  <2>2. CASE DocsGone(w)
    BY <1>9, <2>1, <2>2, SMTT(30) DEF Start, TypeOK, Goto, Places
  <2>3. CASE ~DocsGone(w)
    <3>1. /\ status' \in [Jobs -> Statuses] /\ total' \in [Jobs -> Nat]
          /\ completed' \in [Jobs -> Nat] /\ progress' \in [Jobs -> 0..100]
      BY <1>9, <2>1, <2>3 DEF Start, TypeOK, Statuses
    <3>2. /\ todo' \in [Workers -> SUBSET Pairs]
          /\ pc' = [pc EXCEPT ![w] = "loop"] /\ exc' = exc
      BY <1>9, <2>3 DEF Start, TypeOK, Goto
    <3> QED BY <2>1, <3>1, <3>2, SMTT(30) DEF TypeOK, Places
  <2> QED BY <2>2, <2>3
<1>10. ASSUME NEW w \in Workers, PersistDelete(w) PROVE TypeOK'
  BY <1>10, SMTT(30) DEF PersistDelete, TypeOK, Goto, Places
<1>11. ASSUME NEW w \in Workers, PersistInsert(w) PROVE TypeOK'
  <2>1. clash' \in [Workers -> BOOLEAN]
    <3>1. CASE ~InsertFails(w)
      <4>1. clash' = [v \in Workers |->
                       clash[v] \/ (v # w /\ pc[v] = "insert" /\ item[v] = item[w])]
        BY <1>11, <3>1 DEF PersistInsert
      <4> QED BY <4>1, Zenon DEF TypeOK
    <3>2. CASE InsertFails(w)
      BY <1>11, <3>2 DEF PersistInsert, TypeOK
    <3> QED BY <3>1, <3>2
  <2>2. /\ rows' \subseteq Pairs /\ saved' \in [Workers -> SUBSET Pairs]
        /\ sess' \in [Workers -> {"ok", "poisoned"}]
    BY <1>11 DEF PersistInsert, TypeOK, SessionAfterError
  <2>3. /\ pc' \in [Workers -> Places] /\ item[w] \in Pairs /\ msg[w] \in Messages
        /\ \A v \in Workers : v # w => pc'[v] = pc[v]
    BY <1>11 DEF PersistInsert, TypeOK, Goto, Places
  <2>4. UNCHANGED <<jobVars, ocr, flagged, sysVars, msg, exc, snap, stale, want, todo, item>>
    BY <1>11 DEF PersistInsert
  <2> QED BY <2>1, <2>2, <2>3, <2>4 DEF TypeOK
<1>12. ASSUME NEW w \in Workers, BumpProgress(w) PROVE TypeOK'
  <2> DEFINE j == MyJob(w)
             n == Cardinality(want[w])
             percent == IF n = 0 THEN 0 ELSE (100 * Done(w)) \div n
  <2>1. pc[w] = "bump" /\ j \in Jobs /\ Done(w) \in Nat /\ n \in Nat /\ Done(w) <= n
    BY <1>12, <1>a, <1>c DEF BumpProgress
  <2>2. percent \in 0..100
    BY <2>1, PercentBound
  <2>3. \/ /\ completed' = [completed EXCEPT ![j] = Done(w)]
           /\ total' = [total EXCEPT ![j] = n]
           /\ progress' = [progress EXCEPT ![j] = percent]
        \/ UNCHANGED <<completed, total, progress>>
    BY <1>12 DEF BumpProgress
  <2>4. /\ completed' \in [Jobs -> Nat] /\ total' \in [Jobs -> Nat]
        /\ progress' \in [Jobs -> 0..100]
    <3> HIDE DEF percent, n
    <3> QED BY <2>1, <2>2, <2>3 DEF TypeOK
  <2>5. /\ pc' = [pc EXCEPT ![w] = "loop"]
        /\ item' = [item EXCEPT ![w] = NoPair]
        /\ clash' = [clash EXCEPT ![w] = FALSE]
        /\ UNCHANGED <<status, docVars, sysVars, msg, sess, exc, snap, stale, want, todo, saved>>
    BY <1>12 DEF BumpProgress, Goto
  <2> QED BY <2>1, <2>4, <2>5 DEF TypeOK, Places
<1>13. ASSUME NEW w \in Workers, MarkDocsComplete(w) PROVE TypeOK'
  BY <1>13, SMTT(30) DEF MarkDocsComplete, TypeOK, Goto, Places, SetDocs, Poison, LiveStatus
<1>14. ASSUME NEW w \in Workers, EndPoisoned(w) PROVE TypeOK'
  BY <1>14, SMTT(30) DEF EndPoisoned, TypeOK, Goto, Places
<1>15. ASSUME NEW w \in Workers, LogRedFlags(w) PROVE TypeOK'
  BY <1>15, <1>a, SMTT(30) DEF LogRedFlags, TypeOK, Goto, Places, Poison
<1>16. ASSUME NEW w \in Workers, CompleteJob(w) PROVE TypeOK'
  BY <1>16, <1>a, SMTT(30) DEF CompleteJob, TypeOK, Goto, Places, Statuses
<1>17. ASSUME NEW w \in Workers, FailJob(w) PROVE TypeOK'
  BY <1>17, <1>a, SMTT(30) DEF FailJob, TypeOK, Goto, Places, Statuses
<1>18. ASSUME NEW w \in Workers, MarkDocsFailed(w) PROVE TypeOK'
  BY <1>18, SMTT(30) DEF MarkDocsFailed, TypeOK, Goto, Places, SetDocs, Poison, LiveStatus
<1>19. ASSUME NEW w \in Workers, HandleException(w) PROVE TypeOK'
  BY <1>19, <1>a, SMTT(30) DEF HandleException, TypeOK, Goto, Places, Statuses
<1>20. ASSUME NEW w \in Workers, Ack(w) PROVE TypeOK'
  BY <1>20, <1>a, SMTT(30) DEF Ack, TypeOK, Release, Goto, Places
<1>21. ASSUME NEW w \in Workers, CoordinatorRaises(w) PROVE TypeOK'
  BY <1>21, SMTT(30) DEF CoordinatorRaises, TypeOK, Goto, Places, Fault
<1>22. ASSUME NEW w \in Workers, PersistFails(w) PROVE TypeOK'
  BY <1>22, SMTT(30) DEF PersistFails, TypeOK, Goto, Places, Fault, SessionAfterError
<1>23. ASSUME NEW w \in Workers, WorkerLost(w) PROVE TypeOK'
  BY <1>23, <1>a, SMTT(30) DEF WorkerLost, TypeOK, Release, Goto, Places, Fault
<1>24. ASSUME NEW w \in Workers, TimeLimit(w) PROVE TypeOK'
  BY <1>24, SMTT(30) DEF TimeLimit, TypeOK, Release, Goto, Places, Fault
<1>25. ASSUME NEW w \in Workers, VisibilityTimeout(w) PROVE TypeOK'
  BY <1>25, <1>a, SMTT(30) DEF VisibilityTimeout, TypeOK, Fault
<1>26. ASSUME NEW S \in SUBSET Jobs, SweepSelect(S) PROVE TypeOK'
  BY <1>26, SMTT(30) DEF SweepSelect, TypeOK
<1>27. ASSUME SweepCommit PROVE TypeOK'
  BY <1>27, SMTT(30) DEF SweepCommit, TypeOK, Statuses
<1>28. CASE UNCHANGED vars
  BY <1>28 DEF vars, TypeOK
<1> QED
  BY <1>1, <1>2, <1>3, <1>4, <1>5, <1>6, <1>7, <1>8, <1>9, <1>10, <1>11, <1>12, <1>13, <1>14, <1>15, <1>16, <1>17, <1>18, <1>19, <1>20, <1>21, <1>22, <1>23, <1>24, <1>25, <1>26, <1>27, <1>28 DEF Next, Api, Work, Failure, Sweeper

\* Every variable keeps its type, whatever the workers, the clients and the
\* environment do (the ck_ constraints of orm.py and schema.sql among them).
THEOREM TypeCorrect == Spec => []TypeOK
BY TypeInit, TypeStep, PTL DEF Spec

----------------------------------------------------------------------------
(* Field values and their documents *)

\* There are no rows.
LEMMA RowsInit == Init => RowsHaveDocument
BY DEF Init, RowsHaveDocument

\* Only DeleteDocument takes a document out of Present, and it cascades; only
\* PersistInsert adds a row, and the foreign key checks it.
LEMMA RowsStep == TypeOK /\ RowsHaveDocument /\ [Next]_vars => RowsHaveDocument'
<1> SUFFICES ASSUME TypeOK, RowsHaveDocument, [Next]_vars PROVE RowsHaveDocument'
  OBVIOUS
<1>1. ASSUME NEW d \in Docs, UploadDocument(d) PROVE RowsHaveDocument'
  BY <1>1 DEF UploadDocument, TypeOK, RowsHaveDocument, Present, LiveStatus
<1>2. ASSUME NEW d \in Docs, DeleteDocument(d) PROVE RowsHaveDocument'
  BY <1>2 DEF DeleteDocument, TypeOK, RowsHaveDocument, LiveStatus, Present
<1>3. ASSUME NEW j \in Jobs, NEW D \in SUBSET Docs, ExtractPdf(j, D) PROVE RowsHaveDocument'
  BY <1>3 DEF ExtractPdf, TypeOK, RowsHaveDocument, LiveStatus, Present
<1>4. ASSUME NEW w \in Workers, Wipe(w) PROVE RowsHaveDocument'
  BY <1>4 DEF Wipe, TypeOK, RowsHaveDocument, Present, LiveStatus, Wiped
<1>5. ASSUME NEW w \in Workers, PersistInsert(w) PROVE RowsHaveDocument'
  BY <1>5 DEF PersistInsert, TypeOK, RowsHaveDocument, Present, InsertFails
<1>6. ASSUME NEW w \in Workers, MarkDocsComplete(w) PROVE RowsHaveDocument'
  BY <1>6 DEF MarkDocsComplete, TypeOK, RowsHaveDocument, SetDocs, Present, DocsGone, LiveStatus
<1>7. ASSUME NEW w \in Workers, MarkDocsFailed(w) PROVE RowsHaveDocument'
  BY <1>7 DEF MarkDocsFailed, TypeOK, RowsHaveDocument, SetDocs, Present, DocsGone, LiveStatus
<1>8. CASE UNCHANGED <<rows, ocr>>
  BY <1>8 DEF RowsHaveDocument, Present
<1> QED
  BY <1>1, <1>2, <1>3, <1>4, <1>5, <1>6, <1>7, <1>8
     DEF Next, Api, Work, Failure, Sweeper, vars, TriggerExtraction, Receive, Load,
         CompleteEmpty, Start, PersistDelete, BumpProgress, EndPoisoned, LogRedFlags,
         CompleteJob, FailJob, HandleException, Ack, CoordinatorRaises, PersistFails,
         WorkerLost, TimeLimit, VisibilityTimeout, SweepSelect, SweepCommit

\* A field value never outlives its document, for any number of workers, jobs,
\* documents and faults (pipeline.py:158-195, documents.py:162-183).
THEOREM RowsKeepTheirDocument == Spec => []RowsHaveDocument
BY TypeInit, TypeStep, RowsInit, RowsStep, PTL DEF Spec

----------------------------------------------------------------------------
(* What a run has committed *)

\* The inductive form of CompletingRunsSavedAll: while its session works, a run has
\* committed exactly the results it has gone through, but for the one in hand.
RunSaved ==
    \A w \in Workers :
        /\ pc[w] \in {"idle", "load", "wipe", "start"} => saved[w] = {}
        /\ pc[w] \in {"loop", "insert", "bump"} => todo[w] \subseteq want[w]
        /\ pc[w] \in {"loop", "bump"} /\ sess[w] = "ok" => saved[w] = want[w] \ todo[w]
        /\ pc[w] = "insert" => saved[w] \cup {item[w]} = want[w] \ todo[w]
        /\ pc[w] \in {"flags", "complete"} => saved[w] = want[w]

\* No run is under way.
LEMMA SavedInit == Init => RunSaved
BY DEF Init, RunSaved

\* A run goes on from a result once it is committed, or its session is poisoned.
LEMMA SavedStep == TypeOK /\ RunSaved /\ [Next]_vars => RunSaved'
<1> SUFFICES ASSUME TypeOK, RunSaved, [Next]_vars PROVE RunSaved'
  OBVIOUS
<1>1. ASSUME NEW w \in Workers, NEW m \in queue, Receive(w, m) PROVE RunSaved'
  BY <1>1 DEF Receive, Goto, TypeOK, RunSaved
<1>2. ASSUME NEW w \in Workers, Load(w) PROVE RunSaved'
  BY <1>2 DEF Load, Goto, TypeOK, RunSaved
<1>3. ASSUME NEW w \in Workers, CompleteEmpty(w) PROVE RunSaved'
  BY <1>3 DEF CompleteEmpty, Goto, TypeOK, RunSaved
<1>4. ASSUME NEW w \in Workers, Wipe(w) PROVE RunSaved'
  BY <1>4 DEF Wipe, Goto, TypeOK, RunSaved, Poison
<1>5. ASSUME NEW w \in Workers, Start(w) PROVE RunSaved'
  BY <1>5 DEF Start, Goto, TypeOK, RunSaved
<1>6. ASSUME NEW w \in Workers, PersistDelete(w) PROVE RunSaved'
  BY <1>6 DEF PersistDelete, Goto, TypeOK, RunSaved
<1>7. ASSUME NEW w \in Workers, PersistInsert(w) PROVE RunSaved'
  BY <1>7 DEF PersistInsert, Goto, TypeOK, RunSaved, SessionAfterError
<1>8. ASSUME NEW w \in Workers, BumpProgress(w) PROVE RunSaved'
  BY <1>8 DEF BumpProgress, Goto, TypeOK, RunSaved
<1>9. ASSUME NEW w \in Workers, MarkDocsComplete(w) PROVE RunSaved'
  <2>1. /\ pc[w] = "loop" /\ sess[w] = "ok" /\ todo[w] = {}
        /\ \/ pc' = [pc EXCEPT ![w] = "flags"]
           \/ pc' = [pc EXCEPT ![w] = "raise"]
        /\ \A v \in Workers : v # w => sess'[v] = sess[v]
        /\ UNCHANGED <<want, todo, item, saved>>
    BY <1>9 DEF MarkDocsComplete, Goto, Poison, TypeOK
  <2>2. saved[w] = want[w]
    BY <2>1 DEF RunSaved
  <2> QED BY <2>1, <2>2 DEF RunSaved, TypeOK
<1>10. ASSUME NEW w \in Workers, EndPoisoned(w) PROVE RunSaved'
  BY <1>10 DEF EndPoisoned, Goto, TypeOK, RunSaved
<1>11. ASSUME NEW w \in Workers, LogRedFlags(w) PROVE RunSaved'
  BY <1>11 DEF LogRedFlags, Goto, TypeOK, RunSaved, Poison
<1>12. ASSUME NEW w \in Workers, CompleteJob(w) PROVE RunSaved'
  BY <1>12 DEF CompleteJob, Goto, TypeOK, RunSaved
<1>13. ASSUME NEW w \in Workers, FailJob(w) PROVE RunSaved'
  BY <1>13 DEF FailJob, Goto, TypeOK, RunSaved
<1>14. ASSUME NEW w \in Workers, MarkDocsFailed(w) PROVE RunSaved'
  BY <1>14 DEF MarkDocsFailed, Goto, TypeOK, RunSaved, Poison
<1>15. ASSUME NEW w \in Workers, HandleException(w) PROVE RunSaved'
  BY <1>15 DEF HandleException, Goto, TypeOK, RunSaved
<1>16. ASSUME NEW w \in Workers, Ack(w) PROVE RunSaved'
  BY <1>16 DEF Ack, Goto, TypeOK, RunSaved, Release
<1>17. ASSUME NEW w \in Workers, CoordinatorRaises(w) PROVE RunSaved'
  BY <1>17 DEF CoordinatorRaises, Goto, TypeOK, RunSaved
<1>18. ASSUME NEW w \in Workers, PersistFails(w) PROVE RunSaved'
  BY <1>18 DEF PersistFails, Goto, TypeOK, RunSaved, SessionAfterError
<1>19. ASSUME NEW w \in Workers, WorkerLost(w) PROVE RunSaved'
  BY <1>19 DEF WorkerLost, Goto, TypeOK, RunSaved, Release
<1>20. ASSUME NEW w \in Workers, TimeLimit(w) PROVE RunSaved'
  BY <1>20 DEF TimeLimit, Goto, TypeOK, RunSaved, Release
<1>21. CASE UNCHANGED <<pc, sess, want, todo, item, saved>>
  BY <1>21 DEF RunSaved
<1> QED
  BY <1>1, <1>2, <1>3, <1>4, <1>5, <1>6, <1>7, <1>8, <1>9, <1>10, <1>11, <1>12, <1>13, <1>14, <1>15, <1>16, <1>17, <1>18, <1>19, <1>20, <1>21
     DEF Next, Api, Work, Failure, Sweeper, vars, UploadDocument, DeleteDocument,
         TriggerExtraction, ExtractPdf, VisibilityTimeout, SweepSelect, SweepCommit

\* So it holds throughout.
LEMMA SavedAlways == Spec => [](TypeOK /\ RunSaved)
BY TypeInit, TypeStep, SavedInit, SavedStep, PTL DEF Spec

\* A run that completes has gone through all its results.
LEMMA SavedImplies == RunSaved => CompletingRunsSavedAll
BY DEF RunSaved, CompletingRunsSavedAll

\* No job becomes complete over a result that was swallowed on its way to the
\* database (coordinator.py:231-242, pipeline.py:119-144).
THEOREM CompletingRunsLoseNothing == Spec => []CompletingRunsSavedAll
BY SavedAlways, SavedImplies, PTL

----------------------------------------------------------------------------
(* Runs that do not overlap: the polled progress is backed by rows, and a finished run *)
(* leaves only its own.                                                               *)

\* Two executions that are under way at the same time have overlapped.
OneRun ==
    ~overlap => \A v, w \in Workers : pc[v] # "idle" /\ pc[w] # "idle" => v = w

\* No run is under way.
LEMMA OneRunInit == Init => OneRun
BY DEF Init, OneRun

\* A run that starts beside another one is recorded as an overlap.
LEMMA OneRunStep == TypeOK /\ OneRun /\ [Next]_vars => OneRun'
<1> SUFFICES ASSUME TypeOK, OneRun, [Next]_vars PROVE OneRun'
  OBVIOUS
<1>1. ASSUME NEW w \in Workers, NEW m \in queue, Receive(w, m) PROVE OneRun'
  <2>1. /\ overlap' = (overlap \/ \E v \in Workers \ {w} : pc[v] # "idle")
        /\ pc' = [pc EXCEPT ![w] = "load"]
    BY <1>1 DEF Receive, Goto
  <2> QED BY <2>1 DEF OneRun, TypeOK
<1>2. ASSUME UNCHANGED overlap, \A w \in Workers : pc'[w] # "idle" => pc[w] # "idle"
      PROVE  OneRun'
  BY <1>2 DEF OneRun
<1>3. ASSUME NEW w \in Workers, Work(w) \/ Failure(w)
      PROVE  UNCHANGED overlap /\ \A v \in Workers : pc'[v] # "idle" => pc[v] # "idle"
  BY <1>3 DEF Work, Failure, Load, CompleteEmpty, Wipe, Start, PersistDelete, PersistInsert,
     BumpProgress, MarkDocsComplete, EndPoisoned, LogRedFlags, CompleteJob, FailJob,
     MarkDocsFailed, HandleException, Ack, CoordinatorRaises, PersistFails, WorkerLost,
     TimeLimit, VisibilityTimeout, Release, Goto, TypeOK
<1>4. CASE UNCHANGED <<overlap, pc>>
  BY <1>4 DEF OneRun
<1> QED
  BY <1>1, <1>2, <1>3, <1>4
     DEF Next, Api, Sweeper, vars, UploadDocument, DeleteDocument, TriggerExtraction,
         ExtractPdf, SweepSelect, SweepCommit

----------------------------------------------------------------------------
(* The progress a client polls *)

\* No run is under way.
LEMMA ProgressInit == Init => ProgressCountsSavedResults
BY DEF Init, ProgressCountsSavedResults

\* A larger set of pairs does not count fewer.
LEMMA CountGrows ==
    ASSUME NEW A \in SUBSET Pairs, NEW B \in SUBSET A
    PROVE  Cardinality(A) \in Nat /\ Cardinality(B) \in Nat /\ Cardinality(B) <= Cardinality(A)
BY PairsFinite, FS_Subset, FS_CardinalityType

\* Only the one run that is under way counts, after its commit.
LEMMA ProgressStep ==
    /\ TypeOK /\ RunSaved /\ OneRun /\ ProgressCountsSavedResults /\ [Next]_vars
    => ProgressCountsSavedResults'
<1> DEFINE Counted == {"loop", "insert", "bump"}
<1> SUFFICES ASSUME TypeOK, RunSaved, OneRun, ProgressCountsSavedResults, [Next]_vars, ~overlap',
                    NEW w \in Workers, pc'[w] \in Counted
             PROVE  completed'[MyJob(w)'] <= Cardinality(saved'[w])
  BY DEF ProgressCountsSavedResults
<1>0. ~overlap /\ (pc[w] \in Counted => completed[MyJob(w)] <= Cardinality(saved[w]))
  <2>1. ~overlap
    BY DEF Next, Api, Work, Failure, Sweeper, vars, UploadDocument, DeleteDocument,
       TriggerExtraction, ExtractPdf, SweepSelect, SweepCommit, Receive, Load, CompleteEmpty,
       Wipe, Start, PersistDelete, PersistInsert, BumpProgress, MarkDocsComplete, EndPoisoned,
       LogRedFlags, CompleteJob, FailJob, MarkDocsFailed, HandleException, Ack,
       CoordinatorRaises, PersistFails, WorkerLost, TimeLimit, VisibilityTimeout
  <2> QED BY <2>1 DEF ProgressCountsSavedResults
\* A step that leaves this run's counters and rows alone.
<1>1. ASSUME UNCHANGED <<completed, msg, saved>>, pc[w] \in Counted
      PROVE  completed'[MyJob(w)'] <= Cardinality(saved'[w])
  BY <1>0, <1>1 DEF MyJob
<1>2. ASSUME NEW v \in Workers, NEW m \in queue, Receive(v, m)
      PROVE  FALSE
  <2>1. pc'[v] = "load" /\ \A u \in Workers \ {v} : pc'[u] = pc[u] /\ pc[u] = "idle"
    BY <1>0, <1>2 DEF Receive, Goto, TypeOK
  <2> QED BY <2>1
<1>3. ASSUME NEW v \in Workers, Work(v) \/ CoordinatorRaises(v) \/ PersistFails(v) \/ WorkerLost(v) \/ TimeLimit(v)
      PROVE  completed'[MyJob(w)'] <= Cardinality(saved'[w])
  <2>1. pc[v] # "idle" /\ \A u \in Workers \ {v} : pc'[u] = pc[u]
    BY <1>3 DEF Work, Load, CompleteEmpty, Wipe, Start, PersistDelete, PersistInsert,
       BumpProgress, MarkDocsComplete, EndPoisoned, LogRedFlags, CompleteJob, FailJob,
       MarkDocsFailed, HandleException, Ack, CoordinatorRaises, PersistFails, WorkerLost,
       TimeLimit, Release, Goto, TypeOK
  <2>2. v = w
    BY <1>0, <2>1 DEF OneRun
  <2>3. CASE Start(w)
    <3>1. completed'[MyJob(w)] = 0 /\ UNCHANGED <<msg, saved>>
      BY <2>3 DEF Start, TypeOK, MyJob, Messages, Goto
    <3>2. Cardinality(saved[w]) \in Nat
      BY CountGrows DEF TypeOK
    <3> QED BY <3>1, <3>2 DEF MyJob
  <2>4. CASE PersistInsert(w)
    <3>1. /\ pc[w] = "insert" /\ UNCHANGED <<completed, msg>>
          /\ \/ saved'[w] = saved[w] \cup {item[w]}
             \/ saved'[w] = saved[w]
          /\ item[w] \in Pairs
      BY <2>4 DEF PersistInsert, TypeOK
    <3>2. saved'[w] \in SUBSET Pairs /\ saved[w] \subseteq saved'[w]
      BY <3>1 DEF TypeOK
    <3>3. Cardinality(saved'[w]) \in Nat /\ Cardinality(saved[w]) \in Nat /\ Cardinality(saved[w]) <= Cardinality(saved'[w])
      BY <3>2, CountGrows
    <3>4. completed[MyJob(w)] \in Nat
      BY <3>1 DEF TypeOK, MyJob, Messages
    <3>5. completed'[MyJob(w)'] = completed[MyJob(w)]
      BY <3>1 DEF MyJob
    <3> QED BY <1>0, <3>1, <3>3, <3>4, <3>5
  <2>5. CASE BumpProgress(w)
    <3>1. /\ pc[w] = "bump" /\ MyJob(w) \in Jobs /\ UNCHANGED <<msg, saved>>
          /\ \/ sess[w] = "ok" /\ completed'[MyJob(w)] = Done(w)
             \/ UNCHANGED completed
      BY <2>5 DEF BumpProgress, TypeOK, MyJob, Messages, CanBump
    <3>2. CASE UNCHANGED completed
      BY <1>1, <3>1, <3>2
    <3>3. CASE sess[w] = "ok" /\ completed'[MyJob(w)] = Done(w)
      <4>1. Done(w) = Cardinality(saved[w])
        BY <3>1, <3>3 DEF RunSaved, Done
      <4>2. Done(w) \in Nat
        BY DoneBound DEF Done, TypeOK
      <4> QED BY <3>1, <3>3, <4>1, <4>2 DEF MyJob
    <3> QED BY <3>1, <3>2, <3>3
  <2>6. CASE PersistDelete(w)
    BY <1>1, <2>6 DEF PersistDelete
  <2>7. CASE PersistFails(w)
    BY <1>1, <2>7 DEF PersistFails
  <2>8. CASE ~(Start(w) \/ PersistInsert(w) \/ BumpProgress(w) \/ PersistDelete(w) \/ PersistFails(w))
    <3>1. pc'[w] \notin Counted
      BY <1>3, <2>2, <2>8 DEF Work, Load, CompleteEmpty, Wipe, MarkDocsComplete, EndPoisoned,
         LogRedFlags, CompleteJob, FailJob, MarkDocsFailed, HandleException, Ack,
         CoordinatorRaises, WorkerLost, TimeLimit, Release, Goto, TypeOK
    <3> QED BY <3>1
  <2> QED BY <2>3, <2>4, <2>5, <2>6, <2>7, <2>8
<1>4. CASE UNCHANGED <<completed, msg, saved, pc>>
  BY <1>1, <1>4
<1> QED
  BY <1>2, <1>3, <1>4
     DEF Next, Api, Failure, Sweeper, vars, UploadDocument, DeleteDocument, TriggerExtraction,
         ExtractPdf, VisibilityTimeout, SweepSelect, SweepCommit

\* While executions do not overlap, the progress a client polls is backed by
\* committed results, for any number of fields and documents (pipeline.py:220-227).
THEOREM ProgressIsBacked == Spec => []ProgressCountsSavedResults
<1>1. Init => TypeOK /\ RunSaved /\ OneRun /\ ProgressCountsSavedResults
  BY TypeInit, SavedInit, OneRunInit, ProgressInit
<1>2. /\ TypeOK /\ RunSaved /\ OneRun /\ ProgressCountsSavedResults
      /\ [Next]_vars
      => (TypeOK /\ RunSaved /\ OneRun /\ ProgressCountsSavedResults)'
  BY TypeStep, SavedStep, OneRunStep, ProgressStep
<1> QED BY <1>1, <1>2, PTL DEF Spec

----------------------------------------------------------------------------
(* The rows a run leaves behind *)

\* A run works on documents that have existed since it read them, and on pairs
\* over those documents.
Scope ==
    \A w \in Workers :
        /\ \A d \in snap[w] : ocr[d] # "none"
        /\ \A p \in want[w] \cup saved[w] : p[2] \in snap[w]

\* No run is under way.
LEMMA ScopeInit == Init => Scope
BY DEF Init, Scope

\* A run takes its documents once, in Load, and its pairs from them.
LEMMA ScopeStep == TypeOK /\ RunSaved /\ Scope /\ [Next]_vars => Scope'
<1> SUFFICES ASSUME TypeOK, RunSaved, Scope, [Next]_vars PROVE Scope'
  OBVIOUS
\* No action takes a document back to "none".
<1>1. \A d \in Docs : ocr[d] # "none" => ocr'[d] # "none"
  BY DEF Next, Api, Work, Failure, Sweeper, vars, UploadDocument, DeleteDocument,
     TriggerExtraction, ExtractPdf, SweepSelect, SweepCommit, Receive, Load, CompleteEmpty,
     Wipe, Start, PersistDelete, PersistInsert, BumpProgress, MarkDocsComplete, EndPoisoned,
     LogRedFlags, CompleteJob, FailJob, MarkDocsFailed, HandleException, Ack, SetDocs,
     CoordinatorRaises, PersistFails, WorkerLost, TimeLimit, VisibilityTimeout, TypeOK
<1>2. ASSUME UNCHANGED <<snap, want, saved>> PROVE Scope'
  BY <1>1, <1>2 DEF Scope, TypeOK
<1>3. ASSUME NEW w \in Workers, Load(w) PROVE Scope'
  <2>1. /\ snap' = [snap EXCEPT ![w] = Present]
        /\ \A p \in want'[w] : p[2] \in Present
        /\ \A v \in Workers \ {w} : want'[v] = want[v]
        /\ UNCHANGED saved
    BY <1>3 DEF Load, TypeOK
  <2>2. \A d \in Present : ocr'[d] # "none"
    BY <1>1 DEF Present, LiveStatus
  <2>3. saved[w] = {}
    BY <1>3 DEF Load, RunSaved
  <2> QED BY <1>1, <2>1, <2>2, <2>3 DEF Scope, TypeOK
<1>4. ASSUME NEW w \in Workers, PersistInsert(w) PROVE Scope'
  <2>1. /\ pc[w] = "insert" /\ UNCHANGED <<snap, want>>
        /\ \A v \in Workers \ {w} : saved'[v] = saved[v]
        /\ saved'[w] \subseteq saved[w] \cup {item[w]}
    BY <1>4 DEF PersistInsert, TypeOK
  <2>2. saved[w] \cup {item[w]} \subseteq want[w]
    BY <2>1 DEF RunSaved
  <2> QED BY <1>1, <2>1, <2>2 DEF Scope, TypeOK
<1>5. ASSUME NEW w \in Workers, Release(w) PROVE Scope'
  BY <1>1, <1>5 DEF Release, Scope, TypeOK
<1> QED
  BY <1>2, <1>3, <1>4, <1>5
     DEF Next, Api, Work, Failure, Sweeper, vars, UploadDocument, DeleteDocument,
         TriggerExtraction, ExtractPdf, SweepSelect, SweepCommit, Receive, CompleteEmpty,
         Wipe, Start, PersistDelete, BumpProgress, MarkDocsComplete, EndPoisoned,
         LogRedFlags, CompleteJob, FailJob, MarkDocsFailed, HandleException, Ack,
         CoordinatorRaises, PersistFails, WorkerLost, TimeLimit, VisibilityTimeout

\* From its wipe on, a run finds on its documents exactly the rows it committed
\* itself, but for those whose document was deleted.
OwnRows ==
    ~overlap =>
        \A w \in Workers :
            pc[w] \in {"start", "loop", "insert", "bump", "flags", "complete"}
                => {p \in rows : p[2] \in snap[w]} = {p \in saved[w] : p[2] \in Present}

\* No run is under way.
LEMMA OwnRowsInit == Init => OwnRows
BY DEF Init, OwnRows

\* The wipe leaves no row, and only the one run and deletions change rows then.
LEMMA OwnRowsStep ==
    TypeOK /\ RunSaved /\ OneRun /\ Scope /\ RowsHaveDocument /\ OwnRows /\ [Next]_vars => OwnRows'
<1> DEFINE Owning == {"start", "loop", "insert", "bump", "flags", "complete"}
           Own(w) == {p \in rows : p[2] \in snap[w]} = {p \in saved[w] : p[2] \in Present}
<1> SUFFICES ASSUME TypeOK, RunSaved, OneRun, Scope, RowsHaveDocument, OwnRows, [Next]_vars,
                    ~overlap', NEW w \in Workers, pc'[w] \in Owning
             PROVE  Own(w)'
  BY DEF OwnRows
<1>0. ~overlap /\ (pc[w] \in Owning => Own(w))
  <2>1. ~overlap
    BY DEF Next, Api, Work, Failure, Sweeper, vars, UploadDocument, DeleteDocument,
       TriggerExtraction, ExtractPdf, SweepSelect, SweepCommit, Receive, Load, CompleteEmpty,
       Wipe, Start, PersistDelete, PersistInsert, BumpProgress, MarkDocsComplete, EndPoisoned,
       LogRedFlags, CompleteJob, FailJob, MarkDocsFailed, HandleException, Ack,
       CoordinatorRaises, PersistFails, WorkerLost, TimeLimit, VisibilityTimeout
  <2> QED BY <2>1 DEF OwnRows
<1>1. ASSUME UNCHANGED <<rows, snap, saved, Present>>, pc[w] \in Owning PROVE Own(w)'
  BY <1>0, <1>1
\* The API's steps.
<1>2. ASSUME NEW d \in Docs, UploadDocument(d) PROVE Own(w)'
  <2>1. /\ Present' = Present \cup {d} /\ d \notin snap[w]
        /\ UNCHANGED <<rows, snap, saved, pc>>
    BY <1>2 DEF UploadDocument, Present, LiveStatus, Scope, TypeOK
  <2> QED BY <1>0, <2>1 DEF Scope
<1>3. ASSUME NEW d \in Docs, DeleteDocument(d) PROVE Own(w)'
  <2>1. /\ Present' = Present \ {d} /\ rows' = {p \in rows : p[2] # d}
        /\ UNCHANGED <<snap, saved, pc>>
    BY <1>3 DEF DeleteDocument, Present, LiveStatus, TypeOK
  <2> QED BY <1>0, <2>1
<1>4. ASSUME NEW j \in Jobs, NEW D \in SUBSET Docs, ExtractPdf(j, D) PROVE Own(w)'
  <2>1. snap[w] = {} /\ saved[w] = {} /\ UNCHANGED <<snap, saved>>
    BY <1>4 DEF ExtractPdf, Scope, TypeOK
  <2> QED BY <2>1
\* The steps of an execution: it is the only one.
<1>5. ASSUME NEW v \in Workers, NEW m \in queue, Receive(v, m) PROVE FALSE
  <2>1. pc'[v] = "load" /\ \A u \in Workers \ {v} : pc'[u] = pc[u] /\ pc[u] = "idle"
    BY <1>0, <1>5 DEF Receive, Goto, TypeOK
  <2> QED BY <2>1
<1>6. ASSUME NEW v \in Workers,
             Work(v) \/ CoordinatorRaises(v) \/ PersistFails(v) \/ WorkerLost(v) \/ TimeLimit(v)
      PROVE  Own(w)'
  <2>1. pc[v] # "idle" /\ \A u \in Workers \ {v} : pc'[u] = pc[u]
    BY <1>6 DEF Work, Load, CompleteEmpty, Wipe, Start, PersistDelete, PersistInsert,
       BumpProgress, MarkDocsComplete, EndPoisoned, LogRedFlags, CompleteJob, FailJob,
       MarkDocsFailed, HandleException, Ack, CoordinatorRaises, PersistFails, WorkerLost,
       TimeLimit, Release, Goto, TypeOK
  <2>2. v = w
    BY <1>0, <2>1 DEF OneRun
  <2>3. CASE Wipe(w)
    <3>1. saved[w] = {} /\ UNCHANGED <<snap, saved>>
      BY <2>3 DEF Wipe, RunSaved
    <3>2. rows' = rows \ Wiped(w)
      BY <2>3 DEF Wipe, Goto, TypeOK
    <3> QED BY <3>1, <3>2 DEF Wiped
  <2>4. CASE PersistInsert(w)
    <3>1. /\ pc[w] = "insert" /\ UNCHANGED <<snap, ocr>>
          /\ \/ /\ rows' = rows \cup {item[w]} /\ saved'[w] = saved[w] \cup {item[w]}
                /\ item[w][2] \in Present
             \/ UNCHANGED <<rows, saved>>
      BY <2>4 DEF PersistInsert, InsertFails, TypeOK
    <3>2. item[w][2] \in snap[w] /\ UNCHANGED Present
      BY <3>1 DEF RunSaved, Scope, Present
    <3> QED BY <1>0, <3>1, <3>2
  <2>5. CASE MarkDocsComplete(w)
    <3>1. /\ pc[w] = "loop" /\ UNCHANGED <<rows, snap, saved>>
          /\ UNCHANGED Present
      BY <2>5 DEF MarkDocsComplete, SetDocs, DocsGone, Present, LiveStatus, TypeOK
    <3> QED BY <1>1, <3>1
  <2>6. CASE ~(Wipe(w) \/ PersistInsert(w) \/ MarkDocsComplete(w))
    <3>1. /\ pc[w] \in Owning /\ UNCHANGED <<rows, snap, saved, ocr>>
      BY <1>6, <2>2, <2>6 DEF Work, Load, CompleteEmpty, Start, PersistDelete,
         BumpProgress, EndPoisoned, LogRedFlags, CompleteJob, FailJob, MarkDocsFailed,
         HandleException, Ack, CoordinatorRaises, PersistFails, WorkerLost, TimeLimit,
         Release, Goto, TypeOK
    <3> QED BY <1>1, <3>1 DEF Present
  <2> QED BY <2>3, <2>4, <2>5, <2>6
<1>7. CASE UNCHANGED <<rows, snap, saved, ocr, pc>>
  BY <1>1, <1>7 DEF Present
<1> QED
  BY <1>2, <1>3, <1>4, <1>5, <1>6, <1>7
     DEF Next, Api, Failure, Sweeper, vars, TriggerExtraction, VisibilityTimeout,
         SweepSelect, SweepCommit

\* At completion what the run committed is all it went through.
LEMMA OwnRowsImplies == RunSaved /\ OwnRows => SerialRunsLeaveOnlyTheirRows
BY DEF RunSaved, OwnRows, SerialRunsLeaveOnlyTheirRows

\* While executions do not overlap, a run that is about to complete its job leaves
\* exactly its own rows on its documents, for any schemas, documents, deletions
\* and faults (pipeline.py:69-79).
THEOREM SerialRunsAreExact == Spec => []SerialRunsLeaveOnlyTheirRows
<1> DEFINE Inv == TypeOK /\ RunSaved /\ OneRun /\ Scope /\ RowsHaveDocument /\ OwnRows
<1>1. Init => Inv
  BY TypeInit, SavedInit, OneRunInit, ScopeInit, RowsInit, OwnRowsInit
<1>2. Inv /\ [Next]_vars => Inv'
  BY TypeStep, SavedStep, OneRunStep, ScopeStep, RowsStep, OwnRowsStep
<1>3. Inv => SerialRunsLeaveOnlyTheirRows
  BY OwnRowsImplies
<1> QED BY <1>1, <1>2, <1>3, PTL DEF Spec

----------------------------------------------------------------------------
(* The ticket: every step of the system moves each ticket as JobTicket allows, or *)
(* leaves it alone.                                                              *)

\* An idle thread holds no message, and nobody holds a job that does not exist.
HoldersOK ==
    /\ \A w \in Workers : pc[w] = "idle" => msg[w] = NoMessage
    /\ \A m \in queue : status[m.job] # "none"
    /\ \A w \in Workers : pc[w] # "idle" => status[MyJob(w)] # "none"
    /\ \A j \in sweep : status[j] # "none"

\* Nobody holds anything.
LEMMA HoldersInit == Init => HoldersOK
BY DEF Init, HoldersOK

\* A status never goes back to "none".
LEMMA StatusStays ==
    TypeOK /\ [Next]_vars => \A j \in Jobs : status[j] # "none" => status'[j] # "none"
<1> SUFFICES ASSUME TypeOK, [Next]_vars, NEW j \in Jobs, status[j] # "none"
             PROVE  status'[j] # "none"
  OBVIOUS
<1> QED
  BY DEF Next, Api, Work, Failure, Sweeper, vars, UploadDocument, DeleteDocument,
     TriggerExtraction, ExtractPdf, SweepSelect, SweepCommit, Receive, Load, CompleteEmpty,
     Wipe, Start, PersistDelete, PersistInsert, BumpProgress, MarkDocsComplete, EndPoisoned,
     LogRedFlags, CompleteJob, FailJob, MarkDocsFailed, HandleException, Ack,
     CoordinatorRaises, PersistFails, WorkerLost, TimeLimit, VisibilityTimeout, TypeOK

\* Messages, executions and the sweep are only of jobs that have a row.
LEMMA HoldersStep == TypeOK /\ HoldersOK /\ [Next]_vars => HoldersOK'
<1> SUFFICES ASSUME TypeOK, HoldersOK, [Next]_vars PROVE HoldersOK'
  OBVIOUS
<1>0. \A j \in Jobs : status[j] # "none" => status'[j] # "none"
  BY StatusStays
<1>m. \A m \in Messages : m.job \in Jobs
  BY DEF Messages
<1>1. ASSUME UNCHANGED <<queue, sweep, msg>>, \A w \in Workers : (pc'[w] = "idle") = (pc[w] = "idle")
      PROVE  HoldersOK'
  BY <1>0, <1>1, <1>m DEF HoldersOK, MyJob, TypeOK
<1>2. ASSUME NEW w \in Workers, NEW m \in queue, Receive(w, m) PROVE HoldersOK'
  <2>1. /\ queue' = queue \ {m} /\ msg' = [msg EXCEPT ![w] = m]
        /\ pc' = [pc EXCEPT ![w] = "load"] /\ UNCHANGED <<status, sweep>>
    BY <1>2 DEF Receive, Goto
  <2> QED BY <2>1 DEF HoldersOK, MyJob, TypeOK
<1>3. ASSUME NEW w \in Workers, Release(w), UNCHANGED <<sweep, status>>, pc[w] # "idle",
             \A m \in queue' : m \in queue \/ m.job = MyJob(w)
      PROVE  HoldersOK'
  <2>1. msg' = [msg EXCEPT ![w] = NoMessage] /\ pc' = [pc EXCEPT ![w] = "idle"]
    BY <1>3 DEF Release, Goto
  <2> QED BY <1>3, <2>1 DEF HoldersOK, MyJob, TypeOK
<1>4. ASSUME NEW w \in Workers, Ack(w) \/ WorkerLost(w) \/ TimeLimit(w) PROVE HoldersOK'
  <2>1. Release(w) /\ pc[w] # "idle" /\ UNCHANGED <<status, sweep>>
    BY <1>4 DEF Ack, WorkerLost, TimeLimit
  <2>2. msg[w] \in Messages
    BY <2>1 DEF TypeOK
  <2>3. \A m \in queue' : m \in queue \/ m.job = MyJob(w)
    BY <1>4, <2>2 DEF Ack, WorkerLost, TimeLimit, Retried, MyJob, Messages
  <2> QED BY <1>3, <2>1, <2>3
<1>5. ASSUME NEW w \in Workers, VisibilityTimeout(w) PROVE HoldersOK'
  BY <1>5 DEF VisibilityTimeout, HoldersOK, MyJob, TypeOK
<1>6. ASSUME NEW j \in Jobs, TriggerExtraction(j) PROVE HoldersOK'
  BY <1>0, <1>6, <1>m DEF TriggerExtraction, HoldersOK, MyJob, TypeOK
<1>7. ASSUME NEW j \in Jobs, NEW D \in SUBSET Docs, ExtractPdf(j, D) PROVE HoldersOK'
  BY <1>0, <1>7, <1>m DEF ExtractPdf, HoldersOK, MyJob, TypeOK
<1>8. ASSUME NEW S \in SUBSET Jobs, SweepSelect(S) PROVE HoldersOK'
  BY <1>8 DEF SweepSelect, Unfinished, HoldersOK, MyJob, TypeOK
<1>9. CASE SweepCommit
  BY <1>9, <1>m DEF SweepCommit, HoldersOK, MyJob, TypeOK
<1>10. ASSUME NEW w \in Workers,
              Work(w) \/ CoordinatorRaises(w) \/ PersistFails(w), ~Ack(w)
       PROVE  HoldersOK'
  <2>1. /\ UNCHANGED <<queue, sweep, msg>>
        /\ \A v \in Workers : (pc'[v] = "idle") = (pc[v] = "idle")
    BY <1>10 DEF Work, Load, CompleteEmpty, Wipe, Start, PersistDelete, PersistInsert,
       BumpProgress, MarkDocsComplete, EndPoisoned, LogRedFlags, CompleteJob, FailJob,
       MarkDocsFailed, HandleException, CoordinatorRaises, PersistFails, Goto, TypeOK
  <2> QED BY <1>1, <2>1
<1>11. CASE UNCHANGED <<queue, sweep, msg, pc>>
  BY <1>1, <1>11
<1> QED
  BY <1>2, <1>4, <1>5, <1>6, <1>7, <1>8, <1>9, <1>10, <1>11
     DEF Next, Api, Work, Failure, Sweeper, vars, UploadDocument, DeleteDocument

----------------------------------------------------------------------------
(* The refinement *)

\* What may happen to a ticket in a step.
Moves(j) == Ticket!Create(j) \/ Ticket!Claim(j) \/ Ticket!Work(j) \/ Ticket!Keep(j)

\* There are no jobs.
LEMMA TicketInit == Init => Ticket!Init
BY DEF Init, Ticket!Init, Held

\* If every ticket moves as it may, the abstract step is taken, or a stutter.
LEMMA EveryTicketMoves ==
    ASSUME TypeOK, TypeOK', \A j \in Jobs : Moves(j)
    PROVE  [Ticket!Next]_(Ticket!vars)
<1>1. /\ status \in [Jobs -> Ticket!Statuses] /\ status' \in [Jobs -> Ticket!Statuses]
  BY DEF TypeOK, Ticket!Statuses, Statuses
<1>2. Held \in [Jobs -> BOOLEAN] /\ Held' \in [Jobs -> BOOLEAN]
  BY Zenon DEF Held
<1>3. CASE \A j \in Jobs : Ticket!Keep(j)
  <2>1. status' = status
    BY <1>1, <1>3 DEF Ticket!Keep
  <2>2. Held' = Held
    BY <1>2, <1>3, Zenon DEF Ticket!Keep, Held
  <2> QED BY <2>1, <2>2 DEF Ticket!vars
<1>4. CASE \E j \in Jobs : ~Ticket!Keep(j)
  BY <1>1, <1>2, <1>4 DEF Moves, Ticket!Next
<1> QED BY <1>3, <1>4

\* Who holds a job, before and after a step.
HolderOf(j) ==
    \/ \E m \in queue : m.job = j
    \/ \E w \in Workers : msg[w] # NoMessage /\ MyJob(w) = j
    \/ j \in sweep

\* Held, spelled out.
LEMMA HeldIsHolder ==
    \A j \in Jobs : (Held[j] <=> HolderOf(j)) /\ Held[j] \in BOOLEAN
BY Zenon DEF Held, HolderOf

\* The same after a step.
LEMMA HeldIsHolderNext ==
    \A j \in Jobs : (Held'[j] <=> HolderOf(j)') /\ Held'[j] \in BOOLEAN
BY Zenon DEF Held, HolderOf

\* The mark of an idle worker is not a message.
LEMMA NoMessageIsNone == \A m \in Messages : m # NoMessage
BY DEF Messages, NoMessage

\* A step of the execution of w moves its own job's ticket and no other.
LEMMA ExecutionMoves ==
    ASSUME TypeOK, NEW w \in Workers, pc[w] # "idle", UNCHANGED sweep,
           \A v \in Workers \ {w} : msg'[v] = msg[v],
           msg'[w] \in {msg[w], NoMessage},
           \A m \in Messages : m.job # MyJob(w) => (m \in queue' <=> m \in queue),
           queue' \subseteq Messages,
           \A j \in Jobs : \/ status'[j] = status[j]
                           \/ j = MyJob(w) /\ status'[j] \in {"running", "complete", "failed"}
    PROVE  \A j \in Jobs : Moves(j)
<1> SUFFICES ASSUME NEW j \in Jobs PROVE Moves(j)
  OBVIOUS
<1>1. msg[w] \in Messages /\ msg[w] # NoMessage
  BY NoMessageIsNone DEF TypeOK
<1>2. CASE j = MyJob(w)
  <2>1. Held[j]
    BY <1>1, <1>2, HeldIsHolder DEF HolderOf
  <2> QED BY <1>2, <2>1, HeldIsHolderNext DEF Moves, Ticket!Work
<1>3. CASE j # MyJob(w)
  <2>1. (\E m \in queue : m.job = j) <=> (\E m \in queue' : m.job = j)
    BY <1>3 DEF TypeOK
  <2>2. (\E v \in Workers : msg[v] # NoMessage /\ MyJob(v) = j)
          <=> (\E v \in Workers : msg'[v] # NoMessage /\ msg'[v].job = j)
    BY <1>3 DEF MyJob
  <2>3. HolderOf(j) <=> HolderOf(j)'
    BY <2>1, <2>2 DEF HolderOf, MyJob
  <2>4. Held'[j] = Held[j]
    BY <2>3, HeldIsHolder, HeldIsHolderNext
  <2> QED BY <1>3, <2>4 DEF Moves, Ticket!Keep
<1> QED BY <1>2, <1>3

\* A step that changes neither a status nor a holder.
LEMMA NothingMoves ==
    ASSUME UNCHANGED <<status, queue, msg, sweep>>
    PROVE  \A j \in Jobs : Moves(j)
<1>1. \A j \in Jobs : HolderOf(j) <=> HolderOf(j)'
  BY DEF HolderOf, MyJob
<1> QED BY <1>1, HeldIsHolder, HeldIsHolderNext DEF Moves, Ticket!Keep

\* Every step of the system moves every ticket as it may.
LEMMA TicketStep == TypeOK /\ HoldersOK /\ [Next]_vars => [Ticket!Next]_(Ticket!vars)
<1> SUFFICES ASSUME TypeOK, HoldersOK, [Next]_vars PROVE \A j \in Jobs : Moves(j)
  BY EveryTicketMoves, TypeStep
<1>t. TypeOK'
  BY TypeStep
<1>m. \A m \in Messages : m.job \in Jobs
  BY DEF Messages
<1>1. ASSUME NEW k \in Jobs, TriggerExtraction(k) PROVE \A j \in Jobs : Moves(j)
  <2>1. ASSUME NEW j \in Jobs, j # k PROVE Moves(j)
    <3>1. /\ status'[j] = status[j] /\ UNCHANGED <<msg, sweep>>
          /\ (\E m \in queue : m.job = j) <=> (\E m \in queue' : m.job = j)
      BY <1>1, <2>1 DEF TriggerExtraction, TypeOK
    <3>2. HolderOf(j) <=> HolderOf(j)'
      BY <3>1 DEF HolderOf, MyJob
    <3> QED BY <3>1, <3>2, HeldIsHolder, HeldIsHolderNext DEF Moves, Ticket!Keep
  <2>2. Moves(k)
    <3>1. status[k] = "none" /\ status'[k] = "queued"
      BY <1>1 DEF TriggerExtraction, TypeOK
    <3> QED BY <3>1, HeldIsHolderNext DEF Moves, Ticket!Create
  <2> QED BY <2>1, <2>2
<1>2. ASSUME NEW k \in Jobs, NEW D \in SUBSET Docs, ExtractPdf(k, D)
      PROVE  \A j \in Jobs : Moves(j)
  <2>1. ASSUME NEW j \in Jobs, j # k PROVE Moves(j)
    <3>1. /\ status'[j] = status[j] /\ UNCHANGED <<msg, sweep>>
          /\ (\E m \in queue : m.job = j) <=> (\E m \in queue' : m.job = j)
      BY <1>2, <2>1 DEF ExtractPdf, TypeOK
    <3>2. HolderOf(j) <=> HolderOf(j)'
      BY <3>1 DEF HolderOf, MyJob
    <3> QED BY <3>1, <3>2, HeldIsHolder, HeldIsHolderNext DEF Moves, Ticket!Keep
  <2>2. Moves(k)
    <3>1. status[k] = "none"
      BY <1>2 DEF ExtractPdf
    <3>2. CASE status'[k] = "queued"
      BY <3>1, <3>2, HeldIsHolderNext DEF Moves, Ticket!Create
    <3>3. CASE status'[k] = "failed" /\ UNCHANGED queue
      <4>1. ~HolderOf(k) /\ UNCHANGED <<msg, sweep>>
        <5>1. \A w \in Workers : msg[w] # NoMessage => pc[w] # "idle"
          BY DEF HoldersOK
        <5> QED BY <1>2, <3>1, <5>1 DEF ExtractPdf, HolderOf, HoldersOK
      <4>2. ~HolderOf(k)'
        BY <3>3, <4>1 DEF HolderOf, MyJob
      <4> QED BY <3>1, <3>3, <4>2, HeldIsHolderNext DEF Moves, Ticket!Create
    <3> QED BY <1>2, <3>2, <3>3 DEF ExtractPdf, TypeOK
  <2> QED BY <2>1, <2>2
<1>3. ASSUME NEW w \in Workers, NEW m \in queue, Receive(w, m) PROVE \A j \in Jobs : Moves(j)
  <2>1. /\ queue' = queue \ {m} /\ msg' = [msg EXCEPT ![w] = m] /\ msg[w] = NoMessage
        /\ UNCHANGED <<status, sweep>> /\ m \in Messages /\ m # NoMessage
    BY <1>3, NoMessageIsNone DEF Receive, HoldersOK, TypeOK
  <2>2. msg'[w] = m /\ \A v \in Workers \ {w} : msg'[v] = msg[v]
    BY <2>1 DEF TypeOK
  <2>3. \A j \in Jobs : HolderOf(j) <=> HolderOf(j)'
    <3> SUFFICES ASSUME NEW j \in Jobs PROVE HolderOf(j) <=> HolderOf(j)'
      OBVIOUS
    <3>1. ASSUME HolderOf(j) PROVE HolderOf(j)'
      BY <2>1, <2>2, <3>1 DEF HolderOf, MyJob
    <3>2. ASSUME HolderOf(j)' PROVE HolderOf(j)
      BY <2>1, <2>2, <3>2 DEF HolderOf, MyJob
    <3> QED BY <3>1, <3>2
  <2> QED BY <2>1, <2>3, HeldIsHolder, HeldIsHolderNext DEF Moves, Ticket!Keep
<1>4. ASSUME NEW w \in Workers, Ack(w) \/ WorkerLost(w) \/ TimeLimit(w)
      PROVE  \A j \in Jobs : Moves(j)
  <2>1. /\ Release(w) /\ pc[w] # "idle" /\ UNCHANGED <<status, sweep>>
        /\ msg[w] \in Messages
    BY <1>4 DEF Ack, WorkerLost, TimeLimit, TypeOK
  <2>2. \A m \in Messages : m.job # MyJob(w) => (m \in queue' <=> m \in queue)
    BY <1>4, <2>1 DEF Ack, WorkerLost, TimeLimit, Retried, MyJob, Messages
  <2>3. msg'[w] = NoMessage /\ \A v \in Workers \ {w} : msg'[v] = msg[v]
    BY <2>1 DEF Release, TypeOK
  <2> QED BY <1>t, <2>1, <2>2, <2>3, ExecutionMoves DEF TypeOK
<1>5. ASSUME NEW w \in Workers, VisibilityTimeout(w) PROVE \A j \in Jobs : Moves(j)
  <2>1. /\ queue' = queue \cup {msg[w]} /\ UNCHANGED <<status, sweep, msg>> /\ pc[w] # "idle"
    BY <1>5 DEF VisibilityTimeout
  <2> QED BY <1>t, <2>1, ExecutionMoves DEF TypeOK, MyJob
<1>6. ASSUME NEW w \in Workers,
             Work(w) \/ CoordinatorRaises(w) \/ PersistFails(w), ~Ack(w)
      PROVE  \A j \in Jobs : Moves(j)
  <2>1. pc[w] # "idle" /\ UNCHANGED <<queue, sweep, msg>>
    BY <1>6 DEF Work, Load, CompleteEmpty, Wipe, Start, PersistDelete, PersistInsert,
       BumpProgress, MarkDocsComplete, EndPoisoned, LogRedFlags, CompleteJob, FailJob,
       MarkDocsFailed, HandleException, CoordinatorRaises, PersistFails
  <2>2. \A j \in Jobs : \/ status'[j] = status[j]
                        \/ j = MyJob(w) /\ status'[j] \in {"running", "complete", "failed"}
    BY <1>6 DEF Work, Load, CompleteEmpty, Wipe, Start, PersistDelete, PersistInsert,
       BumpProgress, MarkDocsComplete, EndPoisoned, LogRedFlags, CompleteJob, FailJob,
       MarkDocsFailed, HandleException, CoordinatorRaises, PersistFails, TypeOK
  <2> QED BY <1>t, <2>1, <2>2, ExecutionMoves DEF TypeOK
<1>7. ASSUME NEW S \in SUBSET Jobs, SweepSelect(S) PROVE \A j \in Jobs : Moves(j)
  <2>1. /\ sweep = {} /\ sweep' = S /\ UNCHANGED <<status, queue, msg>>
        /\ \A j \in S : status[j] \in {"queued", "running"}
    BY <1>7 DEF SweepSelect, Unfinished
  <2>2. ASSUME NEW j \in S PROVE Moves(j)
    <3>1. HolderOf(j)'
      BY <2>1 DEF HolderOf
    <3> QED BY <2>1, <3>1, HeldIsHolderNext DEF Moves, Ticket!Claim
  <2>3. ASSUME NEW j \in Jobs, j \notin S PROVE Moves(j)
    <3>1. HolderOf(j) <=> HolderOf(j)'
      BY <2>1, <2>3 DEF HolderOf, MyJob
    <3> QED BY <2>1, <3>1, HeldIsHolder, HeldIsHolderNext DEF Moves, Ticket!Keep
  <2> QED BY <2>2, <2>3
<1>8. CASE SweepCommit
  <2>1. /\ sweep' = {} /\ UNCHANGED <<queue, msg>>
        /\ \A j \in Jobs : status'[j] = IF j \in sweep THEN "failed" ELSE status[j]
    BY <1>8 DEF SweepCommit
  <2>2. ASSUME NEW j \in Jobs, j \in sweep PROVE Moves(j)
    <3>1. Held[j]
      BY <2>2, HeldIsHolder DEF HolderOf
    <3> QED BY <2>1, <2>2, <3>1, HeldIsHolderNext DEF Moves, Ticket!Work
  <2>3. ASSUME NEW j \in Jobs, j \notin sweep PROVE Moves(j)
    <3>1. HolderOf(j) <=> HolderOf(j)'
      BY <2>1, <2>3 DEF HolderOf, MyJob
    <3> QED BY <2>1, <2>3, <3>1, HeldIsHolder, HeldIsHolderNext DEF Moves, Ticket!Keep
  <2> QED BY <2>2, <2>3
<1>9. CASE UNCHANGED <<status, queue, msg, sweep>>
  BY <1>9, NothingMoves
<1> QED
  BY <1>1, <1>2, <1>3, <1>4, <1>5, <1>6, <1>7, <1>8, <1>9
     DEF Next, Api, Work, Failure, Sweeper, vars, UploadDocument, DeleteDocument

\* The system implements the ticket, for any number of workers, jobs, documents,
\* fields, retries and faults.
THEOREM SystemImplementsTicket == Spec => ImplementsTicket
<1>1. Init => TypeOK /\ HoldersOK /\ Ticket!Init
  BY TypeInit, HoldersInit, TicketInit
<1>2. TypeOK /\ HoldersOK /\ [Next]_vars
        => (TypeOK /\ HoldersOK)' /\ [Ticket!Next]_(Ticket!vars)
  BY TypeStep, HoldersStep, TicketStep
<1> QED BY <1>1, <1>2, PTL DEF Spec, ImplementsTicket, Ticket!Spec

\* So a client that polls may rely on the ticket: a finished job that no message,
\* execution or sweep refers to keeps its status for ever and is not taken up again, and
\* none goes back to the queue (extraction.py:42-81).
THEOREM ClientsMayRely == Spec => Ticket!SettledForever /\ Ticket!NeverRequeued
<1> USE DEF Ticket!vars
<1>1. ASSUME [Ticket!Next]_(Ticket!vars), NEW j \in Jobs
      PROVE  /\ status[j] \in Terminal /\ ~Held[j] => status'[j] = status[j] /\ ~Held'[j]
             /\ status'[j] = "queued" => status[j] \in {"none", "queued"}
             /\ status'[j] = "none" => status[j] = "none"
  BY <1>1 DEF Ticket!Next, Ticket!Create, Ticket!Claim, Ticket!Work, Ticket!Keep, Terminal
<1>2. [Ticket!Next]_(Ticket!vars) =>
        /\ [\A j \in Jobs : status[j] \in Ticket!Terminal /\ ~Held[j]
                              => status'[j] = status[j] /\ ~Held'[j]]_(Ticket!vars)
        /\ [\A j \in Jobs : /\ status'[j] = "queued" => status[j] \in {"none", "queued"}
                            /\ status'[j] = "none" => status[j] = "none"]_(Ticket!vars)
  BY <1>1 DEF Ticket!Terminal, Terminal
<1> QED
  BY SystemImplementsTicket, <1>2, PTL
     DEF ImplementsTicket, Ticket!Spec, Ticket!SettledForever, Ticket!NeverRequeued

----------------------------------------------------------------------------
(* Finished jobs *)

\* The inductive form of FinishedReopensOnlyByFault: while nothing has failed, a job is
\* carried once, nothing is retried, and what carries a finished job has only to
\* acknowledge it.
OneCarrier ==
    faults = 0 =>
      /\ \A w \in Workers : pc[w] \notin {"fail", "faildocs"} /\ exc[w] # "retryable"
      /\ \A m, n \in queue : m.job = n.job => m = n
      /\ \A m \in queue, w \in Workers : pc[w] # "idle" => MyJob(w) # m.job
      /\ \A w, v \in Workers : pc[w] # "idle" /\ pc[v] # "idle" /\ MyJob(w) = MyJob(v) => w = v
      /\ sweep \subseteq old
      /\ \A m \in queue : m.job \in old \/ status[m.job] \notin Terminal
      /\ \A w \in Workers :
           pc[w] \notin {"idle", "ack"} => MyJob(w) \in old \/ status[MyJob(w)] \notin Terminal

\* Nothing is carried.
LEMMA CarrierInit == Init => OneCarrier
BY DEF Init, OneCarrier

\* No step takes faults back, or a job out of old.
LEMMA FaultsGrow == TypeOK /\ [Next]_vars => (faults' = 0 => faults = 0) /\ old \subseteq old'
BY DEF TypeOK, Next, Api, Work, Failure, Sweeper, vars, UploadDocument, DeleteDocument,
     TriggerExtraction, ExtractPdf, SweepSelect, SweepCommit, Receive, Load, CompleteEmpty,
     Wipe, Start, PersistDelete, PersistInsert, BumpProgress, MarkDocsComplete, EndPoisoned,
     LogRedFlags, CompleteJob, FailJob, MarkDocsFailed, HandleException, Ack,
     CoordinatorRaises, PersistFails, WorkerLost, TimeLimit, VisibilityTimeout, Fault

\* A step within an execution that stays one keeps this, whatever it does to the job, if
\* it goes on to acknowledge it or leaves it unfinished.
LEMMA CarrierStays ==
    ASSUME TypeOK, OneCarrier, faults = 0, NEW w \in Workers, pc[w] # "idle",
           UNCHANGED <<queue, sweep, old, msg>>,
           \A v \in Workers \ {w} : pc'[v] = pc[v] /\ exc'[v] = exc[v],
           pc'[w] \notin {"idle", "fail", "faildocs"}, exc'[w] # "retryable",
           \A j \in Jobs : j # MyJob(w) => status'[j] = status[j],
           pc'[w] = "ack" \/ status'[MyJob(w)] = status[MyJob(w)] \/ status'[MyJob(w)] = "running",
           pc[w] = "ack" => pc'[w] = "ack"
    PROVE  OneCarrier'
<1>1. /\ \A v \in Workers : pc[v] # "idle" => msg[v] \in Messages /\ MyJob(v) \in Jobs
      /\ \A m \in queue : m.job \in Jobs
  BY DEF TypeOK, Messages, MyJob
<1>2. \A v \in Workers : MyJob(v)' = MyJob(v) /\ (pc'[v] # "idle" <=> pc[v] # "idle")
  BY DEF MyJob
<1>3. /\ \A v \in Workers : pc'[v] \notin {"fail", "faildocs"} /\ exc'[v] # "retryable"
      /\ \A m, n \in queue' : m.job = n.job => m = n
      /\ \A m \in queue', v \in Workers : pc'[v] # "idle" => MyJob(v)' # m.job
      /\ \A u, v \in Workers : pc'[u] # "idle" /\ pc'[v] # "idle" /\ MyJob(u)' = MyJob(v)' => u = v
      /\ sweep' \subseteq old'
  BY <1>2 DEF OneCarrier
<1>4. \A m \in queue' : m.job \in old' \/ status'[m.job] \notin Terminal
  BY <1>1 DEF OneCarrier
<1>5. ASSUME NEW v \in Workers, pc'[v] \notin {"idle", "ack"}
      PROVE  MyJob(v)' \in old' \/ status'[MyJob(v)'] \notin Terminal
  <2>1. CASE v = w
    BY <1>1, <1>2, <1>5, <2>1 DEF OneCarrier, Terminal
  <2>2. CASE v # w
    <3>1. MyJob(v) # MyJob(w) /\ pc[v] \notin {"idle", "ack"}
      BY <1>5, <2>2 DEF OneCarrier
    <3> QED BY <1>1, <1>2, <3>1 DEF OneCarrier
  <2> QED BY <2>1, <2>2
<1> QED BY <1>3, <1>4, <1>5 DEF OneCarrier

\* Every step keeps it.
LEMMA CarrierStep == TypeOK /\ HoldersOK /\ OneCarrier /\ [Next]_vars => OneCarrier'
<1> SUFFICES ASSUME TypeOK, HoldersOK, OneCarrier, [Next]_vars, faults' = 0 PROVE OneCarrier'
  BY DEF OneCarrier
<1>0. faults = 0
  BY FaultsGrow
<1>m. /\ \A m \in Messages : m.job \in Jobs
      /\ \A w \in Workers : pc[w] # "idle" => msg[w] \in Messages
  BY DEF Messages, TypeOK
<1>f. ~Fault
  BY <1>0 DEF Fault
<1>1. ASSUME NEW k \in Jobs, status[k] = "none", UNCHANGED <<sweep, old, pc, msg, exc>>,
             \A j \in Jobs \ {k} : status'[j] = status[j], status'[k] = "queued",
             queue' = queue \cup {[job |-> k, retries |-> 0]}
      PROVE  OneCarrier'
  <2>1. \A m \in queue : m.job \in Jobs /\ m.job # k
    BY <1>1, <1>m DEF HoldersOK, TypeOK
  <2>2. \A w \in Workers : pc[w] # "idle" => MyJob(w) \in Jobs /\ MyJob(w) # k
    BY <1>1, <1>m DEF HoldersOK, MyJob
  <2> QED BY <1>0, <1>1, <2>1, <2>2 DEF OneCarrier, MyJob, Terminal
<1>2. ASSUME NEW k \in Jobs, TriggerExtraction(k) PROVE OneCarrier'
  BY <1>1, <1>2, <1>f DEF TriggerExtraction, TypeOK
<1>3. ASSUME NEW k \in Jobs, NEW D \in SUBSET Docs, ExtractPdf(k, D) PROVE OneCarrier'
  BY <1>1, <1>3, <1>f DEF ExtractPdf, TypeOK
<1>4. ASSUME NEW w \in Workers, NEW m \in queue, Receive(w, m) PROVE OneCarrier'
  <2>1. /\ queue' = queue \ {m} /\ msg'[w] = m /\ pc'[w] = "load" /\ pc[w] = "idle"
        /\ \A v \in Workers \ {w} : msg'[v] = msg[v] /\ pc'[v] = pc[v]
        /\ UNCHANGED <<status, sweep, old, exc>>
    BY <1>4 DEF Receive, Goto, TypeOK
  <2>2. MyJob(w)' = m.job /\ \A v \in Workers \ {w} : MyJob(v)' = MyJob(v)
    BY <2>1 DEF MyJob
  <2>3. \A n \in queue' : n \in queue /\ n.job # m.job
    BY <1>0, <2>1 DEF OneCarrier
  <2> QED BY <1>0, <2>1, <2>2, <2>3 DEF OneCarrier
<1>5. ASSUME NEW w \in Workers, Ack(w) PROVE OneCarrier'
  <2>1. /\ queue' = queue /\ msg'[w] = NoMessage /\ pc'[w] = "idle" /\ exc'[w] = "none"
        /\ \A v \in Workers \ {w} : msg'[v] = msg[v] /\ pc'[v] = pc[v] /\ exc'[v] = exc[v]
        /\ UNCHANGED <<status, sweep, old>>
    BY <1>0, <1>5 DEF Ack, Release, Goto, Retried, TypeOK, OneCarrier
  <2>2. \A v \in Workers \ {w} : MyJob(v)' = MyJob(v)
    BY <2>1 DEF MyJob
  <2> QED BY <1>0, <2>1, <2>2 DEF OneCarrier
<1>6. ASSUME NEW w \in Workers, Work(w), ~Ack(w) PROVE OneCarrier'
  <2>1. /\ pc[w] \notin {"idle", "ack"} /\ UNCHANGED <<queue, sweep, old, msg>>
        /\ \A v \in Workers \ {w} : pc'[v] = pc[v] /\ exc'[v] = exc[v]
        /\ pc'[w] # "idle"
        /\ exc'[w] \in {exc[w], "fatal"}
    BY <1>6 DEF Work, Load, CompleteEmpty, Wipe, Start, PersistDelete, PersistInsert,
       BumpProgress, MarkDocsComplete, EndPoisoned, LogRedFlags, CompleteJob, FailJob,
       MarkDocsFailed, HandleException, Goto, TypeOK
  <2>2. /\ pc'[w] \notin {"fail", "faildocs"}
        /\ pc'[w] = "ack" \/ status'[MyJob(w)] = status[MyJob(w)] \/ status'[MyJob(w)] = "running"
        /\ \A j \in Jobs : j # MyJob(w) => status'[j] = status[j]
    <3>1. pc[w] \notin {"fail", "faildocs"} /\ MyJob(w) \in Jobs
      BY <1>0, <1>m, <2>1 DEF OneCarrier, MyJob
    <3> QED BY <1>6, <3>1 DEF Work, Load, CompleteEmpty, Wipe, Start, PersistDelete, PersistInsert,
       BumpProgress, MarkDocsComplete, EndPoisoned, LogRedFlags, CompleteJob, FailJob,
       MarkDocsFailed, HandleException, Goto, TypeOK
  <2>3. exc'[w] # "retryable"
    BY <1>0, <2>1 DEF OneCarrier
  <2> QED BY <1>0, <2>1, <2>2, <2>3, CarrierStays
<1>7. ASSUME NEW w \in Workers, Failure(w) PROVE FALSE
  BY <1>7, <1>f DEF Failure, CoordinatorRaises, PersistFails, WorkerLost, TimeLimit, VisibilityTimeout
<1>8. ASSUME NEW S \in SUBSET Jobs, SweepSelect(S) PROVE OneCarrier'
  BY <1>0, <1>8 DEF SweepSelect, OneCarrier, MyJob
<1>9. CASE SweepCommit
  <2>1. /\ UNCHANGED <<queue, old, pc, msg, exc>> /\ sweep' = {} /\ sweep \subseteq old
        /\ \A j \in Jobs : j \notin sweep => status'[j] = status[j]
    BY <1>0, <1>9 DEF SweepCommit, OneCarrier
  <2>2. \A w \in Workers : MyJob(w)' = MyJob(w) /\ (pc[w] # "idle" => MyJob(w) \in Jobs)
    BY <1>m, <2>1 DEF MyJob
  <2>3. \A m \in queue : m.job \in Jobs
    BY <1>m DEF TypeOK
  <2> QED BY <1>0, <2>1, <2>2, <2>3 DEF OneCarrier
<1>10. CASE UNCHANGED <<status, queue, sweep, old, pc, msg, exc>>
  BY <1>0, <1>10 DEF OneCarrier, MyJob
<1> QED
  BY <1>2, <1>3, <1>4, <1>5, <1>6, <1>7, <1>8, <1>9, <1>10
     DEF Next, Api, Sweeper, vars, UploadDocument, DeleteDocument

\* While nothing fails, a finished job that the sweeper has not found old keeps its
\* status, for any number of threads, jobs and documents: an execution writes only to
\* the unfinished job it alone carries (pipeline.py:204-241, tasks.py:76-101).
THEOREM FinishedStays == Spec => FinishedReopensOnlyByFault
<1> DEFINE Inv == TypeOK /\ HoldersOK /\ OneCarrier
<1>1. Init => Inv
  BY TypeInit, HoldersInit, CarrierInit
<1>2. Inv /\ [Next]_vars => Inv'
  BY TypeStep, HoldersStep, CarrierStep
<1>3. ASSUME Inv, [Next]_vars
      PROVE  \A j \in Jobs :
               status[j] \in Terminal /\ faults' = 0 /\ j \notin old => status'[j] = status[j]
  <2> SUFFICES ASSUME NEW j \in Jobs, status[j] \in Terminal, faults' = 0, j \notin old
               PROVE  status'[j] = status[j]
    OBVIOUS
  <2>0. faults = 0 /\ ~Fault
    BY <1>3, FaultsGrow DEF Fault
  <2>1. ASSUME NEW w \in Workers, Work(w) PROVE status'[j] = status[j]
    <3>1. pc[w] \notin {"idle", "ack"} => j # MyJob(w)
      BY <1>3, <2>0 DEF OneCarrier
    <3> QED BY <1>3, <2>1, <3>1 DEF Work, Load, CompleteEmpty, Wipe, Start, PersistDelete, PersistInsert,
       BumpProgress, MarkDocsComplete, EndPoisoned, LogRedFlags, CompleteJob, FailJob,
       MarkDocsFailed, HandleException, Ack, TypeOK
  <2>2. ASSUME NEW w \in Workers, Failure(w) PROVE FALSE
    BY <2>0, <2>2 DEF Failure, CoordinatorRaises, PersistFails, WorkerLost, TimeLimit, VisibilityTimeout
  <2>3. CASE SweepCommit
    BY <1>3, <2>0, <2>3 DEF SweepCommit, OneCarrier
  <2>4. ASSUME NEW k \in Jobs, TriggerExtraction(k) \/ \E D \in SUBSET Docs : ExtractPdf(k, D)
        PROVE  status'[j] = status[j]
    BY <1>3, <2>4 DEF TriggerExtraction, ExtractPdf, Terminal, TypeOK
  <2>5. CASE UNCHANGED status
    BY <2>5
  <2> QED BY <1>3, <2>1, <2>2, <2>3, <2>4, <2>5 DEF Next, Api, Sweeper, vars, UploadDocument, DeleteDocument,
       Receive, SweepSelect
<1> QED BY <1>1, <1>2, <1>3, PTL DEF Spec, FinishedReopensOnlyByFault

----------------------------------------------------------------------------
(* Overlapping runs of the same documents and fields *)

\* What OverlappingRunsAgree speaks of.
Calm == faults = 0 /\ alike /\ \A d \in Docs : ocr[d] # "deleted"

\* A run has wiped its documents.
Begun(w) == pc[w] \notin {"idle", "load", "empty", "wipe"}

\* It will go through the results it has not come to, unless another run is ahead.
Healthy(w) == sess[w] = "ok" /\ (pc[w] \in {"start", "loop", "bump"} \/ (pc[w] = "insert" /\ ~clash[w]))

\* Those results.
Ahead(w) ==
    IF pc[w] = "start" THEN want[w]
    ELSE todo[w] \cup (IF pc[w] = "insert" THEN {item[w]} ELSE {})

\* A result is there, or some run will make it.
Covered(p) == p \in rows \/ \E w \in Workers : Healthy(w) /\ p \in Ahead(w)

\* What a run wants is all of one field set for each of its documents.
WholeWant(W, S) == \E F \in {Fields} \cup UNION {JobFields[j] : j \in Jobs} : W = F \X S

\* A run goes through what it wants in the order of the coordinator's loops.
Paced(w) ==
    /\ pc[w] \in {"idle", "load", "empty"} => snap[w] = {}
    /\ WholeWant(want[w], snap[w])
    /\ stale[w] \subseteq snap[w]
    /\ pc[w] \in {"load", "empty", "wipe", "start", "insert"} => sess[w] = "ok"
    /\ pc[w] \in {"loop", "insert", "bump"} => todo[w] \subseteq want[w]
    /\ pc[w] = "loop" => \A p \in todo[w], q \in want[w] : Before(p, q) => q \in todo[w]
    /\ pc[w] \in {"insert", "bump"} =>
         item[w] \in want[w] /\ todo[w] = {q \in want[w] : Before(item[w], q)}

\* The runs under way go through the same results in the same order.
InStep ==
    Calm =>
      /\ \A w \in Workers : Paced(w)
      /\ \A v, w \in Workers : snap[v] # {} /\ snap[w] # {} => snap[v] = snap[w] /\ want[v] = want[w]

\* A document that runs work on has only rows they want, and all of those are there or
\* on their way; while one is in progress, a run goes on.  Any other is at rest.
DocWhole(d) ==
    /\ \A w \in Workers : Begun(w) /\ d \in snap[w] =>
         /\ \A p \in rows : p[2] = d => p \in want[w]
         /\ \A p \in want[w] : p[2] = d => Covered(p)
         /\ ocr[d] = "ocr_in_progress" => \E v \in Workers : Healthy(v) /\ d \in snap[v]
    /\ (\A w \in Workers : ~(Begun(w) /\ d \in snap[w])) =>
         ocr[d] # "ocr_in_progress" /\ (ocr[d] = "complete" => HoldsOneRun(d))

\* The inductive form of OverlappingRunsAgree.
RunsAgree == Calm => \A d \in Docs : DocWhole(d)

\* Nothing is under way.
LEMMA AgreeInit == Init => InStep /\ RunsAgree
<1> SUFFICES ASSUME Init PROVE InStep /\ RunsAgree
  OBVIOUS
<1>1. \A w \in Workers : WholeWant(want[w], snap[w])
  BY DEF Init, WholeWant
<1>2. InStep
  BY <1>1 DEF Init, InStep, Paced
<1>3. RunsAgree
  BY DEF Init, RunsAgree, DocWhole, Begun
<1> QED BY <1>2, <1>3

\* Before is the order of the loops.
LEMMA BeforeOrder ==
    ASSUME NEW p \in Pairs, NEW q \in Pairs, NEW r \in Pairs
    PROVE  ~Before(p, p) /\ (Before(p, q) /\ Before(q, r) => Before(p, r))
<1>1. /\ p[1] \in Nat /\ p[2] \in Nat /\ q[1] \in Nat /\ q[2] \in Nat /\ r[1] \in Nat /\ r[2] \in Nat
  BY OrderAssumption DEF Pairs
<1> QED BY <1>1 DEF Before

\* It was calm before a step that leaves it calm, and that step was neither a failure
\* nor the deletion of a document.
LEMMA StaysCalm ==
    ASSUME TypeOK, [Next]_vars, Calm'
    PROVE  /\ Calm /\ ~Fault
           /\ \A w \in Workers : ~Failure(w)
           /\ \A d \in Docs : ~DeleteDocument(d)
<1>1. faults = 0 /\ ~Fault
  BY FaultsGrow DEF Calm, Fault
<1>2. \A w \in Workers : ~Failure(w)
  BY <1>1 DEF Failure, CoordinatorRaises, PersistFails, WorkerLost, TimeLimit, VisibilityTimeout
<1>3. \A d \in Docs : ~DeleteDocument(d)
  BY DEF Calm, DeleteDocument, TypeOK
<1>4. alike
  BY DEF Calm, Next, Api, Work, Failure, Sweeper, vars, UploadDocument, DeleteDocument,
     TriggerExtraction, ExtractPdf, SweepSelect, SweepCommit, Receive, Load, CompleteEmpty,
     Wipe, Start, PersistDelete, PersistInsert, BumpProgress, MarkDocsComplete, EndPoisoned,
     LogRedFlags, CompleteJob, FailJob, MarkDocsFailed, HandleException, Ack,
     CoordinatorRaises, PersistFails, WorkerLost, TimeLimit, VisibilityTimeout
<1>5. \A d \in Docs : ocr[d] = "deleted" => ocr'[d] = "deleted"
  BY DEF Next, Api, Work, Failure, Sweeper, vars, UploadDocument, DeleteDocument,
     TriggerExtraction, ExtractPdf, SweepSelect, SweepCommit, Receive, Load, CompleteEmpty,
     Wipe, Start, PersistDelete, PersistInsert, BumpProgress, MarkDocsComplete, EndPoisoned,
     LogRedFlags, CompleteJob, FailJob, MarkDocsFailed, HandleException, Ack, SetDocs,
     CoordinatorRaises, PersistFails, WorkerLost, TimeLimit, VisibilityTimeout, TypeOK,
     Present, LiveStatus, DocsGone
<1> QED BY <1>1, <1>2, <1>3, <1>4, <1>5 DEF Calm

\* While it is calm no run loses a document.
LEMMA NoneGone ==
    ASSUME TypeOK, Scope, Calm, NEW w \in Workers
    PROVE  snap[w] \subseteq Present /\ ~DocsGone(w)
BY DEF TypeOK, Scope, Calm, Present, LiveStatus, DocsGone

\* A step of one execution that keeps its documents and fields, and its own pace, keeps
\* them all in step.
LEMMA StepInStep ==
    ASSUME TypeOK, InStep, Calm, NEW w \in Workers, UNCHANGED <<snap, want>>,
           \A v \in Workers \ {w} :
             pc'[v] = pc[v] /\ sess'[v] = sess[v] /\ stale'[v] = stale[v]
               /\ todo'[v] = todo[v] /\ item'[v] = item[v],
           Paced(w)'
    PROVE  InStep'
<1>1. ASSUME NEW v \in Workers \ {w} PROVE Paced(v)'
  <2>1. Paced(v)
    BY DEF InStep
  <2> QED BY <1>1, <2>1 DEF Paced
<1>2. \A v \in Workers : Paced(v)'
  BY <1>1
<1>3. \A u, v \in Workers : snap'[v] # {} /\ snap'[u] # {} => snap'[v] = snap'[u] /\ want'[v] = want'[u]
  BY DEF InStep
<1> QED BY <1>2, <1>3 DEF InStep

\* Every step keeps the runs in step.
LEMMA PaceStep == TypeOK /\ Scope /\ OneCarrier /\ InStep /\ [Next]_vars => InStep'
<1> SUFFICES ASSUME TypeOK, Scope, OneCarrier, InStep, [Next]_vars, Calm' PROVE InStep'
  BY DEF InStep
<1>0. /\ Calm /\ ~Fault
      /\ \A w \in Workers : ~Failure(w)
      /\ \A d \in Docs : ~DeleteDocument(d)
  BY StaysCalm
<1>p. ASSUME NEW w \in Workers PROVE Paced(w)
  BY <1>0 DEF InStep
<1>1. ASSUME NEW w \in Workers, NEW m \in queue, Receive(w, m) PROVE InStep'
  <2>1. /\ pc[w] = "idle" /\ pc' = [pc EXCEPT ![w] = "load"] /\ sess' = [sess EXCEPT ![w] = "ok"]
        /\ UNCHANGED <<snap, want, stale, todo, item>>
    BY <1>1 DEF Receive, Goto
  <2>2. Paced(w)'
    BY <1>p, <2>1 DEF Paced, TypeOK
  <2> QED BY <1>0, <2>1, <2>2, StepInStep DEF TypeOK
<1>2. ASSUME NEW w \in Workers, Load(w) PROVE InStep'
  <2>1. /\ pc[w] = "load" /\ sess' = sess /\ snap[w] = {}
        /\ pc' = [pc EXCEPT ![w] = IF Present = {} THEN "empty" ELSE "wipe"]
        /\ snap' = [snap EXCEPT ![w] = Present]
        /\ stale' = [stale EXCEPT ![w] = {d \in Present : ocr[d] # "ocr_in_progress"}]
        /\ UNCHANGED <<todo, item>>
        /\ \A v \in Workers \ {w} : snap[v] # {} => snap[v] = Present /\ want[v] = want'[w]
        /\ sess[w] = "ok"
    BY <1>2, <1>p DEF Load, Goto, Paced, Calm
  <2>2. PICK F \in JobFields[MyJob(w)] \cup {Fields} :
          want' = [want EXCEPT ![w] = IF Present = {} THEN {} ELSE F \X Present]
    BY <1>2 DEF Load
  <2>3. MyJob(w) \in Jobs /\ F \in {Fields} \cup UNION {JobFields[j] : j \in Jobs}
    BY <2>1 DEF TypeOK, Messages, MyJob
  <2>4. WholeWant(want'[w], Present)
    <3>1. want'[w] = F \X Present
      BY <2>2 DEF TypeOK
    <3> QED BY <2>3, <3>1 DEF WholeWant
  <2>5. Paced(w)'
    <3>1. pc'[w] \in {"empty", "wipe"} /\ snap'[w] = Present /\ stale'[w] \subseteq Present
          /\ (pc'[w] = "empty" => Present = {})
      BY <2>1 DEF TypeOK
    <3> QED BY <2>1, <2>4, <3>1 DEF Paced
  <2>6. ASSUME NEW v \in Workers \ {w} PROVE Paced(v)'
    <3>1. /\ pc'[v] = pc[v] /\ snap'[v] = snap[v] /\ stale'[v] = stale[v] /\ want'[v] = want[v]
          /\ sess' = sess /\ UNCHANGED <<todo, item>>
      BY <2>1, <2>2 DEF TypeOK
    <3>2. Paced(v)
      BY <1>p
    <3> QED BY <3>1, <3>2 DEF Paced
  <2>7. ASSUME NEW u \in Workers, NEW v \in Workers, snap'[v] # {}, snap'[u] # {}
        PROVE  snap'[v] = snap'[u] /\ want'[v] = want'[u]
    <3>1. snap'[w] = Present /\ \A x \in Workers \ {w} : snap'[x] = snap[x] /\ want'[x] = want[x]
      BY <2>1, <2>2 DEF TypeOK
    <3>2. u # w /\ v # w => snap[v] = snap[u] /\ want[v] = want[u]
      BY <1>0, <2>7, <3>1 DEF InStep
    <3> QED BY <2>1, <2>7, <3>1, <3>2
  <2> QED BY <2>5, <2>6, <2>7 DEF InStep
<1>3. ASSUME NEW w \in Workers, Wipe(w) PROVE InStep'
  <2>1. stale[w] \subseteq Present
    BY <1>0, <1>p, NoneGone DEF Paced
  <2>2. /\ pc[w] = "wipe" /\ pc' = [pc EXCEPT ![w] = "start"]
        /\ UNCHANGED <<sess, snap, stale, want, todo, item>>
    BY <1>3, <2>1 DEF Wipe, Goto
  <2>3. Paced(w)'
    BY <1>p, <2>2 DEF Paced, TypeOK
  <2> QED BY <1>0, <2>2, <2>3, StepInStep DEF TypeOK
<1>4. ASSUME NEW w \in Workers, Start(w) PROVE InStep'
  <2>1. /\ pc[w] = "start" /\ pc' = [pc EXCEPT ![w] = "loop"]
        /\ todo' = [todo EXCEPT ![w] = want[w]]
        /\ UNCHANGED <<sess, snap, stale, want, item>>
    BY <1>0, <1>4, NoneGone DEF Start, Goto
  <2>2. Paced(w)'
    BY <1>p, <2>1 DEF Paced, TypeOK
  <2> QED BY <1>0, <2>1, <2>2, StepInStep DEF TypeOK
<1>5. ASSUME NEW w \in Workers, PersistDelete(w) PROVE InStep'
  <2>1. PICK p \in todo[w] :
          /\ \A q \in todo[w] : q = p \/ Before(p, q)
          /\ item' = [item EXCEPT ![w] = p]
          /\ todo' = [todo EXCEPT ![w] = @ \ {p}]
    BY <1>5 DEF PersistDelete
  <2>2. /\ pc[w] = "loop" /\ pc' = [pc EXCEPT ![w] = "insert"] /\ sess[w] = "ok"
        /\ UNCHANGED <<sess, snap, stale, want>>
    BY <1>5 DEF PersistDelete, Goto
  <2>3. /\ todo[w] \subseteq want[w] /\ want[w] \subseteq Pairs
        /\ \A q \in want[w] : Before(p, q) => q \in todo[w]
    BY <1>p, <2>2 DEF Paced, TypeOK
  <2>4. ~Before(p, p)
    BY <2>3, BeforeOrder
  <2>5. todo[w] \ {p} = {q \in want[w] : Before(p, q)}
    BY <2>1, <2>3, <2>4
  <2>6. item'[w] = p /\ todo'[w] = todo[w] \ {p} /\ p \in want[w]
    BY <2>1, <2>3 DEF TypeOK
  <2>7. todo'[w] = {q \in want[w] : Before(item'[w], q)}
    BY <2>5, <2>6
  <2>8. /\ pc'[w] = "insert" /\ todo'[w] \subseteq want'[w] /\ item'[w] \in want'[w]
    BY <2>2, <2>3, <2>6 DEF TypeOK
  <2>9. WholeWant(want'[w], snap'[w]) /\ stale'[w] \subseteq snap'[w] /\ sess'[w] = "ok"
    BY <1>p, <2>2 DEF Paced
  <2>10. Paced(w)'
    BY <2>2, <2>7, <2>8, <2>9 DEF Paced
  <2> QED BY <1>0, <2>1, <2>2, <2>10, StepInStep DEF TypeOK
<1>6. ASSUME NEW w \in Workers, PersistInsert(w) PROVE InStep'
  <2>1. /\ pc[w] = "insert" /\ pc' = [pc EXCEPT ![w] = "bump"]
        /\ \A v \in Workers \ {w} : sess'[v] = sess[v]
        /\ UNCHANGED <<snap, stale, want, todo, item>>
    BY <1>6 DEF PersistInsert, Goto, TypeOK
  <2>2. Paced(w)'
    BY <1>p, <2>1 DEF Paced, TypeOK
  <2> QED BY <1>0, <2>1, <2>2, StepInStep DEF TypeOK
<1>7. ASSUME NEW w \in Workers, BumpProgress(w) PROVE InStep'
  <2>1. /\ pc[w] = "bump" /\ pc' = [pc EXCEPT ![w] = "loop"]
        /\ item' = [item EXCEPT ![w] = NoPair]
        /\ UNCHANGED <<sess, snap, stale, want, todo>>
    BY <1>7 DEF BumpProgress, Goto
  <2>2. /\ item[w] \in want[w] /\ todo[w] = {q \in want[w] : Before(item[w], q)}
        /\ want[w] \subseteq Pairs
    BY <1>p, <2>1 DEF Paced, TypeOK
  <2>3. ASSUME NEW p \in todo[w], NEW q \in want[w], Before(p, q) PROVE q \in todo[w]
    <3>1. Before(item[w], p) /\ p \in Pairs /\ q \in Pairs /\ item[w] \in Pairs
      BY <2>2
    <3>2. Before(item[w], q)
      BY <2>3, <3>1, BeforeOrder
    <3> QED BY <2>2, <3>2
  <2>4. Paced(w)'
    BY <1>p, <2>1, <2>3 DEF Paced, TypeOK
  <2> QED BY <1>0, <2>1, <2>4, StepInStep DEF TypeOK
<1>8. ASSUME NEW w \in Workers,
             \/ CompleteEmpty(w) \/ MarkDocsComplete(w) \/ EndPoisoned(w) \/ LogRedFlags(w)
             \/ CompleteJob(w) \/ FailJob(w) \/ MarkDocsFailed(w) \/ HandleException(w)
      PROVE  InStep'
  <2>1. /\ pc'[w] \in {"flags", "complete", "faildocs", "raise", "ack"}
        /\ \A v \in Workers \ {w} : pc'[v] = pc[v] /\ sess'[v] = sess[v]
        /\ UNCHANGED <<snap, stale, want, todo, item>>
    BY <1>8 DEF CompleteEmpty, MarkDocsComplete, EndPoisoned, LogRedFlags, CompleteJob, FailJob,
       MarkDocsFailed, HandleException, Goto, Poison, TypeOK
  <2>2. Paced(w)'
    BY <1>p, <2>1 DEF Paced
  <2> QED BY <1>0, <2>1, <2>2, StepInStep
<1>9. ASSUME NEW w \in Workers, Ack(w) PROVE InStep'
  <2>1. /\ pc'[w] = "idle" /\ snap'[w] = {} /\ stale'[w] = {} /\ want'[w] = {}
        /\ \A v \in Workers \ {w} :
             /\ pc'[v] = pc[v] /\ snap'[v] = snap[v] /\ stale'[v] = stale[v] /\ want'[v] = want[v]
             /\ todo'[v] = todo[v] /\ item'[v] = item[v] /\ sess'[v] = sess[v]
    BY <1>9 DEF Ack, Release, Goto, TypeOK
  <2>2. Paced(w)'
    <3>1. want'[w] = Fields \X snap'[w]
      BY <2>1
    <3>2. WholeWant(want'[w], snap'[w])
      BY <3>1 DEF WholeWant
    <3> QED BY <2>1, <3>2 DEF Paced
  <2>3. ASSUME NEW v \in Workers \ {w} PROVE Paced(v)'
    <3>1. Paced(v)
      BY <1>p
    <3> QED BY <2>1, <3>1 DEF Paced
  <2>4. ASSUME NEW u \in Workers, NEW v \in Workers, snap'[v] # {}, snap'[u] # {}
        PROVE  snap'[v] = snap'[u] /\ want'[v] = want'[u]
    BY <1>0, <2>1, <2>4 DEF InStep
  <2> QED BY <2>2, <2>3, <2>4 DEF InStep
<1>10. CASE UNCHANGED <<pc, sess, snap, stale, want, todo, item>>
  BY <1>0, <1>10 DEF InStep, Paced
<1> QED
  BY <1>0, <1>1, <1>2, <1>3, <1>4, <1>5, <1>6, <1>7, <1>8, <1>9, <1>10
     DEF Next, Api, Work, Sweeper, vars, UploadDocument, TriggerExtraction, ExtractPdf,
         SweepSelect, SweepCommit

\* A document that a step leaves alone stays whole, if the step ends no run on it and
\* the runs that went on for it still do.
LEMMA DocStays ==
    ASSUME TypeOK, TypeOK', NEW d \in Docs, DocWhole(d), ocr'[d] = ocr[d],
           \A p \in Pairs : p[2] = d => (p \in rows' <=> p \in rows),
           \A w \in Workers :
             /\ Begun(w)' /\ d \in snap'[w] <=> Begun(w) /\ d \in snap[w]
             /\ Begun(w) => want'[w] = want[w]
             /\ Healthy(w) => Healthy(w)' /\ snap'[w] = snap[w] /\ Ahead(w) \subseteq Ahead(w)'
    PROVE  DocWhole(d)'
<1>1. rows \subseteq Pairs /\ rows' \subseteq Pairs /\ \A w \in Workers : want[w] \subseteq Pairs
  BY DEF TypeOK
<1>2. ASSUME NEW p \in Pairs, p[2] = d, Covered(p) PROVE Covered(p)'
  BY <1>2 DEF Covered
<1>3. ASSUME NEW w \in Workers, Begun(w)', d \in snap'[w]
      PROVE  /\ \A p \in rows' : p[2] = d => p \in want'[w]
             /\ \A p \in want'[w] : p[2] = d => Covered(p)'
             /\ ocr'[d] = "ocr_in_progress" => \E v \in Workers : Healthy(v)' /\ d \in snap'[v]
  <2>1. /\ want'[w] = want[w]
        /\ \A p \in rows : p[2] = d => p \in want[w]
        /\ \A p \in want[w] : p[2] = d => Covered(p)
        /\ ocr[d] = "ocr_in_progress" => \E v \in Workers : Healthy(v) /\ d \in snap[v]
    BY <1>3 DEF DocWhole
  <2>2. \A p \in want'[w] : p[2] = d => Covered(p)'
    BY <1>1, <1>2, <2>1
  <2> QED BY <1>1, <2>1, <2>2
<1>4. RowsOf(d)' = RowsOf(d)
  BY DEF RowsOf, Pairs
<1>5. HoldsOneRun(d) => HoldsOneRun(d)'
  BY <1>4 DEF HoldsOneRun
<1>6. ASSUME \A w \in Workers : ~(Begun(w)' /\ d \in snap'[w])
      PROVE  ocr'[d] # "ocr_in_progress" /\ (ocr'[d] = "complete" => HoldsOneRun(d)')
  BY <1>5, <1>6 DEF DocWhole
<1> QED BY <1>3, <1>6 DEF DocWhole

\* So does every document, under a step that changes neither rows nor documents.
LEMMA AllStay ==
    ASSUME TypeOK, TypeOK', Calm, RunsAgree, UNCHANGED <<ocr, rows>>, NEW w \in Workers,
           \A v \in Workers \ {w} : /\ pc'[v] = pc[v] /\ sess'[v] = sess[v] /\ clash'[v] = clash[v]
                                    /\ snap'[v] = snap[v] /\ want'[v] = want[v]
                                    /\ todo'[v] = todo[v] /\ item'[v] = item[v],
           \A d \in Docs : Begun(w)' /\ d \in snap'[w] <=> Begun(w) /\ d \in snap[w],
           Begun(w) => want'[w] = want[w],
           Healthy(w) => Healthy(w)' /\ snap'[w] = snap[w] /\ Ahead(w) \subseteq Ahead(w)'
    PROVE  RunsAgree'
<1>1. ASSUME NEW v \in Workers \ {w}
      PROVE  (Begun(v)' <=> Begun(v)) /\ (Healthy(v)' <=> Healthy(v)) /\ Ahead(v)' = Ahead(v)
  BY DEF Begun, Healthy, Ahead
<1>2. ASSUME NEW d \in Docs PROVE DocWhole(d)'
  <2>1. DocWhole(d)
    BY DEF RunsAgree
  <2>2. \A v \in Workers :
          /\ Begun(v)' /\ d \in snap'[v] <=> Begun(v) /\ d \in snap[v]
          /\ Begun(v) => want'[v] = want[v]
          /\ Healthy(v) => Healthy(v)' /\ snap'[v] = snap[v] /\ Ahead(v) \subseteq Ahead(v)'
    BY <1>1
  <2> QED BY <2>1, <2>2, DocStays
<1> QED BY <1>2 DEF RunsAgree

\* A run's wipe puts what it wants ahead of it, for every run on those documents.
LEMMA WipeAgrees ==
    ASSUME TypeOK, TypeOK', Scope, InStep, RunsAgree, Calm, NEW w \in Workers, Wipe(w)
    PROVE  RunsAgree'
<1>1. /\ Paced(w) /\ stale[w] \subseteq snap[w] /\ sess[w] = "ok" /\ stale[w] \subseteq Present
      /\ pc[w] = "wipe"
  BY NoneGone DEF InStep, Paced, Wipe
<1>2. /\ ocr' = [d \in Docs |-> IF d \in stale[w] THEN "ocr_in_progress" ELSE ocr[d]]
      /\ rows' = rows \ Wiped(w)
      /\ clash' = [v \in Workers |->
                     clash[v] /\ ~(v # w /\ pc[v] = "insert" /\ item[v][2] \in snap[w])]
      /\ pc' = [pc EXCEPT ![w] = "start"]
      /\ UNCHANGED <<sess, snap, want, todo, item>>
  BY <1>1 DEF Wipe, Goto
<1>3. /\ ~Begun(w) /\ Begun(w)' /\ ~Healthy(w) /\ Healthy(w)' /\ Ahead(w)' = want[w]
  BY <1>1, <1>2 DEF Begun, Healthy, Ahead, TypeOK
<1>4. ASSUME NEW v \in Workers \ {w}
      PROVE  (Begun(v)' <=> Begun(v)) /\ (Healthy(v) => Healthy(v)') /\ Ahead(v)' = Ahead(v)
  <2>1. pc'[v] = pc[v] /\ (clash'[v] => clash[v])
    BY <1>2 DEF TypeOK
  <2> QED BY <1>2, <2>1 DEF Begun, Healthy, Ahead
<1>5. ASSUME NEW d \in Docs, d \in snap[w] PROVE DocWhole(d)'
  <2>1. \A p \in rows' : p[2] # d
    BY <1>2, <1>5 DEF Wiped
  <2>2. \A v \in Workers : d \in snap'[v] => want'[v] = want[w]
    BY <1>2, <1>5 DEF InStep
  <2>3. \A p \in want[w] : Covered(p)'
    BY <1>3 DEF Covered
  <2> QED BY <1>2, <1>3, <1>5, <2>1, <2>2, <2>3 DEF DocWhole
<1>6. ASSUME NEW d \in Docs, d \notin snap[w] PROVE DocWhole(d)'
  <2>1. ocr'[d] = ocr[d] /\ \A p \in Pairs : p[2] = d => (p \in rows' <=> p \in rows)
    BY <1>1, <1>2, <1>6 DEF Wiped
  <2>2. \A v \in Workers :
          /\ Begun(v)' /\ d \in snap'[v] <=> Begun(v) /\ d \in snap[v]
          /\ Begun(v) => want'[v] = want[v]
          /\ Healthy(v) => Healthy(v)' /\ snap'[v] = snap[v] /\ Ahead(v) \subseteq Ahead(v)'
    BY <1>2, <1>3, <1>4, <1>6
  <2>3. DocWhole(d)
    BY DEF RunsAgree
  <2> QED BY <2>1, <2>2, <2>3, DocStays
<1> QED BY <1>5, <1>6 DEF RunsAgree

\* A run that inserts is ahead of each run that loses the same insert to it.
LEMMA InsertAgrees ==
    ASSUME TypeOK, TypeOK', InStep, RunsAgree, Calm, NEW w \in Workers, PersistInsert(w),
           ~InsertFails(w)
    PROVE  RunsAgree'
<1> DEFINE p == item[w]
<1>1. /\ pc[w] = "insert" /\ ~clash[w] /\ sess[w] = "ok"
      /\ rows' = rows \cup {p}
      /\ clash' = [v \in Workers |-> clash[v] \/ (v # w /\ pc[v] = "insert" /\ item[v] = p)]
      /\ pc' = [pc EXCEPT ![w] = "bump"]
      /\ UNCHANGED <<ocr, sess, snap, want, todo, item>>
  BY DEF PersistInsert, InsertFails, Goto, InStep, Paced
<1>2. p \in want[w] /\ p \in Pairs /\ p[2] \in snap[w] /\ todo[w] = {q \in want[w] : Before(p, q)}
  <2>1. Paced(w)
    BY DEF InStep
  <2>2. p \in want[w] /\ p \in Pairs /\ todo[w] = {q \in want[w] : Before(p, q)}
    BY <1>1, <2>1 DEF Paced, TypeOK
  <2>3. PICK F \in {Fields} \cup UNION {JobFields[j] : j \in Jobs} : want[w] = F \X snap[w]
    BY <2>1 DEF Paced, WholeWant
  <2> QED BY <2>2, <2>3
<1>3. Begun(w) /\ Begun(w)' /\ Healthy(w) /\ Healthy(w)' /\ Ahead(w)' = todo[w] /\ Ahead(w) = todo[w] \cup {p}
  BY <1>1 DEF Begun, Healthy, Ahead, TypeOK
<1>4. ASSUME NEW v \in Workers \ {w}
      PROVE  /\ Begun(v)' <=> Begun(v)
             /\ Ahead(v)' = Ahead(v)
             /\ Healthy(v) =>
                  Healthy(v)' \/ (snap[v] = snap[w] /\ want[v] = want[w] /\ Ahead(v) = Ahead(w))
  <2>1. pc'[v] = pc[v] /\ (clash'[v] <=> clash[v] \/ (pc[v] = "insert" /\ item[v] = p))
    BY <1>1 DEF TypeOK
  <2>2. Begun(v)' <=> Begun(v)
    BY <2>1 DEF Begun
  <2>3. Ahead(v)' = Ahead(v)
    BY <1>1, <2>1 DEF Ahead
  <2>4. ASSUME Healthy(v), ~Healthy(v)' PROVE snap[v] = snap[w] /\ want[v] = want[w] /\ Ahead(v) = Ahead(w)
    <3>1. pc[v] = "insert" /\ item[v] = p
      BY <1>1, <2>1, <2>4 DEF Healthy
    <3>2. Paced(v)
      BY DEF InStep
    <3>3. p \in want[v] /\ todo[v] = {q \in want[v] : Before(p, q)}
      BY <3>1, <3>2 DEF Paced
    <3>4. snap[v] # {}
      BY <3>2, <3>3 DEF Paced, WholeWant
    <3>5. snap[v] = snap[w] /\ want[v] = want[w]
      BY <1>2, <3>4 DEF InStep
    <3>6. Ahead(v) = todo[v] \cup {p}
      BY <3>1 DEF Ahead
    <3> QED BY <1>2, <1>3, <3>3, <3>5, <3>6
  <2> QED BY <2>2, <2>3, <2>4
<1>5. ASSUME NEW q, Covered(q) PROVE Covered(q)'
  <2>1. CASE q \in rows
    BY <1>1, <2>1 DEF Covered
  <2>2. ASSUME NEW v \in Workers, Healthy(v), q \in Ahead(v) PROVE Covered(q)'
    <3>1. CASE v # w /\ Healthy(v)'
      BY <1>4, <2>2, <3>1 DEF Covered
    <3>2. CASE q \in Ahead(w)
      <4>1. q = p \/ q \in Ahead(w)'
        BY <1>3, <3>2
      <4> QED BY <1>1, <1>3, <4>1 DEF Covered
    <3> QED BY <1>3, <1>4, <2>2, <3>1, <3>2
  <2> QED BY <1>5, <2>1, <2>2 DEF Covered
<1>6. ASSUME NEW d \in Docs PROVE DocWhole(d)'
  <2>0. DocWhole(d)
    BY DEF RunsAgree
  <2>1. \A v \in Workers : Begun(v)' <=> Begun(v)
    BY <1>3, <1>4
  <2>2. ASSUME NEW v \in Workers, Begun(v), d \in snap[v]
        PROVE  /\ \A q \in rows' : q[2] = d => q \in want[v]
               /\ \A q \in want[v] : q[2] = d => Covered(q)'
               /\ ocr[d] = "ocr_in_progress" => \E u \in Workers : Healthy(u)' /\ d \in snap[u]
    <3>1. p[2] = d => p \in want[v]
      BY <1>2, <2>2 DEF InStep
    <3>2. \A q \in rows : q[2] = d => q \in want[v]
      BY <2>0, <2>2 DEF DocWhole
    <3>3. \A q \in want[v] : q[2] = d => Covered(q)'
      BY <1>5, <2>0, <2>2 DEF DocWhole
    <3>4. ASSUME NEW u \in Workers, Healthy(u), d \in snap[u]
          PROVE  \E x \in Workers : Healthy(x)' /\ d \in snap[x]
      BY <1>3, <1>4, <3>4
    <3>5. ocr[d] = "ocr_in_progress" => \E u \in Workers : Healthy(u) /\ d \in snap[u]
      BY <2>0, <2>2 DEF DocWhole
    <3> QED BY <1>1, <3>1, <3>2, <3>3, <3>4, <3>5
  <2>3. ASSUME \A v \in Workers : ~(Begun(v) /\ d \in snap[v])
        PROVE  ocr[d] # "ocr_in_progress" /\ (ocr[d] = "complete" => HoldsOneRun(d)')
    <3>1. p[2] # d
      BY <1>2, <1>3, <2>3
    <3>2. RowsOf(d)' = RowsOf(d)
      BY <1>1, <3>1 DEF RowsOf
    <3> QED BY <2>0, <2>3, <3>2 DEF DocWhole, HoldsOneRun
  <2> QED BY <1>1, <2>1, <2>2, <2>3 DEF DocWhole
<1> QED BY <1>6 DEF RunsAgree

\* A run that has gone through everything leaves nothing for another to wait for.
LEMMA CompleteAgrees ==
    ASSUME TypeOK, TypeOK', Scope, InStep, RunsAgree, Calm, NEW w \in Workers, MarkDocsComplete(w)
    PROVE  RunsAgree'
<1>1. /\ pc[w] = "loop" /\ todo[w] = {} /\ sess[w] = "ok" /\ pc' = [pc EXCEPT ![w] = "flags"]
      /\ ocr' = [d \in Docs |-> IF d \in snap[w] THEN "complete" ELSE ocr[d]]
      /\ UNCHANGED <<rows, sess, snap, want, todo, item, clash>>
  BY NoneGone DEF MarkDocsComplete, SetDocs, Goto
<1>2. Begun(w) /\ Begun(w)' /\ Ahead(w) = {}
  BY <1>1 DEF Begun, Ahead, TypeOK
<1>3. ASSUME NEW v \in Workers \ {w}
      PROVE  (Begun(v)' <=> Begun(v)) /\ (Healthy(v)' <=> Healthy(v)) /\ Ahead(v)' = Ahead(v)
  <2>1. pc'[v] = pc[v]
    BY <1>1 DEF TypeOK
  <2> QED BY <1>1, <2>1 DEF Begun, Healthy, Ahead
<1>4. ASSUME NEW q, Covered(q) PROVE Covered(q)'
  BY <1>1, <1>2, <1>3, <1>4 DEF Covered
<1>5. ASSUME NEW d \in Docs PROVE DocWhole(d)'
  <2>0. DocWhole(d)
    BY DEF RunsAgree
  <2>1. \A v \in Workers : Begun(v)' <=> Begun(v)
    BY <1>2, <1>3
  <2>2. ASSUME NEW v \in Workers, Begun(v), d \in snap[v]
        PROVE  /\ \A q \in rows : q[2] = d => q \in want[v]
               /\ \A q \in want[v] : q[2] = d => Covered(q)'
               /\ ocr'[d] = "ocr_in_progress" => \E u \in Workers : Healthy(u)' /\ d \in snap[u]
    <3>1. /\ \A q \in rows : q[2] = d => q \in want[v]
          /\ \A q \in want[v] : q[2] = d => Covered(q)'
          /\ ocr[d] = "ocr_in_progress" => \E u \in Workers : Healthy(u) /\ d \in snap[u]
      BY <1>4, <2>0, <2>2 DEF DocWhole
    <3>2. CASE d \in snap[w]
      BY <1>1, <3>1, <3>2
    <3>3. CASE d \notin snap[w]
      BY <1>1, <1>3, <3>1, <3>3
    <3> QED BY <3>2, <3>3
  <2>3. ASSUME \A v \in Workers : ~(Begun(v) /\ d \in snap[v])
        PROVE  ocr'[d] # "ocr_in_progress" /\ (ocr'[d] = "complete" => HoldsOneRun(d)')
    <3>1. d \notin snap[w] /\ ocr'[d] = ocr[d]
      BY <1>1, <1>2, <2>3
    <3>2. RowsOf(d)' = RowsOf(d)
      BY <1>1 DEF RowsOf
    <3> QED BY <2>0, <2>3, <3>1, <3>2 DEF DocWhole, HoldsOneRun
  <2> QED BY <1>1, <2>1, <2>2, <2>3 DEF DocWhole
<1> QED BY <1>5 DEF RunsAgree

\* The last run on a document leaves on it all that it wanted, and nothing else.
LEMMA AckAgrees ==
    ASSUME TypeOK, TypeOK', InStep, RunsAgree, Calm, NEW w \in Workers, Ack(w)
    PROVE  RunsAgree'
<1>1. /\ pc[w] = "ack" /\ pc'[w] = "idle" /\ snap'[w] = {}
      /\ \A v \in Workers \ {w} : /\ pc'[v] = pc[v] /\ sess'[v] = sess[v] /\ clash'[v] = clash[v]
                                  /\ snap'[v] = snap[v] /\ want'[v] = want[v]
                                  /\ todo'[v] = todo[v] /\ item'[v] = item[v]
      /\ UNCHANGED <<ocr, rows>>
  BY DEF Ack, Release, Goto, TypeOK
<1>2. Begun(w) /\ ~Begun(w)' /\ ~Healthy(w)
  BY <1>1 DEF Begun, Healthy
<1>3. ASSUME NEW v \in Workers \ {w}
      PROVE  (Begun(v)' <=> Begun(v)) /\ (Healthy(v)' <=> Healthy(v)) /\ Ahead(v)' = Ahead(v)
  BY <1>1 DEF Begun, Healthy, Ahead
<1>4. ASSUME NEW d \in Docs PROVE DocWhole(d)'
  <2>0. DocWhole(d)
    BY DEF RunsAgree
  <2>1. ASSUME NEW v \in Workers, Begun(v)', d \in snap'[v]
        PROVE  /\ \A q \in rows' : q[2] = d => q \in want'[v]
               /\ \A q \in want'[v] : q[2] = d => Covered(q)'
               /\ ocr'[d] = "ocr_in_progress" => \E u \in Workers : Healthy(u)' /\ d \in snap'[u]
    <3>1. v # w /\ Begun(v) /\ d \in snap[v] /\ want'[v] = want[v]
      BY <1>1, <1>2, <1>3, <2>1
    <3>2. /\ \A q \in rows : q[2] = d => q \in want[v]
          /\ \A q \in want[v] : q[2] = d => Covered(q)
          /\ ocr[d] = "ocr_in_progress" => \E u \in Workers : Healthy(u) /\ d \in snap[u]
      BY <2>0, <3>1 DEF DocWhole
    <3>3. \A q \in want[v] : q[2] = d => Covered(q)'
      BY <1>1, <1>2, <1>3, <3>2 DEF Covered
    <3>4. ocr[d] = "ocr_in_progress" => \E u \in Workers : Healthy(u)' /\ d \in snap'[u]
      BY <1>1, <1>2, <1>3, <3>2
    <3> QED BY <1>1, <3>1, <3>2, <3>3, <3>4
  <2>2. ASSUME \A v \in Workers : ~(Begun(v)' /\ d \in snap'[v])
        PROVE  ocr'[d] # "ocr_in_progress" /\ (ocr'[d] = "complete" => HoldsOneRun(d)')
    <3>1. \A v \in Workers \ {w} : ~(Begun(v) /\ d \in snap[v])
      BY <1>1, <1>3, <2>2
    <3>2. HoldsOneRun(d)' <=> HoldsOneRun(d)
      BY <1>1 DEF HoldsOneRun, RowsOf
    <3>3. CASE d \notin snap[w]
      BY <1>1, <2>0, <3>1, <3>2, <3>3 DEF DocWhole
    <3>4. CASE d \in snap[w]
      <4>1. \A v \in Workers : ~(Healthy(v) /\ d \in snap[v])
        BY <1>2, <3>1 DEF Healthy, Begun
      <4>2. /\ \A q \in rows : q[2] = d => q \in want[w]
            /\ \A q \in want[w] : q[2] = d => Covered(q)
            /\ ocr[d] # "ocr_in_progress"
        BY <1>2, <2>0, <3>4, <4>1 DEF DocWhole
      <4>3. PICK F \in {Fields} \cup UNION {JobFields[j] : j \in Jobs} : want[w] = F \X snap[w]
        BY DEF InStep, Paced, WholeWant
      <4>4. F \subseteq Fields
        BY SchemaAssumption
      <4>5. ASSUME NEW f \in F PROVE <<f, d>> \in rows
        <5>1. <<f, d>> \in want[w]
          BY <3>4, <4>3
        <5>2. Covered(<<f, d>>)
          BY <4>2, <5>1
        <5>3. ASSUME NEW v \in Workers, Healthy(v), <<f, d>> \in Ahead(v) PROVE FALSE
          <6>1. Ahead(v) \subseteq want[v]
            BY <5>3 DEF InStep, Paced, Healthy, Ahead
          <6>2. d \in snap[v]
            BY <5>3, <6>1 DEF InStep, Paced, WholeWant
          <6> QED BY <4>1, <5>3, <6>2
        <5> QED BY <5>2, <5>3 DEF Covered
      <4>6. ASSUME NEW f \in Fields, <<f, d>> \in rows PROVE f \in F
        BY <4>2, <4>3, <4>6
      <4>7. RowsOf(d) = F
        BY <4>4, <4>5, <4>6 DEF RowsOf
      <4>8. HoldsOneRun(d)
        BY <4>7 DEF HoldsOneRun
      <4> QED BY <1>1, <3>2, <4>2, <4>8
    <3> QED BY <3>3, <3>4
  <2> QED BY <2>1, <2>2 DEF DocWhole
<1> QED BY <1>4 DEF RunsAgree

\* Every step keeps the documents whole.
LEMMA AgreeStep ==
    /\ TypeOK /\ TypeOK' /\ Scope /\ OneCarrier /\ InStep /\ RunsAgree /\ [Next]_vars
    => RunsAgree'
<1> SUFFICES ASSUME TypeOK, TypeOK', Scope, OneCarrier, InStep, RunsAgree, [Next]_vars, Calm'
             PROVE  RunsAgree'
  BY DEF RunsAgree
<1>0. /\ Calm /\ ~Fault
      /\ \A w \in Workers : ~Failure(w)
      /\ \A d \in Docs : ~DeleteDocument(d)
  BY StaysCalm
\* A step that only makes up documents no run has read yet.
<1>1. ASSUME UNCHANGED <<rows, pc, sess, snap, want, todo, item, clash>>,
             \A d \in Docs : ocr'[d] = ocr[d] \/ (ocr[d] = "none" /\ ocr'[d] = "pending")
      PROVE  RunsAgree'
  <2>1. ASSUME NEW d \in Docs, ocr'[d] = ocr[d] PROVE DocWhole(d)'
    <3>1. DocWhole(d)
      BY <1>0 DEF RunsAgree
    <3>2. \A w \in Workers : (Begun(w)' <=> Begun(w)) /\ (Healthy(w)' <=> Healthy(w)) /\ Ahead(w)' = Ahead(w)
      BY <1>1 DEF Begun, Healthy, Ahead
    <3> QED BY <1>1, <2>1, <3>1, <3>2, DocStays
  <2>2. ASSUME NEW d \in Docs, ocr[d] = "none", ocr'[d] = "pending" PROVE DocWhole(d)'
    BY <1>1, <2>2 DEF DocWhole, Scope
  <2> QED BY <1>1, <2>1, <2>2 DEF RunsAgree
<1>2. ASSUME NEW d \in Docs, UploadDocument(d) PROVE RunsAgree'
  BY <1>1, <1>2 DEF UploadDocument, TypeOK
<1>3. ASSUME NEW j \in Jobs, NEW D \in SUBSET Docs, ExtractPdf(j, D) PROVE RunsAgree'
  BY <1>1, <1>3 DEF ExtractPdf, TypeOK
<1>4. ASSUME NEW w \in Workers, NEW m \in queue, Receive(w, m) PROVE RunsAgree'
  <2>1. /\ pc[w] = "idle" /\ pc' = [pc EXCEPT ![w] = "load"] /\ sess' = [sess EXCEPT ![w] = "ok"]
        /\ UNCHANGED <<ocr, rows, snap, want, todo, item, clash>>
    BY <1>4 DEF Receive, Goto
  <2>2. ~Begun(w) /\ ~Begun(w)' /\ ~Healthy(w)
    BY <2>1 DEF Begun, Healthy, TypeOK
  <2> QED BY <1>0, <2>1, <2>2, AllStay DEF TypeOK
<1>5. ASSUME NEW w \in Workers, Load(w) PROVE RunsAgree'
  <2>1. /\ pc[w] = "load" /\ pc'[w] \in {"empty", "wipe"}
        /\ \A v \in Workers \ {w} : pc'[v] = pc[v] /\ snap'[v] = snap[v] /\ want'[v] = want[v]
        /\ UNCHANGED <<ocr, rows, sess, todo, item, clash>>
    BY <1>5 DEF Load, Goto, TypeOK
  <2>2. ~Begun(w) /\ ~Begun(w)' /\ ~Healthy(w)
    BY <2>1 DEF Begun, Healthy
  <2> QED BY <1>0, <2>1, <2>2, AllStay
<1>6. ASSUME NEW w \in Workers, CompleteEmpty(w) PROVE RunsAgree'
  <2>1. /\ pc[w] = "empty" /\ pc' = [pc EXCEPT ![w] = "ack"]
        /\ UNCHANGED <<ocr, rows, sess, snap, want, todo, item, clash>>
    BY <1>6 DEF CompleteEmpty, Goto
  <2>2. ~Begun(w) /\ ~Healthy(w) /\ snap[w] = {}
    BY <1>0, <2>1 DEF Begun, Healthy, InStep, Paced
  <2> QED BY <1>0, <2>1, <2>2, AllStay DEF TypeOK
<1>7. ASSUME NEW w \in Workers, Wipe(w) PROVE RunsAgree'
  BY <1>0, <1>7, WipeAgrees
<1>8. ASSUME NEW w \in Workers, Start(w) PROVE RunsAgree'
  <2>1. /\ pc[w] = "start" /\ pc' = [pc EXCEPT ![w] = "loop"]
        /\ todo' = [todo EXCEPT ![w] = want[w]]
        /\ UNCHANGED <<ocr, rows, sess, snap, want, item, clash>>
    BY <1>0, <1>8, NoneGone DEF Start, Goto
  <2>2. Begun(w) /\ Begun(w)' /\ (Healthy(w) => Healthy(w)') /\ Ahead(w) \subseteq Ahead(w)'
    BY <2>1 DEF Begun, Healthy, Ahead, TypeOK
  <2> QED BY <1>0, <2>1, <2>2, AllStay DEF TypeOK
<1>9. ASSUME NEW w \in Workers, PersistDelete(w) PROVE RunsAgree'
  <2>1. PICK p \in todo[w] :
          /\ item' = [item EXCEPT ![w] = p]
          /\ todo' = [todo EXCEPT ![w] = @ \ {p}]
    BY <1>9 DEF PersistDelete
  <2>2. /\ pc[w] = "loop" /\ pc' = [pc EXCEPT ![w] = "insert"]
        /\ clash' = [clash EXCEPT ![w] = FALSE]
        /\ UNCHANGED <<ocr, rows, sess, snap, want>>
    BY <1>9 DEF PersistDelete, Goto
  <2>3. pc'[w] = "insert" /\ ~clash'[w] /\ item'[w] = p /\ todo'[w] = todo[w] \ {p}
    BY <2>1, <2>2 DEF TypeOK
  <2>4. Begun(w) /\ Begun(w)' /\ (Healthy(w) => Healthy(w)') /\ Ahead(w) \subseteq Ahead(w)'
    BY <2>2, <2>3 DEF Begun, Healthy, Ahead
  <2> QED BY <1>0, <2>1, <2>2, <2>4, AllStay DEF TypeOK
<1>10. ASSUME NEW w \in Workers, PersistInsert(w) PROVE RunsAgree'
  <2>1. CASE ~InsertFails(w)
    BY <1>0, <1>10, <2>1, InsertAgrees
  <2>2. CASE InsertFails(w)
    <3>1. /\ pc[w] = "insert" /\ pc' = [pc EXCEPT ![w] = "bump"]
          /\ \A v \in Workers \ {w} : sess'[v] = sess[v]
          /\ UNCHANGED <<ocr, rows, snap, want, todo, item, clash>>
      BY <1>10, <2>2 DEF PersistInsert, Goto, TypeOK
    <3>2. item[w] \in want[w]
      BY <1>0, <3>1 DEF InStep, Paced
    <3>3. item[w][2] \in Present
      BY <1>0, <3>2, NoneGone DEF Scope
    <3>4. ~Healthy(w)
      BY <2>2, <3>1, <3>3 DEF Healthy, InsertFails
    <3>5. Begun(w) /\ Begun(w)'
      BY <3>1 DEF Begun, TypeOK
    <3> QED BY <1>0, <3>1, <3>4, <3>5, AllStay DEF TypeOK
  <2> QED BY <2>1, <2>2
<1>11. ASSUME NEW w \in Workers, BumpProgress(w) PROVE RunsAgree'
  <2>1. /\ pc[w] = "bump" /\ pc' = [pc EXCEPT ![w] = "loop"]
        /\ item' = [item EXCEPT ![w] = NoPair] /\ clash' = [clash EXCEPT ![w] = FALSE]
        /\ UNCHANGED <<ocr, rows, sess, snap, want, todo>>
    BY <1>11 DEF BumpProgress, Goto
  <2>2. Begun(w) /\ Begun(w)' /\ (Healthy(w) => Healthy(w)') /\ Ahead(w) \subseteq Ahead(w)'
    BY <2>1 DEF Begun, Healthy, Ahead, TypeOK
  <2> QED BY <1>0, <2>1, <2>2, AllStay DEF TypeOK
<1>12. ASSUME NEW w \in Workers, MarkDocsComplete(w) PROVE RunsAgree'
  BY <1>0, <1>12, CompleteAgrees
\* After the loop a run has nothing ahead of it; without a fault it never fails its job.
<1>13. ASSUME NEW w \in Workers,
              EndPoisoned(w) \/ LogRedFlags(w) \/ CompleteJob(w) \/ HandleException(w)
       PROVE  RunsAgree'
  <2>1. /\ pc[w] \in {"flags", "complete", "raise"} \/ sess[w] = "poisoned"
        /\ Begun(w) /\ pc'[w] \in {"complete", "raise", "ack"}
        /\ \A v \in Workers \ {w} : pc'[v] = pc[v] /\ sess'[v] = sess[v]
        /\ UNCHANGED <<ocr, rows, snap, want, todo, item, clash>>
    BY <1>13 DEF EndPoisoned, LogRedFlags, CompleteJob, HandleException, Goto, Poison, Begun, TypeOK
  <2>2. Begun(w)' /\ ~Healthy(w)
    BY <2>1 DEF Begun, Healthy
  <2> QED BY <1>0, <2>1, <2>2, AllStay
<1>14. ASSUME NEW w \in Workers, FailJob(w) \/ MarkDocsFailed(w) PROVE FALSE
  BY <1>0, <1>14 DEF FailJob, MarkDocsFailed, OneCarrier, Calm
<1>15. ASSUME NEW w \in Workers, Ack(w) PROVE RunsAgree'
  BY <1>0, <1>15, AckAgrees
<1>16. CASE UNCHANGED <<ocr, rows, pc, sess, snap, want, todo, item, clash>>
  BY <1>1, <1>16
<1> QED
  BY <1>0, <1>2, <1>3, <1>4, <1>5, <1>6, <1>7, <1>8, <1>9, <1>10, <1>11, <1>12, <1>13, <1>14,
     <1>15, <1>16
     DEF Next, Api, Work, Sweeper, vars, TriggerExtraction, SweepSelect, SweepCommit

\* However many runs of the same documents and fields overlap, at rest no document is
\* left in progress and each complete one holds one whole run, as long as nothing fails
\* and nothing is deleted (pipeline.py:67-79, 153-195, coordinator.py:171-242).
THEOREM AlikeRunsDoNoHarm == Spec => []OverlappingRunsAgree
<1> DEFINE Inv ==
      TypeOK /\ HoldersOK /\ RunSaved /\ Scope /\ OneCarrier /\ InStep /\ RunsAgree
<1>1. Init => Inv
  BY TypeInit, HoldersInit, SavedInit, ScopeInit, CarrierInit, AgreeInit
<1>2. Inv /\ [Next]_vars => Inv'
  BY TypeStep, HoldersStep, SavedStep, ScopeStep, CarrierStep, PaceStep, AgreeStep
<1>3. Inv => OverlappingRunsAgree
  BY DEF RunsAgree, DocWhole, Calm, Begun, Quiet, OverlappingRunsAgree
<1> QED BY <1>1, <1>2, <1>3, PTL DEF Spec

----------------------------------------------------------------------------
(* How long an execution may take *)

\* The most steps an execution has left: three for each result, and those around the loop.
StepsLeft(w) ==
    CASE pc[w] = "load" -> 8 + 3 * Cardinality(Pairs)
      [] pc[w] = "wipe" -> 7 + 3 * Cardinality(want[w])
      [] pc[w] = "start" -> 6 + 3 * Cardinality(want[w])
      [] pc[w] = "loop" -> 5 + 3 * Cardinality(todo[w])
      [] pc[w] = "insert" -> 7 + 3 * Cardinality(todo[w])
      [] pc[w] = "bump" -> 6 + 3 * Cardinality(todo[w])
      [] pc[w] = "fail" -> 4
      [] pc[w] \in {"flags", "faildocs"} -> 3
      [] pc[w] \in {"empty", "complete", "raise"} -> 2
      [] pc[w] = "ack" -> 1
      [] OTHER -> 0

\* What the thread does, or what is done to its execution.
Own(w) ==
    \/ Work(w)
    \/ CoordinatorRaises(w) \/ PersistFails(w) \/ WorkerLost(w) \/ TimeLimit(w)

\* An execution's own steps use them up, nobody else's add any.
StepsAreUsed ==
    \A w \in Workers : pc[w] # "idle" =>
        /\ StepsLeft(w)' <= StepsLeft(w)
        /\ Own(w) => StepsLeft(w)' < StepsLeft(w)

\* The loop has a result to go on with, or it is at its end, or its session is broken.
LoopsGoOn ==
    \A w \in Workers : pc[w] = "loop" =>
        \/ sess[w] = "poisoned"
        \/ todo[w] = {}
        \/ \E p \in todo[w] : \A q \in todo[w] : q = p \/ Before(p, q)

\* A set of numbers that is not empty has a least one.
LEMMA LeastNumber ==
    ASSUME NEW S \in SUBSET Nat, S # {}
    PROVE  \E n \in S : \A m \in S : n <= m
<1>1. PICK n \in S : \A m \in S : <<m, n>> \notin OpToRel(<, Nat)
  BY NatLessThanWellFounded, WFMin, Zenon
<1>2. \A m \in S : n <= m
  <2> SUFFICES ASSUME NEW m \in S, m < n PROVE FALSE
    OBVIOUS
  <2>1. <<m, n>> \in OpToRel(<, Nat)
    BY DEF OpToRel
  <2> QED BY <1>1, <2>1
<1> QED BY <1>2

\* What is left of a run has a first result, in the order of the coordinator's loops.
LEMMA FirstResult ==
    ASSUME NEW T \in SUBSET Pairs, T # {}
    PROVE  \E p \in T : \A q \in T : q = p \/ Before(p, q)
<1> USE OrderAssumption DEF Pairs
<1> DEFINE F == {p[1] : p \in T}
<1>0. F \subseteq Nat /\ F # {}
  OBVIOUS
<1>1. PICK f \in F : \A g \in F : f <= g
  <2> HIDE DEF F
  <2> QED BY <1>0, LeastNumber
<1> DEFINE D == {p[2] : p \in {q \in T : q[1] = f}}
<1>2. D \subseteq Nat /\ D # {} /\ f \in Nat
  BY <1>0, <1>1
<1>3. PICK d \in D : \A e \in D : d <= e
  <2> HIDE DEF D
  <2> QED BY <1>2, LeastNumber
<1>4. PICK p \in T : p[1] = f /\ p[2] = d
  BY <1>3
<1>5. ASSUME NEW q \in T PROVE q = p \/ Before(p, q)
  <2>1. f <= q[1] /\ q[1] \in Nat /\ q[2] \in Nat /\ f \in Nat /\ d \in Nat
    BY <1>1, <1>2, <1>3
  <2>2. CASE q[1] = f
    <3>1. d <= q[2]
      BY <1>3, <2>2
    <3>2. q[2] = d => q = p
      BY <1>4, <2>2
    <3> QED BY <1>4, <2>1, <2>2, <3>1, <3>2 DEF Before
  <2>3. CASE q[1] # f
    BY <1>4, <2>1, <2>3 DEF Before
  <2> QED BY <2>2, <2>3
<1> QED BY <1>4, <1>5

\* The results wanted and left are numbers no larger than that of all pairs.
LEMMA ResultsCounted ==
    ASSUME NEW T \in SUBSET Pairs
    PROVE  /\ Cardinality(T) \in Nat /\ Cardinality(Pairs) \in Nat
           /\ Cardinality(T) <= Cardinality(Pairs)
           /\ \A p \in T : Cardinality(T \ {p}) = Cardinality(T) - 1
<1>1. IsFiniteSet(T) /\ Cardinality(T) <= Cardinality(Pairs)
  BY PairsFinite, FS_Subset
<1> QED BY <1>1, PairsFinite, FS_CardinalityType, FS_RemoveElement

\* An execution's own step brings it nearer to its end.
LEMMA OwnUsesStep ==
    ASSUME TypeOK, TypeOK', NEW w \in Workers, pc[w] # "idle", Own(w)
    PROVE  StepsLeft(w)' < StepsLeft(w)
<1> DEFINE all == Cardinality(Pairs)
           c == Cardinality(todo[w])
           n == Cardinality(want[w])
<1>1. /\ all \in Nat /\ c \in Nat /\ n \in Nat /\ c <= all /\ n <= all
      /\ Cardinality(want'[w]) \in Nat /\ Cardinality(want'[w]) <= all
      /\ \A p \in todo[w] : Cardinality(todo[w] \ {p}) = c - 1
  BY ResultsCounted DEF TypeOK
<1>2. pc \in [Workers -> Places] /\ pc' \in [Workers -> Places] /\ todo \in [Workers -> SUBSET Pairs]
  BY DEF TypeOK
<1> HIDE DEF all, c, n
<1> DEFINE Left(place, W, T) ==
      CASE place = "load" -> 8 + 3 * all
        [] place = "wipe" -> 7 + 3 * W
        [] place = "start" -> 6 + 3 * W
        [] place = "loop" -> 5 + 3 * T
        [] place = "insert" -> 7 + 3 * T
        [] place = "bump" -> 6 + 3 * T
        [] place = "fail" -> 4
        [] place \in {"flags", "faildocs"} -> 3
        [] place \in {"empty", "complete", "raise"} -> 2
        [] place = "ack" -> 1
        [] OTHER -> 0
<1>3. /\ StepsLeft(w) = Left(pc[w], n, c)
      /\ StepsLeft(w)' = Left(pc'[w], Cardinality(want'[w]), Cardinality(todo'[w]))
  BY DEF StepsLeft, all, c, n
<1>4. CASE Load(w)
  <2>1. pc[w] = "load" /\ pc'[w] \in {"empty", "wipe"}
    BY <1>2, <1>4 DEF Load, Goto
  <2> QED BY <1>1, <1>3, <2>1
<1>5. CASE Wipe(w)
  <2>1. pc[w] = "wipe" /\ pc'[w] \in {"start", "raise"} /\ want'[w] = want[w]
    BY <1>2, <1>5 DEF Wipe, Goto
  <2> QED BY <1>1, <1>3, <2>1 DEF n
<1>6. CASE Start(w)
  <2>1. /\ pc[w] = "start" /\ pc'[w] \in {"loop", "raise"}
        /\ pc'[w] = "loop" => todo'[w] = want[w]
    BY <1>2, <1>6 DEF Start, Goto
  <2> QED BY <1>1, <1>3, <2>1 DEF n
<1>7. CASE PersistDelete(w)
  <2>1. /\ pc[w] = "loop" /\ pc'[w] = "insert"
        /\ \E p \in todo[w] : todo'[w] = todo[w] \ {p}
    BY <1>2, <1>7 DEF PersistDelete, Goto
  <2>2. Cardinality(todo'[w]) = c - 1
    BY <1>1, <2>1
  <2> QED BY <1>1, <1>3, <2>1, <2>2
<1>8. CASE PersistInsert(w) \/ PersistFails(w)
  <2>1. pc[w] = "insert" /\ pc'[w] = "bump" /\ todo'[w] = todo[w]
    BY <1>2, <1>8 DEF PersistInsert, PersistFails, Goto
  <2> QED BY <1>1, <1>3, <2>1 DEF c
<1>9. CASE BumpProgress(w)
  <2>1. pc[w] = "bump" /\ pc'[w] = "loop" /\ todo'[w] = todo[w]
    BY <1>2, <1>9 DEF BumpProgress, Goto
  <2> QED BY <1>1, <1>3, <2>1 DEF c
<1>10. CASE MarkDocsComplete(w) \/ EndPoisoned(w) \/ CoordinatorRaises(w)
  <2>1. pc[w] = "loop" /\ pc'[w] \in {"flags", "raise", "fail"}
    BY <1>2, <1>10 DEF MarkDocsComplete, EndPoisoned, CoordinatorRaises, Goto
  <2> QED BY <1>1, <1>3, <2>1
<1>11. CASE LogRedFlags(w)
  <2>1. pc[w] = "flags" /\ pc'[w] \in {"complete", "raise"}
    BY <1>2, <1>11 DEF LogRedFlags, Goto
  <2> QED BY <1>3, <2>1
<1>12. CASE FailJob(w)
  <2>1. pc[w] = "fail" /\ pc'[w] \in {"faildocs", "raise"}
    BY <1>2, <1>12 DEF FailJob, Goto
  <2> QED BY <1>3, <2>1
<1>13. CASE MarkDocsFailed(w)
  <2>1. pc[w] = "faildocs" /\ pc'[w] = "raise"
    BY <1>2, <1>13 DEF MarkDocsFailed, Goto
  <2> QED BY <1>3, <2>1
<1>14. CASE CompleteEmpty(w) \/ CompleteJob(w) \/ HandleException(w)
  <2>1. pc[w] \in {"empty", "complete", "raise"} /\ pc'[w] = "ack"
    BY <1>2, <1>14 DEF CompleteEmpty, CompleteJob, HandleException, Goto
  <2> QED BY <1>3, <2>1
<1>15. CASE Ack(w) \/ WorkerLost(w) \/ TimeLimit(w)
  <2>1. pc[w] \in Places \ {"idle"} /\ pc'[w] = "idle"
    BY <1>2, <1>15 DEF Ack, WorkerLost, TimeLimit, Release, Goto
  <2> QED BY <1>1, <1>3, <2>1 DEF Places
<1> QED
  BY <1>4, <1>5, <1>6, <1>7, <1>8, <1>9, <1>10, <1>11, <1>12, <1>13, <1>14, <1>15 DEF Own, Work

\* Nobody else's step changes where an execution is and what it has to do.
LEMMA OthersUseNone ==
    ASSUME TypeOK, NEW w \in Workers, pc[w] # "idle", [Next]_vars, ~Own(w)
    PROVE  StepsLeft(w)' = StepsLeft(w)
<1> USE DEF TypeOK, Goto
<1> DEFINE Still == pc'[w] = pc[w] /\ want'[w] = want[w] /\ todo'[w] = todo[w]
<1>1. ASSUME NEW v \in Workers, NEW m \in queue, Receive(v, m) PROVE Still
  BY <1>1 DEF Receive
<1>2. ASSUME NEW v \in Workers \ {w}, Work(v) PROVE Still
  <2>1. CASE Load(v) \/ CompleteEmpty(v) \/ Wipe(v) \/ Start(v)
    BY <2>1 DEF Load, CompleteEmpty, Wipe, Start
  <2>2. CASE PersistDelete(v) \/ PersistInsert(v) \/ BumpProgress(v)
    BY <2>2 DEF PersistDelete, PersistInsert, BumpProgress
  <2>3. CASE MarkDocsComplete(v) \/ EndPoisoned(v) \/ LogRedFlags(v) \/ CompleteJob(v)
    BY <2>3 DEF MarkDocsComplete, EndPoisoned, LogRedFlags, CompleteJob
  <2>4. CASE FailJob(v) \/ MarkDocsFailed(v) \/ HandleException(v) \/ Ack(v)
    BY <2>4 DEF FailJob, MarkDocsFailed, HandleException, Ack, Release
  <2> QED BY <1>2, <2>1, <2>2, <2>3, <2>4 DEF Work
<1>3. ASSUME NEW v \in Workers \ {w}, Failure(v) PROVE Still
  BY <1>3 DEF Failure, CoordinatorRaises, PersistFails, WorkerLost, TimeLimit, VisibilityTimeout, Release
<1>4. ASSUME VisibilityTimeout(w) PROVE Still
  BY <1>4 DEF VisibilityTimeout
<1>5. UNCHANGED <<pc, want, todo>> => Still
  BY SMT
<1>6. Api \/ Sweeper \/ UNCHANGED vars => UNCHANGED <<pc, want, todo>>
  BY DEF Api, UploadDocument, DeleteDocument, TriggerExtraction, ExtractPdf, Sweeper, SweepSelect,
         SweepCommit, vars
<1>7. Still
  BY <1>1, <1>2, <1>3, <1>4, <1>5, <1>6 DEF Next, Own, Failure
<1> QED BY <1>7 DEF StepsLeft

\* An execution ends: it has a bounded number of steps left, each step of its own takes one,
\* nothing that clients, other threads, the sweeper or the broker do gives one back, and its
\* loop never waits for anything, a broken session included (tasks.py:28-52,
\* pipeline.py:34-170, coordinator.py:171-250).
THEOREM ExecutionsRunOut ==
    Spec => /\ [](\A w \in Workers : pc[w] # "idle" => StepsLeft(w) \in 1..(8 + 3 * Cardinality(Pairs)))
            /\ []LoopsGoOn
            /\ [][StepsAreUsed]_vars
<1>1. ASSUME TypeOK, NEW w \in Workers
      PROVE  /\ StepsLeft(w) \in 0..(8 + 3 * Cardinality(Pairs))
             /\ pc[w] # "idle" => StepsLeft(w) > 0
  <2>1. /\ Cardinality(Pairs) \in Nat /\ Cardinality(want[w]) \in Nat /\ Cardinality(todo[w]) \in Nat
        /\ Cardinality(want[w]) <= Cardinality(Pairs) /\ Cardinality(todo[w]) <= Cardinality(Pairs)
    BY <1>1, ResultsCounted DEF TypeOK
  <2>2. pc[w] \in Places
    BY <1>1 DEF TypeOK
  <2> QED BY <2>1, <2>2 DEF StepsLeft, Places
<1>2. TypeOK => \A w \in Workers : pc[w] # "idle" => StepsLeft(w) \in 1..(8 + 3 * Cardinality(Pairs))
  <2>1. Cardinality(Pairs) \in Nat
    BY PairsFinite, FS_CardinalityType
  <2> QED BY <1>1, <2>1
<1>3. TypeOK => LoopsGoOn
  BY FirstResult DEF TypeOK, LoopsGoOn
<1>4. TypeOK /\ TypeOK' /\ [Next]_vars => StepsAreUsed
  <2> SUFFICES ASSUME TypeOK, TypeOK', [Next]_vars, NEW w \in Workers, pc[w] # "idle"
               PROVE  /\ StepsLeft(w)' <= StepsLeft(w)
                      /\ Own(w) => StepsLeft(w)' < StepsLeft(w)
    BY DEF StepsAreUsed
  <2>1. StepsLeft(w) \in 0..(8 + 3 * Cardinality(Pairs)) /\ Cardinality(Pairs) \in Nat
    BY <1>1, PairsFinite, FS_CardinalityType
  <2>2. StepsLeft(w)' \in Int
    <3>1. /\ Cardinality(Pairs) \in Nat /\ Cardinality(want'[w]) \in Nat /\ Cardinality(todo'[w]) \in Nat
      BY ResultsCounted DEF TypeOK
    <3> QED BY <3>1 DEF StepsLeft
  <2>3. CASE Own(w)
    BY <2>1, <2>2, <2>3, OwnUsesStep
  <2>4. CASE ~Own(w)
    BY <2>1, <2>4, OthersUseNone
  <2> QED BY <2>3, <2>4
<1> QED BY <1>2, <1>3, <1>4, TypeCorrect, PTL DEF Spec
====
