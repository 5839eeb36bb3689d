---- MODULE Intake_proofs ----
(* The files of requests and their documents, for every number of requests and *)
(* files and whatever the limits are.                                          *)
EXTENDS Intake, FiniteSetTheorems, TLAPS

----------------------------------------------------------------------------
(* The inductive invariant *)

\* Until its rows are committed a request has none, and until it writes it has no file;
\* while it writes it has the files up to the one it is at, and none of them gets old.
WritesInOrder ==
    \A r \in Requests :
      /\ pc[r] \in {"start", "mkdir", "write"} => rows \cap Files(r) = {}
      /\ pc[r] \in {"start", "mkdir"} => In(r) = {}
      /\ pc[r] \in {"mkdir", "write", "dispatch"} => In(r) \cap old = {}
      /\ pc[r] = "write" => \E k \in Nat : In(r) = {<<r, n>> : n \in 1..k}

\* What FreshFilesAreKept says of a job that is about to be published.
FilesInPlace == \A r \in Requests : pc[r] = "dispatch" => rows \cap Files(r) \subseteq disk

FilesInv == TypeOK /\ WritesInOrder /\ FilesInPlace

----------------------------------------------------------------------------
(* Files and requests *)

\* A file is of the request it names.
LEMMA FileOfRequest ==
    ASSUME NEW r \in Requests
    PROVE  /\ \A f \in Files(r) : f[1] = r /\ f \in AllFiles
           /\ \A n \in DOMAIN Uploads[r] : <<r, n>> \in Files(r) /\ <<r, n>>[1] = r
           /\ Files(r) = {f \in AllFiles : f[1] = r}
           /\ Uploads[r] \in Seq([pdf : BOOLEAN, size : Nat, known : BOOLEAN])
           /\ DOMAIN Uploads[r] = 1..Len(Uploads[r]) /\ Len(Uploads[r]) \in Nat
<1>1. \A q \in Requests : \A f \in Files(q) : f[1] = q
  BY DEF Files
<1>2. Files(r) \subseteq AllFiles /\ \A f \in AllFiles : \E q \in Requests : f \in Files(q)
  BY DEF AllFiles
<1> QED BY <1>1, <1>2, IntakeAssumption DEF Files

\* The first k files of a request are k.
LEMMA WrittenCounts ==
    ASSUME NEW r, NEW k \in Nat, In(r) = {<<r, n>> : n \in 1..k}
    PROVE  Written(r) = k
<1> DEFINE g == [n \in 1..k |-> <<r, n>>]
<1>1. g \in Surjection(1..k, In(r)) /\ \A m, n \in 1..k : g[m] = g[n] => m = n
  BY DEF Surjection
<1>2. g \in Bijection(1..k, In(r))
  BY <1>1 DEF Bijection, Injection, Surjection, IsInjective
<1>3. IsFiniteSet(1..k) /\ Cardinality(1..k) = k
  BY FS_Interval
<1> HIDE DEF g
<1>4. Cardinality(In(r)) = Cardinality(1..k)
  BY <1>2, <1>3, FS_Bijection DEF ExistsBijection
<1> QED BY <1>3, <1>4 DEF Written

----------------------------------------------------------------------------
(* Types *)

\* Nothing is written yet.
LEMMA TypeInit == Init => TypeOK
BY DEF Init, TypeOK

\* Every action keeps the types; a directory goes only when nothing is left in it.
LEMMA TypeStep == TypeOK /\ [Next]_vars => TypeOK'
<1> SUFFICES ASSUME TypeOK, [Next]_vars PROVE TypeOK'
  OBVIOUS
<1> USE DEF TypeOK, files
<1>1. ASSUME NEW r \in Requests, Validate(r) PROVE TypeOK'
  BY <1>1 DEF Validate, Answered
<1>2. ASSUME NEW r \in Requests, MakeDir(r) PROVE TypeOK'
  BY <1>2 DEF MakeDir, Answered
<1>3. ASSUME NEW r \in Requests, WriteFile(r) PROVE TypeOK'
  <2> DEFINE n == Written(r) + 1
  <2>1. n \in DOMAIN Uploads[r] /\ <<r, n>> \in AllFiles /\ <<r, n>>[1] = r
    BY <1>3, FileOfRequest DEF WriteFile
  <2> QED BY <1>3, <2>1 DEF WriteFile, Answered
<1>4. ASSUME NEW r \in Requests, CommitRows(r) PROVE TypeOK'
  <2>1. Files(r) \subseteq AllFiles
    BY FileOfRequest
  <2> QED BY <1>4, <2>1 DEF CommitRows, Answered
<1>5. ASSUME NEW r \in Requests, Dispatch(r) PROVE TypeOK'
  BY <1>5 DEF Dispatch, Answered, In
<1>6. ASSUME NEW r \in Requests, Extract(r) PROVE TypeOK'
  BY <1>6 DEF Extract
<1>7. ASSUME NEW f \in index, IndexDocument(f) PROVE TypeOK'
  BY <1>7 DEF IndexDocument
<1>8. ASSUME NEW f \in rows, DeleteDocument(f) PROVE TypeOK'
  BY <1>8 DEF DeleteDocument
<1>9. CASE Age
  BY <1>9 DEF Age
<1>10. CASE SweepStart
  BY <1>10 DEF SweepStart
<1>11. ASSUME NEW p \in sweep, SweepPath(p) PROVE TypeOK'
  BY <1>11 DEF SweepPath, Emptied, In
<1>12. CASE UNCHANGED vars
  BY <1>12 DEF vars
<1> QED BY <1>1, <1>2, <1>3, <1>4, <1>5, <1>6, <1>7, <1>8, <1>9, <1>10, <1>11, <1>12
           DEF Next, Handle, Retention

\* Every variable keeps its type.
THEOREM TypeCorrect == Spec => []TypeOK
BY TypeInit, TypeStep, PTL DEF Spec

----------------------------------------------------------------------------
(* Files stay *)

\* Each step keeps the order of writing.  What is published is complete because Written
\* counts the files up to the last, and none of them was old enough to be swept.
LEMMA FilesStep == FilesInv /\ [Next]_vars => FilesInv'
<1> SUFFICES ASSUME FilesInv, [Next]_vars PROVE (WritesInOrder /\ FilesInPlace)'
  BY TypeStep DEF FilesInv
<1> DEFINE Fits(r) ==
      /\ pc[r] \in {"start", "mkdir", "write"} => rows \cap Files(r) = {}
      /\ pc[r] \in {"start", "mkdir"} => In(r) = {}
      /\ pc[r] \in {"mkdir", "write", "dispatch"} => In(r) \cap old = {}
      /\ pc[r] = "write" => \E k \in Nat : In(r) = {<<r, n>> : n \in 1..k}
      /\ pc[r] = "dispatch" => rows \cap Files(r) \subseteq disk
<1> USE DEF TypeOK, files
<1>0. TypeOK /\ \A q \in Requests : Fits(q)
  BY DEF FilesInv, WritesInOrder, FilesInPlace
<1> SUFFICES ASSUME NEW q \in Requests PROVE Fits(q)'
  BY DEF WritesInOrder, FilesInPlace
<1>a. \A f \in Files(q) : f[1] = q
  BY FileOfRequest
<1>1. ASSUME NEW r \in Requests, Validate(r) PROVE Fits(q)'
  BY <1>0, <1>1 DEF Validate, In, Files
<1>2. ASSUME NEW r \in Requests, MakeDir(r) PROVE Fits(q)'
  <2>1. CASE q = r
    <3>1. In(r) = {<<r, n>> : n \in 1..0} /\ In(r)' = In(r) /\ 0 \in Nat
      BY <1>0, <1>2, <2>1 DEF MakeDir, In
    <3> QED BY <1>0, <1>2, <2>1, <3>1 DEF MakeDir, Files
  <2>2. CASE q # r
    BY <1>0, <1>2, <2>2 DEF MakeDir, In, Files
  <2> QED BY <2>1, <2>2
<1>3. ASSUME NEW r \in Requests, WriteFile(r) PROVE Fits(q)'
  <2> DEFINE n == Written(r) + 1
  <2>0. pc[r] = "write" /\ UNCHANGED <<old, rows>> /\ Files(q)' = Files(q)
    BY <1>3 DEF WriteFile, Files
  <2>1. CASE UNCHANGED disk
    BY <1>0, <1>3, <2>0, <2>1 DEF WriteFile, In
  <2>2. CASE ~UNCHANGED disk
    <3>1. n \in DOMAIN Uploads[r] /\ disk' = disk \cup {<<r, n>>} /\ pc' = pc
      BY <1>3, <2>2 DEF WriteFile
    <3>2. CASE q # r
      <4>1. In(q)' = In(q)
        BY <3>1, <3>2 DEF In
      <4> QED BY <1>0, <2>0, <3>1, <4>1
    <3>3. CASE q = r
      <4>1. PICK k \in Nat : In(r) = {<<r, i>> : i \in 1..k}
        BY <1>0, <2>0
      <4>2. n = k + 1
        BY <4>1, WrittenCounts
      <4>3. In(r)' = In(r) \cup {<<r, k + 1>>}
        BY <3>1, <4>2 DEF In
      <4>4. {<<r, i>> : i \in 1..(k + 1)} = {<<r, i>> : i \in 1..k} \cup {<<r, k + 1>>}
        BY <4>1
      <4>5. <<r, k + 1>> \notin In(r)
        BY <4>1
      <4>6. <<r, k + 1>> \notin old
        BY <1>0, <4>5 DEF In
      <4> QED BY <1>0, <2>0, <3>1, <3>3, <4>1, <4>3, <4>4, <4>6
    <3> QED BY <3>2, <3>3
  <2> QED BY <2>1, <2>2
<1>4. ASSUME NEW r \in Requests, CommitRows(r) PROVE Fits(q)'
  <2>0. Files(q)' = Files(q) /\ In(q)' = In(q)
    BY <1>4 DEF CommitRows, Files, In
  <2>1. CASE q # r
    <3>1. \A f \in Files(r) : f[1] = r
      BY FileOfRequest
    <3>2. rows' \cap Files(q) = rows \cap Files(q)
      BY <1>4, <1>a, <2>1, <3>1 DEF CommitRows
    <3> QED BY <1>0, <1>4, <2>0, <2>1, <3>2 DEF CommitRows
  <2>2. CASE q = r
    <3>1. PICK k \in Nat : In(r) = {<<r, i>> : i \in 1..k}
      BY <1>0, <1>4 DEF CommitRows
    <3>2. k = Len(Uploads[r])
      BY <1>4, <3>1, WrittenCounts DEF CommitRows
    <3>3. Files(r) \subseteq In(r)
      BY <3>1, <3>2, FileOfRequest DEF Files
    <3> QED BY <1>0, <1>4, <2>0, <2>2, <3>3 DEF CommitRows, In
  <2> QED BY <2>1, <2>2
<1>5. ASSUME NEW r \in Requests, Dispatch(r) PROVE Fits(q)'
  BY <1>0, <1>5, <1>a DEF Dispatch, In, Files
<1>6. ASSUME NEW r \in Requests, Extract(r) PROVE Fits(q)'
  BY <1>0, <1>6 DEF Extract, In, Files
<1>7. ASSUME NEW f \in index, IndexDocument(f) PROVE Fits(q)'
  BY <1>0, <1>7 DEF IndexDocument, In, Files
<1>8. ASSUME NEW f \in rows, DeleteDocument(f) PROVE Fits(q)'
  <2>1. f \in In(q) => f \in AllFiles /\ f[1] = q
    BY <1>0 DEF In
  <2>2. f \in In(q) => f \in Files(q)
    BY <2>1, FileOfRequest
  <2>3. pc[q] \in {"start", "mkdir", "write"} => In(q)' = In(q)
    BY <1>0, <1>8, <2>2 DEF DeleteDocument, In
  <2> QED BY <1>0, <1>8, <2>3 DEF DeleteDocument, In, Files
<1>9. CASE Age
  BY <1>0, <1>9 DEF Age, In, Files, Answered
<1>10. CASE SweepStart
  BY <1>0, <1>10 DEF SweepStart, In, Files
<1>11. ASSUME NEW p \in sweep, SweepPath(p) PROVE Fits(q)'
  <2>1. pc[q] \in {"start", "mkdir", "write", "dispatch"} => In(q)' = In(q)
    BY <1>0, <1>11 DEF SweepPath, SweptAway, In
  <2>2. pc[q] = "dispatch" => rows \cap Files(q) \subseteq In(q)
    BY <1>0, <1>a DEF In
  <2> QED BY <1>0, <1>11, <2>1, <2>2 DEF SweepPath, Files, In, SweptAway
<1>12. CASE UNCHANGED vars
  BY <1>0, <1>12 DEF vars, In, Files
<1> QED BY <1>1, <1>2, <1>3, <1>4, <1>5, <1>6, <1>7, <1>8, <1>9, <1>10, <1>11, <1>12
           DEF Next, Handle, Retention

\* Nothing is written and nothing published.
LEMMA FilesInit == Init => FilesInv
BY TypeInit DEF Init, FilesInv, WritesInOrder, FilesInPlace, In

\* A job is published with its files, and no step takes a file of a document before its time.
THEOREM FreshKept == Spec => FreshFilesAreKept
<1> DEFINE Kept == \A f \in rows \cap disk :
                     \/ f \in disk' \/ f \in old \/ f \notin rows' \/ job'[f[1]] = "failed"
<1>1. ASSUME TypeOK, [Next]_vars PROVE Kept
  <2> USE DEF files
  <2>1. ASSUME NEW r \in Requests, Dispatch(r) PROVE Kept
    <3>1. CASE UNCHANGED disk
      BY <3>1
    <3>2. CASE disk' = disk \ In(r) /\ job' = [job EXCEPT ![r] = "failed"]
      <4>1. job'[r] = "failed"
        BY <1>1, <2>1, <3>2 DEF TypeOK
      <4>2. \A f \in disk : f \in disk' \/ f[1] = r
        BY <3>2 DEF In
      <4> QED BY <4>1, <4>2
    <3> QED BY <2>1, <3>1, <3>2 DEF Dispatch
  <2>2. ASSUME NEW p \in sweep, SweepPath(p) PROVE Kept
    BY <2>2 DEF SweepPath, SweptAway
  <2>3. ASSUME NEW f \in rows, DeleteDocument(f) PROVE Kept
    BY <2>3 DEF DeleteDocument
  <2>4. ASSUME NEW r \in Requests, Validate(r) \/ MakeDir(r) \/ WriteFile(r) \/ CommitRows(r) \/ Extract(r)
        PROVE  Kept
    BY <2>4 DEF Validate, MakeDir, WriteFile, CommitRows, Extract
  <2>5. ASSUME Age \/ SweepStart \/ (\E f \in index : IndexDocument(f)) \/ UNCHANGED vars PROVE Kept
    BY <2>5 DEF Age, SweepStart, IndexDocument, vars
  <2> QED BY <1>1, <2>1, <2>2, <2>3, <2>4, <2>5 DEF Next, Handle, Retention
<1>2. TypeOK /\ [Next]_vars => [Kept]_vars
  BY <1>1
<1>3. FilesInv => FilesInPlace
  BY DEF FilesInv
<1> QED BY <1>2, <1>3, TypeCorrect, FilesInit, FilesStep, PTL DEF Spec, FreshFilesAreKept, FilesInPlace
====
