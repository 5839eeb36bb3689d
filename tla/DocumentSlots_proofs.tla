---- MODULE DocumentSlots_proofs ----
(* The limits on a tenant's documents, and that documents keep their files,    *)
(* for every number of uploads, deletions and slots.                          *)
EXTENDS DocumentSlots, FiniteSetTheorems, TLAPS

----------------------------------------------------------------------------
(* The inductive invariant, in parts *)

\* A request under way or answered has a row only once it is answered, and what is
\* being deleted has had one.
RowsAreAnswered ==
    /\ \A u \in Uploads : row[u] # "none" => pc[u] = "done"
    /\ \A x \in Deleters : del[x] = NoDelete \/ (del[x].doc \in Uploads /\ row[del[x].doc] # "none")

\* Slot 0 is for base leases, which do not count again; each document has its slot.
SlotsApart ==
    /\ \A u \in Uploads : /\ u \in Base => order[u] = 0 /\ pc[u] \notin {"recount", "rename"}
                          /\ u \notin Base /\ (Active(u) \/ row[u] # "none") => order[u] # 0
    /\ \A u, v \in Documents : order[u] = order[v] => u = v

\* Paths end in the name of their request, and so does what is in them.
NamesKept ==
    /\ \A u \in Uploads : path[u][2] = Name[u]
    /\ \A p \in Paths : disk[p] # Nothing => Name[disk[p]] = p[2]

\* The file of a request whose name nobody shares is its own from the moment it is written.
UnsharedOwnFile ==
    \A u \in Uploads :
        Unshared(u) /\ (pc[u] \in {"insert", "recount", "rename"} \/ (u \in Documents /\ ~BeingDeleted(u)))
            => disk[path[u]] = u

\* Until requests overlap or anything is deleted, one upload is under way, nobody counts
\* twice, the orders are no more than the amendments, and a path says its slot.
SerialSlots ==
    Serial =>
      /\ \A u, v \in Uploads : Active(u) /\ Active(v) => u = v
      /\ \A u \in Amendments : order[u] <= Cardinality(Amendments)
      /\ \A u \in Uploads : Active(u) =>
           /\ pc[u] \in {"write", "insert"}
           /\ IF u \in Base THEN Documents \cap Base = {} ELSE order[u] = Cardinality(Amendments) + 1
      /\ \A u \in Uploads : Active(u) \/ u \in Documents => path[u] = FileAt(u, order[u])
      /\ \A u \in Uploads : pc[u] = "insert" \/ u \in Documents => disk[path[u]] = u

\* What the limits need, and what the files need besides it.
SlotsInv == TypeOK /\ RowsAreAnswered /\ SlotsApart
FilesInv == SlotsInv /\ NamesKept /\ UnsharedOwnFile /\ SerialSlots

----------------------------------------------------------------------------
(* Types *)

\* There are only so many documents.
LEMMA DocumentsFinite ==
    /\ IsFiniteSet(Documents) /\ IsFiniteSet(Amendments)
    /\ Cardinality(Amendments) \in Nat
<1>1. Documents \subseteq Uploads /\ Amendments \subseteq Uploads
  BY DEF Documents, Amendments
<1> QED BY <1>1, UploadsAssumption, FS_Subset, FS_CardinalityType

\* A path is a slot and a name.
LEMMA PathTypes ==
    ASSUME NEW u \in Uploads, NEW o \in Orders
    PROVE  FileAt(u, o) \in Paths /\ FileAt(u, o)[1] = o /\ FileAt(u, o)[2] = Name[u]
BY DEF FileAt, Paths, Names

\* An order is only computed when a slot is left.
LEMMA NextOrderInRange == ~Full => NextOrder \in Orders \ {0}
BY DocumentsFinite, LimitAssumption DEF Full, NextOrder, Orders

\* Nothing has been uploaded.
LEMMA TypeInit == Init => TypeOK
<1> SUFFICES ASSUME Init PROVE TypeOK
  OBVIOUS
<1>1. 0 \in Orders
  BY LimitAssumption DEF Orders
<1>2. \A u \in Uploads : FileAt(u, 0) \in Paths
  BY <1>1, PathTypes
<1>3. tries \in [Uploads -> 0..(MaxAmendments + 1)]
  BY LimitAssumption DEF Init
<1> QED BY <1>1, <1>2, <1>3 DEF Init, TypeOK, NoDelete

\* Every step keeps the types: an order is in range when it is computed.
LEMMA TypeStep == TypeOK /\ [Next]_vars => TypeOK'
<1> SUFFICES ASSUME TypeOK, [Next]_vars PROVE TypeOK'
  OBVIOUS
<1> USE DEF TypeOK, Goto
<1>1. ASSUME NEW u \in Uploads, Check(u) PROVE TypeOK'
  <2>1. raced' \in BOOLEAN
    BY <1>1, Zenon DEF Check
  <2>2. CASE (u \in Base /\ Documents \cap Base # {}) \/ (u \notin Base /\ Full)
    BY <1>1, <2>1, <2>2 DEF Check
  <2>3. CASE ~((u \in Base /\ Documents \cap Base # {}) \/ (u \notin Base /\ Full))
    <3> DEFINE o == IF u \in Base THEN 0 ELSE NextOrder
    <3>1. o \in Orders
      BY <2>3, NextOrderInRange, LimitAssumption DEF Orders
    <3>2. FileAt(u, o) \in Paths
      BY <3>1, PathTypes
    <3>3. /\ order' = [order EXCEPT ![u] = o] /\ path' = [path EXCEPT ![u] = FileAt(u, o)]
          /\ pc' = [pc EXCEPT ![u] = "write"] /\ UNCHANGED <<row, tries, del, disk>>
      BY <1>1, <2>3 DEF Check
    <3> HIDE DEF o
    <3> QED BY <2>1, <3>1, <3>2, <3>3
  <2> QED BY <2>2, <2>3
<1>2. ASSUME NEW u \in Uploads, Write(u) PROVE TypeOK'
  BY <1>2 DEF Write
<1>3. ASSUME NEW u \in Uploads, Insert(u) PROVE TypeOK'
  BY <1>3, LimitAssumption DEF Insert
<1>4. ASSUME NEW u \in Uploads, Recount(u) PROVE TypeOK'
  BY <1>4, NextOrderInRange DEF Recount, Remove
<1>5. ASSUME NEW u \in Uploads, Rename(u) PROVE TypeOK'
  <2> DEFINE new == FileAt(u, order[u])
  <2>1. new \in Paths /\ path[u] \in Paths
    BY PathTypes
  <2>2. /\ path' = [path EXCEPT ![u] = new] /\ pc' = [pc EXCEPT ![u] = "insert"]
        /\ UNCHANGED <<row, order, tries, del, raced>>
        /\ disk' = [disk EXCEPT ![new] = disk[path[u]], ![path[u]] = Nothing] \/ disk' = disk
    BY <1>5 DEF Rename
  <2> HIDE DEF new
  <2> QED BY <2>1, <2>2
<1>6. ASSUME NEW u \in Uploads, GiveUp(u) PROVE TypeOK'
  BY <1>6 DEF GiveUp
<1>7. ASSUME NEW x \in Deleters, NEW u \in Uploads, DeleteGet(x, u) PROVE TypeOK'
  <2>1. raced' \in BOOLEAN
    BY <1>7, Zenon DEF DeleteGet
  <2> QED BY <1>7, <2>1 DEF DeleteGet
<1>8. ASSUME NEW x \in Deleters, DeleteUnlink(x) PROVE TypeOK'
  BY <1>8 DEF DeleteUnlink, Remove
<1>9. ASSUME NEW x \in Deleters, DeleteCommit(x) PROVE TypeOK'
  BY <1>9 DEF DeleteCommit, NoDelete
<1>10. CASE UNCHANGED vars
  BY <1>10 DEF vars
<1> QED BY <1>1, <1>2, <1>3, <1>4, <1>5, <1>6, <1>7, <1>8, <1>9, <1>10 DEF Next, Handle, Delete

\* document_order stays in 0..MAX_AMENDMENTS, and a request writes, renames and counts
\* only with orders and paths of that range (orm.py:90, documents.py:54-138).
THEOREM TypeCorrect == Spec => []TypeOK
BY TypeInit, TypeStep, PTL DEF Spec
----------------------------------------------------------------------------
(* Slots *)

\* No document has a slot yet.
LEMMA SlotsInit == Init => SlotsInv
<1> SUFFICES ASSUME Init PROVE SlotsInv
  OBVIOUS
<1>1. TypeOK
  BY TypeInit
<1>2. RowsAreAnswered
  BY DEF Init, RowsAreAnswered
<1>3. SlotsApart
  BY DEF Init, SlotsApart, Documents, Active
<1> QED BY <1>1, <1>2, <1>3 DEF SlotsInv

\* A request inserts its row only into a slot no document has, and what it counts
\* for an amendment is never slot 0.
LEMMA SlotsStep == SlotsInv /\ [Next]_vars => SlotsInv'
<1> SUFFICES ASSUME SlotsInv, [Next]_vars PROVE RowsAreAnswered' /\ SlotsApart'
  BY TypeStep DEF SlotsInv
<1> USE DEF SlotsInv, TypeOK, RowsAreAnswered, SlotsApart, Goto, Active, Documents
<1>1. ASSUME NEW u \in Uploads, Check(u) PROVE RowsAreAnswered' /\ SlotsApart'
  <2>1. CASE (u \in Base /\ Documents \cap Base # {}) \/ (u \notin Base /\ Full)
    BY <1>1, <2>1 DEF Check
  <2>2. CASE ~((u \in Base /\ Documents \cap Base # {}) \/ (u \notin Base /\ Full))
    <3> DEFINE o == IF u \in Base THEN 0 ELSE NextOrder
    <3>1. IF u \in Base THEN o = 0 ELSE o \in Orders \ {0}
      BY <2>2, NextOrderInRange
    <3>2. /\ order' = [order EXCEPT ![u] = o] /\ pc' = [pc EXCEPT ![u] = "write"]
          /\ pc[u] = "idle" /\ UNCHANGED <<row, del>>
      BY <1>1, <2>2 DEF Check
    <3> HIDE DEF o
    <3> QED BY <3>1, <3>2
  <2> QED BY <2>1, <2>2
<1>2. ASSUME NEW u \in Uploads, Write(u) PROVE RowsAreAnswered' /\ SlotsApart'
  BY <1>2 DEF Write
<1>3. ASSUME NEW u \in Uploads, Insert(u) PROVE RowsAreAnswered' /\ SlotsApart'
  <2>1. CASE order[u] \notin UsedOrders
    BY <1>3, <2>1 DEF Insert, UsedOrders
  <2>2. CASE order[u] \in UsedOrders
    BY <1>3, <2>2 DEF Insert
  <2> QED BY <2>1, <2>2
<1>4. ASSUME NEW u \in Uploads, Recount(u) PROVE RowsAreAnswered' /\ SlotsApart'
  BY <1>4, NextOrderInRange DEF Recount
<1>5. ASSUME NEW u \in Uploads, Rename(u) PROVE RowsAreAnswered' /\ SlotsApart'
  BY <1>5 DEF Rename
<1>6. ASSUME NEW u \in Uploads, GiveUp(u) PROVE RowsAreAnswered' /\ SlotsApart'
  BY <1>6 DEF GiveUp
<1>7. ASSUME NEW x \in Deleters, NEW u \in Uploads, DeleteGet(x, u)
      PROVE RowsAreAnswered' /\ SlotsApart'
  BY <1>7 DEF DeleteGet
<1>8. ASSUME NEW x \in Deleters, DeleteUnlink(x) PROVE RowsAreAnswered' /\ SlotsApart'
  BY <1>8 DEF DeleteUnlink, NoDelete
<1>9. ASSUME NEW x \in Deleters, DeleteCommit(x) PROVE RowsAreAnswered' /\ SlotsApart'
  BY <1>9 DEF DeleteCommit, NoDelete
<1>10. CASE UNCHANGED vars
  BY <1>10 DEF vars
<1> QED BY <1>1, <1>2, <1>3, <1>4, <1>5, <1>6, <1>7, <1>8, <1>9, <1>10 DEF Next, Handle, Delete

\* Amendments in slots of their own, none of them slot 0: no more than MAX_AMENDMENTS.
LEMMA SlotsBound == SlotsInv => SlotLimits
<1> SUFFICES ASSUME SlotsInv PROVE SlotLimits
  OBVIOUS
<1> USE DEF SlotsInv, SlotsApart, TypeOK
<1>1. \A u \in Amendments : order[u] # 0
  BY DEF Amendments, Documents
<1>2. Cardinality(Documents \cap Base) <= 1
  <2>1. CASE Documents \cap Base = {}
    <3>1. Cardinality(Documents \cap Base) = 0
      BY <2>1, FS_EmptySet, Zenon
    <3> QED BY <3>1
  <2>2. CASE Documents \cap Base # {}
    <3>1. PICK u \in Documents \cap Base : TRUE
      BY <2>2
    <3>2. Documents \cap Base = {u}
      BY <3>1 DEF Documents
    <3>3. Cardinality(Documents \cap Base) = 1
      BY <3>2, FS_Singleton, Zenon
    <3> QED BY <3>3
  <2> QED BY <2>1, <2>2
<1>3. Cardinality(Amendments) <= MaxAmendments
  <2> DEFINE slots == 1..MaxAmendments
             slot == [u \in Amendments |-> order[u]]
  <2>1. \A u \in Amendments : order[u] \in slots
    BY <1>1, LimitAssumption DEF Amendments, Documents, Orders
  <2>2. \A u, v \in Amendments : order[u] = order[v] => u = v
    BY DEF Amendments
  <2>3. slot \in Injection(Amendments, slots)
    BY <2>1, <2>2, Zenon DEF Injection, IsInjective
  <2>4. IsFiniteSet(slots) /\ Cardinality(slots) = MaxAmendments
    BY FS_Interval, LimitAssumption
  <2> QED BY <2>3, <2>4, FS_Injection
<1> QED BY <1>1, <1>2, <1>3 DEF SlotLimits

\* However many uploads race and documents go, a tenant has one base lease, in slot 0, and
\* at most MAX_AMENDMENTS amendments (documents.py:54-66, 108-124).
THEOREM LimitsHold == Spec => []SlotLimits
BY SlotsInit, SlotsStep, SlotsBound, PTL DEF Spec
----------------------------------------------------------------------------
(* Files *)

\* No document has a file yet.
LEMMA FilesInit == Init => FilesInv
<1> SUFFICES ASSUME Init PROVE FilesInv
  OBVIOUS
<1>1. SlotsInv
  BY SlotsInit
<1>2. 0 \in Orders
  BY LimitAssumption DEF Orders
<1>3. NamesKept
  BY <1>2, PathTypes DEF Init, NamesKept
<1>4. UnsharedOwnFile /\ SerialSlots
  BY DEF Init, UnsharedOwnFile, SerialSlots, Documents, Amendments, Active
<1> QED BY <1>1, <1>3, <1>4 DEF FilesInv

\* A request gives its file no other name than its own, wherever it moves it.
LEMMA NamesStep == TypeOK /\ RowsAreAnswered /\ NamesKept /\ [Next]_vars => NamesKept'
<1> SUFFICES ASSUME TypeOK, RowsAreAnswered, NamesKept, [Next]_vars PROVE NamesKept'
  OBVIOUS
<1> USE DEF TypeOK, NamesKept
<1>1. ASSUME NEW u \in Uploads, Check(u) PROVE NamesKept'
  <2>1. CASE (u \in Base /\ Documents \cap Base # {}) \/ (u \notin Base /\ Full)
    BY <1>1, <2>1 DEF Check
  <2>2. CASE ~((u \in Base /\ Documents \cap Base # {}) \/ (u \notin Base /\ Full))
    <3> DEFINE o == IF u \in Base THEN 0 ELSE NextOrder
    <3>1. o \in Orders
      BY <2>2, NextOrderInRange, LimitAssumption DEF Orders
    <3>2. path' = [path EXCEPT ![u] = FileAt(u, o)] /\ UNCHANGED disk
      BY <1>1, <2>2 DEF Check
    <3>3. FileAt(u, o)[2] = Name[u]
      BY <3>1, PathTypes
    <3> HIDE DEF o
    <3> QED BY <3>2, <3>3
  <2> QED BY <2>1, <2>2
<1>2. ASSUME NEW u \in Uploads, Write(u) PROVE NamesKept'
  BY <1>2, UploadsAssumption DEF Write
<1>3. ASSUME NEW u \in Uploads, Rename(u) PROVE NamesKept'
  <2> DEFINE new == FileAt(u, order[u])
  <2>1. new \in Paths /\ new[2] = Name[u]
    BY PathTypes
  <2>2. /\ path' = [path EXCEPT ![u] = new]
        /\ \/ /\ disk[path[u]] # Nothing
              /\ disk' = [disk EXCEPT ![new] = disk[path[u]], ![path[u]] = Nothing]
           \/ UNCHANGED disk
    BY <1>3 DEF Rename
  <2> HIDE DEF new
  <2> QED BY <2>1, <2>2
<1>4. ASSUME NEW p \in Paths, Remove(p), UNCHANGED path PROVE NamesKept'
  BY <1>4 DEF Remove
<1>5. ASSUME UNCHANGED <<path, disk>> PROVE NamesKept'
  BY <1>5
<1>6. ASSUME NEW u \in Uploads, Recount(u) PROVE NamesKept'
  BY <1>6, <1>4, <1>5 DEF Recount
<1>7. ASSUME NEW x \in Deleters, DeleteUnlink(x) PROVE NamesKept'
  BY <1>7, <1>4 DEF DeleteUnlink, RowsAreAnswered, NoDelete
<1> QED
  BY <1>1, <1>2, <1>3, <1>5, <1>6, <1>7
  DEF Next, Handle, Delete, Insert, GiveUp, DeleteGet, DeleteCommit, vars

\* What a request does to a path of its own name leaves the file of an unshared name alone.
LEMMA OtherPaths ==
    ASSUME NamesKept, NEW u \in Uploads, Unshared(u), NEW v \in Uploads \ {u}, NEW o \in Orders
    PROVE  path[v] # path[u] /\ FileAt(v, o) # path[u]
<1>1. Name[v] # Name[u]
  BY DEF Unshared
<1>2. path[v][2] = Name[v] /\ path[u][2] = Name[u] /\ FileAt(v, o)[2] = Name[v]
  BY PathTypes DEF NamesKept
<1> QED BY <1>1, <1>2

\* A file is at its path from the write on: a rename that finds the target taken, on Windows,
\* finds its own file there.
LEMMA UnsharedStep == SlotsInv /\ NamesKept /\ UnsharedOwnFile /\ [Next]_vars => UnsharedOwnFile'
<1> SUFFICES ASSUME SlotsInv, NamesKept, UnsharedOwnFile, [Next]_vars,
                    NEW u \in Uploads, Unshared(u)
             PROVE  (pc[u] \in {"insert", "recount", "rename"} \/ (u \in Documents /\ ~BeingDeleted(u)))'
                       => disk'[path'[u]] = u
  BY DEF UnsharedOwnFile, Unshared
<1> DEFINE Holds == pc[u] \in {"insert", "recount", "rename"} \/ (u \in Documents /\ ~BeingDeleted(u))
           Keeps == Holds' => disk'[path'[u]] = u
<1>0. Holds => disk[path[u]] = u
  BY DEF UnsharedOwnFile
<1> SUFFICES Keeps
  OBVIOUS
<1> USE DEF SlotsInv, TypeOK, RowsAreAnswered, Goto, Documents, BeingDeleted
<1>1. ASSUME NEW v \in Uploads, Check(v) PROVE Keeps
  <2>1. CASE (v \in Base /\ Documents \cap Base # {}) \/ (v \notin Base /\ Full)
    BY <1>0, <1>1, <2>1 DEF Check
  <2>2. CASE ~((v \in Base /\ Documents \cap Base # {}) \/ (v \notin Base /\ Full))
    <3>1. /\ \E q : path' = [path EXCEPT ![v] = q]
          /\ pc[v] = "idle" /\ pc' = [pc EXCEPT ![v] = "write"] /\ UNCHANGED <<row, del, disk>>
      BY <1>1, <2>2 DEF Check
    <3> QED BY <1>0, <3>1
  <2> QED BY <2>1, <2>2
<1>2. ASSUME NEW v \in Uploads, Write(v) PROVE Keeps
  <2>1. v # u => path[v] # path[u]
    BY OtherPaths, LimitAssumption DEF Orders
  <2> QED BY <1>0, <1>2, <2>1 DEF Write
<1>3. ASSUME NEW v \in Uploads, Insert(v) PROVE Keeps
  BY <1>0, <1>3 DEF Insert
<1>4. ASSUME NEW v \in Uploads, Recount(v) PROVE Keeps
  <2>1. v # u => path[v] # path[u]
    BY OtherPaths
  <2>2. CASE Full
    BY <1>0, <1>4, <2>1, <2>2 DEF Recount, Remove
  <2>3. CASE ~Full
    BY <1>0, <1>4, <2>3 DEF Recount
  <2> QED BY <2>2, <2>3
<1>5. ASSUME NEW v \in Uploads, Rename(v) PROVE Keeps
  <2> DEFINE new == FileAt(v, order[v])
  <2>1. new \in Paths /\ new[2] = Name[v]
    BY PathTypes
  <2>2. /\ path' = [path EXCEPT ![v] = new]
        /\ \/ /\ disk[path[v]] # Nothing /\ new # path[v]
              /\ disk' = [disk EXCEPT ![new] = disk[path[v]], ![path[v]] = Nothing]
           \/ /\ disk[path[v]] = Nothing \/ new = path[v] \/ disk[new] # Nothing
              /\ UNCHANGED disk
        /\ pc[v] = "rename" /\ pc' = [pc EXCEPT ![v] = "insert"] /\ UNCHANGED <<row, del>>
    BY <1>5 DEF Rename
  <2>3. CASE v = u
    <3>1. disk[path[u]] = u /\ disk[path[u]] # Nothing
      BY <1>0, <2>2, <2>3, UploadsAssumption
    <3>2. disk[new] # Nothing => disk[new] = u
      BY <2>1, <2>3 DEF NamesKept, Unshared
    <3> HIDE DEF new
    <3> QED BY <2>1, <2>2, <2>3, <3>1, <3>2
  <2>4. CASE v # u
    <3>1. path[v] # path[u] /\ new # path[u]
      BY <2>4, OtherPaths
    <3> HIDE DEF new
    <3> QED BY <1>0, <2>1, <2>2, <2>4, <3>1
  <2> QED BY <2>3, <2>4
<1>6. ASSUME NEW v \in Uploads, GiveUp(v) PROVE Keeps
  BY <1>0, <1>6 DEF GiveUp
<1>7. ASSUME NEW x \in Deleters, NEW v \in Uploads, DeleteGet(x, v) PROVE Keeps
  BY <1>0, <1>7, UploadsAssumption DEF DeleteGet, NoDelete
<1>8. ASSUME NEW x \in Deleters, DeleteUnlink(x) PROVE Keeps
  <2>1. /\ del[x].doc \in Uploads /\ pc[del[x].doc] = "done"
        /\ disk' = [disk EXCEPT ![path[del[x].doc]] = Nothing]
        /\ del' = [del EXCEPT ![x].at = "commit"] /\ UNCHANGED <<row, path, pc>>
    BY <1>8 DEF DeleteUnlink, Remove, NoDelete
  <2>2. del[x].doc # u => path[del[x].doc] # path[u]
    BY <2>1, OtherPaths, LimitAssumption DEF Orders
  <2>3. BeingDeleted(u)' <=> BeingDeleted(u)
    BY <2>1
  <2> QED BY <1>0, <2>1, <2>2, <2>3
<1>9. ASSUME NEW x \in Deleters, DeleteCommit(x) PROVE Keeps
  BY <1>0, <1>9, UploadsAssumption DEF DeleteCommit, NoDelete
<1>10. CASE UNCHANGED vars
  BY <1>0, <1>10 DEF vars
<1> HIDE DEF Keeps
<1> QED BY <1>1, <1>2, <1>3, <1>4, <1>5, <1>6, <1>7, <1>8, <1>9, <1>10 DEF Next, Handle, Delete

\* One request after the other: nothing is ever deleted or under way beside it.
LEMMA SerialBefore ==
    ASSUME SlotsInv, [Next]_vars, Serial'
    PROVE  /\ Serial
           /\ \A x \in Deleters : ~Delete(x)
           /\ \A u \in Uploads : Check(u) => \A v \in Uploads : ~Active(v)
<1> USE DEF SlotsInv, TypeOK, RowsAreAnswered, Serial
<1>1. ASSUME NEW x \in Deleters PROVE ~Delete(x)
  <2>1. ASSUME NEW u \in Uploads, DeleteGet(x, u) PROVE FALSE
    BY <2>1 DEF DeleteGet, NoDelete
  <2>2. ASSUME DeleteUnlink(x) PROVE FALSE
    BY <2>2 DEF DeleteUnlink, NoDelete
  <2>3. ASSUME DeleteCommit(x) PROVE FALSE
    BY <2>3 DEF DeleteCommit, NoDelete
  <2> QED BY <2>1, <2>2, <2>3 DEF Delete
<1>2. ASSUME NEW u \in Uploads, Check(u)
      PROVE  ~raced /\ UNCHANGED <<row, del>> /\ \A v \in Uploads : ~Active(v)
  BY <1>2, Zenon DEF Check
<1>3. ASSUME NEW u \in Uploads, Handle(u)
      PROVE  raced' = raced /\ del' = del /\ \A v \in Uploads : row[v] = "deleted" => row'[v] = "deleted"
  BY <1>3 DEF Handle, Write, Insert, Recount, Rename, GiveUp
<1>4. ASSUME UNCHANGED vars PROVE Serial
  BY <1>4 DEF vars
<1>5. Serial
  <2>1. ASSUME NEW u \in Uploads, Check(u) PROVE Serial
    BY <1>2, <2>1
  <2>2. ASSUME NEW u \in Uploads, Handle(u) PROVE Serial
    BY <1>3, <2>2
  <2> QED BY <1>1, <1>4, <2>1, <2>2 DEF Next
<1> QED BY <1>1, <1>2, <1>5

\* The slot a lone request computes is free, so its path is nobody's and its insert succeeds.
LEMMA LoneSlotIsFree ==
    ASSUME SlotsInv, SerialSlots, Serial, NEW u \in Uploads, Active(u)
    PROVE  /\ order[u] \notin UsedOrders
           /\ \A v \in Documents : path[v] # path[u]
<1> USE DEF SlotsInv, TypeOK, SlotsApart, SerialSlots, Documents, Amendments, Orders
<1>1. \A v \in Documents : order[v] # order[u]
  <2>1. CASE u \in Base
    BY <2>1
  <2>2. CASE u \notin Base
    <3>1. order[u] = Cardinality(Amendments) + 1 /\ Cardinality(Amendments) \in Nat /\ order[u] # 0
      BY <2>2, DocumentsFinite
    <3>2. \A v \in Amendments : order[v] <= Cardinality(Amendments)
      OBVIOUS
    <3> QED BY <3>1, <3>2
  <2> QED BY <2>1, <2>2
<1>2. \A v \in Documents : path[v] = FileAt(v, order[v]) /\ path[v][1] = order[v]
  BY PathTypes
<1>3. path[u] = FileAt(u, order[u]) /\ path[u][1] = order[u]
  BY PathTypes
<1> QED BY <1>1, <1>2, <1>3 DEF UsedOrders

\* The number of amendments when a request's row is committed.
LEMMA InsertCounts ==
    ASSUME SlotsInv, NEW u \in Uploads, row[u] = "none", row' = [row EXCEPT ![u] = "present"]
    PROVE  /\ Documents' = Documents \cup {u}
           /\ Amendments' = IF u \in Base THEN Amendments ELSE Amendments \cup {u}
           /\ Cardinality(Amendments') = Cardinality(Amendments) + (IF u \in Base THEN 0 ELSE 1)
<1> USE DEF SlotsInv, TypeOK
<1>1. Documents' = Documents \cup {u}
  BY DEF Documents
<1>2. Amendments' = IF u \in Base THEN Amendments ELSE Amendments \cup {u}
  BY <1>1 DEF Amendments
<1>3. u \notin Amendments /\ IsFiniteSet(Amendments) /\ Cardinality(Amendments) \in Nat
  BY DocumentsFinite DEF Amendments, Documents
<1>4. Cardinality(Amendments \cup {u}) = Cardinality(Amendments) + 1
  BY <1>3, FS_AddElement
<1> QED BY <1>1, <1>2, <1>3, <1>4

\* A lone request writes over nobody and inserts in the next slot.
LEMMA SerialStep == SlotsInv /\ SerialSlots /\ [Next]_vars => SerialSlots'
<1> SUFFICES ASSUME SlotsInv, SerialSlots, [Next]_vars, Serial' PROVE SerialSlots'
  BY DEF SerialSlots
<1>1. /\ Serial
      /\ \A x \in Deleters : ~Delete(x)
      /\ \A u \in Uploads : Check(u) => \A v \in Uploads : ~Active(v)
  BY SerialBefore
<1> USE DEF SlotsInv, TypeOK, Goto
<1>2. ASSUME NEW u \in Uploads, Check(u) PROVE SerialSlots'
  <2>1. /\ \A v \in Uploads : ~Active(v)
        /\ pc[u] = "idle" /\ row[u] = "none"
        /\ UNCHANGED <<row, disk>>
    BY <1>1, <1>2 DEF Check, RowsAreAnswered
  <2>2. UNCHANGED <<Documents, Amendments>>
    BY <2>1 DEF Documents, Amendments
  <2>3. CASE (u \in Base /\ Documents \cap Base # {}) \/ (u \notin Base /\ Full)
    <3>1. pc' = [pc EXCEPT ![u] = "done"] /\ UNCHANGED <<order, path>>
      BY <1>2, <2>3 DEF Check
    <3> QED BY <1>1, <2>1, <2>2, <3>1 DEF SerialSlots, Active
  <2>4. CASE ~((u \in Base /\ Documents \cap Base # {}) \/ (u \notin Base /\ Full))
    <3> DEFINE o == IF u \in Base THEN 0 ELSE NextOrder
    <3>1. /\ order' = [order EXCEPT ![u] = o] /\ path' = [path EXCEPT ![u] = FileAt(u, o)]
          /\ pc' = [pc EXCEPT ![u] = "write"]
      BY <1>2, <2>4 DEF Check
    <3>2. IF u \in Base THEN Documents \cap Base = {} ELSE o = Cardinality(Amendments) + 1
      BY <2>4 DEF NextOrder
    <3>3. u \notin Documents /\ u \notin Amendments
      BY <2>1 DEF Documents, Amendments
    <3>4. order'[u] = o /\ path'[u] = FileAt(u, o)
      BY <3>1
    <3>5. \A v \in Uploads : Active(v)' <=> v = u
      BY <2>1, <3>1 DEF Active
    <3>6. \A v \in Uploads \ {u} : order'[v] = order[v] /\ path'[v] = path[v] /\ pc'[v] = pc[v]
      BY <3>1
    <3> HIDE DEF o
    <3>7. pc'[u] = "write" /\ Amendments \subseteq Uploads
      BY <3>1 DEF Amendments, Documents
    <3>8. \A v \in Uploads : FileAt(v, order[v])' = FileAt(v, order'[v])
      BY DEF FileAt
    <3>9. \A v \in Uploads : pc[v] # "insert"
      BY <2>1 DEF Active
    <3>10. \A v \in Amendments' : order'[v] <= Cardinality(Amendments')
      BY <1>1, <2>2, <3>3, <3>6, <3>7 DEF SerialSlots
    <3>11. \A v \in Uploads : Active(v)' \/ v \in Documents' => path'[v] = FileAt(v, order'[v])
      BY <1>1, <2>2, <3>3, <3>4, <3>5, <3>6 DEF SerialSlots
    <3>12. \A v \in Uploads : pc'[v] = "insert" \/ v \in Documents' => disk'[path'[v]] = v
      BY <1>1, <2>1, <2>2, <3>3, <3>6, <3>7, <3>9 DEF SerialSlots
    <3> QED BY <2>2, <3>2, <3>4, <3>5, <3>7, <3>10, <3>11, <3>12 DEF SerialSlots
  <2> QED BY <2>3, <2>4
<1>3. ASSUME NEW u \in Uploads, Write(u) PROVE SerialSlots'
  <2>1. /\ pc[u] = "write" /\ pc' = [pc EXCEPT ![u] = "insert"]
        /\ disk' = [disk EXCEPT ![path[u]] = u]
        /\ UNCHANGED <<row, order, path>>
    BY <1>3 DEF Write
  <2>2. \A v \in Uploads : Active(v)' <=> Active(v)
    BY <2>1 DEF Active
  <2>3. Active(u) /\ \A v \in Documents : path[v] # path[u]
    BY <1>1, <2>1, LoneSlotIsFree DEF Active
  <2>4. UNCHANGED <<Documents, Amendments>> /\ Documents \subseteq Uploads
    BY <2>1 DEF Documents, Amendments
  <2>5. \A v \in Uploads : pc'[v] = "insert" \/ v \in Documents' => disk'[path'[v]] = v
    BY <1>1, <2>1, <2>3, <2>4 DEF SerialSlots, Active
  <2>6. \A v \in Uploads : Active(v)' => pc'[v] \in {"write", "insert"}
    BY <1>1, <2>1, <2>2 DEF SerialSlots
  <2> QED BY <1>1, <2>1, <2>2, <2>4, <2>5, <2>6 DEF SerialSlots, FileAt
<1>4. ASSUME NEW u \in Uploads, Insert(u) PROVE SerialSlots'
  <2>1. pc[u] = "insert" /\ Active(u) /\ row[u] = "none"
    BY <1>4 DEF Insert, Active, RowsAreAnswered
  <2>2. /\ row' = [row EXCEPT ![u] = "present"] /\ pc' = [pc EXCEPT ![u] = "done"]
        /\ UNCHANGED <<order, path, disk>>
    BY <1>1, <1>4, <2>1, LoneSlotIsFree DEF Insert
  <2>3. /\ Documents' = Documents \cup {u}
        /\ Amendments' = IF u \in Base THEN Amendments ELSE Amendments \cup {u}
        /\ Cardinality(Amendments') = Cardinality(Amendments) + (IF u \in Base THEN 0 ELSE 1)
    BY <2>1, <2>2, InsertCounts
  <2>4. \A v \in Uploads : ~Active(v)'
    BY <1>1, <2>1, <2>2 DEF SerialSlots, Active
  <2>5. /\ u \notin Base => order[u] = Cardinality(Amendments) + 1
        /\ path[u] = FileAt(u, order[u]) /\ disk[path[u]] = u
    BY <1>1, <2>1 DEF SerialSlots
  <2>6. Cardinality(Amendments) \in Nat /\ \A v \in Amendments : order[v] \in Nat
    BY DocumentsFinite, LimitAssumption DEF Amendments, Documents, Orders
  <2>7. \A v \in Amendments' : order'[v] <= Cardinality(Amendments')
    <3>1. \A v \in Amendments : order[v] <= Cardinality(Amendments)
      BY <1>1 DEF SerialSlots
    <3> QED BY <2>2, <2>3, <2>5, <2>6, <3>1
  <2>8. \A v \in Documents' : path'[v] = FileAt(v, order'[v]) /\ disk'[path'[v]] = v
    BY <1>1, <2>2, <2>3, <2>5 DEF SerialSlots, Documents
  <2>9. \A v \in Uploads : FileAt(v, order[v])' = FileAt(v, order'[v]) /\ pc'[v] # "insert"
    BY <2>4 DEF FileAt, Active
  <2> QED BY <2>4, <2>7, <2>8, <2>9 DEF SerialSlots
<1>5. ASSUME NEW u \in Uploads, GiveUp(u) PROVE SerialSlots'
  <2>1. pc[u] = "insert" /\ pc' = [pc EXCEPT ![u] = "done"] /\ UNCHANGED <<row, order, path, disk>>
    BY <1>5 DEF GiveUp
  <2>2. UNCHANGED <<Documents, Amendments>>
    BY <2>1 DEF Documents, Amendments
  <2> QED BY <1>1, <2>1, <2>2 DEF SerialSlots, Active, FileAt
<1>6. ASSUME NEW u \in Uploads PROVE ~Recount(u) /\ ~Rename(u)
  BY <1>1 DEF Recount, Rename, SerialSlots, Active
<1>7. CASE UNCHANGED vars
  <2>1. UNCHANGED <<row, order, path, pc, disk, Documents, Amendments>>
    BY <1>7 DEF vars, Documents, Amendments
  <2> QED BY <1>1, <2>1 DEF SerialSlots, Active, FileAt
<1> QED BY <1>1, <1>2, <1>3, <1>4, <1>5, <1>6, <1>7 DEF Next, Handle

\* The file a document's storage_path names is there and is its own, through every race, when
\* no other upload of the tenant has its name, and for uploads one after the other whatever
\* their names (documents.py:78-84, 126-131, 171-172).
THEOREM FilesKept == Spec => []DocumentsKeepTheirFiles
<1>1. FilesInv /\ [Next]_vars => FilesInv'
  BY SlotsStep, NamesStep, UnsharedStep, SerialStep DEF FilesInv, SlotsInv
<1>2. FilesInv => DocumentsKeepTheirFiles
  BY DEF FilesInv, DocumentsKeepTheirFiles, UnsharedOwnFile, SerialSlots, Documents
<1> QED BY <1>1, <1>2, FilesInit, PTL DEF Spec

----------------------------------------------------------------------------
(* The table that clients see *)

Undeleted == \A v \in Uploads : row[v] # "deleted"

\* As long as nothing has been deleted the amendments have the orders up to their number,
\* and a request has lost fewer slots than the order it tries for.  A base lease tries once.
TriesFit ==
    /\ \A u \in Uploads : pc[u] = "idle" \/ (u \in Base /\ pc[u] \in {"write", "insert"}) => tries[u] = 0
    /\ Undeleted =>
         /\ \A u \in Amendments : order[u] <= Cardinality(Amendments)
         /\ \A u \in Uploads \ Base :
              /\ Active(u) => order[u] <= Cardinality(Amendments) + 1
              /\ pc[u] \in {"write", "insert", "rename"} => tries[u] < order[u]
              /\ pc[u] = "recount" => tries[u] <= order[u] /\ order[u] <= Cardinality(Amendments)

\* Nobody has tried yet.
LEMMA TriesInit == Init => TriesFit
BY DEF Init, TriesFit, Amendments, Documents, Active

\* What a request that counts again gets is more than the order it lost.
LEMMA TriesStep == SlotsInv /\ TriesFit /\ [Next]_vars => TriesFit'
<1> SUFFICES ASSUME SlotsInv, TriesFit, [Next]_vars PROVE TriesFit'
  OBVIOUS
<1> USE DEF SlotsInv, TypeOK, Goto, Undeleted
<1> DEFINE n == Cardinality(Amendments)
<1>0. n \in Nat /\ \A u \in Uploads : order[u] \in Nat /\ tries[u] \in Nat
  BY DocumentsFinite, LimitAssumption DEF Orders
<1>1. ASSUME NEW u \in Uploads, Check(u) PROVE TriesFit'
  <2>1. pc[u] = "idle" /\ UNCHANGED <<row, tries>>
    BY <1>1 DEF Check
  <2>2. Amendments' = Amendments /\ row[u] = "none" /\ u \notin Amendments
    BY <2>1 DEF Amendments, Documents, RowsAreAnswered
  <2>3. CASE (u \in Base /\ Documents \cap Base # {}) \/ (u \notin Base /\ Full)
    <3>1. pc' = [pc EXCEPT ![u] = "done"] /\ UNCHANGED order
      BY <1>1, <2>3 DEF Check
    <3> HIDE DEF n
    <3> QED BY <2>1, <2>2, <3>1 DEF TriesFit, Active, n
  <2>4. CASE ~((u \in Base /\ Documents \cap Base # {}) \/ (u \notin Base /\ Full))
    <3> DEFINE o == IF u \in Base THEN 0 ELSE NextOrder
    <3>1. pc' = [pc EXCEPT ![u] = "write"] /\ order' = [order EXCEPT ![u] = o]
      BY <1>1, <2>4 DEF Check
    <3>2. u \notin Base => o = n + 1
      BY DEF NextOrder
    <3>3. tries[u] = 0
      BY <2>1 DEF TriesFit
    <3> HIDE DEF n, o
    <3>4. \A v \in Uploads \ {u} : pc'[v] = pc[v] /\ order'[v] = order[v]
      BY <3>1
    <3>5. pc'[u] = "write" /\ order'[u] = o
      BY <3>1
    <3>6. \A v \in Uploads \ {u} : Active(v)' <=> Active(v)
      BY <3>4 DEF Active
    <3>7. Amendments \subseteq Uploads \ {u}
      BY <2>2 DEF Amendments, Documents
    <3> QED BY <1>0, <2>1, <2>2, <3>2, <3>3, <3>4, <3>5, <3>6, <3>7 DEF TriesFit, n
  <2> QED BY <2>3, <2>4
<1>2. ASSUME NEW u \in Uploads, Write(u) PROVE TriesFit'
  <2>1. pc[u] = "write" /\ pc' = [pc EXCEPT ![u] = "insert"] /\ UNCHANGED <<row, order, tries>>
    BY <1>2 DEF Write
  <2>2. Amendments' = Amendments
    BY <2>1 DEF Amendments, Documents
  <2> QED BY <2>1, <2>2 DEF TriesFit, Active
<1>3. ASSUME NEW u \in Uploads, Insert(u) PROVE TriesFit'
  <2>1. /\ pc[u] = "insert" /\ Active(u) /\ row[u] = "none" /\ TriesLeft(u)
        /\ UNCHANGED order
        /\ tries' = [tries EXCEPT ![u] = IF @ <= MaxAmendments THEN @ + 1 ELSE @]
    BY <1>3 DEF Insert, Active, RowsAreAnswered
  <2>2. CASE order[u] \notin UsedOrders
    <3>1. row' = [row EXCEPT ![u] = "present"] /\ pc' = [pc EXCEPT ![u] = "done"]
      BY <1>3, <2>2 DEF Insert
    <3>2. /\ Amendments' = IF u \in Base THEN Amendments ELSE Amendments \cup {u}
          /\ Cardinality(Amendments') = n + (IF u \in Base THEN 0 ELSE 1)
      BY <2>1, <3>1, InsertCounts
    <3>3. Undeleted' => Undeleted
      BY <2>1, <3>1
    <3>4. \A v \in Uploads \ {u} : pc'[v] = pc[v] /\ tries'[v] = tries[v] /\ (Active(v)' <=> Active(v))
      BY <2>1, <3>1 DEF Active
    <3>5. pc'[u] = "done" /\ ~Active(u)'
      BY <3>1 DEF Active
    <3>6. Amendments \subseteq Uploads
      BY DEF Amendments, Documents
    <3> HIDE DEF n
    <3>7. n <= Cardinality(Amendments') /\ Cardinality(Amendments') \in Nat
      BY <1>0, <3>2
    <3>8. Undeleted' => \A v \in Amendments' : order'[v] <= Cardinality(Amendments')
      BY <1>0, <2>1, <3>2, <3>3, <3>6 DEF TriesFit, n
    <3> QED BY <1>0, <2>1, <3>3, <3>4, <3>5, <3>7, <3>8 DEF TriesFit, n
  <2>3. CASE order[u] \in UsedOrders
    <3>1. UNCHANGED row /\ pc' = [pc EXCEPT ![u] = IF u \in Base THEN "done" ELSE "recount"]
      BY <1>3, <2>3 DEF Insert
    <3>2. Amendments' = Amendments
      BY <3>1 DEF Amendments, Documents
    <3>3. u \notin Base /\ Undeleted => order[u] <= n
      <4>1. PICK v \in Documents : order[v] = order[u]
        BY <2>3 DEF UsedOrders
      <4>2. u \notin Base => v \notin Base
        BY <2>1, <4>1 DEF SlotsApart, Documents
      <4> QED BY <4>1, <4>2 DEF TriesFit, Amendments
    <3>4. tries[u] <= MaxAmendments /\ tries'[u] = tries[u] + 1
      BY <1>0, <2>1, LimitAssumption DEF TriesLeft
    <3>5. \A v \in Uploads \ {u} : pc'[v] = pc[v] /\ tries'[v] = tries[v] /\ (Active(v)' <=> Active(v))
      BY <2>1, <3>1 DEF Active
    <3>6. pc'[u] = IF u \in Base THEN "done" ELSE "recount"
      BY <3>1
    <3> HIDE DEF n
    <3> QED BY <1>0, <2>1, <3>1, <3>2, <3>3, <3>4, <3>5, <3>6 DEF TriesFit, n
  <2> QED BY <2>2, <2>3
<1>4. ASSUME NEW u \in Uploads, Recount(u) PROVE TriesFit'
  <2>1. pc[u] = "recount" /\ Active(u) /\ u \notin Base /\ UNCHANGED <<row, tries>>
    BY <1>4 DEF Recount, Active, SlotsApart
  <2>2. Amendments' = Amendments /\ u \notin Amendments
    BY <2>1 DEF Amendments, Documents, RowsAreAnswered
  <2>3. CASE Full
    <3>1. pc' = [pc EXCEPT ![u] = "done"] /\ UNCHANGED order
      BY <1>4, <2>3 DEF Recount
    <3> HIDE DEF n
    <3> QED BY <2>1, <2>2, <3>1 DEF TriesFit, Active, n
  <2>4. CASE ~Full
    <3>1. pc' = [pc EXCEPT ![u] = "rename"] /\ order' = [order EXCEPT ![u] = n + 1]
      BY <1>4, <2>4 DEF Recount, NextOrder
    <3> HIDE DEF n
    <3>2. \A v \in Uploads \ {u} : pc'[v] = pc[v] /\ order'[v] = order[v] /\ (Active(v)' <=> Active(v))
      BY <3>1 DEF Active
    <3>3. pc'[u] = "rename" /\ order'[u] = n + 1
      BY <3>1
    <3>4. Undeleted => tries[u] < n + 1
      BY <1>0, <2>1 DEF TriesFit, n
    <3>5. Amendments \subseteq Uploads \ {u}
      BY <2>2 DEF Amendments, Documents
    <3> QED BY <1>0, <2>1, <2>2, <3>2, <3>3, <3>4, <3>5 DEF TriesFit, n
  <2> QED BY <2>3, <2>4
<1>5. ASSUME NEW u \in Uploads, Rename(u) PROVE TriesFit'
  <2>1. pc[u] = "rename" /\ pc' = [pc EXCEPT ![u] = "insert"] /\ UNCHANGED <<row, order, tries>>
    BY <1>5 DEF Rename
  <2>2. Amendments' = Amendments /\ u \notin Base
    BY <2>1 DEF Amendments, Documents, SlotsApart
  <2> QED BY <2>1, <2>2 DEF TriesFit, Active
<1>6. ASSUME NEW u \in Uploads, GiveUp(u) PROVE TriesFit'
  <2>1. pc' = [pc EXCEPT ![u] = "done"] /\ UNCHANGED <<row, order, tries>>
    BY <1>6 DEF GiveUp
  <2>2. Amendments' = Amendments
    BY <2>1 DEF Amendments, Documents
  <2> QED BY <2>1, <2>2 DEF TriesFit, Active
<1>7. ASSUME UNCHANGED <<row, order, tries, pc>> PROVE TriesFit'
  <2>1. Amendments' = Amendments
    BY <1>7 DEF Amendments, Documents
  <2> QED BY <1>7, <2>1 DEF TriesFit, Active
<1>8. ASSUME NEW x \in Deleters, DeleteCommit(x) PROVE TriesFit'
  <2>1. del[x].doc \in Uploads /\ row' = [row EXCEPT ![del[x].doc] = "deleted"] /\ UNCHANGED <<order, tries, pc>>
    BY <1>8 DEF DeleteCommit, RowsAreAnswered, NoDelete
  <2>2. ~Undeleted'
    BY <2>1
  <2> QED BY <2>1, <2>2 DEF TriesFit
<1> QED
  BY <1>1, <1>2, <1>3, <1>4, <1>5, <1>6, <1>7, <1>8
  DEF Next, Handle, Delete, DeleteGet, DeleteUnlink, vars

\* The document of a slot is its holder.
LEMMA HolderOfSlot ==
    ASSUME SlotsInv
    PROVE  /\ \A u \in Documents : order[u] \in Orders /\ Holder(order[u]) = u
           /\ \A o \in Orders : Holder(o) # Nothing => Holder(o) \in Documents /\ order[Holder(o)] = o
<1> USE DEF SlotsInv, SlotsApart, TypeOK
<1>1. ASSUME NEW u \in Documents PROVE order[u] \in Orders /\ Holder(order[u]) = u
  <2>1. order[u] \in UsedOrders
    BY DEF UsedOrders
  <2>2. \A v \in Documents : order[v] = order[u] => v = u
    OBVIOUS
  <2> QED BY <2>1, <2>2 DEF Holder, Documents
<1>2. ASSUME NEW o \in Orders, Holder(o) # Nothing PROVE Holder(o) \in Documents /\ order[Holder(o)] = o
  <2>1. o \in UsedOrders
    BY <1>2 DEF Holder
  <2>2. \E u \in Documents : order[u] = o
    BY <2>1 DEF UsedOrders
  <2> QED BY <2>1, <2>2 DEF Holder
<1> QED BY <1>1, <1>2

\* As many amendments as there may be take every slot of theirs.
LEMMA FullTakesAll == SlotsInv /\ Full => \A o \in 1..MaxAmendments : o \in UsedOrders
<1> SUFFICES ASSUME SlotsInv, Full, NEW o \in 1..MaxAmendments PROVE o \in UsedOrders
  OBVIOUS
<1> DEFINE slots == 1..MaxAmendments
           place == [u \in Amendments |-> order[u]]
<1>1. \A u \in Amendments : order[u] \in slots
  BY SlotsBound, LimitAssumption DEF SlotsInv, SlotLimits, TypeOK, Amendments, Documents, Orders
<1>2. \A u, v \in Amendments : order[u] = order[v] => u = v
  BY DEF SlotsInv, SlotsApart, Amendments
<1>3. place \in Injection(Amendments, slots)
  BY <1>1, <1>2, Zenon DEF Injection, IsInjective
<1>4. IsFiniteSet(slots) /\ Cardinality(slots) = MaxAmendments
  BY FS_Interval, LimitAssumption
<1>5. Cardinality(Amendments) = MaxAmendments
  <2>1. Cardinality(Amendments) <= MaxAmendments
    BY SlotsBound DEF SlotLimits
  <2> QED BY <2>1, DocumentsFinite, LimitAssumption DEF Full
<1>6. place \in Surjection(Amendments, slots)
  BY <1>3, <1>4, <1>5, FS_Injection
<1>7. PICK u \in Amendments : place[u] = o
  BY <1>6 DEF Surjection
<1> QED BY <1>7 DEF UsedOrders, Amendments

AnswerNow == [u \in Uploads |-> Answer(u)]
SlotNow == [o \in Orders |-> Holder(o)]

\* A slot in use has a holder, and one that is not has none.
LEMMA TakenHasHolder ==
    ASSUME SlotsInv, NEW o \in Orders
    PROVE  o \in UsedOrders <=> SlotNow[o] # Nothing
<1>1. ASSUME o \in UsedOrders PROVE Holder(o) # Nothing
  <2>1. PICK u \in Documents : order[u] = o
    BY <1>1 DEF UsedOrders
  <2> QED BY <2>1, HolderOfSlot, UploadsAssumption DEF Documents
<1>2. o \notin UsedOrders => Holder(o) = Nothing
  BY DEF Holder
<1> QED BY <1>1, <1>2 DEF SlotNow

\* As long as the documents and their orders are the same, so are the holders.
LEMMA SlotsStay ==
    ASSUME SlotsInv, SlotsInv', Documents' = Documents, \A u \in Documents : order'[u] = order[u]
    PROVE  SlotNow' = SlotNow
<1>1. UsedOrders' = UsedOrders
  BY DEF UsedOrders
<1>2. ASSUME NEW o \in Orders PROVE Holder(o)' = Holder(o)
  <2>1. CASE o \in UsedOrders
    <3>1. PICK u \in Documents : order[u] = o
      BY <2>1 DEF UsedOrders
    <3>2. Holder(o) = u
      BY <3>1, HolderOfSlot
    <3>3. u \in Documents' /\ order'[u] = o
      BY <3>1
    <3>4. \A v \in Documents' : order'[v] = o => v = u
      BY <3>3 DEF SlotsInv, SlotsApart
    <3>5. o \in UsedOrders'
      BY <2>1, <1>1
    <3>6. Holder(o)' = u
      BY <3>3, <3>4, <3>5 DEF Holder
    <3> QED BY <3>2, <3>6
  <2>2. CASE o \notin UsedOrders
    BY <1>1, <2>2 DEF Holder
  <2> QED BY <2>1, <2>2
<1> QED BY <1>2 DEF SlotNow

\* A refusal with no change to the documents.
LEMMA RefusalMaps ==
    ASSUME SlotsInv, SlotsInv', NEW u \in Uploads, Active(u) \/ pc[u] = "idle",
           pc' = [pc EXCEPT ![u] = "done"], UNCHANGED <<row, order>>,
           \/ u \in Base /\ 0 \in UsedOrders
           \/ u \notin Base /\ Full
           \/ u \notin Base /\ ~Undeleted
    PROVE  Table!Refuse(u)
<1> USE DEF SlotsInv, TypeOK
<1>1. row[u] = "none" /\ AnswerNow[u] = "none"
  BY DEF RowsAreAnswered, Active, AnswerNow, Answer
<1>2. AnswerNow' = [AnswerNow EXCEPT ![u] = "refused"]
  <2>1. \A v \in Uploads \ {u} : Answer(v)' = Answer(v)
    BY DEF Answer
  <2>2. Answer(u)' = "refused"
    BY <1>1 DEF Answer
  <2> QED BY <2>1, <2>2 DEF AnswerNow
<1>3. SlotNow' = SlotNow
  BY SlotsStay DEF Documents
<1>4. \/ \A o \in (IF u \in Base THEN {0} ELSE 1..MaxAmendments) : SlotNow[o] # Nothing
      \/ u \notin Base /\ \E v \in Uploads : AnswerNow[v] = "deleted"
  <2>1. CASE u \in Base /\ 0 \in UsedOrders
    <3>1. 0 \in Orders
      BY LimitAssumption DEF Orders
    <3> QED BY <2>1, <3>1, TakenHasHolder
  <2>2. CASE u \notin Base /\ Full
    <3>1. 1..MaxAmendments \subseteq Orders
      BY LimitAssumption DEF Orders
    <3> QED BY <2>2, <3>1, FullTakesAll, TakenHasHolder
  <2>3. CASE u \notin Base /\ ~Undeleted
    BY <2>3 DEF Undeleted, AnswerNow, Answer
  <2> QED BY <2>1, <2>2, <2>3
<1> QED BY <1>1, <1>2, <1>3, <1>4 DEF Table!Refuse, Table!SlotsFor, AnswerNow, SlotNow

\* A step that answers nobody and changes no document.
LEMMA SilentMaps ==
    ASSUME SlotsInv, SlotsInv', UNCHANGED row, \A u \in Documents : order'[u] = order[u],
           \A u \in Uploads : row[u] = "none" => (pc'[u] = "done" <=> pc[u] = "done")
    PROVE  UNCHANGED Table!vars
<1>1. SlotNow' = SlotNow
  BY SlotsStay DEF Documents
<1>2. \A u \in Uploads : Answer(u)' = Answer(u)
  BY DEF Answer, SlotsInv, TypeOK
<1>3. AnswerNow' = AnswerNow
  BY <1>2 DEF AnswerNow
<1> QED BY <1>1, <1>3 DEF Table!vars, AnswerNow, SlotNow

\* The insert that succeeds takes a free slot of its kind.
LEMMA InsertMaps ==
    ASSUME SlotsInv, SlotsInv', NEW u \in Uploads, pc[u] = "insert", order[u] \notin UsedOrders,
           row' = [row EXCEPT ![u] = "present"], pc' = [pc EXCEPT ![u] = "done"], UNCHANGED order
    PROVE  Table!Accept(u)
<1> USE DEF SlotsInv, TypeOK
<1>1. row[u] = "none" /\ AnswerNow[u] = "none"
  BY DEF RowsAreAnswered, AnswerNow, Answer
<1>2. AnswerNow' = [AnswerNow EXCEPT ![u] = "created"]
  <2>1. \A v \in Uploads \ {u} : Answer(v)' = Answer(v)
    BY DEF Answer
  <2>2. Answer(u)' = "created"
    BY DEF Answer
  <2> QED BY <2>1, <2>2 DEF AnswerNow
<1>3. order[u] \in Orders /\ order[u] \in (IF u \in Base THEN {0} ELSE 1..MaxAmendments)
  BY LimitAssumption DEF SlotsApart, Active, Orders
<1>4. SlotNow[order[u]] = Nothing
  BY <1>3, TakenHasHolder
<1>5. Documents' = Documents \cup {u} /\ UsedOrders' = UsedOrders \cup {order[u]}
  BY DEF Documents, UsedOrders
<1>6. ASSUME NEW o \in Orders PROVE SlotNow'[o] = IF o = order[u] THEN u ELSE SlotNow[o]
  <2>1. \A v \in Documents' : Holder(order[v])' = v
    <3>1. \A v \in Documents' : order[v] \in UsedOrders'
      BY DEF UsedOrders
    <3>2. \A v, w \in Documents' : order[v] = order[w] => v = w
      BY DEF SlotsApart
    <3> QED BY <3>1, <3>2 DEF Holder
  <2>2. CASE o = order[u]
    BY <1>5, <2>1, <2>2 DEF SlotNow
  <2>3. CASE o # order[u] /\ o \in UsedOrders
    <3>1. PICK v \in Documents : order[v] = o
      BY <2>3 DEF UsedOrders
    <3> QED BY <1>5, <2>1, <2>3, <3>1, HolderOfSlot DEF SlotNow
  <2>4. CASE o # order[u] /\ o \notin UsedOrders
    BY <1>5, <2>4 DEF SlotNow, Holder
  <2> QED BY <2>2, <2>3, <2>4
<1>7. SlotNow' = [SlotNow EXCEPT ![order[u]] = u]
  <2>1. SlotNow' = [o \in Orders |-> SlotNow'[o]] /\ SlotNow = [o \in Orders |-> SlotNow[o]]
    BY DEF SlotNow
  <2> QED BY <1>3, <1>6, <2>1
<1> QED BY <1>1, <1>2, <1>3, <1>4, <1>7 DEF Table!Accept, Table!SlotsFor, AnswerNow, SlotNow

\* The first commit of a deletion frees the slot.
LEMMA DeleteMaps ==
    ASSUME SlotsInv, SlotsInv', NEW u \in Documents, row' = [row EXCEPT ![u] = "deleted"], UNCHANGED <<order, pc>>
    PROVE  Table!Delete(u)
<1> USE DEF SlotsInv, TypeOK
<1>1. u \in Uploads /\ AnswerNow[u] = "created" /\ Nothing # u
  BY UploadsAssumption DEF Documents, AnswerNow, Answer
<1>2. AnswerNow' = [AnswerNow EXCEPT ![u] = "deleted"]
  <2>1. \A v \in Uploads \ {u} : Answer(v)' = Answer(v)
    BY DEF Answer
  <2>2. Answer(u)' = "deleted"
    BY <1>1 DEF Answer
  <2> QED BY <1>1, <2>1, <2>2 DEF AnswerNow
<1>3. Documents' = Documents \ {u}
  BY <1>1 DEF Documents
<1>4. ASSUME NEW o \in Orders PROVE SlotNow'[o] = IF SlotNow[o] = u THEN Nothing ELSE SlotNow[o]
  <2>1. CASE SlotNow[o] = u
    <3>1. order[u] = o
      BY <1>1, <2>1, HolderOfSlot DEF SlotNow
    <3>2. o \notin UsedOrders'
      BY <1>3, <3>1 DEF UsedOrders, SlotsApart
    <3> QED BY <2>1, <3>2 DEF SlotNow, Holder
  <2>2. CASE SlotNow[o] # u /\ SlotNow[o] # Nothing
    <3> DEFINE v == SlotNow[o]
    <3>1. v \in Documents' /\ order[v] = o
      BY <1>3, <2>2, HolderOfSlot DEF SlotNow
    <3>2. \A w \in Documents' : order[w] = o => w = v
      BY <1>3, <3>1 DEF SlotsApart
    <3>3. o \in UsedOrders'
      BY <3>1 DEF UsedOrders
    <3> HIDE DEF v
    <3>4. Holder(o)' = v
      BY <3>1, <3>2, <3>3 DEF Holder
    <3> QED BY <2>2, <3>4 DEF SlotNow, v
  <2>3. CASE SlotNow[o] = Nothing
    <3>1. o \notin UsedOrders
      BY <2>3, TakenHasHolder
    <3>2. o \notin UsedOrders'
      BY <1>3, <3>1 DEF UsedOrders
    <3> QED BY <1>1, <2>3, <3>2 DEF SlotNow, Holder
  <2> QED BY <2>1, <2>2, <2>3
<1>5. SlotNow' = [o \in Orders |-> IF SlotNow[o] = u THEN Nothing ELSE SlotNow[o]]
  BY <1>4 DEF SlotNow
<1> QED BY <1>1, <1>2, <1>5 DEF Table!Delete, AnswerNow, SlotNow, Orders

\* No document, no answer.
LEMMA TableInit == Init => Table!Init
<1> SUFFICES ASSUME Init PROVE Table!Init
  OBVIOUS
<1>1. Documents = {} /\ \A u \in Uploads : Answer(u) = "none"
  BY DEF Init, Documents, Answer
<1>2. \A o \in Orders : Holder(o) = Nothing
  BY <1>1 DEF Holder, UsedOrders
<1> QED BY <1>1, <1>2 DEF Table!Init, Orders

\* A step answers one request, or deletes one document, or clients see nothing of it.
LEMMA TableStep == SlotsInv /\ SlotsInv' /\ TriesFit /\ [Next]_vars => [Table!Next]_(Table!vars)
<1> SUFFICES ASSUME SlotsInv, SlotsInv', TriesFit, [Next]_vars
             PROVE  Table!Next \/ UNCHANGED Table!vars
  OBVIOUS
<1> USE DEF Goto
<1>0. /\ \A u \in Uploads : pc[u] # "done" => row[u] = "none"
      /\ \A u \in Uploads : pc[u] \in {"idle", "write", "insert", "recount", "rename", "done"}
      /\ row \in [Uploads -> {"none", "present", "deleted"}] /\ order \in [Uploads -> Orders]
      /\ pc = [u \in Uploads |-> pc[u]] /\ DOMAIN tries = Uploads
  BY DEF SlotsInv, RowsAreAnswered, TypeOK
<1>1. ASSUME NEW u \in Uploads, Check(u) PROVE Table!Next \/ UNCHANGED Table!vars
  <2>1. CASE (u \in Base /\ Documents \cap Base # {}) \/ (u \notin Base /\ Full)
    <3>1. pc[u] = "idle" /\ pc' = [pc EXCEPT ![u] = "done"] /\ UNCHANGED <<row, order>>
      BY <1>1, <2>1 DEF Check
    <3>2. u \in Base => 0 \in UsedOrders
      BY <2>1 DEF SlotsInv, SlotsApart, UsedOrders, Documents
    <3>3. Table!Refuse(u)
      BY <2>1, <3>1, <3>2, RefusalMaps
    <3> QED BY <3>3 DEF Table!Next
  <2>2. CASE ~((u \in Base /\ Documents \cap Base # {}) \/ (u \notin Base /\ Full))
    <3>1. /\ pc[u] = "idle" /\ pc' = [pc EXCEPT ![u] = "write"] /\ UNCHANGED row
          /\ \E o : order' = [order EXCEPT ![u] = o]
      BY <1>1, <2>2 DEF Check
    <3> QED BY <1>0, <3>1, SilentMaps DEF Documents
  <2> QED BY <2>1, <2>2
<1>2. ASSUME NEW u \in Uploads, Write(u) PROVE Table!Next \/ UNCHANGED Table!vars
  <2>1. pc[u] = "write" /\ pc' = [pc EXCEPT ![u] = "insert"] /\ UNCHANGED <<row, order>>
    BY <1>2 DEF Write
  <2> QED BY <1>0, <2>1, SilentMaps
<1>3. ASSUME NEW u \in Uploads, Insert(u) PROVE Table!Next \/ UNCHANGED Table!vars
  <2>1. CASE order[u] \notin UsedOrders
    <3>1. Table!Accept(u)
      BY <1>3, <2>1, InsertMaps DEF Insert
    <3> QED BY <3>1 DEF Table!Next
  <2>2. CASE order[u] \in UsedOrders /\ u \in Base
    <3>1. pc[u] = "insert" /\ pc' = [pc EXCEPT ![u] = "done"] /\ UNCHANGED <<row, order>>
      BY <1>3, <2>2 DEF Insert
    <3>2. order[u] = 0 /\ Active(u)
      BY <2>2, <3>1 DEF SlotsInv, SlotsApart, Active
    <3>3. Table!Refuse(u)
      BY <2>2, <3>1, <3>2, RefusalMaps
    <3> QED BY <3>3 DEF Table!Next
  <2>3. CASE order[u] \in UsedOrders /\ u \notin Base
    <3>1. pc[u] = "insert" /\ pc' = [pc EXCEPT ![u] = "recount"] /\ UNCHANGED <<row, order>>
      BY <1>3, <2>3 DEF Insert
    <3> QED BY <1>0, <3>1, SilentMaps
  <2> QED BY <2>1, <2>2, <2>3
<1>4. ASSUME NEW u \in Uploads, Recount(u) PROVE Table!Next \/ UNCHANGED Table!vars
  <2>1. pc[u] = "recount" /\ Active(u) /\ u \notin Base /\ UNCHANGED row
    BY <1>4 DEF Recount, Active, SlotsInv, SlotsApart
  <2>2. CASE Full
    <3>1. pc' = [pc EXCEPT ![u] = "done"] /\ UNCHANGED <<row, order>>
      BY <1>4, <2>2 DEF Recount
    <3>2. Table!Refuse(u)
      BY <2>1, <2>2, <3>1, RefusalMaps
    <3> QED BY <3>2 DEF Table!Next
  <2>3. CASE ~Full
    <3>1. pc' = [pc EXCEPT ![u] = "rename"] /\ \E o : order' = [order EXCEPT ![u] = o]
      BY <1>4, <2>3 DEF Recount
    <3> QED BY <1>0, <2>1, <3>1, SilentMaps DEF Documents
  <2> QED BY <2>2, <2>3
<1>5. ASSUME NEW u \in Uploads, Rename(u) PROVE Table!Next \/ UNCHANGED Table!vars
  <2>1. pc[u] = "rename" /\ pc' = [pc EXCEPT ![u] = "insert"] /\ UNCHANGED <<row, order>>
    BY <1>5 DEF Rename
  <2> QED BY <1>0, <2>1, SilentMaps
<1>6. ASSUME NEW u \in Uploads, GiveUp(u) PROVE Table!Next \/ UNCHANGED Table!vars
  <2>1. /\ pc[u] = "insert" /\ Active(u) /\ ~TriesLeft(u)
        /\ pc' = [pc EXCEPT ![u] = "done"] /\ UNCHANGED <<row, order>>
    BY <1>6 DEF GiveUp, Active
  <2>2. order[u] \in 0..MaxAmendments /\ tries[u] \in Nat
    BY LimitAssumption DEF SlotsInv, TypeOK, Orders
  <2>3. u \notin Base /\ ~Undeleted
    BY <2>1, <2>2, LimitAssumption DEF TriesFit, TriesLeft
  <2>4. Table!Refuse(u)
    BY <2>1, <2>3, RefusalMaps
  <2> QED BY <2>4 DEF Table!Next
<1>7. ASSUME UNCHANGED <<row, order, pc>> PROVE Table!Next \/ UNCHANGED Table!vars
  BY <1>7, SilentMaps
<1>8. ASSUME NEW x \in Deleters, DeleteCommit(x) PROVE Table!Next \/ UNCHANGED Table!vars
  <2> DEFINE u == del[x].doc
  <2>1. u \in Uploads /\ row[u] # "none" /\ row' = [row EXCEPT ![u] = "deleted"] /\ UNCHANGED <<order, pc>>
    BY <1>8 DEF DeleteCommit, SlotsInv, RowsAreAnswered, NoDelete
  <2> HIDE DEF u
  <2>2. CASE row[u] = "present"
    <3>1. u \in Documents
      BY <2>1, <2>2 DEF Documents
    <3>2. Table!Delete(u)
      BY <2>1, <3>1, DeleteMaps
    <3> QED BY <2>1, <3>2 DEF Table!Next
  <2>3. CASE row[u] = "deleted"
    <3>1. UNCHANGED row
      BY <1>0, <2>1, <2>3
    <3> QED BY <2>1, <3>1, SilentMaps
  <2> QED BY <1>0, <2>1, <2>2, <2>3
<1> QED
  BY <1>1, <1>2, <1>3, <1>4, <1>5, <1>6, <1>7, <1>8
  DEF Next, Handle, Delete, DeleteGet, DeleteUnlink, vars

\* Whatever the requests do between their reads and their commits, clients see the table of
\* documents change as if each upload and each deletion happened at one moment: a created
\* document takes a slot of its kind that was free, and a 409 means that there was none, or
\* that something has been deleted (documents.py:44-138, 162-180).
THEOREM SystemImplementsTable == Spec => ImplementsTable
<1>1. Spec => [](SlotsInv /\ TriesFit)
  BY SlotsInit, SlotsStep, TriesInit, TriesStep, PTL DEF Spec
<1> QED BY <1>1, TableInit, TableStep, PTL DEF Spec, ImplementsTable, Table!Spec

\* What the table promises its clients holds of the system: a created document holds one slot
\* of its kind, and a slot goes from one document to another only by a deletion.
THEOREM ClientsSeeSlots == Spec => []Table!CreatedHoldsSlot /\ Table!SlotsPassByDeletion
<1>1. SlotsInv => Table!CreatedHoldsSlot
  <2> SUFFICES ASSUME SlotsInv, NEW u \in Uploads
               PROVE  /\ AnswerNow[u] = "created" => \E o \in Table!SlotsFor(u) : SlotNow[o] = u
                      /\ \A o, k \in Orders :
                           SlotNow[o] = u /\ SlotNow[k] = u => AnswerNow[u] = "created" /\ o = k
    BY DEF Table!CreatedHoldsSlot, AnswerNow, SlotNow, Orders
  <2>1. AnswerNow[u] = "created" <=> u \in Documents
    BY DEF AnswerNow, Answer, Documents
  <2>2. ASSUME u \in Documents PROVE \E o \in Table!SlotsFor(u) : SlotNow[o] = u
    <3>1. order[u] \in Orders /\ SlotNow[order[u]] = u
      BY <2>2, HolderOfSlot DEF SlotNow
    <3>2. order[u] \in Table!SlotsFor(u)
      BY <2>2, <3>1, SlotsBound, LimitAssumption
      DEF SlotsInv, SlotsApart, SlotLimits, Amendments, Orders, Table!SlotsFor
    <3> QED BY <3>1, <3>2
  <2>3. ASSUME NEW o \in Orders, SlotNow[o] = u PROVE u \in Documents /\ order[u] = o
    BY <2>3, HolderOfSlot, UploadsAssumption DEF SlotNow
  <2> QED BY <2>1, <2>2, <2>3
<1>2. SlotsInv /\ SlotsInv' /\ TriesFit /\ [Next]_vars =>
        [\A o \in Orders : SlotNow[o] # Nothing /\ SlotNow'[o] # SlotNow[o]
           => SlotNow'[o] = Nothing /\ AnswerNow'[SlotNow[o]] = "deleted"]_(Table!vars)
  <2> SUFFICES ASSUME SlotsInv, [Table!Next]_(Table!vars), NEW o \in Orders,
                      SlotNow[o] # Nothing, SlotNow'[o] # SlotNow[o]
               PROVE  SlotNow'[o] = Nothing /\ AnswerNow'[SlotNow[o]] = "deleted"
    BY TableStep
  <2>1. DOMAIN SlotNow = Orders /\ DOMAIN AnswerNow = Uploads
    BY DEF SlotNow, AnswerNow
  <2>2. ASSUME NEW u \in Uploads, Table!Accept(u) PROVE FALSE
    <3>1. PICK k : SlotNow[k] = Nothing /\ SlotNow' = [SlotNow EXCEPT ![k] = u]
      BY <2>2 DEF Table!Accept, SlotNow
    <3> QED BY <2>1, <3>1
  <2>3. ASSUME NEW u \in Uploads, Table!Refuse(u) PROVE FALSE
    BY <2>3 DEF Table!Refuse, SlotNow
  <2>4. ASSUME NEW u \in Uploads, Table!Delete(u)
        PROVE  SlotNow'[o] = Nothing /\ AnswerNow'[SlotNow[o]] = "deleted"
    <3>1. /\ SlotNow' = [k \in Orders |-> IF SlotNow[k] = u THEN Nothing ELSE SlotNow[k]]
          /\ AnswerNow' = [AnswerNow EXCEPT ![u] = "deleted"]
      BY <2>4 DEF Table!Delete, SlotNow, AnswerNow, Orders
    <3> QED BY <2>1, <3>1
  <2>5. ASSUME UNCHANGED Table!vars PROVE FALSE
    BY <2>5 DEF Table!vars, SlotNow
  <2> QED BY <2>2, <2>3, <2>4, <2>5 DEF Table!Next
<1>3. Spec => [](SlotsInv /\ TriesFit)
  BY SlotsInit, SlotsStep, TriesInit, TriesStep, PTL DEF Spec
<1> QED BY <1>1, <1>2, <1>3, PTL DEF Spec, Table!SlotsPassByDeletion, SlotNow, AnswerNow, Orders

----------------------------------------------------------------------------
(* How long a request may take *)

\* The most steps an upload request has left: three for each attempt, and the one that ends it.
StepsLeft(u) ==
    IF pc[u] = "done" THEN 0
    ELSE 1 + 3 * (MaxAmendments + 1 - tries[u])
           + (CASE pc[u] = "recount" -> 2 [] pc[u] \in {"write", "rename"} -> 1 [] OTHER -> 0)

\* What a step may do to them: the request's own steps use them up, nobody else's add any.
StepsAreUsed ==
    \A u \in Uploads : Active(u) =>
        /\ StepsLeft(u)' <= StepsLeft(u)
        /\ Handle(u) => StepsLeft(u)' < StepsLeft(u)

\* A step of a request that is under way brings it nearer to its answer.
LEMMA HandleUsesStep ==
    ASSUME TypeOK, TypeOK', NEW u \in Uploads, Handle(u)
    PROVE  StepsLeft(u)' < StepsLeft(u)
<1> USE LimitAssumption DEF TypeOK, Goto
<1>0. MaxAmendments \in Nat /\ tries[u] \in 0..(MaxAmendments + 1) /\ tries'[u] \in 0..(MaxAmendments + 1)
  OBVIOUS
<1>1. CASE Write(u)
  <2>1. pc[u] = "write" /\ pc'[u] = "insert" /\ tries'[u] = tries[u]
    BY <1>1 DEF Write
  <2> QED BY <1>0, <2>1 DEF StepsLeft
<1>2. CASE Insert(u)
  <2>1. pc[u] = "insert" /\ pc'[u] \in {"done", "recount"} /\ tries'[u] = tries[u] + 1
    BY <1>2 DEF Insert, TriesLeft
  <2> QED BY <1>0, <2>1 DEF StepsLeft
<1>3. CASE Recount(u)
  <2>1. pc[u] = "recount" /\ pc'[u] \in {"done", "rename"} /\ tries'[u] = tries[u]
    BY <1>3 DEF Recount
  <2> QED BY <1>0, <2>1 DEF StepsLeft
<1>4. CASE Rename(u)
  <2>1. pc[u] = "rename" /\ pc'[u] = "insert" /\ tries'[u] = tries[u]
    BY <1>4 DEF Rename
  <2> QED BY <1>0, <2>1 DEF StepsLeft
<1>5. CASE GiveUp(u)
  <2>1. pc[u] = "insert" /\ pc'[u] = "done" /\ tries'[u] = tries[u]
    BY <1>5 DEF GiveUp
  <2> QED BY <1>0, <2>1 DEF StepsLeft
<1> QED BY <1>1, <1>2, <1>3, <1>4, <1>5 DEF Handle

\* Another actor's step leaves the request where it is.
LEMMA OthersUseNone ==
    ASSUME TypeOK, NEW u \in Uploads, Active(u), [Next]_vars, ~Handle(u)
    PROVE  StepsLeft(u)' = StepsLeft(u)
<1> USE DEF TypeOK, Goto
<1>1. pc'[u] = pc[u] /\ tries'[u] = tries[u]
  <2>1. ASSUME NEW v \in Uploads, Check(v) PROVE pc'[u] = pc[u] /\ tries'[u] = tries[u]
    <3>1. v # u
      BY <2>1 DEF Check, Active
    <3> QED BY <2>1, <3>1 DEF Check
  <2>2. ASSUME NEW v \in Uploads \ {u}, Handle(v) PROVE pc'[u] = pc[u] /\ tries'[u] = tries[u]
    BY <2>2 DEF Handle, Write, Insert, Recount, Rename, GiveUp
  <2>3. ASSUME NEW x \in Deleters, Delete(x) PROVE pc'[u] = pc[u] /\ tries'[u] = tries[u]
    BY <2>3 DEF Delete, DeleteGet, DeleteUnlink, DeleteCommit
  <2>4. ASSUME UNCHANGED vars PROVE pc'[u] = pc[u] /\ tries'[u] = tries[u]
    BY <2>4 DEF vars
  <2> QED BY <2>1, <2>2, <2>3, <2>4 DEF Next
<1> QED BY <1>1 DEF StepsLeft

\* The retry loop ends: a request under way has a bounded number of steps left, each step of
\* its own takes one, and no step of another request or of a deletion gives one back, although
\* after a deletion the order it computes may be taken however often it counts
\* (documents.py:91-138).  That it takes its steps at all is fairness.
THEOREM RequestsRunOut ==
    Spec => /\ [](\A u \in Uploads : Active(u) => StepsLeft(u) \in 1..(3 * MaxAmendments + 6))
            /\ [][StepsAreUsed]_vars
<1>1. TypeOK => \A u \in Uploads : Active(u) => StepsLeft(u) \in 1..(3 * MaxAmendments + 6)
  BY LimitAssumption DEF TypeOK, Active, StepsLeft
<1>2. TypeOK /\ TypeOK' /\ [Next]_vars => StepsAreUsed
  <2> SUFFICES ASSUME TypeOK, TypeOK', [Next]_vars, NEW u \in Uploads, Active(u)
               PROVE  /\ StepsLeft(u)' <= StepsLeft(u)
                      /\ Handle(u) => StepsLeft(u)' < StepsLeft(u)
    BY DEF StepsAreUsed
  <2>1. StepsLeft(u) \in Int /\ StepsLeft(u)' \in Int
    BY LimitAssumption DEF TypeOK, StepsLeft
  <2>2. CASE Handle(u)
    BY <2>1, <2>2, HandleUsesStep
  <2>3. CASE ~Handle(u)
    BY <2>1, <2>3, OthersUseNone
  <2> QED BY <2>2, <2>3
<1> QED BY <1>1, <1>2, TypeCorrect, PTL DEF Spec
====
