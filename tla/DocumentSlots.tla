---- MODULE DocumentSlots ----
(***************************************************************************)
(* The documents of one tenant: concurrent upload requests that race for   *)
(* document_order slots, delete requests, and the files both keep under    *)
(* uploads/<tenant>/<order>_<name>.                                        *)
(*                                                                         *)
(* An upload request is its own content: Uploads are requests, the         *)
(* documents they create and what is inside their files.  A step is one    *)
(* transaction, or one call on the file system.                            *)
(***************************************************************************)
EXTENDS Naturals, FiniteSets

CONSTANTS
    Uploads,         \* upload requests
    Base,            \* those whose document_type is base_lease
    Name,            \* upload -> the sanitised name of its file
    Deleters,        \* delete requests that may be under way at a time
    MaxAmendments,   \* MAX_AMENDMENTS, 7 in the code
    MaxActive        \* bound: upload requests under way at a time

ASSUME LimitAssumption == MaxAmendments \in Nat \ {0} /\ MaxActive \in Nat \ {0}

VARIABLES
    row,        \* documents: has the request's row been committed, or deleted
    order,      \* document_order the request holds, or tries for
    path,       \* dest: where it has put its file
    tries,      \* attempts of the insert loop so far
    pc,
    del,        \* the delete requests
    disk,       \* file path -> whose content it is
    raced       \* history: an upload has overlapped another request

vars == <<row, order, path, tries, pc, del, disk, raced>>

Names == {Name[u] : u \in Uploads}
Orders == 0..MaxAmendments
Paths == Orders \X Names
Nothing == "nothing"
NoDelete == [doc |-> Nothing, at |-> "idle"]

ASSUME UploadsAssumption == IsFiniteSet(Uploads) /\ Base \subseteq Uploads /\ Nothing \notin Uploads

\* Mutant of FileAt: the file is named after its slot alone.
FileAtSlot(u, o) == <<o, CHOOSE n \in Names : TRUE>>

\* dest_dir / f"{document_order:02d}_{safe_name}"
FileAt(u, o) == <<o, Name[u]>>

Documents == {u \in Uploads : row[u] = "present"}
Amendments == Documents \ Base
UsedOrders == {order[u] : u \in Documents}

\* Mutant of Full: no limit when the order is computed.
NeverFull == FALSE

\* amendment_count >= MAX_AMENDMENTS
Full == Cardinality(Amendments) >= MaxAmendments

\* The code takes the number of amendments for the highest order in use.
NextOrder == Cardinality(Amendments) + 1

\* Mutant of TriesLeft: while True.
TriesForever(u) == TRUE

\* Mutant of TriesLeft: the loser of a slot does not try again.
TriesOnce(u) == tries[u] < 1

\* for _ in range(MAX_AMENDMENTS + 1)
TriesLeft(u) == tries[u] < MaxAmendments + 1

Goto(u, place) == pc' = [pc EXCEPT ![u] = place]
Remove(p) == disk' = [disk EXCEPT ![p] = Nothing]
Active(u) == pc[u] \notin {"idle", "done"}

----------------------------------------------------------------------------
(* upload_document *)

\* The checks at the top of the handler, on the tenant's documents as they are:
\* a second base lease and an amendment too many are refused with a 409.
Check(u) ==
    /\ pc[u] = "idle"
    /\ Cardinality({v \in Uploads : Active(v)}) < MaxActive
    /\ raced' = (raced \/ (\E v \in Uploads : Active(v)) \/ (\E x \in Deleters : del[x] # NoDelete))
    /\ IF (u \in Base /\ Documents \cap Base # {}) \/ (u \notin Base /\ Full)
       THEN Goto(u, "done") /\ UNCHANGED <<order, path>>
       ELSE LET o == IF u \in Base THEN 0 ELSE NextOrder
            IN /\ order' = [order EXCEPT ![u] = o]
               /\ path' = [path EXCEPT ![u] = FileAt(u, o)]
               /\ Goto(u, "write")
    /\ UNCHANGED <<row, tries, del, disk>>

\* The file is written before the row exists, over whatever is there.
Write(u) ==
    /\ pc[u] = "write"
    /\ disk' = [disk EXCEPT ![path[u]] = u]
    /\ Goto(u, "insert")
    /\ UNCHANGED <<row, order, path, tries, del, raced>>

\* One round of the loop: INSERT and COMMIT, under uq_tenant_doc_order.  The
\* loser of slot 0 answers 409 and leaves its file.
Insert(u) ==
    /\ pc[u] = "insert"
    /\ TriesLeft(u)
    /\ tries' = [tries EXCEPT ![u] = IF @ <= MaxAmendments THEN @ + 1 ELSE @]
    /\ IF order[u] \notin UsedOrders
       THEN row' = [row EXCEPT ![u] = "present"] /\ Goto(u, "done")
       ELSE Goto(u, IF u \in Base THEN "done" ELSE "recount") /\ UNCHANGED row
    /\ UNCHANGED <<order, path, del, disk, raced>>

\* After the rollback the tenant is read again.
Recount(u) ==
    /\ pc[u] = "recount"
    /\ IF Full
       THEN /\ Remove(path[u])
            /\ Goto(u, "done")
            /\ UNCHANGED order
       ELSE /\ order' = [order EXCEPT ![u] = NextOrder]
            /\ Goto(u, "rename")
            /\ UNCHANGED disk
    /\ UNCHANGED <<row, path, tries, del, raced>>

\* dest.rename(new_dest): POSIX replaces what is there, Windows refuses; a file
\* that is gone cannot be moved.  The error is logged and dest is new_dest.
Rename(u) ==
    /\ pc[u] = "rename"
    /\ LET new == FileAt(u, order[u])
       IN /\ path' = [path EXCEPT ![u] = new]
          /\ \/ /\ disk[path[u]] # Nothing /\ new # path[u]
                /\ disk' = [disk EXCEPT ![new] = disk[path[u]], ![path[u]] = Nothing]
             \/ /\ disk[path[u]] = Nothing \/ new = path[u] \/ disk[new] # Nothing
                /\ UNCHANGED disk
    /\ Goto(u, "insert")
    /\ UNCHANGED <<row, order, tries, del, raced>>

\* The for loop's else: 409, could not assign a document slot.  The file stays.
GiveUp(u) ==
    /\ pc[u] = "insert"
    /\ ~TriesLeft(u)
    /\ Goto(u, "done")
    /\ UNCHANGED <<row, order, path, tries, del, disk, raced>>

----------------------------------------------------------------------------
(* delete_document *)

DeleteGet(x, u) ==
    /\ del[x] = NoDelete
    /\ u \in Documents
    /\ del' = [del EXCEPT ![x] = [doc |-> u, at |-> "unlink"]]
    /\ raced' = (raced \/ \E v \in Uploads : Active(v))
    /\ UNCHANGED <<row, order, path, tries, pc, disk>>

\* Path(doc.storage_path).unlink(missing_ok=True), before the row goes.
DeleteUnlink(x) ==
    /\ del[x].at = "unlink"
    /\ Remove(path[del[x].doc])
    /\ del' = [del EXCEPT ![x].at = "commit"]
    /\ UNCHANGED <<row, order, path, tries, pc, raced>>

\* Deleting a row that another request has deleted is only a warning.
DeleteCommit(x) ==
    /\ del[x].at = "commit"
    /\ row' = [row EXCEPT ![del[x].doc] = "deleted"]
    /\ del' = [del EXCEPT ![x] = NoDelete]
    /\ UNCHANGED <<order, path, tries, pc, disk, raced>>

----------------------------------------------------------------------------

Init ==
    /\ row = [u \in Uploads |-> "none"]
    /\ order = [u \in Uploads |-> 0]
    /\ path = [u \in Uploads |-> FileAt(u, 0)]
    /\ tries = [u \in Uploads |-> 0]
    /\ pc = [u \in Uploads |-> "idle"]
    /\ del = [x \in Deleters |-> NoDelete]
    /\ disk = [p \in Paths |-> Nothing]
    /\ raced = FALSE

\* What an upload request does by itself once it has started.
Handle(u) == Write(u) \/ Insert(u) \/ Recount(u) \/ Rename(u) \/ GiveUp(u)

Delete(x) ==
    \/ \E u \in Uploads : DeleteGet(x, u)
    \/ DeleteUnlink(x)
    \/ DeleteCommit(x)

Next ==
    \/ \E u \in Uploads : Check(u) \/ Handle(u)
    \/ \E x \in Deleters : Delete(x)

Spec == Init /\ [][Next]_vars

\* A handler runs to its end; clients need not send anything.
FairSpec == Spec /\ \A u \in Uploads : WF_vars(Handle(u))

----------------------------------------------------------------------------
(* Correctness *)

\* Every variable keeps its type: document_order stays in 0..7 (orm.py:90).
TypeOK ==
    /\ row \in [Uploads -> {"none", "present", "deleted"}]
    /\ order \in [Uploads -> Orders]
    /\ path \in [Uploads -> Paths]
    /\ tries \in [Uploads -> 0..(MaxAmendments + 1)]
    /\ pc \in [Uploads -> {"idle", "write", "insert", "recount", "rename", "done"}]
    /\ del \in [Deleters -> [doc : Uploads \cup {Nothing}, at : {"idle", "unlink", "commit"}]]
    /\ disk \in [Paths -> Uploads \cup {Nothing}]
    /\ raced \in BOOLEAN

\* A tenant has one base lease, in slot 0, and at most MAX_AMENDMENTS amendments,
\* although every request counts before it inserts: the loser of a slot has to
\* count again (documents.py:54-66, 108-124).
SlotLimits ==
    /\ Cardinality(Documents \cap Base) <= 1
    /\ Cardinality(Amendments) <= MaxAmendments
    /\ \A u \in Amendments : order[u] # 0

Unshared(u) == \A v \in Uploads \ {u} : Name[v] # Name[u]
BeingDeleted(u) == \E x \in Deleters : del[x].doc = u

Serial ==
    ~raced /\ (\A u \in Uploads : row[u] # "deleted") /\ (\A x \in Deleters : del[x] = NoDelete)

\* The file a document's storage_path names is there and is the document's own.
\* It is so through every race, deletion and rename as long as no other upload to
\* the tenant has the same sanitised name, because another writes, renames and
\* unlinks only paths that end in its own name; and for uploads of the same name
\* one after the other with nothing deleted, because each has a slot of its own
\* and the slot is in the path (documents.py:78-84, 126-131, 171-172).
DocumentsKeepTheirFiles ==
    \A u \in Documents :
        Serial \/ (Unshared(u) /\ ~BeingDeleted(u)) => disk[path[u]] = u

\* The table of documents as clients see it.
Answer(u) ==
    CASE row[u] = "present" -> "created"
      [] row[u] = "deleted" -> "deleted"
      [] OTHER -> IF pc[u] = "done" THEN "refused" ELSE "none"
Holder(o) ==
    IF o \in UsedOrders THEN CHOOSE u \in Documents : order[u] = o ELSE Nothing

Table == INSTANCE DocumentTable WITH
    answer <- [u \in Uploads |-> Answer(u)],
    slot <- [o \in Orders |-> Holder(o)]

\* Clients see each upload happen at one moment: a created document has a slot of its own
\* kind that was free, and a request is refused with a 409 only while every slot it might
\* have is taken, or once something has been deleted.  So the retry loop never gives up on
\* a tenant with room, as long as nobody deletes (documents.py:91-138).
ImplementsTable == Table!Spec

\* Every upload request is answered: the loop ends although, after a deletion,
\* the order it computes may be taken however often it counts (documents.py:91-138).
EveryUploadAnswers == \A u \in Uploads : Active(u) ~> pc[u] = "done"

\* The loser of a slot computes the next free order, says the comment on the
\* unique constraint (documents.py:86-89).
LosersTakeFreeOrder ==
    [][\A u \in Uploads : pc[u] = "recount" /\ pc'[u] = "rename" => order'[u] \notin UsedOrders]_vars
====
