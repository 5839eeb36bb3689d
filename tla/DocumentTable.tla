---- MODULE DocumentTable ----
(***************************************************************************)
(* What a client of the documents API may rely on, whatever the requests   *)
(* that race behind it read, insert, count again and rename: each upload   *)
(* is answered as if it had come alone, at one moment.  A base lease gets  *)
(* slot 0, an amendment one of the slots 1..MaxAmendments, and nobody's.   *)
(***************************************************************************)
EXTENDS Naturals

CONSTANTS
    Uploads,         \* upload requests, and the documents they create
    Base,            \* those whose document_type is base_lease
    MaxAmendments,   \* MAX_AMENDMENTS
    Nothing          \* who holds a free slot

VARIABLES
    answer,   \* of a request: none yet, 201 created, 409 refused, or deleted since
    slot      \* who holds a slot

vars == <<answer, slot>>

SlotsFor(u) == IF u \in Base THEN {0} ELSE 1..MaxAmendments

TableTypeOK ==
    /\ answer \in [Uploads -> {"none", "created", "refused", "deleted"}]
    /\ slot \in [0..MaxAmendments -> Uploads \cup {Nothing}]

Init ==
    /\ answer = [u \in Uploads |-> "none"]
    /\ slot = [o \in 0..MaxAmendments |-> Nothing]

Accept(u) ==
    /\ answer[u] = "none"
    /\ answer' = [answer EXCEPT ![u] = "created"]
    /\ \E o \in SlotsFor(u) : slot[o] = Nothing /\ slot' = [slot EXCEPT ![o] = u]

\* A request is refused when every slot it might have is taken.  Once a document has been
\* deleted an amendment may be refused although a slot is free.
Refuse(u) ==
    /\ answer[u] = "none"
    /\ \/ \A o \in SlotsFor(u) : slot[o] # Nothing
       \/ u \notin Base /\ \E v \in Uploads : answer[v] = "deleted"
    /\ answer' = [answer EXCEPT ![u] = "refused"]
    /\ UNCHANGED slot

Delete(u) ==
    /\ answer[u] = "created"
    /\ answer' = [answer EXCEPT ![u] = "deleted"]
    /\ slot' = [o \in 0..MaxAmendments |-> IF slot[o] = u THEN Nothing ELSE slot[o]]

Next == \E u \in Uploads : Accept(u) \/ Refuse(u) \/ Delete(u)

Spec == Init /\ [][Next]_vars

----------------------------------------------------------------------------

\* A document that has been created holds a slot of its kind, and only one.
CreatedHoldsSlot ==
    \A u \in Uploads :
        /\ answer[u] = "created" => \E o \in SlotsFor(u) : slot[o] = u
        /\ \A o, k \in 0..MaxAmendments : slot[o] = u /\ slot[k] = u => answer[u] = "created" /\ o = k

\* A slot goes from one document to another only by a deletion.
SlotsPassByDeletion ==
    [][\A o \in 0..MaxAmendments :
          slot[o] # Nothing /\ slot'[o] # slot[o]
              => slot'[o] = Nothing /\ answer'[slot[o]] = "deleted"]_vars
====
