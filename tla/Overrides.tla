---- MODULE Overrides ----
(***************************************************************************)
(* Manual overrides of one tenant: PATCH /tenants/{id}/fields/{field_id},  *)
(* its audit trail, and the grid that GET /abstraction and the result of a *)
(* job build from the tenant's rows while extractions rewrite them.        *)
(*                                                                         *)
(* A PATCH reads the row and writes in one transaction, in a thread of its *)
(* own.  The write is one step: it touches one row, so a wait for another  *)
(* transaction's row or index entry only delays it.                        *)
(***************************************************************************)
EXTENDS ConcludedValue, Sequences

CONSTANTS
    Fields,      \* field_id: any text is accepted
    Values,      \* override values
    Requests,    \* PATCH requests
    Documents,   \* the tenant's documents: [order, type, eff]
    Dates,       \* bound: effective dates, 0 for none
    Extractions  \* bound: what a run may find in a document: [value, conf, clause]

\* A value asked for is a text: Null asks for a revert.
ASSUME ValuesAssumption == Null \notin Values
\* uq_tenant_doc_order; 0 comes before every date.
ASSUME DocumentsAssumption ==
    /\ IsFiniteSet(Documents) /\ Dates \subseteq Nat
    /\ Documents \subseteq [order : Nat, type : {"base_lease", "amendment"}, eff : Dates]
    /\ \A c, d \in Documents : c.order = d.order => c = d
\* ck_fv_confidence
ASSUME ExtractionsAssumption == \A e \in Extractions : e.conf \in 0..100
ASSUME FieldsAssumption == IsFiniteSet(Fields)

VARIABLES
    overrides,   \* rows of field_overrides: [id, field, value]
    audit,       \* audit rows of overrides in commit order: [field, old, new]
    request,     \* the PATCH requests
    found,       \* field_values: what each document holds for each field
    raced        \* history: the fields on which two requests have overlapped

vars == <<overrides, audit, request, found, raced>>

NoRow == [id |-> Null, field |-> Null, value |-> Null]
Idle == [at |-> "idle", field |-> Null, value |-> Null, row |-> NoRow]
Nothing == [value |-> Null, conf |-> 0, clause |-> FALSE]

RowsOf(f) == {o \in overrides : o.field = f}
Current(f) == IF RowsOf(f) = {} THEN Null ELSE (CHOOSE o \in RowsOf(f) : TRUE).value

Answer(r, place) == request' = [request EXCEPT ![r].at = place]

\* db.add(AuditLog(...)), in the same transaction
Audited(f, old, new) == audit' = Append(audit, [field |-> f, old |-> old, new |-> new])

\* set_override up to the commit: the row, if there is one.  The value asked
\* for is Null for a revert.
Read(r) ==
    /\ request[r].at = "idle"
    /\ \E f \in Fields, v \in Values \cup {Null} :
         /\ request' = [request EXCEPT ![r] =
                          [at |-> "read", field |-> f, value |-> v,
                           row |-> IF RowsOf(f) = {} THEN NoRow ELSE CHOOSE o \in RowsOf(f) : TRUE]]
         /\ raced' = IF \E q \in Requests : request[q].at = "read" /\ request[q].field = f
                     THEN raced \cup {f} ELSE raced
    /\ UNCHANGED <<overrides, audit, found>>

\* A revert.  Without a row nothing is written, and the answer is the same.  The
\* DELETE names the row by id: if that is gone, SQLAlchemy only warns.
Revert(r) ==
    LET ask == request[r]
    IN /\ ask.at = "read" /\ ask.value = Null
       /\ IF ask.row = NoRow
          THEN UNCHANGED <<overrides, audit>>
          ELSE /\ overrides' = {o \in overrides : o.id # ask.row.id}
               /\ Audited(ask.field, ask.row.value, Null)
       /\ Answer(r, "ok")
       /\ UNCHANGED <<found, raced>>

\* uq_override_unique
Taken(f) == RowsOf(f) # {}

\* The INSERT, or a 500 if another request has inserted meanwhile.
Insert(r) ==
    LET ask == request[r]
    IN /\ ask.at = "read" /\ ask.value # Null /\ ask.row = NoRow
       /\ IF Taken(ask.field)
          THEN Answer(r, "failed") /\ UNCHANGED <<overrides, audit>>
          ELSE /\ overrides' = overrides \cup {[id |-> r, field |-> ask.field, value |-> ask.value]}
               /\ Audited(ask.field, Null, ask.value)
               /\ Answer(r, "ok")
       /\ UNCHANGED <<found, raced>>

\* Mutant of Stale: an UPDATE of no row passes for done.
NeverStale(row) == FALSE

\* An UPDATE that matches no row raises StaleDataError.
Stale(row) == \A o \in overrides : o.id # row.id

\* Mutant of OldValue: the audit row is written after the assignment.
OldValueAfter(ask) == ask.value

\* Mutant of OldValue: the row's id.
OldId(ask) == ask.row.id

\* old_value is what the request read.
OldValue(ask) == ask.row.value

\* The UPDATE.  It holds only the columns that differ from what was read, so the
\* value stays as it is if it was asked for as it was read; if comment and actor
\* are the same too (touched is FALSE) there is no UPDATE to be stale.
Update(r) ==
    LET ask == request[r]
        changed == ask.value # ask.row.value
    IN /\ ask.at = "read" /\ ask.value # Null /\ ask.row # NoRow
       /\ \E touched \in BOOLEAN :
            IF (changed \/ touched) /\ Stale(ask.row)
            THEN Answer(r, "failed") /\ UNCHANGED <<overrides, audit>>
            ELSE /\ overrides' = {IF o.id = ask.row.id /\ changed THEN [o EXCEPT !.value = ask.value] ELSE o :
                                    o \in overrides}
                 /\ Audited(ask.field, OldValue(ask), ask.value)
                 /\ Answer(r, "ok")
       /\ UNCHANGED <<found, raced>>

----------------------------------------------------------------------------
(* The extractions of the tenant, and the grid *)

\* A run wipes the tenant's values, then saves them one by one.
Wipe ==
    /\ found' = [c \in Fields \X Documents |-> Nothing]
    /\ UNCHANGED <<overrides, audit, request, raced>>

Persist(f, d) ==
    /\ \E e \in Extractions : found' = [found EXCEPT ![<<f, d>>] = e]
    /\ UNCHANGED <<overrides, audit, request, raced>>

\* _to_input
Input(d, fv) ==
    [order |-> d.order, type |-> d.type, eff |-> d.eff,
     value |-> fv.value, conf |-> fv.conf, clause |-> fv.clause]

\* build_abstraction, also behind get_job_result once the job is complete.  If the value
\* of one field cannot be concluded the whole of it fails.
Grid == [f \in Fields |-> Concluded({Input(d, found[<<f, d>>]) : d \in Documents}, Current(f))]

----------------------------------------------------------------------------

Init ==
    /\ overrides = {}
    /\ audit = <<>>
    /\ request = [r \in Requests |-> Idle]
    /\ found = [c \in Fields \X Documents |-> Nothing]
    /\ raced = {}

Patch(r) == Read(r) \/ Revert(r) \/ Insert(r) \/ Update(r)
Run == Wipe \/ \E f \in Fields, d \in Documents : Persist(f, d)
Next == Run \/ \E r \in Requests : Patch(r)

Spec == Init /\ [][Next]_vars

----------------------------------------------------------------------------
(* Correctness *)

OverrideRows == [id : Requests, field : Fields, value : Values]
AuditRows == [field : Fields, old : Values \cup {Null}, new : Values \cup {Null}]
Asks == [at : {"idle", "read", "ok", "failed"}, field : Fields \cup {Null},
         value : Values \cup {Null}, row : OverrideRows \cup {NoRow}]

\* Every variable keeps its type, and a request that has started names a field.
TypeOK ==
    /\ overrides \subseteq OverrideRows
    /\ audit \in Seq(AuditRows)
    /\ request \in [Requests -> Asks]
    /\ \A r \in Requests : request[r].at # "idle" => request[r].field \in Fields
    /\ found \in [Fields \X Documents -> Extractions \cup {Nothing}]
    /\ raced \subseteq Fields

\* The value of a field that the first n audit rows tell.
ToldBy(n, f) ==
    LET entries == {i \in 1..n : audit[i].field = f}
    IN IF entries = {} THEN Null ELSE audit[Max(entries)].new

\* The audit trail of a field reads as a chain from "no override" to its current
\* value as long as its requests did not overlap (abstraction.py:52-90).
TrailIsAChain ==
    \A f \in Fields \ raced :
      /\ \A i \in 1..Len(audit) : audit[i].field = f => audit[i].old = ToldBy(i - 1, f)
      /\ Current(f) = ToldBy(Len(audit), f)

\* An answer of success means that the field has the value asked for.  When
\* requests overlap this is so for those that set a value other than the one
\* they read: for the rest the writes are left out (abstraction.py:77-81).
AcknowledgedIsStored ==
    [][\A r \in Requests :
          LET ask == request[r]
          IN request'[r].at = "ok" /\ ask.at = "read"
               /\ (ask.field \notin raced \/ ask.value \notin {Null, ask.row.value})
             => Current(ask.field)' = ask.value]_vars

\* The grid of the tenant can be built; otherwise the endpoint answers 500.
GridIsBuilt == \A f \in Fields : Grid[f] # TypeError

\* The counts of the summary of a grid agree: the bands are the fields with a value, those
\* left out whose value came without any confidence, like "undated" and an inherited "No
\* Recovery" (abstraction.py:121-152).
SummaryAddsUp ==
    LET s == Summary(Grid)
        unrated == {f \in Fields : Shown(Grid[f].value) /\ Grid[f].conf = 0}
    IN GridIsBuilt => s.bands["high"] + s.bands["medium"] + s.bands["low"] + Cardinality(unrated) = s.extracted

\* The rule of the module's docstring, whatever the documents' dates: the override, else
\* the value of an amendment than which none is later, the highest order of that date,
\* else the base lease's, else "None"; and the citation and the confidence are of the
\* document the value is from.  Only amendments with a value of which some are dated and some
\* are not may fail to be concluded at all, with a TypeError, and only if dates have time zones
\* (concluded_value.py:4-8, 62-69).
ConcludedFollowsRule ==
    \A f \in Fields, dated \in [Documents -> Dates] :
      LET evidence == {Input([d EXCEPT !.eff = dated[d]], found[<<f, d>>]) : d \in Documents}
          got == Concluded(evidence, Current(f))
          amendments == Valued(evidence, "amendment")
          base == Valued(evidence, "base_lease")
          Cites(i) == got.doc = i.order /\ got.value = i.value /\ got.conf = i.conf
      IN IF Current(f) # Null THEN got.value = Current(f) /\ got.source = "override"
         ELSE IF got = TypeError THEN
              AwareDates /\ (\E i \in amendments : i.eff = 0) /\ \E i \in amendments : i.eff # 0
         ELSE IF amendments # {} THEN
              \E i \in amendments :
                 /\ Cites(i)
                 /\ \A j \in amendments : i.eff >= j.eff /\ (i.eff = j.eff => i.order >= j.order)
         ELSE IF base # {} THEN \E i \in base : Cites(i)
         ELSE got.value = NoneText /\ got.conf = 0
====
