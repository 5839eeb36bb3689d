---- MODULE Overrides_proofs ----
(* The audit trail, what an answer of success means, and the rule of the      *)
(* concluded value, for every number of fields, requests and documents.       *)
EXTENDS Overrides, FiniteSetTheorems, SequenceTheorems, WellFoundedInduction, TLAPS

----------------------------------------------------------------------------
(* The inductive invariant, in parts *)

\* uq_override_unique, and the primary key: a row is of one request, which has ended.
RowsAreUnique ==
    /\ \A o, p \in overrides : o.field = p.field => o = p
    /\ \A o, p \in overrides : o.id = p.id => o = p
    /\ \A o \in overrides : request[o.id].at = "ok"

\* The row a request has read is, or was, a row of its field.
ReadRowsFit ==
    \A r \in Requests : request[r].at = "read" /\ request[r].row # NoRow =>
        /\ request[r].row.field = request[r].field
        /\ request[request[r].row.id].at = "ok"
        /\ \A o \in overrides : o.id = request[r].row.id => o.field = request[r].field

\* A request alone on its field has read what is there.
AloneReadsCurrent ==
    /\ \A q, r \in Requests :
         request[q].at = "read" /\ request[r].at = "read" /\ request[q].field = request[r].field
           => q = r \/ request[r].field \in raced
    /\ \A r \in Requests :
         request[r].at = "read" /\ request[r].field \notin raced
           => RowsOf(request[r].field) = IF request[r].row = NoRow THEN {} ELSE {request[r].row}

\* What requests under way rely on, and what the trail needs besides it.
RowsInv == TypeOK /\ RowsAreUnique /\ ReadRowsFit /\ AloneReadsCurrent
TrailInv == RowsInv /\ TrailIsAChain
----------------------------------------------------------------------------
(* Rows *)

\* A field has the value of its one row.
LEMMA CurrentOfRow ==
    ASSUME RowsAreUnique, NEW o \in overrides
    PROVE  RowsOf(o.field) = {o} /\ Current(o.field) = o.value
<1>1. RowsOf(o.field) = {o}
  BY DEF RowsAreUnique, RowsOf
<1> QED BY <1>1 DEF Current

\* What a request alone on its field has read is the field's value.
LEMMA ReadIsCurrent ==
    ASSUME RowsInv, NEW r \in Requests, request[r].at = "read", request[r].field \notin raced
    PROVE  /\ request[r].row.value = Current(request[r].field)
           /\ request[r].row = NoRow => RowsOf(request[r].field) = {}
           /\ request[r].row # NoRow => request[r].row \in overrides
<1>1. RowsOf(request[r].field) = IF request[r].row = NoRow THEN {} ELSE {request[r].row}
  BY DEF RowsInv, AloneReadsCurrent
<1>2. CASE request[r].row = NoRow
  BY <1>1, <1>2 DEF Current, NoRow
<1>3. CASE request[r].row # NoRow
  BY <1>1, <1>3 DEF Current, RowsOf
<1> QED BY <1>2, <1>3

\* The row a request reads.
LEMMA RowReadFits ==
    ASSUME RowsInv, NEW f \in Fields
    PROVE  LET row == IF RowsOf(f) = {} THEN NoRow ELSE CHOOSE o \in RowsOf(f) : TRUE
           IN /\ row \in OverrideRows \cup {NoRow}
              /\ RowsOf(f) = IF row = NoRow THEN {} ELSE {row}
              /\ row # NoRow => row \in overrides /\ row.field = f
<1>1. CASE RowsOf(f) = {}
  BY <1>1
<1>2. CASE RowsOf(f) # {}
  <2>1. PICK o : o \in RowsOf(f)
    BY <1>2
  <2>2. RowsOf(f) = {o} /\ o \in overrides /\ o.field = f
    BY <2>1 DEF RowsOf, RowsInv, RowsAreUnique
  <2>3. o \in OverrideRows /\ o # NoRow
    BY <2>2, ValuesAssumption DEF RowsInv, TypeOK, NoRow, OverrideRows
  <2> QED BY <2>2, <2>3
<1> QED BY <1>1, <1>2

----------------------------------------------------------------------------
(* Types *)

\* Nobody has asked for anything.
LEMMA RowsInit == Init => RowsInv
<1> SUFFICES ASSUME Init PROVE RowsInv
  OBVIOUS
<1>1. Idle \in Asks
  BY DEF Idle, Asks, NoRow
<1>2. <<>> \in Seq(AuditRows)
  OBVIOUS
<1>3. TypeOK
  BY <1>1, <1>2 DEF Init, TypeOK, Idle
<1>4. RowsAreUnique /\ ReadRowsFit /\ AloneReadsCurrent
  BY DEF Init, RowsAreUnique, ReadRowsFit, AloneReadsCurrent, Idle
<1> QED BY <1>3, <1>4 DEF RowsInv

\* A request that reads asks for a value or a revert, of a field.
LEMMA ReadTypes ==
    ASSUME RowsInv, NEW r \in Requests, Read(r)
    PROVE  /\ request[r].at = "idle"
           /\ \E f \in Fields, v \in Values \cup {Null}, row \in OverrideRows \cup {NoRow} :
                /\ request' = [request EXCEPT ![r] = [at |-> "read", field |-> f, value |-> v, row |-> row]]
                /\ RowsOf(f) = IF row = NoRow THEN {} ELSE {row}
                /\ row # NoRow => row \in overrides /\ row.field = f
                /\ raced' = IF \E q \in Requests : request[q].at = "read" /\ request[q].field = f
                            THEN raced \cup {f} ELSE raced
           /\ UNCHANGED <<overrides, audit, found>>
<1>1. PICK f \in Fields, v \in Values \cup {Null} :
         /\ request' = [request EXCEPT ![r] =
                          [at |-> "read", field |-> f, value |-> v,
                           row |-> IF RowsOf(f) = {} THEN NoRow ELSE CHOOSE o \in RowsOf(f) : TRUE]]
         /\ raced' = IF \E q \in Requests : request[q].at = "read" /\ request[q].field = f
                     THEN raced \cup {f} ELSE raced
  BY DEF Read
<1> DEFINE row == IF RowsOf(f) = {} THEN NoRow ELSE CHOOSE o \in RowsOf(f) : TRUE
<1>2. /\ row \in OverrideRows \cup {NoRow}
      /\ RowsOf(f) = IF row = NoRow THEN {} ELSE {row}
      /\ row # NoRow => row \in overrides /\ row.field = f
  BY RowReadFits
<1>3. request' = [request EXCEPT ![r] = [at |-> "read", field |-> f, value |-> v, row |-> row]]
  BY <1>1
<1> HIDE DEF row
<1>4. request[r].at = "idle" /\ UNCHANGED <<overrides, audit, found>>
  BY DEF Read
<1> QED BY <1>1, <1>2, <1>3, <1>4

\* A request that ends keeps what it has asked for.
LEMMA AnswerTypes ==
    ASSUME TypeOK, NEW r \in Requests, NEW place \in {"ok", "failed"}, request[r].at = "read", Answer(r, place)
    PROVE  /\ request' \in [Requests -> Asks]
           /\ \A q \in Requests : request'[q].at # "idle" => request'[q].field \in Fields
           /\ request'[r].at = place /\ request'[r].field = request[r].field
           /\ \A q \in Requests \ {r} : request'[q] = request[q]
<1>1. request[r] \in Asks
  BY DEF TypeOK
<1>2. request' = [request EXCEPT ![r] = [request[r] EXCEPT !.at = place]]
  BY DEF Answer
<1> DEFINE a == [request[r] EXCEPT !.at = place]
<1>3. a \in Asks /\ a.at = place /\ a.field = request[r].field
  BY <1>1 DEF Asks
<1>4. request' = [request EXCEPT ![r] = a]
  BY <1>2
<1> HIDE DEF a
<1> QED BY <1>3, <1>4 DEF TypeOK

\* An audit row is appended.
LEMMA AuditTypes ==
    ASSUME TypeOK, NEW f \in Fields, NEW old \in Values \cup {Null}, NEW new \in Values \cup {Null},
           Audited(f, old, new)
    PROVE  /\ audit' \in Seq(AuditRows) /\ Len(audit) \in Nat /\ Len(audit') = Len(audit) + 1
           /\ \A i \in 1..Len(audit) : audit'[i] = audit[i]
           /\ audit'[Len(audit) + 1] = [field |-> f, old |-> old, new |-> new]
<1> DEFINE e == [field |-> f, old |-> old, new |-> new]
<1>1. audit \in Seq(AuditRows) /\ e \in AuditRows
  BY DEF TypeOK, AuditRows
<1>2. audit' = Append(audit, e)
  BY DEF Audited
<1> HIDE DEF e
<1>3. Len(audit) \in Nat
  BY <1>1
<1>4. /\ Append(audit, e) \in Seq(AuditRows)
      /\ Len(Append(audit, e)) = Len(audit) + 1
      /\ \A i \in 1..Len(audit) : Append(audit, e)[i] = audit[i]
      /\ Append(audit, e)[Len(audit) + 1] = e
  BY <1>1, AppendProperties
<1> QED BY <1>2, <1>3, <1>4 DEF e
----------------------------------------------------------------------------
(* What a request that writes does to the rows and the trail *)

\* uq_override_unique and the primary key.
RowsDiffer ==
    /\ \A o, p \in overrides : o.field = p.field => o = p
    /\ \A o, p \in overrides : o.id = p.id => o = p

\* It leaves the other fields alone, and either writes nothing or its row and its audit row.
Effect(r) ==
    LET ask == request[r]
    IN /\ ask.at = "read"
       /\ Answer(r, "ok") \/ (Answer(r, "failed") /\ UNCHANGED <<overrides, audit>>)
       /\ UNCHANGED <<found, raced>>
       /\ overrides' \subseteq OverrideRows /\ RowsDiffer'
       /\ \A g \in Fields \ {ask.field} : RowsOf(g)' = RowsOf(g)
       /\ \A o \in overrides' \ overrides :
            o.field = ask.field /\ ((o.id = r /\ Answer(r, "ok")) \/ \E p \in RowsOf(ask.field) : p.id = o.id)
       /\ UNCHANGED <<overrides, audit>> \/ Audited(ask.field, ask.row.value, ask.value)

\* A revert removes the row that was read, if it is still there.
LEMMA RevertEffect == ASSUME RowsInv, NEW r \in Requests, Revert(r) PROVE Effect(r)
<1> DEFINE ask == request[r]
<1> USE DEF RowsInv, TypeOK, RowsAreUnique, RowsDiffer, RowsOf
<1>1. /\ ask.at = "read" /\ ask.value = Null /\ Answer(r, "ok") /\ UNCHANGED <<found, raced>>
      /\ IF ask.row = NoRow
         THEN UNCHANGED <<overrides, audit>>
         ELSE /\ overrides' = {o \in overrides : o.id # ask.row.id}
              /\ Audited(ask.field, ask.row.value, Null)
  BY DEF Revert
<1>2. CASE ask.row = NoRow
  BY <1>1, <1>2 DEF Effect
<1>3. CASE ask.row # NoRow
  <2>1. \A o \in overrides : o.id = ask.row.id => o.field = ask.field
    BY <1>1, <1>3 DEF ReadRowsFit
  <2>2. overrides' = {o \in overrides : o.id # ask.row.id} /\ Audited(ask.field, ask.row.value, ask.value)
    BY <1>1, <1>3
  <2>3. \A g \in Fields \ {ask.field} : RowsOf(g)' = RowsOf(g)
    BY <2>1, <2>2
  <2>4. overrides' \subseteq overrides
    BY <2>2
  <2> QED BY <1>1, <2>2, <2>3, <2>4 DEF Effect
<1> QED BY <1>2, <1>3

\* An insert finds no row of the field, or fails.
LEMMA InsertEffect == ASSUME RowsInv, NEW r \in Requests, Insert(r) PROVE Effect(r)
<1> DEFINE ask == request[r]
           new == [id |-> r, field |-> ask.field, value |-> ask.value]
<1> USE DEF RowsInv, TypeOK, RowsAreUnique, RowsDiffer, RowsOf
<1>1. /\ ask.at = "read" /\ ask.value # Null /\ ask.row = NoRow /\ UNCHANGED <<found, raced>>
      /\ IF Taken(ask.field)
         THEN Answer(r, "failed") /\ UNCHANGED <<overrides, audit>>
         ELSE overrides' = overrides \cup {new} /\ Audited(ask.field, Null, ask.value) /\ Answer(r, "ok")
  BY DEF Insert
<1>2. CASE Taken(ask.field)
  BY <1>1, <1>2 DEF Effect
<1>3. CASE ~Taken(ask.field)
  <2>1. \A o \in overrides : o.field # ask.field /\ o.id # r
    BY <1>1, <1>3 DEF Taken
  <2>2. new \in OverrideRows /\ new.field = ask.field /\ new.id = r
    BY <1>1 DEF OverrideRows, Asks
  <2>3. overrides' = overrides \cup {new} /\ Audited(ask.field, ask.row.value, ask.value) /\ Answer(r, "ok")
    BY <1>1, <1>3 DEF NoRow
  <2> HIDE DEF new
  <2>4. \A g \in Fields \ {ask.field} : RowsOf(g)' = RowsOf(g)
    BY <2>2, <2>3
  <2>5. RowsDiffer'
    BY <2>1, <2>2, <2>3
  <2> QED BY <1>1, <2>2, <2>3, <2>4, <2>5 DEF Effect
<1> QED BY <1>2, <1>3

\* An update changes no row but the one that was read, and of that the value.
LEMMA UpdateEffect == ASSUME RowsInv, NEW r \in Requests, Update(r) PROVE Effect(r)
<1> DEFINE ask == request[r]
           changed == ask.value # ask.row.value
           Set(o) == IF o.id = ask.row.id /\ changed THEN [o EXCEPT !.value = ask.value] ELSE o
<1> USE DEF RowsInv, TypeOK, RowsAreUnique, RowsDiffer, RowsOf
<1>1. /\ ask.at = "read" /\ ask.value # Null /\ ask.row # NoRow /\ UNCHANGED <<found, raced>>
      /\ \/ Answer(r, "failed") /\ UNCHANGED <<overrides, audit>>
         \/ /\ overrides' = {Set(o) : o \in overrides}
            /\ Audited(ask.field, ask.row.value, ask.value)
            /\ Answer(r, "ok")
  BY DEF Update, OldValue
<1>2. CASE Answer(r, "failed") /\ UNCHANGED <<overrides, audit>>
  BY <1>1, <1>2 DEF Effect
<1>3. CASE /\ overrides' = {Set(o) : o \in overrides}
           /\ Audited(ask.field, ask.row.value, ask.value)
           /\ Answer(r, "ok")
  <2>1. \A o \in overrides : o.id = ask.row.id => o.field = ask.field
    BY <1>1 DEF ReadRowsFit
  <2>2. \A o \in overrides : /\ Set(o) \in OverrideRows /\ Set(o).id = o.id /\ Set(o).field = o.field
                             /\ Set(o) # o => o.field = ask.field
    BY <1>1, <2>1 DEF OverrideRows, Asks
  <2> HIDE DEF Set
  <2>3. \A g \in Fields \ {ask.field} : RowsOf(g)' = RowsOf(g)
    BY <1>3, <2>2
  <2>4. RowsDiffer' /\ overrides' \subseteq OverrideRows
    BY <1>3, <2>2
  <2>5. \A o \in overrides' \ overrides : o.field = ask.field /\ \E p \in RowsOf(ask.field) : p.id = o.id
    BY <1>3, <2>2
  <2> QED BY <1>1, <1>3, <2>3, <2>4, <2>5 DEF Effect
<1> QED BY <1>1, <1>2, <1>3

\* A request under way reads, or writes.
LEMMA PatchSteps ==
    ASSUME RowsInv, NEW r \in Requests, Patch(r)
    PROVE  Read(r) \/ Effect(r)
BY RevertEffect, InsertEffect, UpdateEffect DEF Patch

\* Runs leave rows, requests and the trail alone.
LEMMA RunTypes ==
    ASSUME TypeOK, Run
    PROVE  /\ found' \in [Fields \X Documents -> Extractions \cup {Nothing}]
           /\ UNCHANGED <<overrides, audit, request, raced>>
<1>1. CASE Wipe
  BY <1>1 DEF Wipe
<1>2. ASSUME NEW f \in Fields, NEW d \in Documents, Persist(f, d)
      PROVE  /\ found' \in [Fields \X Documents -> Extractions \cup {Nothing}]
             /\ UNCHANGED <<overrides, audit, request, raced>>
  BY <1>2 DEF Persist, TypeOK
<1> QED BY <1>1, <1>2 DEF Run

\* No step of a request or a run breaks what requests under way rely on.
LEMMA RowsStep == RowsInv /\ [Next]_vars => RowsInv'
<1> SUFFICES ASSUME RowsInv, [Next]_vars PROVE RowsInv'
  OBVIOUS
<1> USE DEF RowsInv
<1>1. ASSUME NEW r \in Requests, Read(r) PROVE RowsInv'
  <2>1. PICK f \in Fields, v \in Values \cup {Null}, row \in OverrideRows \cup {NoRow} :
           /\ request' = [request EXCEPT ![r] = [at |-> "read", field |-> f, value |-> v, row |-> row]]
           /\ RowsOf(f) = IF row = NoRow THEN {} ELSE {row}
           /\ row # NoRow => row \in overrides /\ row.field = f
           /\ raced' = IF \E q \in Requests : request[q].at = "read" /\ request[q].field = f
                       THEN raced \cup {f} ELSE raced
    BY <1>1, ReadTypes
  <2>2. request[r].at = "idle" /\ UNCHANGED <<overrides, audit, found>>
    BY <1>1, ReadTypes
  <2> DEFINE a == [at |-> "read", field |-> f, value |-> v, row |-> row]
  <2>3. a \in Asks /\ a.at = "read" /\ a.field = f /\ a.row = row
    BY DEF Asks
  <2>4. request' = [request EXCEPT ![r] = a]
    BY <2>1
  <2> HIDE DEF a
  <2>5. request'[r] = a /\ \A q \in Requests \ {r} : request'[q] = request[q]
    BY <2>4 DEF TypeOK
  <2>6. raced \subseteq raced' /\ raced' \subseteq Fields
    BY <2>1 DEF TypeOK
  <2>7. TypeOK'
    BY <2>2, <2>3, <2>4, <2>5, <2>6 DEF TypeOK
  <2>8. RowsAreUnique'
    BY <2>2, <2>5 DEF RowsAreUnique, TypeOK, OverrideRows
  <2>9. ReadRowsFit'
    <3>1. row # NoRow => request[row.id].at = "ok" /\ row.id \in Requests /\ row.id # r
      BY <2>1, <2>2 DEF RowsAreUnique, TypeOK, OverrideRows
    <3>2. \A o \in overrides : row # NoRow /\ o.id = row.id => o.field = f
      BY <2>1 DEF RowsAreUnique
    <3>3. \A q \in Requests : request[q].at = "read" /\ request[q].row # NoRow => request[q].row.id \in Requests
      BY DEF TypeOK, Asks, OverrideRows
    <3> QED BY <2>1, <2>2, <2>3, <2>5, <3>1, <3>2, <3>3 DEF ReadRowsFit
  <2>10. AloneReadsCurrent'
    <3>1. (\E q \in Requests : request[q].at = "read" /\ request[q].field = f) => f \in raced'
      BY <2>1
    <3>2. \A p, q \in Requests :
            request'[p].at = "read" /\ request'[q].at = "read" /\ request'[p].field = request'[q].field
              => p = q \/ request'[q].field \in raced'
      BY <2>3, <2>5, <2>6, <3>1 DEF AloneReadsCurrent
    <3>3. ASSUME NEW q \in Requests, request'[q].at = "read", request'[q].field \notin raced'
          PROVE  RowsOf(request[q].field)' = IF request'[q].row = NoRow THEN {} ELSE {request'[q].row}
      <4>1. RowsOf(request[q].field)' = {o \in overrides : o.field = request'[q].field}
        BY <2>2 DEF RowsOf
      <4>2. CASE q = r
        BY <2>1, <2>3, <2>5, <4>1, <4>2 DEF RowsOf
      <4>3. CASE q # r
        BY <2>5, <2>6, <3>3, <4>1, <4>3 DEF AloneReadsCurrent, RowsOf
      <4> QED BY <4>2, <4>3
    <3> QED BY <3>2, <3>3 DEF AloneReadsCurrent
  <2> QED BY <2>7, <2>8, <2>9, <2>10
<1>2. ASSUME NEW r \in Requests, Effect(r) PROVE RowsInv'
  <2> DEFINE ask == request[r]
  <2>1. /\ ask.at = "read" /\ UNCHANGED <<found, raced>>
        /\ Answer(r, "ok") \/ (Answer(r, "failed") /\ UNCHANGED <<overrides, audit>>)
        /\ overrides' \subseteq OverrideRows /\ RowsDiffer'
        /\ \A g \in Fields \ {ask.field} : RowsOf(g)' = RowsOf(g)
        /\ \A o \in overrides' \ overrides :
             o.field = ask.field /\ ((o.id = r /\ Answer(r, "ok")) \/ \E p \in RowsOf(ask.field) : p.id = o.id)
        /\ UNCHANGED <<overrides, audit>> \/ Audited(ask.field, ask.row.value, ask.value)
    BY <1>2 DEF Effect
  <2>2. /\ request' \in [Requests -> Asks]
        /\ \A q \in Requests : request'[q].at # "idle" => request'[q].field \in Fields
        /\ \A q \in Requests \ {r} : request'[q] = request[q]
        /\ request'[r].at \in {"ok", "failed"}
        /\ Answer(r, "ok") => request'[r].at = "ok"
    BY <2>1, AnswerTypes
  <2>3. ask.row.value \in Values \cup {Null} /\ ask.value \in Values \cup {Null} /\ ask.field \in Fields
    BY <2>1 DEF TypeOK, Asks, OverrideRows, NoRow
  <2>4. audit' \in Seq(AuditRows)
    BY <2>1, <2>3, AuditTypes DEF TypeOK
  <2>5. TypeOK'
    BY <2>1, <2>2, <2>4 DEF TypeOK
  <2>6. \A o \in overrides : o.id \in Requests \ {r} /\ request[o.id].at = "ok"
    BY <2>1 DEF RowsAreUnique, TypeOK, OverrideRows
  <2>7. RowsAreUnique'
    BY <2>1, <2>2, <2>6 DEF RowsAreUnique, RowsDiffer, RowsOf
  <2>8. ReadRowsFit'
    <3>1. SUFFICES ASSUME NEW q \in Requests, request'[q].at = "read", request'[q].row # NoRow
                   PROVE  /\ request'[q].row.field = request'[q].field
                          /\ request'[request'[q].row.id].at = "ok"
                          /\ \A o \in overrides' : o.id = request'[q].row.id => o.field = request'[q].field
      BY DEF ReadRowsFit
    <3>2. q # r /\ request'[q] = request[q]
      BY <2>2, <3>1
    <3>3. /\ request[q].row.field = request[q].field
          /\ request[request[q].row.id].at = "ok" /\ request[q].row.id \in Requests
          /\ \A o \in overrides : o.id = request[q].row.id => o.field = request[q].field
      BY <3>1, <3>2 DEF ReadRowsFit, TypeOK, Asks, OverrideRows
    <3>4. request[q].row.id # r
      BY <2>1, <3>3
    <3>5. \A o \in overrides' : o.id = request[q].row.id => o.field = request[q].field
      BY <2>1, <3>3, <3>4 DEF RowsOf
    <3> QED BY <2>2, <3>2, <3>3, <3>4, <3>5
  <2>9. AloneReadsCurrent'
    <3>1. \A q \in Requests : request'[q].at = "read" => q # r /\ request'[q] = request[q]
      BY <2>2
    <3>2. \A q \in Requests : q # r /\ request[q].at = "read" /\ request[q].field \notin raced
            => request[q].field \in Fields \ {ask.field}
      BY <2>1 DEF AloneReadsCurrent, TypeOK
    <3> QED BY <2>1, <3>1, <3>2 DEF AloneReadsCurrent
  <2> QED BY <2>5, <2>7, <2>8, <2>9
<1>3. ASSUME UNCHANGED <<overrides, audit, request, raced>>,
             found' \in [Fields \X Documents -> Extractions \cup {Nothing}]
      PROVE  RowsInv'
  <2>1. \A g : RowsOf(g)' = RowsOf(g)
    BY <1>3 DEF RowsOf
  <2> QED BY <1>3, <2>1 DEF TypeOK, RowsAreUnique, ReadRowsFit, AloneReadsCurrent
<1>4. CASE Run
  BY <1>3, <1>4, RunTypes
<1>5. CASE UNCHANGED vars
  BY <1>3, <1>5 DEF vars, TypeOK
<1> QED BY <1>1, <1>2, <1>4, <1>5, PatchSteps DEF Next

\* Every variable keeps its type, a field has one override row (abstraction.py:52-90).
THEOREM TypeCorrect == Spec => []TypeOK
<1>1. RowsInv => TypeOK
  BY DEF RowsInv
<1> QED BY <1>1, RowsInit, RowsStep, PTL DEF Spec
----------------------------------------------------------------------------
(* Success means stored *)

\* What the field of a request that is answered with success holds then.
LEMMA StoredWhenOk ==
    ASSUME RowsInv, NEW r \in Requests, Revert(r) \/ Insert(r) \/ Update(r), request'[r].at = "ok",
           \/ request[r].field \notin raced
           \/ request[r].value \notin {Null, request[r].row.value},
           NEW f \in Fields, f = request[r].field
    PROVE  Current(f)' = request[r].value
<1> DEFINE ask == request[r]
<1>0. TypeOK /\ RowsAreUnique /\ ReadRowsFit
  BY DEF RowsInv
<1>1. CASE Revert(r)
  <2>1. /\ ask.at = "read" /\ ask.value = Null /\ ask.field \notin raced
        /\ ask.row = NoRow => UNCHANGED overrides
        /\ ask.row # NoRow => overrides' = {o \in overrides : o.id # ask.row.id}
    BY <1>1 DEF Revert
  <2>2. RowsOf(ask.field) = IF ask.row = NoRow THEN {} ELSE {ask.row}
    BY <2>1 DEF RowsInv, AloneReadsCurrent
  <2>3. RowsOf(f)' = {}
    <3>1. CASE ask.row = NoRow
      BY <2>1, <2>2, <3>1 DEF RowsOf
    <3>2. CASE ask.row # NoRow
      <4>1. \A o \in overrides : o.field = f => o = ask.row
        BY <2>2, <3>2 DEF RowsOf
      <4> QED BY <2>1, <3>2, <4>1 DEF RowsOf
    <3> QED BY <3>1, <3>2
  <2> QED BY <2>1, <2>3 DEF Current
<1>2. CASE Insert(r)
  <2>1. ~Taken(ask.field)
    BY <1>0, <1>2, AnswerTypes DEF Insert
  <2>2. overrides' = overrides \cup {[id |-> r, field |-> ask.field, value |-> ask.value]}
    BY <1>2, <2>1 DEF Insert
  <2> DEFINE new == [id |-> r, field |-> f, value |-> ask.value]
  <2>3. RowsOf(f)' = {new} /\ new.value = ask.value
    BY <2>1, <2>2 DEF Taken, RowsOf
  <2> HIDE DEF new
  <2> QED BY <2>3 DEF Current
<1>3. CASE Update(r)
  <2> DEFINE changed == ask.value # ask.row.value
             Set(o) == IF o.id = ask.row.id /\ changed THEN [o EXCEPT !.value = ask.value] ELSE o
  <2>1. ask.at = "read" /\ ask.row # NoRow /\ overrides' = {Set(o) : o \in overrides}
    BY <1>0, <1>3, AnswerTypes DEF Update
  <2>2. \E o \in overrides : o.id = ask.row.id /\ o.field = ask.field /\ (changed \/ o.value = ask.value)
    <3>1. CASE changed
      <4>1. ~Stale(ask.row)
        BY <1>0, <1>3, <3>1, AnswerTypes DEF Update
      <4> QED BY <1>0, <2>1, <3>1, <4>1 DEF Stale, ReadRowsFit
    <3>2. CASE ~changed
      <4>1. ask.row \in overrides /\ ask.row.field = ask.field
        BY <1>0, <1>3, <2>1, <3>2, ReadIsCurrent DEF Update, ReadRowsFit
      <4> QED BY <3>2, <4>1
    <3> QED BY <3>1, <3>2
  <2>3. PICK o \in overrides : o.id = ask.row.id /\ o.field = ask.field /\ (changed \/ o.value = ask.value)
    BY <2>2
  <2>4. Set(o).field = ask.field /\ Set(o).value = ask.value
    BY <1>0, <2>3 DEF TypeOK, OverrideRows
  <2>5. \A p \in overrides : Set(p).field = p.field
    BY <1>0 DEF TypeOK, OverrideRows
  <2> HIDE DEF Set
  <2> DEFINE new == Set(o)
  <2>6. new \in overrides' /\ new.field = f /\ new.value = ask.value
    BY <2>1, <2>4
  <2>7. \A p \in overrides : p.field = f => p = o
    BY <1>0, <2>3 DEF RowsAreUnique
  <2>8. RowsOf(f)' = {new}
    BY <2>1, <2>5, <2>6, <2>7 DEF RowsOf
  <2> HIDE DEF new
  <2> QED BY <2>6, <2>8 DEF Current
<1> QED BY <1>1, <1>2, <1>3

\* Only a request's own write answers it.
LEMMA OwnAnswer ==
    ASSUME RowsInv, [Next]_vars, NEW r \in Requests, request[r].at = "read", request'[r].at = "ok"
    PROVE  Revert(r) \/ Insert(r) \/ Update(r)
<1>1. ASSUME NEW q \in Requests, Read(q) PROVE FALSE
  <2>1. request[q].at = "idle" /\ \E a : a.at = "read" /\ request' = [request EXCEPT ![q] = a]
    BY <1>1 DEF Read
  <2> QED BY <2>1 DEF RowsInv, TypeOK
<1>2. ASSUME NEW q \in Requests, Effect(q), q # r PROVE FALSE
  <2>1. request'[r] = request[r]
    BY <1>2, AnswerTypes DEF Effect, RowsInv
  <2> QED BY <2>1
<1>3. ASSUME NEW q \in Requests, Patch(q) PROVE Revert(r) \/ Insert(r) \/ Update(r)
  BY <1>1, <1>2, <1>3, RevertEffect, InsertEffect, UpdateEffect DEF Patch
<1>4. Run => UNCHANGED request
  BY RunTypes DEF RowsInv
<1> QED BY <1>3, <1>4 DEF Next, vars

\* A request that is answered with success, alone on its field or for a value that it did not
\* find there, has its value in the row (abstraction.py:77-81).
THEOREM SuccessIsStored == Spec => AcknowledgedIsStored
<1> DEFINE Stored(r) == LET ask == request[r]
                        IN request'[r].at = "ok" /\ ask.at = "read"
                             /\ (ask.field \notin raced \/ ask.value \notin {Null, ask.row.value})
                           => Current(ask.field)' = ask.value
<1>1. ASSUME RowsInv, [Next]_vars, NEW r \in Requests PROVE Stored(r)
  <2> DEFINE ask == request[r]
  <2> SUFFICES ASSUME request'[r].at = "ok", ask.at = "read",
                      ask.field \notin raced \/ ask.value \notin {Null, ask.row.value}
               PROVE  Current(ask.field)' = ask.value
    OBVIOUS
  <2>1. Revert(r) \/ Insert(r) \/ Update(r)
    BY <1>1, OwnAnswer
  <2>2. ask.field \in Fields /\ request'[r].field = ask.field
    BY <1>1, <2>1, RevertEffect, InsertEffect, UpdateEffect, AnswerTypes DEF Effect, RowsInv, TypeOK
  <2>3. \A f \in Fields : f = ask.field => Current(f)' = ask.value
    BY <1>1, <2>1, StoredWhenOk
  <2> QED BY <2>2, <2>3 DEF Current, RowsOf
<1>2. RowsInv /\ [Next]_vars => [\A r \in Requests : Stored(r)]_vars
  BY <1>1
<1> QED BY <1>2, RowsInit, RowsStep, PTL DEF Spec, AcknowledgedIsStored

----------------------------------------------------------------------------
(* The trail *)

\* Of some rows of the trail one is the last.
LEMMA LastExists ==
    ASSUME NEW n \in Nat, NEW S \in SUBSET (1..n), S # {}
    PROVE  Max(S) \in S
<1> DEFINE T == {n - i : i \in S}
<1>1. T \subseteq Nat /\ T # {}
  <2>1. \A i \in S : n - i \in Nat
    OBVIOUS
  <2> QED BY <2>1
<1>2. PICK t \in T : \A y \in T : <<y, t>> \notin OpToRel(<, Nat)
  BY <1>1, NatLessThanWellFounded, WFMin, Zenon
<1>3. PICK i \in S : t = n - i
  BY <1>2
<1>4. \A j \in S : i >= j
  <2> SUFFICES ASSUME NEW j \in S, i < j PROVE FALSE
    OBVIOUS
  <2>1. n - j \in T /\ n - j < t
    BY <1>3
  <2>2. <<n - j, t>> \in OpToRel(<, Nat)
    BY <1>1, <1>2, <2>1 DEF OpToRel
  <2> QED BY <1>2, <2>1, <2>2
<1> QED BY <1>4 DEF Max

\* What a trail has told does not change when it grows.
LEMMA ToldBefore ==
    ASSUME NEW f, NEW n \in Nat, \A i \in 1..n : audit'[i] = audit[i]
    PROVE  ToldBy(n, f)' = ToldBy(n, f)
<1> DEFINE entries == {i \in 1..n : audit[i].field = f}
<1>1. entries' = entries
  OBVIOUS
<1>2. CASE entries = {}
  BY <1>1, <1>2 DEF ToldBy
<1>3. CASE entries # {}
  <2>1. Max(entries) \in 1..n
    BY <1>3, LastExists
  <2>2. ToldBy(n, f) = audit[Max(entries)].new
    BY <1>3 DEF ToldBy
  <2>3. ToldBy(n, f)' = audit'[Max(entries)].new
    BY <1>1, <1>3 DEF ToldBy
  <2> HIDE DEF entries
  <2> QED BY <2>1, <2>2, <2>3
<1> QED BY <1>2, <1>3

\* The last row of the trail tells the value of its field.
LEMMA ToldLast ==
    ASSUME NEW f, NEW n \in Nat
    PROVE  /\ audit'[n + 1].field = f => ToldBy(n + 1, f)' = audit'[n + 1].new
           /\ audit'[n + 1].field # f => ToldBy(n + 1, f)' = ToldBy(n, f)'
<1> DEFINE entries == {i \in 1..(n + 1) : audit'[i].field = f}
<1>1. ASSUME audit'[n + 1].field = f PROVE ToldBy(n + 1, f)' = audit'[n + 1].new
  <2>1. n + 1 \in entries /\ \A i \in entries : n + 1 >= i
    BY <1>1
  <2>2. entries \subseteq Nat
    OBVIOUS
  <2> HIDE DEF entries
  <2>3. Max(entries) = n + 1
    <3>1. \A i \in entries : (\A j \in entries : i >= j) => i = n + 1
      BY <2>1, <2>2
    <3> QED BY <2>1, <3>1 DEF Max
  <2> QED BY <2>1, <2>3 DEF ToldBy, entries
<1>2. ASSUME audit'[n + 1].field # f PROVE ToldBy(n + 1, f)' = ToldBy(n, f)'
  <2>1. entries = {i \in 1..n : audit'[i].field = f}
    BY <1>2
  <2> QED BY <2>1 DEF ToldBy
<1> QED BY <1>1, <1>2

\* A field whose rows stay has the value it had.
LEMMA CurrentFrame ==
    ASSUME NEW f, RowsOf(f)' = RowsOf(f)
    PROVE  Current(f)' = Current(f)
BY DEF Current

\* A request alone on its field has read what the trail tells, so the row it adds fits.
LEMMA TrailStep == RowsInv /\ TrailIsAChain /\ [Next]_vars => TrailIsAChain'
<1> SUFFICES ASSUME RowsInv, TrailIsAChain, [Next]_vars, NEW f \in Fields, f \notin raced'
             PROVE  /\ \A i \in 1..Len(audit') : audit'[i].field = f => audit'[i].old = ToldBy(i - 1, f)'
                    /\ Current(f)' = ToldBy(Len(audit), f)'
  BY DEF TrailIsAChain
<1> DEFINE Chain == /\ \A i \in 1..Len(audit) : audit[i].field = f => audit[i].old = ToldBy(i - 1, f)
                    /\ Current(f) = ToldBy(Len(audit), f)
<1>0. TypeOK /\ Len(audit) \in Nat
  BY DEF RowsInv, TypeOK
<1>1. f \notin raced /\ raced \subseteq raced'
  <2>1. ASSUME NEW r \in Requests, Read(r) PROVE raced \subseteq raced'
    BY <2>1, ReadTypes
  <2>2. ASSUME NEW r \in Requests, Effect(r) PROVE raced \subseteq raced'
    BY <2>2 DEF Effect
  <2>3. Run => raced' = raced
    BY <1>0, RunTypes
  <2> QED BY <2>1, <2>2, <2>3, PatchSteps DEF Next, vars
<1>2. Chain
  BY <1>1 DEF TrailIsAChain
<1>3. ASSUME UNCHANGED audit, RowsOf(f)' = RowsOf(f) PROVE Chain'
  <2>1. Current(f)' = Current(f)
    BY <1>3, CurrentFrame
  <2>2. \A n \in Nat : ToldBy(n, f)' = ToldBy(n, f)
    BY <1>3, ToldBefore
  <2> QED BY <1>0, <1>2, <1>3, <2>1, <2>2
<1>4. ASSUME NEW r \in Requests, Effect(r), ~UNCHANGED <<overrides, audit>> PROVE Chain'
  <2> DEFINE ask == request[r]
  <2>0. PICK n \in Nat : n = Len(audit)
    BY <1>0
  <2>1. /\ ask.at = "read" /\ UNCHANGED raced /\ Audited(ask.field, ask.row.value, ask.value)
        /\ Answer(r, "ok")
        /\ \A g \in Fields \ {ask.field} : RowsOf(g)' = RowsOf(g)
    BY <1>4 DEF Effect
  <2>2. ask.row.value \in Values \cup {Null} /\ ask.value \in Values \cup {Null} /\ ask.field \in Fields
    BY <1>0, <2>1 DEF TypeOK, Asks, OverrideRows, NoRow
  <2>3. /\ Len(audit') = n + 1 /\ \A i \in 1..n : audit'[i] = audit[i]
        /\ audit'[n + 1] = [field |-> ask.field, old |-> ask.row.value, new |-> ask.value]
    BY <1>0, <2>0, <2>1, <2>2, AuditTypes
  <2>4. \A i \in 0..n : ToldBy(i, f)' = ToldBy(i, f)
    BY <1>0, <2>3, ToldBefore
  <2>5. ToldBy(n + 1, f)' = IF ask.field = f THEN ask.value ELSE ToldBy(n, f)
    <3>1. audit'[n + 1].field = ask.field /\ audit'[n + 1].new = ask.value
      BY <2>3
    <3>2. /\ audit'[n + 1].field = f => ToldBy(n + 1, f)' = audit'[n + 1].new
          /\ audit'[n + 1].field # f => ToldBy(n + 1, f)' = ToldBy(n, f)'
      BY ToldLast
    <3> QED BY <2>4, <3>1, <3>2
  <2>6. ask.field = f => ask.row.value = Current(f)
    BY <1>1, <2>1, ReadIsCurrent
  <2>7. Current(f)' = IF ask.field = f THEN ask.value ELSE Current(f)
    <3>1. CASE ask.field = f
      <4>1. Revert(r) \/ Insert(r) \/ Update(r)
        BY <1>0, <2>1, AnswerTypes, OwnAnswer
      <4>2. request'[r].at = "ok"
        BY <1>0, <2>1, AnswerTypes
      <4> QED BY <1>1, <3>1, <4>1, <4>2, StoredWhenOk
    <3>2. CASE ask.field # f
      BY <2>1, <3>2, CurrentFrame
    <3> QED BY <3>1, <3>2
  <2>8. \A i \in 1..n : audit'[i].field = f => audit'[i].old = ToldBy(i - 1, f)'
    BY <1>2, <2>0, <2>3, <2>4
  <2>9. audit'[n + 1].field = f => audit'[n + 1].old = ToldBy(n, f)'
    BY <1>2, <2>0, <2>3, <2>4, <2>6
  <2>10. \A i \in 1..(n + 1) : audit'[i].field = f => audit'[i].old = ToldBy(i - 1, f)'
    BY <2>8, <2>9
  <2>11. Current(f)' = ToldBy(n + 1, f)'
    BY <1>2, <2>0, <2>4, <2>5, <2>7
  <2> QED BY <2>3, <2>10, <2>11
<1>5. ASSUME UNCHANGED <<overrides, audit>> PROVE Chain'
  BY <1>3, <1>5 DEF RowsOf
<1>6. ASSUME NEW r \in Requests, Read(r) PROVE UNCHANGED <<overrides, audit>>
  BY <1>6 DEF Read
<1>7. Run => UNCHANGED <<overrides, audit>>
  BY <1>0, RunTypes
<1>8. Chain'
  BY <1>4, <1>5, <1>6, <1>7, PatchSteps DEF Next, vars
<1> QED BY <1>0, <1>8

\* The trail of a field on which no requests overlap leads from no override to its current
\* value, each row from where the one before it ended (abstraction.py:52-90).
THEOREM TrailHolds == Spec => []TrailIsAChain
<1>1. Init => TrailIsAChain
  BY DEF Init, TrailIsAChain, ToldBy, Current, RowsOf
<1> QED BY <1>1, RowsInit, RowsStep, TrailStep, PTL DEF Spec
----------------------------------------------------------------------------
(* The concluded value *)

\* What the documents of a tenant contribute to a field.
IsEvidence(S) ==
    /\ IsFiniteSet(S)
    /\ \A i \in S : i.order \in Nat /\ i.eff \in Nat /\ i.conf \in 0..100
    /\ \A i, j \in S : i.order = j.order => i = j

\* Of finitely many inputs of different orders one is later than every other.
LEMMA LatestExists ==
    ASSUME NEW S, IsEvidence(S), S # {}
    PROVE  Latest(S) \in S /\ \A j \in S \ {Latest(S)} : Later(Latest(S), j)
<1> DEFINE Above(i) == {j \in S : Later(j, i)}
           T == {Above(i) : i \in S}
<1>1. T \subseteq FiniteSubsetsOf(S) /\ T # {}
  <2>1. \A i \in S : Above(i) \subseteq S /\ IsFiniteSet(Above(i))
    BY FS_Subset DEF IsEvidence
  <2> HIDE DEF Above
  <2> QED BY <2>1 DEF FiniteSubsetsOf
<1>2. PICK A \in T : \A B \in T : <<B, A>> \notin StrictSubsetOrdering(S)
  <2> HIDE DEF T
  <2> QED BY <1>1, FS_StrictSubsetOrderingWellFounded, WFMin, Zenon
<1>3. PICK i \in S : A = Above(i)
  BY <1>2
<1>4. Above(i) = {}
  <2> SUFFICES ASSUME NEW j \in Above(i) PROVE FALSE
    OBVIOUS
  <2>1. j \in S /\ Later(j, i)
    OBVIOUS
  <2>2. Above(j) \subseteq Above(i) /\ j \notin Above(j)
    BY <2>1 DEF Later, IsEvidence
  <2>3. Above(j) \in T /\ Above(j) # Above(i) /\ Above(j) \in SUBSET S /\ Above(i) \in SUBSET S
    BY <2>1, <2>2
  <2> HIDE DEF Above, T
  <2>4. <<Above(j), Above(i)>> \in StrictSubsetOrdering(S)
    BY <2>2, <2>3 DEF StrictSubsetOrdering
  <2> QED BY <1>2, <1>3, <2>3, <2>4
<1>5. \A j \in S \ {i} : Later(i, j)
  BY <1>4 DEF Later, IsEvidence
<1> QED BY <1>5 DEF Latest

\* Of the base leases one has the lowest order.
LEMMA FirstExists ==
    ASSUME NEW S, IsEvidence(S), S # {}
    PROVE  (CHOOSE i \in S : \A j \in S : i.order <= j.order) \in S
<1> DEFINE T == {i.order : i \in S}
<1>1. T \subseteq Nat /\ T # {}
  BY DEF IsEvidence
<1>2. PICK t \in T : \A y \in T : <<y, t>> \notin OpToRel(<, Nat)
  BY <1>1, NatLessThanWellFounded, WFMin, Zenon
<1>3. PICK i \in S : t = i.order
  BY <1>2
<1>4. \A j \in S : i.order <= j.order
  <2> SUFFICES ASSUME NEW j \in S, j.order < i.order PROVE FALSE
    BY DEF IsEvidence
  <2>1. j.order \in T /\ j.order < t
    BY <1>3
  <2>2. <<j.order, t>> \in OpToRel(<, Nat)
    BY <1>1, <1>2, <2>1 DEF OpToRel
  <2> QED BY <1>2, <2>1, <2>2
<1> QED BY <1>4

\* Whatever is left out of evidence leaves evidence.
LEMMA ValuedIsEvidence ==
    ASSUME NEW S, IsEvidence(S), NEW type
    PROVE  IsEvidence(Valued(S, type)) /\ Valued(S, type) \subseteq S
BY FS_Subset DEF IsEvidence, Valued

\* Documents differ in order, so what they contribute does.
LEMMA ImageIsEvidence ==
    ASSUME NEW I, \A d \in Documents : I[d].order = d.order /\ I[d].eff \in Nat /\ I[d].conf \in 0..100
    PROVE  IsEvidence({I[d] : d \in Documents})
<1> DEFINE E == {I[d] : d \in Documents}
<1>1. \A i \in E : \E d \in Documents : i = I[d]
  OBVIOUS
<1> HIDE DEF E
<1>2. \A d \in Documents : d.order \in Nat
  BY DocumentsAssumption
<1>3. \A i \in E : i.order \in Nat /\ i.eff \in Nat /\ i.conf \in 0..100
  BY <1>1, <1>2
<1>4. ASSUME NEW i \in E, NEW j \in E, i.order = j.order PROVE i = j
  <2>1. PICK c \in Documents : i = I[c]
    BY <1>1
  <2>2. PICK d \in Documents : j = I[d]
    BY <1>1
  <2>3. c = d
    BY <1>4, <2>1, <2>2, DocumentsAssumption
  <2> QED BY <2>1, <2>2, <2>3
<1>5. IsFiniteSet(E)
  <2> DEFINE g == [i \in E |-> CHOOSE d \in Documents : I[d] = i]
  <2>1. \A i \in E : g[i] \in Documents /\ I[g[i]] = i
    BY <1>1
  <2>2. g \in [E -> Documents]
    BY <2>1
  <2> HIDE DEF g
  <2>3. \A i, j \in E : g[i] = g[j] => i = j
    BY <2>1
  <2>4. DOMAIN g = E
    BY <2>2
  <2>5. IsInjective(g)
    BY <2>3, <2>4 DEF IsInjective
  <2>6. g \in Injection(E, Documents)
    BY <2>2, <2>5 DEF Injection
  <2> QED BY <2>6, FS_Injection, DocumentsAssumption
<1> QED BY <1>3, <1>4, <1>5 DEF IsEvidence, E

\* So the documents of a tenant contribute evidence, whatever their dates are.
LEMMA EvidenceOfDocuments ==
    ASSUME TypeOK, NEW f \in Fields, NEW dated \in [Documents -> Dates]
    PROVE  IsEvidence({Input([d EXCEPT !.eff = dated[d]], found[<<f, d>>]) : d \in Documents})
<1> DEFINE I == [d \in Documents |-> Input([d EXCEPT !.eff = dated[d]], found[<<f, d>>])]
<1>1. ASSUME NEW d \in Documents
      PROVE  I[d].order = d.order /\ I[d].eff \in Nat /\ I[d].conf \in 0..100
  <2>1. I[d].order = d.order /\ I[d].eff = dated[d] /\ I[d].conf = found[<<f, d>>].conf
    BY DocumentsAssumption DEF Input
  <2>2. found[<<f, d>>].conf \in 0..100
    BY ExtractionsAssumption DEF TypeOK, Nothing
  <2> QED BY <2>1, <2>2, DocumentsAssumption
<1>2. {I[d] : d \in Documents} = {Input([d EXCEPT !.eff = dated[d]], found[<<f, d>>]) : d \in Documents}
  BY Zenon
<1> HIDE DEF I
<1> QED BY <1>1, <1>2, ImageIsEvidence

\* And as they are.
LEMMA EvidenceOfTenant ==
    ASSUME TypeOK, NEW f \in Fields
    PROVE  IsEvidence({Input(d, found[<<f, d>>]) : d \in Documents})
<1> DEFINE I == [d \in Documents |-> Input(d, found[<<f, d>>])]
<1>1. ASSUME NEW d \in Documents
      PROVE  I[d].order = d.order /\ I[d].eff \in Nat /\ I[d].conf \in 0..100
  <2>1. I[d].order = d.order /\ I[d].eff = d.eff /\ I[d].conf = found[<<f, d>>].conf
    BY DEF Input
  <2>2. found[<<f, d>>].conf \in 0..100
    BY ExtractionsAssumption DEF TypeOK, Nothing
  <2> QED BY <2>1, <2>2, DocumentsAssumption
<1>2. {I[d] : d \in Documents} = {Input(d, found[<<f, d>>]) : d \in Documents}
  BY Zenon
<1> HIDE DEF I
<1> QED BY <1>1, <1>2, ImageIsEvidence

\* What is concluded from the documents: the latest amendment's, else a base lease's, else
\* "None"; or nothing, if dates have time zones and an amendment has a date and another none.
LEMMA ExtractedFollows ==
    ASSUME NEW S, IsEvidence(S)
    PROVE  LET amendments == Valued(S, "amendment")
               base == Valued(S, "base_lease")
               got == Extracted(S)
               Cites(i) == got.doc = i.order /\ got.value = i.value /\ got.conf = i.conf
           IN IF got = TypeError THEN
                 AwareDates /\ (\E i \in amendments : i.eff = 0) /\ \E i \in amendments : i.eff # 0
              ELSE IF amendments # {} THEN
                 \E i \in amendments :
                    /\ Cites(i)
                    /\ \A j \in amendments : i.eff >= j.eff /\ (i.eff = j.eff => i.order >= j.order)
              ELSE IF base # {} THEN \E i \in base : Cites(i)
              ELSE got.value = NoneText /\ got.conf = 0
<1> DEFINE amendments == Valued(S, "amendment")
           base == Valued(S, "base_lease")
           cited == {i \in S : i.clause}
           first == CHOOSE i \in base : \A j \in base : i.order <= j.order
           got == Extracted(S)
           Cites(i) == got.doc = i.order /\ got.value = i.value /\ got.conf = i.conf
<1>1. IsEvidence(amendments) /\ IsEvidence(base)
  BY ValuedIsEvidence
<1>2. CASE amendments # {} /\ ~Incomparable(amendments)
  <2>1. got = From(Latest(amendments), Latest(amendments).value, "amendment", Latest(amendments).conf)
    BY <1>2 DEF Extracted
  <2>2. Latest(amendments) \in amendments /\ \A j \in amendments \ {Latest(amendments)} : Later(Latest(amendments), j)
    BY <1>1, <1>2, LatestExists
  <2> DEFINE top == Latest(amendments)
  <2>3. Cites(top)
    BY <2>1 DEF From
  <2> HIDE DEF amendments, top, got
  <2>4. \A j \in amendments : top.eff >= j.eff /\ (top.eff = j.eff => top.order >= j.order)
    BY <1>1, <2>2 DEF IsEvidence, Later, top
  <2>5. got # TypeError
    BY <2>1 DEF From, TypeError, got
  <2> QED BY <1>2, <2>2, <2>3, <2>4, <2>5 DEF top, amendments, got
<1>3. CASE amendments = {} /\ base # {}
  <2>1. got = From(first, first.value, "base_lease", first.conf)
    BY <1>3 DEF Extracted
  <2>2. first \in base
    BY <1>1, <1>3, FirstExists
  <2>3. Cites(first) /\ got # TypeError
    BY <2>1 DEF From, TypeError
  <2> QED BY <1>3, <2>2, <2>3
<1>4. CASE amendments = {} /\ base = {}
  <2>1. got.value = NoneText /\ got.conf = 0 /\ got # TypeError
    <3>1. CASE cited # {}
      <4>1. got = From(BestFallback(cited), NoneText, "none", 0)
        BY <1>4, <3>1 DEF Extracted
      <4> QED BY <4>1 DEF From, TypeError
    <3>2. CASE cited = {}
      <4>1. got = [value |-> NoneText, source |-> "none", conf |-> 0, doc |-> NoDoc]
        BY <1>4, <3>2 DEF Extracted
      <4> QED BY <4>1 DEF TypeError
    <3> QED BY <3>1, <3>2
  <2> QED BY <1>4, <2>1
<1>5. CASE amendments # {} /\ Incomparable(amendments)
  <2>1. got = TypeError
    BY <1>5 DEF Extracted
  <2>2. AwareDates /\ (\E i \in amendments : i.eff = 0) /\ \E i \in amendments : i.eff # 0
    BY <1>5 DEF Incomparable
  <2> QED BY <2>1, <2>2
<1> QED BY <1>2, <1>3, <1>4, <1>5

\* The concluded value is the override, else the value of an amendment than which none is later
\* (of one date, the highest order), else the base lease's, else "None", with the citation and
\* confidence of its document.  Nothing is concluded, and the request fails, only if effective
\* dates have time zones and some amendments with a value are dated and some are not; and that
\* for whatever dates the documents have (concluded_value.py:4-8, 62-69).
THEOREM RuleHolds == Spec => []ConcludedFollowsRule
<1>1. TypeOK => ConcludedFollowsRule
  <2> SUFFICES ASSUME TypeOK PROVE ConcludedFollowsRule
    OBVIOUS
  <2> SUFFICES ASSUME NEW f \in Fields, NEW dated \in [Documents -> Dates]
      PROVE LET evidence == {Input([d EXCEPT !.eff = dated[d]], found[<<f, d>>]) : d \in Documents}
                got == Concluded(evidence, Current(f))
                amendments == Valued(evidence, "amendment")
                base == Valued(evidence, "base_lease")
                Cites(i) == got.doc = i.order /\ got.value = i.value /\ got.conf = i.conf
            IN IF Current(f) # Null THEN got.value = Current(f) /\ got.source = "override"
               ELSE IF got = TypeError THEN
                    AwareDates /\ (\E i \in amendments : i.eff = 0) /\ \E i \in amendments : i.eff # 0
               ELSE IF amendments # {} THEN
                    \E i \in amendments :
                       /\ Cites(i)
                       /\ \A j \in amendments : i.eff >= j.eff /\ (i.eff = j.eff => i.order >= j.order)
               ELSE IF base # {} THEN \E i \in base : Cites(i)
               ELSE got.value = NoneText /\ got.conf = 0
    BY Zenon DEF ConcludedFollowsRule
  <2> DEFINE evidence == {Input([d EXCEPT !.eff = dated[d]], found[<<f, d>>]) : d \in Documents}
  <2>1. IsEvidence(evidence)
    BY EvidenceOfDocuments
  <2> HIDE DEF evidence
  <2>2. CASE Current(f) # Null
    BY <2>2 DEF Concluded, Overridden
  <2>3. CASE Current(f) = Null
    <3>1. Concluded(evidence, Current(f)) = Extracted(evidence)
      BY <2>3 DEF Concluded
    <3> QED BY <2>1, <2>3, <3>1, ExtractedFollows DEF evidence
  <2> QED BY <2>2, <2>3
<1> QED BY <1>1, TypeCorrect, PTL
\* What is concluded has a confidence in hundredths.
LEMMA GridConfidence == ASSUME TypeOK, NEW f \in Fields PROVE Grid[f].conf \in 0..100
<1> DEFINE evidence == {Input(d, found[<<f, d>>]) : d \in Documents}
<1>1. Grid[f] = Concluded(evidence, Current(f))
  BY DEF Grid
<1>2. IsEvidence(evidence)
  BY EvidenceOfTenant
<1> HIDE DEF evidence
<1>3. CASE Current(f) # Null
  BY <1>1, <1>3 DEF Concluded, Overridden
<1>4. CASE Current(f) = Null
  <2>1. Grid[f] = Extracted(evidence)
    BY <1>1, <1>4 DEF Concluded
  <2>2. Extracted(evidence).conf = 0 \/ \E i \in evidence : Extracted(evidence).conf = i.conf
    BY <1>2, ExtractedFollows DEF Valued, TypeError
  <2> QED BY <1>2, <2>1, <2>2 DEF IsEvidence
<1> QED BY <1>3, <1>4

\* A set that is split in two has as many elements as its parts together.
LEMMA SplitCount ==
    ASSUME NEW A, NEW B, IsFiniteSet(A \cup B), A \cap B = {}
    PROVE  /\ IsFiniteSet(A) /\ IsFiniteSet(B)
           /\ Cardinality(A \cup B) = Cardinality(A) + Cardinality(B)
           /\ Cardinality(A) \in Nat /\ Cardinality(B) \in Nat
<1>1. IsFiniteSet(A) /\ IsFiniteSet(B)
  BY FS_Subset
<1>2. Cardinality(A) \in Nat /\ Cardinality(B) \in Nat
  BY <1>1, FS_CardinalityType
<1>3. Cardinality(A \cup B) = Cardinality(A) + Cardinality(B) - Cardinality(A \cap B)
  BY <1>1, FS_Union
<1>4. Cardinality(A \cap B) = 0
  BY FS_EmptySet
<1> QED BY <1>1, <1>2, <1>3, <1>4

\* The bands of the summary count every field with a value once, those left out whose value came
\* without any confidence (abstraction.py:121-152).
THEOREM CountsAgree == Spec => []SummaryAddsUp
<1>1. TypeOK => SummaryAddsUp
  <2> SUFFICES ASSUME TypeOK PROVE SummaryAddsUp
    OBVIOUS
  <2> DEFINE valued == {f \in Fields : Shown(Grid[f].value)}
             In(b) == {f \in valued : Band(Grid[f].conf) = b}
             unrated == {f \in Fields : Shown(Grid[f].value) /\ Grid[f].conf = 0}
  <2>1. DOMAIN Grid = Fields
    BY DEF Grid
  <2>2. /\ Summary(Grid).extracted = Cardinality(valued)
        /\ \A b \in {"high", "medium", "low"} : Summary(Grid).bands[b] = Cardinality(In(b))
    BY <2>1 DEF Summary, Count, Quantify
  <2>3. \A f \in valued : Grid[f].conf \in 0..100
    BY GridConfidence
  <2>4. \A f \in valued : \/ Band(Grid[f].conf) = "none" /\ Grid[f].conf = 0
                          \/ Band(Grid[f].conf) \in {"high", "medium", "low"} /\ Grid[f].conf # 0
    BY <2>3 DEF Band
  <2>5. IsFiniteSet(valued)
    BY FieldsAssumption, FS_Subset
  <2>6. unrated = In("none")
    BY <2>4
  <2> HIDE DEF unrated
  <2>7. valued = In("high") \cup (In("medium") \cup (In("low") \cup In("none")))
    BY <2>4
  <2> HIDE DEF valued
  <2>8. /\ In("high") \cap (In("medium") \cup (In("low") \cup In("none"))) = {}
        /\ In("medium") \cap (In("low") \cup In("none")) = {}
        /\ In("low") \cap In("none") = {}
    OBVIOUS
  <2> HIDE DEF In
  <2>9. /\ IsFiniteSet(In("medium") \cup (In("low") \cup In("none")))
        /\ Cardinality(valued) = Cardinality(In("high")) + Cardinality(In("medium") \cup (In("low") \cup In("none")))
        /\ Cardinality(In("high")) \in Nat
    BY <2>5, <2>7, <2>8, SplitCount
  <2>10. /\ IsFiniteSet(In("low") \cup In("none"))
         /\ Cardinality(In("medium") \cup (In("low") \cup In("none")))
              = Cardinality(In("medium")) + Cardinality(In("low") \cup In("none"))
         /\ Cardinality(In("medium")) \in Nat
    BY <2>8, <2>9, SplitCount
  <2>11. /\ Cardinality(In("low") \cup In("none")) = Cardinality(In("low")) + Cardinality(In("none"))
         /\ Cardinality(In("low")) \in Nat /\ Cardinality(In("none")) \in Nat
    <3>1. IsFiniteSet(In("low") \cup In("none")) /\ In("low") \cap In("none") = {}
      BY <2>8, <2>10
    <3> QED BY <3>1, SplitCount
  <2>12. Cardinality(In("high")) + Cardinality(In("medium")) + Cardinality(In("low")) + Cardinality(unrated)
           = Cardinality(valued)
    BY <2>6, <2>9, <2>10, <2>11
  <2> QED BY <2>2, <2>12 DEF SummaryAddsUp, unrated, valued
<1> QED BY <1>1, TypeCorrect, PTL
====
