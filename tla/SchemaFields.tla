---- MODULE SchemaFields ----
(***************************************************************************)
(* From an uploaded schema to the playbooks a run executes: the validator, *)
(* the loader, and which of the loaded playbooks apply to a property.      *)
(*                                                                         *)
(* An entry of a schema is [kind, id, override, flaws, book], where kind   *)
(* is "reference", "inline" or "other", flaws is the set of error codes    *)
(* from checks that look at one text or one type (formats, missing texts,  *)
(* allowed values), and book is the playbook of an inline entry:           *)
(* [id, name, category, gate, output, amount, dated, checked, questions],  *)
(* where name is the place of its field_name in alphabetical order, of     *)
(* equal ones in the order of the dictionary, for the sort is stable, gate *)
(* the property types for which its applicability is true, Open if it has  *)
(* none, output "currency", "number" or "text" for its output_type, and    *)
(* dated whether its field_name says "Date".                               *)
(* A question is [id, priority, voted, redFlag, yes, no]: priority is TRUE *)
(* if the key is there.  A branch is [type, goto, literal].                *)
(***************************************************************************)
EXTENDS Integers, FiniteSets, Sequences

Null == "null"              \* Python's None
NoBranch == [type |-> "no_branch", goto |-> Null, literal |-> Null]
Open == {"any"}
BranchTypes == {"extract", "literal", "goto", "none"}
Branches(q) == {q.yes, q.no} \ {NoBranch}

----------------------------------------------------------------------------
(* validate_extraction_schema *)

\* The entries that add their id to seen_field_ids.
Counted(entries, builtin) ==
    {i \in DOMAIN entries :
       \/ entries[i].kind = "reference" /\ entries[i].id \in DOMAIN builtin
       \/ entries[i].kind = "inline" /\ entries[i].id # Null}

Repeated(entries, builtin, i) ==
    \E j \in Counted(entries, builtin) : j < i /\ entries[j].id = entries[i].id

\* _validate_reference_field
ReferenceErrors(entries, builtin, i) ==
    LET e == entries[i]
    IN IF e.id = Null THEN {"MISSING"}
       ELSE IF e.id \notin DOMAIN builtin THEN {"UNKNOWN_PLAYBOOK"}
       ELSE {c \in {"DUPLICATE_FIELD"} : Repeated(entries, builtin, i)}

\* The questions of _validate_inline_field.  A goto is looked at and let pass.
QuestionErrors(questions) ==
    {c \in {"DUPLICATE"} : \E j, k \in DOMAIN questions : j # k /\ questions[j].id = questions[k].id}
    \cup {c \in {"INVALID_VALUE"} :
            \E j \in DOMAIN questions : \E b \in Branches(questions[j]) : b.type \notin BranchTypes}

\* _validate_inline_field
InlineErrors(entries, builtin, i) ==
    LET e == entries[i]
    IN IF e.id = Null THEN {"MISSING"}
       ELSE e.flaws
              \cup {c \in {"DUPLICATE_FIELD"} : Repeated(entries, builtin, i)}
              \cup {c \in {"COLLIDES_WITH_BUILTIN"} : e.id \in DOMAIN builtin /\ ~e.override}
              \cup (IF e.book.questions = <<>> THEN {"MISSING_OR_EMPTY"}
                    ELSE QuestionErrors(e.book.questions))

\* validate_extraction_schema: the codes of its errors.  flaws are those of the
\* document's own keys (schema_id, name, version, default_property_type).
Errors(doc, builtin) ==
    doc.flaws
      \cup {c \in {"FIELDS_MISSING_OR_EMPTY"} : doc.entries = <<>>}
      \cup UNION {CASE doc.entries[i].kind = "reference" -> ReferenceErrors(doc.entries, builtin, i)
                    [] doc.entries[i].kind = "inline" -> InlineErrors(doc.entries, builtin, i)
                    [] OTHER -> {"UNKNOWN_FIELD_SHAPE"} : i \in DOMAIN doc.entries}

----------------------------------------------------------------------------
(* load_playbooks_for_schema *)

\* _playbook_from_dict raises KeyError for a question without a priority, which
\* the validator does not ask for.
Materialises(e) == \A j \in DOMAIN e.book.questions : e.book.questions[j].priority

\* Mutant of Loads: inline fields are dropped.
LoadsReferences(e, builtin) == e.kind = "reference" /\ e.id \in DOMAIN builtin

\* The entries that are not skipped.
Loads(e, builtin) ==
    \/ e.kind = "reference" /\ e.id \in DOMAIN builtin
    \/ e.kind = "inline" /\ Materialises(e)

\* The playbooks by id, a later entry replacing an earlier one; without a schema all
\* the built-in ones.  An override patches the built-in one: the validator makes sure
\* that it names its own field_name, category and questions.
Load(doc, builtin) ==
    LET loaded == {i \in DOMAIN doc.entries : Loads(doc.entries[i], builtin)}
        LastOf(id) == CHOOSE i \in loaded : doc.entries[i].id = id
                        /\ \A j \in loaded : doc.entries[j].id = id => j <= i
    IN [id \in {doc.entries[i].id : i \in loaded} |->
          LET e == doc.entries[LastOf(id)]
          IN IF e.kind = "reference" THEN builtin[id] ELSE e.book]

----------------------------------------------------------------------------
(* applicable_playbooks *)

Commercial == {"Retail", "Industrial", "Office"}

\* The property gate: Mixed-Use is any of the others.  abstract_type is not looked at.
Applies(pb, property) ==
    \/ pb.gate = Open
    \/ property \in pb.gate
    \/ property = "Mixed-Use" /\ pb.gate \cap Commercial # {}

\* The specialists run in order, each its category, by name; depends_on is not looked
\* at.  Categories are the places of SPECIALIST_ORDER; 0 is any other text, which no
\* specialist has.
Selected(books, property) == {id \in DOMAIN books : books[id].category # 0 /\ Applies(books[id], property)}

Before(p, q) == p.category < q.category \/ (p.category = q.category /\ p.name < q.name)

Order(books, property) ==
    LET S == Selected(books, property)
    IN [n \in 1..Cardinality(S) |->
          CHOOSE id \in S : Cardinality({o \in S : Before(books[o], books[id])}) = n - 1]
====
