---- MODULE PlaybookCompiler ----
(***************************************************************************)
(* The built-in playbooks, compiled from the guides and a sheet of         *)
(* questions.  A guide is [category, lines].  A line is                    *)
(*   [kind |-> "section", number], 2 or 3, where 2 begins the questions;   *)
(*   [kind |-> "field", heading, gate], gate Open if the heading says none;*)
(*   [kind |-> "question", number, said, asks]: whether a text follows the *)
(*     number, and whether it asks for an amount, a date or the like;      *)
(*   [kind |-> "yes" or "no", says, goto]: what a branch's text mentions,  *)
(*     and the question it goes to, or 0.                                  *)
(* Other lines make no difference.  A row of the sheet is                  *)
(* [field, main, priority, votable, asks, redFlag], where priority is 0 if *)
(* there is none, and main is 0 for an unknown category.                   *)
(***************************************************************************)
EXTENDS SchemaFields, FiniteSetsExt, SequencesExt

CONSTANTS
    Guides,      \* in the order of DOCX_CATEGORY
    Sheet,       \* the rows of Questions.xlsx that name a field
    Alias,       \* DOCX_FIELD_ALIASES
    Traits       \* of a field, from its name and its output and property types:
                 \* [name, gate, output, amount, dated, checked]

ASSUME GuidesAssumption ==
    /\ Guides \in Seq(Range(Guides)) /\ Sheet \in Seq(Range(Sheet))
    /\ \A n \in DOMAIN Guides : Guides[n].category # 0 /\ Guides[n].lines \in Seq(Range(Guides[n].lines))

\* A field whose name is a heading too, as "Building" is, is the field of that heading.
ASSUME AliasAssumption == \A h \in DOMAIN Alias : Alias[h] \in DOMAIN Alias => Alias[Alias[h]] = Alias[h]

Id(n) == "Q" \o ToString(n)
OtherClauses == 5

Action(type, goto, literal) == [type |-> type, goto |-> goto, literal |-> literal]
ExtractAndEnd == Action("extract", Null, Null)
RecordNone == Action("none", Null, Null)

----------------------------------------------------------------------------
(* _extract_field_blocks *)

Sections(lines, n) == {i \in DOMAIN lines : lines[i].kind = "section" /\ lines[i].number = n}

\* The headings between SECTION 2 and SECTION 3.
Headings(lines) ==
    {i \in DOMAIN lines :
       /\ lines[i].kind = "field"
       /\ \E s \in Sections(lines, 2) : s < i /\ \A e \in Sections(lines, 3) : e < s \/ i < e}

\* The lines below a heading, up to the next one or SECTION 3.
Below(lines, i) ==
    LET ends == {j \in Headings(lines) \cup Sections(lines, 3) : j > i}
    IN SubSeq(lines, i + 1, Min(ends \cup {Len(lines) + 1}) - 1)

\* blocks: a heading that comes again keeps its place, with the later lines.
Same(lines, i) == {j \in Headings(lines) : lines[j].heading = lines[i].heading}

Block(lines, i) ==
    LET last == Max(Same(lines, i))
    IN [gate |-> lines[last].gate, lines |-> Below(lines, last)]

----------------------------------------------------------------------------
(* _parse_question_stream *)

Said(b) == {i \in DOMAIN b : b[i].kind = "question" /\ b[i].said}

\* A record is appended at the next question and at the end; a question without a text
\* begins none, and the one before it is appended again.
Records(b) ==
    LET Current(i) == {j \in Said(b) : j < i}
        stops == {i \in DOMAIN b : b[i].kind = "question"} \cup {Len(b) + 1}
        order == SetToSortSeq({i \in stops : Current(i) # {}}, <)
    IN [n \in DOMAIN order |-> Max(Current(order[n]))]

\* _action_from_branch_text
ActionOf(line) ==
    IF "review" \in line.says THEN Action("flag", Null, Null)
    ELSE IF "undated" \in line.says THEN Action("literal", Null, "undated")
    ELSE IF "no recovery" \in line.says THEN Action("literal", Null, "No Recovery")
    ELSE IF "none" \in line.says THEN RecordNone
    ELSE IF line.goto # 0 THEN Action(IF "extract" \in line.says THEN "extract" ELSE "goto", Id(line.goto), Null)
    ELSE IF "extract" \in line.says THEN ExtractAndEnd
    ELSE Action("finalize", Null, Null)

\* The last branch of a kind below the question at i counts.
BranchBelow(b, i, kind) ==
    LET own == {j \in DOMAIN b : j > i /\ b[j].kind = kind /\ ~\E k \in Said(b) : i < k /\ k < j}
    IN IF own = {} THEN NoBranch ELSE ActionOf(b[Max(own)])

----------------------------------------------------------------------------
(* _load_questions_xlsx and _compile_one_playbook *)

\* The rows of a field by priority, those without one last.
Rows(field) ==
    LET Earlier(i, j) ==
          LET p == Sheet[i].priority  q == Sheet[j].priority
          IN IF p = q THEN i < j ELSE p # 0 /\ (q = 0 \/ p < q)
        order == SetToSortSeq({i \in DOMAIN Sheet : Sheet[i].field = field}, Earlier)
    IN [n \in DOMAIN order |-> Sheet[order[n]]]

\* A question of a guide, with what the row of its number adds: the last such row.
GuideQuestion(field, b, i) ==
    LET rows == SelectSeq(Rows(field), LAMBDA r : r.priority = b[i].number)
    IN [id |-> Id(b[i].number), priority |-> TRUE,
        voted |-> b[i].asks \/ (rows # <<>> /\ Last(rows).votable),
        redFlag |-> rows # <<>> /\ Last(rows).redFlag,
        yes |-> BranchBelow(b, i, "yes"), no |-> BranchBelow(b, i, "no")]

\* A question of the sheet alone.
SheetQuestion(row, n) ==
    [id |-> Id(IF row.priority = 0 THEN n ELSE row.priority), priority |-> TRUE,
     voted |-> row.votable \/ row.asks, redFlag |-> row.redFlag, yes |-> ExtractAndEnd, no |-> RecordNone]

\* "Does the lease contain any clause relating to ...?"
DefaultQuestion ==
    [id |-> Id(1), priority |-> TRUE, voted |-> FALSE, redFlag |-> FALSE, yes |-> ExtractAndEnd, no |-> RecordNone]

SheetQuestions(field) == [n \in DOMAIN Rows(field) |-> SheetQuestion(Rows(field)[n], n)]

\* The guide's questions, or else the sheet's, or else the default one.
QuestionsOf(field, b) ==
    LET own == [n \in DOMAIN Records(b) |-> GuideQuestion(field, b, Records(b)[n])]
    IN IF own # <<>> THEN own
       ELSE IF Rows(field) # <<>> THEN SheetQuestions(field) ELSE <<DefaultQuestion>>

Playbook(field, category, gate, questions) ==
    [id |-> field, name |-> Traits[field].name, category |-> category,
     gate |-> IF gate = Open THEN Traits[field].gate ELSE gate,
     output |-> Traits[field].output, amount |-> Traits[field].amount, dated |-> Traits[field].dated,
     checked |-> Traits[field].checked, questions |-> questions]

----------------------------------------------------------------------------
(* compile_all *)

\* The first places of the headings of a guide; one that is no alias is skipped.
Places(lines) ==
    {i \in Headings(lines) : lines[i].heading \in DOMAIN Alias /\ \A j \in Same(lines, i) : i <= j}

FieldAt(guide, i) == Alias[guide.lines[i].heading]
FieldsOf(guide) == {FieldAt(guide, i) : i \in Places(guide.lines)}

\* The file of a field that a guide has: that of its last place.
OfGuide(guide, field) ==
    LET b == Block(guide.lines, Max({i \in Places(guide.lines) : FieldAt(guide, i) = field}))
    IN Playbook(field, guide.category, b.gate, QuestionsOf(field, b.lines))

Guided == UNION {FieldsOf(Guides[n]) : n \in DOMAIN Guides}
LastGuide(field) == Guides[Max({n \in DOMAIN Guides : field \in FieldsOf(Guides[n])})]

\* The fields of the sheet that no guide has, by their first rows.
Unguided ==
    {i \in DOMAIN Sheet : /\ Sheet[i].field \notin Guided
                          /\ \A j \in DOMAIN Sheet : Sheet[j].field = Sheet[i].field => i <= j}

\* A name that is a heading is taken for one.
FieldOfName(name) == IF name \in DOMAIN Alias THEN Alias[name] ELSE name

OfSheet(i) ==
    LET main == Rows(Sheet[i].field)[1].main
        field == FieldOfName(Sheet[i].field)
    IN Playbook(field, IF main = 0 THEN OtherClauses ELSE main, Open, QuestionsOf(field, <<>>))

\* Mutant of Compiled: only the fields of the guides are compiled.
CompiledGuides == [field \in Guided |-> OfGuide(LastGuide(field), field)]

\* What get_playbooks reads: the file of a field is the last one written, and those of
\* the sheet are written last.
Compiled ==
    LET Written(field) == {i \in Unguided : FieldOfName(Sheet[i].field) = field}
    IN [field \in Guided \cup {FieldOfName(Sheet[i].field) : i \in Unguided} |->
          IF Written(field) # {} THEN OfSheet(Max(Written(field))) ELSE OfGuide(LastGuide(field), field)]
====
