---- MODULE FieldRun ----
(***************************************************************************)
(* One extraction by the coordinator: a schema is validated when it is     *)
(* uploaded and loaded when the job runs; then every applicable playbook   *)
(* is walked over every document, the specialist of its category corrects  *)
(* the outcome, and it is published; at the end all outcomes are           *)
(* reconciled.  The LLM, the critique and retrieval answer anything.       *)
(***************************************************************************)
EXTENDS Reconciliation, PlaybookCompiler

CONSTANTS
    Jobs,        \* [schema, docs, property, uses]; schema is NoSchema or
                 \* [flaws, entries], docs the sorted labels, uses the matches of
                 \* each property type in the base lease, none if it is not readable
    LlmValues,   \* bound: the values the LLM may give for a field
    OtherWords   \* bound: what the LLM may answer instead of YES, NO and UNKNOWN

VARIABLES
    builtin,     \* what get_playbooks has read, once for the process
    at,          \* where the job is
    job,
    books,       \* the playbooks of the run
    property,    \* effective_property_type
    cell,        \* the number of the field and document it is working on
    walk,        \* the walk of its playbook
    facts,       \* shared_facts: values of the base lease by field
    noRecovery,  \* shared_facts["_cam_structure"]: the documents with "No Recovery"
    outcomes,    \* all_outcomes
    saved,       \* what on_result was given
    report,      \* the reconciliation report
    final        \* final_results, as the caller gets them

given == <<job, builtin>>
vars == <<at, given, books, property, cell, walk, facts, noRecovery, outcomes, saved, report, final>>

NoSchema == [flaws |-> {}, entries |-> <<>>]
NoReport == [low |-> {}, review |-> {}, flagged |-> {}, conflicts |-> {}, codes |-> {}]
BaseLease == "base_lease"
NoRecovery == "No Recovery"
InheritingFields ==
    {"cam_inclusion", "cam_exclusion", "caps_on_cam", "gross_up", "base_year", "base_year_amount"}

\* The playbooks of a run, of those read at first.
BooksOf(schema, read) == IF schema = NoSchema THEN read ELSE Load(schema, read)

\* Playbooks are a dictionary, their questions a list, and the places of those of a
\* category are apart: the sort by name is stable.
Placed(pbs) ==
    /\ IsFiniteSet(DOMAIN pbs)
    /\ \A p \in DOMAIN pbs : /\ pbs[p].category \in Nat /\ pbs[p].name \in Nat
                             /\ pbs[p].questions \in Seq(Range(pbs[p].questions))
    /\ \A p, q \in DOMAIN pbs : pbs[p].category = pbs[q].category /\ pbs[p].name = pbs[q].name => p = q

\* Labels are the keys of a dictionary.
ASSUME JobsAssumption ==
    \A j \in Jobs : /\ j.docs \in Seq(Range(j.docs)) /\ IsInjective(j.docs)
                    /\ j.schema.entries \in Seq(Range(j.schema.entries))
                    /\ Placed(Compiled) /\ Placed(BooksOf(j.schema, Compiled))

Fields == Order(books, property)
Cells == Len(Fields) * Len(job.docs)
FieldOf(n) == Fields[((n - 1) \div Len(job.docs)) + 1]
PlaceOf(n) == ((n - 1) % Len(job.docs)) + 1
Field == FieldOf(cell)
Label == job.docs[PlaceOf(cell)]
Book == books[Field]

----------------------------------------------------------------------------

\* _validate_or_raise
Refused(schema) == schema # NoSchema /\ Errors(schema, builtin) # {}

\* The upload endpoints refuse a schema with errors.
Upload ==
    /\ at = "upload"
    /\ at' = IF Refused(job.schema) THEN "refused" ELSE "queued"
    /\ UNCHANGED <<given, books, property, cell, walk, facts, noRecovery, outcomes, saved, report, final>>

Text == INSTANCE DocumentText WITH MaxPages <- 0

\* The property type: the one given, else what the base lease is taken for, else Office.
Effective ==
    IF job.property # "Unknown" THEN job.property
    ELSE IF BaseLease \in Range(job.docs) /\ Text!PropertyType(job.uses) # "Unknown"
    THEN Text!PropertyType(job.uses)
    ELSE "Office"

\* Coordinator.run up to the specialists.
Start ==
    /\ at = "queued"
    /\ books' = BooksOf(job.schema, builtin)
    /\ property' = Effective
    /\ cell' = 0
    /\ at' = "next"
    /\ UNCHANGED <<given, walk, facts, noRecovery, outcomes, saved, report, final>>

\* The next field and document, or the end of the loop.
NextCell ==
    /\ at = "next"
    /\ IF cell < Cells
       THEN /\ cell' = cell + 1
            /\ walk' = Begun(books[FieldOf(cell + 1)])
            /\ at' = "walk"
       ELSE at' = "reconcile" /\ UNCHANGED <<cell, walk>>
    /\ UNCHANGED <<given, books, property, facts, noRecovery, outcomes, saved, report, final>>

\* What the samples of a question may be: the answer is any text, in capitals.  A vote
\* does not look at what they say of snippets and months.
Answers == {"YES", "NO", "UNKNOWN"} \cup OtherWords
Values(f) == LlmValues[f] \cup {Null}
Samples(q, f) ==
    LET r == [answer : Answers, value : Values(f),
              raw : IF q.voted THEN {FALSE} ELSE BOOLEAN,
              monthly : IF q.voted \/ Values(f) \cap DOMAIN FirstNumber = {} THEN {FALSE} ELSE BOOLEAN] \cup {Failed}
    IN IF q.voted THEN [1..3 -> r] ELSE [1..1 -> r]

\* One question: clauses are found or not, the LLM is asked, the walk goes on.
Ask ==
    /\ at = "walk" /\ Walking(Book, walk)
    /\ LET q == Question(Book, walk)
       IN \E samples \in Samples(q, Field), hits \in BOOLEAN :
            walk' = After(Book, walk, Reply(q, samples), hits)
    /\ UNCHANGED <<at, given, books, property, cell, facts, noRecovery, outcomes, saved, report, final>>

----------------------------------------------------------------------------
(* post_process of the specialist, by category *)

\* Both facts are there and parse.
TermDerived == {LCD, LED} \subseteq DOMAIN facts /\ {facts[LCD], facts[LED]} \subseteq DOMAIN Dates

\* BasicInfoAgent: a must-have is reviewed, the term derived, a lease is dated or undated.
BasicInfo(r) ==
    LET blank == r.value = NoneText
        checked == IF blank /\ Field \in {"tenant_name", "landlord_name"}
                   THEN [r EXCEPT !.review = TRUE, !.flagged = TRUE] ELSE r
    IN CASE blank /\ Field = "lease_date" -> [checked EXCEPT !.value = Undated]
         [] blank /\ Field = TermField /\ Label = BaseLease /\ TermDerived ->
              [checked EXCEPT !.value = Derived, !.raw = TRUE, !.conf = 85]
         [] ~blank /\ Book.dated /\ r.value \in DOMAIN Dates -> [checked EXCEPT !.value = Dates[@].text]
         [] OTHER -> checked

\* FinancialAgent: an amount without a snippet is not trusted.
Financial(r) ==
    IF Book.amount /\ r.value # NoneText /\ ~r.raw THEN [r EXCEPT !.conf = Min({60, @})] ELSE r

Inherits(r) == Field \in InheritingFields /\ Label \in noRecovery /\ r.value = NoneText

\* ReimbursementAgent
Reimbursement(r) == IF Inherits(r) THEN [r EXCEPT !.value = NoRecovery] ELSE r

\* The other two only cap the length of clauses and add notes.
PostProcess(r) ==
    CASE Book.category = 1 -> BasicInfo(r)
      [] Book.category = 2 -> Financial(r)
      [] Book.category = 3 -> Reimbursement(r)
      [] OTHER -> r

\* Mutant of Emitted: the result is given to on_result before it is corrected.
EmittedEarly(r) == r

\* The result given to on_result is the corrected one.
Emitted(r) == PostProcess(r)

\* The outcome is corrected, published to the facts if it is of the base lease, and
\* given to on_result.
Publish(r) ==
    LET fixed == PostProcess(r)
        Row(o) == [field |-> Field, doc |-> PlaceOf(cell), value |-> o.value, times12 |-> o.times12,
                   conf |-> o.conf, clause |-> o.clause, review |-> o.review, flagged |-> o.flagged]
    IN /\ outcomes' = outcomes \cup {Row(fixed)}
       /\ saved' = saved \cup {Row(Emitted(r))}
       /\ facts' = IF fixed.value # NoneText /\ Label = BaseLease
                   THEN [f \in DOMAIN facts \cup {Field} |-> IF f = Field THEN fixed.value ELSE facts[f]]
                   ELSE facts
       /\ noRecovery' = IF Book.category = 3 /\ Field = "cam" /\ r.value = NoRecovery
                        THEN noRecovery \cup {Label} ELSE noRecovery
       /\ walk' = NoWalk
       /\ at' = "next"
       /\ UNCHANGED <<given, books, property, cell, report, final>>

\* critique: it never raises.  A call that fails or says nothing is a failed one.
Verdicts == {"failed", "supported", "refuted"}

\* The end of a walk: the result, its critique if it wants one.
Conclude ==
    /\ at = "walk" /\ ~Walking(Book, walk)
    /\ \E found \in BOOLEAN, verdict \in Verdicts :
         LET r == IF Book.questions = <<>> THEN Nothing ELSE Outcome(Book, walk, found)
         IN Publish(IF WantsCritique(Book, r) THEN Critiqued(r, verdict) ELSE r)

\* The executor raises: the field is reported as None, the run goes on.
Raise == at = "walk" /\ Publish(AgentError)

----------------------------------------------------------------------------

\* Mutant of BaseOutcomes: of any document.
AllOutcomes == outcomes

\* _per_field_map of the base lease
BaseOutcomes == {o \in outcomes : job.docs[o.doc] = BaseLease}

\* The end of Coordinator.run.  The derived fields are shown with the base lease, or
\* with the first document.
Reconcile ==
    /\ at = "reconcile"
    /\ report' = Report(outcomes)
    /\ final' = LET derived == Derivations(BaseOutcomes)
                    Own(o) == {p \in outcomes : p.doc = o.doc}
                    Home == IF BaseLease \in Range(job.docs)
                            THEN CHOOSE d \in DOMAIN job.docs : job.docs[d] = BaseLease ELSE 1
                IN {[field |-> o.field, doc |-> o.doc, value |-> o.value, conf |-> o.conf, sources |-> {},
                     notes |-> Notes(Own(o), o.field, derived)] : o \in outcomes}
                   \cup {[field |-> d.field, doc |-> Home, value |-> d.value, conf |-> d.conf,
                          sources |-> d.sources, notes |-> {}] : d \in derived}
    /\ at' = "done"
    /\ UNCHANGED <<given, books, property, cell, walk, facts, noRecovery, outcomes, saved>>

Init ==
    /\ job \in Jobs
    /\ at = "upload"
    /\ builtin = Compiled
    /\ books = builtin
    /\ property = "Unknown"
    /\ cell = 0
    /\ walk = NoWalk
    /\ facts = [f \in {} |-> NoneText]
    /\ noRecovery = {}
    /\ outcomes = {}
    /\ saved = {}
    /\ report = NoReport
    /\ final = {}

Next == Upload \/ Start \/ NextCell \/ Ask \/ Conclude \/ Raise \/ Reconcile

Spec == Init /\ [][Next]_vars

\* A run goes on unless its worker is lost, which is the matter of Extraction.
FairSpec == Spec /\ WF_vars(Next)

----------------------------------------------------------------------------
(* Correctness *)

\* Every variable keeps its type.
TypeOK ==
    /\ job \in Jobs
    /\ at \in {"upload", "refused", "queued", "next", "walk", "reconcile", "done"}
    /\ cell \in 0..Cells
    /\ walk.steps \in 0..MaxSteps
    /\ \A o \in outcomes : o.field \in DOMAIN books /\ o.doc \in 1..Len(job.docs) /\ o.conf \in 0..100
    /\ noRecovery \subseteq Range(job.docs)
    /\ DOMAIN facts \subseteq DOMAIN books

\* Every run ends: the walk of a playbook is left after MAX_STEPS questions, whatever
\* its branches (playbook_executor.py:174).
EveryRunEnds == <>(at \in {"refused", "done"})

Reported(f) == \A d \in DOMAIN job.docs : \E o \in outcomes : o.field = f /\ o.doc = d
InGuides == {Alias[h] : h \in DOMAIN Alias \cap UNION {{Guides[n].lines[i].heading : i \in Headings(Guides[n].lines)} : n \in DOMAIN Guides}}

\* A run with a schema has an outcome for each of its fields and each document, unless the
\* field's questions lack a priority, its category is none of the specialists' or it does
\* not apply to the property (playbook_loader.py:49-51).
SchemaIsCovered ==
    at = "done" /\ job.schema # NoSchema =>
      \A i \in DOMAIN job.schema.entries :
        LET e == job.schema.entries[i]
            pb == IF e.kind = "reference" THEN builtin[e.id] ELSE e.book
        IN \/ \E j \in DOMAIN pb.questions : ~pb.questions[j].priority
           \/ pb.category = 0 \/ ~Applies(pb, property)
           \/ Reported(e.id)

\* A run without a schema has an outcome for each document and each field that a guide or
\* the sheet names and that applies (compiler.py:618-720).
BuiltinIsCovered ==
    at = "done" /\ job.schema = NoSchema =>
      \A f \in InGuides \cup {FieldOfName(Sheet[i].field) : i \in DOMAIN Sheet} :
        f \in DOMAIN builtin /\ (Applies(builtin[f], property) => Reported(f))

\* An answer that two samples gave wins a vote.  YES wins only with more samples than NO
\* and than UNKNOWN.  A tie with any other word goes to it, so one YES wins if the other two
\* samples failed or said other words: lines 501 and 895-896 promise more.  The value that
\* the winner comes with is one that a sample of that answer gave (playbook_executor.py:495-502).
VotesAreMajorities ==
    at = "walk" /\ Walking(Book, walk) /\ Question(Book, walk).voted =>
      \A samples \in Samples(Question(Book, walk), Field) :
        LET r == Reply(Question(Book, walk), samples)
        IN /\ \A a \in Answers : Votes(samples, a) >= 2 => r.answer = a
           /\ r.answer = "YES" =>
                /\ \A a \in {"NO", "UNKNOWN"} : Votes(samples, "YES") > Votes(samples, a)
                /\ \A a \in OtherWords : Votes(samples, "YES") >= Votes(samples, a)
           /\ r.value # Null =>
                \E i \in 1..3 : samples[i].answer = r.answer /\ samples[i].value # Null
                                  /\ Canonical[samples[i].value] = r.value

\* A value the critique refuted does not end above what the grid shows as low, and
\* the report and the API both name its field (critique_agent.py:200-212).
RefutedIsShown ==
    at = "done" => \A o \in outcomes :
      o.flagged /\ o.review /\ o.value \notin {NoneText, Undated, NoRecovery, Derived} =>
        /\ o.conf < 50 /\ o.field \in report.low \cap report.review
        /\ o.field \in RedFlags(saved).low \cap RedFlags(saved).review

\* What the pipeline saved, which a polling client sees before the run is over.
Value(f, d) == (CHOOSE o \in saved : o.field = f /\ o.doc = d).value
Has(f) == f \in Range(Fields)
Needed(f) == books[f].category = 1 /\ books[f].name < books[TermField].name

\* What a playbook and the LLM may say of a field themselves, and the numbers in that.
Spoken(f) ==
    LlmValues[f] \cup {Canonical[v] : v \in LlmValues[f]}
      \cup UNION {{q.yes.literal, q.no.literal} : q \in Range(books[f].questions)}
Sayable(f) == Spoken(f) \cup {FirstNumber[t] : t \in Spoken(f) \cap DOMAIN FirstNumber}

\* A field that depends on others is saved with a value from them if it comes after them by
\* name: the term of a base lease without one of its own, and the reimbursements of a
\* document whose CAM is "No Recovery" (basic_info.py:42-52, reimbursement.py:28-39).
\* Depending on a field that comes later does nothing (base.py:77), and what on_result
\* saves is never corrected afterwards (coordinator.py:231).  A term is derived if and only
\* if both dates are dates as they are saved, and those of the built-in playbooks, cut to
\* their first number, are not (playbook_executor.py:600).
DependentsFollow ==
    at = "done" =>
      /\ \A d \in DOMAIN job.docs :
           /\ Has(TermField) /\ Has(LCD) /\ Has(LED) /\ job.docs[d] = BaseLease
           /\ books[TermField].category = 1 /\ Needed(LCD) /\ Needed(LED)
           /\ {Value(LCD, d), Value(LED, d)} \subseteq DOMAIN Dates
           => Value(TermField, d) # NoneText
      /\ \A d \in DOMAIN job.docs :
           /\ Has(TermField) /\ books[TermField].category = 1
           /\ Value(TermField, d) = Derived /\ Derived \notin Sayable(TermField)
           => /\ Has(LCD) /\ Has(LED) /\ job.docs[d] = BaseLease
              /\ {Value(LCD, d), Value(LED, d)} \subseteq DOMAIN Dates
      /\ \A f \in InheritingFields, d \in DOMAIN job.docs :
           Has(f) /\ Has("cam") /\ books[f].category = 3 /\ books["cam"].category = 3 =>
             /\ Value(f, d) = NoneText /\ Value("cam", d) = NoRecovery =>
                  books[f].name < books["cam"].name
             /\ Value(f, d) = NoRecovery /\ NoRecovery \notin Sayable(f) => Value("cam", d) = NoRecovery

\* The two date checks agree on dates of one year and of one document that are saved as
\* MM/DD/YYYY texts: the report compares dates, the API texts (reconciliation_agent.py:189,
\* abstraction.py:263).  Of other values, the numbers of the built-in dates among them, the
\* API may say that a lease expires before it commences when the report finds nothing.
Written == {t \in DOMAIN Dates : Dates[t].text = t}
DateChecksAgree ==
    at = "done" /\ Len(job.docs) = 1 /\ BothDates(outcomes)
      /\ Told(outcomes, LED) \cup Told(outcomes, LCD) \subseteq Written
      /\ FirstDate(outcomes, LED).year = FirstDate(outcomes, LCD).year
    => DateVerdicts(saved) = {"DATE_INCONSISTENCY" \in report.codes}

\* A derived field is made of values of the base lease that are values indeed, and the
\* fields of the base lease that it is made of say so (coordinator.py:316-323).  An
\* amendment's field says so too, although its value is not used.
DerivedFromBaseLease ==
    \A d \in final : d.sources # {} =>
      \A f \in d.sources :
        /\ \E o \in final : /\ o.field = f /\ job.docs[o.doc] = BaseLease /\ o.value # NoneText
                            /\ "feeds" \in o.notes /\ "overridden" \notin o.notes
                            /\ d.field = "canonical_commencement_date" => d.value = o.value
        /\ \E s \in saved : s.field = f /\ s.doc = d.doc
====
