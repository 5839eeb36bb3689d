---- MODULE Reconciliation ----
(***************************************************************************)
(* What is computed from the outcomes of a finished run: the report of the *)
(* reconciliation agent, the derived fields and the notes on them; and the *)
(* red flags the API computes later from the stored values.                *)
(*                                                                         *)
(* An outcome is [field, doc, value, conf, review, flagged], and doc is the *)
(* place of the document, 1 for the base lease if there is one.            *)
(***************************************************************************)
EXTENDS PlaybookWalk

CONSTANTS
    Dates,    \* the texts that parse as dates: [text, year, day], where text is the
              \* MM/DD/YYYY text and day a count of days
    Terms,    \* the texts that parse as a number of years, in tenths
    Rank      \* the place of each text in Python's order of texts

Derived == "derived"        \* the years between LCD and LED, as text

\* The MM/DD/YYYY texts of a year are in the order of its days.
ASSUME DatesAssumption ==
    /\ NoneText \notin DOMAIN Dates
    /\ \A t, u \in DOMAIN Dates :
         /\ Dates[t].text \notin {NoneText, Derived}
         /\ Dates[t].year = Dates[u].year =>
              (Dates[t].day < Dates[u].day <=> Rank[Dates[t].text] < Rank[Dates[u].text])

LED == "lease_expiration_date"
LCD == "original_lease_commencement_date"
TermField == "lease_term_yrs"
Undated == "undated"

Of(outcomes, f) == {o \in outcomes : o.field = f}
Told(outcomes, f) == {o.value : o \in Of(outcomes, f)} \ {NoneText}

\* round(days / 365.25, 1), in tenths
Tenths(days) == (40 * days + 730) \div 1461

----------------------------------------------------------------------------
(* ReconciliationAgent.run *)

Low(outcomes) == {o \in outcomes : o.conf \in 1..49}

\* _check_value_consistency, of three fields.
Conflicts(outcomes) ==
    {f \in {"leased_rsf", "suite", "tenant_name"} : Cardinality(Told(outcomes, f)) > 1}

\* _first_date: of the first document that has one.
HasDate(outcomes, f) == \E o \in Of(outcomes, f) : o.value \in DOMAIN Dates
FirstDate(outcomes, f) ==
    Dates[(CHOOSE o \in Of(outcomes, f) :
             /\ o.value \in DOMAIN Dates
             /\ \A p \in Of(outcomes, f) : p.value \in DOMAIN Dates => o.doc <= p.doc).value]

BothDates(outcomes) == HasDate(outcomes, LED) /\ HasDate(outcomes, LCD)

\* _check_date_ordering
ExpiresFirst(outcomes) ==
    BothDates(outcomes) /\ FirstDate(outcomes, LED).day < FirstDate(outcomes, LCD).day

\* _check_lease_term_math: of the first document's term, with a tolerance of half a
\* year.  A derived term is the same difference.
TermMismatch(outcomes) ==
    /\ BothDates(outcomes)
    /\ \E o \in Of(outcomes, TermField) :
         /\ \A p \in Of(outcomes, TermField) : o.doc <= p.doc
         /\ o.value \in DOMAIN Terms
         /\ LET gap == Terms[o.value] - Tenths(FirstDate(outcomes, LED).day - FirstDate(outcomes, LCD).day)
            IN gap \notin -5..5

\* _check_rent_changes
RentChanges(outcomes) == Cardinality(Told(outcomes, "annual_base_rent")) > 1

\* The report: which fields are named for low confidence and for review, and which of
\* the checks raise a flag.
Report(outcomes) ==
    [low |-> {o.field : o \in Low(outcomes)},
     review |-> {o.field : o \in {o \in outcomes : o.review}},
     flagged |-> {o.field : o \in {o \in outcomes : o.flagged}},
     conflicts |-> Conflicts(outcomes),
     codes |-> {c \in {"DATE_INCONSISTENCY"} : ExpiresFirst(outcomes)}
               \cup {c \in {"LEASE_TERM_MATH_MISMATCH"} : TermMismatch(outcomes)}
               \cup {c \in {"RENT_CHANGE_ACROSS_DOCS"} : RentChanges(outcomes)}]

----------------------------------------------------------------------------
(* derived_fields.py, of the base lease *)

StartDates ==
    <<LCD, "term_commencement_date", "rent_commencement_date", "most_recent_lease_start">>

\* _is_real_value
Real(base, f) == \E o \in Of(base, f) : o.value \notin NoneTexts \cup {Null, "n/a", "unknown", "not found"}

\* derive_canonical_commencement_date: the field it is taken from, if there is one.
CommencementSource(base) ==
    LET real == {n \in DOMAIN StartDates : Real(base, StartDates[n])}
    IN {StartDates[n] : n \in {n \in real : \A m \in real : n <= m}}

\* derive_property_address: the parts it is composed of.
AddressSources(base) == {f \in {"street_address", "city", "state"} : Real(base, f)}

\* derive_all: the date is its source's, the address has the best of the confidences.
Derivations(base) ==
    {[field |-> "canonical_commencement_date", sources |-> {o.field}, value |-> o.value, conf |-> o.conf] :
       o \in {o \in base : o.field \in CommencementSource(base)}}
    \cup {[field |-> "property_address", sources |-> S, value |-> Derived,
           conf |-> Max({o.conf : o \in {p \in base : p.field \in S}})] : S \in {AddressSources(base)} \ {{}}}

\* cross_field_notes_for: of a field of a document, whose own outcomes are own.
Notes(own, f, derived) ==
    {n \in {"feeds"} : \E d \in derived : f \in d.sources}
    \cup {n \in {"overridden"} : /\ f \in Range(StartDates) /\ Real(own, f)
                                 /\ \E d \in derived : d.field = "canonical_commencement_date" /\ f \notin d.sources}

----------------------------------------------------------------------------
(* detect_red_flags, of the stored values *)

\* _first_value: the rows come in no particular order, so any value may be first.
FirstValues(cells, f) == Told(cells, f)

\* Mutant of Precedes: one that is the same precedes too.
PrecedesOrIs(led, lcd) == Rank[led] <= Rank[lcd]

\* led < lcd: the stored texts are compared as texts, whatever they say.
Precedes(led, lcd) == Rank[led] < Rank[lcd]

\* What the DATE_INCONSISTENCY check may say.
DateVerdicts(cells) ==
    {Precedes(led, lcd) : led \in FirstValues(cells, LED), lcd \in FirstValues(cells, LCD)}

\* The other flags: those of the playbooks, reviews, conflicts, low confidence.
RedFlags(cells) ==
    [flagged |-> {c.field : c \in {c \in cells : c.flagged}},
     review |-> {c.field : c \in {c \in cells : c.review}},
     conflicts |-> {f \in {"leased_rsf", "rentable_square_footage_rsf", "suite", "tenant_name"} :
                      Cardinality(Told(cells, f)) > 1},
     low |-> {c.field : c \in {c \in cells : c.conf \in 1..49}}]
====
