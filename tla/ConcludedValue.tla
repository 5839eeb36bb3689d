---- MODULE ConcludedValue ----
(***************************************************************************)
(* What the abstraction of a tenant shows for a field: the value concluded *)
(* from the values of its documents and the override, and the summary of   *)
(* all fields.                                                             *)
(*                                                                         *)
(* An input is what one document contributes to a field: its type, order,  *)
(* effective date (0 for none), value, confidence in hundredths, whether a *)
(* clause is cited.  A tenant's orders differ, so inputs are a set.        *)
(***************************************************************************)
EXTENDS Integers, FiniteSets, FiniteSetsExt

CONSTANT AwareDates    \* effective_date is TIMESTAMPTZ (schema.sql), read with its time zone
ASSUME AwareDatesAssumption == AwareDates \in BOOLEAN

Null == "null"              \* Python's None
NoneText == "None"
NoDoc == -1

\* _has_value: a value of spaces only is none.
HasValue(v) == v \notin {Null, NoneText, "", "spaces"}

\* What the summary counts as extracted: it does not strip.
Shown(v) == v \notin {Null, NoneText, ""}

\* The citation and confidence of a document travel with its value.
From(input, value, source, conf) ==
    [value |-> value, source |-> source, conf |-> conf, doc |-> input.order]

Valued(inputs, type) == {i \in inputs : i.type = type /\ HasValue(i.value)}

\* The sort key (effective_date or datetime.min, document_order), descending.
\* datetime.min comes before every date that has no time zone either.
Later(i, j) == i.eff > j.eff \/ (i.eff = j.eff /\ i.order > j.order)

\* Mutant of Latest: the sort is not reversed.
Earliest(S) == CHOOSE i \in S : \A j \in S \ {i} : Later(j, i)

\* amendments[0] after the sort
Latest(S) == CHOOSE i \in S : \A j \in S \ {i} : Later(i, j)

\* The first of the inputs with a clause whose confidence is the highest.
BestFallback(S) ==
    CHOOSE i \in S : \A j \in S \ {i} : i.conf > j.conf \/ (i.conf = j.conf /\ i.order < j.order)

\* datetime.min has no time zone: with a date that has one it cannot be ordered, and
\* whatever a sort compares, of two such groups it has to compare two members.
Incomparable(amendments) == AwareDates /\ \E i, j \in amendments : i.eff = 0 /\ j.eff # 0

\* compute_concluded raises, and nobody catches it: the endpoint answers 500.
TypeError == [value |-> Null, source |-> "TypeError", conf |-> 0, doc |-> NoDoc]

\* Steps 2 to 4 of compute_concluded.
Extracted(inputs) ==
    LET amendments == Valued(inputs, "amendment")
        base == Valued(inputs, "base_lease")
        cited == {i \in inputs : i.clause}
    IN CASE amendments # {} /\ Incomparable(amendments) -> TypeError
         [] amendments # {} /\ ~Incomparable(amendments) ->
              LET top == Latest(amendments)
              IN From(top, top.value, "amendment", top.conf)
         [] amendments = {} /\ base # {} ->
              LET top == CHOOSE i \in base : \A j \in base : i.order <= j.order
              IN From(top, top.value, "base_lease", top.conf)
         [] amendments \cup base = {} /\ cited # {} ->
              From(BestFallback(cited), NoneText, "none", 0)
         [] OTHER -> [value |-> NoneText, source |-> "none", conf |-> 0, doc |-> NoDoc]

Overridden(v) == [value |-> v, source |-> "override", conf |-> 100, doc |-> NoDoc]

\* compute_concluded.  An override row never holds NULL: Null is no row.
Concluded(inputs, override) ==
    IF override # Null THEN Overridden(override) ELSE Extracted(inputs)

\* confidence_band
Band(conf) ==
    CASE conf <= 0 -> "none" [] conf >= 80 -> "high" [] conf \in 50..79 -> "medium" [] OTHER -> "low"

Count(S, b, grid) == Quantify(S, LAMBDA f : Band(grid[f].conf) = b)

\* Mutant of Summary: the bands count the fields without a value too.
SummaryOfAll(grid) ==
    LET extracted == {f \in DOMAIN grid : Shown(grid[f].value)}
    IN [total |-> Cardinality(DOMAIN grid),
        extracted |-> Cardinality(extracted),
        overridden |-> Quantify(DOMAIN grid, LAMBDA f : grid[f].source = "override"),
        bands |-> [b \in {"high", "medium", "low"} |-> Count(DOMAIN grid, b, grid)]]

\* _build_summary, of the fields in scope.
Summary(grid) ==
    LET extracted == {f \in DOMAIN grid : Shown(grid[f].value)}
    IN [total |-> Cardinality(DOMAIN grid),
        extracted |-> Cardinality(extracted),
        overridden |-> Quantify(DOMAIN grid, LAMBDA f : grid[f].source = "override"),
        bands |-> [b \in {"high", "medium", "low"} |-> Count(extracted, b, grid)]]

====
