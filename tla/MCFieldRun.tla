---- MODULE MCFieldRun ----
(* Small instances of FieldRun for TLC: one job for each thing that can happen *)
(* to a schema, a walk or a pair of fields.                                   *)
EXTENDS FieldRun, TLC

TCD == "term_commencement_date"

\* What is said of fields outside their guides: the place of the name in alphabetical
\* order, the property types and the rest.
Trait(name, output, dated) ==
    [name |-> name, gate |-> {"Retail", "Office"}, output |-> output, amount |-> FALSE,
     dated |-> dated, checked |-> FALSE]
MCTraits ==
    ("base_year" :> Trait(1, "number", FALSE)) @@ ("cam" :> Trait(2, "text", FALSE)) @@ ("cam_exclusion" :> Trait(3, "text", FALSE))
      @@ (LED :> Trait(4, "number", TRUE)) @@ (TermField :> Trait(5, "number", FALSE)) @@ (LCD :> Trait(6, "number", TRUE))
      @@ ("annual_base_rent" :> [Trait(7, "number", FALSE) EXCEPT !.amount = TRUE])
      @@ ("street_address" :> [Trait(8, "text", FALSE) EXCEPT !.gate = Open])
      @@ ("tenant_name" :> [Trait(9, "text", FALSE) EXCEPT !.checked = TRUE])
      @@ (TCD :> Trait(10, "number", FALSE)) @@ ("encumbrance" :> Trait(12, "text", FALSE)) @@ ("suite" :> [Trait(13, "text", FALSE) EXCEPT !.gate = Open])

Section(n) == [kind |-> "section", number |-> n]
Heading(h) == [kind |-> "field", heading |-> h, gate |-> Open]
Asking(n) == [kind |-> "question", number |-> n, said |-> TRUE, asks |-> FALSE]
Empty(n) == [Asking(n) EXCEPT !.said = FALSE]
If(kind, says, goto) == [kind |-> kind, says |-> says, goto |-> goto]
Single(h) == <<Heading(h), Asking(1), If("yes", {"extract"}, 0)>>

\* One guide for each category.  A heading that is not known, one after the questions,
\* one that comes twice, one without questions, and a question without a text.
MCGuides ==
    <<[category |-> 1, lines |-> <<Heading("Tenant (T)"), Section(2)>> \o Single("Lease Expiration Date")
         \o Single("Lease Commencement Date") \o Single("Lease Term") \o <<Heading("Tenant (T)"), Asking(4)>>
         \o Single("Preamble") \o <<Heading("Street Address")>> \o Single("Term Commencement Date")
         \o Single("Tenant (T)") \o <<Section(3), Heading("Annual Rent")>>],
      [category |-> 2, lines |-> <<Section(2)>> \o Single("Annual Rent")],
      [category |-> 3, lines |-> <<Section(2), Heading("CAM"), Asking(1), If("yes", {"no recovery", "extract"}, 0),
                                   If("no", {"extract"}, 0)>>],
      [category |-> 4, lines |-> <<Section(2), Heading("Encumbrance"), Asking(1), If("yes", {"extract"}, 2),
                                   If("no", {"review"}, 0), Asking(2), Empty(3), If("yes", {"undated"}, 0),
                                   If("no", {}, 0)>>]>>
MCAlias ==
    ("Tenant (T)" :> "tenant_name") @@ ("Lease Expiration Date" :> LED) @@ ("Lease Commencement Date" :> LCD)
      @@ ("Lease Term" :> TermField) @@ ("Street Address" :> "street_address") @@ ("Term Commencement Date" :> TCD)
      @@ ("Annual Rent" :> "annual_base_rent") @@ ("CAM" :> "cam") @@ ("Encumbrance" :> "encumbrance")

Row(field, main, priority, votable, redFlag) ==
    [field |-> field, main |-> main, priority |-> priority, votable |-> votable, asks |-> FALSE, redFlag |-> redFlag]
MCSheet ==
    <<Row("annual_base_rent", 2, 1, TRUE, FALSE), Row("encumbrance", 4, 1, FALSE, TRUE),
      Row("base_year", 3, 1, FALSE, FALSE), Row("cam_exclusion", 3, 1, FALSE, FALSE),
      Row("suite", 0, 0, FALSE, FALSE)>>

\* Playbooks that come with a schema.
Branch(type, goto, literal) == [type |-> type, goto |-> goto, literal |-> literal]
Extract == Branch("extract", Null, Null)
Ask1(id, voted, yes, no) ==
    [id |-> id, priority |-> TRUE, voted |-> voted, redFlag |-> FALSE, yes |-> yes, no |-> no]
Own(f, category, questions) ==
    [id |-> f, name |-> 11, category |-> category, gate |-> Open, output |-> "text",
     amount |-> FALSE, dated |-> FALSE, checked |-> FALSE, questions |-> questions]
OwnSingle(f, category) == Own(f, category, <<Ask1("Q1", FALSE, Extract, NoBranch)>>)

Use(f) == [kind |-> "reference", id |-> f, override |-> FALSE, flaws |-> {}, book |-> OwnSingle(f, 0)]
Inline(f, book, override) ==
    [kind |-> "inline", id |-> f, override |-> override, flaws |-> {}, book |-> book]
Schema(entries) == [flaws |-> {}, entries |-> entries]
Uses(retail, office, mixed) ==
    ("Retail" :> retail) @@ ("Industrial" :> 0) @@ ("Office" :> office) @@ ("Mixed-Use" :> mixed)
Job(schema, docs) ==
    [schema |-> schema, docs |-> docs, property |-> "Unknown", uses |-> Uses(2, 0, 0)]

One == <<BaseLease>>
Two == <<BaseLease, "amendment_1">>

\* A cycle, and a goto to nowhere.
Loop == Own("custom", 5, <<Ask1("Q1", FALSE, Branch("goto", "Q2", Null), Branch("none", Null, Null)),
                             Ask1("Q2", FALSE, Branch("extract", "Q1", Null), Branch("goto", "Q9", Null))>>)
Money == [OwnSingle("custom", 2) EXCEPT !.output = "currency", !.checked = TRUE]
Unranked == [OwnSingle("custom", 5) EXCEPT !.questions[1].priority = FALSE]
Late == [OwnSingle(TermField, 1) EXCEPT !.name = 12]
Dated(f) == Inline(f, [OwnSingle(f, 1) EXCEPT !.name = MCTraits[f].name, !.dated = TRUE], TRUE)
Refusable == Own("custom", 5, <<Ask1("Q1", FALSE, Branch("flag", Null, Null), Branch("literal", Null, Null))>>)
Literal == Own("custom", 5, <<Ask1("Q1", FALSE, Branch("literal", Null, Null), NoBranch)>>)
Strip == [OwnSingle("custom", 5) EXCEPT !.gate = {"Retail"}]

MCJobs ==
    {Job(Schema(<<Use(LCD), Use(LED), Use(TermField)>>), One),
     Job(Schema(<<Dated(LCD), Dated(LED), Inline(TermField, Late, TRUE)>>), One),
     Job(Schema(<<Inline(TermField, Late, FALSE)>>), One),
     Job(Schema(<<Use(LCD), Use(TCD), Use("street_address")>>), One),
     Job(Schema(<<Use(TCD)>>), Two),
     Job(Schema(<<Use("tenant_name")>>), Two),
     Job(Schema(<<Use("base_year"), Use("cam"), Use("cam_exclusion")>>), One),
     Job(Schema(<<Use("cam"), Use("cam_exclusion")>>), Two),
     Job(Schema(<<Inline("custom", Loop, FALSE)>>), One),
     Job(Schema(<<Use("encumbrance")>>), Two),
     Job(Schema(<<Inline("custom", Refusable, FALSE)>>), One),
     Job(Schema(<<Inline("custom", Money, FALSE)>>), One),
     Job(Schema(<<Inline("custom", Literal, FALSE)>>), One),
     [Job(NoSchema, Two) EXCEPT !.property = "Industrial"],
     Job(Schema(<<Inline("custom", Unranked, FALSE), Use("tenant_name")>>), One),
     Job(Schema(<<Inline("custom", Strip, FALSE)>>), <<"amendment_1">>),
     Job(Schema(<<Inline("custom", Strip, FALSE), Use("cam")>>), One),
     [Job(Schema(<<Inline("custom", Strip, FALSE)>>), One) EXCEPT !.uses = Uses(2, 2, 1)],
     [Job(Schema(<<Inline("custom", Strip, FALSE)>>), One) EXCEPT !.uses = Uses(2, 3, 0)],
     Job(Schema(<<Use("cam"), Use("cam")>>), One),
     Job(Schema(<<Use("nonesuch")>>), One)}
MCVoteJobs == {Job(Schema(<<Use("annual_base_rent")>>), One)}
MCAllJobs == MCJobs \cup MCVoteJobs

MCLlmValues ==
    (LED :> {"2030-01-31", "06/01/2020", "06/15/2020"}) @@ (LCD :> {"06/15/2020", "June TBD"}) @@ (TermField :> {"9.0"})
      @@ ("tenant_name" :> {"Acme", "none"}) @@ ("annual_base_rent" :> {"$1,200", "1200", "1500"})
      @@ ("base_year" :> {"2020"}) @@ ("cam" :> {"Pro rata"}) @@ ("cam_exclusion" :> {"Roof"})
      @@ ("custom" :> {"100"}) @@ ("encumbrance" :> {"No liens"}) @@ ("suite" :> {"100"}) @@ (TCD :> {"06/01/2020"}) @@ ("street_address" :> {"n/a", "1 Main"})
MCCanonical ==
    [t \in UNION {MCLlmValues[f] : f \in DOMAIN MCLlmValues} |-> IF t = "$1,200" THEN "1200" ELSE t]
MCFirstNumber ==
    ("$1,200" :> "1200") @@ ("2030-01-31" :> "2030") @@ ("06/01/2020" :> "6") @@ ("06/15/2020" :> "6")
      @@ ("9.0" :> "9") @@ ("1 Main" :> "1") @@ [n \in {"100", "1200", "1500", "2020"} |-> n]
Date(text, year, day) == [text |-> text, year |-> year, day |-> day]
MCDates ==
    ("2030-01-31" :> Date("01/31/2030", 2030, 3531)) @@ ("01/31/2030" :> Date("01/31/2030", 2030, 3531))
      @@ ("06/15/2020" :> Date("06/15/2020", 2020, 14)) @@ ("06/01/2020" :> Date("06/01/2020", 2020, 0))
MCTerms == ("9.0" :> 90) @@ ("9" :> 90)
MCOrdered == <<"01/31/2030", "06/01/2020", "06/15/2020", "2030", "2030-01-31", "6", "June TBD">>
MCRank == [t \in Range(MCOrdered) |-> CHOOSE n \in DOMAIN MCOrdered : MCOrdered[n] = t]
====
