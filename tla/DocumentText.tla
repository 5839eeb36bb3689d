---- MODULE DocumentText ----
(***************************************************************************)
(* From a PDF to the clauses an agent can search: the choice between the   *)
(* text of a page and its OCR, the segmentation of pages into clauses, and *)
(* what a document is taken for by the words it contains.                  *)
(*                                                                         *)
(* A text is [lines, short, legible, words, corrupt, orphans]: the kinds   *)
(* of its lines, whether it has under 30 characters, the readable part of  *)
(* its score in hundredths (0..60), and counts of words, of matches of the *)
(* corruption patterns and of money labels without an amount.  A page is   *)
(* [digital, raster, paddle, tesseract]: its texts, and whether it can be  *)
(* made into an image.  A PDF is [there, pages].                           *)
(***************************************************************************)
EXTENDS Integers, FiniteSets, FiniteSetsExt, Sequences, SequencesExt

CONSTANT MaxPages       \* max_pdf_pages; 0 for no limit

ASSUME MaxPagesAssumption == MaxPages \in Nat

Null == "null"          \* Python's None

\* The members of S as R orders them; its definition is that of a sort.
Listed(S, R) ==
    [n \in 1..Cardinality(S) |-> CHOOSE x \in S : Cardinality({y \in S : <<y, x>> \in R}) = n - 1]

NoText == [lines |-> <<>>, short |-> TRUE, legible |-> 0, words |-> 0, corrupt |-> 0, orphans |-> 0]

----------------------------------------------------------------------------
(* The text of a page *)

\* _quality_score, in hundredths; an orphaned amount counts as three corruptions.
Quality(t) ==
    IF t.short THEN 0
    ELSE t.legible + 40 - Min({40, (40 * (t.corrupt + 3 * t.orphans)) \div Max({1, t.words})})

\* _is_garbled
Garbled(t) ==
    \/ t.short
    \/ t.words = 0
    \/ t.orphans >= 2
    \/ 100 * t.corrupt > 15 * t.words

\* _ocr_page: Paddle if its text is any good, else Tesseract.  An engine that fails
\* gives no text; Paddle that cannot be loaded is tried again for the next page.
Ocr(page, engines) ==
    CASE page.raster /\ "paddle" \in engines /\ Quality(page.paddle) > 30 -> page.paddle
      [] page.raster /\ "tesseract" \in engines
           /\ ~("paddle" \in engines /\ Quality(page.paddle) > 30) -> page.tesseract
      [] OTHER -> NoText

\* extract_document_text, of a page: OCR must be clearly better.
Chosen(page, engines) ==
    IF Garbled(page.digital) /\ engines # {}
         /\ Quality(Ocr(page, engines)) > Quality(page.digital) + 10
    THEN Ocr(page, engines) ELSE page.digital

\* A file that is gone or has too many pages raises.
Readable(pdf) == pdf.there /\ (MaxPages = 0 \/ Len(pdf.pages) <= MaxPages)

Texts(pdf, engines) == [p \in DOMAIN pdf.pages |-> Chosen(pdf.pages[p], engines)]

----------------------------------------------------------------------------
(* segment_clauses.  A line is "text", "numbered" (3.1 Rent), "section" (Section 4.),  *)
(* "caps" (a heading in capitals) or "both" (ARTICLE VIII).  No line is blank.         *)

InCapitals(lines, i) == lines[i] \in {"caps", "both"}

\* The third pattern runs over the lines in capitals that follow.
Heading(lines, i) == InCapitals(lines, i) /\ (i = 1 \/ ~InCapitals(lines, i - 1))

Marks(lines) == {i \in DOMAIN lines : lines[i] \in {"numbered", "section", "both"} \/ Heading(lines, i)}

\* clause_number: group 1 of the pattern, which is the number, the word "Section" or the
\* whole heading.  Of two marks at one place the first has no text, and is left out.
Number(lines, i) ==
    CASE i \notin Marks(lines) -> Null
      [] i \in Marks(lines) /\ Heading(lines, i) -> "heading"
      [] i \in Marks(lines) /\ lines[i] = "numbered" -> "number"
      [] OTHER -> "word"

LineKinds == {"text", "numbered", "section", "caps", "both"}

\* Mutant of Starts: what comes before the first mark is left out.
StartsAtMarks(lines) == Marks(lines)

\* The text before the first mark, or without one, is a clause of its own.
Starts(lines) == Marks(lines) \cup {1}

\* The clauses of a page, each up to the next one.
Segments(lines, page) ==
    {[page |-> page, number |-> Number(lines, i), start |-> i,
      end |-> Min({j \in Starts(lines) : j > i} \cup {Len(lines) + 1})] : i \in Starts(lines) \cap DOMAIN lines}

\* The clauses of a document; one that cannot be read has none (_build_context).
Clauses(pdf, engines) ==
    IF ~Readable(pdf) THEN {}
    ELSE UNION {Segments(Texts(pdf, engines)[p].lines, p) : p \in DOMAIN pdf.pages}

----------------------------------------------------------------------------
(* classify_document, of the property: uses counts the matches of each type's patterns. *)
(* What it says of the kind of document is only logged.                                 *)

Uses == <<"Retail", "Industrial", "Office", "Mixed-Use">>

\* Mixed-Use needs its own word and two other uses, or the most matches.
PropertyType(uses) ==
    LET strong == {u \in Range(Uses) \ {"Mixed-Use"} : uses[u] >= 2}
        First(n) == \A m \in DOMAIN Uses : \/ uses[Uses[m]] < uses[Uses[n]]
                                           \/ uses[Uses[m]] = uses[Uses[n]] /\ n <= m
    IN CASE \A u \in Range(Uses) : uses[u] = 0 -> "Unknown"
         [] (\E u \in Range(Uses) : uses[u] # 0) /\ Cardinality(strong) >= 2 /\ uses["Mixed-Use"] > 0 -> "Mixed-Use"
         [] OTHER -> Uses[CHOOSE n \in DOMAIN Uses : First(n)]
====
