---- MODULE MCRetrieval ----
(* Small instances of Retrieval for TLC: two threads, documents of one or two *)
(* pages, and every query over a few scores.                                  *)
EXTENDS Retrieval

Text(lines, legible, words, corrupt, orphans) ==
    [lines |-> lines, short |-> FALSE, legible |-> legible, words |-> words, corrupt |-> corrupt, orphans |-> orphans]
Clean(lines) == Text(lines, 60, 20, 0, 0)
Page(digital, paddle, tesseract) ==
    [digital |-> digital, raster |-> TRUE, paddle |-> paddle, tesseract |-> tesseract]
Typed(lines) == Page(Clean(lines), NoText, NoText)

\* A page with orphaned amounts, which Paddle reads better, one that only Tesseract
\* reads, and one that no engine can be given.
Scanned(lines) == Page(Text(<<"text">>, 50, 10, 2, 2), Clean(lines), NoText)
Faint(lines) == Page(NoText, Text(<<"text">>, 20, 4, 4, 0), Clean(lines))
Broken == [Page(NoText, NoText, NoText) EXCEPT !.raster = FALSE]

Pdf(pages) == [there |-> TRUE, pages |-> pages]
Gone == [Pdf(<<>>) EXCEPT !.there = FALSE]

Extraction(docs, engines, target, queries) ==
    [docs |-> docs, engines |-> engines, target |-> target, queries |-> queries]
Doc(label, pdf) == [label |-> label, pdf |-> pdf]
Both == {"paddle", "tesseract"}

Two == Extraction(<<Doc("base_lease", Pdf(<<Typed(<<"text", "numbered">>)>>))>>, Both, "base_lease", 1)
Three == Extraction(<<Doc("base_lease", Pdf(<<Typed(<<"caps", "both", "text">>), Faint(<<"numbered">>)>>)),
                      Doc("amendment_1", Gone)>>, Both, "base_lease", 2)
Four == Extraction(<<Doc("base_lease", Pdf(<<Typed(<<"text", "numbered", "both">>)>>)),
                     Doc("amendment_1", Pdf(<<Scanned(<<"section">>), Broken>>))>>, Both, "amendment_1", 1)
None == Extraction(<<Doc("base_lease", Gone)>>, {"tesseract"}, "base_lease", 1)

\* A large extraction beside each of the small jobs, and the small ones by twos.
MCWork ==
    UNION {{[t \in Threads |-> IF t = u THEN j ELSE k] : j \in {Sweep, None, Two}, k \in {Sweep, Two}} : u \in Threads}
      \cup UNION {{[t \in Threads |-> IF t = u THEN j ELSE Two] : j \in {Three, Four}} : u \in {CHOOSE t \in Threads : TRUE}}

\* Which clauses have the words, the first or the last best, and nearness in either order
\* or not known.
MCQueries(n) ==
    {[words |-> [i \in 1..n |-> IF i \notin S THEN 0 ELSE IF up THEN i ELSE 1],
      near |-> [i \in 1..n |-> IF up THEN i ELSE n - i], blank |-> blank] :
        S \in SUBSET (1..n), up \in BOOLEAN, blank \in BOOLEAN}
====
