---- MODULE MCExtraction ----
(* Small instances of Extraction for TLC. *)
EXTENDS Extraction, TLC

CONSTANTS w1, w2, j1, j2

\* The PDF upload's schema selects the first field of two; the other job runs both.
MCJobFields == (j1 :> {}) @@ (j2 :> {{1}})
\* The PDF upload's schema selects the second field of three.
MCSplitFields == (j1 :> {{2}}) @@ (j2 :> {})
MCSameFields == [j \in Jobs |-> {}]

Symmetry == Permutations(Workers)
====
