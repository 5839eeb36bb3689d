---- MODULE MCDocumentSlots ----
(* Small instances of DocumentSlots for TLC. *)
EXTENDS DocumentSlots, TLC

CONSTANTS b1, b2, a1, a2, a3, n1, n2

\* One base lease and one amendment share a name, the other two another.
MCName == [u \in Uploads |-> IF u \in {b1, a1} THEN n1 ELSE n2]
\* One amendment has a name of its own.
MCUnshared == [u \in Uploads |-> IF u = a1 THEN n1 ELSE n2]
====
