---- MODULE MCSchemaStore ----
(* Small instances of SchemaStore for TLC. *)
EXTENDS SchemaStore, TLC

CONSTANTS s1, s2, r1, r2, r3, r4

\* The schemas are interchangeable.
SchemaSymmetry == Permutations(Schemas)

\* The ids of the rows are in the opposite order of their insertion.
MCRowId(n) == MaxRows - n
====
