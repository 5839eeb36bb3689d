---- MODULE MCOverrides ----
(* A small instance of Overrides for TLC. *)
EXTENDS Overrides, TLC

CONSTANTS f1, v1, r1, r2, r3, r4

MCValues == {v1, NoneText}
MCDocuments ==
    {[order |-> 0, type |-> "base_lease", eff |-> 0],
     [order |-> 1, type |-> "amendment", eff |-> 2],
     [order |-> 2, type |-> "amendment", eff |-> 1]}
MCDates == 0..2
MCExtractions ==
    {[value |-> v1, conf |-> 0, clause |-> FALSE],
     [value |-> NoneText, conf |-> 10, clause |-> TRUE],
     [value |-> v1, conf |-> 90, clause |-> TRUE]}
\* The requests are interchangeable.
RequestSymmetry == Permutations(Requests)
====
