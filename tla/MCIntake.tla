---- MODULE MCIntake ----
(* Small instances of Intake for TLC: three requests of up to two files. *)
EXTENDS Intake

CONSTANTS r1, r2, r3

Pdf(size, known) == [pdf |-> TRUE, size |-> size, known |-> known]

\* A file that fits; one that fits before one found too large while it is read; one of a
\* known size that is too large.
MCUploads ==
    [r \in Requests |->
       CASE r = r1 -> <<Pdf(2, FALSE)>>
         [] r = r2 -> <<Pdf(2, TRUE), Pdf(3, FALSE)>>
         [] OTHER -> <<Pdf(3, TRUE)>>]
====
