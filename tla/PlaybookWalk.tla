---- MODULE PlaybookWalk ----
(***************************************************************************)
(* The pieces of PlaybookExecutor.run: what a question's answers come to,  *)
(* how the walk goes on, and what is made of it at the end.  Texts are     *)
(* atoms; confidences are in hundredths.                                   *)
(*                                                                         *)
(* A reply of the LLM is [answer, value, raw, monthly], where raw says     *)
(* whether it quotes a snippet and an empty value is Null.                 *)
(***************************************************************************)
EXTENDS SchemaFields, FiniteSetsExt, SequencesExt

CONSTANTS
    Canonical,   \* _canonicalize_value: the canonical text of each text
    FirstNumber, \* _extract_number: the first number of the texts that have one, as text
    MaxSteps     \* MAX_STEPS

ASSUME MaxStepsAssumption == MaxSteps \in Nat

NoneText == "None"
NoneTexts == {NoneText, "none"}       \* what _normalize_value takes for none
Failed == [answer |-> "failed", value |-> Null, raw |-> FALSE, monthly |-> FALSE]
Unknown == [answer |-> "UNKNOWN", value |-> Null, raw |-> FALSE, monthly |-> FALSE]

----------------------------------------------------------------------------
(* _ask_with_voting *)

\* The calls that came back.
Cast(samples) == {i \in DOMAIN samples : samples[i] # Failed}

Votes(samples, a) == Quantify(Cast(samples), LAMBDA i : samples[i].answer = a)

\* _ans_priority: lower wins a tie, and any other answer loses it.
Priority(a) == CASE a = "NO" -> 0 [] a = "UNKNOWN" -> 1 [] a = "YES" -> 2 [] OTHER -> 3

\* Whether max by (count, -priority) puts the answer of sample i before that of j: of
\* equals the one counted first.
Beats(samples, i, j) ==
    LET a == samples[i].answer  b == samples[j].answer
    IN \/ Votes(samples, a) > Votes(samples, b)
       \/ /\ Votes(samples, a) = Votes(samples, b)
          /\ Priority(a) < Priority(b) \/ (Priority(a) = Priority(b) /\ i <= j)

Winner(samples) ==
    samples[CHOOSE i \in Cast(samples) : \A j \in Cast(samples) : Beats(samples, i, j)].answer

\* Mutant of Canvassed: the values of all samples count.
CanvassedAll(samples) == {i \in Cast(samples) : samples[i].value # Null}

\* canonical_values: of the samples that gave the winning answer.  One without the key
\* counts as UNKNOWN and is not among them, but only a YES's value is looked at.
Canvassed(samples) ==
    {i \in Cast(samples) : samples[i].answer = Winner(samples) /\ samples[i].value # Null}

\* The first of the most frequent canonical values.
Mode(samples) ==
    LET Canon(i) == Canonical[samples[i].value]
        Occurs(i) == Quantify(Canvassed(samples), LAMBDA j : Canon(j) = Canon(i))
        first == CHOOSE i \in Canvassed(samples) : \A j \in Canvassed(samples) \ {i} :
                   Occurs(i) > Occurs(j) \/ (Occurs(i) = Occurs(j) /\ i < j)
    IN Canon(first)

\* The vote on the samples that came back.  The reply has no snippet and no
\* is_monthly, whatever the samples said; what it says of needs_review nobody reads.
Vote(samples) ==
    IF Cast(samples) = {} THEN Unknown
    ELSE [answer |-> Winner(samples),
          value |-> IF Canvassed(samples) = {} THEN Null ELSE Mode(samples),
          raw |-> FALSE, monthly |-> FALSE]

\* _ask_question: one call, or three and a vote.
Reply(q, samples) ==
    IF q.voted THEN Vote(samples) ELSE IF samples[1] = Failed THEN Unknown ELSE samples[1]

----------------------------------------------------------------------------
(* The walk: question, steps, and the best extraction so far *)

\* No question is left: the loop ends.
Ended == "ended"
NoWalk == [qid |-> Ended, steps |-> 0, best |-> Null, raw |-> FALSE, clause |-> FALSE,
           monthly |-> FALSE, review |-> FALSE, flagged |-> FALSE]

Begun(pb) == [NoWalk EXCEPT !.qid = IF pb.questions = <<>> THEN Ended ELSE pb.questions[1].id]

Asked(pb, qid) == {j \in DOMAIN pb.questions : pb.questions[j].id = qid}

\* Mutant of Walking: off by one.
WalkingOnce(pb, w) == w.qid # Ended /\ w.steps <= MaxSteps /\ Asked(pb, w.qid) # {}

\* while current_qid and steps < MAX_STEPS; an unknown question ends the walk.
Walking(pb, w) == w.qid # Ended /\ w.steps < MaxSteps /\ Asked(pb, w.qid) # {}

\* Playbook.question: the first of that id.
Question(pb, w) == pb.questions[Min(Asked(pb, w.qid))]

\* An UNKNOWN takes the yes branch if there is one.
BranchOf(q, answer) ==
    CASE answer = "YES" -> q.yes
      [] answer = "NO" -> q.no
      [] OTHER -> IF q.yes # NoBranch THEN q.yes ELSE q.no

\* The first YES with a value is the best; its citation is its snippet or the top hit.
Stashed(w, reply, hits) ==
    IF reply.answer = "YES" /\ reply.value # Null /\ w.best = Null
    THEN [w EXCEPT !.best = reply.value, !.raw = reply.raw, !.monthly = reply.monthly,
                   !.clause = reply.raw \/ hits]
    ELSE w

\* The branch.  A literal replaces the best value and leaves its citation.
Followed(w, b) ==
    CASE b.type \in {"goto", "extract"} -> [w EXCEPT !.qid = IF b.goto = Null THEN Ended ELSE b.goto]
      [] b.type = "flag" -> [w EXCEPT !.qid = Ended, !.review = TRUE]
      [] b.type = "none" -> [w EXCEPT !.qid = Ended, !.best = IF @ = Null THEN NoneText ELSE @]
      [] b.type = "literal" ->
           [w EXCEPT !.qid = Ended, !.best = IF b.literal = Null THEN NoneText ELSE b.literal]
      [] OTHER -> [w EXCEPT !.qid = Ended]

\* Mutant of After: the steps are not counted.
AfterUncounted(pb, w, reply, hits) ==
    LET q == Question(pb, w)
    IN Followed(Stashed(w, reply, hits), BranchOf(q, reply.answer))

\* One turn of the loop.
After(pb, w, reply, hits) ==
    LET q == Question(pb, w)
        counted == [w EXCEPT !.steps = @ + 1, !.flagged = @ \/ (q.redFlag /\ reply.answer = "YES")]
    IN Followed(Stashed(counted, reply, hits), BranchOf(q, reply.answer))

----------------------------------------------------------------------------
(* The end of a walk *)

\* _confidence: of the best value as it was given, which may be a "none" spelt
\* otherwise.
Confidence(w) ==
    CASE w.review -> 40
      [] ~w.review /\ w.best \in {Null, NoneText} -> IF w.clause THEN 10 ELSE 0
      [] ~w.review /\ w.best \notin {Null, NoneText} /\ w.raw -> 90
      [] OTHER -> IF w.clause THEN 70 ELSE 50

\* _normalize_value: an output that is a number keeps only the first number of the text,
\* of a date its month or its year.  One said to be monthly is multiplied by 12 if the
\* output is a currency.
Normalized(pb, w) ==
    IF w.best \in NoneTexts \cup {Null} THEN NoneText
    ELSE IF pb.output \in {"number", "currency"} /\ w.best \in DOMAIN FirstNumber THEN FirstNumber[w.best]
    ELSE w.best
Annual(pb, w) == w.monthly /\ pb.output = "currency" /\ w.best \in DOMAIN FirstNumber

\* The result.  Without a value and a clause, the best clause found for the field's
\* name is cited, if there is one; the confidence is not computed again.
Outcome(pb, w, found) ==
    [value |-> Normalized(pb, w), times12 |-> Annual(pb, w), raw |-> w.raw,
     conf |-> Confidence(w), clause |-> w.clause \/ (Normalized(pb, w) = NoneText /\ found),
     review |-> w.review, flagged |-> w.flagged]

\* _empty_result, and the coordinator's _fallback_result, which cites the error.
Nothing == Outcome([output |-> "text"], NoWalk, FALSE)
AgentError == [Nothing EXCEPT !.clause = TRUE]

\* The critique is asked for a value with a citation, of a field worth it.
WantsCritique(pb, r) == pb.checked /\ r.value # NoneText /\ r.clause

\* Mutant of Critiqued: a refuted value keeps its confidence.
CritiquedFlagOnly(r, verdict) ==
    IF verdict = "refuted" THEN [r EXCEPT !.review = TRUE, !.flagged = TRUE] ELSE r

\* critique and apply_critique_to_result.  A critique that fails changes nothing.
Critiqued(r, verdict) ==
    CASE verdict = "supported" -> [r EXCEPT !.conf = Min({95, @ + 5})]
      [] verdict = "refuted" -> [r EXCEPT !.conf = Max({10, @ \div 2}), !.review = TRUE, !.flagged = TRUE]
      [] OTHER -> r
====
