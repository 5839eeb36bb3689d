---- MODULE FieldRun_proofs ----
(* What a run of the coordinator reports and saves, for every schema, number   *)
(* of documents, questions and steps.                                         *)
EXTENDS FieldRun, FiniteSetTheorems, WellFoundedInduction, TLAPS

----------------------------------------------------------------------------
(* The order of the fields and the numbers of the cells *)

\* The sort puts every playbook that applies in one place.
LEMMA OrderLists ==
    ASSUME NEW B, Placed(B), NEW P
    PROVE  LET S == Selected(B, P)
               n == Cardinality(S)
           IN /\ IsFiniteSet(S) /\ n \in Nat /\ S \subseteq DOMAIN B
              /\ Order(B, P) \in [1..n -> S]
              /\ \A i, k \in 1..n : Order(B, P)[i] = Order(B, P)[k] => i = k
              /\ \A id \in S : \E i \in 1..n : Order(B, P)[i] = id
              /\ \A i, k \in 1..n : Before(B[Order(B, P)[i]], B[Order(B, P)[k]]) => i < k
<1> DEFINE S == Selected(B, P)
           n == Cardinality(S)
           Lower(id) == {o \in S : Before(B[o], B[id])}
           rank == [id \in S |-> Cardinality(Lower(id))]
<1>1. IsFiniteSet(S) /\ n \in Nat /\ S \subseteq DOMAIN B
  BY FS_Subset, FS_CardinalityType DEF Selected, Placed
<1>2. \A id \in S : B[id].category \in Nat /\ B[id].name \in Nat
  BY <1>1 DEF Placed
<1>3. \A p, q \in S : p = q \/ Before(B[p], B[q]) \/ Before(B[q], B[p])
  BY <1>1, <1>2 DEF Placed, Before
<1>4. ASSUME NEW id \in S PROVE IsFiniteSet(Lower(id)) /\ rank[id] \in 0..(n - 1)
  <2>1. Lower(id) \subseteq S \ {id}
    BY <1>2 DEF Before
  <2>2. IsFiniteSet(S \ {id}) /\ Cardinality(S \ {id}) = n - 1
    BY <1>1, FS_RemoveElement
  <2> HIDE DEF S, Lower
  <2>3. IsFiniteSet(Lower(id)) /\ Cardinality(Lower(id)) <= n - 1
    BY <2>1, <2>2, FS_Subset
  <2>4. Cardinality(Lower(id)) \in Nat
    BY <2>3, FS_CardinalityType
  <2> QED BY <1>1, <2>3, <2>4
<1>5. ASSUME NEW p \in S, NEW q \in S, Before(B[p], B[q]) PROVE rank[p] < rank[q]
  <2>1. Lower(p) \subseteq Lower(q) /\ p \in Lower(q) /\ p \notin Lower(p)
    BY <1>2, <1>5 DEF Before
  <2>2. IsFiniteSet(Lower(q)) /\ rank[q] \in Nat /\ rank[p] \in Nat
    BY <1>1, <1>4
  <2>3. Cardinality(Lower(p)) <= Cardinality(Lower(q)) /\ Cardinality(Lower(p)) # Cardinality(Lower(q))
    <3> HIDE DEF Lower
    <3> QED BY <2>1, <2>2, FS_Subset
  <2> QED BY <2>2, <2>3
<1> HIDE DEF rank, Lower
<1>6. \A p, q \in S : rank[p] = rank[q] => p = q
  BY <1>1, <1>3, <1>4, <1>5
<1>7. \A i \in 0..(n - 1) : \E id \in S : rank[id] = i
  <2>1. rank \in [S -> 0..(n - 1)]
    <3>1. rank = [id \in S |-> rank[id]]
      BY DEF rank
    <3> QED BY <1>4, <3>1
  <2>2. IsFiniteSet(0..(n - 1)) /\ Cardinality(0..(n - 1)) = n
    BY <1>1, FS_Interval
  <2> HIDE DEF rank, n, S
  <2>3. rank \in Injection(S, 0..(n - 1))
    BY <1>6, <2>1 DEF Injection, IsInjective
  <2>4. rank \in Surjection(S, 0..(n - 1))
    BY <2>2, <2>3, FS_Injection DEF n
  <2> QED BY <2>4 DEF Surjection
<1> DEFINE ord == Order(B, P)
<1>8. ord = [i \in 1..n |-> CHOOSE id \in S : Cardinality(Lower(id)) = i - 1]
  BY DEF Order, Lower
<1> HIDE DEF S, n, ord
<1>9. \A i \in 1..n : ord[i] \in S /\ rank[ord[i]] = i - 1
  <2> TAKE i \in 1..n
  <2>1. PICK id \in S : rank[id] = i - 1
    BY <1>1, <1>7
  <2>2. \A x \in S : rank[x] = Cardinality(Lower(x))
    BY DEF rank
  <2> QED BY <1>8, <2>1, <2>2
<1>10. ord \in [1..n -> S]
  BY <1>8, <1>9
<1>11. \A i, k \in 1..n : ord[i] = ord[k] => i = k
  BY <1>1, <1>9
<1>12. \A id \in S : \E i \in 1..n : ord[i] = id
  <2> TAKE id \in S
  <2>1. rank[id] \in 0..(n - 1) /\ rank[id] + 1 \in 1..n
    BY <1>1, <1>4
  <2>2. ord[rank[id] + 1] \in S /\ rank[ord[rank[id] + 1]] = rank[id]
    BY <1>9, <2>1
  <2> QED BY <1>6, <2>1, <2>2
<1>13. \A i, k \in 1..n : Before(B[ord[i]], B[ord[k]]) => i < k
  <2> TAKE i \in 1..n, k \in 1..n
  <2>1. Before(B[ord[i]], B[ord[k]]) => rank[ord[i]] < rank[ord[k]]
    BY <1>5, <1>9
  <2> QED BY <1>1, <1>9, <2>1
<1> QED BY <1>1, <1>10, <1>11, <1>12, <1>13 DEF S, n, ord

\* A number of a cell names a field and a document, and no other number does.
LEMMA CellSplit ==
    ASSUME NEW F \in Nat, NEW D \in Nat, NEW n \in 1..(F * D)
    PROVE  LET f == ((n - 1) \div D) + 1
               d == ((n - 1) % D) + 1
           IN f \in 1..F /\ d \in 1..D /\ n = (f - 1) * D + d
<1>1. D > 0
  BY SMT
<1>2. n - 1 \in Nat /\ n - 1 < F * D
  OBVIOUS
<1>3. /\ (n - 1) \div D \in Int /\ (n - 1) % D \in 0..(D - 1)
      /\ n - 1 = D * ((n - 1) \div D) + ((n - 1) % D)
  BY <1>1, <1>2
<1> DEFINE q == (n - 1) \div D
           r == (n - 1) % D
<1>4. q \in Int /\ r \in 0..(D - 1) /\ n - 1 = D * q + r
  BY <1>3
<1> HIDE DEF q, r
<1>5. q >= 0
  BY <1>1, <1>2, <1>4
<1>6. q < F
  BY <1>1, <1>2, <1>4
<1> QED BY <1>1, <1>4, <1>5, <1>6 DEF q, r
----------------------------------------------------------------------------
(* What a walk comes to *)

\* The smaller and the larger of two numbers.
LEMMA OfTwo ==
    ASSUME NEW a \in Int, NEW b \in Int
    PROVE  /\ Min({a, b}) \in {a, b} /\ Min({a, b}) <= a /\ Min({a, b}) <= b
           /\ Max({a, b}) \in {a, b} /\ Max({a, b}) >= a /\ Max({a, b}) >= b
<1>1. \E x \in {a, b} : \A y \in {a, b} : x <= y
  <2>1. CASE a <= b
    BY <2>1
  <2>2. CASE b <= a
    BY <2>2
  <2> QED BY <2>1, <2>2
<1>2. \E x \in {a, b} : \A y \in {a, b} : x >= y
  <2>1. CASE a >= b
    BY <2>1
  <2>2. CASE b >= a
    BY <2>2
  <2> QED BY <2>1, <2>2
<1> QED BY <1>1, <1>2 DEF Min, Max

\* A nonempty set of natural numbers has its least number in it.
LEMMA LeastIsIn ==
    ASSUME NEW T, T \subseteq Nat, T # {}
    PROVE  Min(T) \in T /\ \A y \in T : Min(T) <= y
<1>1. PICK x \in T : \A y \in T : <<y, x>> \notin OpToRel(<, Nat)
  BY NatLessThanWellFounded, WFMin, Zenon
<1>2. \A y \in T : x <= y
  <2> TAKE y \in T
  <2>1. ~(y < x)
    BY <1>1 DEF OpToRel
  <2> QED BY <2>1
<1> QED BY <1>2 DEF Min

\* The question a walk asks is one of its playbook.
LEMMA QuestionIsOfBook ==
    ASSUME NEW pb, pb.questions \in Seq(Range(pb.questions)), NEW w, Walking(pb, w)
    PROVE  Question(pb, w) \in Range(pb.questions)
<1>1. Asked(pb, w.qid) \subseteq DOMAIN pb.questions /\ Asked(pb, w.qid) # {}
  BY DEF Asked, Walking
<1>2. DOMAIN pb.questions \subseteq Nat
  OBVIOUS
<1>3. Min(Asked(pb, w.qid)) \in DOMAIN pb.questions
  BY <1>1, <1>2, LeastIsIn
<1> QED BY <1>3 DEF Question, Range

\* The fields of a walk, and how many steps it has taken at most.
WalkFits(w) ==
    /\ DOMAIN w = {"qid", "steps", "best", "raw", "clause", "monthly", "review", "flagged"}
    /\ w.steps \in 0..MaxSteps

\* A walk that has not begun, and one that begins, fit.
LEMMA BegunFits ==
    /\ WalkFits(NoWalk) /\ NoWalk.best = Null /\ ~NoWalk.review
    /\ \A pb : WalkFits(Begun(pb)) /\ Begun(pb).best = Null
<1>1. WalkFits(NoWalk) /\ NoWalk.best = Null /\ ~NoWalk.review
  BY MaxStepsAssumption DEF WalkFits, NoWalk
<1>2. ASSUME NEW pb PROVE WalkFits(Begun(pb)) /\ Begun(pb).best = Null
  BY <1>1 DEF WalkFits, Begun
<1> QED BY <1>1, <1>2

\* A turn of the loop counts one step, and the best value afterwards is the one before,
\* "None", what the LLM replied or a literal of the question.
LEMMA TurnFits ==
    ASSUME NEW pb, NEW w, WalkFits(w), Walking(pb, w), NEW reply, NEW hits
    PROVE  LET v == After(pb, w, reply, hits)
               q == Question(pb, w)
           IN WalkFits(v) /\ v.best \in {w.best, NoneText, reply.value, q.yes.literal, q.no.literal}
<1> DEFINE q == Question(pb, w)
           told == w.flagged \/ (q.redFlag /\ reply.answer = "YES")
           counted == [w EXCEPT !.steps = @ + 1, !.flagged = told]
           stashed == Stashed(counted, reply, hits)
           b == BranchOf(q, reply.answer)
<1>1. w.steps < MaxSteps /\ w.steps + 1 \in 0..MaxSteps
  BY MaxStepsAssumption DEF Walking, WalkFits
<1> HIDE DEF told
<1>2. WalkFits(counted) /\ counted.best = w.best
  BY <1>1 DEF WalkFits
<1> HIDE DEF counted
<1>3. WalkFits(stashed) /\ stashed.best \in {w.best, reply.value}
  BY <1>2 DEF WalkFits, Stashed
<1>4. b.literal \in {q.yes.literal, q.no.literal}
  BY DEF BranchOf
<1>5. After(pb, w, reply, hits) = Followed(stashed, b)
  BY DEF After, counted, told
<1> HIDE DEF stashed, b
<1>6. WalkFits(Followed(stashed, b)) /\ Followed(stashed, b).best \in {stashed.best, NoneText, b.literal}
  BY <1>3 DEF WalkFits, Followed
<1> HIDE DEF q
<1> QED BY <1>3, <1>4, <1>5, <1>6 DEF q

----------------------------------------------------------------------------
(* The vote *)

\* Counting the calls that came back: at most all of them, and none if none fits.
LEMMA CountOfCast ==
    ASSUME NEW n \in Nat, NEW samples, DOMAIN samples = 1..n, NEW T, T \subseteq Cast(samples)
    PROVE  /\ Cardinality(T) \in Nat /\ Cardinality(Cast(samples)) \in Nat
           /\ Cardinality(T) <= Cardinality(Cast(samples))
           /\ Cardinality(T) = 0 <=> T = {}
<1>1. IsFiniteSet(1..n) /\ Cast(samples) \subseteq 1..n
  BY FS_Interval DEF Cast
<1>2. IsFiniteSet(Cast(samples))
  BY <1>1, FS_Subset
<1>3. IsFiniteSet(T) /\ Cardinality(T) <= Cardinality(Cast(samples))
  BY <1>2, FS_Subset
<1> QED BY <1>2, <1>3, FS_CardinalityType, FS_EmptySet

\* The winner is the answer of a sample that beats every sample.
LEMMA WinnerWins ==
    ASSUME NEW samples, DOMAIN samples = 1..3, Cast(samples) # {}
    PROVE  \E i \in Cast(samples) :
             Winner(samples) = samples[i].answer /\ \A j \in Cast(samples) : Beats(samples, i, j)
<1> DEFINE C == Cast(samples)
           V(i) == Votes(samples, samples[i].answer)
           P(i) == Priority(samples[i].answer)
           N == Cardinality(C)
           m(i) == 16 * (N - V(i)) + 4 * P(i) + i
           T == {m(i) : i \in C}
<1>1. C \subseteq 1..3 /\ C # {}
  BY DEF Cast
<1>2. \A i : V(i) \in Nat /\ N \in Nat /\ V(i) <= N
  <2> TAKE i
  <2> DEFINE a == samples[i].answer
  <2>1. Votes(samples, a) = Cardinality({k \in Cast(samples) : samples[k].answer = a})
    BY DEF Votes, Quantify
  <2>2. {k \in Cast(samples) : samples[k].answer = a} \subseteq Cast(samples)
    OBVIOUS
  <2> QED BY <2>1, <2>2, CountOfCast
<1>3. \A i : P(i) \in 0..3
  BY DEF Priority
<1>4. \A i, j : Beats(samples, i, j) <=>
        V(i) > V(j) \/ (V(i) = V(j) /\ (P(i) < P(j) \/ (P(i) = P(j) /\ i <= j)))
  BY DEF Beats
<1> HIDE DEF C, V, P, N
<1>5. T \subseteq Nat /\ T # {}
  <2>1. ASSUME NEW i \in C PROVE m(i) \in Nat
    <3>1. i \in 1..3 /\ V(i) \in Nat /\ N \in Nat /\ V(i) <= N /\ P(i) \in 0..3
      BY <1>1, <1>2, <1>3
    <3> QED BY <3>1
  <2> HIDE DEF m
  <2> QED BY <1>1, <2>1
<1>6. PICK i \in C : m(i) = Min(T)
  BY <1>5, LeastIsIn
<1>7. \A j \in C : Beats(samples, i, j)
  <2> TAKE j \in C
  <2>1. m(i) <= m(j)
    <3>1. m(j) \in T
      OBVIOUS
    <3> HIDE DEF m, T
    <3> QED BY <1>5, <1>6, <3>1, LeastIsIn
  <2>2. /\ i \in 1..3 /\ V(i) \in Nat /\ P(i) \in 0..3
        /\ j \in 1..3 /\ V(j) \in Nat /\ P(j) \in 0..3 /\ N \in Nat
    BY <1>1, <1>2, <1>3
  <2>3. V(i) >= V(j)
    BY <2>1, <2>2
  <2>4. V(i) = V(j) => P(i) < P(j) \/ (P(i) = P(j) /\ i <= j)
    BY <2>1, <2>2
  <2> QED BY <1>4, <2>2, <2>3, <2>4
<1> DEFINE first == CHOOSE k \in C : \A j \in C : Beats(samples, k, j)
<1>8. first \in C /\ \A j \in C : Beats(samples, first, j)
  BY <1>7
<1>9. Winner(samples) = samples[first].answer
  BY DEF Winner, C
<1> HIDE DEF first
<1> QED BY <1>8, <1>9 DEF C

\* The value of a vote is the canonical text of one that a sample of the winning answer
\* gave.
LEMMA ModeIsCanvassed ==
    ASSUME NEW n \in Nat, NEW samples, DOMAIN samples = 1..n, Canvassed(samples) # {}
    PROVE  \E i \in Canvassed(samples) : Mode(samples) = Canonical[samples[i].value]
<1> DEFINE C == Canvassed(samples)
           Canon(i) == Canonical[samples[i].value]
           Occurs(i) == Quantify(C, LAMBDA j : Canon(j) = Canon(i))
           N == Cardinality(Cast(samples))
           few == {N - Occurs(i) : i \in C}
<1>1. C \subseteq Cast(samples) /\ C \subseteq Nat
  BY DEF Canvassed, Cast
<1>2. \A i : Occurs(i) \in Nat /\ N \in Nat /\ Occurs(i) <= N
  <2> TAKE i
  <2>1. Occurs(i) = Cardinality({j \in C : Canon(j) = Canon(i)})
    BY DEF Quantify
  <2>2. {j \in C : Canon(j) = Canon(i)} \subseteq Cast(samples)
    BY <1>1
  <2> QED BY <2>1, <2>2, CountOfCast
<1> DEFINE Before1(i, j) == Occurs(i) > Occurs(j) \/ (Occurs(i) = Occurs(j) /\ i < j)
<1>3. Mode(samples) = Canon(CHOOSE i \in C : \A j \in C \ {i} : Before1(i, j))
  BY DEF Mode
<1> HIDE DEF C, Occurs, N
<1>4. few \subseteq Nat /\ few # {}
  BY <1>2 DEF C
<1> DEFINE top == {i \in C : N - Occurs(i) = Min(few)}
<1>5. top \subseteq Nat /\ top # {} /\ \A i \in top, j \in C : Occurs(i) >= Occurs(j)
  <2>1. Min(few) \in few /\ \A k \in few : Min(few) <= k
    BY <1>4, LeastIsIn
  <2>2. \A i \in top, j \in C : N - Occurs(i) <= N - Occurs(j)
    BY <2>1
  <2>3. \A i \in top, j \in C : Occurs(i) >= Occurs(j)
    BY <1>2, <2>2
  <2> HIDE DEF few
  <2> QED BY <1>1, <2>1, <2>3 DEF few
<1> DEFINE first == Min(top)
<1>6. first \in top /\ \A j \in top : first <= j
  BY <1>5, LeastIsIn
<1>7. first \in C /\ \A j \in C \ {first} : Before1(first, j)
  <2> SUFFICES ASSUME NEW j \in C \ {first} PROVE Before1(first, j)
    BY <1>6
  <2>1. CASE Occurs(first) > Occurs(j)
    BY <2>1
  <2>2. CASE Occurs(first) = Occurs(j)
    <3>1. j \in top
      BY <1>2, <1>6, <2>2
    <3>2. first \in Nat /\ j \in Nat /\ first <= j /\ first # j
      BY <1>1, <1>5, <1>6, <3>1
    <3> HIDE DEF first
    <3> QED BY <2>2, <3>2
  <2> QED BY <1>2, <1>5, <1>6, <2>1, <2>2
<1> HIDE DEF Before1, Canon, first
<1>8. (CHOOSE i \in C : \A j \in C \ {i} : Before1(i, j)) \in C
  BY <1>7
<1> QED BY <1>3, <1>8 DEF C, Canon

\* The samples of a question are answers or failures, with a value of the field.
LEMMA SamplesFit ==
    ASSUME NEW q, NEW f, NEW samples \in Samples(q, f)
    PROVE  /\ DOMAIN samples = IF q.voted THEN 1..3 ELSE 1..1
           /\ \A i \in DOMAIN samples : samples[i].value \in LlmValues[f] \cup {Null}
<1> DEFINE quotes == IF q.voted THEN {FALSE} ELSE BOOLEAN
           months == IF q.voted \/ Values(f) \cap DOMAIN FirstNumber = {} THEN {FALSE} ELSE BOOLEAN
           R == [answer : Answers, value : Values(f), raw : quotes, monthly : months] \cup {Failed}
<1>1. samples \in IF q.voted THEN [1..3 -> R] ELSE [1..1 -> R]
  BY Zenon DEF Samples
<1> HIDE DEF quotes, months
<1>2. \A s \in R : s.value \in LlmValues[f] \cup {Null}
  BY DEF Values, Failed
<1> HIDE DEF R
<1> QED BY <1>1, <1>2

LEMMA UpToThree == IsFiniteSet(1..3) /\ Cardinality(1..3) = 3
<1>1. 1 \in Int /\ 3 \in Int /\ ~(1 > 3) /\ 3 - 1 + 1 = 3
  OBVIOUS
<1>2. \A a, b \in Int : IsFiniteSet(a..b) /\ Cardinality(a..b) = IF a > b THEN 0 ELSE b - a + 1
  BY FS_Interval
<1> QED BY <1>1, <1>2

\* Of two answers the votes are apart, and an answer that has a vote was given.
LEMMA VotesAreApart ==
    ASSUME NEW samples, DOMAIN samples = 1..3
    PROVE  /\ \A a : /\ Votes(samples, a) \in Nat
                     /\ Votes(samples, a) > 0 <=> \E i \in Cast(samples) : samples[i].answer = a
           /\ \A a, b : a # b => Votes(samples, a) + Votes(samples, b) <= 3
<1> DEFINE For(a) == {i \in Cast(samples) : samples[i].answer = a}
<1>1. \A a : Votes(samples, a) = Cardinality(For(a))
  BY DEF Votes, Quantify
<1>2. \A a : /\ For(a) \subseteq 1..3 /\ IsFiniteSet(For(a)) /\ Cardinality(For(a)) \in Nat
             /\ Cardinality(For(a)) = 0 <=> For(a) = {}
  <2> TAKE a
  <2>1. For(a) \subseteq 1..3
    BY DEF Cast
  <2> HIDE DEF For
  <2>2. IsFiniteSet(For(a))
    BY <2>1, UpToThree, FS_Subset
  <2> QED BY <2>1, <2>2, FS_CardinalityType, FS_EmptySet
<1>3. ASSUME NEW a, NEW b, a # b PROVE Votes(samples, a) + Votes(samples, b) <= 3
  <2>1. For(a) \cap For(b) = {}
    BY <1>3
  <2> HIDE DEF For
  <2>2. Cardinality(For(a) \cup For(b)) = Cardinality(For(a)) + Cardinality(For(b))
    <3> DEFINE A == For(a)  B == For(b)
    <3>1. IsFiniteSet(A) /\ IsFiniteSet(B)
      BY <1>2
    <3>2. Cardinality(A \cap B) = 0
      BY <2>1, FS_EmptySet
    <3> HIDE DEF A, B
    <3>3. Cardinality(A \cup B) = Cardinality(A) + Cardinality(B) - Cardinality(A \cap B)
      BY <3>1, FS_Union
    <3> USE DEF A, B
    <3> QED BY <1>2, <3>2, <3>3
  <2>3. For(a) \cup For(b) \subseteq 1..3
    BY <1>2
  <2>4. Cardinality(For(a) \cup For(b)) <= 3
    BY <2>3, UpToThree, FS_Subset
  <2> QED BY <1>1, <2>2, <2>4
<1>4. \A a : For(a) # {} <=> \E i \in Cast(samples) : samples[i].answer = a
  OBVIOUS
<1> HIDE DEF For
<1>5. \A a : Votes(samples, a) \in Nat /\ (Votes(samples, a) > 0 <=> For(a) # {})
  BY <1>1, <1>2
<1> QED BY <1>3, <1>4, <1>5

\* What a vote says: the answer of two samples, YES only with the most of the three
\* answers asked for and no less than any other, and a value only of a sample that gave
\* the winning answer.
LEMMA VoteIsMajority ==
    ASSUME NEW q, q.voted, NEW f, NEW samples \in Samples(q, f)
    PROVE  LET r == Reply(q, samples)
           IN /\ \A a : Votes(samples, a) >= 2 => r.answer = a
              /\ r.answer = "YES" =>
                   /\ \A a \in {"NO", "UNKNOWN"} : Votes(samples, "YES") > Votes(samples, a)
                   /\ \A a : Votes(samples, "YES") >= Votes(samples, a)
              /\ r.value # Null =>
                   \E i \in 1..3 : samples[i].answer = r.answer /\ samples[i].value # Null
                                     /\ Canonical[samples[i].value] = r.value
<1>1. DOMAIN samples = 1..3
  BY SamplesFit
<1>2. Reply(q, samples) = Vote(samples)
  BY DEF Reply
<1>3. CASE Cast(samples) = {}
  <2>1. \A a : Votes(samples, a) = 0
    BY <1>1, <1>3, VotesAreApart
  <2> QED BY <1>2, <1>3, <2>1 DEF Vote, Unknown
<1>4. CASE Cast(samples) # {}
  <2> DEFINE w == Winner(samples)
  <2>1. /\ Reply(q, samples).answer = w
        /\ Reply(q, samples).value = IF Canvassed(samples) = {} THEN Null ELSE Mode(samples)
    BY <1>2, <1>4 DEF Vote
  <2>2. PICK k \in Cast(samples) : w = samples[k].answer /\ \A j \in Cast(samples) : Beats(samples, k, j)
    BY <1>1, <1>4, WinnerWins
  <2>3. \A a : /\ Votes(samples, w) \in Nat /\ Votes(samples, a) \in Nat /\ Votes(samples, w) > 0
               /\ a # w => Votes(samples, w) + Votes(samples, a) <= 3
               /\ Votes(samples, a) > 0 => \E j \in Cast(samples) : samples[j].answer = a
    BY <1>1, <2>2, VotesAreApart
  <2>4. \A a : \/ Votes(samples, a) = 0
               \/ Votes(samples, w) > Votes(samples, a)
               \/ Votes(samples, w) = Votes(samples, a) /\ Priority(w) <= Priority(a)
    <3> SUFFICES ASSUME NEW a, Votes(samples, a) # 0
                 PROVE  \/ Votes(samples, w) > Votes(samples, a)
                        \/ Votes(samples, w) = Votes(samples, a) /\ Priority(w) <= Priority(a)
      OBVIOUS
    <3>1. PICK j \in Cast(samples) : samples[j].answer = a
      BY <2>3
    <3>2. Beats(samples, k, j)
      BY <2>2
    <3>3. Priority(w) \in 0..3 /\ Priority(a) \in 0..3
      BY DEF Priority
    <3> HIDE DEF w
    <3> QED BY <2>2, <3>1, <3>2, <3>3 DEF Beats
  <2>5. ASSUME NEW a, Votes(samples, a) >= 2 PROVE w = a
    <3> HIDE DEF w
    <3> QED BY <2>3, <2>4, <2>5
  <2>6. ASSUME w = "YES", NEW a
        PROVE  /\ Votes(samples, "YES") >= Votes(samples, a)
               /\ a \in {"NO", "UNKNOWN"} => Votes(samples, "YES") > Votes(samples, a)
    <3>1. Priority("YES") = 2 /\ (a \in {"NO", "UNKNOWN"} => Priority(a) < 2)
      BY DEF Priority
    <3>2. Votes(samples, "YES") \in Nat /\ Votes(samples, "YES") > 0 /\ Votes(samples, a) \in Nat
      BY <2>3, <2>6
    <3>3. \/ Votes(samples, a) = 0
          \/ Votes(samples, "YES") > Votes(samples, a)
          \/ Votes(samples, "YES") = Votes(samples, a) /\ 2 <= Priority(a)
      BY <2>4, <2>6, <3>1
    <3>4. Priority(a) \in 0..3
      BY DEF Priority
    <3> QED BY <3>1, <3>2, <3>3, <3>4
  <2>7. ASSUME Canvassed(samples) # {}
        PROVE  \E i \in 1..3 : samples[i].answer = w /\ samples[i].value # Null /\ Canonical[samples[i].value] = Mode(samples)
    <3>1. PICK i \in Canvassed(samples) : Mode(samples) = Canonical[samples[i].value]
      BY <1>1, <2>7, ModeIsCanvassed
    <3>2. i \in 1..3 /\ samples[i].answer = w /\ samples[i].value # Null
      BY <1>1 DEF Canvassed, Cast
    <3> QED BY <3>1, <3>2
  <2> HIDE DEF w
  <2> QED BY <2>1, <2>5, <2>6, <2>7
<1> QED BY <1>3, <1>4

\* What a question's reply says is empty, of the LLM or the canonical text of that.
LEMMA ReplyIsSaid ==
    ASSUME NEW q, NEW f, NEW samples \in Samples(q, f)
    PROVE  Reply(q, samples).value \in {Null} \cup LlmValues[f] \cup {Canonical[v] : v \in LlmValues[f]}
<1>1. CASE q.voted
  <2>1. CASE Reply(q, samples).value = Null
    BY <2>1
  <2>2. CASE Reply(q, samples).value # Null
    <3>1. PICK i \in 1..3 : samples[i].value # Null /\ Canonical[samples[i].value] = Reply(q, samples).value
      BY <1>1, <2>2, VoteIsMajority
    <3>2. samples[i].value \in LlmValues[f]
      BY <1>1, <3>1, SamplesFit
    <3> QED BY <3>1, <3>2
  <2> QED BY <2>1, <2>2
<1>2. CASE ~q.voted
  <2>1. samples[1].value \in LlmValues[f] \cup {Null}
    BY <1>2, SamplesFit
  <2> QED BY <1>2, <2>1 DEF Reply, Unknown
<1> QED BY <1>1, <1>2

\* The question of every state is asked this way.
THEOREM VotesHold == Spec => []VotesAreMajorities
<1>1. VotesAreMajorities
  BY VoteIsMajority DEF VotesAreMajorities
<1> QED BY <1>1, PTL

----------------------------------------------------------------------------
(* The run and its cells *)

\* A field and a document have a number, which is not another's, and numbers go by the
\* fields first.
LEMMA CellJoin ==
    ASSUME NEW F \in Nat, NEW D \in Nat, NEW f \in 1..F, NEW d \in 1..D, NEW g \in 1..F, NEW e \in 1..D
    PROVE  /\ (f - 1) * D + d \in 1..(F * D)
           /\ (f - 1) * D + d = (g - 1) * D + e => f = g /\ d = e
           /\ f < g => (f - 1) * D + d < (g - 1) * D + e
<1>1. (f - 1) * D \in Nat /\ (f - 1) * D + D = f * D /\ f * D \in Nat
  BY SMT
<1>2. f * D <= F * D /\ F * D \in Nat
  BY SMT
<1>3. \A a, b \in Nat : a < b => a * D + D <= b * D /\ a * D \in Nat /\ b * D \in Nat
  BY SMT
<1>4. f < g => (f - 1) * D + d < (g - 1) * D + e
  <2>1. ASSUME f < g PROVE (f - 1) * D + D <= (g - 1) * D /\ (f - 1) * D \in Nat /\ (g - 1) * D \in Nat
    <3>1. f - 1 \in Nat /\ g - 1 \in Nat /\ f - 1 < g - 1
      BY <2>1
    <3> QED BY <1>3, <3>1
  <2> QED BY <2>1
<1>5. g < f => (g - 1) * D + e < (f - 1) * D + d
  <2>1. ASSUME g < f PROVE (g - 1) * D + D <= (f - 1) * D /\ (f - 1) * D \in Nat /\ (g - 1) * D \in Nat
    <3>1. f - 1 \in Nat /\ g - 1 \in Nat /\ g - 1 < f - 1
      BY <2>1
    <3> QED BY <1>3, <3>1
  <2> QED BY <2>1
<1>6. (g - 1) * D \in Nat
  BY SMT
<1>7. (f - 1) * D + d = (g - 1) * D + e => f = g /\ d = e
  <2> SUFFICES ASSUME (f - 1) * D + d = (g - 1) * D + e PROVE f = g /\ d = e
    OBVIOUS
  <2>1. ~(f < g) /\ ~(g < f)
    BY <1>1, <1>4, <1>5, <1>6
  <2>2. f = g
    BY <2>1
  <2> QED BY <1>1, <2>2
<1> QED BY <1>1, <1>2, <1>4, <1>7

\* Where a run is, and which playbooks it has.
Waiting == {"upload", "refused", "queued"}
RunInv ==
    /\ job \in Jobs /\ builtin = Compiled
    /\ at \in Waiting \cup {"next", "walk", "reconcile", "done"}
    /\ at \in Waiting => /\ books = builtin /\ cell = 0 /\ outcomes = {} /\ saved = {}
                         /\ noRecovery = {} /\ DOMAIN facts = {}
    /\ at \notin Waiting => books = BooksOf(job.schema, builtin)
    /\ at \notin {"upload", "refused"} => ~Refused(job.schema)

\* No step but the start takes other playbooks, and none another job.
LEMMA RunHolds == Spec => []RunInv
<1>1. Init => RunInv
  BY DEF Init, RunInv, Waiting
<1>2. RunInv /\ [Next]_vars => RunInv'
  <2> SUFFICES ASSUME RunInv, [Next]_vars PROVE RunInv'
    OBVIOUS
  <2> USE DEF RunInv, Waiting, given
  <2>1. CASE Upload
    BY <2>1 DEF Upload, Refused
  <2>2. CASE Start
    BY <2>2 DEF Start, Refused
  <2>3. CASE NextCell
    BY <2>3 DEF NextCell, Refused
  <2>4. CASE Ask
    BY <2>4 DEF Ask, Refused
  <2>5. ASSUME NEW r, at = "walk", Publish(r) PROVE RunInv'
    BY <2>5 DEF Publish, Refused
  <2>6. CASE Conclude
    BY <2>5, <2>6 DEF Conclude
  <2>7. CASE Raise
    BY <2>5, <2>7 DEF Raise
  <2>8. CASE Reconcile
    BY <2>8 DEF Reconcile, Refused
  <2>9. CASE UNCHANGED vars
    BY <2>9 DEF vars, Refused
  <2> QED BY <2>1, <2>2, <2>3, <2>4, <2>6, <2>7, <2>8, <2>9 DEF Next
<1> QED BY <1>1, <1>2, PTL DEF Spec

\* The cells of a run are its fields and documents, each once, by the order of the fields.
LEMMA CellsNamed ==
    ASSUME RunInv
    PROVE  /\ Placed(books) /\ DOMAIN job.docs = 1..Len(job.docs) /\ Len(job.docs) \in Nat
           /\ IsInjective(job.docs)
           /\ Range(Fields) = Selected(books, property) /\ Selected(books, property) \subseteq DOMAIN books
           /\ Cells \in Nat
           /\ \A n \in 1..Cells : FieldOf(n) \in Selected(books, property) /\ PlaceOf(n) \in DOMAIN job.docs
           /\ \A n, m \in 1..Cells : FieldOf(n) = FieldOf(m) /\ PlaceOf(n) = PlaceOf(m) => n = m
           /\ \A f \in Selected(books, property), d \in DOMAIN job.docs :
                \E n \in 1..Cells : FieldOf(n) = f /\ PlaceOf(n) = d
           /\ \A n, m \in 1..Cells : Before(books[FieldOf(n)], books[FieldOf(m)]) => n < m
<1> DEFINE S == Selected(books, property)
           F == Cardinality(S)
           D == Len(job.docs)
<1>1. Placed(books)
  BY JobsAssumption DEF RunInv
<1>2. DOMAIN job.docs = 1..D /\ D \in Nat /\ IsInjective(job.docs)
  BY JobsAssumption DEF RunInv
<1>3. /\ F \in Nat /\ S \subseteq DOMAIN books
      /\ Fields \in [1..F -> S]
      /\ \A i, k \in 1..F : Fields[i] = Fields[k] => i = k
      /\ \A id \in S : \E i \in 1..F : Fields[i] = id
      /\ \A i, k \in 1..F : Before(books[Fields[i]], books[Fields[k]]) => i < k
  BY <1>1, OrderLists DEF Fields
<1> HIDE DEF S, F, D
<1>4. Len(Fields) = F /\ Cells = F * D /\ Cells \in Nat
  <2>1. Len(Fields) = F
    BY <1>3
  <2> QED BY <1>2, <1>3, <2>1 DEF Cells, D
<1>5. Range(Fields) = S
  BY <1>3 DEF Range
<1> DEFINE row(n) == ((n - 1) \div D) + 1
<1>6. \A n \in 1..Cells : /\ row(n) \in 1..F /\ PlaceOf(n) \in 1..D /\ n = (row(n) - 1) * D + PlaceOf(n)
                          /\ FieldOf(n) = Fields[row(n)]
  BY <1>2, <1>3, <1>4, CellSplit DEF PlaceOf, FieldOf, D
<1> HIDE DEF row
<1>7. \A n \in 1..Cells : FieldOf(n) \in S /\ PlaceOf(n) \in DOMAIN job.docs
  BY <1>2, <1>3, <1>6
<1>8. \A n, m \in 1..Cells : FieldOf(n) = FieldOf(m) /\ PlaceOf(n) = PlaceOf(m) => n = m
  <2> SUFFICES ASSUME NEW n \in 1..Cells, NEW m \in 1..Cells, FieldOf(n) = FieldOf(m), PlaceOf(n) = PlaceOf(m)
               PROVE  n = m
    OBVIOUS
  <2>1. row(n) = row(m)
    BY <1>3, <1>6
  <2> QED BY <1>6, <2>1
<1>9. \A f \in S, d \in 1..D : \E n \in 1..Cells : FieldOf(n) = f /\ PlaceOf(n) = d
  <2> SUFFICES ASSUME NEW f \in S, NEW d \in 1..D PROVE \E n \in 1..Cells : FieldOf(n) = f /\ PlaceOf(n) = d
    OBVIOUS
  <2>1. PICK i \in 1..F : Fields[i] = f
    BY <1>3
  <2> DEFINE n == (i - 1) * D + d
  <2>2. n \in 1..Cells
    BY <1>2, <1>3, <1>4, CellJoin
  <2> HIDE DEF n
  <2>3. row(n) \in 1..F /\ PlaceOf(n) \in 1..D /\ n = (row(n) - 1) * D + PlaceOf(n) /\ FieldOf(n) = Fields[row(n)]
    BY <1>6, <2>2
  <2>4. (row(n) - 1) * D + PlaceOf(n) = (i - 1) * D + d
    BY <2>3 DEF n
  <2>5. row(n) = i /\ PlaceOf(n) = d
    <3>1. \A g, h \in 1..F, d1, d2 \in 1..D : (g - 1) * D + d1 = (h - 1) * D + d2 => g = h /\ d1 = d2
      BY <1>2, <1>3, CellJoin
    <3> QED BY <2>3, <2>4, <3>1
  <2> QED BY <2>1, <2>2, <2>3, <2>5
<1>10. \A n, m \in 1..Cells : Before(books[FieldOf(n)], books[FieldOf(m)]) => n < m
  <2> SUFFICES ASSUME NEW n \in 1..Cells, NEW m \in 1..Cells, Before(books[FieldOf(n)], books[FieldOf(m)])
               PROVE  n < m
    OBVIOUS
  <2>1. row(n) < row(m)
    BY <1>3, <1>6
  <2>2. (row(n) - 1) * D + PlaceOf(n) < (row(m) - 1) * D + PlaceOf(m)
    BY <1>2, <1>3, <1>6, <2>1, CellJoin
  <2> QED BY <1>6, <2>2
<1> QED BY <1>1, <1>2, <1>3, <1>4, <1>5, <1>7, <1>8, <1>9, <1>10 DEF S, D

----------------------------------------------------------------------------
(* Results *)

ResultFields == {"value", "times12", "raw", "conf", "clause", "review", "flagged"}

\* The result of a walk: never certain, and 40 if it is to be reviewed.
DrawnFits(r) == DOMAIN r = ResultFields /\ r.conf \in 0..90 /\ (r.review => r.conf = 40)

\* A result after its critique: one to be reviewed is not above what counts as low.
ResultFits(r) == DOMAIN r = ResultFields /\ r.conf \in 0..100 /\ (r.review => r.conf \in 1..49)

\* The results of a walk and of an error fit, and a value is one that the walk found.
Noted(w) ==
    {NoneText} \cup ({w.best} \ {Null}) \cup {FirstNumber[t] : t \in {w.best} \cap (DOMAIN FirstNumber \ {Null, NoneText})}

LEMMA OutcomesFit ==
    /\ \A pb, w, found : /\ DrawnFits(Outcome(pb, w, found))
                         /\ Outcome(pb, w, found).value \in Noted(w)
    /\ DrawnFits(Nothing) /\ Nothing.value = NoneText
    /\ DrawnFits(AgentError) /\ AgentError.value = NoneText
<1>1. ASSUME NEW pb, NEW w, NEW found
      PROVE  /\ DrawnFits(Outcome(pb, w, found))
             /\ Outcome(pb, w, found).value \in Noted(w)
  <2>1. Confidence(w) \in 0..90 /\ (w.review => Confidence(w) = 40)
    <3>1. CASE w.review
      BY <3>1 DEF Confidence
    <3>2. CASE ~w.review /\ w.best \in {Null, NoneText}
      BY <3>2 DEF Confidence
    <3>3. CASE ~w.review /\ w.best \notin {Null, NoneText}
      BY <3>3 DEF Confidence
    <3> QED BY <3>1, <3>2, <3>3
  <2>2. Normalized(pb, w) \in Noted(w)
    BY DEF Normalized, Noted, NoneTexts
  <2> DEFINE o == Outcome(pb, w, found)
  <2>3. DOMAIN o = ResultFields /\ o.conf = Confidence(w) /\ o.value = Normalized(pb, w)
    BY DEF Outcome, ResultFields
  <2>4. o.review <=> w.review
    BY DEF Outcome
  <2> HIDE DEF o
  <2> QED BY <2>1, <2>2, <2>3, <2>4 DEF DrawnFits, o
<1>2. DrawnFits(Nothing) /\ Nothing.value = NoneText
  BY <1>1 DEF Nothing, NoWalk, Outcome, Normalized
<1>3. DrawnFits(AgentError) /\ AgentError.value = NoneText
  BY <1>2 DEF AgentError, DrawnFits, ResultFields
<1> QED BY <1>1, <1>2, <1>3

\* A critique leaves the value, and what it refutes is low.
LEMMA CritiqueFits ==
    ASSUME NEW r, DrawnFits(r), NEW verdict \in Verdicts
    PROVE  ResultFits(Critiqued(r, verdict)) /\ Critiqued(r, verdict).value = r.value
<1> USE DEF DrawnFits, ResultFits, ResultFields
<1>1. CASE verdict = "failed"
  BY <1>1 DEF Critiqued
<1>2. CASE verdict = "supported"
  <2> DEFINE c == Min({95, r.conf + 5})
  <2>1. c \in {95, r.conf + 5} /\ c <= 95 /\ c <= r.conf + 5
    <3> DEFINE most == 95
               more == r.conf + 5
    <3>1. most \in Int /\ more \in Int /\ c = Min({most, more})
      OBVIOUS
    <3> HIDE DEF most, more, c
    <3>2. c \in {most, more} /\ c <= most /\ c <= more
      BY <3>1, OfTwo
    <3> QED BY <3>2 DEF most, more
  <2>2. Critiqued(r, verdict) = [r EXCEPT !.conf = c]
    BY <1>2 DEF Critiqued
  <2> HIDE DEF c
  <2> QED BY <2>1, <2>2
<1>3. CASE verdict = "refuted"
  <2> DEFINE c == Max({10, r.conf \div 2})
  <2>1. r.conf \div 2 \in 0..45
    OBVIOUS
  <2>2. c \in 10..45
    <3> DEFINE half == r.conf \div 2
    <3>1. half \in 0..45 /\ c = Max({10, half})
      BY <2>1
    <3> HIDE DEF half, c
    <3>2. Max({10, half}) \in {10, half} /\ Max({10, half}) >= 10
      BY <3>1, OfTwo
    <3> QED BY <3>1, <3>2
  <2>3. Critiqued(r, verdict) = [r EXCEPT !.conf = c, !.review = TRUE, !.flagged = TRUE]
    BY <1>3 DEF Critiqued
  <2> HIDE DEF c
  <2> QED BY <2>2, <2>3
<1> QED BY <1>1, <1>2, <1>3 DEF Verdicts

\* The values that post_process gives itself, and None.
Given == {NoneText, Undated, NoRecovery, Derived}

\* What an outcome may be: one to be reviewed that has a value of its own is low.
RowFits(o) ==
    /\ o.conf \in 0..100
    /\ o.review /\ o.value \notin Given => o.conf \in 1..49

\* Post-processing leaves it so.
LEMMA PostProcessFits ==
    ASSUME NEW r, ResultFits(r)
    PROVE  RowFits(PostProcess(r))
<1> USE DEF ResultFits, RowFits, ResultFields
<1>1. CASE Book.category = 1
  <2> DEFINE checked == IF r.value = NoneText /\ Field \in {"tenant_name", "landlord_name"}
                        THEN [r EXCEPT !.review = TRUE, !.flagged = TRUE] ELSE r
  <2>1. /\ DOMAIN checked = ResultFields /\ checked.conf = r.conf /\ checked.value = r.value
        /\ r.value # NoneText => checked = r
    OBVIOUS
  <2>2. PostProcess(r) = BasicInfo(r)
    BY <1>1 DEF PostProcess
  <2> HIDE DEF checked
  <2>3. CASE r.value = NoneText /\ Field = "lease_date"
    <3>1. BasicInfo(r) = [checked EXCEPT !.value = Undated]
      BY <2>3 DEF BasicInfo, TermField, checked
    <3> QED BY <2>1, <2>2, <3>1 DEF Given
  <2>4. CASE r.value = NoneText /\ Field = TermField /\ Label = BaseLease /\ TermDerived
    <3>1. BasicInfo(r) = [checked EXCEPT !.value = Derived, !.raw = TRUE, !.conf = 85]
      BY <2>4 DEF BasicInfo, TermField, checked
    <3> QED BY <2>1, <2>2, <3>1 DEF Given
  <2>5. CASE r.value # NoneText /\ Book.dated /\ r.value \in DOMAIN Dates
    <3>1. BasicInfo(r) = [r EXCEPT !.value = Dates[r.value].text]
      BY <2>1, <2>5 DEF BasicInfo, checked
    <3> QED BY <2>2, <3>1
  <2>6. CASE /\ ~(r.value = NoneText /\ Field = "lease_date")
             /\ ~(r.value = NoneText /\ Field = TermField /\ Label = BaseLease /\ TermDerived)
             /\ ~(r.value # NoneText /\ Book.dated /\ r.value \in DOMAIN Dates)
    <3>1. BasicInfo(r) = checked
      BY <2>6 DEF BasicInfo, checked
    <3> QED BY <2>1, <2>2, <3>1 DEF Given
  <2> QED BY <2>3, <2>4, <2>5, <2>6
<1>2. CASE Book.category = 2
  <2>1. PostProcess(r) = Financial(r)
    BY <1>2 DEF PostProcess
  <2> DEFINE most == 60
             c == Min({most, r.conf})
  <2>2. most \in Int /\ r.conf \in Int
    OBVIOUS
  <2> HIDE DEF most
  <2>3. c \in {most, r.conf} /\ c <= most /\ c <= r.conf
    BY <2>2, OfTwo
  <2>4. Financial(r) = IF Book.amount /\ r.value # NoneText /\ ~r.raw THEN [r EXCEPT !.conf = c] ELSE r
    BY DEF Financial, most
  <2> HIDE DEF c
  <2>5. c \in 0..100 /\ (r.conf \in 1..49 => c \in 1..49)
    BY <2>3 DEF most
  <2> QED BY <2>1, <2>4, <2>5
<1>3. CASE Book.category = 3
  BY <1>3 DEF PostProcess, Reimbursement, Given
<1>4. CASE Book.category \notin {1, 2, 3}
  BY <1>4 DEF PostProcess
<1> QED BY <1>1, <1>2, <1>3, <1>4

----------------------------------------------------------------------------
(* The cells that are done *)

\* A walk fits, and what it has found is what its playbook or the LLM may say.
WalkInv ==
    /\ WalkFits(walk)
    /\ at = "walk" => walk.best \in {Null, NoneText} \cup Spoken(Field)

\* The cells whose outcome is there: the one that is walked is not.
Closed == IF at = "walk" THEN cell - 1 ELSE cell
Names(o, n) == o.field = FieldOf(n) /\ o.doc = PlaceOf(n)

\* The outcomes are those of the cells done, one each.
CellsInv ==
    /\ cell \in 0..Cells
    /\ at = "walk" => cell >= 1
    /\ at \in {"reconcile", "done"} => cell = Cells
    /\ \A o \in outcomes : \E n \in 1..Closed : Names(o, n)
    /\ \A n \in 1..Closed : \E o \in outcomes : Names(o, n)
    /\ \A o, p \in outcomes : o.field = p.field /\ o.doc = p.doc => o = p

\* The cells are the same as long as the run has the same playbooks.
LEMMA SameCells ==
    ASSUME UNCHANGED <<job, books, property>>
    PROVE  /\ Fields' = Fields /\ Cells' = Cells
           /\ \A n : FieldOf(n)' = FieldOf(n) /\ PlaceOf(n)' = PlaceOf(n)
           /\ \A o, n : Names(o, n)' = Names(o, n)
           /\ \A f : Sayable(f)' = Sayable(f)
BY DEF Fields, Cells, FieldOf, PlaceOf, Names, Sayable, Spoken

\* The row of an outcome of the cell.
RowOf(o) ==
    [field |-> Field, doc |-> PlaceOf(cell), value |-> o.value, times12 |-> o.times12,
     conf |-> o.conf, clause |-> o.clause, review |-> o.review, flagged |-> o.flagged]

\* The cell that is walked is of a field of the run and one of its documents, and has no
\* outcome yet.
LEMMA OpenCell ==
    ASSUME RunInv, CellsInv, at = "walk"
    PROVE  /\ cell \in 1..Cells /\ Field \in Selected(books, property) /\ Field \in DOMAIN books
           /\ PlaceOf(cell) \in DOMAIN job.docs
           /\ \A o \in outcomes : ~(o.field = Field /\ o.doc = PlaceOf(cell))
           /\ \A o \in outcomes : \E n \in 1..(cell - 1) : Names(o, n)
<1>1. cell \in 1..Cells /\ Cells \in Nat
  BY CellsNamed DEF CellsInv
<1>2. Field = FieldOf(cell)
  BY DEF Field
<1>3. \A o \in outcomes : \E n \in 1..(cell - 1) : Names(o, n)
  BY DEF CellsInv, Closed
<1>4. ASSUME NEW o \in outcomes, o.field = Field, o.doc = PlaceOf(cell) PROVE FALSE
  <2>1. PICK n \in 1..(cell - 1) : Names(o, n)
    BY <1>3
  <2>2. n \in 1..Cells /\ n # cell
    BY <1>1
  <2> QED BY <1>1, <1>2, <1>4, <2>1, <2>2, CellsNamed DEF Names
<1> QED BY <1>1, <1>2, <1>3, <1>4, CellsNamed

\* The end of a walk publishes a result that fits.
LEMMA Published ==
    ASSUME RunInv, WalkInv, CellsInv, Conclude \/ Raise
    PROVE  /\ at = "walk"
           /\ \E r : Publish(r) /\ ResultFits(r) /\ r.value \in {NoneText} \cup Sayable(Field)
<1>1. CASE Conclude
  <2>1. PICK found \in BOOLEAN, verdict \in Verdicts :
          LET r == IF Book.questions = <<>> THEN Nothing ELSE Outcome(Book, walk, found)
          IN Publish(IF WantsCritique(Book, r) THEN Critiqued(r, verdict) ELSE r)
    BY <1>1 DEF Conclude
  <2> DEFINE r == IF Book.questions = <<>> THEN Nothing ELSE Outcome(Book, walk, found)
             s == IF WantsCritique(Book, r) THEN Critiqued(r, verdict) ELSE r
  <2>2. at = "walk" /\ Publish(s)
    BY <1>1, <2>1 DEF Conclude
  <2>3. DrawnFits(r) /\ r.value \in {NoneText} \cup Sayable(Field)
    <3>1. r = Nothing \/ r = Outcome(Book, walk, found)
      OBVIOUS
    <3> HIDE DEF r
    <3>2. Noted(walk) \subseteq {NoneText} \cup Sayable(Field)
      BY <2>2 DEF Noted, Sayable, WalkInv
    <3> QED BY <3>1, <3>2, OutcomesFit
  <2> HIDE DEF r
  <2>4. ResultFits(s) /\ s.value = r.value
    BY <2>3, CritiqueFits DEF DrawnFits, ResultFits
  <2> HIDE DEF s
  <2> QED BY <2>2, <2>3, <2>4
<1>2. CASE Raise
  BY <1>2, OutcomesFit DEF Raise, DrawnFits, ResultFits
<1> QED BY <1>1, <1>2

\* Publishing adds one row to the outcomes and the same one to what is saved.
LEMMA PublishAdds ==
    ASSUME NEW r, Publish(r)
    PROVE  /\ outcomes' = outcomes \cup {RowOf(PostProcess(r))}
           /\ saved' = saved \cup {RowOf(PostProcess(r))}
           /\ walk' = NoWalk /\ at' = "next"
           /\ UNCHANGED <<job, builtin, books, property, cell, report, final>>
BY DEF Publish, Emitted, RowOf, given

\* The steps of a run: to upload and start it, to begin a cell, to ask, to publish and to
\* reconcile.
LEMMA StepsOfARun ==
    ASSUME RunInv, WalkInv, CellsInv, [Next]_vars
    PROVE  \/ Upload \/ Start \/ NextCell \/ Ask \/ Reconcile \/ UNCHANGED vars
           \/ at = "walk" /\ \E r : Publish(r) /\ ResultFits(r) /\ r.value \in {NoneText} \cup Sayable(Field)
BY Published DEF Next

\* A run has some number of cells.
LEMMA CellsCounted == RunInv => Cells \in Nat
BY CellsNamed

\* The cells are kept: a field and a document get an outcome when their walk ends.
LEMMA CellsStep ==
    ASSUME RunInv, WalkInv, CellsInv, RunInv', [Next]_vars
    PROVE  CellsInv'
<1>1. ASSUME UNCHANGED <<job, books, property, cell, outcomes>>, Closed' = Closed,
             at' = at \/ at' \notin {"walk", "reconcile", "done"}
             \/ (at' \in {"reconcile", "done"} /\ cell = Cells)
      PROVE  CellsInv'
  BY <1>1, SameCells DEF CellsInv
<1>2. CASE Upload
  BY <1>1, <1>2 DEF Upload, Closed, given
<1>3. CASE Start
  <2>1. outcomes' = {} /\ cell' = 0 /\ at' = "next"
    BY <1>3 DEF Start, RunInv, Waiting
  <2>2. Cells' \in Nat
    <3>1. (RunInv => Cells \in Nat)'
      BY CellsCounted, PTL
    <3> QED BY <3>1
  <2> QED BY <2>1, <2>2 DEF CellsInv, Closed
<1>4. CASE NextCell
  <2>1. CASE cell < Cells
    <3>1. cell' = cell + 1 /\ at' = "walk" /\ at = "next" /\ UNCHANGED <<job, books, property, outcomes>>
      BY <1>4, <2>1 DEF NextCell, given
    <3>2. Closed' = Closed /\ cell + 1 \in 0..Cells
      BY <2>1, <3>1, CellsNamed DEF Closed, CellsInv
    <3> QED BY <3>1, <3>2, SameCells DEF CellsInv
  <2>2. CASE ~(cell < Cells)
    <3>1. cell = Cells
      BY <2>2, CellsNamed DEF CellsInv
    <3> QED BY <1>1, <1>4, <2>2, <3>1 DEF NextCell, Closed, given
  <2> QED BY <2>1, <2>2
<1>5. CASE Ask
  BY <1>1, <1>5 DEF Ask, Closed, given
<1>6. CASE Reconcile
  BY <1>1, <1>6 DEF Reconcile, Closed, CellsInv, given
<1>7. ASSUME at = "walk", NEW r, Publish(r) PROVE CellsInv'
  <2> DEFINE row == RowOf(PostProcess(r))
  <2>1. /\ outcomes' = outcomes \cup {row} /\ at' = "next"
        /\ UNCHANGED <<job, books, property, cell>>
    BY <1>7, PublishAdds
  <2>2. row.field = Field /\ row.doc = PlaceOf(cell) /\ Names(row, cell)
    BY DEF RowOf, Names, Field
  <2> HIDE DEF row
  <2>3. cell \in 1..Cells /\ Closed' = cell /\ Closed = cell - 1 /\ Cells \in Nat
    BY <1>7, <2>1, OpenCell, CellsNamed DEF Closed
  <2>4. \A o \in outcomes' : \E n \in 1..cell : Names(o, n)
    BY <1>7, <2>1, <2>2, <2>3, OpenCell
  <2>5. \A n \in 1..cell : \E o \in outcomes' : Names(o, n)
    <3> TAKE n \in 1..cell
    <3>1. CASE n = cell
      BY <2>1, <2>2, <3>1
    <3>2. CASE n # cell
      <4>1. n \in 1..Closed
        BY <2>3, <3>2
      <4> QED BY <2>1, <4>1 DEF CellsInv
    <3> QED BY <3>1, <3>2
  <2>6. \A o, p \in outcomes' : o.field = p.field /\ o.doc = p.doc => o = p
    BY <1>7, <2>1, <2>2, OpenCell DEF CellsInv
  <2> QED BY <2>1, <2>3, <2>4, <2>5, <2>6, SameCells DEF CellsInv
<1>8. CASE UNCHANGED vars
  BY <1>1, <1>8 DEF vars, Closed, given
<1> QED BY <1>2, <1>3, <1>4, <1>5, <1>6, <1>7, <1>8, StepsOfARun

\* The walk is kept: it begins with nothing and finds what it is told.
LEMMA WalkStep ==
    ASSUME RunInv, WalkInv, CellsInv, [Next]_vars
    PROVE  WalkInv'
<1>1. CASE Upload \/ Start \/ Reconcile \/ UNCHANGED vars
  <2>1. walk' = walk /\ (at' = "walk" => at = "walk" /\ UNCHANGED <<job, books, property, cell>>)
    BY <1>1 DEF Upload, Start, Reconcile, vars, given
  <2>2. at' = "walk" => Spoken(Field)' = Spoken(Field)
    BY <2>1 DEF Field, FieldOf, Fields, Spoken
  <2> QED BY <2>1, <2>2 DEF WalkInv
<1>2. CASE NextCell
  <2>1. CASE cell < Cells
    BY <1>2, <2>1, BegunFits DEF NextCell, WalkInv
  <2>2. CASE ~(cell < Cells)
    BY <1>2, <2>2 DEF NextCell, WalkInv
  <2> QED BY <2>1, <2>2
<1>3. CASE Ask
  <2> DEFINE q == Question(Book, walk)
  <2>1. PICK samples \in Samples(q, Field), hits \in BOOLEAN :
          walk' = After(Book, walk, Reply(q, samples), hits)
    BY <1>3 DEF Ask
  <2>2. at = "walk" /\ Walking(Book, walk) /\ at' = at /\ UNCHANGED <<job, books, property, cell>>
    BY <1>3 DEF Ask, given
  <2>3. WalkFits(walk') /\ walk'.best \in {walk.best, NoneText, Reply(q, samples).value, q.yes.literal, q.no.literal}
    BY <2>1, <2>2, TurnFits DEF WalkInv
  <2>4. Reply(q, samples).value \in {Null} \cup Spoken(Field)
    BY ReplyIsSaid DEF Spoken
  <2>5. q \in Range(books[Field].questions)
    <3>1. Book.questions \in Seq(Range(Book.questions))
      BY <2>2, OpenCell, CellsNamed DEF Placed, Book
    <3> QED BY <2>2, <3>1, QuestionIsOfBook DEF Book
  <2>6. {q.yes.literal, q.no.literal} \subseteq Spoken(Field)
    BY <2>5 DEF Spoken
  <2>7. Spoken(Field)' = Spoken(Field)
    BY <2>2 DEF Field, FieldOf, Fields, Spoken
  <2> HIDE DEF q
  <2> QED BY <2>2, <2>3, <2>4, <2>6, <2>7 DEF WalkInv
<1>4. ASSUME NEW r, Publish(r) PROVE WalkInv'
  BY <1>4, PublishAdds, BegunFits DEF WalkInv
<1> QED BY <1>1, <1>2, <1>3, <1>4, StepsOfARun

\* What is shared between the cells of a run, and what it has reported.
SharedInv ==
    /\ noRecovery \subseteq Range(job.docs)
    /\ DOMAIN facts \subseteq DOMAIN books
    /\ saved = outcomes
    /\ \A o \in outcomes : RowFits(o)
    /\ at = "done" => report = Report(outcomes)

\* Every outcome is given to on_result as it is kept.
LEMMA SharedStep ==
    ASSUME RunInv, WalkInv, CellsInv, SharedInv, [Next]_vars
    PROVE  SharedInv'
<1>1. CASE Upload \/ NextCell \/ Ask \/ UNCHANGED vars
  <2>1. /\ UNCHANGED <<job, books, facts, noRecovery, outcomes, saved, report>>
        /\ at' = "done" => at = "done"
    BY <1>1 DEF Upload, NextCell, Ask, vars, given
  <2> QED BY <2>1 DEF SharedInv
<1>2. CASE Start
  <2>1. /\ UNCHANGED <<job, facts, noRecovery, outcomes, saved>> /\ at' = "next"
        /\ noRecovery = {} /\ DOMAIN facts = {}
    BY <1>2 DEF Start, RunInv, Waiting, given
  <2> QED BY <2>1 DEF SharedInv
<1>3. CASE Reconcile
  <2>1. UNCHANGED <<job, books, facts, noRecovery, outcomes, saved>> /\ report' = Report(outcomes)
    BY <1>3 DEF Reconcile, given
  <2> QED BY <2>1 DEF SharedInv
<1>4. ASSUME at = "walk", NEW r, Publish(r), ResultFits(r) PROVE SharedInv'
  <2> DEFINE row == RowOf(PostProcess(r))
  <2>1. /\ outcomes' = outcomes \cup {row} /\ saved' = saved \cup {row} /\ at' = "next"
        /\ UNCHANGED <<job, books>>
    BY <1>4, PublishAdds
  <2>2. RowFits(row)
    BY <1>4, PostProcessFits DEF RowFits, RowOf
  <2> HIDE DEF row
  <2>3. noRecovery' \subseteq noRecovery \cup {Label}
    BY <1>4 DEF Publish
  <2>4. DOMAIN facts' \subseteq DOMAIN facts \cup {Field}
    BY <1>4 DEF Publish
  <2>5. Label \in Range(job.docs) /\ Field \in DOMAIN books
    BY <1>4, OpenCell DEF Label, Range
  <2> QED BY <2>1, <2>2, <2>3, <2>4, <2>5 DEF SharedInv
<1> QED BY <1>1, <1>2, <1>3, <1>4, StepsOfARun

\* All of it holds in every state.
LEMMA RunIsKept == Spec => [](RunInv /\ WalkInv /\ CellsInv /\ SharedInv)
<1>1. RunInv /\ Init => WalkInv /\ CellsInv /\ SharedInv
  BY BegunFits, CellsCounted DEF Init, WalkInv, CellsInv, SharedInv, Closed
<1>2. RunInv /\ RunInv' /\ (WalkInv /\ CellsInv /\ SharedInv) /\ [Next]_vars => (WalkInv /\ CellsInv /\ SharedInv)'
  BY CellsStep, WalkStep, SharedStep
<1> QED BY <1>1, <1>2, RunHolds, PTL DEF Spec

\* Every variable keeps its type; a walk never takes more than MAX_STEPS questions.
THEOREM TypeCorrect == Spec => []TypeOK
<1>1. RunInv /\ WalkInv /\ CellsInv /\ SharedInv => TypeOK
  <2> SUFFICES ASSUME RunInv, WalkInv, CellsInv, SharedInv PROVE TypeOK
    OBVIOUS
  <2>1. ASSUME NEW o \in outcomes PROVE o.field \in DOMAIN books /\ o.doc \in 1..Len(job.docs) /\ o.conf \in 0..100
    <3>1. PICK n \in 1..Closed : Names(o, n)
      BY DEF CellsInv
    <3>2. n \in 1..Cells
      BY CellsNamed DEF CellsInv, Closed
    <3> QED BY <3>1, <3>2, CellsNamed DEF Names, SharedInv, RowFits
  <2> QED BY <2>1 DEF TypeOK, RunInv, Waiting, WalkInv, WalkFits, CellsInv, SharedInv
<1> QED BY <1>1, RunIsKept, PTL

\* A refuted value is low, and named by the report and by the API.
THEOREM RefutedShown == Spec => []RefutedIsShown
<1>1. SharedInv => RefutedIsShown
  <2> SUFFICES ASSUME SharedInv, at = "done", NEW o \in outcomes, o.flagged, o.review,
                      o.value \notin {NoneText, Undated, NoRecovery, Derived}
               PROVE  /\ o.conf < 50 /\ o.field \in report.low \cap report.review
                      /\ o.field \in RedFlags(saved).low \cap RedFlags(saved).review
    BY DEF RefutedIsShown
  <2>1. o.conf \in 1..49
    BY DEF SharedInv, RowFits, Given
  <2>2. o.field \in Report(outcomes).low \cap Report(outcomes).review
    BY <2>1 DEF Report, Low
  <2>3. o.field \in RedFlags(outcomes).low \cap RedFlags(outcomes).review
    BY <2>1 DEF RedFlags
  <2> QED BY <2>1, <2>2, <2>3 DEF SharedInv
<1> QED BY <1>1, RunIsKept, PTL

----------------------------------------------------------------------------
(* The schema *)

\* A schema without errors lists known references and inline fields, no id twice.
LEMMA AcceptedSchema ==
    ASSUME NEW doc, NEW b, Errors(doc, b) = {}, DOMAIN doc.entries \subseteq Nat
    PROVE  /\ \A i \in DOMAIN doc.entries :
                \/ doc.entries[i].kind = "reference" /\ doc.entries[i].id \in DOMAIN b
                \/ doc.entries[i].kind = "inline"
           /\ \A i, j \in DOMAIN doc.entries : doc.entries[i].id = doc.entries[j].id => i = j
<1> DEFINE E(i) == CASE doc.entries[i].kind = "reference" -> ReferenceErrors(doc.entries, b, i)
                     [] doc.entries[i].kind = "inline" -> InlineErrors(doc.entries, b, i)
                     [] OTHER -> {"UNKNOWN_FIELD_SHAPE"}
<1>1. \A i \in DOMAIN doc.entries : E(i) = {}
  <2>1. UNION {E(i) : i \in DOMAIN doc.entries} = {}
    BY DEF Errors
  <2> HIDE DEF E
  <2> QED BY <2>1
<1>2. ASSUME NEW i \in DOMAIN doc.entries
      PROVE  /\ i \in Counted(doc.entries, b) /\ ~Repeated(doc.entries, b, i)
             /\ \/ doc.entries[i].kind = "reference" /\ doc.entries[i].id \in DOMAIN b
                \/ doc.entries[i].kind = "inline"
  <2>1. CASE doc.entries[i].kind = "reference"
    <3>1. ReferenceErrors(doc.entries, b, i) = {}
      BY <1>1, <2>1
    <3>2. doc.entries[i].id \in DOMAIN b /\ ~Repeated(doc.entries, b, i)
      BY <3>1 DEF ReferenceErrors
    <3> QED BY <2>1, <3>2 DEF Counted
  <2>2. CASE doc.entries[i].kind = "inline"
    <3>1. InlineErrors(doc.entries, b, i) = {}
      BY <1>1, <2>2
    <3>2. doc.entries[i].id # Null /\ ~Repeated(doc.entries, b, i)
      BY <3>1 DEF InlineErrors
    <3> QED BY <2>2, <3>2 DEF Counted
  <2>3. CASE doc.entries[i].kind \notin {"reference", "inline"}
    BY <1>1, <2>3
  <2> QED BY <2>1, <2>2, <2>3
<1>3. ASSUME NEW i \in DOMAIN doc.entries, NEW j \in DOMAIN doc.entries, doc.entries[i].id = doc.entries[j].id
      PROVE  i = j
  <2>1. ~(i < j) /\ ~(j < i)
    BY <1>2, <1>3 DEF Repeated
  <2> QED BY <2>1
<1> QED BY <1>2, <1>3

\* A field of such a schema whose questions have priorities is loaded as the schema says.
LEMMA LoadedField ==
    ASSUME NEW doc, NEW b, Errors(doc, b) = {}, DOMAIN doc.entries \subseteq Nat,
           NEW i \in DOMAIN doc.entries,
           doc.entries[i].kind # "reference" => Materialises(doc.entries[i])
    PROVE  LET e == doc.entries[i]
           IN /\ e.id \in DOMAIN Load(doc, b)
              /\ Load(doc, b)[e.id] = IF e.kind = "reference" THEN b[e.id] ELSE e.book
<1> DEFINE loaded == {k \in DOMAIN doc.entries : Loads(doc.entries[k], b)}
           LastOf(id) == CHOOSE k \in loaded : doc.entries[k].id = id
                           /\ \A j \in loaded : doc.entries[j].id = id => j <= k
           ids == {doc.entries[k].id : k \in loaded}
           id == doc.entries[i].id
<1>1. i \in loaded
  BY AcceptedSchema DEF Loads
<1>2. \A k \in loaded : doc.entries[k].id = id => k = i
  BY AcceptedSchema
<1>3. i <= i
  OBVIOUS
<1> DEFINE Latest(k) == doc.entries[k].id = id /\ \A j \in loaded : doc.entries[j].id = id => j <= k
<1>4. LastOf(id) = CHOOSE k \in loaded : Latest(k)
  OBVIOUS
<1>5. Latest(i) /\ \A k \in loaded : Latest(k) => k = i
  BY <1>2, <1>3
<1>6. Load(doc, b) = [f \in ids |-> IF doc.entries[LastOf(f)].kind = "reference" THEN b[f] ELSE doc.entries[LastOf(f)].book]
  BY DEF Load
<1> HIDE DEF loaded, LastOf, Latest
<1>7. LastOf(id) = i
  BY <1>1, <1>4, <1>5
<1>8. id \in ids
  BY <1>1
<1> QED BY <1>6, <1>7, <1>8

\* At the end every document has an outcome of every field of the run.
LEMMA AllReported ==
    ASSUME RunInv, CellsInv, at \in {"reconcile", "done"}, NEW f \in Selected(books, property)
    PROVE  Reported(f)
<1> SUFFICES ASSUME NEW d \in DOMAIN job.docs PROVE \E o \in outcomes : o.field = f /\ o.doc = d
  BY DEF Reported
<1>1. PICK n \in 1..Cells : FieldOf(n) = f /\ PlaceOf(n) = d
  BY CellsNamed
<1>2. Closed = Cells
  BY DEF CellsInv, Closed
<1> QED BY <1>1, <1>2 DEF CellsInv, Names

\* A run has an outcome for each field of its schema and each document.
THEOREM SchemaCovered == Spec => []SchemaIsCovered
<1>1. RunInv /\ CellsInv => SchemaIsCovered
  <2> SUFFICES ASSUME RunInv, CellsInv, at = "done", job.schema # NoSchema, NEW i \in DOMAIN job.schema.entries
               PROVE  LET e == job.schema.entries[i]
                          pb == IF e.kind = "reference" THEN builtin[e.id] ELSE e.book
                      IN \/ \E j \in DOMAIN pb.questions : ~pb.questions[j].priority
                         \/ pb.category = 0 \/ ~Applies(pb, property)
                         \/ Reported(e.id)
    BY DEF SchemaIsCovered
  <2> DEFINE e == job.schema.entries[i]
             pb == IF e.kind = "reference" THEN builtin[e.id] ELSE e.book
  <2>1. SUFFICES ASSUME \A j \in DOMAIN pb.questions : pb.questions[j].priority, pb.category # 0, Applies(pb, property)
                 PROVE  Reported(e.id)
    OBVIOUS
  <2>2. Errors(job.schema, builtin) = {} /\ books = Load(job.schema, builtin)
    BY DEF RunInv, Waiting, Refused, BooksOf
  <2>3. DOMAIN job.schema.entries \subseteq Nat
    BY JobsAssumption DEF RunInv
  <2>4. e.kind # "reference" => Materialises(e)
    BY <2>1 DEF Materialises
  <2>5. e.id \in DOMAIN books /\ books[e.id] = pb
    BY <2>2, <2>3, <2>4, LoadedField
  <2>6. e.id \in Selected(books, property)
    BY <2>1, <2>5 DEF Selected
  <2> QED BY <2>6, AllReported
<1> QED BY <1>1, RunIsKept, PTL

----------------------------------------------------------------------------
(* The compiled playbooks *)

\* A nonempty set of places of a list has its last place in it.
LEMMA LargestIsIn ==
    ASSUME NEW n \in Nat, NEW T, T \subseteq 1..n, T # {}
    PROVE  Max(T) \in T
<1> DEFINE left == {n - i : i \in T}
<1>1. left \subseteq Nat /\ left # {}
  <2>1. \A i \in T : n - i \in Nat
    OBVIOUS
  <2> QED BY <2>1
<1>2. PICK x \in T : n - x = Min(left)
  BY <1>1, LeastIsIn
<1>3. \A y \in T : x >= y
  <2> SUFFICES ASSUME NEW y \in T PROVE x >= y
    OBVIOUS
  <2>1. Min(left) <= n - y
    BY <1>1, LeastIsIn
  <2> HIDE DEF left
  <2> QED BY <1>2, <2>1
<1> QED BY <1>3 DEF Max

\* A heading that is an alias makes its field one of the guide, at its first place.
LEMMA HeadingHasFile ==
    ASSUME NEW n \in DOMAIN Guides, NEW k \in Headings(Guides[n].lines),
           Guides[n].lines[k].heading \in DOMAIN Alias
    PROVE  Alias[Guides[n].lines[k].heading] \in FieldsOf(Guides[n])
<1> DEFINE lines == Guides[n].lines
           i == Min(Same(lines, k))
<1>1. DOMAIN lines \subseteq Nat
  BY GuidesAssumption
<1>2. Same(lines, k) \subseteq Nat /\ k \in Same(lines, k)
  BY <1>1 DEF Same, Headings
<1>3. i \in Same(lines, k) /\ \A j \in Same(lines, k) : i <= j
  BY <1>2, LeastIsIn
<1> HIDE DEF i
<1>4. i \in Headings(lines) /\ lines[i].heading = lines[k].heading /\ Same(lines, i) = Same(lines, k)
  BY <1>3 DEF Same
<1>5. i \in Places(lines)
  BY <1>3, <1>4 DEF Places
<1> QED BY <1>4, <1>5 DEF FieldsOf, FieldAt

\* Every field that a guide or the sheet names is compiled, and has a category.
LEMMA CompiledFields ==
    /\ InGuides \cup {FieldOfName(Sheet[i].field) : i \in DOMAIN Sheet} \subseteq DOMAIN Compiled
    /\ \A f \in DOMAIN Compiled : Compiled[f].category # 0
<1> DEFINE NamingRows(f) == {i \in Unguided : FieldOfName(Sheet[i].field) = f}
           Having(f) == {n \in DOMAIN Guides : f \in FieldsOf(Guides[n])}
<1>1. Compiled = [f \in Guided \cup {FieldOfName(Sheet[i].field) : i \in Unguided} |->
                    IF NamingRows(f) # {} THEN OfSheet(Max(NamingRows(f))) ELSE OfGuide(LastGuide(f), f)]
  BY DEF Compiled
<1>2. InGuides \subseteq Guided
  BY HeadingHasFile DEF InGuides, Guided
<1>3. ASSUME NEW k \in DOMAIN Sheet, Sheet[k].field \notin Guided
      PROVE  \E i \in Unguided : Sheet[i].field = Sheet[k].field
  <2> DEFINE rows == {i \in DOMAIN Sheet : Sheet[i].field = Sheet[k].field}
  <2>1. rows \subseteq Nat /\ k \in rows
    BY GuidesAssumption
  <2>2. Min(rows) \in rows /\ \A j \in rows : Min(rows) <= j
    BY <2>1, LeastIsIn
  <2> QED BY <1>3, <2>2 DEF Unguided
<1>4. ASSUME NEW k \in DOMAIN Sheet, Sheet[k].field \in Guided
      PROVE  FieldOfName(Sheet[k].field) = Sheet[k].field
  <2>1. PICK n \in DOMAIN Guides : Sheet[k].field \in FieldsOf(Guides[n])
    BY <1>4 DEF Guided
  <2>2. PICK h \in DOMAIN Alias : Sheet[k].field = Alias[h]
    BY <2>1 DEF FieldsOf, FieldAt, Places
  <2> QED BY <2>2, AliasAssumption DEF FieldOfName
<1>5. ASSUME NEW f \in DOMAIN Compiled PROVE Compiled[f].category # 0
  <2>1. CASE NamingRows(f) # {}
    <3>1. Compiled[f] = OfSheet(Max(NamingRows(f)))
      BY <1>1, <1>5, <2>1
    <3>2. \A i : OfSheet(i).category # 0
      BY DEF OfSheet, Playbook, OtherClauses
    <3> QED BY <3>1, <3>2
  <2>2. CASE NamingRows(f) = {}
    <3>1. Compiled[f] = OfGuide(LastGuide(f), f) /\ f \in Guided
      BY <1>1, <1>5, <2>2
    <3>2. Having(f) # {}
      BY <3>1 DEF Guided
    <3>3. Len(Guides) \in Nat /\ Having(f) \subseteq 1..Len(Guides)
      BY GuidesAssumption
    <3>4. Max(Having(f)) \in DOMAIN Guides
      BY <3>2, <3>3, LargestIsIn
    <3>5. LastGuide(f).category # 0
      BY <3>4, GuidesAssumption DEF LastGuide
    <3> QED BY <3>1, <3>5 DEF OfGuide, Playbook
  <2> QED BY <2>1, <2>2
<1>6. Guided \subseteq DOMAIN Compiled /\ \A i \in Unguided : FieldOfName(Sheet[i].field) \in DOMAIN Compiled
  BY <1>1
<1> QED BY <1>2, <1>3, <1>4, <1>5, <1>6

\* A run without a schema has an outcome for each document and each field that a guide or
\* the sheet names.
THEOREM BuiltinCovered == Spec => []BuiltinIsCovered
<1>1. RunInv /\ CellsInv => BuiltinIsCovered
  <2> SUFFICES ASSUME RunInv, CellsInv, at = "done", job.schema = NoSchema,
                      NEW f \in InGuides \cup {FieldOfName(Sheet[i].field) : i \in DOMAIN Sheet}
               PROVE  f \in DOMAIN builtin /\ (Applies(builtin[f], property) => Reported(f))
    BY DEF BuiltinIsCovered
  <2>1. builtin = Compiled /\ books = builtin
    BY DEF RunInv, Waiting, BooksOf
  <2>2. f \in DOMAIN builtin /\ builtin[f].category # 0
    BY <2>1, CompiledFields
  <2>3. Applies(builtin[f], property) => f \in Selected(books, property)
    BY <2>1, <2>2 DEF Selected
  <2> QED BY <2>2, <2>3, AllReported
<1> QED BY <1>1, RunIsKept, PTL

----------------------------------------------------------------------------
(* The dates *)

\* In a run over one document the first date of a field is its value.
LEMMA OnlyDate ==
    ASSUME RunInv, CellsInv, Len(job.docs) = 1, NEW f, HasDate(outcomes, f)
    PROVE  \E t \in DOMAIN Dates :
             FirstDate(outcomes, f) = Dates[t] /\ Told(outcomes, f) = {t}
<1>1. PICK o \in Of(outcomes, f) : o.value \in DOMAIN Dates
  BY DEF HasDate
<1>2. \A p \in outcomes : p.doc = 1
  <2> TAKE p \in outcomes
  <2>1. PICK n \in 1..Closed : Names(p, n)
    BY DEF CellsInv
  <2>2. n \in 1..Cells
    BY CellsNamed DEF CellsInv, Closed
  <2> QED BY <2>1, <2>2, CellsNamed DEF Names
<1>3. o \in outcomes /\ \A p \in Of(outcomes, f) : p = o
  BY <1>1, <1>2 DEF Of, CellsInv
<1>4. FirstDate(outcomes, f) = Dates[o.value]
  <2> DEFINE First(q) == q.value \in DOMAIN Dates
                           /\ \A p \in Of(outcomes, f) : p.value \in DOMAIN Dates => q.doc <= p.doc
  <2>1. First(o)
    BY <1>1, <1>2, <1>3
  <2>2. FirstDate(outcomes, f) = Dates[(CHOOSE q \in Of(outcomes, f) : First(q)).value]
    BY DEF FirstDate
  <2> HIDE DEF First
  <2>3. (CHOOSE q \in Of(outcomes, f) : First(q)) = o
    BY <1>1, <1>3, <2>1
  <2> QED BY <2>2, <2>3
<1>5. Told(outcomes, f) = {o.value}
  BY <1>1, <1>3, DatesAssumption DEF Told
<1> QED BY <1>1, <1>4, <1>5

\* The report and the API agree on the order of two dates of one year and one document.
THEOREM DatesAgree == Spec => []DateChecksAgree
<1>1. RunInv /\ CellsInv /\ SharedInv => DateChecksAgree
  <2> SUFFICES ASSUME RunInv, CellsInv, SharedInv, at = "done", Len(job.docs) = 1, BothDates(outcomes),
                      Told(outcomes, LED) \cup Told(outcomes, LCD) \subseteq Written,
                      FirstDate(outcomes, LED).year = FirstDate(outcomes, LCD).year
               PROVE  DateVerdicts(saved) = {"DATE_INCONSISTENCY" \in report.codes}
    BY DEF DateChecksAgree
  <2>1. PICK t \in DOMAIN Dates : FirstDate(outcomes, LED) = Dates[t] /\ Told(outcomes, LED) = {t}
    BY OnlyDate DEF BothDates
  <2>2. PICK u \in DOMAIN Dates : FirstDate(outcomes, LCD) = Dates[u] /\ Told(outcomes, LCD) = {u}
    BY OnlyDate DEF BothDates
  <2>3. DateVerdicts(saved) = {Precedes(t, u)}
    BY <2>1, <2>2 DEF DateVerdicts, FirstValues, SharedInv
  <2>4. "DATE_INCONSISTENCY" \in report.codes <=> Dates[t].day < Dates[u].day
    <3>1. report = Report(outcomes)
      BY DEF SharedInv
    <3>2. "DATE_INCONSISTENCY" \in Report(outcomes).codes <=> ExpiresFirst(outcomes)
      BY DEF Report
    <3> QED BY <2>1, <2>2, <3>1, <3>2 DEF ExpiresFirst
  <2>5. Precedes(t, u) <=> Dates[t].day < Dates[u].day
    <3>1. Dates[t].text = t /\ Dates[u].text = u /\ Dates[t].year = Dates[u].year
      BY <2>1, <2>2 DEF Written
    <3> QED BY <3>1, DatesAssumption DEF Precedes
  <2>6. Precedes(t, u) = ("DATE_INCONSISTENCY" \in report.codes)
    <3>1. Precedes(t, u) \in BOOLEAN
      BY DEF Precedes
    <3>2. Precedes(t, u) <=> "DATE_INCONSISTENCY" \in report.codes
      BY <2>4, <2>5
    <3> QED BY <3>1, <3>2
  <2> QED BY <2>3, <2>6, Zenon
<1> QED BY <1>1, RunIsKept, PTL

----------------------------------------------------------------------------
(* The derived fields *)

\* The outcomes of the base lease are of one document of the run, one for each field.
LEMMA BaseIsOne ==
    ASSUME RunInv, CellsInv
    PROVE  /\ \A o \in outcomes : o.doc \in DOMAIN job.docs
           /\ \A o \in BaseOutcomes : /\ o \in outcomes /\ BaseLease \in Range(job.docs)
                                      /\ o.doc = CHOOSE d \in DOMAIN job.docs : job.docs[d] = BaseLease
           /\ \A o, p \in BaseOutcomes : o.field = p.field => o = p
<1>1. \A o \in outcomes : o.doc \in DOMAIN job.docs
  <2> TAKE o \in outcomes
  <2>1. PICK n \in 1..Closed : Names(o, n)
    BY DEF CellsInv
  <2>2. n \in 1..Cells
    BY CellsNamed DEF CellsInv, Closed
  <2> QED BY <2>1, <2>2, CellsNamed DEF Names
<1>2. \A d, e \in DOMAIN job.docs : job.docs[d] = job.docs[e] => d = e
  BY CellsNamed DEF IsInjective
<1>3. ASSUME NEW o \in BaseOutcomes
      PROVE  /\ o \in outcomes /\ BaseLease \in Range(job.docs)
             /\ o.doc = CHOOSE d \in DOMAIN job.docs : job.docs[d] = BaseLease
  <2>1. o \in outcomes /\ o.doc \in DOMAIN job.docs /\ job.docs[o.doc] = BaseLease
    BY <1>1 DEF BaseOutcomes
  <2>2. \A d \in DOMAIN job.docs : job.docs[d] = BaseLease => d = o.doc
    BY <1>2, <2>1
  <2> QED BY <2>1, <2>2 DEF Range
<1>4. \A o, p \in BaseOutcomes : o.field = p.field => o = p
  BY <1>3 DEF CellsInv
<1> QED BY <1>1, <1>3, <1>4

\* A derived field is made of real values: the one source of the commencement date, or
\* the parts of the address, which are no start dates.
LEMMA DerivedOfReal ==
    ASSUME NEW base, NEW x \in Derivations(base), NEW f \in x.sources
    PROVE  /\ \E p \in base : /\ p.field = f /\ p.value # NoneText
           /\ x.field = "canonical_commencement_date" =>
                \E p \in base : p.field = f /\ x.value = p.value
           /\ \/ f \notin Range(StartDates)
              \/ \A y \in Derivations(base) : y.field = "canonical_commencement_date" => f \in y.sources
<1> DEFINE dates == {[field |-> "canonical_commencement_date", sources |-> {o.field}, value |-> o.value, conf |-> o.conf] :
                       o \in {o \in base : o.field \in CommencementSource(base)}}
           best(S) == Max({o.conf : o \in {p \in base : p.field \in S}})
           addresses == {[field |-> "property_address", sources |-> S, value |-> Derived, conf |-> best(S)] :
                           S \in {AddressSources(base)} \ {{}}}
<1>1. Derivations(base) = dates \cup addresses
  BY Zenon DEF Derivations
<1> HIDE DEF best
<1>2. \A y \in dates : \E o \in base : /\ o.field \in CommencementSource(base) /\ y.sources = {o.field}
                                       /\ y.value = o.value /\ y.field = "canonical_commencement_date"
  OBVIOUS
<1>3. \A y \in addresses : y.sources = AddressSources(base) /\ y.field = "property_address"
  OBVIOUS
<1> HIDE DEF dates, addresses
<1>4. \A g \in CommencementSource(base) : Real(base, g)
  BY DEF CommencementSource
<1>5. \A g, h \in CommencementSource(base) : g = h
  BY DEF CommencementSource, StartDates
<1>6. \A g : Real(base, g) => \E p \in base : p.field = g /\ p.value # NoneText
  BY DEF Real, Of, NoneTexts
<1>7. CASE x \in dates
  <2>1. PICK o \in base : o.field \in CommencementSource(base) /\ x.sources = {o.field} /\ x.value = o.value
    BY <1>2, <1>7
  <2>2. \A y \in Derivations(base) : y.field = "canonical_commencement_date" => f \in y.sources
    <3> TAKE y \in Derivations(base)
    <3>1. ASSUME y.field = "canonical_commencement_date" PROVE y \in dates
      BY <1>1, <1>3, <3>1
    <3>2. y \in dates => \E p \in base : p.field \in CommencementSource(base) /\ y.sources = {p.field}
      BY <1>2
    <3> QED BY <1>5, <2>1, <3>1, <3>2
  <2> QED BY <1>4, <1>6, <2>1, <2>2
<1>8. CASE x \in addresses
  <2>1. f \in AddressSources(base) /\ x.field = "property_address"
    BY <1>3, <1>8
  <2>2. Real(base, f) /\ f \notin Range(StartDates)
    BY <2>1 DEF AddressSources, Range, StartDates, LCD
  <2> QED BY <1>6, <2>1, <2>2
<1> QED BY <1>1, <1>7, <1>8

\* The derived fields are made of values of the base lease that say so.
THEOREM DerivedFromBase == Spec => []DerivedFromBaseLease
<1> DEFINE Inv == (at # "done" => final = {}) /\ DerivedFromBaseLease
<1>1. Init => Inv
  BY DEF Init, DerivedFromBaseLease
<1>2. RunInv /\ WalkInv /\ CellsInv /\ SharedInv /\ Inv /\ [Next]_vars => Inv'
  <2> SUFFICES ASSUME RunInv, WalkInv, CellsInv, SharedInv, Inv, [Next]_vars PROVE Inv'
    OBVIOUS
  <2>1. ASSUME final' = {}, at' # "done" PROVE Inv'
    BY <2>1 DEF DerivedFromBaseLease
  <2>2. CASE UNCHANGED vars
    BY <2>2 DEF vars, given, DerivedFromBaseLease
  <2>3. CASE Upload \/ Start \/ NextCell \/ Ask
    BY <2>1, <2>3 DEF Upload, Start, NextCell, Ask
  <2>4. ASSUME at = "walk", NEW r, Publish(r) PROVE Inv'
    BY <2>1, <2>4, PublishAdds
  <2>5. CASE Reconcile
    <3> DEFINE derived == Derivations(BaseOutcomes)
               Own(o) == {p \in outcomes : p.doc = o.doc}
               Home == IF BaseLease \in Range(job.docs)
                       THEN CHOOSE d \in DOMAIN job.docs : job.docs[d] = BaseLease ELSE 1
               Plain(o) == [field |-> o.field, doc |-> o.doc, value |-> o.value, conf |-> o.conf, sources |-> {},
                            notes |-> Notes(Own(o), o.field, derived)]
               Made(x) == [field |-> x.field, doc |-> Home, value |-> x.value, conf |-> x.conf,
                           sources |-> x.sources, notes |-> {}]
    <3>1. final' = {Plain(o) : o \in outcomes} \cup {Made(x) : x \in derived}
      BY <2>5, Zenon DEF Reconcile
    <3>2. at' = "done" /\ UNCHANGED <<job, outcomes, saved>>
      BY <2>5 DEF Reconcile, given
    <3>3. ASSUME NEW x \in derived, NEW f \in x.sources
          PROVE  /\ \E o \in final' : /\ o.field = f /\ job.docs[o.doc] = BaseLease /\ o.value # NoneText
                                      /\ "feeds" \in o.notes /\ "overridden" \notin o.notes
                                      /\ x.field = "canonical_commencement_date" => x.value = o.value
                 /\ \E s \in saved : s.field = f /\ s.doc = Home
      <4>1. PICK p \in BaseOutcomes : p.field = f /\ p.value # NoneText
        BY <3>3, DerivedOfReal
      <4>2. x.field = "canonical_commencement_date" => x.value = p.value
        BY <3>3, <4>1, DerivedOfReal, BaseIsOne
      <4>3. p \in outcomes /\ job.docs[p.doc] = BaseLease /\ p.doc = Home
        BY <4>1, BaseIsOne DEF BaseOutcomes
      <4>4. "feeds" \in Notes(Own(p), f, derived)
        <5> HIDE DEF Own, derived
        <5> QED BY <3>3 DEF Notes
      <4>5. "overridden" \notin Notes(Own(p), f, derived)
        <5>1. \/ f \notin Range(StartDates)
              \/ \A y \in derived : y.field = "canonical_commencement_date" => f \in y.sources
          BY <3>3, DerivedOfReal
        <5> HIDE DEF Own, derived
        <5> QED BY <5>1 DEF Notes
      <4> HIDE DEF Own, derived, Home
      <4>6. /\ Plain(p).field = f /\ Plain(p).doc = p.doc /\ Plain(p).value = p.value
            /\ Plain(p).notes = Notes(Own(p), f, derived) /\ Plain(p) \in final'
        BY <3>1, <4>1, <4>3
      <4> HIDE DEF Plain
      <4> QED BY <4>1, <4>2, <4>3, <4>4, <4>5, <4>6 DEF SharedInv
    <3>4. \A o \in outcomes : Plain(o).sources = {}
      OBVIOUS
    <3>5. \A x \in derived : Made(x).field = x.field /\ Made(x).doc = Home /\ Made(x).value = x.value /\ Made(x).sources = x.sources
      OBVIOUS
    <3> HIDE DEF derived, Own, Home, Plain, Made
    <3>6. DerivedFromBaseLease'
      <4> SUFFICES ASSUME NEW d \in final', d.sources # {}, NEW f \in d.sources
                   PROVE  /\ \E o \in final' : /\ o.field = f /\ job.docs[o.doc] = BaseLease /\ o.value # NoneText
                                               /\ "feeds" \in o.notes /\ "overridden" \notin o.notes
                                               /\ d.field = "canonical_commencement_date" => d.value = o.value
                          /\ \E s \in saved : s.field = f /\ s.doc = d.doc
        BY <3>2 DEF DerivedFromBaseLease
      <4>1. PICK x \in derived : d = Made(x)
        BY <3>1, <3>4
      <4> QED BY <3>3, <3>5, <4>1
    <3> QED BY <3>2, <3>6
  <2> QED BY <2>2, <2>3, <2>4, <2>5, StepsOfARun
<1>3. Inv => DerivedFromBaseLease
  OBVIOUS
<1> QED BY <1>1, <1>2, <1>3, RunIsKept, PTL DEF Spec

----------------------------------------------------------------------------
(* Fields that depend on others *)

\* The base lease that an outcome is of has outcomes of both dates, which are dates.
DatesOf(o) ==
    /\ job.docs[o.doc] = BaseLease
    /\ \E p, q \in outcomes :
         /\ p.field = LCD /\ q.field = LED /\ p.doc = o.doc /\ q.doc = o.doc
         /\ {p.value, q.value} \subseteq DOMAIN Dates

\* What a field got from those before it, among the outcomes that are there.
FollowInv ==
    /\ \A o \in outcomes : job.docs[o.doc] = BaseLease /\ o.value # NoneText =>
         o.field \in DOMAIN facts /\ facts[o.field] = o.value
    /\ \A o \in outcomes : o.field = "cam" /\ o.value = NoRecovery /\ books["cam"].category = 3 =>
         job.docs[o.doc] \in noRecovery
    /\ \A l \in noRecovery : \E o \in outcomes : o.field = "cam" /\ job.docs[o.doc] = l /\ o.value = NoRecovery
    /\ \A o, p, q \in outcomes :
         /\ o.field = TermField /\ p.field = LCD /\ q.field = LED
         /\ job.docs[o.doc] = BaseLease /\ job.docs[p.doc] = BaseLease /\ job.docs[q.doc] = BaseLease
         /\ books[TermField].category = 1 /\ Needed(LCD) /\ Needed(LED)
         /\ {p.value, q.value} \subseteq DOMAIN Dates
         => o.value # NoneText
    /\ \A o, p \in outcomes :
         /\ o.field \in InheritingFields /\ p.field = "cam" /\ o.doc = p.doc
         /\ books[o.field].category = 3 /\ books["cam"].category = 3
         /\ o.value = NoneText /\ p.value = NoRecovery
         => books[o.field].name < books["cam"].name
    /\ \A o \in outcomes :
         /\ o.field \in InheritingFields /\ books[o.field].category = 3
         /\ o.value = NoRecovery /\ NoRecovery \notin Sayable(o.field)
         => \E p \in outcomes : p.field = "cam" /\ p.doc = o.doc /\ p.value = NoRecovery
    /\ \A f \in DOMAIN facts :
         \E o \in outcomes : o.field = f /\ job.docs[o.doc] = BaseLease /\ o.value = facts[f]
    /\ \A o \in outcomes :
         /\ o.field = TermField /\ books[TermField].category = 1
         /\ o.value = Derived /\ Derived \notin Sayable(TermField)
         => DatesOf(o)

\* The fields whose outcome is there do not come after the one that is walked.
LEMMA NoneAfter ==
    ASSUME RunInv, CellsInv, at = "walk", NEW o \in outcomes
    PROVE  /\ ~Before(books[Field], books[o.field])
           /\ o.field \in DOMAIN books /\ o.doc \in DOMAIN job.docs
<1>1. PICK n \in 1..(cell - 1) : Names(o, n)
  BY OpenCell
<1>2. n \in 1..Cells /\ cell \in 1..Cells /\ ~(cell < n)
  BY OpenCell, CellsNamed
<1>3. o.field = FieldOf(n) /\ o.doc = PlaceOf(n)
  BY <1>1 DEF Names
<1> QED BY <1>2, <1>3, CellsNamed DEF Field

\* What post-processing does to the values of the term and of the reimbursements.
LEMMA PostProcessValues ==
    ASSUME NEW r, ResultFits(r)
    PROVE  /\ Book.category = 1 /\ Field = TermField /\ Label = BaseLease /\ TermDerived =>
                PostProcess(r).value # NoneText
           /\ Book.category = 3 => PostProcess(r).value = IF Inherits(r) THEN NoRecovery ELSE r.value
           /\ Book.category = 1 /\ Field = TermField /\ PostProcess(r).value = Derived /\ r.value # Derived =>
                Label = BaseLease /\ TermDerived
<1> USE DEF ResultFits, ResultFields
<1>1. ASSUME Book.category = 1, Field = TermField, Label = BaseLease, TermDerived
      PROVE  PostProcess(r).value # NoneText
  <2>1. PostProcess(r) = BasicInfo(r)
    BY <1>1 DEF PostProcess
  <2>2. Field \notin {"tenant_name", "landlord_name", "lease_date"}
    BY <1>1 DEF TermField
  <2>3. CASE r.value = NoneText
    <3>1. BasicInfo(r) = [r EXCEPT !.value = Derived, !.raw = TRUE, !.conf = 85]
      BY <1>1, <2>2, <2>3 DEF BasicInfo
    <3> QED BY <2>1, <3>1 DEF Derived, NoneText
  <2>4. CASE r.value # NoneText /\ Book.dated /\ r.value \in DOMAIN Dates
    <3>1. BasicInfo(r) = [r EXCEPT !.value = Dates[r.value].text]
      BY <2>4 DEF BasicInfo
    <3> QED BY <2>1, <2>4, <3>1, DatesAssumption
  <2>5. CASE r.value # NoneText /\ ~(Book.dated /\ r.value \in DOMAIN Dates)
    <3>1. BasicInfo(r) = r
      BY <2>5 DEF BasicInfo
    <3> QED BY <2>1, <2>5, <3>1
  <2> QED BY <2>3, <2>4, <2>5
<1>2. ASSUME Book.category = 3 PROVE PostProcess(r).value = IF Inherits(r) THEN NoRecovery ELSE r.value
  BY <1>2 DEF PostProcess, Reimbursement
<1>3. ASSUME Book.category = 1, Field = TermField, PostProcess(r).value = Derived, r.value # Derived,
             ~(Label = BaseLease /\ TermDerived)
      PROVE  FALSE
  <2>1. PostProcess(r) = BasicInfo(r)
    BY <1>3 DEF PostProcess
  <2>2. Field \notin {"tenant_name", "landlord_name", "lease_date"}
    BY <1>3 DEF TermField
  <2>3. CASE r.value # NoneText /\ Book.dated /\ r.value \in DOMAIN Dates
    <3>1. BasicInfo(r) = [r EXCEPT !.value = Dates[r.value].text]
      BY <2>3 DEF BasicInfo
    <3> QED BY <1>3, <2>1, <2>3, <3>1, DatesAssumption
  <2>4. CASE ~(r.value # NoneText /\ Book.dated /\ r.value \in DOMAIN Dates)
    <3>1. BasicInfo(r) = r
      BY <1>3, <2>2, <2>4 DEF BasicInfo
    <3> QED BY <1>3, <2>1, <3>1
  <2> QED BY <2>3, <2>4
<1> QED BY <1>1, <1>2, <1>3

\* Publishing keeps it: the facts and the "No Recovery" documents are those of the
\* outcomes, and the fields a field depends on are there before it.
LEMMA FollowPublished ==
    ASSUME RunInv, CellsInv, FollowInv, at = "walk",
           NEW r, Publish(r), ResultFits(r), r.value \in {NoneText} \cup Sayable(Field)
    PROVE  FollowInv'
<1> DEFINE fixed == PostProcess(r)
           row == RowOf(fixed)
<1>1. outcomes' = outcomes \cup {row} /\ UNCHANGED <<job, books, property, cell>>
  BY PublishAdds
<1>2. row.field = Field /\ row.doc = PlaceOf(cell) /\ job.docs[row.doc] = Label /\ row.value = fixed.value
  BY DEF RowOf, Label
<1>3. /\ facts' = IF fixed.value # NoneText /\ Label = BaseLease
                  THEN [f \in DOMAIN facts \cup {Field} |-> IF f = Field THEN fixed.value ELSE facts[f]]
                  ELSE facts
      /\ noRecovery' = IF Book.category = 3 /\ Field = "cam" /\ r.value = NoRecovery
                       THEN noRecovery \cup {Label} ELSE noRecovery
  BY DEF Publish
<1>4. /\ Book.category = 1 /\ Field = TermField /\ Label = BaseLease /\ TermDerived => fixed.value # NoneText
      /\ Book.category = 3 => fixed.value = IF Inherits(r) THEN NoRecovery ELSE r.value
      /\ Book.category = 1 /\ Field = TermField /\ fixed.value = Derived /\ r.value # Derived =>
           Label = BaseLease /\ TermDerived
  BY PostProcessValues
<1>5. Field \in DOMAIN books /\ Book = books[Field] /\ PlaceOf(cell) \in DOMAIN job.docs
  BY OpenCell DEF Book
<1>6. \A o \in outcomes : ~(o.field = Field /\ o.doc = PlaceOf(cell))
  BY OpenCell
<1>7. \A d, e \in DOMAIN job.docs : job.docs[d] = job.docs[e] => d = e
  BY CellsNamed DEF IsInjective
<1>8. \A o \in outcomes : /\ ~Before(books[Field], books[o.field])
                          /\ o.field \in DOMAIN books /\ o.doc \in DOMAIN job.docs
  BY NoneAfter
<1>9. \A f : Sayable(f)' = Sayable(f) /\ Needed(f)' = Needed(f)
  BY <1>1 DEF Sayable, Spoken, Needed
<1>10. "cam" \notin InheritingFields /\ TermField # LCD /\ TermField # LED /\ LCD # LED
  BY DEF InheritingFields, TermField, LCD, LED
<1> HIDE DEF fixed, row
<1>11. ASSUME NEW o \in outcomes', job.docs[o.doc] = BaseLease, o.value # NoneText
       PROVE  o.field \in DOMAIN facts' /\ facts'[o.field] = o.value
  <2>1. CASE o = row
    BY <1>2, <1>3, <1>11, <2>1
  <2>2. CASE o \in outcomes
    <3>1. o.field \in DOMAIN facts /\ facts[o.field] = o.value
      BY <1>11, <2>2 DEF FollowInv
    <3>2. Label = BaseLease => o.field # Field
      BY <1>2, <1>5, <1>6, <1>7, <1>8, <1>11, <2>2
    <3> QED BY <1>3, <3>1, <3>2
  <2> QED BY <1>1, <2>1, <2>2
<1>12. ASSUME NEW o \in outcomes', o.field = "cam", o.value = NoRecovery, books["cam"].category = 3
       PROVE  job.docs[o.doc] \in noRecovery'
  <2>1. CASE o = row
    BY <1>2, <1>3, <1>4, <1>5, <1>10, <1>12, <2>1 DEF Inherits
  <2>2. CASE o \in outcomes
    BY <1>3, <1>12, <2>2 DEF FollowInv
  <2> QED BY <1>1, <2>1, <2>2
<1>13. ASSUME NEW l \in noRecovery'
       PROVE  \E o \in outcomes' : o.field = "cam" /\ job.docs[o.doc] = l /\ o.value = NoRecovery
  <2>1. CASE l \in noRecovery
    BY <1>1, <2>1 DEF FollowInv
  <2>2. CASE l \notin noRecovery
    <3>1. Book.category = 3 /\ Field = "cam" /\ r.value = NoRecovery /\ l = Label
      BY <1>3, <1>13, <2>2
    <3>2. row.value = NoRecovery
      BY <1>2, <1>4, <1>10, <3>1 DEF Inherits
    <3> QED BY <1>1, <1>2, <3>1, <3>2
  <2> QED BY <2>1, <2>2
<1>14. ASSUME NEW o \in outcomes', NEW p \in outcomes', NEW q \in outcomes',
              o.field = TermField, p.field = LCD, q.field = LED,
              job.docs[o.doc] = BaseLease, job.docs[p.doc] = BaseLease, job.docs[q.doc] = BaseLease,
              books[TermField].category = 1, Needed(LCD), Needed(LED), {p.value, q.value} \subseteq DOMAIN Dates
       PROVE  o.value # NoneText
  <2>1. CASE o = row
    <3>1. p \in outcomes /\ q \in outcomes /\ Field = TermField /\ Label = BaseLease
      BY <1>1, <1>2, <1>10, <1>14, <2>1
    <3>2. /\ LCD \in DOMAIN facts /\ facts[LCD] = p.value
          /\ LED \in DOMAIN facts /\ facts[LED] = q.value
      BY <1>14, <3>1, DatesAssumption DEF FollowInv
    <3>3. TermDerived
      BY <1>14, <3>2 DEF TermDerived
    <3> QED BY <1>2, <1>4, <1>5, <1>14, <2>1, <3>1, <3>3
  <2>2. CASE o \in outcomes /\ (p = row \/ q = row)
    <3>1. Before(books[Field], books[o.field])
      BY <1>2, <1>14, <2>2 DEF Needed, Before
    <3> QED BY <1>8, <2>2, <3>1
  <2>3. CASE o \in outcomes /\ p \in outcomes /\ q \in outcomes
    BY <1>14, <2>3 DEF FollowInv
  <2> QED BY <1>1, <2>1, <2>2, <2>3
<1>15. ASSUME NEW o \in outcomes', NEW p \in outcomes', o.field \in InheritingFields, p.field = "cam", o.doc = p.doc,
              books[o.field].category = 3, books["cam"].category = 3, o.value = NoneText, p.value = NoRecovery
       PROVE  books[o.field].name < books["cam"].name
  <2>1. CASE o = row
    <3>1. p \in outcomes
      BY <1>1, <1>2, <1>10, <1>15, <2>1
    <3>2. Label \in noRecovery
      BY <1>2, <1>15, <2>1, <3>1 DEF FollowInv
    <3>3. fixed.value = NoneText /\ Book.category = 3 /\ Field \in InheritingFields
      BY <1>2, <1>5, <1>15, <2>1
    <3>4. FALSE
      BY <1>4, <3>2, <3>3 DEF Inherits, NoRecovery, NoneText
    <3> QED BY <3>4
  <2>2. CASE o \in outcomes /\ p = row
    <3>1. Field = "cam" /\ o.field \in DOMAIN books /\ o.field # "cam" /\ "cam" \in DOMAIN books
      BY <1>2, <1>5, <1>8, <1>10, <1>15, <2>2
    <3>2. ~Before(books["cam"], books[o.field])
      BY <1>8, <2>2, <3>1
    <3>3. /\ books["cam"].name \in Nat /\ books[o.field].name \in Nat
          /\ books["cam"].name # books[o.field].name
      BY <1>15, <3>1, CellsNamed DEF Placed
    <3> QED BY <1>15, <3>2, <3>3 DEF Before
  <2>3. CASE o \in outcomes /\ p \in outcomes
    BY <1>15, <2>3 DEF FollowInv
  <2> QED BY <1>1, <2>1, <2>2, <2>3
<1>16. ASSUME NEW o \in outcomes', o.field \in InheritingFields, books[o.field].category = 3,
              o.value = NoRecovery, NoRecovery \notin Sayable(o.field)
       PROVE  \E p \in outcomes' : p.field = "cam" /\ p.doc = o.doc /\ p.value = NoRecovery
  <2>1. CASE o = row
    <3>1. Inherits(r)
      BY <1>2, <1>4, <1>5, <1>16, <2>1 DEF NoRecovery, NoneText
    <3>2. PICK p \in outcomes : p.field = "cam" /\ job.docs[p.doc] = Label /\ p.value = NoRecovery
      BY <3>1 DEF Inherits, FollowInv
    <3>3. p.doc = o.doc
      BY <1>2, <1>5, <1>7, <1>8, <2>1, <3>2
    <3> QED BY <1>1, <3>2, <3>3
  <2>2. CASE o \in outcomes
    BY <1>1, <1>16, <2>2 DEF FollowInv
  <2> QED BY <1>1, <2>1, <2>2
<1>17. ASSUME NEW f \in DOMAIN facts'
       PROVE  \E o \in outcomes' : o.field = f /\ job.docs[o.doc] = BaseLease /\ o.value = facts'[f]
  <2>1. CASE f = Field /\ fixed.value # NoneText /\ Label = BaseLease
    BY <1>1, <1>2, <1>3, <2>1
  <2>2. CASE ~(f = Field /\ fixed.value # NoneText /\ Label = BaseLease)
    <3>1. f \in DOMAIN facts /\ facts'[f] = facts[f]
      BY <1>3, <1>17, <2>2
    <3> QED BY <1>1, <3>1 DEF FollowInv
  <2> QED BY <2>1, <2>2
<1>18. ASSUME NEW o \in outcomes', o.field = TermField, books[TermField].category = 1,
              o.value = Derived, Derived \notin Sayable(TermField)
       PROVE  DatesOf(o)'
  <2>1. CASE o = row
    <3>1. Label = BaseLease /\ TermDerived
      BY <1>2, <1>4, <1>5, <1>18, <2>1 DEF Derived, NoneText
    <3>2. PICK p \in outcomes : p.field = LCD /\ job.docs[p.doc] = BaseLease /\ p.value = facts[LCD]
      BY <3>1 DEF TermDerived, FollowInv
    <3>3. PICK q \in outcomes : q.field = LED /\ job.docs[q.doc] = BaseLease /\ q.value = facts[LED]
      BY <3>1 DEF TermDerived, FollowInv
    <3>4. p.doc = o.doc /\ q.doc = o.doc /\ job.docs[o.doc] = BaseLease
      BY <1>2, <1>5, <1>7, <1>8, <2>1, <3>1, <3>2, <3>3
    <3>5. {p.value, q.value} \subseteq DOMAIN Dates
      BY <3>1, <3>2, <3>3 DEF TermDerived
    <3> QED BY <1>1, <3>2, <3>3, <3>4, <3>5 DEF DatesOf
  <2>2. CASE o \in outcomes
    BY <1>1, <1>18, <2>2 DEF FollowInv, DatesOf
  <2> QED BY <1>1, <2>1, <2>2
<1> QED BY <1>1, <1>9, <1>11, <1>12, <1>13, <1>14, <1>15, <1>16, <1>17, <1>18 DEF FollowInv

\* The value that a finished run has saved of a field is that of its outcome.
LEMMA ValueOfOutcome ==
    ASSUME RunInv, CellsInv, SharedInv, at = "done", NEW f, Has(f), NEW d \in DOMAIN job.docs
    PROVE  \E o \in outcomes : o.field = f /\ o.doc = d /\ Value(f, d) = o.value
<1>1. f \in Selected(books, property)
  BY CellsNamed DEF Has
<1>2. PICK o \in outcomes : o.field = f /\ o.doc = d
  BY <1>1, AllReported DEF Reported
<1>3. (CHOOSE p \in saved : p.field = f /\ p.doc = d) = o
  <2>1. saved = outcomes
    BY DEF SharedInv
  <2>2. \A p \in saved : p.field = f /\ p.doc = d => p = o
    BY <1>2, <2>1 DEF CellsInv
  <2> QED BY <1>2, <2>1, <2>2
<1> QED BY <1>2, <1>3 DEF Value

\* The fields of the outcomes are fields of the run.
LEMMA FieldsOfOutcomes ==
    ASSUME RunInv, CellsInv, NEW o \in outcomes
    PROVE  Has(o.field)
<1>1. PICK n \in 1..Closed : Names(o, n)
  BY DEF CellsInv
<1>2. n \in 1..Cells
  BY <1>1, CellsNamed DEF Closed, CellsInv
<1> QED BY <1>1, <1>2, CellsNamed DEF Names, Has

\* A field that depends on others is saved with the value from those before it, and a term
\* is derived from dates only.
THEOREM DependentsHold == Spec => []DependentsFollow
<1>1. RunInv /\ Init => FollowInv
  BY DEF Init, FollowInv
<1>2. RunInv /\ WalkInv /\ CellsInv /\ FollowInv /\ [Next]_vars => FollowInv'
  <2> SUFFICES ASSUME RunInv, WalkInv, CellsInv, FollowInv, [Next]_vars PROVE FollowInv'
    OBVIOUS
  <2>1. CASE Upload \/ NextCell \/ Ask \/ Reconcile \/ UNCHANGED vars
    <3>1. UNCHANGED <<job, books, facts, noRecovery, outcomes>>
      BY <2>1 DEF Upload, NextCell, Ask, Reconcile, vars, given
    <3>2. \A f : Sayable(f)' = Sayable(f) /\ Needed(f)' = Needed(f)
      BY <3>1 DEF Sayable, Spoken, Needed
    <3>3. \A o : DatesOf(o)' = DatesOf(o)
      BY <3>1 DEF DatesOf
    <3> QED BY <3>1, <3>2, <3>3 DEF FollowInv
  <2>2. CASE Start
    <3>1. outcomes' = {} /\ noRecovery' = {} /\ DOMAIN facts' = {}
      BY <2>2 DEF Start, RunInv, Waiting
    <3> QED BY <3>1 DEF FollowInv
  <2> QED BY <2>1, <2>2, FollowPublished, StepsOfARun
<1>3. RunInv /\ CellsInv /\ SharedInv /\ FollowInv => DependentsFollow
  <2> SUFFICES ASSUME RunInv, CellsInv, SharedInv, FollowInv, at = "done", NEW d \in DOMAIN job.docs
               PROVE  /\ (/\ Has(TermField) /\ Has(LCD) /\ Has(LED) /\ job.docs[d] = BaseLease
                          /\ books[TermField].category = 1 /\ Needed(LCD) /\ Needed(LED)
                          /\ {Value(LCD, d), Value(LED, d)} \subseteq DOMAIN Dates)
                           => Value(TermField, d) # NoneText
                      /\ (/\ Has(TermField) /\ books[TermField].category = 1
                          /\ Value(TermField, d) = Derived /\ Derived \notin Sayable(TermField))
                           => /\ Has(LCD) /\ Has(LED) /\ job.docs[d] = BaseLease
                              /\ {Value(LCD, d), Value(LED, d)} \subseteq DOMAIN Dates
                      /\ \A f \in InheritingFields :
                           Has(f) /\ Has("cam") /\ books[f].category = 3 /\ books["cam"].category = 3 =>
                             /\ Value(f, d) = NoneText /\ Value("cam", d) = NoRecovery =>
                                  books[f].name < books["cam"].name
                             /\ Value(f, d) = NoRecovery /\ NoRecovery \notin Sayable(f) => Value("cam", d) = NoRecovery
    BY DEF DependentsFollow
  <2>1. ASSUME Has(TermField), Has(LCD), Has(LED), job.docs[d] = BaseLease,
               books[TermField].category = 1, Needed(LCD), Needed(LED),
               {Value(LCD, d), Value(LED, d)} \subseteq DOMAIN Dates
        PROVE  Value(TermField, d) # NoneText
    <3>1. PICK o \in outcomes : o.field = TermField /\ o.doc = d /\ Value(TermField, d) = o.value
      BY <2>1, ValueOfOutcome
    <3>2. PICK p \in outcomes : p.field = LCD /\ p.doc = d /\ Value(LCD, d) = p.value
      BY <2>1, ValueOfOutcome
    <3>3. PICK q \in outcomes : q.field = LED /\ q.doc = d /\ Value(LED, d) = q.value
      BY <2>1, ValueOfOutcome
    <3> QED BY <2>1, <3>1, <3>2, <3>3 DEF FollowInv
  <2>2. ASSUME NEW f \in InheritingFields, Has(f), Has("cam"), books[f].category = 3, books["cam"].category = 3
        PROVE  /\ Value(f, d) = NoneText /\ Value("cam", d) = NoRecovery => books[f].name < books["cam"].name
               /\ Value(f, d) = NoRecovery /\ NoRecovery \notin Sayable(f) => Value("cam", d) = NoRecovery
    <3>1. PICK o \in outcomes : o.field = f /\ o.doc = d /\ Value(f, d) = o.value
      BY <2>2, ValueOfOutcome
    <3>2. PICK p \in outcomes : p.field = "cam" /\ p.doc = d /\ Value("cam", d) = p.value
      BY <2>2, ValueOfOutcome
    <3>3. \A q \in outcomes : q.field = "cam" /\ q.doc = d => q = p
      BY <3>2 DEF CellsInv
    <3>4. o.value = NoneText /\ p.value = NoRecovery => books[f].name < books["cam"].name
      BY <2>2, <3>1, <3>2 DEF FollowInv
    <3>5. o.value = NoRecovery /\ NoRecovery \notin Sayable(f) => p.value = NoRecovery
      <4> SUFFICES ASSUME o.value = NoRecovery, NoRecovery \notin Sayable(f) PROVE p.value = NoRecovery
        OBVIOUS
      <4>1. PICK q \in outcomes : q.field = "cam" /\ q.doc = o.doc /\ q.value = NoRecovery
        BY <2>2, <3>1 DEF FollowInv
      <4> QED BY <3>1, <3>3, <4>1
    <3> QED BY <3>1, <3>2, <3>4, <3>5
  <2>3. ASSUME Has(TermField), books[TermField].category = 1,
               Value(TermField, d) = Derived, Derived \notin Sayable(TermField)
        PROVE  /\ Has(LCD) /\ Has(LED) /\ job.docs[d] = BaseLease
               /\ {Value(LCD, d), Value(LED, d)} \subseteq DOMAIN Dates
    <3>1. PICK o \in outcomes : o.field = TermField /\ o.doc = d /\ Value(TermField, d) = o.value
      BY <2>3, ValueOfOutcome
    <3>2. DatesOf(o)
      BY <2>3, <3>1 DEF FollowInv
    <3>3. PICK p \in outcomes, q \in outcomes :
            /\ p.field = LCD /\ q.field = LED /\ p.doc = d /\ q.doc = d
            /\ {p.value, q.value} \subseteq DOMAIN Dates
      BY <3>1, <3>2 DEF DatesOf
    <3>4. Has(LCD) /\ Has(LED)
      BY <3>3, FieldsOfOutcomes
    <3>5. PICK u \in outcomes : u.field = LCD /\ u.doc = d /\ Value(LCD, d) = u.value
      BY <3>4, ValueOfOutcome
    <3>6. PICK v \in outcomes : v.field = LED /\ v.doc = d /\ Value(LED, d) = v.value
      BY <3>4, ValueOfOutcome
    <3>7. u = p /\ v = q
      BY <3>3, <3>5, <3>6 DEF CellsInv
    <3> QED BY <3>1, <3>2, <3>3, <3>4, <3>5, <3>6, <3>7 DEF DatesOf
  <2> QED BY <2>1, <2>2, <2>3
<1> QED BY <1>1, <1>2, <1>3, RunIsKept, PTL DEF Spec

----------------------------------------------------------------------------
(* How long a run may take *)

\* A turn of the loop counts one step, whatever branch it takes.
LEMMA TurnCounts ==
    ASSUME NEW pb, NEW w, WalkFits(w), NEW reply, NEW hits
    PROVE  After(pb, w, reply, hits).steps = w.steps + 1
<1> DEFINE q == Question(pb, w)
           told == w.flagged \/ (q.redFlag /\ reply.answer = "YES")
           counted == [w EXCEPT !.steps = @ + 1, !.flagged = told]
           stashed == Stashed(counted, reply, hits)
           b == BranchOf(q, reply.answer)
           Counts(v) == /\ DOMAIN v = {"qid", "steps", "best", "raw", "clause", "monthly", "review", "flagged"}
                        /\ v.steps = w.steps + 1
<1> HIDE DEF told
<1>1. Counts(counted)
  BY DEF WalkFits
<1> HIDE DEF counted
<1>2. Counts(stashed)
  BY <1>1 DEF Stashed
<1> HIDE DEF stashed, b
<1>3. Counts(Followed(stashed, b))
  BY <1>2 DEF Followed
<1> QED BY <1>3 DEF After, counted, told, stashed, b

\* What a cell takes: to begin it, its questions, and to publish its outcome.
PerCell == MaxSteps + 2

\* The most steps a run that has started has left: the cells not begun, what the walk under
\* way may take, the end of the loop and the reconciliation.
StepsLeft ==
    CASE at = "next" -> 2 + (Cells - cell) * PerCell
      [] at = "walk" -> 3 + (Cells - cell) * PerCell + (MaxSteps - walk.steps)
      [] at = "reconcile" -> 1
      [] OTHER -> 0

\* Every step of a run that has started uses one up.
StepsAreUsed == at \in {"next", "walk", "reconcile"} => StepsLeft' < StepsLeft

\* A cell less to begin is what it takes less.
LEMMA CellLess ==
    ASSUME NEW c \in Nat, NEW k \in 0..c
    PROVE  /\ (c - k) * PerCell \in Nat /\ PerCell = MaxSteps + 2
           /\ (c - k) * PerCell <= c * PerCell
           /\ k > 0 => (c - k) * PerCell <= c * PerCell - PerCell
           /\ k < c => (c - (k + 1)) * PerCell = (c - k) * PerCell - PerCell
<1>1. PerCell \in Nat /\ PerCell = MaxSteps + 2
  BY MaxStepsAssumption DEF PerCell
<1> HIDE DEF PerCell
<1>2. c - k \in Nat /\ k \in Nat
  OBVIOUS
<1>3. \A m \in Nat : m * PerCell \in Nat
  BY <1>1
<1>4. c * PerCell = (c - k) * PerCell + k * PerCell
  BY <1>1, <1>2
<1>5. (c - (k + 1)) * PerCell = (c - k) * PerCell - PerCell
  BY <1>1, <1>2
<1>6. ASSUME k > 0 PROVE k * PerCell >= PerCell
  <2>1. k - 1 \in Nat
    BY <1>2, <1>6
  <2>2. k * PerCell = (k - 1) * PerCell + PerCell
    BY <1>1, <1>2
  <2> QED BY <1>1, <1>3, <2>1, <2>2
<1>7. (c - k) * PerCell \in Nat /\ k * PerCell \in Nat /\ c * PerCell \in Nat
  BY <1>2, <1>3
<1> QED BY <1>1, <1>4, <1>5, <1>6, <1>7

\* What a run that has started has left is bounded by its cells.
LEMMA StepsBounded ==
    ASSUME RunInv, WalkInv, CellsInv
    PROVE  StepsLeft \in 0..(2 + Cells * PerCell)
<1>1. Cells \in Nat /\ cell \in 0..Cells /\ walk.steps \in 0..MaxSteps /\ MaxSteps \in Nat
  BY CellsCounted, MaxStepsAssumption DEF CellsInv, WalkInv, WalkFits
<1> DEFINE left == (Cells - cell) * PerCell
           all == Cells * PerCell
<1>2. /\ left \in Nat /\ PerCell = MaxSteps + 2 /\ left <= all
      /\ cell > 0 => left <= all - PerCell
  BY <1>1, CellLess
<1>3. all \in Nat
  <2>1. (Cells - 0) * PerCell \in Nat /\ Cells - 0 = Cells
    BY <1>1, CellLess
  <2> QED BY <2>1
<1>4. at = "walk" => cell > 0
  BY <1>1 DEF CellsInv
<1> HIDE DEF left, all, PerCell
<1> QED BY <1>1, <1>2, <1>3, <1>4 DEF StepsLeft, left, all

\* A step brings a started run nearer to its end.
LEMMA RunUsesStep ==
    ASSUME RunInv, WalkInv, CellsInv, [Next]_vars, ~UNCHANGED vars, at \in {"next", "walk", "reconcile"}
    PROVE  StepsLeft' < StepsLeft
<1>1. Cells \in Nat /\ cell \in 0..Cells /\ walk.steps \in 0..MaxSteps /\ MaxSteps \in Nat
  BY CellsCounted, MaxStepsAssumption DEF CellsInv, WalkInv, WalkFits
<1> DEFINE left == (Cells - cell) * PerCell
           fewer == (Cells - (cell + 1)) * PerCell
<1>2. left \in Nat /\ (cell < Cells => fewer = left - (MaxSteps + 2))
  BY <1>1, CellLess
<1> HIDE DEF left, fewer
<1>3. CASE Upload \/ Start
  BY <1>3 DEF Upload, Start
<1>4. CASE NextCell
  <2>1. at = "next" /\ UNCHANGED <<job, books, property>>
    BY <1>4 DEF NextCell, given
  <2>2. CASE cell < Cells
    <3>1. cell' = cell + 1 /\ at' = "walk" /\ walk'.steps = 0
      BY <1>4, <2>2 DEF NextCell, Begun, NoWalk
    <3>2. StepsLeft' = 3 + fewer + MaxSteps
      BY <1>1, <2>1, <3>1, SameCells DEF StepsLeft, PerCell, fewer
    <3>3. StepsLeft = 2 + left
      BY <2>1 DEF StepsLeft, left
    <3> QED BY <1>1, <1>2, <2>2, <3>2, <3>3
  <2>3. CASE ~(cell < Cells)
    BY <1>2, <1>4, <2>1, <2>3 DEF NextCell, StepsLeft, left
  <2> QED BY <2>2, <2>3
<1>5. CASE Ask
  <2>1. at = "walk" /\ at' = "walk" /\ Walking(Book, walk) /\ UNCHANGED <<job, books, property, cell>>
    BY <1>5 DEF Ask, given
  <2>2. walk'.steps = walk.steps + 1
    BY <1>5, TurnCounts DEF Ask, WalkInv
  <2>3. StepsLeft = 3 + left + (MaxSteps - walk.steps)
    BY <2>1 DEF StepsLeft, left
  <2>4. StepsLeft' = 3 + left + (MaxSteps - (walk.steps + 1))
    BY <2>1, <2>2, SameCells DEF StepsLeft, left, PerCell
  <2> QED BY <1>1, <1>2, <2>3, <2>4
<1>6. ASSUME at = "walk", NEW r, Publish(r) PROVE StepsLeft' < StepsLeft
  <2>1. at' = "next" /\ UNCHANGED <<job, books, property, cell>>
    BY <1>6, PublishAdds
  <2>2. StepsLeft' = 2 + left
    BY <2>1, SameCells DEF StepsLeft, left, PerCell
  <2>3. StepsLeft = 3 + left + (MaxSteps - walk.steps)
    BY <1>6 DEF StepsLeft, left
  <2> QED BY <1>1, <1>2, <2>2, <2>3
<1>7. CASE Reconcile
  BY <1>7 DEF Reconcile, StepsLeft
<1> QED BY <1>3, <1>4, <1>5, <1>6, <1>7, StepsOfARun

\* A run that has started is over after at most MAX_STEPS + 2 steps for each field and
\* document and two more, whatever its branches, cycles among them, and whatever the LLM
\* says: every step of it takes one (playbook_executor.py:174, coordinator.py:171-250).
THEOREM RunsRunOut ==
    Spec => /\ [](StepsLeft \in 0..(2 + Cells * PerCell))
            /\ [][StepsAreUsed]_vars
<1>1. RunInv /\ WalkInv /\ CellsInv => StepsLeft \in 0..(2 + Cells * PerCell)
  BY StepsBounded
<1>2. RunInv /\ WalkInv /\ CellsInv /\ [Next]_vars => [StepsAreUsed]_vars
  BY RunUsesStep DEF StepsAreUsed
<1> QED BY <1>1, <1>2, RunIsKept, PTL DEF Spec
====
