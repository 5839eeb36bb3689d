---- MODULE Retrieval_proofs ----
(* What the searches of a worker find, for any documents, queries, vectors and *)
(* cut-offs, and what the threads of a process share.                          *)
EXTENDS Retrieval, FiniteSetTheorems, WellFoundedInduction, TLAPS

----------------------------------------------------------------------------
(* Sorting and cutting *)

\* s has each member of S once.
Lists(s, S) == s \in Seq(S) /\ IsInjective(s) /\ Range(s) = S

\* A sort by a strict order of a finite set lists the set.
LEMMA SortLists ==
    ASSUME NEW S, IsFiniteSet(S), NEW R,
           \A x, y \in S : x = y \/ <<x, y>> \in R \/ <<y, x>> \in R,
           \A x \in S : <<x, x>> \notin R,
           \A x, y, z \in S : <<x, y>> \in R /\ <<y, z>> \in R => <<x, z>> \in R
    PROVE  Lists(Listed(S, R), S)
<1> DEFINE n == Cardinality(S)
           Lower(x) == {y \in S : <<y, x>> \in R}
           rank == [x \in S |-> Cardinality(Lower(x))]
           s == Listed(S, R)
<1>1. n \in Nat
  BY FS_CardinalityType
<1>2. ASSUME NEW x \in S PROVE IsFiniteSet(Lower(x)) /\ rank[x] \in 0..(n - 1)
  <2>1. Lower(x) \subseteq S \ {x}
    OBVIOUS
  <2>2. IsFiniteSet(S \ {x}) /\ Cardinality(S \ {x}) = n - 1
    BY FS_RemoveElement
  <2> HIDE DEF Lower
  <2>3. IsFiniteSet(Lower(x)) /\ Cardinality(Lower(x)) <= n - 1
    BY <2>1, <2>2, FS_Subset
  <2> QED BY <1>1, <2>3, FS_CardinalityType
<1>3. ASSUME NEW x \in S, NEW y \in S, <<x, y>> \in R PROVE rank[x] # rank[y]
  <2>1. Lower(x) \subseteq Lower(y) /\ x \in Lower(y) /\ x \notin Lower(x)
    BY <1>3
  <2>2. IsFiniteSet(Lower(y))
    BY <1>2
  <2> HIDE DEF Lower
  <2>3. Cardinality(Lower(x)) # Cardinality(Lower(y))
    BY <2>1, <2>2, FS_Subset
  <2> QED BY <2>3
<1> HIDE DEF rank, Lower
<1>4. \A x, y \in S : rank[x] = rank[y] => x = y
  BY <1>3
<1>5. \A i \in 0..(n - 1) : \E x \in S : rank[x] = i
  <2>1. rank \in [S -> 0..(n - 1)]
    BY <1>2 DEF rank
  <2> HIDE DEF n
  <2>2. IsFiniteSet(0..(n - 1)) /\ Cardinality(0..(n - 1)) = n
    BY <1>1, FS_Interval, n - 1 \in Int, 0 \in Int
  <2>3. rank \in Injection(S, 0..(n - 1))
    BY <1>4, <2>1 DEF Injection, IsInjective
  <2>4. rank \in Surjection(S, 0..(n - 1))
    <3>1. Cardinality(S) = Cardinality(0..(n - 1))
      BY <2>2 DEF n
    <3> QED BY <2>2, <2>3, <3>1, FS_Injection
  <2> QED BY <2>4 DEF Surjection
<1>6. s = [i \in 1..n |-> CHOOSE x \in S : Cardinality(Lower(x)) = i - 1]
  BY DEF Listed, Lower
<1> HIDE DEF n, s
<1>7. \A i \in 1..n : s[i] \in S /\ rank[s[i]] = i - 1
  <2> TAKE i \in 1..n
  <2>1. PICK x \in S : rank[x] = i - 1
    BY <1>1, <1>5
  <2>2. \A y \in S : rank[y] = Cardinality(Lower(y))
    BY DEF rank
  <2> QED BY <1>6, <2>1, <2>2
<1>8. s \in [1..n -> S] /\ \A i, k \in 1..n : s[i] = s[k] => i = k
  BY <1>1, <1>6, <1>7
<1>9. \A x \in S : \E i \in 1..n : s[i] = x
  <2> TAKE x \in S
  <2>1. rank[x] \in 0..(n - 1) /\ rank[x] + 1 \in 1..n
    BY <1>1, <1>2
  <2>2. s[rank[x] + 1] \in S /\ rank[s[rank[x] + 1]] = rank[x]
    BY <1>7, <2>1
  <2> QED BY <1>4, <2>1, <2>2
<1>10. s \in Seq(S) /\ Range(s) = S /\ IsInjective(s)
  BY <1>1, <1>8, <1>9 DEF Range, IsInjective
<1> QED BY <1>10 DEF Lists, s

\* The least of two numbers.
LEMMA LeastOfTwo ==
    ASSUME NEW a \in Nat, NEW b \in Nat
    PROVE  Min({a, b}) \in {a, b} /\ Min({a, b}) <= a /\ Min({a, b}) <= b
<1>1. \E x \in {a, b} : \A y \in {a, b} : x <= y
  OBVIOUS
<1>2. Min({a, b}) \in {a, b} /\ \A y \in {a, b} : Min({a, b}) <= y
  BY <1>1 DEF Min
<1> QED BY <1>2

\* The first of a list: none of them is new or twice, and some are left.
LEMMA UpLists ==
    ASSUME NEW S, NEW s \in Seq(S), NEW k \in Nat \ {0}
    PROVE  /\ Up(s, k) \in Seq(S) /\ Range(Up(s, k)) \subseteq Range(s)
           /\ IsInjective(s) => IsInjective(Up(s, k))
           /\ Up(s, k) = <<>> <=> s = <<>>
<1> DEFINE m == Min({k, Len(s)})
<1>1. m \in Nat /\ m <= Len(s) /\ (m = 0 <=> Len(s) = 0)
  BY LeastOfTwo
<1>2. Up(s, k) = SubSeq(s, 1, m)
  BY DEF Up
<1> HIDE DEF m
<1>3. /\ SubSeq(s, 1, m) \in Seq(S) /\ Len(SubSeq(s, 1, m)) = m
      /\ \A i \in 1..m : SubSeq(s, 1, m)[i] = s[i]
  BY <1>1
<1>4. DOMAIN SubSeq(s, 1, m) = 1..m /\ DOMAIN s = 1..Len(s)
  BY <1>3
<1> QED BY <1>1, <1>2, <1>3, <1>4 DEF Range, IsInjective

\* What lists a set, cut off, is a list of members of the set.
LEMMA UpOfLists ==
    ASSUME NEW S, NEW s, Lists(s, S), NEW k \in Nat \ {0}
    PROVE  /\ Up(s, k) \in Seq(S) /\ Range(Up(s, k)) \subseteq S /\ IsInjective(Up(s, k))
           /\ Up(s, k) = <<>> <=> S = {}
<1>1. s \in Seq(S) /\ IsInjective(s) /\ Range(s) = S
  BY DEF Lists
<1>2. s = <<>> <=> S = {}
  BY <1>1 DEF Range
<1> QED BY <1>1, <1>2, UpLists

\* Two lists without a common member, one after the other.
LEMMA JoinedLists ==
    ASSUME NEW S, NEW s \in Seq(S), NEW r \in Seq(S), IsInjective(s), IsInjective(r),
           Range(s) \cap Range(r) = {}
    PROVE  s \o r \in Seq(S) /\ IsInjective(s \o r) /\ Range(s \o r) = Range(s) \cup Range(r)
<1>1. /\ s \o r \in Seq(S) /\ Len(s \o r) = Len(s) + Len(r)
      /\ \A i \in 1..Len(s) : (s \o r)[i] = s[i]
      /\ \A i \in 1..Len(r) : (s \o r)[Len(s) + i] = r[i]
  OBVIOUS
<1> DEFINE u == s \o r
<1>2. DOMAIN s = 1..Len(s) /\ DOMAIN r = 1..Len(r) /\ DOMAIN u = 1..(Len(s) + Len(r))
  BY <1>1
<1>3. /\ Len(s) \in Nat /\ Len(r) \in Nat
      /\ \A i \in 1..Len(s) : u[i] = s[i] /\ s[i] \in Range(s)
      /\ \A i \in DOMAIN u : i \in 1..Len(s) \/ (i - Len(s) \in 1..Len(r) /\ u[i] = r[i - Len(s)] /\ u[i] \in Range(r))
  <2>1. \A i \in DOMAIN u : i \in 1..Len(s) \/ (i - Len(s) \in 1..Len(r) /\ i = Len(s) + (i - Len(s)))
    BY <1>2
  <2> QED BY <1>1, <1>2, <2>1 DEF Range
<1> HIDE DEF u
<1>4. ASSUME NEW i \in DOMAIN u, NEW k \in DOMAIN u, u[i] = u[k] PROVE i = k
  <2>1. CASE i \in 1..Len(s) /\ k \in 1..Len(s)
    BY <1>2, <1>3, <1>4, <2>1 DEF IsInjective
  <2>2. CASE i \notin 1..Len(s) /\ k \notin 1..Len(s)
    <3>1. i - Len(s) = k - Len(s)
      BY <1>2, <1>3, <1>4, <2>2 DEF IsInjective
    <3> QED BY <1>2, <1>3, <3>1
  <2> QED BY <1>3, <1>4, <2>1, <2>2
<1>5. Range(u) = Range(s) \cup Range(r)
  <2>1. Range(u) \subseteq Range(s) \cup Range(r)
    BY <1>3 DEF Range
  <2>2. \A i \in DOMAIN s : s[i] \in Range(u)
    BY <1>2, <1>3 DEF Range
  <2>3. \A i \in DOMAIN r : r[i] \in Range(u)
    <3> TAKE i \in DOMAIN r
    <3>1. Len(s) + i \in DOMAIN u /\ u[Len(s) + i] = r[i]
      BY <1>1, <1>2, <1>3 DEF u
    <3> QED BY <3>1 DEF Range
  <2> QED BY <2>1, <2>2, <2>3 DEF Range
<1> QED BY <1>1, <1>4, <1>5 DEF u, IsInjective

\* The place of a member of a list.
LEMMA PlaceIsThere ==
    ASSUME NEW S, NEW s \in Seq(S), NEW i \in Range(s)
    PROVE  Place(s, i) \in 1..Len(s) /\ s[Place(s, i)] = i
BY DEF Place, Range

\* A part of a corpus is finite.
LEMMA PartsAreFinite ==
    ASSUME NEW E, NEW c \in Seq(E), NEW S \in SUBSET DOMAIN c
    PROVE  IsFiniteSet(S)
<1>1. DOMAIN c = 1..Len(c) /\ Len(c) \in Int /\ 1 \in Int
  OBVIOUS
<1>2. IsFiniteSet(1..Len(c))
  BY <1>1, FS_Interval
<1> QED BY <1>1, <1>2, FS_Subset

----------------------------------------------------------------------------
(* The searches *)

\* A ranking lists the places it ranks.
LEMMA RankedLists ==
    ASSUME NEW S \in SUBSET Nat, IsFiniteSet(S), NEW score, \A i \in S : score[i] \in Int
    PROVE  Lists(Ranked(S, score), S)
<1> DEFINE R == {p \in S \X S : score[p[1]] > score[p[2]] \/ (score[p[1]] = score[p[2]] /\ p[1] < p[2])}
<1>1. \A x, y \in S : <<x, y>> \in R <=> score[x] > score[y] \/ (score[x] = score[y] /\ x < y)
  OBVIOUS
<1>2. Ranked(S, score) = Listed(S, R)
  BY DEF Ranked
<1> HIDE DEF R
<1>3. \A x, y \in S : x = y \/ <<x, y>> \in R \/ <<y, x>> \in R
  <2> TAKE x \in S, y \in S
  <2>1. score[x] \in Int /\ score[y] \in Int /\ x \in Nat /\ y \in Nat
    OBVIOUS
  <2> QED BY <1>1, <2>1
<1>4. \A x \in S : <<x, x>> \notin R
  BY <1>1
<1>5. \A x, y, z \in S : <<x, y>> \in R /\ <<y, z>> \in R => <<x, z>> \in R
  BY <1>1
<1>6. Lists(Listed(S, R), S)
  BY <1>3, <1>4, <1>5, SortLists
<1> QED BY <1>2, <1>6

\* What of found is new lists the clauses whose references old does not have.
LEMMA FreshLists ==
    ASSUME NEW E, NEW c \in Seq(E), NEW old, NEW found \in Seq(DOMAIN c), IsInjective(found)
    PROVE  Lists(Fresh(c, old, found), {i \in Range(found) : \A h \in Range(old) : Ref(c[i]) # Ref(c[h])})
<1> DEFINE S == {i \in Range(found) : \A h \in Range(old) : Ref(c[i]) # Ref(c[h])}
           R == {p \in S \X S : Place(found, p[1]) < Place(found, p[2])}
<1>1. \A x, y \in S : <<x, y>> \in R <=> Place(found, x) < Place(found, y)
  OBVIOUS
<1>2. Fresh(c, old, found) = Listed(S, R)
  BY DEF Fresh
<1>3. S \subseteq Range(found) /\ Range(found) \subseteq DOMAIN c
  BY DEF Range
<1>4. IsFiniteSet(S)
  BY <1>3, PartsAreFinite
<1> HIDE DEF S, R
<1>5. \A x \in S : Place(found, x) \in Nat /\ found[Place(found, x)] = x
  BY <1>3, PlaceIsThere
<1>6. \A x, y \in S : x = y \/ <<x, y>> \in R \/ <<y, x>> \in R
  <2> TAKE x \in S, y \in S
  <2>1. Place(found, x) = Place(found, y) => x = y
    BY <1>5
  <2> QED BY <1>1, <1>5, <2>1
<1>7. \A x \in S : <<x, x>> \notin R
  BY <1>1, <1>5
<1>8. \A x, y, z \in S : <<x, y>> \in R /\ <<y, z>> \in R => <<x, z>> \in R
  BY <1>1, <1>5
<1>9. Lists(Listed(S, R), S)
  BY <1>4, <1>6, <1>7, <1>8, SortLists
<1> QED BY <1>2, <1>9 DEF S

\* A search by words finds clauses of the document, each once.
LEMMA SearchFinds ==
    ASSUME NEW E, NEW c \in Seq(E), NEW q, q.words \in [1..Len(c) -> Int], NEW label
    PROVE  LET found == Search(c, q, label)
           IN found \in Seq(DOMAIN c) /\ IsInjective(found) /\ \A i \in Range(found) : c[i].label = label
<1> DEFINE S == OfDocument(c, WithWords(c, q), label)
<1>1. S \subseteq DOMAIN c /\ DOMAIN c = 1..Len(c) /\ \A i \in S : c[i].label = label
  BY DEF OfDocument, WithWords
<1>2. Search(c, q, label) = Up(Ranked(S, q.words), Deep)
  BY DEF Search
<1> HIDE DEF S
<1>3. IsFiniteSet(S)
  BY <1>1, PartsAreFinite
<1>4. Lists(Ranked(S, q.words), S)
  BY <1>1, <1>3, RankedLists
<1>5. Deep \in Nat \ {0}
  BY BoundsAssumption
<1>6. Search(c, q, label) \in Seq(S) /\ Range(Search(c, q, label)) \subseteq S /\ IsInjective(Search(c, q, label))
  BY <1>2, <1>4, <1>5, UpOfLists
<1> QED BY <1>1, <1>6

\* A search by vectors too.
LEMMA NearFinds ==
    ASSUME NEW E, NEW c \in Seq(E), NEW v \in {<<>>} \cup [DOMAIN c -> BOOLEAN],
           NEW q, q.near \in [1..Len(c) -> Int], NEW label
    PROVE  LET found == Near(c, v, q, label)
           IN found \in Seq(DOMAIN c) /\ IsInjective(found) /\ \A i \in Range(found) : c[i].label = label
<1>1. CASE q.blank \/ v = <<>>
  <2>1. Near(c, v, q, label) = <<>>
    BY <1>1 DEF Near
  <2> QED BY <2>1 DEF IsInjective, Range
<1>2. CASE ~(q.blank \/ v = <<>>)
  <2> DEFINE S == OfDocument(c, {i \in DOMAIN c : v[i]}, label)
  <2>1. S \subseteq DOMAIN c /\ DOMAIN c = 1..Len(c) /\ \A i \in S : c[i].label = label
    BY DEF OfDocument
  <2>2. Near(c, v, q, label) = Up(Ranked(S, q.near), Pool)
    BY <1>2 DEF Near
  <2> HIDE DEF S
  <2>3. IsFiniteSet(S)
    BY <2>1, PartsAreFinite
  <2>4. Lists(Ranked(S, q.near), S)
    BY <2>1, <2>3, RankedLists
  <2>5. Pool \in Nat \ {0}
    BY BoundsAssumption
  <2>6. Near(c, v, q, label) \in Seq(S) /\ Range(Near(c, v, q, label)) \subseteq S /\ IsInjective(Near(c, v, q, label))
    BY <2>2, <2>4, <2>5, UpOfLists
  <2> QED BY <2>1, <2>6
<1> QED BY <1>1, <1>2

\* The hybrid search finds clauses of the document, each once, and some wherever the
\* search by words finds some.
LEMMA HybridFinds ==
    ASSUME NEW E, NEW c \in Seq(E), NEW v \in {<<>>} \cup [DOMAIN c -> BOOLEAN],
           NEW q, {q.words, q.near} \subseteq [1..Len(c) -> Int], NEW label
    PROVE  LET found == Hybrid(c, v, q, label)
           IN /\ found \in Seq(DOMAIN c) /\ IsInjective(found) /\ \A i \in Range(found) : c[i].label = label
              /\ Search(c, q, label) # <<>> => found # <<>>
<1> DEFINE near == Near(c, v, q, label)
           words == Up(Ranked(WithWords(c, q), q.words), Pool)
           own == OfDocument(c, Range(words) \cup Range(near), label)
           Seen(i) == IF i \in Range(words) THEN Place(words, i) ELSE Len(words) + Place(near, i)
           Sum(i) == Share(words, i) + Share(near, i)
           Above(i, j) == Sum(i) > Sum(j) \/ (Sum(i) = Sum(j) /\ Seen(i) < Seen(j))
           R == {p \in own \X own : Above(p[1], p[2])}
<1>1. near \in Seq(DOMAIN c) /\ IsInjective(near) /\ \A i \in Range(near) : c[i].label = label
  BY NearFinds
<1>2. CASE near = <<>>
  BY <1>2, SearchFinds DEF Hybrid
<1>3. CASE near # <<>>
  <2>1. Hybrid(c, v, q, label) = Up(Listed(own, R), Deep)
    BY <1>3 DEF Hybrid
  <2>2. \A x, y \in own : <<x, y>> \in R <=> Above(x, y)
    OBVIOUS
  <2>3. words \in Seq(DOMAIN c)
    <3>1. WithWords(c, q) \subseteq DOMAIN c /\ DOMAIN c = 1..Len(c)
      BY DEF WithWords
    <3>2. IsFiniteSet(WithWords(c, q)) /\ \A i \in WithWords(c, q) : q.words[i] \in Int
      BY <3>1, PartsAreFinite
    <3>3. Lists(Ranked(WithWords(c, q), q.words), WithWords(c, q))
      BY <3>1, <3>2, RankedLists
    <3>4. Pool \in Nat \ {0}
      BY BoundsAssumption
    <3>5. words \in Seq(WithWords(c, q))
      BY <3>3, <3>4, UpOfLists
    <3> QED BY <3>1, <3>5
  <2>4. /\ own \subseteq Range(words) \cup Range(near) /\ own \subseteq DOMAIN c
        /\ \A i \in own : c[i].label = label
        /\ own # {}
    <3> HIDE DEF near, words
    <3>1. near[1] \in Range(near)
      BY <1>1, <1>3 DEF Range
    <3>2. Range(near) \subseteq DOMAIN c /\ Range(words) \subseteq DOMAIN c
      BY <1>1, <2>3 DEF Range
    <3> QED BY <1>1, <3>1, <3>2 DEF OfDocument
  <2> HIDE DEF near, words, own
  <2>5. ASSUME NEW i \in own
        PROVE  Sum(i) \in Int /\ Seen(i) \in Int
               /\ (i \in Range(words) => Seen(i) \in 1..Len(words) /\ words[Seen(i)] = i)
               /\ (i \notin Range(words) => Seen(i) > Len(words) /\ near[Seen(i) - Len(words)] = i)
    <3>1. i \in Range(words) => Place(words, i) \in 1..Len(words) /\ words[Place(words, i)] = i
      BY <2>3, PlaceIsThere
    <3>2. i \in Range(near) => Place(near, i) \in 1..Len(near) /\ near[Place(near, i)] = i
      BY <1>1, PlaceIsThere
    <3>3. \A n \in Nat : 1000000 \div (60 + n) \in Int
      OBVIOUS
    <3>4. Share(words, i) \in Int /\ Share(near, i) \in Int
      BY <3>1, <3>2, <3>3, <2>3, <1>1 DEF Share, RrfK
    <3>5. Len(words) \in Nat /\ Len(near) \in Nat
      BY <1>1, <2>3
    <3> QED BY <2>4, <3>1, <3>2, <3>4, <3>5
  <2> HIDE DEF Sum
  <2>6. \A x, y \in own : Seen(x) = Seen(y) => x = y
    <3> SUFFICES ASSUME NEW x \in own, NEW y \in own, Seen(x) = Seen(y) PROVE x = y
      OBVIOUS
    <3> HIDE DEF Seen
    <3>1. Len(words) \in Nat
      BY <2>3
    <3> QED BY <2>5, <3>1
  <2> HIDE DEF Seen, R
  <2>7. \A x, y \in own : x = y \/ <<x, y>> \in R \/ <<y, x>> \in R
    <3> TAKE x \in own, y \in own
    <3>1. Sum(x) \in Int /\ Sum(y) \in Int /\ Seen(x) \in Int /\ Seen(y) \in Int
      BY <2>5
    <3>2. Above(x, y) \/ Above(y, x) \/ Seen(x) = Seen(y)
      BY <3>1
    <3> QED BY <2>2, <2>6, <3>2
  <2>8. \A x \in own : <<x, x>> \notin R
    BY <2>2, <2>5
  <2>9. \A x, y, z \in own : <<x, y>> \in R /\ <<y, z>> \in R => <<x, z>> \in R
    <3> TAKE x \in own, y \in own, z \in own
    <3>1. /\ Sum(x) \in Int /\ Sum(y) \in Int /\ Sum(z) \in Int
          /\ Seen(x) \in Int /\ Seen(y) \in Int /\ Seen(z) \in Int
      BY <2>5
    <3>2. Above(x, y) /\ Above(y, z) => Above(x, z)
      BY <3>1
    <3> QED BY <2>2, <3>2
  <2>10. Lists(Listed(own, R), own)
    BY <2>4, <2>7, <2>8, <2>9, PartsAreFinite, SortLists
  <2>11. Deep \in Nat \ {0}
    BY BoundsAssumption
  <2>12. /\ Hybrid(c, v, q, label) \in Seq(own) /\ Range(Hybrid(c, v, q, label)) \subseteq own
         /\ IsInjective(Hybrid(c, v, q, label)) /\ Hybrid(c, v, q, label) # <<>>
    BY <2>1, <2>4, <2>10, <2>11, UpOfLists
  <2> QED BY <2>4, <2>12
<1> QED BY <1>2, <1>3

----------------------------------------------------------------------------
(* The clauses of an extraction *)

\* A set of natural numbers has a least member.
LEMMA LeastMember ==
    ASSUME NEW T \in SUBSET Nat, T # {}
    PROVE  Min(T) \in T /\ \A y \in T : Min(T) <= y
<1>1. PICK x \in T : \A y \in T : <<y, x>> \notin OpToRel(<, Nat)
  BY NatLessThanWellFounded, WFMin, Zenon
<1>2. \A y \in T : x <= y
  <2> TAKE y \in T
  <2>1. ~(y < x)
    BY <1>1 DEF OpToRel
  <2> QED BY <2>1
<1> QED BY <1>2 DEF Min

\* And, if none is above a bound, a greatest.
LEMMA GreatestMember ==
    ASSUME NEW T \in SUBSET Nat, T # {}, NEW b \in Nat, \A y \in T : y <= b
    PROVE  \E x \in T : \A y \in T : y <= x
<1> DEFINE D == {d \in 0..b : b - d \in T}
<1>1. ASSUME NEW y \in T PROVE b - y \in D /\ y \in Nat
  <2>1. y \in Nat /\ y <= b
    OBVIOUS
  <2>2. b - y \in 0..b /\ b - (b - y) = y
    BY <2>1
  <2> QED BY <2>1, <2>2
<1>2. D \in SUBSET Nat /\ D # {} /\ \A d \in D : b - d \in T
  <2>1. PICK y \in T : TRUE
    OBVIOUS
  <2>2. b - y \in D
    BY <1>1
  <2>3. D \subseteq 0..b /\ \A d \in D : b - d \in T
    OBVIOUS
  <2> HIDE DEF D
  <2> QED BY <2>2, <2>3
<1> HIDE DEF D
<1>3. Min(D) \in D /\ \A d \in D : Min(D) <= d
  BY <1>2, LeastMember
<1>4. \A y \in T : y <= b - Min(D)
  <2> TAKE y \in T
  <2>1. y \in Nat /\ Min(D) \in Nat /\ Min(D) <= b - y
    BY <1>1, <1>2, <1>3
  <2> QED BY <2>1
<1> QED BY <1>2, <1>3, <1>4

\* The image of a finite set is finite.
LEMMA ImageFinite ==
    ASSUME NEW S, IsFiniteSet(S), NEW f
    PROVE  IsFiniteSet({f[x] : x \in S})
<1> DEFINE T == {f[x] : x \in S}
           g == [x \in S |-> f[x]]
<1>1. g \in Surjection(S, T)
  BY DEF Surjection
<1> QED BY <1>1, FS_Surjection

\* An extraction as the assumption on Work has it.
Orderly(j) ==
    LET docs == j.docs
    IN /\ j.queries \in Nat
       /\ docs \in Seq(Range(docs)) /\ IsInjective([n \in DOMAIN docs |-> docs[n].label])
       /\ \A n \in DOMAIN docs :
            LET pages == docs[n].pdf.pages
            IN /\ pages \in Seq(Range(pages))
               /\ \A p \in DOMAIN pages :
                    {pages[p].digital.lines, pages[p].paddle.lines, pages[p].tesseract.lines} \subseteq Seq(LineKinds)

\* The lines of page p of document n, and the entry of the clause that starts at i.
Lines(j, n, p) == Texts(j.docs[n].pdf, j.engines)[p].lines
Entry(j, n, p, i) ==
    LET lines == Lines(j, n, p)
    IN [n |-> n, label |-> j.docs[n].label,
        clause |-> [page |-> p, number |-> Number(lines, i), start |-> i,
                    end |-> Min({k \in Starts(lines) : k > i} \cup {Len(lines) + 1})]]

\* Where clauses of j start.
IsStart(j, n, p, i) ==
    /\ n \in DOMAIN j.docs /\ Readable(j.docs[n].pdf) /\ p \in DOMAIN j.docs[n].pdf.pages
    /\ i \in Starts(Lines(j, n, p)) \cap DOMAIN Lines(j, n, p)

\* The text of a page, whichever is chosen, is a list of lines.
LEMMA LinesAreListed ==
    ASSUME NEW j, Orderly(j), NEW n \in DOMAIN j.docs, NEW p \in DOMAIN j.docs[n].pdf.pages
    PROVE  Lines(j, n, p) \in Seq(LineKinds)
<1> DEFINE page == j.docs[n].pdf.pages[p]
<1>1. /\ page.digital.lines \in Seq(LineKinds) /\ page.paddle.lines \in Seq(LineKinds)
      /\ page.tesseract.lines \in Seq(LineKinds)
  BY DEF Orderly
<1>2. NoText.lines \in Seq(LineKinds)
  BY DEF NoText
<1>3. Ocr(page, j.engines) \in {page.paddle, page.tesseract, NoText}
  BY DEF Ocr
<1>4. Lines(j, n, p) = Chosen(page, j.engines).lines
  BY DEF Lines, Texts
<1>5. Chosen(page, j.engines) \in {page.digital, Ocr(page, j.engines)}
  BY DEF Chosen
<1> QED BY <1>1, <1>2, <1>3, <1>4, <1>5

\* The entries are those at the starts.
LEMMA EntriesAtStarts ==
    ASSUME NEW j
    PROVE  /\ \A e \in Entries(j) : \E n, p, i : IsStart(j, n, p, i) /\ e = Entry(j, n, p, i)
           /\ \A n, p, i : IsStart(j, n, p, i) => Entry(j, n, p, i) \in Entries(j)
<1>1. \A n : DOMAIN Texts(j.docs[n].pdf, j.engines) = DOMAIN j.docs[n].pdf.pages
  BY DEF Texts
<1>2. ASSUME NEW e \in Entries(j) PROVE \E n, p, i : IsStart(j, n, p, i) /\ e = Entry(j, n, p, i)
  <2>1. PICK n \in DOMAIN j.docs :
           e \in {[n |-> n, label |-> j.docs[n].label, clause |-> c] : c \in Clauses(j.docs[n].pdf, j.engines)}
    BY <1>2 DEF Entries
  <2> PICK c \in Clauses(j.docs[n].pdf, j.engines) : e = [n |-> n, label |-> j.docs[n].label, clause |-> c]
    BY <2>1
  <2>2. Readable(j.docs[n].pdf)
    BY <2>1 DEF Clauses
  <2>3. PICK p \in DOMAIN j.docs[n].pdf.pages : c \in Segments(Lines(j, n, p), p)
    BY <2>1, <2>2 DEF Clauses, Lines
  <2> DEFINE lines == Lines(j, n, p)
  <2>4. PICK i \in Starts(lines) \cap DOMAIN lines :
           c = [page |-> p, number |-> Number(lines, i), start |-> i,
                end |-> Min({k \in Starts(lines) : k > i} \cup {Len(lines) + 1})]
    BY <2>3 DEF Segments
  <2>5. e = Entry(j, n, p, i)
    BY <2>1, <2>4 DEF Entry
  <2>6. IsStart(j, n, p, i)
    BY <2>1, <2>2, <2>3, <2>4 DEF IsStart
  <2> QED BY <2>5, <2>6
<1>3. ASSUME NEW n, NEW p, NEW i, IsStart(j, n, p, i) PROVE Entry(j, n, p, i) \in Entries(j)
  <2> DEFINE lines == Lines(j, n, p)
             c == [page |-> p, number |-> Number(lines, i), start |-> i,
                   end |-> Min({k \in Starts(lines) : k > i} \cup {Len(lines) + 1})]
  <2>1. c \in Segments(lines, p)
    BY <1>3 DEF Segments, IsStart
  <2>2. c \in Clauses(j.docs[n].pdf, j.engines)
    BY <1>3, <2>1 DEF Clauses, Lines, IsStart
  <2>3. Entry(j, n, p, i) = [n |-> n, label |-> j.docs[n].label, clause |-> c]
    BY DEF Entry
  <2> HIDE DEF c, lines
  <2> QED BY <1>3, <2>2, <2>3 DEF Entries, IsStart
<1> QED BY <1>2, <1>3

\* The places of starts are numbers.
LEMMA StartsAreNumbers ==
    ASSUME NEW j, Orderly(j), NEW n, NEW p, NEW i, IsStart(j, n, p, i)
    PROVE  /\ n \in Nat /\ p \in Nat /\ i \in Nat
           /\ Lines(j, n, p) \in Seq(LineKinds) /\ Starts(Lines(j, n, p)) \subseteq Nat
<1>1. n \in DOMAIN j.docs /\ p \in DOMAIN j.docs[n].pdf.pages /\ i \in DOMAIN Lines(j, n, p)
  BY DEF IsStart
<1>2. Lines(j, n, p) \in Seq(LineKinds)
  BY <1>1, LinesAreListed
<1>3. n \in Nat
  <2>1. j.docs \in Seq(Range(j.docs))
    BY DEF Orderly
  <2> QED BY <1>1, <2>1
<1>4. p \in Nat
  <2>1. j.docs[n].pdf.pages \in Seq(Range(j.docs[n].pdf.pages))
    BY <1>1 DEF Orderly
  <2> QED BY <1>1, <2>1
<1>5. Starts(Lines(j, n, p)) \subseteq Nat
  BY <1>2 DEF Starts, Marks
<1> QED BY <1>1, <1>2, <1>3, <1>4, <1>5

\* There are finitely many.
LEMMA EntriesFinite ==
    ASSUME NEW j, Orderly(j)
    PROVE  IsFiniteSet(Entries(j))
<1> DEFINE At1(n, p) == {Entry(j, n, p, i) : i \in Starts(Lines(j, n, p)) \cap DOMAIN Lines(j, n, p)}
           At2(n) == UNION {At1(n, p) : p \in DOMAIN j.docs[n].pdf.pages}
           all == UNION {At2(n) : n \in DOMAIN j.docs}
<1>1. ASSUME NEW n \in DOMAIN j.docs, NEW p \in DOMAIN j.docs[n].pdf.pages PROVE IsFiniteSet(At1(n, p))
  <2> DEFINE S == Starts(Lines(j, n, p)) \cap DOMAIN Lines(j, n, p)
             f == [i \in S |-> Entry(j, n, p, i)]
  <2>1. Lines(j, n, p) \in Seq(LineKinds)
    BY LinesAreListed
  <2>2. IsFiniteSet(S)
    BY <2>1, PartsAreFinite
  <2>3. At1(n, p) = {f[i] : i \in S}
    OBVIOUS
  <2> HIDE DEF At1, S, f
  <2> QED BY <2>2, <2>3, ImageFinite
<1> HIDE DEF At1
<1>2. ASSUME NEW n \in DOMAIN j.docs PROVE IsFiniteSet(At2(n))
  <2> DEFINE S == DOMAIN j.docs[n].pdf.pages
             f == [p \in S |-> At1(n, p)]
  <2>1. j.docs[n].pdf.pages \in Seq(Range(j.docs[n].pdf.pages))
    BY DEF Orderly
  <2>2. IsFiniteSet(S)
    BY <2>1, PartsAreFinite
  <2>3. {At1(n, p) : p \in S} = {f[p] : p \in S}
    OBVIOUS
  <2>4. IsFiniteSet({f[p] : p \in S})
    <3> HIDE DEF f, S
    <3> QED BY <2>2, ImageFinite
  <2>5. \A s \in {At1(n, p) : p \in S} : IsFiniteSet(s)
    BY <1>1
  <2> HIDE DEF f
  <2> QED BY <2>3, <2>4, <2>5, FS_UNION
<1> HIDE DEF At2
<1>3. IsFiniteSet(all)
  <2> DEFINE S == DOMAIN j.docs
             f == [n \in S |-> At2(n)]
  <2>1. j.docs \in Seq(Range(j.docs))
    BY DEF Orderly
  <2>2. IsFiniteSet(S)
    BY <2>1, PartsAreFinite
  <2>3. {At2(n) : n \in S} = {f[n] : n \in S}
    OBVIOUS
  <2>4. IsFiniteSet({f[n] : n \in S})
    <3> HIDE DEF f, S
    <3> QED BY <2>2, ImageFinite
  <2>5. \A s \in {At2(n) : n \in S} : IsFiniteSet(s)
    BY <1>2
  <2> HIDE DEF f
  <2> QED BY <2>3, <2>4, <2>5, FS_UNION
<1>4. Entries(j) \subseteq all
  <2> SUFFICES ASSUME NEW e \in Entries(j) PROVE e \in all
    OBVIOUS
  <2>1. PICK n, p, i : IsStart(j, n, p, i) /\ e = Entry(j, n, p, i)
    BY EntriesAtStarts
  <2>2. e \in At1(n, p) /\ n \in DOMAIN j.docs /\ p \in DOMAIN j.docs[n].pdf.pages
    BY <2>1 DEF At1, IsStart
  <2>3. e \in At2(n)
    BY <2>2 DEF At2
  <2> QED BY <2>2, <2>3
<1> QED BY <1>3, <1>4, FS_Subset

\* The corpus lists the entries, whatever the documents are.
LEMMA FlatLists ==
    ASSUME NEW j, Orderly(j)
    PROVE  Lists(Flat(j), Entries(j))
<1> DEFINE S == Entries(j)
           R == {p \in S \X S : Sooner(p[1], p[2])}
<1>1. \A x, y \in S : <<x, y>> \in R <=> Sooner(x, y)
  OBVIOUS
<1>2. Flat(j) = Listed(S, R)
  BY DEF Flat
<1> HIDE DEF R
<1>3. ASSUME NEW x \in S
      PROVE  /\ x.n \in Nat /\ x.clause.page \in Nat /\ x.clause.start \in Nat
             /\ x = Entry(j, x.n, x.clause.page, x.clause.start)
  <2>1. PICK n, p, i : IsStart(j, n, p, i) /\ x = Entry(j, n, p, i)
    BY EntriesAtStarts
  <2>2. n \in Nat /\ p \in Nat /\ i \in Nat
    BY <2>1, StartsAreNumbers
  <2>3. x.n = n /\ x.clause.page = p /\ x.clause.start = i
    BY <2>1 DEF Entry
  <2> QED BY <2>1, <2>2, <2>3
<1> HIDE DEF S
<1>4. \A x, y \in S : x = y \/ <<x, y>> \in R \/ <<y, x>> \in R
  <2> TAKE x \in S, y \in S
  <2>1. Sooner(x, y) \/ Sooner(y, x) \/ (x.n = y.n /\ x.clause.page = y.clause.page /\ x.clause.start = y.clause.start)
    BY <1>3 DEF Sooner
  <2> QED BY <1>1, <1>3, <2>1
<1>5. \A x \in S : <<x, x>> \notin R
  BY <1>1, <1>3 DEF Sooner
<1>6. \A x, y, z \in S : <<x, y>> \in R /\ <<y, z>> \in R => <<x, z>> \in R
  <2> TAKE x \in S, y \in S, z \in S
  <2>1. Sooner(x, y) /\ Sooner(y, z) => Sooner(x, z)
    BY <1>3 DEF Sooner
  <2> QED BY <1>1, <2>1
<1>7. IsFiniteSet(S)
  BY EntriesFinite DEF S
<1>8. Lists(Listed(S, R), S)
  BY <1>4, <1>5, <1>6, <1>7, SortLists
<1> QED BY <1>2, <1>8 DEF S

\* A line is in the clause that starts last before it, and in no other of the page.
LEMMA OneClause ==
    ASSUME NEW j, Orderly(j), NEW n \in DOMAIN j.docs, Readable(j.docs[n].pdf),
           NEW p \in DOMAIN j.docs[n].pdf.pages, NEW l \in DOMAIN Lines(j, n, p)
    PROVE  \E s : /\ IsStart(j, n, p, s)
                  /\ \A i : IsStart(j, n, p, i) =>
                       (l \in i .. (Entry(j, n, p, i).clause.end - 1) <=> i = s)
<1> DEFINE lines == Lines(j, n, p)
           T == {i \in Starts(lines) : i <= l}
           Later(i) == {k \in Starts(lines) : k > i} \cup {Len(lines) + 1}
<1>1. lines \in Seq(LineKinds)
  BY LinesAreListed
<1>2. Len(lines) \in Nat /\ DOMAIN lines = 1..Len(lines) /\ l \in 1..Len(lines)
  BY <1>1
<1>3. Starts(lines) \subseteq Nat \ {0} /\ 1 \in Starts(lines)
  BY <1>1 DEF Starts, Marks
<1>4. \A i : Entry(j, n, p, i).clause.end = Min(Later(i))
  BY DEF Entry
<1> HIDE DEF lines
<1>5. T \in SUBSET Nat /\ T # {} /\ l \in Nat /\ \A y \in T : y <= l
  BY <1>2, <1>3
<1>6. PICK s \in T : \A y \in T : y <= s
  BY <1>5, GreatestMember
<1>7. s \in Starts(lines) /\ s \in 1..l /\ \A y \in Starts(lines) : y <= l => y <= s
  BY <1>2, <1>3, <1>6
<1>8. IsStart(j, n, p, s)
  BY <1>2, <1>7 DEF IsStart, lines
<1>9. ASSUME NEW i, IsStart(j, n, p, i)
      PROVE  l \in i .. (Entry(j, n, p, i).clause.end - 1) <=> i = s
  <2>1. i \in Starts(lines) /\ i \in Nat
    BY <1>3, <1>9 DEF IsStart, lines
  <2>2. Later(i) \in SUBSET Nat /\ Later(i) # {}
    BY <1>2, <1>3
  <2>3. Min(Later(i)) \in Later(i) /\ \A y \in Later(i) : Min(Later(i)) <= y
    BY <2>2, LeastMember
  <2> DEFINE end == Min(Later(i))
  <2>4. end \in Nat /\ (end = Len(lines) + 1 \/ (end \in Starts(lines) /\ end > i))
    BY <2>2, <2>3
  <2>5. \A y \in Starts(lines) : y > i => end <= y
    BY <2>3
  <2> HIDE DEF end
  <2>6. CASE i = s
    <3>1. l < end
      BY <1>2, <1>3, <1>7, <2>4, <2>6
    <3>2. l \in i..(end - 1)
      BY <1>2, <1>7, <2>1, <2>4, <2>6, <3>1
    <3> QED BY <1>4, <2>6, <3>2 DEF end
  <2>7. CASE i # s
    <3>1. l \notin i..(end - 1)
      BY <1>2, <1>7, <2>1, <2>4, <2>5, <2>7
    <3> QED BY <1>4, <2>7, <3>1 DEF end
  <2> QED BY <2>6, <2>7
<1> QED BY <1>8, <1>9

\* Two entries with one reference are one.
LEMMA OneReference ==
    ASSUME NEW j, Orderly(j), NEW d \in Entries(j), NEW e \in Entries(j), Ref(d) = Ref(e)
    PROVE  d = e
<1>1. PICK n, p, i : IsStart(j, n, p, i) /\ d = Entry(j, n, p, i)
  BY EntriesAtStarts
<1>2. PICK m, q, k : IsStart(j, m, q, k) /\ e = Entry(j, m, q, k)
  BY EntriesAtStarts
<1>3. /\ d.label = j.docs[n].label /\ d.clause.page = p /\ d.clause.start = i
      /\ e.label = j.docs[m].label /\ e.clause.page = q /\ e.clause.start = k
  BY <1>1, <1>2 DEF Entry
<1>4. j.docs[n].label = j.docs[m].label /\ p = q /\ i = k
  BY <1>3 DEF Ref
<1>5. n = m
  BY <1>1, <1>2, <1>4 DEF IsStart, Orderly, IsInjective
<1> QED BY <1>1, <1>2, <1>4, <1>5

\* The clauses of c cut the documents of j in pieces.
Tiled(j, c) ==
    /\ \A i, k \in DOMAIN c : Ref(c[i]) = Ref(c[k]) => i = k
    /\ \A n \in DOMAIN j.docs : Readable(j.docs[n].pdf) =>
         LET pages == Texts(j.docs[n].pdf, j.engines)
         IN \A p \in DOMAIN pages : \A l \in DOMAIN pages[p].lines :
              Cardinality({i \in DOMAIN c :
                /\ c[i].label = j.docs[n].label /\ c[i].clause.page = p
                /\ l \in c[i].clause.start .. (c[i].clause.end - 1)}) = 1

\* Those of the corpus of an extraction do.
LEMMA FlatTiles ==
    ASSUME NEW j, Orderly(j), NEW c, Lists(c, Entries(j))
    PROVE  Tiled(j, c)
<1>1. c \in Seq(Entries(j)) /\ IsInjective(c) /\ \A e \in Entries(j) : \E i \in DOMAIN c : c[i] = e
  BY DEF Lists, Range
<1>2. \A i \in DOMAIN c : c[i] \in Entries(j)
  BY <1>1
<1>3. \A i, k \in DOMAIN c : Ref(c[i]) = Ref(c[k]) => i = k
  BY <1>1, <1>2, OneReference DEF IsInjective
<1>4. ASSUME NEW n \in DOMAIN j.docs, Readable(j.docs[n].pdf),
             NEW p \in DOMAIN Texts(j.docs[n].pdf, j.engines), NEW l \in DOMAIN Lines(j, n, p)
      PROVE  Cardinality({i \in DOMAIN c :
                       /\ c[i].label = j.docs[n].label /\ c[i].clause.page = p
                       /\ l \in c[i].clause.start .. (c[i].clause.end - 1)}) = 1
  <2> DEFINE Holds(i) == /\ c[i].label = j.docs[n].label /\ c[i].clause.page = p
                         /\ l \in c[i].clause.start .. (c[i].clause.end - 1)
  <2>1. p \in DOMAIN j.docs[n].pdf.pages
    BY DEF Texts
  <2>2. PICK s : /\ IsStart(j, n, p, s)
                 /\ \A i : IsStart(j, n, p, i) => (l \in i .. (Entry(j, n, p, i).clause.end - 1) <=> i = s)
    BY <1>4, <2>1, OneClause
  <2>3. PICK k \in DOMAIN c : c[k] = Entry(j, n, p, s)
    BY <1>1, <2>2, EntriesAtStarts
  <2>4. Holds(k)
    BY <2>2, <2>3 DEF Entry
  <2>5. ASSUME NEW i \in DOMAIN c, Holds(i) PROVE i = k
    <3>1. PICK m, q, b : IsStart(j, m, q, b) /\ c[i] = Entry(j, m, q, b)
      BY <1>2, EntriesAtStarts
    <3>2. c[i].label = j.docs[m].label /\ c[i].clause.page = q /\ c[i].clause.start = b
      BY <3>1 DEF Entry
    <3>3. m = n /\ q = p
      BY <2>5, <3>1, <3>2 DEF IsStart, Orderly, IsInjective
    <3>4. b = s
      BY <2>2, <2>5, <3>1, <3>2, <3>3
    <3>5. c[i] = c[k]
      BY <2>3, <3>1, <3>3, <3>4
    <3> QED BY <1>1, <3>5 DEF IsInjective
  <2>6. {i \in DOMAIN c : Holds(i)} = {k}
    <3> HIDE DEF Holds
    <3> QED BY <2>4, <2>5
  <2> QED BY <2>6, FS_Singleton
<1> QED BY <1>3, <1>4 DEF Tiled, Lines

----------------------------------------------------------------------------
(* The threads *)

InContext == {"embed", "embed_lock", "embed_init", "vectors", "search", "rerank", "load", "loaded", "failed",
              "return", "predict", "unranked"}

\* What holds of a list of places: the clauses are of the target, each once.
Cites(c, h, label) == h \in Seq(DOMAIN c) /\ IsInjective(h) /\ \A i \in Range(h) : c[i].label = label

\* A thread works on the corpus of its own job, and what it has found is in there.
ThreadInv(t) ==
    /\ corpus[t] \in {<<>>, Flat(job[t])}
    /\ pc[t] \in InContext => job[t] # Sweep /\ corpus[t] = Flat(job[t])
    /\ Cites(corpus[t], hits[t], job[t].target)
    /\ vectors[t] \in {<<>>} \cup [DOMAIN corpus[t] -> BOOLEAN]
    /\ job[t] # Sweep => left[t] \in 0..job[t].queries

SharedInv ==
    /\ store \in {"none", "pgvector", "noop"} /\ {embedder, reranker} \subseteq BOOLEAN
    /\ available \in {"unknown", "yes", "no"}
    /\ {storeLock, embedLock} \subseteq Threads \cup {Free}

ByThread ==
    /\ DOMAIN pc = Threads /\ DOMAIN corpus = Threads /\ DOMAIN vectors = Threads
    /\ DOMAIN left = Threads /\ DOMAIN hits = Threads

RetrievalInv == job \in Work /\ ByThread /\ SharedInv /\ \A t \in Threads : ThreadInv(t)

\* Jobs are orderly, and their corpus lists their entries.
LEMMA JobsAreOrderly ==
    ASSUME job \in Work, NEW t \in Threads
    PROVE  Orderly(job[t]) /\ Lists(Flat(job[t]), Entries(job[t])) /\ Flat(job[t]) \in Seq(Entries(job[t]))
<1>1. Orderly(job[t])
  BY WorkAssumption DEF Orderly
<1> QED BY <1>1, FlatLists DEF Lists

\* The first of what is found.
LEMMA UpCites ==
    ASSUME NEW c, NEW h, NEW label, Cites(c, h, label), NEW k \in Nat \ {0}
    PROVE  Cites(c, Up(h, k), label)
<1>1. h \in Seq(DOMAIN c)
  BY DEF Cites
<1> QED BY <1>1, UpLists DEF Cites

\* A search adds what is not cited yet.
LEMMA SearchCites ==
    ASSUME RetrievalInv, NEW t \in Threads, At(t, "search"), NEW q \in Queries(Len(corpus[t]))
    PROVE  LET found == Hybrid(corpus[t], vectors[t], q, job[t].target)
           IN /\ Search(corpus[t], q, job[t].target) # <<>> => found # <<>>
              /\ Cites(corpus[t], hits[t] \o Fresh(corpus[t], hits[t], found), job[t].target)
<1> DEFINE c == corpus[t]
           label == job[t].target
           found == Hybrid(c, vectors[t], q, label)
           S == {i \in Range(found) : \A h \in Range(hits[t]) : Ref(c[i]) # Ref(c[h])}
           fresh == Fresh(c, hits[t], found)
<1>1. c = Flat(job[t]) /\ job \in Work
  BY DEF RetrievalInv, ThreadInv, At, InContext
<1>2. c \in Seq(Entries(job[t]))
  BY <1>1, JobsAreOrderly
<1>3. {q.words, q.near} \subseteq [1..Len(c) -> Int]
  BY <1>1, QueriesAssumption
<1>4. vectors[t] \in {<<>>} \cup [DOMAIN c -> BOOLEAN] /\ Cites(c, hits[t], label)
  BY DEF RetrievalInv, ThreadInv
<1> HIDE DEF c, label
<1>5. /\ found \in Seq(DOMAIN c) /\ IsInjective(found) /\ \A i \in Range(found) : c[i].label = label
      /\ Search(c, q, label) # <<>> => found # <<>>
  BY <1>2, <1>3, <1>4, HybridFinds
<1> HIDE DEF found
<1>6. Lists(fresh, S)
  BY <1>2, <1>5, FreshLists
<1>7. S \subseteq Range(found) /\ Range(found) \subseteq DOMAIN c /\ Range(hits[t]) \cap S = {}
  BY <1>5 DEF Range
<1> HIDE DEF S, fresh
<1>8. fresh \in Seq(DOMAIN c) /\ IsInjective(fresh) /\ Range(fresh) = S
  BY <1>6, <1>7 DEF Lists
<1>9. hits[t] \in Seq(DOMAIN c) /\ IsInjective(hits[t]) /\ \A i \in Range(hits[t]) : c[i].label = label
  BY <1>4 DEF Cites
<1>10. /\ hits[t] \o fresh \in Seq(DOMAIN c) /\ IsInjective(hits[t] \o fresh)
       /\ Range(hits[t] \o fresh) = Range(hits[t]) \cup Range(fresh)
  BY <1>7, <1>8, <1>9, JoinedLists
<1>11. Cites(c, hits[t] \o fresh, label)
  BY <1>5, <1>7, <1>8, <1>9, <1>10 DEF Cites
<1> QED BY <1>5, <1>11 DEF c, found, label, fresh

\* At first nothing is read or found.
LEMMA RetrievalInit == Init => RetrievalInv
<1> SUFFICES ASSUME Init PROVE RetrievalInv
  OBVIOUS
<1>1. job \in Work /\ ByThread /\ SharedInv
  BY DEF Init, ByThread, SharedInv
<1>2. ASSUME NEW t \in Threads PROVE ThreadInv(t)
  <2>1. corpus[t] = <<>> /\ pc[t] = "start" /\ hits[t] = <<>> /\ vectors[t] = <<>> /\ left[t] = 0
    BY DEF Init
  <2>2. Cites(<<>>, <<>>, job[t].target)
    BY DEF Cites, IsInjective, Range
  <2>3. job[t].queries \in Nat
    BY <1>1, JobsAreOrderly DEF Orderly
  <2> QED BY <2>1, <2>2, <2>3 DEF ThreadInv, InContext
<1> QED BY <1>1, <1>2 DEF RetrievalInv

\* What a thread does leaves the others alone.
LEMMA OthersStay ==
    ASSUME RetrievalInv, NEW t \in Threads, NEW u \in Threads, u # t,
           job' = job, pc'[u] = pc[u], corpus'[u] = corpus[u], vectors'[u] = vectors[u],
           left'[u] = left[u], hits'[u] = hits[u]
    PROVE  ThreadInv(u)'
BY DEF RetrievalInv, ThreadInv

\* A thread that reads no document and adds or drops no hit keeps its invariant, if it
\* enters the searches only from there.
LEMMA ContextStays ==
    ASSUME RetrievalInv, NEW t \in Threads, job' = job, corpus' = corpus, hits'[t] = hits[t],
           left'[t] = left[t], vectors'[t] \in {<<>>} \cup [DOMAIN corpus[t] -> BOOLEAN],
           pc'[t] \in InContext => pc[t] \in InContext
    PROVE  ThreadInv(t)'
BY DEF RetrievalInv, ThreadInv

\* A step of a thread keeps it all.
LEMMA RetrievalStep ==
    ASSUME RetrievalInv, NEW t \in Threads, Step(t)
    PROVE  RetrievalInv'
<1>1. job' = job /\ job \in Work /\ Orderly(job[t])
  BY JobsAreOrderly DEF RetrievalInv, Step, SweepStart, StoreLock, StoreInit, BuildContext, EmbedderCheck,
       EmbedderLock, EmbedderInit, BuildVectors, SearchOnce, Gathered, RerankerCheck, Rerank, Reranked
<1>2. /\ ByThread'
      /\ \A u \in Threads : u # t =>
           /\ pc'[u] = pc[u] /\ corpus'[u] = corpus[u] /\ vectors'[u] = vectors[u]
           /\ left'[u] = left[u] /\ hits'[u] = hits[u]
  <2> USE DEF RetrievalInv, ByThread, context, singletons, Goto
  <2>1. CASE SweepStart(t)
    BY <2>1 DEF SweepStart
  <2>2. CASE StoreLock(t)
    BY <2>2 DEF StoreLock
  <2>3. CASE StoreInit(t)
    BY <2>3 DEF StoreInit
  <2>4. CASE BuildContext(t)
    BY <2>4 DEF BuildContext
  <2>5. CASE EmbedderCheck(t)
    BY <2>5 DEF EmbedderCheck
  <2>6. CASE EmbedderLock(t)
    BY <2>6 DEF EmbedderLock
  <2>7. CASE EmbedderInit(t)
    BY <2>7 DEF EmbedderInit
  <2>8. CASE BuildVectors(t)
    BY <2>8 DEF BuildVectors
  <2>9. CASE SearchOnce(t)
    BY <2>9 DEF SearchOnce
  <2>10. CASE Gathered(t)
    BY <2>10 DEF Gathered
  <2>11. CASE RerankerCheck(t)
    BY <2>11 DEF RerankerCheck
  <2>12. CASE Rerank(t)
    BY <2>12 DEF Rerank, RerankerLoad
  <2>13. CASE Reranked(t)
    BY <2>13 DEF Reranked
  <2> QED BY <2>1, <2>2, <2>3, <2>4, <2>5, <2>6, <2>7, <2>8, <2>9, <2>10, <2>11, <2>12, <2>13 DEF Step
<1>3. SharedInv'
  <2> USE DEF RetrievalInv, SharedInv, context, singletons, Goto
  <2>1. CASE SweepStart(t) \/ StoreLock(t) \/ StoreInit(t)
    BY <2>1 DEF SweepStart, StoreLock, StoreInit
  <2>2. CASE EmbedderCheck(t) \/ EmbedderLock(t) \/ EmbedderInit(t)
    BY <2>2 DEF EmbedderCheck, EmbedderLock, EmbedderInit
  <2>3. CASE BuildContext(t) \/ BuildVectors(t) \/ SearchOnce(t) \/ Gathered(t) \/ Reranked(t)
    BY <2>3 DEF BuildContext, BuildVectors, SearchOnce, Gathered, Reranked
  <2>4. CASE RerankerCheck(t) \/ Rerank(t)
    BY <2>4 DEF RerankerCheck, Rerank, RerankerLoad
  <2> QED BY <2>1, <2>2, <2>3, <2>4 DEF Step
<1>4. ThreadInv(t)'
  <2>1. CASE SweepStart(t) \/ StoreLock(t) \/ StoreInit(t)
    <3>1. /\ corpus' = corpus /\ hits' = hits /\ left' = left /\ vectors' = vectors
          /\ pc'[t] \in {"done", "store_lock", "store_init"}
      BY <2>1 DEF SweepStart, StoreLock, StoreInit, context, Goto, RetrievalInv, ByThread
    <3> QED BY <1>1, <3>1, ContextStays DEF RetrievalInv, ThreadInv, InContext
  <2>2. CASE BuildContext(t)
    <3>1. /\ corpus'[t] = Flat(job[t]) /\ vectors'[t] = <<>> /\ left'[t] = job[t].queries /\ hits'[t] = <<>>
          /\ job[t] # Sweep
      BY <2>2 DEF BuildContext, RetrievalInv, ByThread
    <3>2. Cites(corpus'[t], <<>>, job[t].target)
      BY DEF Cites, IsInjective, Range
    <3>3. job[t].queries \in Nat
      BY <1>1 DEF Orderly
    <3> QED BY <1>1, <3>1, <3>2, <3>3 DEF ThreadInv
  <2>3. CASE EmbedderCheck(t) \/ EmbedderLock(t) \/ EmbedderInit(t) \/ BuildVectors(t)
    <3>1. corpus' = corpus /\ hits' = hits /\ left' = left /\ pc[t] \in InContext
      BY <2>3 DEF EmbedderCheck, EmbedderLock, EmbedderInit, BuildVectors, context, At, InContext
    <3>2. vectors'[t] \in {<<>>} \cup [DOMAIN corpus[t] -> BOOLEAN]
      BY <2>3 DEF EmbedderCheck, EmbedderLock, EmbedderInit, BuildVectors, context, RetrievalInv, ByThread, ThreadInv
    <3> QED BY <1>1, <3>1, <3>2, ContextStays
  <2>4. CASE SearchOnce(t)
    <3>1. At(t, "search") /\ pc' = pc /\ corpus' = corpus /\ vectors' = vectors
      BY <2>4 DEF SearchOnce, Searching
    <3>2. left[t] > 0 /\ left'[t] = left[t] - 1
      BY <2>4 DEF SearchOnce, Searching, RetrievalInv, ByThread
    <3>3. PICK q \in Queries(Len(corpus[t])) :
             hits'[t] = hits[t] \o Fresh(corpus[t], hits[t], Hybrid(corpus[t], vectors[t], q, job[t].target))
      BY <2>4 DEF SearchOnce, RetrievalInv, ByThread
    <3>4. Cites(corpus[t], hits'[t], job[t].target)
      BY <3>1, <3>3, SearchCites
    <3>5. job[t] # Sweep => left'[t] \in 0..job[t].queries
      <4>1. job[t] # Sweep => left[t] \in 0..job[t].queries
        BY DEF RetrievalInv, ThreadInv
      <4>2. job[t].queries \in Nat
        BY <1>1 DEF Orderly
      <4> QED BY <3>2, <4>1, <4>2
    <3> QED BY <1>1, <3>1, <3>4, <3>5 DEF RetrievalInv, ThreadInv
  <2>5. CASE Gathered(t)
    <3>1. /\ pc[t] \in InContext /\ corpus' = corpus /\ vectors' = vectors /\ left' = left
          /\ hits'[t] \in {hits[t], Up(hits[t], Final)}
      BY <2>5 DEF Gathered, At, InContext, RetrievalInv, ByThread
    <3>2. Cites(corpus[t], hits'[t], job[t].target)
      BY <3>1, UpCites, BoundsAssumption DEF RetrievalInv, ThreadInv
    <3> QED BY <1>1, <3>1, <3>2 DEF RetrievalInv, ThreadInv
  <2>6. CASE RerankerCheck(t) \/ Rerank(t)
    <3>1. corpus' = corpus /\ vectors' = vectors /\ hits' = hits /\ left' = left /\ pc[t] \in InContext
      BY <2>6 DEF RerankerCheck, Rerank, RerankerLoad, At, InContext, context
    <3> QED BY <1>1, <3>1, ContextStays DEF RetrievalInv, ThreadInv
  <2>7. CASE Reranked(t)
    <3> DEFINE n == Min({Final, Len(hits[t])})
    <3>1. /\ pc[t] \in InContext /\ corpus' = corpus /\ vectors' = vectors /\ left' = left
          /\ \/ hits'[t] = Up(hits[t], Final)
             \/ \E s \in [1..n -> Range(hits[t])] : IsInjective(s) /\ hits'[t] = s
      BY <2>7 DEF Reranked, At, InContext, RetrievalInv, ByThread
    <3>2. Cites(corpus[t], hits[t], job[t].target)
      BY DEF RetrievalInv, ThreadInv
    <3>3. ASSUME NEW s \in [1..n -> Range(hits[t])], IsInjective(s) PROVE Cites(corpus[t], s, job[t].target)
      <4>1. Final \in Nat /\ Len(hits[t]) \in Nat /\ Range(hits[t]) \subseteq DOMAIN corpus[t]
        BY <3>2, BoundsAssumption DEF Cites, Range
      <4>2. n \in Nat
        BY <4>1, LeastOfTwo
      <4> HIDE DEF n
      <4>3. s \in Seq(DOMAIN corpus[t]) /\ Range(s) \subseteq Range(hits[t])
        BY <4>1, <4>2 DEF Range
      <4> QED BY <3>2, <3>3, <4>3 DEF Cites
    <3>4. Cites(corpus[t], hits'[t], job[t].target)
      BY <3>1, <3>2, <3>3, UpCites, BoundsAssumption
    <3> QED BY <1>1, <3>1, <3>4 DEF RetrievalInv, ThreadInv
  <2> QED BY <2>1, <2>2, <2>3, <2>4, <2>5, <2>6, <2>7 DEF Step
<1>5. \A u \in Threads : ThreadInv(u)'
  BY <1>1, <1>2, <1>4, OthersStay
<1> QED BY <1>1, <1>2, <1>3, <1>5 DEF RetrievalInv

\* And so does every step of the process.
LEMMA RetrievalNext == RetrievalInv /\ [Next]_vars => RetrievalInv'
<1>1. RetrievalInv /\ Next => RetrievalInv'
  BY RetrievalStep DEF Next
<1>2. RetrievalInv /\ UNCHANGED vars => RetrievalInv'
  BY DEF RetrievalInv, ByThread, SharedInv, ThreadInv, vars, context, singletons
<1> QED BY <1>1, <1>2

\* The invariant holds throughout.
LEMMA RetrievalHolds == Spec => []RetrievalInv
BY RetrievalInit, RetrievalNext, PTL DEF Spec

----------------------------------------------------------------------------
(* What is claimed of it *)

\* For any documents, queries and cut-offs every variable keeps its type; above all, what
\* is found are places in the corpus of the thread's own job (tools.py:181-234).
THEOREM TypeCorrect == Spec => []TypeOK
<1>1. ASSUME RetrievalInv PROVE TypeOK
  <2>1. \A t \in Threads : Range(hits[t]) \subseteq DOMAIN corpus[t]
    BY <1>1 DEF RetrievalInv, ThreadInv, Cites, Range
  <2> QED BY <1>1, <2>1 DEF RetrievalInv, SharedInv, ThreadInv, TypeOK
<1> QED BY <1>1, RetrievalHolds, PTL

\* However the lines of a document are marked, each is in one clause of the corpus, and a
\* reference names one clause (ocr.py:377-419, playbook_executor.py:389).
THEOREM Tiles == Spec => []ClausesTile
<1>1. ASSUME RetrievalInv PROVE ClausesTile
  <2>1. ASSUME NEW t \in Threads, corpus[t] # <<>>
        PROVE  Orderly(job[t]) /\ Lists(corpus[t], Entries(job[t]))
    <3>1. corpus[t] = Flat(job[t])
      BY <1>1, <2>1 DEF RetrievalInv, ThreadInv
    <3> QED BY <1>1, <3>1, JobsAreOrderly DEF RetrievalInv
  <2>2. \A t \in Threads : corpus[t] # <<>> => Tiled(job[t], corpus[t])
    BY <2>1, FlatTiles
  <2> QED BY <2>2 DEF ClausesTile, Tiled
<1> QED BY <1>1, RetrievalHolds, PTL

\* Whatever vectors are missing and however the pool is cut, the hybrid search finds
\* something in the document wherever the words do, and cites it once (tools.py:181-234).
THEOREM HybridFindsToo == Spec => []HybridFindsWhatWordsFind
<1>1. ASSUME RetrievalInv PROVE HybridFindsWhatWordsFind
  <2>1. \A t \in Threads : IsInjective(hits[t]) /\ \A i \in Range(hits[t]) : corpus[t][i].label = job[t].target
    BY <1>1 DEF RetrievalInv, ThreadInv, Cites
  <2> QED BY <1>1, <2>1, SearchCites DEF HybridFindsWhatWordsFind
<1> QED BY <1>1, RetrievalHolds, PTL

\* A process with a store or an embedder keeps it, however many threads race for it
\* (vector_store.py:307-313).
THEOREM StaysSettled == Spec => SettledStays
<1>1. ASSUME RetrievalInv, [Next]_vars PROVE (store # "none" => store' = store) /\ (embedder => embedder')
  <2> USE DEF context, singletons
  <2>1. CASE UNCHANGED vars
    BY <2>1 DEF vars
  <2>2. ASSUME NEW t \in Threads, Step(t)
        PROVE  (store # "none" => store' = store) /\ (embedder => embedder')
    <3>1. CASE SweepStart(t) \/ StoreLock(t) \/ StoreInit(t)
      BY <3>1 DEF SweepStart, StoreLock, StoreInit, StoreMissing
    <3>2. CASE EmbedderCheck(t) \/ EmbedderLock(t) \/ EmbedderInit(t)
      BY <3>2 DEF EmbedderCheck, EmbedderLock, EmbedderInit
    <3>3. CASE BuildContext(t) \/ BuildVectors(t) \/ SearchOnce(t) \/ Gathered(t) \/ Reranked(t)
      <4>1. UNCHANGED singletons
        BY <3>3 DEF BuildContext, BuildVectors, SearchOnce, Gathered, Reranked
      <4> QED BY <4>1
    <3>4. CASE RerankerCheck(t) \/ Rerank(t)
      BY <3>4 DEF RerankerCheck, Rerank
    <3> QED BY <2>2, <3>1, <3>2, <3>3, <3>4 DEF Step
  <2> QED BY <1>1, <2>1, <2>2 DEF Next
<1> QED BY <1>1, RetrievalHolds, PTL DEF Spec, SettledStays
====
