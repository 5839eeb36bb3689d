---- MODULE Retrieval ----
(***************************************************************************)
(* How a question finds its clauses, in the threads of one worker process. *)
(* Each thread has one job: an extraction, which reads its documents and   *)
(* searches them for a question, or the sweep for orphaned embeddings.     *)
(* The threads share what the process loads once: the vector store, the    *)
(* embedder and the reranker.                                              *)
(*                                                                         *)
(* An extraction is [docs, engines, target, queries]: its PDFs by label,   *)
(* the OCR engines installed, the document a question is asked of, and the *)
(* number of searches for it.                                              *)
(***************************************************************************)
EXTENDS DocumentText

CONSTANTS
    Threads,         \* of the worker
    Work,            \* which jobs the threads may have, by thread; Sweep is the sweep
    Queries(_),      \* for n clauses, queries [words, near, blank]: the BM25 scores, the
                     \* similarities, and whether the query's own vector is zero
    Pool,            \* pool_size
    Deep,            \* top_k of one search
    Final,           \* TOP_K_AFTER_RERANK
    MinCandidates    \* MIN_CANDIDATES

ASSUME BoundsAssumption == {Pool, Deep, Final, MinCandidates} \subseteq Nat \ {0}

Sweep == [docs |-> <<>>, engines |-> {}, target |-> "sweep", queries |-> 0]
RrfK == 60

VARIABLES
    job, pc,
    corpus,       \* _flat: [label, clause] in the order of the documents
    vectors,      \* _clause_vectors: whether each vector is other than zero
    left,         \* the searches still to make
    hits,         \* what they have found: places in corpus, in order
    store,        \* _singleton of vector_store.py: "none", "pgvector" or "noop"
    storeLock,
    embedder,     \* _singleton of embeddings.py is there
    embedLock,
    reranker,     \* _reranker_model is there
    available     \* _reranker_available: "unknown", "yes" or "no"

context == <<corpus, vectors, left, hits>>
singletons == <<store, storeLock, embedder, embedLock, reranker, available>>
vars == <<job, pc, context, singletons>>

Goto(t, l) == pc' = [pc EXCEPT ![t] = l]
At(t, l) == pc[t] = l
Free == "free"

----------------------------------------------------------------------------
(* get_vector_store, first of all by the sweep *)

SweepStart(t) ==
    /\ At(t, "start") /\ job[t] = Sweep
    /\ Goto(t, IF store # "none" THEN "done" ELSE "store_lock")
    /\ UNCHANGED <<job, context, singletons>>

StoreLock(t) ==
    /\ At(t, "store_lock") /\ storeLock = Free
    /\ storeLock' = t
    /\ Goto(t, "store_init")
    /\ UNCHANGED <<job, context, store, embedder, embedLock, reranker, available>>

\* Mutant of StoreMissing: the store is not looked at again under the lock.
StoreUnchecked == TRUE

\* The second check, under the lock.
StoreMissing == store = "none"

\* The constructor may fail, and then the store does nothing as long as the process
\* lives.
StoreInit(t) ==
    /\ At(t, "store_init")
    /\ store' \in IF StoreMissing THEN {"pgvector", "noop"} ELSE {store}
    /\ storeLock' = Free
    /\ Goto(t, "done")
    /\ UNCHANGED <<job, context, embedder, embedLock, reranker, available>>

----------------------------------------------------------------------------
(* Reading the documents *)

\* The clauses of all documents, of which n is the place of their document.
Entries(j) ==
    UNION {{[n |-> n, label |-> j.docs[n].label, clause |-> c] : c \in Clauses(j.docs[n].pdf, j.engines)} :
              n \in DOMAIN j.docs}

\* build_index: document by document, page by page, from the first line to the last.
Sooner(d, e) ==
    \/ d.n < e.n
    \/ d.n = e.n /\ d.clause.page < e.clause.page
    \/ d.n = e.n /\ d.clause.page = e.clause.page /\ d.clause.start < e.clause.start

Flat(j) == Listed(Entries(j), {p \in Entries(j) \X Entries(j) : Sooner(p[1], p[2])})

\* Documents, pages and lines are lists, and labels the keys of a dictionary.
ASSUME WorkAssumption ==
    \A work \in Work, t \in Threads :
      LET docs == work[t].docs
      IN /\ work[t].queries \in Nat
         /\ docs \in Seq(Range(docs)) /\ IsInjective([n \in DOMAIN docs |-> docs[n].label])
         /\ \A n \in DOMAIN docs :
              LET pages == docs[n].pdf.pages
              IN /\ pages \in Seq(Range(pages))
                 /\ \A p \in DOMAIN pages :
                      {pages[p].digital.lines, pages[p].paddle.lines, pages[p].tesseract.lines} \subseteq Seq(LineKinds)

\* A query gives each clause a score by its words and one by its vector.
ASSUME QueriesAssumption ==
    \A work \in Work, t \in Threads :
      LET n == Len(Flat(work[t]))
      IN \A q \in Queries(n) : {q.words, q.near} \subseteq [1..n -> Int]

\* _build_context.  A file that cannot be read is left without clauses and class.
BuildContext(t) ==
    /\ At(t, "start") /\ job[t] # Sweep
    /\ corpus' = [corpus EXCEPT ![t] = Flat(job[t])]
    /\ vectors' = [vectors EXCEPT ![t] = <<>>]
    /\ left' = [left EXCEPT ![t] = job[t].queries]
    /\ hits' = [hits EXCEPT ![t] = <<>>]
    /\ Goto(t, IF Flat(job[t]) = <<>> THEN "done" ELSE "embed")
    /\ UNCHANGED <<job, singletons>>

----------------------------------------------------------------------------
(* _ensure_vector_index, at the first search *)

\* get_embedder, without and with the lock.  Its constructor may raise: then this context
\* searches words only, and the next one tries again.
EmbedderCheck(t) ==
    /\ At(t, "embed")
    /\ Goto(t, IF embedder THEN "vectors" ELSE "embed_lock")
    /\ UNCHANGED <<job, context, singletons>>

EmbedderLock(t) ==
    /\ At(t, "embed_lock") /\ embedLock = Free
    /\ embedLock' = t
    /\ Goto(t, "embed_init")
    /\ UNCHANGED <<job, context, store, storeLock, embedder, reranker, available>>

EmbedderInit(t) ==
    /\ At(t, "embed_init")
    /\ embedLock' = Free
    /\ \/ embedder' = TRUE /\ Goto(t, "vectors") /\ UNCHANGED vectors
       \/ /\ ~embedder
          /\ vectors' = [vectors EXCEPT ![t] = <<>>]
          /\ Goto(t, "search")
          /\ UNCHANGED embedder
    /\ UNCHANGED <<job, corpus, left, hits, store, storeLock, reranker, available>>

\* Any of the clauses may fail to be embedded: its vector is zero.
BuildVectors(t) ==
    /\ At(t, "vectors")
    /\ \E v \in [DOMAIN corpus[t] -> BOOLEAN] : vectors' = [vectors EXCEPT ![t] = v]
    /\ Goto(t, "search")
    /\ UNCHANGED <<job, corpus, left, hits, singletons>>

----------------------------------------------------------------------------
(* The searches: operators of a corpus c, vectors v and a query q *)

Up(s, k) == SubSeq(s, 1, Min({k, Len(s)}))

\* Places by falling score; equal scores keep their order.
Ranked(S, score) ==
    Listed(S, {p \in S \X S : score[p[1]] > score[p[2]] \/ (score[p[1]] = score[p[2]] /\ p[1] < p[2])})

WithWords(c, q) == {i \in DOMAIN c : q.words[i] > 0}
OfDocument(c, S, label) == {i \in S : c[i].label = label}

\* DocumentContext.search: BM25 alone.
Search(c, q, label) == Up(Ranked(OfDocument(c, WithWords(c, q), label), q.words), Deep)

\* Mutant of Near: the other documents take part.
NearAnywhere(c, v, q, label) ==
    IF q.blank \/ v = <<>> THEN <<>>
    ELSE Up(Ranked({i \in DOMAIN c : v[i]}, q.near), Pool)

\* _vector_search: of the document; a zero vector is near to nothing.
Near(c, v, q, label) ==
    IF q.blank \/ v = <<>> THEN <<>>
    ELSE Up(Ranked(OfDocument(c, {i \in DOMAIN c : v[i]}, label), q.near), Pool)

\* What a ranking gives to a clause, in millionths.
Place(s, i) == CHOOSE n \in DOMAIN s : s[n] = i
Share(s, i) == IF i \in Range(s) THEN 1000000 \div (RrfK + Place(s, i)) ELSE 0

\* hybrid_search.  The best of the whole corpus by words are cut off before the document
\* is looked at; of equal sums the one by words comes first.
Hybrid(c, v, q, label) ==
    LET near == Near(c, v, q, label)
        words == Up(Ranked(WithWords(c, q), q.words), Pool)
        own == OfDocument(c, Range(words) \cup Range(near), label)
        Seen(i) == IF i \in Range(words) THEN Place(words, i) ELSE Len(words) + Place(near, i)
        Sum(i) == Share(words, i) + Share(near, i)
        Above(i, j) == Sum(i) > Sum(j) \/ (Sum(i) = Sum(j) /\ Seen(i) < Seen(j))
    IN IF near = <<>> THEN Search(c, q, label)
       ELSE Up(Listed(own, {p \in own \X own : Above(p[1], p[2])}), Deep)

\* _clause_ref
Ref(e) == <<e.label, e.clause.page, e.clause.number, e.clause.start>>

\* Mutant of Searching: one search too many.
SearchingOn(t) == At(t, "search") /\ left[t] >= 0

\* for query in queries
Searching(t) == At(t, "search") /\ left[t] > 0

\* What found has and old has not, by their references.
Fresh(c, old, found) ==
    LET S == {i \in Range(found) : \A h \in Range(old) : Ref(c[i]) # Ref(c[h])}
    IN Listed(S, {p \in S \X S : Place(found, p[1]) < Place(found, p[2])})

\* One search of _gather_clauses: what was not found before is added.
SearchOnce(t) ==
    /\ Searching(t)
    /\ \E q \in Queries(Len(corpus[t])) :
         hits' = [hits EXCEPT ![t] =
                    @ \o Fresh(corpus[t], @, Hybrid(corpus[t], vectors[t], q, job[t].target))]
    /\ left' = [left EXCEPT ![t] = @ - 1]
    /\ UNCHANGED <<job, pc, corpus, vectors, singletons>>

----------------------------------------------------------------------------
(* rerank *)

\* Few candidates are left as they are.
Gathered(t) ==
    /\ At(t, "search") /\ left[t] = 0
    /\ IF Len(hits[t]) < MinCandidates
       THEN hits' = [hits EXCEPT ![t] = Up(@, Final)] /\ Goto(t, "done")
       ELSE Goto(t, "rerank") /\ UNCHANGED hits
    /\ UNCHANGED <<job, corpus, vectors, left, singletons>>

\* _try_load_reranker, which takes no lock; the package may be missing.
RerankerCheck(t) ==
    /\ At(t, "rerank")
    /\ \/ available = "no" /\ Goto(t, "unranked") /\ UNCHANGED available
       \/ available # "no" /\ reranker /\ Goto(t, "predict") /\ UNCHANGED available
       \/ available # "no" /\ ~reranker /\ Goto(t, "load") /\ UNCHANGED available
       \/ available # "no" /\ ~reranker /\ available' = "no" /\ Goto(t, "unranked")
    /\ UNCHANGED <<job, context, store, storeLock, embedder, embedLock, reranker>>

\* The model is loaded, or that fails; the flag and the model are set one after the other,
\* and what the model is then is returned.
RerankerLoad(t) ==
    \/ At(t, "load") /\ reranker' = TRUE /\ Goto(t, "loaded") /\ UNCHANGED available
    \/ At(t, "load") /\ available' = "no" /\ Goto(t, "failed") /\ UNCHANGED reranker
    \/ At(t, "loaded") /\ available' = "yes" /\ Goto(t, "return") /\ UNCHANGED reranker
    \/ At(t, "failed") /\ reranker' = FALSE /\ Goto(t, "return") /\ UNCHANGED available
    \/ At(t, "return") /\ Goto(t, IF reranker THEN "predict" ELSE "unranked") /\ UNCHANGED <<reranker, available>>

Rerank(t) ==
    /\ RerankerLoad(t)
    /\ UNCHANGED <<job, context, store, storeLock, embedder, embedLock>>

\* The reranker gives any order; without it, or if it fails, the order stays.
Reranked(t) ==
    /\ At(t, "predict") \/ At(t, "unranked")
    /\ LET n == Min({Final, Len(hits[t])})
       IN \/ hits' = [hits EXCEPT ![t] = Up(@, Final)]
          \/ /\ At(t, "predict")
             /\ \E s \in [1..n -> Range(hits[t])] : IsInjective(s) /\ hits' = [hits EXCEPT ![t] = s]
    /\ Goto(t, "done")
    /\ UNCHANGED <<job, corpus, vectors, left, singletons>>

----------------------------------------------------------------------------

Init ==
    /\ job \in Work
    /\ pc = [t \in Threads |-> "start"]
    /\ corpus = [t \in Threads |-> <<>>]
    /\ vectors = [t \in Threads |-> <<>>]
    /\ left = [t \in Threads |-> 0]
    /\ hits = [t \in Threads |-> <<>>]
    /\ store = "none" /\ storeLock = Free
    /\ embedder = FALSE /\ embedLock = Free
    /\ reranker = FALSE /\ available = "unknown"

Step(t) ==
    \/ SweepStart(t) \/ StoreLock(t) \/ StoreInit(t)
    \/ BuildContext(t)
    \/ EmbedderCheck(t) \/ EmbedderLock(t) \/ EmbedderInit(t) \/ BuildVectors(t)
    \/ SearchOnce(t) \/ Gathered(t)
    \/ RerankerCheck(t) \/ Rerank(t) \/ Reranked(t)

Next == \E t \in Threads : Step(t)

Spec == Init /\ [][Next]_vars

----------------------------------------------------------------------------
(* Correctness *)

\* Every variable keeps its type.
TypeOK ==
    /\ job \in Work
    /\ store \in {"none", "pgvector", "noop"} /\ {embedder, reranker} \subseteq BOOLEAN
    /\ available \in {"unknown", "yes", "no"}
    /\ {storeLock, embedLock} \subseteq Threads \cup {Free}
    /\ \A t \in Threads :
         /\ Range(hits[t]) \subseteq DOMAIN corpus[t]
         /\ vectors[t] \in {<<>>} \cup [DOMAIN corpus[t] -> BOOLEAN]
         /\ job[t] # Sweep => left[t] \in 0..job[t].queries

\* The clauses of a page are its text cut in pieces: every line is in one clause of the
\* document and in no other, whatever marks coincide, and no two clauses of a run have
\* one reference, by which searches leave out what they have found (ocr.py:377-419,
\* playbook_executor.py:389).
ClausesTile ==
    \A t \in Threads : corpus[t] # <<>> =>
      /\ \A i, j \in DOMAIN corpus[t] : Ref(corpus[t][i]) = Ref(corpus[t][j]) => i = j
      /\ \A n \in DOMAIN job[t].docs : Readable(job[t].docs[n].pdf) =>
           LET pages == Texts(job[t].docs[n].pdf, job[t].engines)
           IN \A p \in DOMAIN pages : \A l \in DOMAIN pages[p].lines :
                Cardinality({i \in DOMAIN corpus[t] :
                  /\ corpus[t][i].label = job[t].docs[n].label /\ corpus[t][i].clause.page = p
                  /\ l \in corpus[t][i].clause.start .. (corpus[t][i].clause.end - 1)}) = 1

\* The pool is cut off before the document is chosen, and any vectors may be missing;
\* still the hybrid search finds something in the document wherever the search for words
\* does, and what is cited is of that document and cited once (tools.py:181-234).
HybridFindsWhatWordsFind ==
    \A t \in Threads :
      /\ At(t, "search") =>
           \A q \in Queries(Len(corpus[t])) :
             Search(corpus[t], q, job[t].target) # <<>> => Hybrid(corpus[t], vectors[t], q, job[t].target) # <<>>
      /\ IsInjective(hits[t]) /\ \A i \in Range(hits[t]) : corpus[t][i].label = job[t].target

\* Threads race for the first use, and any of the constructors may fail; once the process
\* has a store or an embedder it keeps it (vector_store.py:307-313).
SettledStays ==
    [][(store # "none" => store' = store) /\ (embedder => embedder')]_vars
====
