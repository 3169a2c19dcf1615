----------------------------- MODULE Retrieval -----------------------------
(* One retrieval search: the strategies with their fallbacks, the fusion of   *)
(* two rankings, the graph expansion and the rerank, each reading the tables  *)
(* in a statement of its own while ingestion commits versions and chunks.     *)
(*                                                                            *)
(* A ranking is any order of the rows a statement may return: distances and   *)
(* text scores are data the properties do not need.                           *)
EXTENDS Integers, Sequences, FiniteSets, SequencesExt, FiniteSetsExt

CONSTANTS
    Chunks,         \* chunk ids, numbers: their order breaks ties
    ChunkTable,     \* [Chunks -> [document, version, matches]]
    Limits,         \* the limits a request asks for
    MaxLimit        \* CHAT_RETRIEVAL_MAX_LIMIT

Documents == {ChunkTable[c].document : c \in Chunks}

\* The rank of a chunk in a ranking that does not have it, which sorts it last.
NoRank == 1000000000

ASSUME RetrievalAssumption ==
    /\ Chunks \subseteq Nat /\ IsFiniteSet(Chunks)
    /\ \A c \in Chunks : ChunkTable[c].version \in Nat /\ ChunkTable[c].matches \in BOOLEAN
    /\ MaxLimit \in Nat \ {0} /\ MaxLimit < NoRank /\ Limits \subseteq Int

VARIABLES
    corpus,     \* the tables: latest version numbers, chunks, chunks with two sparse rows
    search      \* the search in flight

retrievalVars == <<corpus, search>>

Strategies == {"dense", "graph", "lexical", "bm25", "sparse", "hybrid_rrf", "dense_sparse"}

\* The phases of a search; `first` is the dense ranking, `second` the one it is
\* fused with, `found` the candidates, `results` the answer, `fallback` a
\* fallback reason, `reranked` whether the reranker chose the order; `since` is
\* a history variable, the latest versions when the search began.
Search == [phase : {"idle", "dense", "second", "found", "done", "error"},
           strategy : Strategies, limit : Int, candidateLimit : Int, rerank : BOOLEAN,
           first : Seq(Chunks), second : Seq(Chunks), found : Seq(Chunks),
           results : Seq(Chunks), fallback : BOOLEAN, reranked : BOOLEAN,
           since : [Documents -> Nat]]

NoVersions == [d \in Documents |-> 0]
NoSearch ==
    [phase |-> "idle", strategy |-> "dense", limit |-> 0, candidateLimit |-> 0,
     rerank |-> FALSE, first |-> <<>>, second |-> <<>>, found |-> <<>>, results |-> <<>>,
     fallback |-> FALSE, reranked |-> FALSE, since |-> NoVersions]

OfVersion(d, v) == {c \in Chunks : ChunkTable[c].document = d /\ ChunkTable[c].version = v}

RetrievalTypeOK ==
    /\ corpus \in [latest : [Documents -> Nat], chunks : SUBSET Chunks, twice : SUBSET Chunks]
    /\ search \in Search

RetrievalInit ==
    /\ corpus = [latest |-> [d \in Documents |-> 1],
                 chunks |-> UNION {OfVersion(d, 1) : d \in Documents}, twice |-> {}]
    /\ search = NoSearch

-----------------------------------------------------------------------------
\* A definition whose name ends in Fault is the definition after it with a
\* plausible bug.  No specification uses it: the properties must notice it.

\* What ingestion commits while the search has tables to read.
Reading == search.phase \in {"idle", "dense", "second"}

CommitVersion(d) ==
    /\ Reading
    /\ \E v \in {corpus.latest[d] + 1} :
          /\ OfVersion(d, v) # {}
          /\ corpus' = [corpus EXCEPT !.latest[d] = v]
    /\ UNCHANGED search

CommitChunks(d) ==
    /\ Reading
    /\ corpus' = [corpus EXCEPT !.chunks = @ \cup OfVersion(d, corpus.latest[d])]
    /\ corpus' # corpus
    /\ UNCHANGED search

\* Two index transactions that overlapped left a chunk with two sparse rows.
CommitSecondSparseRow(c) ==
    /\ Reading
    /\ c \in corpus.chunks
    /\ corpus' = [corpus EXCEPT !.twice = {c}]
    /\ corpus' # corpus
    /\ UNCHANGED search

-----------------------------------------------------------------------------
\* The rows of a retriever.

\* _apply_filters with latest_document_version_clause: the workspace, the
\* filters and the latest version; neither the deletion of the source nor the
\* provider of an embedding is asked for.
Eligible ==
    {c \in corpus.chunks : /\ ChunkTable[c].matches
                           /\ ChunkTable[c].version = corpus.latest[ChunkTable[c].document]}

Prefix(s, n) == SubSeq(s, 1, IF n < Len(s) THEN n ELSE Len(s))

\* The members of a set in the order a relation puts them.
Sorted(S, before) ==
    [i \in 1..Cardinality(S) |->
        CHOOSE c \in S : Cardinality({d \in S : <<d, c>> \in before}) = i - 1]

OrdersOf(S) == {s \in [1..Cardinality(S) -> S] : Range(s) = S}
Arrangements(S) == UNION {OrdersOf(T) : T \in SUBSET S}

\* The dense ranking: every eligible chunk by distance, up to the limit.
DenseRankings(n) == {Prefix(s, n) : s \in OrdersOf(Eligible)}

\* The sparse ranking: the sparse rows of the chunks with a positive score, each
\* row ranked by its own score.
RankedRows == (Eligible \X {1}) \cup ((corpus.twice \cap Eligible) \X {2})
SparseRankings(n) ==
    {Prefix([i \in DOMAIN s |-> s[i][1]], n) : s \in Arrangements(RankedRows)}

\* The lexical and the BM25 ranking: the chunks a term of the query matches.
TextRankings(n) == {Prefix(s, n) : s \in Arrangements(Eligible)}

-----------------------------------------------------------------------------
\* Reciprocal rank fusion.  Scores are integers: 1/(60 + rank) times a common
\* multiple, for ranks up to 5.

RrfScale == 61 * 62 * 63 * 64 * 65
RrfScore(rank) == RrfScale \div (60 + rank)
Positions(list, c) == {i \in DOMAIN list : list[i] = c}

\* Every row of a chunk adds to its score, of which a list has at most two.
ScoreIn(list, c) ==
    LET at == Positions(list, c) IN
    IF at = {} THEN 0
    ELSE RrfScore(Max(at)) + (IF Min(at) < Max(at) THEN RrfScore(Min(at)) ELSE 0)

\* The rank the sort key uses.
RankIn(list, c) == IF Positions(list, c) = {} THEN NoRank ELSE Max(Positions(list, c))

FusedKey(first, second, c) ==
    <<-(ScoreIn(first, c) + ScoreIn(second, c)), RankIn(first, c), RankIn(second, c), c>>

KeyLess(a, b) == \E i \in 1..4 : a[i] < b[i] /\ \A j \in 1..(i - 1) : a[j] = b[j]

FusedBefore(first, second) ==
    {p \in Chunks \X Chunks : KeyLess(FusedKey(first, second, p[1]), FusedKey(first, second, p[2]))}

Fused(first, second, n) ==
    Prefix(Sorted(Range(first) \cup Range(second), FusedBefore(first, second)), n)

-----------------------------------------------------------------------------
\* The search.

\* The limits are checked before anything is read; the candidate limit is the
\* limit when no rerank is asked for.
Accepted(limit, candidateLimit) ==
    limit \in 1..MaxLimit /\ candidateLimit \in limit..MaxLimit

BeginSearch(strategy, limit, rerank, candidateLimit) ==
    /\ search.phase = "idle"
    /\ ~rerank => candidateLimit = limit
    /\ search' = [NoSearch EXCEPT
          !.phase = IF ~Accepted(limit, candidateLimit) THEN "error"
                    ELSE IF strategy \in {"lexical", "bm25", "sparse"} THEN "second" ELSE "dense",
          !.strategy = strategy, !.limit = limit, !.rerank = rerank,
          !.candidateLimit = candidateLimit, !.since = corpus.latest]
    /\ UNCHANGED corpus

\* The answer of the search, unless it is to be reranked first.
Answers(found, fallback) ==
    search' = [search EXCEPT
        !.found = found, !.fallback = fallback,
        !.phase = IF search.rerank /\ found # <<>> THEN "found" ELSE "done",
        !.results = IF search.rerank /\ found # <<>> THEN <<>> ELSE found]

DenseSearch ==
    /\ search.phase = "dense"
    /\ \E first \in DenseRankings(search.candidateLimit) :
          IF search.strategy = "dense"
          THEN Answers(first, FALSE)
          ELSE search' = [search EXCEPT !.phase = "second", !.first = first]
    /\ UNCHANGED corpus

\* The query could not be embedded, or a budget was exceeded: the error of the
\* search.  Only sparse and graph errors fall back.
SearchFails ==
    /\ search.phase \in {"dense", "second"}
    /\ search' = [search EXCEPT !.phase = "error", !.first = <<>>]
    /\ UNCHANGED corpus

\* _fuse_rrf_results of the dense ranking and a second one.
FuseWith(second, fallback) ==
    LET found == Fused(search.first, second, search.candidateLimit)
    IN search' = [search EXCEPT !.second = second, !.found = found, !.fallback = fallback,
                                !.phase = "found"]

TextSearch ==
    /\ search.phase = "second" /\ search.strategy \in {"lexical", "bm25", "hybrid_rrf"}
    /\ \E second \in TextRankings(search.candidateLimit) :
          IF search.strategy = "hybrid_rrf" THEN FuseWith(second, FALSE) ELSE Answers(second, FALSE)
    /\ UNCHANGED corpus

SparseSearch ==
    /\ search.phase = "second" /\ search.strategy \in {"sparse", "dense_sparse"}
    /\ \E second \in SparseRankings(search.candidateLimit) :
          IF search.strategy = "dense_sparse" THEN FuseWith(second, FALSE)
          ELSE Answers(second, FALSE)
    /\ UNCHANGED corpus

\* No sparse provider, or its error: BM25 in its place, with the reason.
SparseFallsBack ==
    /\ search.phase = "second" /\ search.strategy \in {"sparse", "dense_sparse"}
    /\ \E second \in TextRankings(search.candidateLimit) :
          IF search.strategy = "dense_sparse" THEN FuseWith(second, TRUE)
          ELSE Answers(second, TRUE)
    /\ UNCHANGED corpus

\* The hits are answered without a look at the tables.
CitedFault(hits) == hits

\* _to_graph_search_results: each hit once, and only those the tables still
\* cite for this request.
Cited(hits) ==
    LET kept == {i \in DOMAIN hits : /\ hits[i] \in Eligible
                                     /\ \A j \in 1..(i - 1) : hits[j] # hits[i]}
        places == Sorted(kept, {p \in kept \X kept : p[1] < p[2]})
    IN [i \in DOMAIN places |-> hits[places[i]]]

\* The graph store answers from its own projection, which may hold chunks of
\* versions that are superseded.
GraphSearch ==
    /\ search.phase = "second" /\ search.strategy = "graph"
    /\ IF search.first = <<>>
       THEN Answers(<<>>, FALSE)
       ELSE \E hits \in {Prefix(s, search.candidateLimit) :
                            s \in Arrangements({c \in corpus.chunks : ChunkTable[c].matches})} :
                Answers(Cited(hits), FALSE)
    /\ UNCHANGED corpus

\* No graph, a projection that is not ready or an error of the store: the dense
\* results, with the reason.
GraphFallsBack ==
    /\ search.phase = "second" /\ search.strategy = "graph"
    /\ Answers(search.first, TRUE)
    /\ UNCHANGED corpus

\* A fused answer without rerank.
AnswerFused ==
    /\ search.phase = "found" /\ (~search.rerank \/ search.found = <<>>)
    /\ search' = [search EXCEPT !.phase = "done", !.results = search.found,
                                !.first = <<>>, !.second = <<>>]
    /\ UNCHANGED corpus

-----------------------------------------------------------------------------
\* Rerank.

\* The scores of a provider name candidates by index: known ones, perhaps one
\* of them twice, at most top_k of them.
TopK == IF search.limit < Len(search.found) THEN search.limit ELSE Len(search.found)
Scores == UNION {[1..n -> Range(search.found)] : n \in 0..TopK}

\* RerankRequest wants unique candidates, _apply_rerank_result some scores and
\* none of them twice.
Applied(scores) == scores # <<>> /\ IsInjective(scores) /\ IsInjective(search.found)

Rerank ==
    /\ search.phase = "found" /\ search.rerank /\ search.found # <<>>
    /\ \E scores \in Scores :
          /\ Applied(scores)
          /\ search' = [search EXCEPT !.phase = "done", !.results = scores, !.reranked = TRUE,
                                      !.first = <<>>, !.second = <<>>]
    /\ UNCHANGED corpus

Unreranked == Prefix(search.found, search.limit)

RerankFallsBack ==
    /\ search.phase = "found" /\ search.rerank /\ search.found # <<>>
    /\ search' = [search EXCEPT !.phase = "done", !.results = Unreranked, !.fallback = TRUE,
                                !.first = <<>>, !.second = <<>>]
    /\ UNCHANGED corpus

-----------------------------------------------------------------------------
Ingest ==
    \/ \E d \in Documents : CommitVersion(d) \/ CommitChunks(d)
    \/ \E c \in Chunks : CommitSecondSparseRow(c)

RetrievalNext ==
    \/ Ingest
    \/ \E strategy \in Strategies, limit \in Limits, rerank \in BOOLEAN, n \in Limits :
          BeginSearch(strategy, limit, rerank, n)
    \/ DenseSearch \/ SearchFails \/ TextSearch \/ SparseSearch \/ SparseFallsBack
    \/ GraphSearch \/ GraphFallsBack \/ AnswerFused \/ Rerank \/ RerankFallsBack

RetrievalSpec == RetrievalInit /\ [][RetrievalNext]_retrievalVars

-----------------------------------------------------------------------------
\* Whatever the strategy, its fallbacks, a stale graph or the reranker
\* contribute, an answer cites chunks of the workspace that pass the filter, and
\* none of a version that was superseded before the search began.
AnswerIsCurrent ==
    \A c \in Range(search.results) \cup Range(search.found) :
        /\ ChunkTable[c].matches
        /\ ChunkTable[c].version >= search.since[ChunkTable[c].document]

\* An answer has at most `limit` results and cites no chunk twice, except a
\* sparse search of a chunk with two sparse rows that no rerank came after.
AnswerIsDistinct ==
    search.phase = "done" =>
        /\ Len(search.results) <= search.limit
        /\ \/ IsInjective(search.results)
           \/ search.strategy = "sparse" /\ ~search.reranked /\ corpus.twice # {}

\* The reranker reorders or drops candidates; it brings none of its own and
\* names none twice, and without it the order of the search stands.
RerankChooses ==
    search.phase = "done" =>
        /\ Range(search.results) \subseteq Range(search.found)
        /\ search.reranked => IsInjective(search.results) /\ search.results # <<>>
        /\ ~search.reranked => IsPrefix(search.results, search.found)

\* A chunk that comes before another in every ranking that has the other comes
\* before it in the fusion, and is not the one that is cut off, if no chunk has
\* two rows.
FusionAgrees ==
    LET ahead(list, a, b) ==
            Positions(list, b) # {} =>
                Positions(list, a) # {} /\ Max(Positions(list, a)) < Max(Positions(list, b))
    IN (/\ search.phase = "found" /\ search.strategy \in {"hybrid_rrf", "dense_sparse"}
        /\ IsInjective(search.second)) =>
        \A b \in DOMAIN search.found :
            \A a \in (Range(search.first) \cup Range(search.second)) \ {search.found[b]} :
                ahead(search.first, a, search.found[b]) /\ ahead(search.second, a, search.found[b])
                    => a \in Range(SubSeq(search.found, 1, b - 1))

\* Whatever ingestion commits between the statements of a search, and whatever
\* falls back: answers are current, distinct and in the order of their rankings.
AnswersAgree ==
    /\ AnswerIsCurrent
    /\ AnswerIsDistinct
    /\ RerankChooses
    /\ FusionAgrees

=============================================================================
