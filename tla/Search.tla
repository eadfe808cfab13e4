------------------------------- MODULE Search -------------------------------
(***************************************************************************)
(* Retrieval over a corpus that is cut into shards: python/jude/vector.py, *)
(* _bm25.py, cluster.py (k-means), lance.py (hybrid_search), retrieval.py  *)
(* and the shard calls of runners/_ray_shim.py.                            *)
(*                                                                         *)
(* A row is [id, pos, text]: an embedding is a position on a line, a text  *)
(* a sequence of words.  DuckDB's distance for "l2" is the distance, that  *)
(* of the workers its square.  The logarithm of BM25's idf is left out     *)
(* (what is under it grows with it) and its fractions are rounded down.    *)
(***************************************************************************)
EXTENDS Integers, SequencesExt

CONSTANTS
    Corpora,        \* sequences of shards, a shard is a sequence of rows
    Questions,      \* what is asked: see MCLibrary
    RrfK            \* the constant of reciprocal rank fusion (60)

\* Positions are numbers, an id names one row, and queries are numbers.
CorpusRows(shards) == ToSet(FlattenSeq(shards))
ASSUME SearchAssumption ==
    /\ \A shards \in Corpora :
          /\ shards \in Seq(Seq(CorpusRows(shards)))
          /\ \A r, s \in CorpusRows(shards) : r.pos \in Int /\ (r.id = s.id => r = s)
    /\ \A asked \in Questions : asked.q \in Int /\ asked.k \in Nat /\ asked.probes \in Int

VARIABLES
    corpus, question,
    reply,          \* the result of the call, NoResult before
    relations       \* names registered with the connection

searchVars == <<corpus, question, reply, relations>>

NoResult == [hits |-> <<>>, at |-> "asked"]
AllRows == FlattenSeq(corpus)
RowOf(id) == AllRows[SelectInSeq(AllRows, LAMBDA r : r.id = id)]
OneShard == <<AllRows>>
Gap(x, y) == IF x < y THEN y - x ELSE x - y
AtMost(s, k) == SubSeq(s, 1, Min({k, Len(s)}))
Sum(f) == FoldFunction(+, 0, f)
Hit(row, d) == [id |-> row.id, d |-> d]

(***************************************************************************)
(* Exact search: by distance, the first k.                                 *)
(***************************************************************************)
Nearest(hits, left) ==
    CHOOSE i \in left : \A j \in left : hits[i].d < hits[j].d \/ (hits[i].d = hits[j].d /\ i <= j)
TopK(hits, k) ==
    LET left[n \in 0..Len(hits)] ==
            IF n = 0 THEN DOMAIN hits ELSE left[n - 1] \ {Nearest(hits, left[n - 1])}
    IN [n \in 1..Min({k, Len(hits)}) |-> hits[Nearest(hits, left[n - 1])]]
\* The elements of s whose number has the property.
Those(s, yes) == FlattenSeq([i \in DOMAIN s |-> IF yes[i] THEN <<s[i]>> ELSE <<>>])
\* Mutant: the shards' answers are taken one after the other.
MergeUnsorted(locals, k) == AtMost(FlattenSeq(locals), k)
MergeTopK(locals, k) == TopK(FlattenSeq(locals), k)

Knn(rows, q, k) == TopK([i \in DOMAIN rows |-> Hit(rows[i], Gap(rows[i].pos, q))], k)
RangeSearch(rows, q, radius) ==
    LET all == Knn(rows, q, Len(rows)) IN Those(all, [i \in DOMAIN all |-> all[i].d <= radius])
DistributedKnn(shards, q, k) == MergeTopK([s \in DOMAIN shards |-> Knn(shards[s], q, k)], k)

Squared(row, q) == Gap(row.pos, q) * Gap(row.pos, q)
VectorExactShard(shard, q, k) == TopK([i \in DOMAIN shard |-> Hit(shard[i], Squared(shard[i], q))], k)
DistributedResident(shards, q, k) == MergeTopK([s \in DOMAIN shards |-> VectorExactShard(shards[s], q, k)], k)
\* The batch: every hit is tagged with its query, and merged with its like.
VectorExactShardBatch(shard, qs, k) ==
    FlattenSeq([i \in DOMAIN qs |->
        LET local == VectorExactShard(shard, qs[i], k)
        IN [n \in DOMAIN local |-> [qi |-> i, id |-> local[n].id, d |-> local[n].d]]])
DistributedResidentBatch(shards, qs, k) ==
    LET merged == FlattenSeq([s \in DOMAIN shards |-> VectorExactShardBatch(shards[s], qs, k)])
    IN [i \in DOMAIN qs |-> TopK(Those(merged, [n \in DOMAIN merged |-> merged[n].qi = i]), k)]

(***************************************************************************)
(* Approximate search.  The index of a shard (Lance's) knows cells of two  *)
(* positions and a row's distance by its cell only; it scans the cells     *)
(* nearest to the query.                                                   *)
(***************************************************************************)
Cell(x) == x \div 2
CellGap(row, q) == 4 * Gap(Cell(row.pos), Cell(q)) * Gap(Cell(row.pos), Cell(q))
Nearer(shard, c, q) ==
    {Cell(shard[i].pos) : i \in {i \in DOMAIN shard : Gap(Cell(shard[i].pos), Cell(q)) < Gap(c, Cell(q))}}
IndexScan(shard, q, k, probes) ==
    LET probed == SelectSeq(shard, LAMBDA r : Cardinality(Nearer(shard, Cell(r.pos), q)) < probes)
    IN TopK([i \in DOMAIN probed |-> Hit(probed[i], CellGap(probed[i], q))], k)
CandK(k, over) == Max({k, k * Max({1, over})})
Rescored(cands, q) == [i \in DOMAIN cands |-> Hit(cands[i], Squared(RowOf(cands[i].id), q))]
\* No more than k candidates are answered as the index gave them.
KnnRerank(shard, q, k, over, probes) ==
    LET cands == IndexScan(shard, q, CandK(k, over), probes)
    IN IF Len(cands) <= k THEN cands ELSE TopK(Rescored(cands, q), k)
KnnAnnResident(shard, q, k, over, probes) ==
    TopK(Rescored(IndexScan(shard, q, CandK(k, over), probes), q), k)
DistributedAnn(shards, q, k, over, probes) ==
    MergeTopK([s \in DOMAIN shards |-> KnnRerank(shards[s], q, k, over, probes)], k)

Centroid(shard) == IF shard = <<>> THEN 0 ELSE Sum([i \in DOMAIN shard |-> shard[i].pos]) \div Len(shard)
DistributedRouted(shards, q, k, over, probes, n) ==
    LET near == SortSeq([s \in DOMAIN shards |-> [of |-> s, d |-> Gap(Centroid(shards[s]), q)]],
                        LAMBDA a, b : a.d < b.d)
        chosen == AtMost(near, Max({1, n}))
    IN DistributedAnn([i \in DOMAIN chosen |-> shards[chosen[i].of]], q, k, over, probes)

RecallAtK(approx, exact, k) ==
    LET ids(hits) == {h.id : h \in ToSet(AtMost(hits, k))}
    IN <<Cardinality(ids(approx) \cap ids(exact)), Cardinality(ids(exact))>>

(* mmr: the next row is relevant to the query and unlike those selected;   *)
(* lambda counts tenths.                                                   *)
Likeness(x, y) == 10 - Gap(x, y)
MmrScore(rows, q, lambda, selected, c) ==
    lambda * Likeness(rows[c].pos, q) -
    (10 - lambda) * (IF selected = <<>> THEN 0
                     ELSE Max({Likeness(rows[c].pos, rows[s].pos) : s \in ToSet(selected)}))
MmrBest(rows, q, lambda, selected) ==
    LET rest == DOMAIN rows \ ToSet(selected)
        score(c) == MmrScore(rows, q, lambda, selected, c)
    IN CHOOSE c \in rest : \A d \in rest : score(c) > score(d) \/ (score(c) = score(d) /\ c <= d)
Mmr(rows, q, k, lambda) ==
    LET selected[n \in 0..Len(rows)] ==
            IF n = 0 THEN <<>>
            ELSE Append(selected[n - 1], MmrBest(rows, q, lambda, selected[n - 1]))
    IN selected[Min({k, Len(rows)})]

(***************************************************************************)
(* Full text.                                                              *)
(***************************************************************************)
QueryTerms(words) == ToSet(words)
Tf(text, w) == Len(SelectSeq(text, LAMBDA x : x = w))
TermStats(shard, terms) ==
    [n |-> Len(shard), total |-> Sum([i \in DOMAIN shard |-> Len(shard[i].text)]),
     df |-> [w \in terms |-> Cardinality({i \in DOMAIN shard : Tf(shard[i].text, w) > 0})]]
GlobalStats(shards, terms) ==
    LET of == [s \in DOMAIN shards |-> TermStats(shards[s], terms)]
    IN [n |-> Sum([s \in DOMAIN shards |-> of[s].n]), total |-> Sum([s \in DOMAIN shards |-> of[s].total]),
        df |-> [w \in terms |-> Sum([s \in DOMAIN shards |-> of[s].df[w]])]]
Idf(n, df) == (60 * (n + 1)) \div (2 * df + 1)
Bm25(text, stats) ==
    IF stats.total = 0 THEN 0
    ELSE Sum([w \in DOMAIN stats.df |->
            (22 * Idf(stats.n, stats.df[w]) * Tf(text, w) * stats.total) \div
            (10 * Tf(text, w) * stats.total + 3 * stats.total + 9 * Len(text) * stats.n)])
\* The best k documents of a shard that have a term, by its own statistics.
Matching(shard, terms) == SelectSeq(shard, LAMBDA r : ToSet(r.text) \cap terms # {})
Scored(rows, stats) == [i \in DOMAIN rows |-> [id |-> rows[i].id, d |-> -Bm25(rows[i].text, stats)]]
FtsShard(shard, terms, k) == TopK(Scored(Matching(shard, terms), TermStats(shard, terms)), k)
FtsCandidates(shard, terms, k, stats) ==
    LET cands == FtsShard(shard, terms, k)
    IN Scored([i \in DOMAIN cands |-> RowOf(cands[i].id)], stats)
DistributedFts(shards, words, k, over, globalIdf) ==
    LET terms == QueryTerms(words)
        stats == GlobalStats(shards, terms)
    IN IF ~globalIdf
       THEN MergeTopK([s \in DOMAIN shards |-> FtsShard(shards[s], terms, k)], k)
       ELSE IF terms = {} THEN <<>>
       ELSE MergeTopK([s \in DOMAIN shards |-> FtsCandidates(shards[s], terms, CandK(k, over), stats)], k)

(* Reciprocal rank fusion of two rankings.                                 *)
RankOf(hits, id) == SelectInSeq(hits, LAMBDA h : h.id = id)
RrfShare(hits, id) == IF RankOf(hits, id) = 0 THEN 0 ELSE 1000000 \div (RrfK + RankOf(hits, id))
Fuse(kw, vec, k) ==
    LET ids == SetToSortSeq({h.id : h \in ToSet(kw \o vec)}, <)
    IN TopK([i \in DOMAIN ids |-> [id |-> ids[i], d |-> -(RrfShare(kw, ids[i]) + RrfShare(vec, ids[i]))]], k)
HybridSearch(rows, words, q, k) ==
    Fuse(FtsShard(rows, QueryTerms(words), 2 * k), IndexScan(rows, q, 2 * k, 1), k)
DistributedHybrid(shards, words, q, k, over, probes) ==
    Fuse(DistributedFts(shards, words, 2 * k, 5, TRUE), DistributedAnn(shards, q, 2 * k, over, probes), k)

(***************************************************************************)
(* k-means: the shards assign and add up, the driver divides and decides   *)
(* whether the inertia still improves.                                     *)
(***************************************************************************)
Infinity == -1      \* what last starts with: inf - x <= tol * inf holds in Python
NearestCentroid(cents, x) ==
    CHOOSE c \in DOMAIN cents : \A e \in DOMAIN cents :
        Gap(cents[c], x) < Gap(cents[e], x) \/ (Gap(cents[c], x) = Gap(cents[e], x) /\ c <= e)
KmeansMap(shard, cents) ==
    LET label == [i \in DOMAIN shard |-> NearestCentroid(cents, shard[i].pos)]
        mine(c) == {i \in DOMAIN shard : label[i] = c}
    IN [sums |-> [c \in DOMAIN cents |-> Sum([i \in mine(c) |-> shard[i].pos])],
        counts |-> [c \in DOMAIN cents |-> Cardinality(mine(c))],
        inertia |-> Sum([i \in DOMAIN shard |-> Squared(shard[i], cents[label[i]])])]
NotImproved(last, inertia) == last = Infinity \/ 10000 * (last - inertia) <= Max({1, last})
KmeansStep(shards, state) ==
    LET map == [s \in DOMAIN shards |-> KmeansMap(shards[s], state.cents)]
        count(c) == Sum([s \in DOMAIN shards |-> map[s].counts[c]])
        inertia == Sum([s \in DOMAIN shards |-> map[s].inertia])
        stops == NotImproved(state.last, inertia)
    IN IF ~state.on THEN state
       ELSE [cents |-> [c \in DOMAIN state.cents |->
                          IF count(c) = 0 THEN state.cents[c]
                          ELSE Sum([s \in DOMAIN shards |-> map[s].sums[c]]) \div count(c)],
             last |-> IF stops THEN state.last ELSE inertia,
             on |-> ~stops, seen |-> Append(state.seen, inertia)]
Kmeans(shards, seeds, maxIter) ==
    FoldLeft(LAMBDA state, n : KmeansStep(shards, state),
             [cents |-> seeds, last |-> Infinity, on |-> TRUE, seen |-> <<>>],
             [n \in 1..maxIter |-> n])

-----------------------------------------------------------------------------
Unasked == reply = NoResult

Asked(by) == Unasked /\ question.by = by
Give(hits) == reply' = [hits |-> hits, at |-> "answered"]
Unaltered == UNCHANGED <<corpus, question, relations>>
qn == question

AskExact ==
    /\ \/ Asked("knn") /\ Give(DistributedKnn(corpus, qn.q, qn.k))
       \/ Asked("resident") /\ Give(DistributedResident(corpus, qn.q, qn.k))
       \/ Asked("batch") /\ Give(DistributedResidentBatch(corpus, <<qn.q, qn.q + 3, qn.q>>, qn.k))
       \/ Asked("range") /\ Give(RangeSearch(AllRows, qn.q, qn.k))
       \/ Asked("mmr") /\ Give(Mmr(AllRows, qn.q, qn.k, qn.probes))
    /\ Unaltered
AskIndex ==
    /\ \/ Asked("ann") /\ Give(DistributedAnn(corpus, qn.q, qn.k, qn.over, qn.probes))
       \/ Asked("routed") /\ Give(DistributedRouted(corpus, qn.q, qn.k, qn.over, qn.probes, qn.reach))
       \/ Asked("ann_resident") /\ Give(KnnAnnResident(AllRows, qn.q, qn.k, qn.over, qn.probes))
    /\ Unaltered
AskText ==
    /\ \/ Asked("fts") /\ Give(DistributedFts(corpus, qn.words, qn.k, qn.over, TRUE))
       \/ Asked("local_fts") /\ Give(DistributedFts(corpus, qn.words, qn.k, qn.over, FALSE))
       \/ Asked("hybrid") /\ Give(DistributedHybrid(corpus, qn.words, qn.q, qn.k, qn.over, qn.probes))
       \/ Asked("lance_hybrid") /\ Give(HybridSearch(AllRows, qn.words, qn.q, qn.k))
    /\ Unaltered
AskClusters == Asked("kmeans") /\ AllRows # <<>> /\ Give(Kmeans(corpus, <<qn.q, qn.q + qn.over>>, qn.k)) /\ Unaltered

(* hybrid_analytical: the search runs, its hits are registered under a     *)
(* name, SQL joins or aggregates them, and the name is dropped.  The       *)
(* search may raise, before the name is registered, and so may the SQL.    *)
Retrieve ==
    CASE qn.words = <<>> -> DistributedAnn(corpus, qn.q, qn.k, qn.over, qn.probes)
      [] qn.q < 0 -> DistributedFts(corpus, qn.words, qn.k, 5, TRUE)
      [] OTHER -> DistributedHybrid(corpus, qn.words, qn.q, qn.k, qn.over, qn.probes)
SearchThenSql ==
    /\ Asked("analytical")
    /\ \/ /\ reply' = [NoResult EXCEPT !.at = "raised"] /\ UNCHANGED relations
       \/ /\ Give(Retrieve) /\ relations' = relations \cup {"hits"}
    /\ UNCHANGED <<corpus, question>>
SqlEnds ==
    /\ question.by = "analytical" /\ reply.at = "answered"
    /\ \E result \in {"raised", "counted"} :
          reply' = [hits |-> reply.hits, at |-> result, rows |-> Len(reply.hits)]
    /\ relations' = relations \ {"hits"}
    /\ UNCHANGED <<corpus, question>>
\* lance_scan, register_search, register_fts: the relation stays.
RegisterReader ==
    /\ Asked("register")
    /\ Give(IndexScan(AllRows, qn.q, qn.k, qn.probes)) /\ relations' = relations \cup {"hits"}
    /\ UNCHANGED <<corpus, question>>

SearchNext ==
    AskExact \/ AskIndex \/ AskText \/ AskClusters \/ SearchThenSql \/ SqlEnds \/ RegisterReader

-----------------------------------------------------------------------------
HasAnswer == reply.at = "answered"
By(kinds) == HasAnswer /\ question.by \in kinds
Gaps(hits, q) == [i \in DOMAIN hits |-> Gap(RowOf(hits[i].id).pos, q)]
AllGaps(q) == [i \in DOMAIN AllRows |-> Gap(AllRows[i].pos, q)]
\* The k least of all distances, in order: within any of them are as many of the
\* answer's as of all, but no more than k.
Within(ds, t) == Cardinality({i \in DOMAIN ds : ds[i] <= t})
AreNearest(ds, all, k) ==
    /\ \A i, j \in DOMAIN ds : i <= j => ds[i] <= ds[j]
    /\ \A t \in ToSet(ds) \cup ToSet(all) : Within(ds, t) = Min({k, Within(all, t)})
NearestGaps(gaps, q, k) == AreNearest(gaps, AllGaps(q), k)
Distances(hits) == [i \in DOMAIN hits |-> hits[i].d]
Large(k) == \A s \in DOMAIN corpus : Len(corpus[s]) > k
Covers == CandK(qn.k, qn.over) >= Len(AllRows) /\ qn.probes >= Len(AllRows)
WholeCorpus == GlobalStats(OneShard, QueryTerms(qn.words))
Distinct(hits) == \A i, j \in DOMAIN hits : hits[i].d = hits[j].d => i = j

(* Exact search over shards answers with the distances of a scan of the    *)
(* whole corpus, for one query or a batch of them, whatever the shards     *)
(* hold.                                                                   *)
ExactAgrees ==
    /\ By({"knn", "resident"}) => NearestGaps(Gaps(reply.hits, qn.q), qn.q, qn.k)
    /\ By({"batch"}) => \A i \in 1..3 :
          LET q == <<qn.q, qn.q + 3, qn.q>>[i] IN NearestGaps(Gaps(reply.hits[i], q), q, qn.k)
    /\ By({"range"}) => {h.id : h \in ToSet(reply.hits)} = {r.id : r \in {r \in ToSet(AllRows) : Gap(r.pos, qn.q) <= qn.k}}
    /\ By({"mmr"}) => /\ IsInjective(reply.hits) /\ Len(reply.hits) = Min({qn.k, Len(AllRows)})
                      /\ qn.probes = 10 =>
                            NearestGaps([i \in DOMAIN reply.hits |-> Gap(AllRows[reply.hits[i]].pos, qn.q)], qn.q, qn.k)

(* Indexed search answers with true distances in their order, and with the *)
(* nearest rows when every cell is probed and all rows are fetched, unless *)
(* a shard has no more than k candidates: its rows come with the index's   *)
(* own distances, all others with true ones, and which come first is then  *)
(* not stated.  More candidates never lower the recall.                    *)
FromItsShard(h) ==
    \E s \in DOMAIN corpus :
        LET cands == IndexScan(corpus[s], qn.q, CandK(qn.k, qn.over), qn.probes)
        IN \E c \in ToSet(cands) :
              c.id = h.id /\ h.d = IF Len(cands) <= qn.k THEN c.d ELSE Squared(RowOf(h.id), qn.q)
IndexAgrees ==
    /\ By({"ann", "routed"}) => \A h \in ToSet(reply.hits) : FromItsShard(h)
    /\ By({"ann", "routed"}) /\ Large(qn.k) /\ Covers /\ (qn.by = "routed" => qn.reach >= Len(corpus))
          => /\ NearestGaps(Gaps(reply.hits, qn.q), qn.q, qn.k)
             /\ Distances(reply.hits) = [i \in DOMAIN reply.hits |-> Squared(RowOf(reply.hits[i].id), qn.q)]
    /\ By({"ann_resident"}) =>
          LET exact == Knn(AllRows, qn.q, qn.k)
              again(over) == KnnAnnResident(AllRows, qn.q, qn.k, over, qn.probes)
              plain == KnnRerank(AllRows, qn.q, qn.k, qn.over, qn.probes)
          IN /\ Distinct(Knn(AllRows, qn.q, Len(AllRows))) =>
                   RecallAtK(reply.hits, exact, qn.k)[1] <= RecallAtK(again(qn.over + 1), exact, qn.k)[1]
             /\ Len(IndexScan(AllRows, qn.q, CandK(qn.k, qn.over), qn.probes)) > qn.k =>
                   Distances(plain) = Distances(reply.hits)

(* Full text with the corpus's statistics scores as one index would, when  *)
(* the candidates cover the shards' matches; when a shard may keep a good  *)
(* document back, hits have the corpus's scores and are at best as good,   *)
(* place by place.  Fused rankings do not depend on the shards when        *)
(* nothing ties.                                                           *)
OneIndex == Distances(TopK(Scored(Matching(AllRows, QueryTerms(qn.words)), WholeCorpus), qn.k))
TextAgrees ==
    /\ By({"fts"}) =>
          /\ Len(reply.hits) <= Len(OneIndex)
          /\ \A i \in DOMAIN reply.hits :
                /\ reply.hits[i].d = -Bm25(RowOf(reply.hits[i].id).text, WholeCorpus)
                /\ reply.hits[i].d >= OneIndex[i]
    /\ By({"fts"}) /\ (\A s \in DOMAIN corpus : CandK(qn.k, qn.over) >= Len(corpus[s])) =>
          Distances(reply.hits) = OneIndex
    /\ By({"local_fts"}) /\ Len(corpus) = 1 =>
          reply.hits = DistributedFts(OneShard, qn.words, qn.k, qn.over, TRUE)
    /\ By({"hybrid"}) /\ Large(2 * qn.k) /\ CandK(2 * qn.k, qn.over) >= Len(AllRows) /\ qn.probes >= Len(AllRows)
       /\ Distinct(Knn(AllRows, qn.q, Len(AllRows)))
       /\ Distinct(Scored(Matching(AllRows, QueryTerms(qn.words)), WholeCorpus)) =>
          reply.hits = DistributedHybrid(OneShard, qn.words, qn.q, qn.k, qn.over, qn.probes)

(* k-means moves its centroids to the same places however the points are   *)
(* cut into shards; the analytical form counts what the search found and   *)
(* leaves no relation of its own behind, unless the search raised before.   *)
ShardedSearchAgrees ==
    /\ ExactAgrees /\ IndexAgrees /\ TextAgrees
    /\ By({"kmeans"}) => reply.hits = Kmeans(OneShard, <<qn.q, qn.q + qn.over>>, qn.k)
    /\ qn.by = "analytical" =>
          /\ reply.at = "counted" => reply.rows = Len(Retrieve)
          /\ reply.at \in {"counted", "raised"} => "hits" \notin relations

(* Lloyd's algorithm "repeats until the inertia stops improving (relative  *)
(* tol) or max_iter" (cluster.py's kmeans): when it stops before max_iter, *)
(* another step would not improve the inertia.  The code stops after the   *)
(* first step, since inf - x <= tol * inf.                                  *)
LloydConverges ==
    By({"kmeans"}) /\ Len(reply.hits.seen) < qn.k =>
        LET final == [reply.hits EXCEPT !.on = TRUE, !.last = Infinity]
        IN NotImproved(Last(reply.hits.seen), Last(KmeansStep(corpus, final).seen))
=============================================================================
