---------------------------- MODULE DistCuration ----------------------------
(***************************************************************************)
(* The same operators over a pool of actors (python/jude/curate_dist.py    *)
(* and the curate_* methods of runners/_ray_shim.py).  The driver cuts the *)
(* corpus into slices, a producer per slice routes what it computed to     *)
(* Buckets buckets, a reducer per bucket gathers its shards in the order   *)
(* of the slices, and the driver assembles the reducers' answers.          *)
(***************************************************************************)
EXTENDS Curation, Partitions

CONSTANTS
    Buckets,       \* buckets of a shuffle, and slices: one per actor
    HotCap,        \* rows with one band key beyond which not all pairs are verified (2000)
    HotReps        \* rows each of them is then verified against (64)

Parts(t) == Slices(t, Buckets)
Offset(parts, p) == FoldLeft(LAMBDA n, part : n + Len(part), 0, SubSeq(parts, 1, p - 1))

\* Producers and reducers: Produce(part, offset) is a sequence of keyed rows,
\* RouteOf gives the bucket of one; a bucket gathers its rows over all parts.
Gathered(t, Produce(_, _), RouteOf(_), b) ==
    LET parts == Parts(t)
    IN FlattenSeq([p \in DOMAIN parts |->
           SelectSeq(Produce(parts[p], Offset(parts, p)), LAMBDA r : RouteOf(r) = b)])
Shuffled(t, Produce(_, _), RouteOf(_), Reduce(_)) ==
    [b \in 1..Buckets |-> Reduce(Gathered(t, Produce, RouteOf, b))]

\* A deterministic hash of a key, the same on every actor.
SumOfWords(words) == FoldLeft(+, 0, words)
DetHash(n) == (n % Buckets) + 1

-----------------------------------------------------------------------------
\* dist_map: the operator on every slice, the outputs in order.
DistMap(t, Op(_)) == LET parts == Parts(t) IN FlattenSeq([p \in DOMAIN parts |-> Op(parts[p])])

(* dist_exact_dedup: rows by content hash (a row without one by its place  *)
(* in the slice), the first of each hash per bucket.                       *)
HashedRows(part, offset) ==
    [i \in DOMAIN part |->
        [doc |-> part[i], b |-> IF part[i].text = NULL THEN DetHash(i)
                                ELSE DetHash(SumOfWords(Lower(Words(part[i].text))))]]
DistExactDedup(t) ==
    LET reduce(rows) == LET docs == [i \in DOMAIN rows |-> rows[i].doc] IN Take(docs, ExactKept(docs))
    IN FlattenSeq(Shuffled(t, HashedRows, LAMBDA r : r.b, reduce))

\* What one bucket of a fuzzy dedup sees: (row id, band key, signature) triples.
\* Mutant: the deprecated curate_minhash_bucketize, which routes by the first band.
FirstBandKeys(sig, rid) == {<<1, SubSeq(sig, 1, Len(sig) \div Bands)>>}
\* A text without a signature gets a key of its own.
KeysOf(sig, rid) == IF BandKeys(sig) = {} THEN {<<0, <<rid>>>>} ELSE BandKeys(sig)
BandRows(part, offset) ==
    FlattenSeq([i \in DOMAIN part |->
        LET sig == Signature(part[i].text)
        IN [n \in 1..Cardinality(KeysOf(sig, offset + i)) |->
               [rid |-> offset + i, sig |-> sig, key |-> SetToSeq(KeysOf(sig, offset + i))[n]]]])
KeyBucket(key) == DetHash(key[1] + SumOfWords(key[2]))

(* curate_fuzzy_edges_bucket: among the rows of one band key, equal        *)
(* signatures are linked to the first; of the others all pairs are         *)
(* verified, or in a hot band each against the first HotReps, to the first *)
(* that is similar.                                                        *)
FirstOf(group, i) == \A j \in 1..i - 1 : group[j].sig # group[i].sig
Uniq(group) == Take(group, {i \in DOMAIN group : FirstOf(group, i)})
Linked(rows) == {<<Min({e[1].rid, e[2].rid}), Max({e[1].rid, e[2].rid})>> : e \in rows}
IdenticalPairs(group) ==
    {e \in Range(group) \X Range(Uniq(group)) : e[1].sig = e[2].sig /\ e[1] # e[2]}
VerifiedPairs(u) ==
    {<<u[e[1]], u[e[2]]>> : e \in {p \in Pairs(DOMAIN u) : Similar(u[p[1]].sig, u[p[2]].sig)}}
HotPairs(u) ==
    LET hits(i) == {r \in 1..Min({HotReps, Len(u)}) : r # i /\ Similar(u[i].sig, u[r].sig)}
    IN {<<u[i], u[Min(hits(i))]>> : i \in {i \in DOMAIN u : hits(i) # {}}}
EdgesOfGroup(group) ==
    LET u == Uniq(group)
    IN Linked(IdenticalPairs(group) \cup (IF Len(u) > HotCap THEN HotPairs(u) ELSE VerifiedPairs(u)))
FuzzyEdges(rows) ==
    UNION {EdgesOfGroup(SelectSeq(rows, LAMBDA r : r.key = k)) : k \in {rows[i].key : i \in DOMAIN rows}}
IsHot(t) == \E k \in UNION {BandKeys(Signature(t[i].text)) : i \in Rows(t)} :
    Cardinality({i \in Rows(t) : k \in BandKeys(Signature(t[i].text))}) > HotCap

(* The driver's union-find, fed one bucket at a time, gives every row the   *)
(* least row of its component in whatever order the edges come             *)
(* (FuzzyDedup!SurvivorsAgree, on the algorithm of UnionFind).             *)
DriverReps(n, edgesOf) == Representatives(n, UNION Range(edgesOf))
DistFuzzyReps(t) ==
    DriverReps(Len(t), Shuffled(t, BandRows, LAMBDA r : KeyBucket(r.key), FuzzyEdges))

-----------------------------------------------------------------------------
\* dist_image_dedup: a row per window of the hash, Hamming distance inside a key.
WindowRows(part, offset) ==
    FlattenSeq([i \in DOMAIN part |->
        IF part[i].img = NULL THEN <<>>
        ELSE [b \in 1..Bands |-> [rid |-> offset + i, img |-> part[i].img,
                                  key |-> <<b, Window(part[i].img, b)>>]]])
ImageEdges(rows) ==
    {<<rows[e[1]].rid, rows[e[2]].rid>> :
        e \in {e \in Pairs(DOMAIN rows) : /\ rows[e[1]].key = rows[e[2]].key
                                          /\ Distance(rows[e[1]].img, rows[e[2]].img) <= MaxBits}}
DistImageReps(t) ==
    DriverReps(Len(t), Shuffled(t, WindowRows, LAMBDA r : KeyBucket(r.key), ImageEdges))

\* dist_substring_dedup: every span occurrence by the hash of the span; all but
\* the least (document, position) of a span are reported.
SpanRows(part, offset) ==
    FlattenSeq([i \in DOMAIN part |->
        LET ws == Words(part[i].text)
        IN [p \in SpansOf(ws) |-> [h |-> SpanAt(ws, p), doc |-> offset + i, pos |-> p]]])
RepeatedSpans(rows) ==
    {r \in Range(rows) : \E s \in Range(rows) : s.h = r.h /\ Earlier(s.doc, s.pos, r.doc, r.pos)}
DistSubstringDedup(t) ==
    LET found == Shuffled(t, SpanRows, LAMBDA r : DetHash(SumOfWords(r.h)), RepeatedSpans)
        starts(d) == {r.pos : r \in {r \in UNION Range(found) : r.doc = d}}
    IN WithText(t, LAMBDA d :
           IF Blank(t[d].text) \/ starts(d) = {} THEN t[d].text
           ELSE OneLine(Uncovered(Words(t[d].text), starts(d))))

(* dist_global_shuffle: each row of a slice goes to a bucket drawn for its  *)
(* slice and place, each bucket is permuted, buckets are concatenated.  Any *)
(* draw and any permutation may happen: here the place rotated by a seed,   *)
(* and the reversal.                                                        *)
ScatteredRows(part, offset) == [i \in DOMAIN part |-> [doc |-> part[i], b |-> DetHash(i * (offset + 1))]]
DistGlobalShuffle(t) ==
    FlattenSeq(Shuffled(t, ScatteredRows, LAMBDA r : r.b,
                        LAMBDA rows : Reverse([i \in DOMAIN rows |-> rows[i].doc])))
=============================================================================
