------------------------------ MODULE Curation ------------------------------
(***************************************************************************)
(* The curation operators on one node (python/jude/curate.py, curate_mm.py *)
(* and cluster.py).                                                        *)
(*                                                                         *)
(* A corpus is a sequence of documents [id, text, emb, img].  A text is    *)
(* NULL or a sequence of lines, a line a sequence of words, a word a       *)
(* number; the word w + Capital is w in capitals.  An embedding is NULL or *)
(* an angle: two are similar when the angles differ by at most MaxAngle.   *)
(* An image is NULL (undecodable) or its perceptual hash, a sequence of    *)
(* bits.  An operator that drops rows is given by the rows it keeps, one   *)
(* that clusters them by the representative of every row.                  *)
(***************************************************************************)
EXTENDS Integers, SequencesExt

CONSTANTS
    NULL,
    Capital,        \* what the capital of a word adds to it
    HashFns,        \* the hash functions of MinHash, pairs <<a, b>>
    Prime,          \* they compute (a * x + b) % Prime
    Bands,          \* LSH bands over a signature or an image hash
    Threshold,      \* equal signature entries that make near-duplicates
    MaxAngle,       \* angle within which embeddings are near-duplicates
    MaxBits,        \* bits by which near-duplicate images may differ
    Span,           \* words of a repeated span (substring_dedup's k)
    MinDocs,        \* documents that make a line boilerplate
    Benchmark       \* the n-grams (pairs of words) of each benchmark example, or its only word

-----------------------------------------------------------------------------
\* What the columns hold.
Line == Seq(Nat)
Text == {NULL} \cup Seq(Line)
Document == [id : Nat, text : Text, emb : {NULL} \cup Int, img : {NULL} \cup Seq({0, 1})]

Rows(t) == DOMAIN t
Take(t, keep) == FlattenSeq([i \in Rows(t) |-> IF i \in keep THEN <<t[i]>> ELSE <<>>])
WithText(t, Of(_)) == [i \in Rows(t) |-> [t[i] EXCEPT !.text = Of(i)]]
Blank(text) == text \in {NULL, <<>>}
LinesOf(text) == IF text = NULL THEN <<>> ELSE text
Words(text) == FlattenSeq(LinesOf(text))
Lower(words) == [i \in DOMAIN words |-> words[i] % Capital]
\* shingles: fewer than n words are one gram, no words have none.
Grams(words, n) ==
    IF Len(words) < n THEN {words} \ {<<>>}
    ELSE {SubSeq(words, i, i + n - 1) : i \in 1..Len(words) - n + 1}

\* content_hash: lower case, white space collapsed; a NULL text has none.
ContentHash(text) == IF text = NULL THEN NULL ELSE <<Lower(Words(text))>>
ExactKept(t) ==
    LET h == [i \in Rows(t) |-> ContentHash(t[i].text)]
    IN {i \in Rows(t) : h[i] # NULL /\ \A j \in 1..i - 1 : h[j] # h[i]}

-----------------------------------------------------------------------------
\* MinHash with one-word shingles. Words shared by two texts make entries equal.
Signature(text) ==
    LET ws == Range(Lower(Words(text)))
    IN CASE text = NULL -> <<>>
         [] text # NULL /\ ws = {} -> [f \in DOMAIN HashFns |-> 0]
         [] OTHER -> [f \in DOMAIN HashFns |->
                         Min({(HashFns[f][1] * x + HashFns[f][2]) % Prime : x \in ws})]
BandKeys(sig) ==
    LET bands == Min({Bands, Max({Len(sig), 1})})
        rows == Len(sig) \div bands
    IN IF rows = 0 THEN {}
       ELSE {<<b, SubSeq(sig, (b - 1) * rows + 1, b * rows)>> : b \in 1..bands}
Similar(s, u) ==
    Len(s) > 0 /\ Len(s) = Len(u) /\ Cardinality({f \in DOMAIN s : s[f] = u[f]}) >= Threshold

\* Connected components over the rows: the least row of each.
Merge(label, e) ==
    LET lo == Min({label[e[1]], label[e[2]]})
        hi == Max({label[e[1]], label[e[2]]})
    IN [i \in DOMAIN label |-> IF label[i] = hi THEN lo ELSE label[i]]
Representatives(n, pairs) == FoldSet(LAMBDA e, label : Merge(label, e), [i \in 1..n |-> i], pairs)
Pairs(ids) == {e \in ids \X ids : e[1] < e[2]}
Kept(reps) == {i \in DOMAIN reps : reps[i] = i}

(* fuzzy_dedup: rows with one signature follow the first of them, its      *)
(* leader; leaders that share a band key and are similar are linked.       *)
FuzzyReps(t) ==
    LET sig == [i \in Rows(t) |-> Signature(t[i].text)]
        leader == [i \in Rows(t) |-> Min({j \in Rows(t) : sig[j] = sig[i]})]
        linked == {e \in Pairs(Range(leader)) :
                     BandKeys(sig[e[1]]) \cap BandKeys(sig[e[2]]) # {} /\ Similar(sig[e[1]], sig[e[2]])}
    IN Representatives(Len(t), linked \cup {<<leader[i], i>> : i \in Rows(t)})

\* image_dedup: images that share one window of the hash are candidates.
Width(img) == Max({1, Len(img) \div Bands})
Window(img, b) ==
    SubSeq(img, (b - 1) * Width(img) + 1, Min({b * Width(img), Len(img)}))
WindowKeys(img) == {<<b, Window(img, b)>> : b \in 1..Bands}
Distance(x, y) == Cardinality({i \in DOMAIN x : x[i] # y[i]})
ImageReps(t) ==
    LET near == {e \in Pairs({i \in Rows(t) : t[i].img # NULL}) :
                   /\ WindowKeys(t[e[1]].img) \cap WindowKeys(t[e[2]].img) # {}
                   /\ Distance(t[e[1]].img, t[e[2]].img) <= MaxBits}
    IN Representatives(Len(t), near)

-----------------------------------------------------------------------------
(* _greedy_semantic_reps: a row joins the nearest survivor before it, the  *)
(* first of the nearest, if that is similar; else it survives.  Survivors  *)
(* without an embedding attract nobody.                                    *)
Angle(x, y) == IF x > y THEN x - y ELSE y - x
Nearest(t, i, near) ==
    LET angle(j) == Angle(t[j].emb, t[i].emb)
    IN CHOOSE j \in near : \A k \in near : angle(j) < angle(k) \/ (angle(j) = angle(k) /\ j <= k)
\* Mutant: chains of near rows collapse, as with connected components.
SemanticTransitive(t) ==
    Representatives(Len(t), {e \in Pairs({i \in Rows(t) : t[i].emb # NULL}) :
                               Angle(t[e[1]].emb, t[e[2]].emb) <= MaxAngle})
SemanticReps(t) ==
    LET reps[i \in Rows(t)] ==
            LET near == {j \in 1..i - 1 : /\ reps[j] = j /\ t[j].emb # NULL
                                         /\ Angle(t[j].emb, t[i].emb) <= MaxAngle}
            IN IF t[i].emb = NULL \/ near = {} THEN i ELSE Nearest(t, i, near)
    IN reps

(* semantic_dedup_clustered: the same inside every cluster of k-means: the *)
(* members' numbers are a table of their own, a row has a place in it.      *)
Counting(n) == [j \in 1..n |-> j]
Members(t, cluster, i) == {j \in Rows(t) : cluster[j] = cluster[i]}
PlaceAmong(e, i) == CHOOSE l \in DOMAIN e : e[l] = i
ClusteredRep(t, own, i) ==
    LET e == Take(Counting(Len(t)), own)
    IN e[SemanticReps(Take(t, own))[PlaceAmong(e, i)]]
ClusteredReps(t, cluster) == [i \in Rows(t) |-> ClusteredRep(t, Members(t, cluster, i), i)]

-----------------------------------------------------------------------------
\* Filters and line or span removal.
Gate(text, minWords, maxWords) == text # NULL /\ Len(Words(text)) \in minWords..maxWords
QualityKept(t) == {i \in Rows(t) : Gate(t[i].text, 1, 3)}
\* detect_language: NULL is undetermined, here every text that starts with 0 is English.
Language(text) == IF Words(text) = <<>> THEN "und" ELSE IF Words(text)[1] % Capital = 0 THEN "en" ELSE "fr"
LanguageKept(t) == {i \in Rows(t) : Language(t[i].text) \in {"en", "und"}}

\* contamination_coverage: the largest share of one example's n-grams in the text.
Contaminated(text) ==
    LET grams == Grams(Lower(Words(text)), 2)
    IN \E g \in DOMAIN Benchmark :
          Benchmark[g] # {} /\ 2 * Cardinality(Benchmark[g] \cap grams) > Cardinality(Benchmark[g])
CleanKept(t) == {i \in Rows(t) : ~Contaminated(t[i].text)}

\* c4_line_filter: a kept line has two words, ends in punctuation (an even word)
\* and has no marker (word 3).
C4Line(line) == Len(line) >= 2 /\ Last(line) % 2 = 0 /\ \A i \in DOMAIN line : line[i] % Capital # 3
C4Filter(t) ==
    WithText(t, LAMBDA i : IF Blank(t[i].text) THEN t[i].text
                           ELSE Take(t[i].text, {n \in DOMAIN t[i].text : C4Line(t[i].text[n])}))

LineKey(line) == Lower(line)
DocFreq(t, key) ==
    Cardinality({i \in Rows(t) : \E n \in DOMAIN LinesOf(t[i].text) : LineKey(t[i].text[n]) = key})
Repeats(t, line) == LineKey(line) # <<>> /\ DocFreq(t, LineKey(line)) >= MinDocs
\* Mutant: a document is left after its first repeated line.
FirstRepeatedLine(t) ==
    WithText(t, LAMBDA i :
        LET repeated == {n \in DOMAIN LinesOf(t[i].text) : Repeats(t, t[i].text[n])}
        IN IF repeated = {} THEN t[i].text ELSE RemoveAt(t[i].text, Min(repeated)))
CorpusLineDedup(t) ==
    WithText(t, LAMBDA i : IF Blank(t[i].text) THEN t[i].text
                           ELSE Take(t[i].text, {n \in DOMAIN t[i].text : ~Repeats(t, t[i].text[n])}))

(* substring_dedup: every span that an earlier one equals, in the order of *)
(* the corpus, loses its words.  What is left is joined by spaces, so that *)
(* a text long enough to hold a span ends as a single line.                *)
SpansOf(words) == 1..Len(words) - Span + 1
SpanAt(words, p) == SubSeq(words, p, p + Span - 1)
Earlier(d, p, e, q) == d < e \/ (d = e /\ p < q)
Repeated(w, d, p) ==
    \E e \in 1..d : \E q \in SpansOf(w[e]) : Earlier(e, q, d, p) /\ SpanAt(w[e], q) = SpanAt(w[d], p)
Uncovered(words, starts) ==
    LET free == {j \in DOMAIN words : \A p \in starts : j \notin p..p + Span - 1}
    IN Take(words, free)
OneLine(words) == IF words = <<>> THEN <<>> ELSE <<words>>
SubstringDedup(t) ==
    LET w == [d \in Rows(t) |-> Words(t[d].text)]
    IN WithText(t, LAMBDA d :
           IF Len(w[d]) < Span THEN t[d].text
           ELSE OneLine(Uncovered(w[d], {p \in SpansOf(w[d]) : Repeated(w, d, p)})))

\* chunk_text: one row per piece (here one per line) with the columns it has; the
\* piece and its number go to columns of their own, which no operator reads.
ChunkText(t) == FlattenSeq([i \in Rows(t) |-> [n \in DOMAIN LinesOf(t[i].text) |-> t[i]]])

(* sample_dropped: rows of before that no row of after accounts for, text  *)
(* by text; NULL counts as empty.                                          *)
TextKey(doc) == Lower(Words(doc.text))
Dropped(before, after) ==
    {i \in Rows(before) :
        Cardinality({j \in 1..i : TextKey(before[j]) = TextKey(before[i])})
        > Cardinality({j \in Rows(after) : TextKey(after[j]) = TextKey(before[i])})}
=============================================================================
