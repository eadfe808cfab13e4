-------------------------------- MODULE Rows --------------------------------
(***************************************************************************)
(* What the SQL of a partition computes.  A table is a sequence of rows, a *)
(* row a record with a key column k, a value column v and, after a join,   *)
(* the value w of the other side.  Both columns may be NULL.  The order of *)
(* the rows counts only after an ORDER BY: results are compared as bags.   *)
(***************************************************************************)
EXTENDS Integers, SequencesExt

CONSTANT NULL                  \* SQL's NULL, outside the integers

Count(s, r) == Cardinality({i \in DOMAIN s : s[i] = r})
SameRows(s, t) == \A r \in Range(s) \cup Range(t) : Count(s, r) = Count(t, r)
Concat(tables) == FlattenSeq(tables)

\* SQL sums and extremes skip NULL, and are NULL when nothing is left.
Values(s) == SelectSeq(s, LAMBDA x : x # NULL)
Column(s, Col(_)) == Values([i \in DOMAIN s |-> Col(s[i])])
SumOf(s) == IF Values(s) = <<>> THEN NULL ELSE FoldLeft(LAMBDA a, x : a + x, 0, Values(s))
LeastOf(s) == IF Values(s) = <<>> THEN NULL ELSE Min(Range(Values(s)))
GreatestOf(s) == IF Values(s) = <<>> THEN NULL ELSE Max(Range(Values(s)))

-----------------------------------------------------------------------------
Distinct(s) == Concat([i \in DOMAIN s |->
                   IF \E j \in 1..i - 1 : s[j] = s[i] THEN <<>> ELSE <<s[i]>>])

\* GROUP BY: the rows of each key, or all rows in one group without keys.
Groups(s, grouped) == IF grouped THEN Distinct([i \in DOMAIN s |-> s[i].k]) ELSE <<NULL>>
RowsOf(s, grouped, g) == SelectSeq(s, LAMBDA r : ~grouped \/ r.k = g)
PerGroup(s, grouped, Row(_, _)) ==
    LET gs == Groups(s, grouped)
    IN [i \in DOMAIN gs |-> Row(gs[i], RowsOf(s, grouped, gs[i]))]

(* What a single node answers: v = SUM(v), n = COUNT(v), a = AVG(v) as a    *)
(* fraction, d = n^3 VAR_POP(v), lo = MIN(v), hi = MAX(v).                  *)
Aggregated(g, rows) ==
    LET vs == Column(rows, LAMBDA r : r.v)
        n == Len(vs)
        s == SumOf(vs)
    IN [k |-> g, v |-> s, n |-> n, a |-> IF n = 0 THEN NULL ELSE <<s, n>>,
        d |-> SumOf([i \in 1..n |-> (n * vs[i] - s) * (n * vs[i] - s)]),
        lo |-> LeastOf(vs), hi |-> GreatestOf(vs)]
Aggregate(s, grouped) == PerGroup(s, grouped, Aggregated)

(* The first phase of build_two_phase: one row of partials per group.       *)
PartialRow(g, rows) ==
    LET vs == Column(rows, LAMBDA r : r.v)
    IN [k |-> g, cnt |-> Len(vs), sum |-> SumOf(vs),
        sq |-> SumOf([i \in DOMAIN vs |-> vs[i] * vs[i]]),
        lo |-> LeastOf(vs), hi |-> GreatestOf(vs)]
PartialAgg(s, grouped) == PerGroup(s, grouped, PartialRow)

(* The second phase merges the partials: counts and sums are summed, AVG   *)
(* is SUM / NULLIF(COUNT, 0), VAR comes from (n, sum, sum of squares).      *)
FinalRow(g, ps) ==
    LET n == SumOf(Column(ps, LAMBDA p : p.cnt))
        s == SumOf(Column(ps, LAMBDA p : p.sum))
        q == SumOf(Column(ps, LAMBDA p : p.sq))
    IN [k |-> g, v |-> s, n |-> n,
        a |-> IF n \in {0, NULL} THEN NULL ELSE <<s, n>>,
        d |-> IF n \in {0, NULL} THEN NULL ELSE n * (n * q - s * s),
        lo |-> LeastOf(Column(ps, LAMBDA p : p.lo)),
        hi |-> GreatestOf(Column(ps, LAMBDA p : p.hi))]
FinalAgg(ps, grouped) == PerGroup(ps, grouped, FinalRow)

-----------------------------------------------------------------------------
\* Joins on k: NULL keys match nothing.
Matches(l, r) == l.k # NULL /\ l.k = r.k
JoinedRow(key, v, w) == [k |-> key, v |-> v, w |-> w]
Preserved(how) == CASE how = "inner" -> {} [] how = "left" -> {"l"}
                    [] how = "right" -> {"r"} [] OTHER -> {"l", "r"}
Join(l, r, how, KeyOfRight(_)) ==
    Concat([i \in DOMAIN l |->
        LET m == SelectSeq(r, LAMBDA x : Matches(l[i], x))
        IN IF m = <<>>
           THEN IF "l" \in Preserved(how) THEN <<JoinedRow(l[i].k, l[i].v, NULL)>> ELSE <<>>
           ELSE [j \in DOMAIN m |-> JoinedRow(l[i].k, l[i].v, m[j].v)]])
    \o (IF "r" \in Preserved(how)
        THEN LET u == SelectSeq(r, LAMBDA x : \A i \in DOMAIN l : ~Matches(l[i], x))
             IN [j \in DOMAIN u |-> JoinedRow(KeyOfRight(u[j]), NULL, u[j].v)]
        ELSE <<>>)

(* A single node joins USING (k): the key of an unmatched right row stays. *)
JoinUsing(l, r, how) == Join(l, r, how, LAMBDA x : x.k)
(* A worker selects lhs.*, rhs.* EXCLUDE (k): an unmatched right row has    *)
(* only the key of its missing left row.                                    *)
JoinBuckets(l, r, how) == Join(l, r, how, LAMBDA x : NULL)

\* INTERSECT and EXCEPT are set operations in SQL; only UNION ALL keeps duplicates.
SetOp(l, r, kw) ==
    CASE kw = "union all" -> l \o r
      [] kw = "union" -> Distinct(l \o r)
      [] kw = "intersect" -> Distinct(SelectSeq(l, LAMBDA x : x \in Range(r)))
      [] OTHER -> Distinct(SelectSeq(l, LAMBDA x : x \notin Range(r)))

\* ORDER BY k, v with NULLS LAST.
Before(x, y) == x # y /\ (y = NULL \/ (x # NULL /\ x < y))
RowBefore(a, b) == Before(a.k, b.k) \/ (a.k = b.k /\ Before(a.v, b.v))
OrderBy(s) == SortSeq(s, RowBefore)
IsOrdered(s) == \A i, j \in DOMAIN s : i < j => ~RowBefore(s[j], s[i])
Limit(s, n) == SubSeq(s, 1, Min({n, Len(s)}))
=============================================================================
