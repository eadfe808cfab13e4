----------------------------- MODULE FuzzyDedup -----------------------------
(***************************************************************************)
(* dist_fuzzy_dedup (python/jude/curate_dist.py) has two ways to turn the   *)
(* near-duplicate edges its reducers found into the rows that survive:     *)
(* label propagation over shards (DistCC), or a union-find on the driver   *)
(* fed edge by edge, bucket after bucket (UnionFind). The rows are the     *)
(* vertices.                                                               *)
(***************************************************************************)
EXTENDS DistCC, UnionFind

\* Both work on the rows of one table, range(n).
ASSUME RowsAssumption == Elements = Vertices /\ IsFiniteSet(Vertices)

\* Rows kept with cc_workers > 0: label.get(i, i) == i.
KeptByLabels(res) == {i \in Vertices : \A m \in Vertices : <<i, m>> \in res => m = i}

\* Rows kept by the union-find: find(i) == i.
KeptByUnionFind(edgeSeq) == {i \in Vertices : Root(Unions(edgeSeq))[i] = i}

\* The edges in every order the buckets may deliver them.
Deliveries == SetToSeqs(AllEdges)

\* One row survives of every cluster, the lowest, "matching single-node
\* fuzzy_dedup's keep-lowest semantics" (_UnionFind): the distributed labels,
\* once they converged, and the union-find, in whatever order its edges come,
\* keep the same rows.
SurvivorsAgree ==
    pc = "done" /\ ~changed
        => LET lowest == {v \in Vertices : IsLeast(v, Component(v, AllEdges))}
           IN  /\ KeptByLabels(result) = lowest
               /\ \A s \in Deliveries : KeptByUnionFind(s) = lowest
=============================================================================
