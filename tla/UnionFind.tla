------------------------------ MODULE UnionFind ------------------------------
(***************************************************************************)
(* The disjoint-set structure of distributed deduplication (_UnionFind in  *)
(* python/jude/curate_dist.py) as a pure algorithm on its parent array.    *)
(* find compresses the path it walks, so it answers with a new array too.  *)
(***************************************************************************)
EXTENDS Integers, SequencesExt

CONSTANT Elements     \* the row ids, range(n)

NewParent == [x \in Elements |-> x]

\* The root that find walks to. A parent is never larger than its child, so
\* the walk ends; the recursion is on the elements.
Root(parent) ==
    LET walk[x \in Elements] == IF parent[x] = x THEN x ELSE walk[parent[x]]
    IN  walk

\* The elements whose parent link find(x) follows.
PathOf(parent, x) ==
    LET path[y \in Elements] ==
            IF parent[y] = y THEN {} ELSE {y} \cup path[parent[y]]
    IN  path[x]

\* find: the array after the whole path was made to point at the root.
Compressed(parent, x) ==
    [y \in Elements |-> IF y \in PathOf(parent, x) THEN Root(parent)[x]
                        ELSE parent[y]]

\* Plausible defects of the definition below, for mutation runs.
LargerRootWins(parent, ra, rb) ==
    IF ra < rb THEN [parent EXCEPT ![ra] = rb] ELSE [parent EXCEPT ![rb] = ra]

\* Union-by-min: the smaller of two roots becomes the root of both.
LinkedTo(parent, ra, rb) ==
    IF ra < rb THEN [parent EXCEPT ![rb] = ra] ELSE [parent EXCEPT ![ra] = rb]

\* union: both ends are found, and compressed, first.
Union(parent, e) ==
    LET p == Compressed(Compressed(parent, e[1]), e[2])
        ra == Root(p)[e[1]]
        rb == Root(p)[e[2]]
    IN  IF ra = rb THEN p ELSE LinkedTo(p, ra, rb)

\* The edges streamed through union in the order they come.
Unions(edgeSeq) ==
    LET after[i \in 0..Len(edgeSeq)] ==
            IF i = 0 THEN NewParent ELSE Union(after[i - 1], edgeSeq[i])
    IN  after[Len(edgeSeq)]
=============================================================================
