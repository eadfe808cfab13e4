----------------------------- MODULE Components -----------------------------
(***************************************************************************)
(* Connected components of an undirected graph on natural numbers, and     *)
(* what both of jude's component algorithms are to find: the least vertex  *)
(* of a component.  No algorithm is described here, only the answer.       *)
(***************************************************************************)
EXTENDS Integers, FiniteSets

CONSTANT Vertices

\* Edges are pairs <<a, b>>, in either direction. A set is closed under them
\* when no edge leaves it.
Closed(S, edges) ==
    \A e \in edges : e[1] \in S <=> e[2] \in S

\* The component of v: what every closed set with v in it contains.
Component(v, edges) ==
    {u \in Vertices :
        \A S \in SUBSET Vertices : v \in S /\ Closed(S, edges) => u \in S}

IsLeast(m, S) == m \in S /\ \A u \in S : m <= u

Endpoints(edges) == {e[1] : e \in edges} \cup {e[2] : e \in edges}
=============================================================================
