------------------------------ MODULE MCDistCC ------------------------------
(***************************************************************************)
(* Graphs of up to four edges on five vertices, spread over two shards in   *)
(* any way. With three rounds, long paths are cut short and others are not. *)
(***************************************************************************)
EXTENDS FuzzyDedup

MCVertices == 0..4
Pairs == {<<a, b>> \in MCVertices \X MCVertices : a < b}
Few == {E \in SUBSET Pairs : Cardinality(E) \in 1..3}
Paths == {{<<0, 3>>, <<3, 1>>, <<1, 4>>, <<4, 2>>}, {<<0, 1>>, <<1, 2>>, <<2, 3>>, <<3, 4>>}}
MCEdgeSets ==
    UNION {{[s \in Shards |-> IF s = 0 THEN F ELSE E \ F] : F \in SUBSET E} :
              E \in Few \cup Paths}
=============================================================================
