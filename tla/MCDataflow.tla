----------------------------- MODULE MCDataflow -----------------------------
(***************************************************************************)
(* Two actors and two buckets (three actors in the hint of a repartition), *)
(* tables of up to three rows with duplicate and NULL keys and values, and *)
(* two hashes: one that puts every key in one bucket, one that spreads     *)
(* them.  The plans cover every boundary, alone and under another one.     *)
(***************************************************************************)
EXTENDS StageDag

Row(k, v) == [k |-> k, v |-> v]
Tables ==
    << <<>>,
       <<Row(1, 1), Row(1, 1), Row(2, NULL)>>,
       <<Row(1, 2), Row(2, 0), Row(NULL, 1)>>,
       <<Row(2, NULL), Row(NULL, 1), Row(NULL, 2)>> >>
RightTables ==
    << <<>>, <<Row(1, 3), Row(2, 1), Row(2, 1)>>, <<Row(NULL, 1), Row(1, 1)>> >>

Node(op, in, arg, local) == [op |-> op, in |-> in, arg |-> arg, local |-> local]
Scan(i, local) == Node("Scan", <<>>, i, local)
One(node) == <<Scan(1, "none"), node>>
Two(node) == <<Scan(1, "none"), Scan(2, "none"), node>>

NestedPlans ==
    << <<Scan(1, "filter"), Node("Aggregate", <<1>>, TRUE, "none"), Node("Order", <<2>>, 0, "none")>>,
       <<Scan(1, "none"), Node("Aggregate", <<1>>, TRUE, "filter"), Node("Aggregate", <<2>>, FALSE, "none")>>,
       <<Scan(1, "none"), Scan(2, "none"), Node("Join", <<1, 2>>, "inner", "add"),
         Node("Aggregate", <<3>>, TRUE, "none")>>,
       <<Scan(1, "none"), Scan(2, "none"), Node("Join", <<1, 2>>, "left", "none"), Node("Order", <<3>>, 0, "none")>>,
       <<Scan(1, "none"), Scan(2, "none"), Node("SetOp", <<1, 2>>, "union all", "none"),
         Node("Distinct", <<3>>, 0, "filter"), Node("Order", <<4>>, 0, "limit")>>,
       <<Scan(1, "none"), Scan(2, "none"), Node("SetOp", <<1, 2>>, "except", "none"),
         Node("Repartition", <<3>>, TRUE, "none")>>,
       <<Scan(1, "none"), Scan(2, "none"), Node("SetOp", <<1, 2>>, "intersect", "none"),
         Node("Repartition", <<3>>, FALSE, "none"), Node("Aggregate", <<4>>, FALSE, "none")>>,
       <<Scan(1, "none"), Node("Order", <<1>>, 0, "limit"), Scan(2, "none"),
         Node("SetOp", <<2, 3>>, "union", "none")>> >>
Routes ==
    << <<"sort", One(Node("Order", <<1>>, 0, "none"))>>,
       <<"distinct", One(Node("Distinct", <<1>>, 0, "none"))>>,
       <<"top_k", One(Node("Order", <<1>>, 2, "top 2"))>>,
       <<"aggregate", One(Node("Aggregate", <<1>>, TRUE, "none"))>>,
       <<"aggregate", One(Node("Aggregate", <<1>>, FALSE, "none"))>>,
       <<"stream_aggregate", One(Node("Aggregate", <<1>>, TRUE, "none"))>>,
       <<"join_streaming", Two(Node("Join", <<1, 2>>, "inner", "none"))>>,
       <<"join_streaming", Two(Node("Join", <<1, 2>>, "left", "none"))>>,
       <<"join", Two(Node("Join", <<1, 2>>, "inner", "none"))>>,
       <<"map", <<Scan(1, "add")>> >> >>
Files(sizes) == [i \in DOMAIN sizes |-> Row(i, sizes[i])]
FileSets == << Files(<<3, 1, 2, 2>>), Files(<<1, 1, 4, NULL, 2>>), Files(<<2>>), Files(<<1, 2, 3, 4, 5>>) >>

Ask(route, plan, l, r, hash, hint) ==
    [route |-> route, plan |-> plan, tables |-> <<l, r>>, hash |-> hash, hint |-> hint]
Over(route, plan, ls, rs) ==
    FlattenSeq([i \in DOMAIN ls |-> FlattenSeq([j \in DOMAIN rs |->
        << Ask(route, plan, ls[i], rs[j], 0, 1), Ask(route, plan, ls[i], rs[j], 0, 3),
           Ask(route, plan, ls[i], rs[j], 1, 1), Ask(route, plan, ls[i], rs[j], 1, 3) >>])])
UsesTwo(plan) == \E i \in DOMAIN plan : plan[i].op = "Scan" /\ plan[i].arg = 2
Asked(route, plan) == Over(route, plan, Tables, IF UsesTwo(plan) THEN RightTables ELSE << <<>> >>)

(* No NULL key of the second table is hot.  Right and full joins are asked  *)
(* where every right row has a match.                                       *)
Matched == <<Row(1, 1), Row(2, 2), Row(1, 0)>>
PassQueries ==
    FlattenSeq([i \in DOMAIN NestedPlans |-> Asked("dag", NestedPlans[i])])
    \o FlattenSeq([i \in DOMAIN Routes |->
           SelectSeq(Asked(Routes[i][1], Routes[i][2]),
                     LAMBDA q : q.route # "join" \/ q.tables[1] # Tables[4])])
    \o FlattenSeq([i \in 1..3 |->
           Over(<<"scan_files", "scan_lance", "read_hive">>[i], <<Scan(1, "none")>>, FileSets, << <<>> >>)])
    \o Over("join_streaming", Two(Node("Join", <<1, 2>>, "right", "none")), <<Matched>>, <<RightTables[2]>>)
    \o Over("dag", <<Scan(1, "none"), Scan(2, "none"), Node("Distinct", <<2>>, 0, "none"),
                     Node("Join", <<1, 3>>, "outer", "none")>>, <<Matched>>, <<RightTables[2]>>)

\* The region of a scan is applied twice: x + 1 is not idempotent.
ScanRegionQueries ==
    Over("dag", <<Scan(1, "add"), Node("Distinct", <<1>>, 0, "none"), Node("Order", <<2>>, 0, "none")>>,
         <<Tables[2]>>, << <<>> >>)
=============================================================================
