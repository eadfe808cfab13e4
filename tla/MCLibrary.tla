----------------------------- MODULE MCLibrary ------------------------------
(***************************************************************************)
(* The parts of the library that share no state - pipelines, UDF pools,    *)
(* incremental deduplication and search - checked in one run, one part at  *)
(* a time: the others stay in an initial state.                            *)
(***************************************************************************)
EXTENDS Pipeline, UdfPools, HashIndex, Search

CONSTANT Parts      \* the parts that are checked
VARIABLE part

vars == <<part, pipelineVars, udfVars, indexVars, searchVars>>

(* Every stage alone and in pairs, over sources without tasks, without     *)
(* rows, of several tasks and chunks, and with a file that is missing.     *)
Stage(kind, batch) == [kind |-> kind, batch |-> batch]
StageLists ==
    {<<>>} \cup {<<Stage(k, 1)>> : k \in {"load_files", "chunk"}}
    \cup {<<Stage(k, b), Stage(l, 3 - b)>> : k \in Kinds, l \in Kinds, b \in {1, 2}}
Sources ==
    { <<>>, << << <<>> >> >>, << << <<1, 2, 3>>, <<4>> >>, <<>>, << <<6>>, <<8, 5>> >> >>,
      << << <<4, 1>> >>, << <<2, Missing>> >>, << <<3>> >> >> }
Job(stages, tasks, size, streamed, engine, cosmos, call) ==
    [stages |-> stages, tasks |-> tasks, size |-> size, streamed |-> streamed,
     engine |-> engine, cosmos |-> cosmos, call |-> call]
IdleJob == Job(<<>>, <<>>, 2, FALSE, "local", FALSE, "run")
AllPipelines ==
    {Job(st, src, n, TRUE, "local", FALSE, call) :
        st \in StageLists, src \in Sources, n \in {2, 3}, call \in {"run", "iterate", "parquet", "lance"}}
    \cup {Job(st, src, 2, FALSE, e, c, call) :
        st \in StageLists, src \in Sources, e \in {"local", "auto", "cosmos"}, c \in BOOLEAN, call \in {"run", "iterate"}}

\* The UDF raises on the second caller's first batch.
RaisingPairs == {<<"b", 1>>}

\* Dumps with and without texts, with repeats inside and between them.
SomeDumps == UNION {[1..n -> {1, 2, 3, NULL}] : n \in 1..2} \cup {<<1, 2, 1>>}

(* Six rows in one shard, in two of three, in shards of all sizes, one of  *)
(* them empty, with a row that is there twice; and no rows at all.         *)
Row(id, pos, text) == [id |-> id, pos |-> pos, text |-> text]
Docs == << Row(1, 0, <<"a">>), Row(2, 3, <<"a", "b">>), Row(3, 4, <<"b", "b", "c">>),
           Row(4, 8, <<>>), Row(5, 9, <<"c", "a", "a">>), Row(6, 13, <<"b">>) >>
Cut(shards) == [s \in DOMAIN shards |-> [i \in DOMAIN shards[s] |-> Docs[shards[s][i]]]]
SomeCorpora ==
    {Cut(shards) : shards \in
        { << <<1, 2, 3, 4, 5, 6>> >>, << <<1, 5, 6>>, <<4, 3, 2>> >>, << <<3, 1, 2>>, <<6, 5, 4>> >>,
          << <<6>>, <<>>, <<2, 1, 5>> >>, << <<2, 2>>, <<5, 1>>, <<3, 4, 6>> >>, << <<>> >> }}
Ask(by, q, k, over, probes, words, reach) ==
    [by |-> by, q |-> q, k |-> k, over |-> over, probes |-> probes, words |-> words, reach |-> reach]
Places == {0, 5, 9}
IdleQuestion == Ask("none", 0, 0, 0, 0, <<>>, 0)
SomeQuestions ==
    {IdleQuestion}
    \cup {Ask(by, q, k, 1, 1, <<>>, 1) : by \in {"knn", "resident", "batch", "range"}, q \in Places, k \in {0, 1, 2, 4}}
    \cup {Ask("mmr", q, k, 1, l, <<>>, 1) : q \in Places, k \in {1, 3}, l \in {0, 5, 10}}
    \cup {Ask(by, q, k, o, p, <<>>, n) :
            by \in {"ann", "routed", "ann_resident"}, q \in Places, k \in {1, 2}, o \in {1, 2, 6}, p \in {1, 6}, n \in {1, 3}}
    \cup {Ask(by, q, k, o, 6, w, 1) :
            by \in {"fts", "local_fts", "hybrid", "lance_hybrid"}, q \in {5, 9}, k \in {1, 2}, o \in {1, 6},
            w \in {<<>>, <<"a">>, <<"c", "b", "c">>}}
    \cup {Ask(by, q, 2, 6, 6, w, 1) : by \in {"analytical", "register"}, q \in {-1, 5}, w \in {<<>>, <<"a">>}}
    \cup {Ask("kmeans", q, k, o, 0, <<>>, 1) : q \in Places, k \in {1, 3}, o \in {1, 7}}

Init ==
    /\ part \in Parts
    /\ job \in IF part = "pipeline" THEN Pipelines ELSE {IdleJob}
    /\ backend \in IF part = "udf" THEN Backends ELSE {"ray_task"}
    /\ corpus \in IF part = "search" THEN Corpora ELSE {Cut(<< <<>> >>)}
    /\ question \in IF part = "search" THEN Questions \ {IdleQuestion} ELSE {IdleQuestion}
    /\ relations \in IF part = "search" THEN {{}, {"users"}} ELSE {{}}
    /\ Unstarted /\ NothingCalled /\ IndexInit /\ Unasked

Next ==
    /\ \/ part = "pipeline" /\ PipelineNext /\ UNCHANGED <<udfVars, indexVars, searchVars>>
       \/ part = "udf" /\ UdfNext /\ UNCHANGED <<pipelineVars, indexVars, searchVars>>
       \/ part = "index" /\ IndexNext /\ UNCHANGED <<pipelineVars, udfVars, searchVars>>
       \/ part = "search" /\ SearchNext /\ UNCHANGED <<pipelineVars, udfVars, indexVars>>
    /\ UNCHANGED part
Spec == Init /\ [][Next]_vars
=============================================================================
