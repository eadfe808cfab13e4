------------------------------ MODULE Pipeline ------------------------------
(***************************************************************************)
(* RelationPipeline (python/jude/pipeline/_multimodal.py): a chain of      *)
(* stages over the shards of a table or of a streamed source.  A table     *)
(* goes through breadth-first, stage after stage; a stream goes through    *)
(* depth-first, shard after shard, into a consumer that may stop or fail   *)
(* at any shard it is given.                                               *)
(***************************************************************************)
EXTENDS Integers, SequencesExt

CONSTANT Pipelines    \* what is run: see MCLibrary

(***************************************************************************)
(* A pipeline: its stages; its source, tasks that are sequences of chunks  *)
(* that are sequences of rows; how large its shards are, or how many; and  *)
(* how it is run.  Every size is at least 1, as the code makes it.         *)
(***************************************************************************)
Kinds == {"load_files", "decode", "map_batches", "chunk", "quality_filter", "content_hash"}
Jobs == [stages : Seq([kind : Kinds, batch : Nat \ {0}]), tasks : Seq(Seq(Seq(Nat))), size : Nat \ {0},
         streamed : BOOLEAN, engine : {"local", "auto", "cosmos"}, cosmos : BOOLEAN,
         call : {"run", "iterate", "parquet", "lance"}]
ASSUME PipelinesAssumption == Pipelines \subseteq Jobs

VARIABLES
    job,              \* the pipeline: stages, tasks of its source, sizes, engine, call
    at,               \* start | setup | working | yielding | cosmos | done | raised | refused | closed
    data,             \* shards between two stages, or not yet given to the consumer
    next,             \* the stage, or the input shard, whose turn it is
    alive,            \* stages set up and not destroyed
    out,              \* shards the consumer has
    parts,            \* files written: name -> rows
    funnel            \* rows out of every stage, <<>> until reported

pipelineVars == <<job, at, data, next, alive, out, parts, funnel>>

Missing == 99         \* the path of a file that is not there
CeilDiv(a, b) == (a + b - 1) \div b
Chunked(s, size) == [b \in 1..CeilDiv(Len(s), size) |-> SubSeq(s, size * (b - 1) + 1, Min({Len(s), size * b}))]
NonEmpty(shards) == FlattenSeq([i \in DOMAIN shards |-> IF shards[i] = <<>> THEN <<>> ELSE <<shards[i]>>])

(***************************************************************************)
(* Sources.  A streamed source is a sequence of tasks, each of them a      *)
(* sequence of chunks; a table is what all its tasks give.                 *)
(***************************************************************************)
TableOf(tasks) == FlattenSeq(FlattenSeq(tasks))
ReadStream(tasks, batchRows) ==
    LET batches == FlattenSeq([i \in DOMAIN FlattenSeq(tasks) |-> Chunked(FlattenSeq(tasks)[i], batchRows)])
    IN IF batches = <<>> THEN << <<>> >> ELSE batches
ReadDistributed(tasks) == FlattenSeq(NonEmpty([i \in DOMAIN tasks |-> FlattenSeq(tasks[i])]))
RelationToShards(table, numShards) ==
    IF table = <<>> THEN << <<>> >> ELSE Chunked(table, CeilDiv(Len(table), numShards))
Source(j) ==
    IF j.streamed THEN ReadStream(j.tasks, j.size) ELSE RelationToShards(TableOf(j.tasks), j.size)

(***************************************************************************)
(* Stages.  A row is a number; what a stage makes of one row is all that   *)
(* matters of it.                                                          *)
(***************************************************************************)
RowsFrom(kind, x) ==
    CASE kind = "chunk" -> [i \in 1..(x % 3) |-> 10 * x + i]       \* one row, many chunks or none
      [] kind = "decode" -> <<x, x>>                              \* two frames
      [] kind = "quality_filter" -> IF x % 2 = 0 THEN <<x>> ELSE <<>>
      [] kind = "map_batches" -> <<x + 1>>
      [] OTHER -> <<x>>                                           \* a column is added
Fails(kind, shard) == kind = "load_files" /\ \E i \in DOMAIN shard : shard[i] = Missing
Transform(kind, shard) == FlattenSeq([i \in DOMAIN shard |-> RowsFrom(kind, shard[i])])
ProcessData(kind, samples) == NonEmpty([i \in DOMAIN samples |-> Transform(kind, samples[i])])
RunStage(stage, shards) ==
    FlattenSeq([b \in 1..CeilDiv(Len(shards), stage.batch) |->
                    ProcessData(stage.kind, Chunked(shards, stage.batch)[b])])
StageFails(stage, shards) == \E i \in DOMAIN shards : Fails(stage.kind, shards[i])
RowsIn(shards) == Len(FlattenSeq(shards))

\* Shards after each of the stages (0: before the first), for one input shard.
Chain(stages, shard) ==
    LET after[n \in 0..Len(stages)] == IF n = 0 THEN <<shard>> ELSE RunStage(stages[n], after[n - 1])
    IN after
ChainFails(stages, shard) == \E i \in DOMAIN stages : StageFails(stages[i], Chain(stages, shard)[i - 1])

-----------------------------------------------------------------------------
Unstarted ==
    /\ at = "start" /\ next = 1 /\ alive = {}
    /\ data = <<>> /\ out = <<>> /\ parts = <<>> /\ funnel = <<>>

\* _use_cosmos: run() only; asking for an engine that is not there raises.
UseCosmos(j) == j.call = "run" /\ (j.engine = "cosmos" \/ (j.engine = "auto" /\ j.cosmos))
Stages == job.stages
DepthFirst == job.streamed \/ job.call # "run"
Destroyed == alive' = {}

Start ==
    /\ at = "start"
    /\ \/ /\ UseCosmos(job) /\ ~job.cosmos
          /\ at' = "raised" /\ UNCHANGED <<data, funnel>>
       \/ /\ (UseCosmos(job) => job.cosmos)
          /\ at' = IF Stages = <<>> THEN "yielding" ELSE IF UseCosmos(job) THEN "cosmos" ELSE "setup"
          /\ data' = IF Stages = <<>> \/ UseCosmos(job) \/ ~DepthFirst THEN Source(job) ELSE <<>>
          /\ funnel' = [i \in DOMAIN Stages |-> 0]
    /\ UNCHANGED <<job, next, alive, out, parts>>

(* Every stage is set up before any runs.  setup() is the stage's own code *)
(* and may raise, outside of the try that destroys.                        *)
SetUp ==
    /\ at = "setup"
    /\ \/ /\ alive' = alive \cup {Cardinality(alive) + 1}
          /\ at' = IF alive' = DOMAIN Stages THEN "working" ELSE "setup"
       \/ at' = "refused" /\ UNCHANGED alive
    /\ UNCHANGED <<job, data, next, out, parts, funnel>>

\* _run_local: one stage over all the shards.
RunNextStage ==
    /\ at = "working" /\ ~DepthFirst /\ next <= Len(Stages)
    /\ IF StageFails(Stages[next], data)
       THEN at' = "raised" /\ Destroyed /\ UNCHANGED <<data, funnel, next>>
       ELSE /\ data' = RunStage(Stages[next], data)
            /\ funnel' = [funnel EXCEPT ![next] = RowsIn(data')]
            /\ next' = next + 1
            /\ UNCHANGED <<at, alive>>
    /\ UNCHANGED <<job, out, parts>>

\* _iter_local_streaming: one shard through all the stages, funnels added up.
\* Mutant: the counts of the last shard only.
LastCounts(chain) == [i \in DOMAIN Stages |-> RowsIn(chain[i])]
AddCounts(chain) == [i \in DOMAIN Stages |-> funnel[i] + RowsIn(chain[i])]
PullShard ==
    /\ at = "working" /\ DepthFirst /\ next <= Len(Source(job))
    /\ LET shard == Source(job)[next]
           chain == Chain(Stages, shard)
       IN IF ChainFails(Stages, shard)
          THEN at' = "raised" /\ Destroyed /\ UNCHANGED <<data, funnel>>
          ELSE /\ data' = chain[Len(Stages)]
               /\ funnel' = AddCounts(chain)
               /\ at' = IF data' = <<>> THEN "working" ELSE "yielding"
               /\ UNCHANGED alive
    /\ next' = next + 1
    /\ UNCHANGED <<job, out, parts>>

\* write_streaming: Lance appends to one dataset, Parquet numbers its files.
PartName(i) == IF job.call = "lance" THEN 0 ELSE i
Written(i, shard) ==
    IF PartName(i) \in DOMAIN parts THEN [parts EXCEPT ![PartName(i)] = @ \o shard]
    ELSE [n \in DOMAIN parts \cup {PartName(i)} |-> IF n \in DOMAIN parts THEN parts[n] ELSE shard]
Writes == job.call \in {"lance", "parquet"}

(* The consumer takes a shard; a writer may fail, and a reader may drop    *)
(* the generator, which is then closed.  run() takes all of them.          *)
Yield ==
    /\ at = "yielding" /\ data # <<>>
    /\ out' = Append(out, Head(data)) /\ data' = Tail(data)
    /\ parts' = IF Writes /\ Head(data) # <<>> THEN Written(Len(out), Head(data)) ELSE parts
    /\ UNCHANGED <<job, at, next, alive, funnel>>
\* Mutant: only an exhausted generator destroys its stages.
NeverClosed == alive' = alive
Closed == alive' = {}
Close ==
    /\ at = "yielding" /\ job.call # "run"
    /\ at' = "closed" /\ Closed
    /\ UNCHANGED <<job, data, next, out, parts, funnel>>
NextShard ==
    /\ at = "yielding" /\ data = <<>> /\ Stages # <<>>
    /\ at' = "working"
    /\ UNCHANGED <<job, data, next, alive, out, parts, funnel>>

Finish ==
    /\ \/ at = "working" /\ next > IF DepthFirst THEN Len(Source(job)) ELSE Len(Stages)
       \/ at = "yielding" /\ data = <<>> /\ Stages = <<>>
    /\ at' = "done" /\ Destroyed
    /\ out' = IF DepthFirst \/ Stages = <<>> THEN out ELSE data
    /\ UNCHANGED <<job, data, next, parts, funnel>>

\* cosmos-xenna keeps no order between shards and reports no counts.
RunCosmos ==
    /\ at = "cosmos"
    /\ \E order \in [DOMAIN data -> DOMAIN data] :
          /\ \A i, k \in DOMAIN data : i # k => order[i] # order[k]
          /\ \/ /\ \A i \in DOMAIN data : ~ChainFails(Stages, data[i])
                /\ at' = "done"
                /\ out' = FlattenSeq([i \in DOMAIN data |-> Chain(Stages, data[order[i]])[Len(Stages)]])
             \/ /\ \E i \in DOMAIN data : ChainFails(Stages, data[i])
                /\ at' = "raised" /\ UNCHANGED out
    /\ UNCHANGED <<job, data, next, alive, parts, funnel>>

PipelineNext ==
    \/ Start \/ SetUp \/ RunNextStage \/ PullShard \/ Yield \/ Close \/ NextShard
    \/ Finish \/ RunCosmos

-----------------------------------------------------------------------------
(* What each of the stages makes of a table, row by row.                   *)
Through(stages, rows) ==
    LET after[n \in 0..Len(stages)] == IF n = 0 THEN rows ELSE Transform(stages[n].kind, after[n - 1])
    IN after
Expected(n) == Through(Stages, TableOf(job.tasks))[n]
Times(s, x) == Cardinality({i \in DOMAIN s : s[i] = x})
SameRows(a, b) == \A x \in ToSet(a) \cup ToSet(b) : Times(a, x) = Times(b, x)

(* A pipeline gives what its stages make of the source row by row, however *)
(* it is cut into tasks, chunks, shards and batches: a consumer never has  *)
(* more than a prefix of it, all of it in the end, with the funnel that    *)
(* tells how many rows left every stage, and a file for what it was told   *)
(* was written.  cosmos keeps the rows, not their order.                   *)
StreamingAgrees ==
    LET answer == FlattenSeq(out)
        whole == Expected(Len(Stages))
    IN /\ UseCosmos(job) \/ IsPrefix(answer, whole)
       /\ at = "done" =>
            /\ IF UseCosmos(job) THEN SameRows(answer, whole)
               ELSE answer = whole /\ funnel = [i \in DOMAIN Stages |-> Len(Expected(i))]
            /\ ReadDistributed(job.tasks) = TableOf(job.tasks)
       /\ Writes => SameRows(answer, FlattenSeq([i \in 1..Len(out) + 1 |->
                                IF i - 1 \in DOMAIN parts THEN parts[i - 1] ELSE <<>>]))

(* A stage works only between its setup and its destruction, and all are   *)
(* destroyed in the end: when the source is exhausted, when a stage or the *)
(* consumer fails, and when the consumer leaves; setup() that raises is    *)
(* the exception, it leaves those before it as they are ("refused").       *)
StagesDestroyed ==
    /\ at = "working" => alive = DOMAIN Stages
    /\ at \in {"done", "raised", "closed"} => alive = {}
=============================================================================
