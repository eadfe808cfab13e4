# TLA+ specifications of jude

jude is a DuckDB-based analytics engine with a distributed side built on Ray: a
Rust core (`src/`) with the scheduling primitives, the metrics registry and the
UDF pools, and a Python layer (`python/jude/`) with the driver, the Ray actors,
pipelines, vector search and the data curation library. This directory holds
specifications of its concurrent and algorithmic core, the TLC configurations
that model-check them, and theorems checked by TLAPS. Paths below are relative
to the repository.

Run a check with `tlc -config MCRunner.cfg MCRunner`, a proof with
`tlapm RayRunnerProofs.tla`. `PROJECT.json` lists runs, theorems, the source
lines each definition stands for, the hazards and the findings.

## Inventory

Components in the order of their weight for correctness. "Hard" names the
behaviours that tests reach with difficulty.

| Component (source) | State | Operations | Hard | Correct when |
|---|---|---|---|---|
| Resource admission (`src/dist/resource.rs`) | capacity, used, in-flight count, behind a mutex | `try_reserve`, `reserve`, `release`, `admit_count` | concurrent callers; forced leases past capacity | what is granted by `try_reserve` fits; books equal leases |
| Admission dispatch (`_ray_shim.py: run_bounded_admission`) | submitted index, in-flight dict, results | launch, wait, collect | refuse-then-reserve; failures; out-of-order completion | all tasks run, in order, always ends |
| RayRunner: pool, retry, windows (`runners/ray.py`, `_ray_shim.py: run_bounded`) | pool of actors, attempt, refs | `_ensure_workers`, `with_retry`, reads, `distributed_write_lance` | actor death, retry, pool rebuild, partial writes | reads survive faults; writes happen once and whole |
| RayRunner: plans, shuffles, scans (`runners/ray.py`, `_agg.py`, `dist/stage.rs`, `physical.rs`) | refs to shards | `execute_dag`, sort, distinct, top-k, aggregates, joins, scans | reducers that block actors; NULLs; regions applied once | the answer of one node, no circular wait |
| Ray actor (`_ray_shim.py: _JudeWorker`) | DuckDB connection, caches of vectors | task methods | restart; caches by path | same answer from any actor |
| WorkerManager (`dist/worker_manager.rs`) | nodes, cursors | round robin, LPT assignment, locality, window | boundaries | every split assigned, balanced |
| Cluster scheduler (`dist/cluster.rs`) | nodes, placement | worst-fit | limits | no node over capacity |
| Split assigners, task descriptors (`dist/split_assigner.rs`, `fte.rs`) | open partition, target, replicated splits, seals | `assign`, `append_splits`, `seal_source` | interleaved sources, late partitions, boundaries | each split in one task, broadcast everywhere, packed tasks sealed once, all in the end |
| Distributed components (`dist_cc.py`) | labels and edges over shards | rounds of gather, compute, apply | interleaving, truncation | converged labels are component minima |
| Curation on one node (`curate.py`, `curate_mm.py`, `curate_flow.py`) | flow steps, funnel | dedups, filters, decontamination, chunking, `run` | greedy order, second run | survivors apart, operators idempotent, funnel adds up |
| Distributed curation (`curate_dist.py`) | union-find; shuffled keys | exact, fuzzy, substring, image dedup, map, shuffle | order of edges, caps | same rows as one node |
| Lance datasets (`_lance.py`, `lance.py`, `vector.py`) | handle cache, epoch, resident matrices | read, write, index, invalidate | caches of several processes, three kinds of stamp | no stale answer after a write |
| Search and retrieval (`vector.py`, `retrieval.py`, `_bm25.py`, `cluster.py`) | registered relations | exact, indexed, routed, text, hybrid search, re-ranking, MMR, k-means | merging of shards' answers | shards answer what one would |
| Pipelines (`pipeline/`, `datasource.py`) | shards, live stages, consumer | breadth-first and streaming engine, writers | abandoned generators, failing stages | row-by-row meaning, stages destroyed |
| UDF execution (`udf/subprocess.rs`, `execution/`) | registry of pools, pipes, mutexes | get, map, shut down | shared pipes, deaths, shutdown during a map | each call gets its own answers in order |
| Incremental dedup (`incremental_dedup.py`) | hash set, saved dataset | load, add, save, return | crash or second run between load and save; an index that cannot be read | no content twice while the index can be read |
| Observability (`observe.rs`, `observe.py`) | queries, stages, audit log, pollers | contexts, stages, eviction, reset, poller | eviction while running, restart of a poller | what is recorded happened; pollers end |
| Materialised scans, streams (`mat_scan.rs`, `stream.rs`) | registry, cursors | register, next, drop | reuse after drop | every row once |
| Relation and connection API (`relation.rs`, `connection.rs`) | SQL text | builders | none of state | generated SQL |

How they interact. The driver (RayRunner) asks WorkerManager where a partition
goes and how wide the window is, sends closures to actors through the dispatch
loops of the shim, and asks the process-wide ResourceManager for leases when
actors demand resources. Actors keep no state between tasks but caches. A plan
with nested shuffles goes through `execute_dag`, one with a single boundary
through the method of that operator; both submit producers and reducers to the
same serial actors. Writes end in one commit on the Lance dataset by the driver.
Distributed curation and search use the same actors for their shuffles;
`dist_fuzzy_dedup` hands the edges of its reducers to either the distributed
components or a union-find of its own. Searches over a Lance dataset go through
the caches of `_lance.py` and `vector.py`. Pipelines, UDF pools and incremental
dedup share no state with each other. Every operator may report to the metrics
registry from any thread. Split assigners and task descriptors are the
scheduling primitives of a fragment engine whose driver is not in the
repository yet; their contract is in `docs/distributed_design.md`.

## Modules

| Module | Models | Used by |
|---|---|---|
| `ResourceManager` | `resource.rs`: one operator per locked method, on the record behind the mutex | `AdmissionDispatch` |
| `TaskDispatch` | abstract: what any dispatch promises its caller | `AdmissionDispatch` (refinement) |
| `AdmissionDispatch` | `run_bounded_admission`, any number of concurrent calls | `MCAdmission`, `AdmissionDispatchProofs` |
| `RayRunner` | pool, `with_retry`, `run_bounded`, reads, Lance writes; Ray itself | `MCRunner`, `RayRunnerProofs` |
| `SplitAssigner` | the three assigners and the descriptors they feed | `MCSplits`, `SplitAssignerProofs` |
| `Components` | abstract: connected components and their least vertex | `DistCC` |
| `DistCC` | `connected_components` and its shard actors | `FuzzyDedup` |
| `UnionFind`, `FuzzyDedup` | `_UnionFind` on its parent array; the two ways of `dist_fuzzy_dedup` to pick survivors | `MCDistCC`, `CurationProofs` |
| `LanceStore` | a Lance dataset, its handles, epochs and resident matrices in driver and actors | `MCLance`, `LibraryProofs` |
| `Rows` | what the SQL of a partition computes; the answers of one node | `StageDag` |
| `Partitions` | contiguous slices of rows, files and fragments | `StageDag`, `DistCuration` |
| `StageDag` | how the driver turns a plan or a route into tasks on serial actors, and what they answer | `MCDataflow`, `StageDagProofs` |
| `Curation` | the operators of one node | `DistCuration` |
| `DistCuration` | the same operators as producers and reducers | `CurationFlow` |
| `CurationFlow` | `CurationFlow.run` and its funnel | `MCCuration`, `CurationProofs` |
| `Observe` | query and curation contexts, the registry, the audit log, the node poller | `MCObserve`, `ObserveProofs` |
| `Pipeline` | sources, breadth-first, streaming and cosmos engines, writers | `MCLibrary`, `LibraryProofs` |
| `UdfPools` | subprocess pools, Ray tasks and resident Ray actors behind a map | `MCLibrary`, `LibraryProofs` |
| `HashIndex` | `incremental_dedup` and its crashes | `MCLibrary`, `LibraryProofs` |
| `Search` | every search function over a corpus in shards | `MCLibrary`, `LibraryProofs` |
| `SequenceLemmas` | lemmas about sequences, lists of them and loops, stated of nothing in this code | `*Proofs` |
| `*Proofs` | theorems | |

`MC*` modules only give values to the constants; `MCLibrary` also composes four
modules that share no state: a behaviour explores one of them (`part`), the
others rest in an initial state.

### State and actions against the code

*AdmissionDispatch.* One call of `run_bounded_admission` has the Python locals
`next_idx`, `inflight` (the dict of refs, here the set of task indices) and
`results`; `pc` is the place in the loop. One action is one call into the
manager with the local steps around it: `try_reserve` granted
(`LaunchReserved`), refused (`Refused`), and the forced `reserve`
(`LaunchForced`) are separate since other threads may run between them.
`Collect` is `ray.wait`, `ray.get`, `release` and the return to `launch_ready`.
`CollectFailure` is the exception out of `ray.get`. `leases` and `forced` are
history variables: the leases that exist.

*RayRunner.* `pool` is `self._workers` with, for each actor, Ray's view of it
(state, restarts, queue of tasks). `EnsureWorkers` is `_ensure_workers` and the
start of a dispatch; `SubmitNext`, `CollectOne`, `CollectAll`, `CollectFailure`
and `FinishDispatch` are `run_bounded` with and without a window; `Failed` is the
`except` branch of `with_retry`; `Commit`, `CommitRaises` and `Index` are the end
of `distributed_write_lance`. `pinned` counts actors of a dropped pool that the
traceback in `last_exc` still references. `written` and `faults` are history
variables. Ray is external: `Place`, `WorkerStarts`, `WorkerEnds`, `Crash`,
`Restart`, with the options `make_workers` passes (`max_restarts`,
`max_task_retries=0`, `num_gpus`).

*SplitAssigner.* One action, `Feed`, is one call of `assign` (`&mut self`, so
atomic) and the application of the answered updates to the task descriptors.
`tasks` maps the partitions that exist to their descriptors. The loops of the
code are recursive functions of the number of turns taken, so that a theorem can
speak of them: `PackAll` over the splits of a batch (its body is `PackSplit`),
`Appended` over those that a descriptor is offered, `ByPart` over those that are
routed by key, `ApplyAll` over the updates.

*DistCC.* One action per actor and phase; `NextPhase` and `EndRound` are the
driver's barriers. The shards' label dicts are one function, since each rid has
one owner; the list of proposals an owner applies one by one is applied at once,
as its least element, since the actor is serial and keeps a minimum.
*UnionFind* and *FuzzyDedup* are pure; `find` compresses, so it answers with a
new array.

*LanceStore.* `history` is the list of committed versions, each the set of its
rows; `handle[p]` is the entry of `_DS_CACHE` in process `p`, as the version it
shows; `epoch` is `_EPOCH` in the driver, the only process that mutates;
`matrix` and `shard` are `_RESIDENT_VEC` and `_vec_cache` with their stamps.
Each operation of `_lance.py` and each query is one action, since the driver
and an actor serve one call at a time; operations that differ only in what
Lance does with the data are one action. `answer` is a history variable: the
version the last query read, the one whose vectors it scored, and the last
version committed then.

*StageDag.* `tasks` is the list of remote calls in the order of submission; a
task names the actor it was given to, its method and what it reads: references
to outputs of other tasks, or tables the driver put. `VisitNode` is one turn of
the loop of `execute_dag` over the stages; `SubmitRoute` is the submission part
of a method of `RayRunner`. `Execute` is an actor's next task: it needs its
inputs, since a reducer fetches them while it holds the actor, and computes with
`Executed`, the task methods of `_JudeWorker`. `Gather` is the driver's final
`ray.get` and the assembly of the answer. `relation` is what one node answers
for each node of the plan, by the operators of `Rows`.

*Curation, DistCuration, CurationFlow.* The operators are pure; a dropping one is
the set of rows it keeps. `DistCuration` cuts the corpus with `Partitions`,
routes keyed rows to buckets (`Gathered`, `Shuffled`) and assembles. In
`CurationFlow`, `Run` is the start of `run()` and `Step` one turn of its loop,
with the funnel record; `popped` records the argument that the first run takes
out of the flow's own steps. `ChunkText` makes one row of a document per chunk and
leaves its text; the column with the chunk is left out.

*Observe.* `Enter`, `DoneInBody`, `Leave` and `OpenStage` are the context
managers, each with the registry calls it makes (`Report` with the eviction of
`trim_queries`, whose partition of the records is the loop in `Picked`) and the
audit record; `SetAuditEnabled` and `Reset` the
switches. `StartPoller`, `StopPoller` and `PollerStep` are the poller's global
thread and event, and the turn of its loop, which reads the global event.

*Pipeline.* `job` is the pipeline and the call; `at` the place in the engine.
`RunNextStage` is a stage of the breadth-first engine over all shards;
`PullShard`, `Yield`, `Close` and `NextShard` are the generator of the streaming
one and its consumer, who may stop (`Close`) or fail at each shard. `Finish`
destroys the stages. `RunCosmos` is the external engine: an unordered map.

*UdfPools.* `GetOrCreatePool`, `Acquire`, `Receive`, `Gather` are `subprocess.rs`
(registry lock, worker mutex, one frame in flight per worker, join in order);
`LookUp`, `BuildExecutor`, `MakePool`, `Submit`, `Lost` are `run_ray_map` and
`RayActorExecutor`, with the reads of `_pool` apart from its writes. `Work` is
`_worker.py`'s loop, or the Ray actor. `ShutdownPools` may come anywhere, and so may
`Die`, the death of a worker or an actor, which is external.

*HashIndex.* `Load`, `Add`, `Save`, `Deliver` are the statements of
`incremental_dedup`; `Crash` may come between any two. `LoadFails` is a load that
raises OSError or ValueError on an index that exists and answers with an empty one,
which the run's `Save` then writes. `handed` and `failures` are history; a run and
the documents it hands out carry the number of failed loads before them (`after`).

*Search.* One action per call: the answer of the shards, merged by the code's
merge. `relations` are the names of the connection, for `search_then_sql`.

## Runs

| Run | What it shows | Bounds | Distinct states |
|---|---|---|---|
| `admission` | books, capacity promise, order, termination; refinement of `TaskDispatch` | two calls of three tasks: one call finds capacity held by the other, forces, or leaks into it. Capacities and demands so that two, one or no task fits | 234k |
| `runner` | retried reads outlast crashes, answers whole and in order, writes once and atomic, every operation ends | two actors, three partitions (one actor gets two; a window of two binds), two operations in a row (what one leaves for the next), three crashes: enough to use up an actor's restart, kill it and fail one more attempt | 659k |
| `splits` | no split lost or doubled, broadcast everywhere, packing bounds, when each assigner seals | two packed sources and a broadcast one, two splits each; sizes that fill, overfill and exceed every target; growth period 2 so that the cap is reached | 183k |
| `cc` | meaning of labels after any round, convergence, both dedup paths agree | every graph of one to three edges on five vertices and two paths of four, split in any way over two shards; three rounds, so that long paths are cut | 41k |
| `lance` | what the driver's and the actors' caches may answer after any sequence of writes, index builds and queries | two rows, two columns, an actor; three versions and two counted mutations, so that a version is committed uncounted before, between and after counted ones | 1.6M |
| `dataflow` | every boundary alone, nested and by route answers what one node answers; actors never wait for each other in a circle; files are spread evenly | two actors; tables of up to three rows with duplicates and NULL keys and values, one of them empty; a hash that sends all keys to one bucket and one that spreads them; partitions by workers and by hint; thresholds of the salted join lowered so that keys are hot | 31k |
| `curation` | distributed operators against those of one node, semantic survivors apart, funnel, idempotence | all corpora of three documents out of eight shapes (near-duplicates through one band only, capitals, NULLs, shared lines, repeated spans), of four out of three; two operators in any order, run twice (chunking twice on one corpus only, since rows grow by the square of lines); the cap of hot bands lowered to two so that it is met | 9k |
| `observe` | outcomes recorded once and as they happened, live queries survive eviction, stopped pollers end | two threads, three contexts over a registry of two records, so that one is evicted while another runs; two pollers, so that one is replaced | 508k |
| `library` | pipelines, UDF pools, incremental dedup and search | chains of up to two stages over empty, ragged and failing sources; two callers of three batches over two workers (a worker has two batches of a call), a death and a shutdown; dumps of up to three documents in three runs, each of which may crash anywhere or fail to read the index; six rows cut in six ways, `k` and candidate limits below, at and above the shard sizes | 309k |
| `admission_leak` | finding 1 | that of `admission` | |
| `dag_scan_region` | finding 2 | one plan | |
| `library_kmeans` | finding 3 | search only | |

`CHECK_DEADLOCK FALSE` is set where the system really stops: all calls have
ended, all operations are done, all sources ended, the answer is there. It is
checked in `lance`.

Each property of a passing run has a mutant in `PROJECT.json`: a plausible
defect, defined in the module next to the definition it replaces, that the run
detects.

Bounds that exist for checking only: `MaxOps`, `MaxCrashes` (RayRunner),
`MaxBatch`, `MaxFed` (SplitAssigner), `MaxVersions`, `MaxEpoch` (LanceStore),
`MaxRuns` (CurationFlow, HashIndex), `MaxStarted`, `MaxStages`, `MaxToggles`,
`MaxPollers` (Observe), `MaxCalls`, `MaxDeaths`, `MaxShutdowns` (UdfPools). Others are
parameters of the code. Four constants choose what a run explores: `Together`
(queries and pollers of Observe share no state, and do not interleave when it is
false), `ResetInFlight` (`reset()` while queries run), `Overlap` (incremental
runs that overlap) and `Parts` (MCLibrary).

## Fairness

- AdmissionDispatch: the thread of a call is scheduled (`WF` of its loop) and a
  task that Ray runs ends, well or badly. Starting a call is not fair.
- RayRunner: the driver's thread is scheduled; an actor that can be placed is
  placed, one that restarts comes back, and it ends the task it runs. Crashes
  and new operations are not fair.
- DistCC: the driver is scheduled and every actor answers (`WF_vars(Next)`). The
  code has no timeout on `ray.get`, so nothing weaker would do.
- Observe: every poller thread is scheduled; it wakes at each interval. Nobody
  has to enter a context, or to start or stop a poller.
- SplitAssigner, LanceStore, StageDag, CurationFlow and the parts of MCLibrary state
  no liveness: nothing obliges a source to report, a consumer to pull or anyone
  to query. That a dataflow can go on is a safety property there
  (`SomeActorCanRun`).

## Proofs

TLC checks instances; the theorems hold for every value of the constants that
the named assumption of the module admits.

`AdmissionDispatchProofs` (`DispatchAssumption`; any finite set of calls, number
of tasks, capacities, caps and demands): `TypeOK`, `LoopInvariant`,
`LeaseAccounting`, `AdmittedWithinCapacity`, `OversizedRunsAlone`, and that the
loop implements `TaskDispatch`. The inductive invariant `IInv` adds to the five
of them what they need from each other: the leases are a finite set, a lease
below the forced ones was granted with room, and the books equal the leases.
The books are what makes capacity inductive (`try_reserve` looks at `used`, the
promise is about leases), and the loop invariant is what makes the books
inductive (a release needs its lease to exist, or clamping at zero would lose an
amount). `AdmitCountAgrees` needs no invariant but `TypeOK`: `admit_count` is the
least of quotients, and that so many reservations in a row are granted is division
with remainder, one dimension at a time; when the least quotient is zero, what is
available misses the demand, and a grant can come from the slack of that dimension
only, which leaves nothing available of it. Demands no larger than the slack
itself are granted without end and are excluded by name (`Coarse`, and the
condition in `AdmittedWithinCapacity`).

`RayRunnerProofs` (`RunnerAssumption`; any number of actors, partitions, retries,
restarts, windows, crashes and operations): `TypeOK`, `ReadSurvivesCrashes`,
`AnswerIsComplete`, `WriteTasksRunOnce`, `WritesAreAtomic`. `IInv` has a part for
each actor of the story. `QueuesSound` is the heart: a failed operation leaves
its tasks in the queues of actors that live on, so a queue holds tasks of any
operation that began, each write task once, at the actor of its index, and it has
run only if the actor is at it. From this, `WritesSound` counts the runs of the
current operation's tasks, `DispatchSound` says which results are in their
places, and `DatasetSound` that the dataset has nothing of an operation before
its commit. `RetriesSound` counts crashes against attempts: an attempt after the
first has a new pool, so it fails without an error of its own only if an actor
crashed since; the first may find a pool with dead actors that an earlier
operation left, hence `attempt - 1`.

`CurationProofs` has two halves.

The graph of near duplicates (`CCAssumption`; any graph on natural numbers, number of shards,
distribution of the edges and bound on the rounds): `TypeOK`, `LabelsSound`,
`ConvergedIsComponentMin`, `RoundsSuffice` and, for finitely many rows
(`RowsAssumption`), `SurvivorsAgree`. The third is the point: that a round without changes
means convergence depends on what each actor knew when. `IInv` says so phase by
phase: what was gathered is still current (`SnapshotFresh`), what is proposed may
be taken (`ProposalsSound`), while nothing changed both ends of every edge have
the least of their labels among their proposals (`ProposalsComplete`), and no
shard that applied had a proposal to take (`AppliedQuiet`). So labels are equal
along every edge when the loop ends unchanged; the vertices with one label are a
closed set, and `EqualLabelsAreLeast` concludes. The components are defined by
closed sets, not by paths, so no induction over paths is needed. `RoundsSuffice`
rests on `RInv`: a label is the least vertex within as many edges as rounds its
owner has applied (`LabelsLeast`), a shard's proposals are the least within the
rounds done of the two ends of its edges, and no others (`ProposalsLeast`), and a
round that changed something lowered a label below what the rounds before it
reach (`ChangeSeen`). So when the loop is left after a change, max_rounds - 1
edges did not reach the least vertex of that label's component. `Within` is a
recursive function; `WithinLoop` shows that it has a value for every number of
edges, by an induction over the set of numbers for which it has one.
`SurvivorsAgree` needs the union-find too. Its arrays are a `Forest`: no parent is
larger than its child, so that the walks of find end (`RootWalk`, `PathWalk`, from
the least of an element's `Ancestors`), path compression moves no root
(`CompressedKeepsRoots`) and linking two roots moves those of one tree only
(`LinkedRoots`). A union joins its edge, parts nothing and links only within a
component (`UnionStep`); over all edges, in any order (`UnionsSound`), the roots are
labels equal along every edge, and `EqualLabelsAreLeast` concludes as it did for
the shards.

The flow (`CasesAssumption`: a corpus is a sequence of documents, operators have
names; any corpora and operators, run any number of times): `FunnelAddsUp` and
`SurvivorsApart`. `FlowInv` says that every table is a table of documents, whatever
the operators did to the texts, and that the entries of the funnel follow one
another; `ArgumentInv` that a step without its argument is one that a run before
took it from, so that a run can raise only after the first, at a decontamination.
`Take`, which every operator that drops rows ends in, picks rows in
their order, each once (`TakeSelects`). `sample_dropped` does not know which rows were
dropped: it counts the copies of a text in the output and calls the first so many in
the input saved. So the theorem says of each text how many copies it names, not
which (`DroppedCount`, from `BeyondCount`: of n copies, those after the first k are
n - k): as many as were dropped, and in sum `Matching` gives the number of rows
dropped, whichever copies were taken. The representatives of semantic
deduplication are given row by row (`RepsLoop`); a row that has one before it has a
survivor near to it (`NearestIsNear`, `RepsSound`), and in a cluster the same holds of
the rows it picks, whose places are those of a selection (`ClusteredSound`), for any
clusters.

`StageDagProofs` (`NWorkersAssumption`, `QueryAssumption`: plans list the inputs of a
node before it, routes have the operator at the root that they are for, relations
are sequences, and the files of a scan have sizes; any number of actors, plans,
tables, files and hashes): `SomeActorCanRun` and `ScanIsBalanced`. A reducer holds its actor
while it fetches, so a task that waits for a later one of the same actor, or two
that wait for each other, would block the pool. `BackwardInv` says that tasks are
on actors and that everything a task or a stage's output refers to is a task
submitted before it (`TasksSound`, `OutsSound`), and `PcSound` that `execute_dag`
has the outputs of every stage below the one it visits. Each way the driver submits
work keeps it: one task per reference, one reducer per bucket over all producers,
broadcast, bucketed join, salted join, one task per group of files. Then the first
task that has not ended is the first of its actor and has all its inputs. Balance is
an invariant of the greedy loop (`Spread`): the load of each worker is the total of
the files placed on it, and any two loads are apart by one file at most, which a
placement keeps because it goes to a least loaded worker (`PlaceSpread`); the order
by size is not needed for this bound. What the tasks read is then what was placed:
each worker's group has the bytes of its files (`GroupBytes`), and is read by one
task (`FileTasksAre`). A scan submits once (`ScanSound`).

`SplitAssignerProofs` (`AssignerAssumption`; any sources, partitions, sizes, batches
and bounds, for each of the three assigners): `TypeOK`, `EachSplitInOneTask`,
`BroadcastReachesAll`, `PackedWithinBounds`, `SealedInTheEnd` and
`SealsFollowTheEnds`. Packing and the fixed strategies have an invariant each.
`PackingInv` speaks of the packing assigner on descriptors of all naturals (`Big`:
a partition not yet made has an empty descriptor), so that making one changes
nothing, and says what the assigner knows of them: its size and count of the open
partition are those of the descriptor (`Booked`), replicated sources were told to
all (`Told`), each split is in one (`Placed`), none is over its bounds
(`Bounded`). One call is a loop, and `Turned` is its loop invariant: after every
turn the updates made so far, applied to the descriptors before the call, are as
`PackingInv` wants them with the splits taken so far. `Fixed` is the invariant of
the other two, "single" and "hash": a descriptor has the splits of its source that
route to it, in order (`Sorted`), and the sources the assigner has seen are those
that reported (`Reports`), by which it decides when to seal. The recursive functions of the loops are
unfolded once, by a lemma for each of them (`PackLoop`, `ApplyLoop`,
`AppendedLoop`, `PlaceLoop`), from the induction on naturals stated as a fact about
sets, which the provers can instantiate. `PackedWithinBounds` needs that the target
only grows (`GrowsOn`), which is where `AssignerAssumption` has the growth factor
at least one.

`ObserveProofs` (`ObserveAssumption` and `~ResetInFlight`; any threads, any number of
queries, curation operators and stages, any size of the registry): `LiveQueriesKept`
and `OutcomesRecorded`. `IInv` relates three things: the context managers that are
open, the records, and the outcomes so far. `HandlesApart` and `OutcomesApart` say
that ids and handles are given once; `RecordsSound` that a record is of a live
context manager or tells one outcome, and `LiveRecorded` that every live one still
has a record, which is what eviction could break; `AuditSound` does the same for the
audit log. Every outcome enters by one step (`Ends`), whichever statement of the
context manager reports. What `trim_queries` leaves (`TrimLeaves`) rests on what its
partition picks (`PickedFacts`: the records at the given positions, each once), by
induction over its turns. The totals of `summary()` are sums over finite sets, taken
apart one element at a time (`SumAdds`); `SumMatch` compares two of them along the
records that have an outcome. What an operator reports as its rows out is any number,
so `removed` is what all of them took away less what they added, and zero rather than
negative.
With `ResetInFlight` ids are given twice and `HandlesApart` is false: see the
divergences.

`LibraryProofs` has the theorems about five modules that share no state.

- Incremental dedup (`IndexAssumption` and `~Overlap`; any dumps, processes, runs and
  crashes and failed loads anywhere): `KeptOnce`, that two documents with one content
  are handed out only if a load between their runs could not read the index.
  `IndexInductive` relates the index on disk, what was handed out since the last such
  load and the documents a run is about to hand out: those of a saved
  run are in the index and not among the handed ones, since no other run began.
- UDF pools (`UdfAssumption`; `SubprocessSpec`, the pools of `subprocess.rs`;
  any number of callers, workers, batches, calls, deaths and shutdowns, any UDF
  that raises): `MapAnswersInOrder`. Frames carry no tag of their call, so
  everything rests on `LockSound`: on the pipes of a worker that nobody holds there
  is nothing to read, and on those of a held one there is the request of the
  holder's batch in turn or its reply, one of them. `GotSound` then says what a
  caller has: answers of its own batches, worker by worker without gaps and in
  the order the worker gave them. `CrewsBounded` (a new generation is made only
  after a shutdown) keeps generations within the type.
- Pipelines (`PipelinesAssumption`: any jobs, with any tasks, rows, sizes, stages,
  engines and consumers): `StagesDestroyed`, from which stages live in which state
  of the engine, and `StreamingAgrees`. A batch, a shard, a chunk and a task are
  four ways to cut the same rows, so the second rests on what cutting cannot
  change: what a stage makes of two sequences after one another is what it makes of
  the one and then of the other (`TransformFlatten`), also when it drops empty shards
  and cuts its own answers (`StageJoins`), and so on along all stages
  (`ThroughConcat`, `ChainJoins`). `PipeInv` then has a part for each engine:
  depth-first, what is out followed by what is about to be is what the stages make
  of the shards taken so far, which the funnel counts (`DepthInv`); breadth-first,
  what lies between two stages is what the earlier ones make of the whole table
  (`BreadthInv`); cosmos hands the source over at once and keeps, for each row, how
  often it occurs (`WhereInv`, `Times`); and `FilesInv` has the files follow the
  shards.
- Lance (`LanceAssumption`; any number of actors, rows, columns and versions, and a
  Lance that builds index segments uncommitted, `HasSegmentApi`): `TypeOK`,
  `DriverSeesWrites`, `RerankAgrees` and `ShardSeesWrites`. `IInv` adds that the
  driver's handle is the last version or forgotten (`HandleCurrent`), that a matrix
  with the current stamp has the rows of the last version (`MatrixCurrent`), and
  that answers name versions that exist (`AnswerReal`). The distributed index build
  is why `MatrixCurrent` speaks of rows and not of versions: it commits without
  counting. Without `HasSegmentApi`, `create_index_uncommitted` commits and leaves
  the handle, and `DriverSeesWrites` is false.
- Search (`SearchAssumption`: rows with numbers for positions and an id of their own,
  cut into shards in any way; any queries, `k` and lambda): `ExactAgrees`, the part
  of `ShardedSearchAgrees` about exact search. That the shards' first k have
  the first k of all among them is counted and not sorted: `HowMany` elements of a
  sequence are in a set; a sequence has the k best of another when it has, within any
  distance, as many as the other but at most k (`AreBest`, `AreFirst`). Counts add up along
  shards, and a minimum of k survives a minimum of k in each of them, so
  merging keeps it (`Least`). Squared distances rank rows as distances do (`SquaresRank`),
  the batch is one search per query since a hit is tagged with its own
  (`BatchShard`), and MMR with lambda 1 takes the nearest that is left at each of its
  steps (`Greedy`). Ties make the hits themselves depend on the shards, which is why
  it is the distances that agree.

Only model-checked:

- Liveness, out of the prover's reach: `EveryCallEnds`, `EveryOperationEnds`,
  `Terminates`, `PollersStop`.
- What whole pipelines of recursive definitions or folds compute:
  `AnswerAgrees` of `dataflow`, `DistributedAgrees` and `SecondPassIsIdle` of
  `curation`, and of `ShardedSearchAgrees` the parts about the vector index, full
  text, k-means and `search_then_sql` (`IndexAgrees`, `TextAgrees`). Induction over data
  cannot be had from the library's theorems (they take an operator as a parameter);
  it is done here for one definition at a time, in SplitAssigner, Observe, DistCC,
  UnionFind, StageDag, Pipeline, Search and Curation.
- `MapAnswersInOrder` for Ray actors and tasks, whose requests are queued by a fold.

## Abstractions

- Amounts of resources are whole multiples of a unit so small that every f64 is one;
  the slack of `fits_within` is the constant `Slack`, positive for cpu and gpu.
  That f64 sums and quotients round is left out.
- In RayRunner a relation is its number of non-empty partitions, a result the pair
  of operation and partition, a dataset its set of fragments. Its driver is one
  thread; AdmissionDispatch and UdfPools have many, since their registries are
  meant to be shared.
- A split is its source, sequence id, size and key; bytes are small naturals, and
  the growth factor a fraction.
- A version of a dataset is the set of its rows; which columns are indexed is
  told by the version only. Other processes that write are left out.
- A row of StageDag has a key, a value and, after a join, the other side's value.
  Averages and variances are exact fractions. A hash is any function of the key
  columns, the one given by the query. How SQL text becomes a plan and chooses
  its route is left out: the plans are given.
- In Curation a word is a number, an embedding an angle, an image its perceptual
  hash. MinHash is computed with small hash functions; the hash of a span is the
  span (64 bits in the code); scores of quality models are left out, thresholds
  are on what remains.
- In Search an embedding is a position on a line; `IndexScan`, the approximate
  index, is external (Lance's): it knows cells of two positions and a row's distance
  by its cell only, and scans the nearest cells. BM25 keeps the term saturation and what is under
  the logarithm; fractions are rounded down.
- In Pipeline a row is a number and a stage a function of it, a filter, or an
  expansion; a file that is missing makes its stage raise.
- In Observe times and durations are left out; in UdfPools the bytes of a frame.
- Where a cap of the code is a number too large to be met (rows of a hot band,
  hot keys, records of the registry), it is a constant, lowered by the run.

## Findings

1. `run_bounded_admission` leaks leases when a task fails: the docstring promises
   release on completion (`admission_leak`).
2. `execute_dag` applies the region above a scan twice (`dag_scan_region`).
3. `kmeans` stops after its first step: the first comparison is with infinity,
   and so is its tolerance (`library_kmeans`; `kmeans_distributed` alike).

### Divergences without a run of their own

Met while modelling; the models have the code's behaviour, and the properties say
where they except it. Seven are stated as definitions that no run checks, because
the code breaks them:

- `RayRunner.AppendKeepsRows`: appending a relation without rows overwrites the
  dataset (`runners/ray.py:271-274`).
- `SplitAssigner.GrowsEveryPeriodOfSplits`: the packing target grows by sealed
  partitions (`split_assigner.rs:251,294`), `docs/distributed_design.md:146-149`
  says by packed splits.
- `SplitAssigner.NoneAddedAfterTheLast`: the packing assigner answers
  `no_more_partitions` when the first source it packs ends (`split_assigner.rs:342`),
  and adds partitions for others afterwards.
- `DistCC.ResultCoversEdges`: the result omits representatives
  (`dist_cc.py:132`), the docstring (95-96) promises every rid in an edge.
- `LanceStore.NoStaleAnswer`: an actor's cached handle does not see the driver's
  writes (`_ray_shim.py:239, 254, 276`, `vector.py:201`).
- `LanceStore.AnswersFromItsColumn`: an actor's matrix is cached by path, not by
  column (`_ray_shim.py:307`).
- `Observe.OnePoller`: a poller restarted while its thread sleeps leaves two
  (`observe.py:639`).

Admission and splits:

- `admit_count` floors the quotient that `try_reserve` compares with a slack
  (`resource.rs:159-164, 29-30`): with 0.3 available and 0.1 demanded it answers 2,
  and three are granted. `AdmitCountAgrees` states the difference.
- The single and hash assigners know of a source from its first report. When all
  that have reported have ended they seal their partitions and announce the last
  (`split_assigner.rs:94-96, 164-166`); a source that reports only then fills sealed
  partitions, and its end seals them again. That a seal is final holds of the
  packing assigner only; `SealsFollowTheEnds` says of the other two when they seal.

RayRunner and dataflow:

- A retry can wait for ever for GPUs that its own `last_exc` pins
  (`runners/ray.py:144`): `EveryOperationEnds` fails with `GpusPerWorker = 1`,
  `ClusterGpus = 2`.
- A right or full join on workers loses the key of unmatched right rows
  (`_ray_shim.py:150-156`, against `plan.rs:265-268`).
- With one worker `bucketize` returns a list for its single bucket, and reducers
  raise; `collect` falls back to one node (`runners/ray.py:488-491`).
- A salted join with NULL among the hot keys drops the cold rows
  (`runners/ray.py:810`, `NOT IN`).
- `is_pushable` (`physical.rs`) treats Query and Project nodes as pushable.
- A grouped aggregate over empty input answers with the input's schema.
- `distributed_scan` of a single CSV file ignores the CSV options.

Curation:

- NULL texts are near-duplicates of each other on one node and not distributed
  (`_ray_shim.py:453`, `curate_dist.py:184-186`).
- Substring dedup joins lines again on one node only; line breaks differ.
- Beyond the cap of a hot band, distributed fuzzy dedup may miss pairs.
- `CurationFlow.run()` twice raises KeyError when it decontaminates
  (`curate_flow.py:106`).
- `sample_dropped` knows rows by their text (`curate.py:936-977`): of equal texts it may
  report the copy that was kept. `FunnelAddsUp` says how many copies of each text it
  reports, not which.
- `dist_exact_dedup` names its kept hash column differently; `dist_image_dedup`
  does not clamp `bands = 0`; `blend_by_tokens` finds its table by equality
  (`tables.index`).

Search and Lance:

- "Exact global top-k" (`fts_candidates`) is exact only when shards propose all
  matching documents. With fewer, `TextAgrees` says that hits have the corpus's scores
  and are, place by place, no better than those of one index.
- `knn_rerank` answers with the index's own distances when it has at most `k`
  candidates; `distributed_ann_knn` merges those with exact ones. `IndexAgrees` then says
  only where each distance comes from (`FromItsShard`), not that the hits are nearest.
- `distributed_hybrid`: columns are those of the first row; without an id the
  keys are row numbers, which collide between shards.
- `search_then_sql` replaces, then drops, a relation of the user with its name.
- "l2" is unsquared in DuckDB and squared on workers and in re-ranking.
- `distributed_ann_knn_routed` does not pass `id_column` on.
- `kmeans_distributed` seeds from the first rows only.
- Where Lance lacks the segment API, `create_index_uncommitted` commits and leaves
  the handle (`_lance.py:377`).

Pipelines, UDFs, incremental dedup, observability:

- Parquet numbering skips numbers of empty shards; lance mode "create" fails on
  an existing path; `run()` without stages materialises; `setup()` that raises
  leaves earlier stages alive; when all rows are dropped the table has no schema,
  though the docstring (`_multimodal.py:74-75`) says that it propagates.
- A cached Ray actor pool with a dead actor stays for later calls;
  `_ACTOR_POOLS` is checked and set without a lock; `RayTaskExecutor.imap` does not
  keep the order that its module promises.
- A UDF that prints to stdout corrupts the frames of its worker.
- Overlapping `incremental_dedup` runs lose hashes. `load` takes any OSError or
  ValueError for an empty index (`incremental_dedup.py:45-46`), `save` then overwrites
  the one that is there, and its contents are handed out again: `KeptOnce` excepts it
  by `after`. After a crash between save and return the novel rows are never handed
  out.
- `done(rows_out)` of a curation operator takes any number; `summary()` sets what one
  operator added off against what another removed.
- `reset()` hands out the ids of queries in flight again; a long query that
  finishes into a full registry may be evicted first; `serve(port)` answers with
  the port it was asked for; a stage opened after `done()` stays.

## Not modelled

- `ClusterScheduler` (worst fit): nothing in the driver calls it.
- Materialised scans and result streams: a registry and a cursor, one step per
  call, no interaction.
- The relation, connection and catalog API, and the Spark shim: generation of SQL.
- Numeric kernels in Rust (`curate.rs`, `curate_mm.rs`, `kmeans.rs`), media decoding,
  tokenization and training formats: pure data; the modules model what the callers
  rely on.
- AI providers, readers and writers of external formats, the Iceberg commit,
  cluster launch, reports, the web frontend and the benchmarks: I/O.
- Of the modelled components: locality routing in WorkerManager, writes to Parquet
  and Iceberg, versions and ids of task descriptors, tags and clones of datasets,
  token blending and packing, index training, servers and durations in observability,
  several driver threads on one RayRunner (the check-then-use of
  `_ensure_workers`, `runners/ray.py:128`).
