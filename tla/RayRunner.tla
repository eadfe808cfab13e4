------------------------------ MODULE RayRunner ------------------------------
(***************************************************************************)
(* The driver side of jude's distributed engine: RayRunner's worker pool,  *)
(* the whole-query retry of reads (with_retry), the windowed dispatch of   *)
(* tasks to the pool's actors (run_bounded), and the distributed Lance     *)
(* write that ends in one commit (distributed_write_lance).                *)
(*                                                                         *)
(* One driver thread runs operations one after another, of the kinds:      *)
(*   collect    the auto-distributing read, the only one under with_retry  *)
(*   iter       run_iter_tables and the reads called directly: no retry    *)
(*   append     distributed_write_lance(mode="append")                     *)
(*   overwrite  distributed_write_lance(mode="overwrite")                  *)
(* The reads are modelled by their one dispatch over the partitions.       *)
(*                                                                         *)
(* Ray is external, modelled from what make_workers and run_bounded ask of *)
(* it: an actor runs its tasks one at a time in the order they came; when  *)
(* it crashes the tasks sent to it fail (max_task_retries is 0); it comes   *)
(* back max_restarts times and then is dead, and tasks submitted to a dead  *)
(* actor fail; it holds its GPUs as long as a handle to it exists.          *)
(***************************************************************************)
EXTENDS Integers, FiniteSets, SequencesExt

CONSTANTS
    NWorkers,        \* num_workers
    NTasks,          \* partitions of a relation that has rows
    Backlogs,        \* values of JUDE_RAY_MAX_TASK_BACKLOG, 0 for no limit
    MaxQueryRetries, \* JUDE_RAY_MAX_QUERY_RETRIES
    MaxRestarts,     \* JUDE_ACTOR_MAX_RESTARTS
    GpusPerWorker,   \* num_gpus_per_worker
    ClusterGpus,     \* GPUs of the Ray cluster
    Kinds,           \* kinds of operation the driver runs
    MaxOps,          \* bound: operations the driver starts
    MaxCrashes       \* bound: crashes of actors

Reads == {"collect", "iter"}
Writes == {"append", "overwrite"}

ASSUME RunnerAssumption ==
    /\ NWorkers \in Nat \ {0}
    /\ NTasks \in Nat \ {0}
    /\ Backlogs \subseteq Nat
    /\ MaxQueryRetries \in Nat
    /\ MaxRestarts \in Nat
    /\ GpusPerWorker \in Nat
    /\ ClusterGpus \in Nat
    /\ Kinds \subseteq Reads \cup Writes
    /\ MaxOps \in Nat
    /\ MaxCrashes \in Nat

Workers == 1..NWorkers
Tasks == 1..NTasks

VARIABLES
    \* RayRunner
    maxTaskBacklog, \* self.max_task_backlog, fixed when the runner is made
    pool,           \* self._workers: its actors, <<>> when there is none
    \* the driver's operation
    opNo,       \* how many operations it has started
    op,         \* the kind of the last one
    nParts,     \* its partitions with rows
    attempt,    \* with_retry's attempt
    pc,         \* where it is
    outcome,    \* how it ended
    \* locals of run_bounded
    nextIdx, inflight, results,
    \* Ray
    ray,        \* what became of the tasks of the current dispatch
    pinned,     \* actors of the dropped pool the last exception keeps alive
    crashes,    \* crashes of actors so far
    \* storage
    written,    \* written[o][i]: times the i-th write task of operation o ran
    dataset,    \* fragments of the current version of the Lance dataset
    \* history of the current operation
    faults,     \* crashes since it began
    appError    \* one of its tasks raised an error of its own

operation == <<maxTaskBacklog, opNo, op, nParts>>
locals == <<nextIdx, inflight, results>>
history == <<faults, appError>>
vars == <<pool, operation, attempt, pc, outcome, locals,
          ray, pinned, crashes, written, dataset, history>>

None == <<>>
NoPool == <<>>

\* The fragment that the dataset holds from the start, and those of operation o.
Base == <<0, 0>>
Fragments(o) == {<<o, i>> : i \in Tasks}

\* A task as an actor sees it.
TaskIds == [op : 1..MaxOps, kind : Reads \cup Writes,
            attempt : 0..MaxQueryRetries, i : Tasks]

Task(i) == [op |-> opNo, kind |-> op, attempt |-> attempt, i |-> i]

Current(t) == t.op = opNo /\ t.attempt = attempt /\ pc = "dispatch"

NewActor == [state |-> "pending", restarts |-> 0, queue |-> <<>>, busy |-> FALSE]

\* make_workers.
NewPool == [w \in Workers |-> NewActor]

\* WorkerManager.worker_for: round-robin.
WorkerFor(i) == ((i - 1) % NWorkers) + 1

\* WorkerManager.dispatch_window: 0 stands for no window.
DispatchWindow(n) ==
    IF maxTaskBacklog = 0 \/ maxTaskBacklog >= n THEN 0 ELSE maxTaskBacklog

Window == DispatchWindow(nParts)

\* Actors of the pool that are not dead hold their GPUs, and so do those of
\* the dropped pool that are still referenced.
LiveActors == IF pool = NoPool THEN {}
              ELSE {w \in Workers : pool[w].state # "dead"}

GpusHeld ==
    LET placed == IF pool = NoPool THEN {}
                  ELSE {w \in Workers : pool[w].state \in {"up", "restarting"}}
    IN  GpusPerWorker * (Cardinality(placed) + pinned)

Init ==
    /\ maxTaskBacklog \in Backlogs
    /\ pool = NoPool
    /\ opNo = 0 /\ op = "iter" /\ nParts = 0
    /\ attempt = 0 /\ pc = "idle" /\ outcome = "none"
    /\ nextIdx = 0 /\ inflight = {} /\ results = [i \in Tasks |-> None]
    /\ ray = [i \in Tasks |-> "absent"]
    /\ pinned = 0 /\ crashes = 0
    /\ written = [o \in 1..MaxOps |-> [i \in Tasks |-> 0]]
    /\ dataset = {Base}
    /\ faults = 0 /\ appError = FALSE

\* Plausible defects of the definitions below, for mutation runs.
SamePool == pool
QueueResubmitted(q) == q
NothingInFlight == inflight = {}
NextFreeSlot(i) == Cardinality({j \in Tasks : results[j] # None}) + 1
WaitsForOneMore == inflight = {} /\ nextIdx > nParts

\* with_retry goes round again; everything but collect runs outside it.
RetriesLeft == op = "collect" /\ attempt < MaxQueryRetries

\* What a failed attempt leaves of the pool for the next one.
PoolAfterFailure == NoPool

\* The tasks an actor still has to run after a crash: none, for Ray was told
\* not to run them again (max_task_retries = 0).
Surviving(q) == <<>>

\* run_bounded submits as long as its window has room, or all at once.
CanSubmit ==
    nextIdx < nParts /\ (Window = 0 \/ Cardinality(inflight) < Window)

\* The wait loop of run_bounded is over.
DispatchEnded == inflight = {} /\ nextIdx = nParts

Slot(i) == i

\* Ray fails a task submitted to this actor at once.
Refuses(a) == a.state = "dead"

\* The operation ends, and the last exception is let go with what it references.
EndOp(how) ==
    /\ pc' = "idle"
    /\ outcome' = how
    /\ pinned' = 0

\* An exception leaves the attempt. with_retry keeps it in last_exc, drops the
\* pool and goes round again, or raises it; no other operation handles it. The
\* traceback references every frame of the attempt and so its actors.
Failed ==
    IF RetriesLeft
    THEN /\ attempt' = attempt + 1
         /\ pool' = PoolAfterFailure
         /\ pinned' = Cardinality(LiveActors)
         /\ pc' = "ensure"
         /\ UNCHANGED outcome
    ELSE EndOp("raised") /\ UNCHANGED <<attempt, pool>>

\* The caller starts an operation on a relation with n non-empty partitions. A
\* read of no rows still dispatches the one empty partition.
Start(kind, n) ==
    /\ pc = "idle"
    /\ opNo < MaxOps
    /\ kind \in Reads => n > 0
    /\ opNo' = opNo + 1
    /\ op' = kind
    /\ nParts' = n
    /\ attempt' = 0
    /\ pc' = "ensure"
    /\ outcome' = "none"
    /\ faults' = 0
    /\ appError' = FALSE
    /\ UNCHANGED <<maxTaskBacklog, pool, locals, ray, pinned, crashes,
                   written, dataset>>

\* _ensure_workers, and the dispatch begins; a write of nothing has none.
EnsureWorkers ==
    /\ pc = "ensure"
    /\ pool' = IF pool = NoPool THEN NewPool ELSE pool
    /\ nextIdx' = 0
    /\ inflight' = {}
    /\ results' = [i \in Tasks |-> None]
    /\ ray' = [i \in Tasks |-> "absent"]
    /\ pc' = IF nParts = 0 THEN "commit" ELSE "dispatch"
    /\ UNCHANGED <<operation, attempt, outcome, pinned, crashes,
                   written, dataset, history>>

SubmitNext ==
    LET i == nextIdx + 1
        w == WorkerFor(i)
    IN  /\ pc = "dispatch"
        /\ CanSubmit
        /\ nextIdx' = i
        /\ inflight' = inflight \cup {i}
        /\ IF Refuses(pool[w])
           THEN ray' = [ray EXCEPT ![i] = "lost"] /\ UNCHANGED pool
           ELSE /\ ray' = [ray EXCEPT ![i] = "waiting"]
                /\ pool' = [pool EXCEPT ![w].queue = Append(@, Task(i))]
        /\ UNCHANGED <<operation, attempt, pc, outcome, results, pinned,
                       crashes, written, dataset, history>>

\* ray.wait and ray.get of one task that succeeded.
CollectOne(i) ==
    /\ pc = "dispatch"
    /\ Window > 0 /\ ~CanSubmit
    /\ i \in inflight
    /\ ray[i] = "ok"
    /\ inflight' = inflight \ {i}
    /\ results' = [results EXCEPT ![Slot(i)] = <<opNo, i>>]
    /\ UNCHANGED <<pool, operation, attempt, pc, outcome, nextIdx, ray, pinned,
                   crashes, written, dataset, history>>

\* Without a window: ray.get of all tasks, which succeeded.
CollectAll ==
    /\ pc = "dispatch"
    /\ Window = 0 /\ ~CanSubmit
    /\ inflight # {}
    /\ \A i \in inflight : ray[i] = "ok"
    /\ inflight' = {}
    /\ results' = [i \in Tasks |-> IF i \in inflight THEN <<opNo, i>> ELSE None]
    /\ UNCHANGED <<pool, operation, attempt, pc, outcome, nextIdx, ray, pinned,
                   crashes, written, dataset, history>>

\* ray.get raises what became of a task; the others are left to themselves.
CollectFailure(i) ==
    /\ pc = "dispatch"
    /\ ~CanSubmit
    /\ i \in inflight
    /\ ray[i] \in {"lost", "error"}
    /\ Failed
    /\ UNCHANGED <<operation, locals, ray, crashes, written, dataset, history>>

\* All results are in: a read answers, a write goes on to commit.
FinishDispatch ==
    /\ pc = "dispatch"
    /\ DispatchEnded
    /\ IF op \in Reads THEN EndOp("answered")
       ELSE pc' = "commit" /\ UNCHANGED <<outcome, pinned>>
    /\ UNCHANGED <<pool, operation, attempt, locals, ray, crashes, written,
                   dataset, history>>

\* The fragments the write commits: the results that are not None.
Gathered == {results[i] : i \in Tasks} \ {None}

\* commit_fragments, as one Append or one Overwrite. With no fragment at all
\* the code writes an empty dataset in mode "overwrite", whatever the mode.
Commit ==
    /\ pc = "commit"
    /\ dataset' = IF nParts = 0 THEN {}
                  ELSE IF op = "append" THEN dataset \cup Gathered
                  ELSE Gathered
    /\ IF nParts = 0 THEN EndOp("answered")
       ELSE pc' = "index" /\ UNCHANGED <<outcome, pinned>>
    /\ UNCHANGED <<pool, operation, attempt, locals, ray, crashes, written,
                   history>>

\* Opening the dataset or committing raises.
CommitRaises ==
    /\ pc = "commit"
    /\ EndOp("raised")
    /\ UNCHANGED <<pool, operation, attempt, locals, ray, crashes, written,
                   dataset, history>>

\* The vector index, if one was asked for, is built after the commit; building
\* it may raise.
Index ==
    /\ pc = "index"
    /\ EndOp("answered") \/ EndOp("raised")
    /\ UNCHANGED <<pool, operation, attempt, locals, ray, crashes, written,
                   dataset, history>>

Driver ==
    \/ EnsureWorkers \/ SubmitNext \/ CollectAll \/ FinishDispatch
    \/ Commit \/ CommitRaises \/ Index
    \/ \E i \in Tasks : CollectOne(i) \/ CollectFailure(i)

\* The cluster places an actor when it has the GPUs the actor asks for.
Place(w) ==
    /\ w \in LiveActors
    /\ pool[w].state = "pending"
    /\ GpusHeld + GpusPerWorker <= ClusterGpus
    /\ pool' = [pool EXCEPT ![w].state = "up"]
    /\ UNCHANGED <<operation, attempt, pc, outcome, locals, ray, pinned,
                   crashes, written, dataset, history>>

\* The actor takes up its next task; a write task writes its fragment.
WorkerStarts(w) ==
    /\ w \in LiveActors
    /\ pool[w].state = "up" /\ ~pool[w].busy
    /\ pool[w].queue # <<>>
    /\ LET t == Head(pool[w].queue)
       IN  written' = IF t.kind \in Writes
                      THEN [written EXCEPT ![t.op][t.i] = @ + 1] ELSE written
    /\ pool' = [pool EXCEPT ![w].busy = TRUE]
    /\ UNCHANGED <<operation, attempt, pc, outcome, locals, ray, pinned,
                   crashes, dataset, history>>

\* The task returns, or raises an error of its own, which Ray never retries.
WorkerEnds(w, end) ==
    /\ w \in LiveActors
    /\ pool[w].busy
    /\ LET t == Head(pool[w].queue)
       IN  /\ ray' = IF Current(t) THEN [ray EXCEPT ![t.i] = end] ELSE ray
           /\ appError' = (appError \/ (Current(t) /\ end = "error"))
    /\ pool' = [pool EXCEPT ![w].queue = Tail(@), ![w].busy = FALSE]
    /\ UNCHANGED <<operation, attempt, pc, outcome, locals, pinned,
                   crashes, written, dataset, faults>>

\* The process or the node of an actor dies.
Crash(w) ==
    /\ w \in LiveActors
    /\ pool[w].state = "up"
    /\ crashes < MaxCrashes
    /\ crashes' = crashes + 1
    /\ faults' = faults + 1
    /\ LET again == pool[w].restarts < MaxRestarts
           queue == pool[w].queue
           lost == ToSet(queue) \ ToSet(Surviving(queue))
       IN  /\ pool' = [pool EXCEPT ![w] =
                 [state |-> IF again THEN "restarting" ELSE "dead",
                  restarts |-> IF again THEN @.restarts + 1 ELSE @.restarts,
                  queue |-> Surviving(queue), busy |-> FALSE]]
           /\ ray' = [i \in Tasks |-> IF \E t \in lost : Current(t) /\ t.i = i
                                      THEN "lost" ELSE ray[i]]
    /\ UNCHANGED <<operation, attempt, pc, outcome, locals, pinned,
                   written, dataset, appError>>

Restart(w) ==
    /\ w \in LiveActors
    /\ pool[w].state = "restarting"
    /\ pool' = [pool EXCEPT ![w].state = "up"]
    /\ UNCHANGED <<operation, attempt, pc, outcome, locals, ray, pinned,
                   crashes, written, dataset, history>>

Actor(w) ==
    \/ Place(w) \/ WorkerStarts(w) \/ Restart(w)
    \/ WorkerEnds(w, "ok") \/ WorkerEnds(w, "error")

Next ==
    \/ \E kind \in Kinds, n \in {0, NTasks} : Start(kind, n)
    \/ Driver
    \/ \E w \in Workers : Actor(w) \/ Crash(w)

Spec == Init /\ [][Next]_vars

\* The driver's thread is scheduled; an actor is placed when it can be, comes
\* back, and ends the task it runs. Nobody has to start an operation.
Fairness == WF_vars(Driver) /\ \A w \in Workers : WF_vars(Actor(w))

FairSpec == Spec /\ Fairness
------------------------------------------------------------------------------
Actors == [state : {"pending", "up", "restarting", "dead"},
           restarts : 0..MaxRestarts, queue : Seq(TaskIds), busy : BOOLEAN]

TypeOK ==
    /\ maxTaskBacklog \in Backlogs
    /\ pool = NoPool \/ pool \in [Workers -> Actors]
    /\ opNo \in 0..MaxOps
    /\ op \in Reads \cup Writes
    /\ nParts \in {0, NTasks}
    /\ attempt \in 0..MaxQueryRetries
    /\ pc \in {"idle", "ensure", "dispatch", "commit", "index"}
    /\ outcome \in {"none", "answered", "raised"}
    /\ nextIdx \in 0..NTasks
    /\ inflight \in SUBSET Tasks
    /\ results \in [Tasks -> {None} \cup ((1..MaxOps) \X Tasks)]
    /\ ray \in [Tasks -> {"absent", "waiting", "ok", "lost", "error"}]
    /\ pinned \in 0..NWorkers
    /\ crashes \in 0..MaxCrashes
    /\ written \in [1..MaxOps -> [Tasks -> Nat]]
    /\ dataset \subseteq {Base} \cup ((1..MaxOps) \X Tasks)
    /\ faults \in 0..MaxCrashes
    /\ appError \in BOOLEAN

\* "on a worker fault the whole distributed read re-executes" (README.md:100):
\* a collect whose tasks raised no error of their own fails only when an actor
\* crashed during each of its retries. The first attempt may fail without a
\* crash, since the last operation may have left it a pool with a dead actor;
\* the retries, each on a new pool, may not.
ReadSurvivesCrashes ==
    (outcome = "raised" /\ op = "collect" /\ ~appError)
        => faults >= MaxQueryRetries

\* "Results are returned in submission order" (run_bounded), windowed or not,
\* on whichever attempt: an answer holds every partition's result in its place.
AnswerIsComplete ==
    (outcome = "answered" /\ op \in Reads)
        => \A i \in 1..nParts : results[i] = <<opNo, i>>

\* Writes are not idempotent and not retried (make_workers, __init__): however
\* actors crash, restart and serve tasks abandoned by failed operations, no
\* write task runs twice, and a fragment in the dataset comes from the one run.
WriteTasksRunOnce ==
    /\ \A o \in 1..MaxOps, i \in Tasks : written[o][i] <= 1
    /\ \A f \in dataset \ {Base} : written[f[1]][f[2]] = 1

\* "commits the fragment set as one operation" (distributed_write_lance): at
\* every moment the dataset holds all partitions of the current write or none,
\* and all of them when the write has answered.
WritesAreAtomic ==
    LET whole == {<<opNo, i>> : i \in 1..nParts}
    IN  /\ Fragments(opNo) \cap dataset \in {{}, whole}
        /\ outcome = "answered" /\ op \in Writes => whole \subseteq dataset

\* An operation that was started answers or raises, however many of the
\* actors it depends on die.
EveryOperationEnds == (pc # "idle") ~> (pc = "idle")

\* A distributed append commits "(Append / Overwrite)" by its mode
\* (distributed_write_lance): it adds rows and never removes any. No run checks
\* it: the code breaks it, appending a relation without rows (Commit).
AppendKeepsRows == [][op' = "append" => dataset \subseteq dataset']_vars
=============================================================================
