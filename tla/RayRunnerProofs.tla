--------------------------- MODULE RayRunnerProofs ---------------------------
(***************************************************************************)
(* Theorems about RayRunner, for any number of actors, partitions, retries, *)
(* restarts, crashes and operations: writes run once and commit whole,      *)
(* answers are complete, and retried reads outlast crashes.                 *)
(***************************************************************************)
EXTENDS RayRunner, FiniteSetTheorems, TLAPS

\* Where a driver can be, and that it has an actor to talk to while it dispatches.
DriverSound ==
    /\ faults <= crashes
    /\ pc # "idle" => opNo >= 1 /\ outcome = "none"
    /\ pc = "ensure" /\ op \in Reads => nParts # 0
    /\ pc = "dispatch" => pool # NoPool /\ nParts = NTasks
    /\ pc \in {"commit", "index"} => op \in Writes

\* An actor is busy with the task at the head of its queue.
ActorsSound ==
    pool # NoPool => \A w \in Workers :
        pool[w].busy => pool[w].state = "up" /\ pool[w].queue # <<>>

\* A queued task belongs to an operation that began to dispatch. One that writes
\* has run only if the actor is at it, is queued at the actor of its index, and
\* is queued once.
QueueSound(w) ==
    LET queue == pool[w].queue
    IN  \A p \in 1..Len(queue) :
            /\ queue[p].op <= opNo
            /\ queue[p].op = opNo => /\ pc # "ensure"
                                     /\ queue[p].kind = op
                                     /\ pc = "dispatch" /\ op \in Writes =>
                                            queue[p].i <= nextIdx
            /\ queue[p].kind \in Writes =>
                  /\ WorkerFor(queue[p].i) = w
                  /\ written[queue[p].op][queue[p].i] =
                        IF p = 1 /\ pool[w].busy THEN 1 ELSE 0
                  /\ \A q \in 1..Len(queue) :
                        (queue[q].kind \in Writes /\ queue[q].op = queue[p].op
                            /\ queue[q].i = queue[p].i) => q = p
QueuesSound == pool # NoPool => \A w \in Workers : QueueSound(w)

\* What run_bounded has of its tasks: those not in flight are in their places.
DispatchSound ==
    pc = "dispatch" =>
        /\ nextIdx <= nParts
        /\ inflight \subseteq 1..nextIdx
        /\ \A i \in Tasks : results[i] = IF i <= nextIdx /\ i \notin inflight
                                         THEN <<opNo, i>> ELSE None
        /\ Window = 0 => inflight = 1..nextIdx \/ (inflight = {} /\ nextIdx = nParts)
        /\ \A i \in Tasks : ray[i] = "error" => appError

\* How often the write tasks of the current and of later operations have run.
WritesSound ==
    /\ \A o \in 1..MaxOps, i \in Tasks : written[o][i] <= 1
    /\ \A o \in 1..MaxOps, i \in Tasks : o > opNo => written[o][i] = 0
    /\ op \in Writes /\ pc = "ensure" => \A i \in Tasks : written[opNo][i] = 0
    /\ op \in Writes /\ pc = "dispatch" => \A i \in Tasks :
          /\ i > nextIdx => written[opNo][i] = 0
          /\ ray[i] = "ok" => written[opNo][i] = 1
          /\ i <= nextIdx /\ i \notin inflight => written[opNo][i] = 1
    /\ pc = "commit" /\ nParts # 0 => \A i \in Tasks :
          results[i] = <<opNo, i>> /\ written[opNo][i] = 1

\* The dataset has nothing of an operation before its commit.
DatasetSound ==
    /\ \A o \in 1..MaxOps, i \in Tasks : <<o, i>> \in dataset => written[o][i] = 1
    /\ \A o \in 1..MaxOps, i \in Tasks : <<o, i>> \in dataset =>
          /\ o <= opNo
          /\ pc \in {"ensure", "dispatch", "commit"} => o # opNo
    /\ pc = "index" => \A i \in 1..nParts : <<opNo, i>> \in dataset

\* Each retry of a collect that no task's own error failed cost a crash, but for
\* the first: it may have had a pool with dead actors.
RetriesSound ==
    op = "collect" /\ ~appError /\ pc # "idle" =>
        /\ faults >= attempt - 1
        /\ attempt >= 1 /\ pc = "ensure" => pool = NoPool
        /\ attempt >= 1 /\ pc = "dispatch" =>
              /\ \A w \in Workers : pool[w].state = "dead" => faults >= attempt
              /\ \A i \in Tasks : ray[i] = "lost" => faults >= attempt

Promises == ReadSurvivesCrashes /\ AnswerIsComplete /\ WriteTasksRunOnce /\ WritesAreAtomic

IInv == /\ TypeOK /\ DriverSound /\ ActorsSound /\ QueuesSound /\ DispatchSound
        /\ WritesSound /\ DatasetSound /\ RetriesSound /\ Promises

-----------------------------------------------------------------------------
\* A pool is not empty: there is a worker.
LEMMA PoolFacts ==
    /\ 1 \in Workers
    /\ \A f \in [Workers -> Actors] : f # NoPool
    /\ NewPool \in [Workers -> Actors]
    /\ NewPool # NoPool
  <1>1. 1 \in Workers
    BY RunnerAssumption DEF Workers
  <1>2. \A S : \A f \in [Workers -> S] : f # NoPool
    <2>1. DOMAIN NoPool = {}
      BY DEF NoPool
    <2> QED BY <1>1, <2>1
  <1>3. NewActor \in Actors
    BY RunnerAssumption DEF NewActor, Actors
  <1>4. NewPool \in [Workers -> Actors]
    BY <1>3 DEF NewPool
  <1> QED BY <1>1, <1>2, <1>4

\* The initial states.
LEMMA InitIInv == Init => IInv
  <1> SUFFICES ASSUME Init PROVE IInv
    OBVIOUS
  <1>1. TypeOK
    <2>1. /\ results \in [Tasks -> {None} \cup ((1..MaxOps) \X Tasks)]
          /\ ray \in [Tasks -> {"absent", "waiting", "ok", "lost", "error"}]
          /\ written \in [1..MaxOps -> [Tasks -> Nat]]
      BY DEF Init
    <2>2. inflight \in SUBSET Tasks /\ dataset \subseteq {Base} \cup ((1..MaxOps) \X Tasks)
      BY DEF Init
    <2>3. /\ opNo \in 0..MaxOps /\ nextIdx \in 0..NTasks /\ attempt \in 0..MaxQueryRetries
          /\ pinned \in 0..NWorkers /\ crashes \in 0..MaxCrashes /\ faults \in 0..MaxCrashes
          /\ nParts \in {0, NTasks}
      BY RunnerAssumption DEF Init
    <2> QED BY <2>1, <2>2, <2>3 DEF Init, TypeOK, Reads
  <1>2. DriverSound /\ ActorsSound /\ QueuesSound /\ DispatchSound
    BY DEF Init, DriverSound, ActorsSound, QueuesSound, DispatchSound
  <1>3. WritesSound
    BY DEF Init, WritesSound, Writes
  <1>4. DatasetSound
    BY DEF Init, DatasetSound, Base, Tasks
  <1>5. RetriesSound
    BY DEF Init, RetriesSound
  <1>6. Promises
    BY DEF Init, Promises, ReadSurvivesCrashes, AnswerIsComplete, WriteTasksRunOnce,
           WritesAreAtomic, Base, Fragments, Tasks, Reads, Writes
  <1> QED BY <1>1, <1>2, <1>3, <1>4, <1>5, <1>6 DEF IInv

\* What type correctness says of an actor and its queue.
LEMMA QueueTypes ==
    ASSUME TypeOK, pool # NoPool, NEW w \in Workers
    PROVE  /\ pool \in [Workers -> Actors]
           /\ pool[w] \in Actors
           /\ pool[w].state \in {"pending", "up", "restarting", "dead"}
           /\ pool[w].restarts \in 0..MaxRestarts
           /\ pool[w].busy \in BOOLEAN
           /\ pool[w].queue \in Seq(TaskIds)
           /\ Len(pool[w].queue) \in Nat
           /\ \A p \in 1..Len(pool[w].queue) :
                 /\ pool[w].queue[p].op \in 1..MaxOps
                 /\ pool[w].queue[p].kind \in Reads \cup Writes
                 /\ pool[w].queue[p].i \in Tasks
  <1>1. pool \in [Workers -> Actors]
    BY DEF TypeOK
  <1>2. pool[w] \in Actors
    BY <1>1
  <1>3. pool[w].queue \in Seq(TaskIds)
    BY <1>2 DEF Actors
  <1>4. \A p \in 1..Len(pool[w].queue) : pool[w].queue[p] \in TaskIds
    BY <1>3
  <1>5. \A t \in TaskIds : t.op \in 1..MaxOps /\ t.kind \in Reads \cup Writes /\ t.i \in Tasks
    BY DEF TaskIds
  <1> QED BY <1>1, <1>2, <1>3, <1>4, <1>5 DEF Actors

LEMMA StartIInv ==
    ASSUME IInv, NEW kind \in Kinds, NEW n \in {0, NTasks}, Start(kind, n)
    PROVE  IInv'
  <1>0. TypeOK /\ DriverSound /\ ActorsSound /\ QueuesSound /\ DispatchSound
        /\ WritesSound /\ DatasetSound /\ RetriesSound /\ Promises
    BY DEF IInv
  <1>1. /\ pc = "idle" /\ opNo < MaxOps /\ opNo' = opNo + 1 /\ op' = kind /\ nParts' = n
        /\ attempt' = 0 /\ pc' = "ensure" /\ outcome' = "none" /\ faults' = 0
        /\ appError' = FALSE /\ kind \in Reads \cup Writes /\ opNo \in 0..MaxOps
        /\ kind \in Reads => n # 0
        /\ UNCHANGED <<maxTaskBacklog, pool, nextIdx, inflight, results, ray, pinned,
                       crashes, written, dataset>>
    BY <1>0, RunnerAssumption DEF Start, TypeOK, locals
  <1>2. TypeOK'
    <2>1. /\ opNo' \in 0..MaxOps /\ attempt' \in 0..MaxQueryRetries /\ faults' \in 0..MaxCrashes
          /\ op' \in Reads \cup Writes /\ nParts' \in {0, NTasks}
      BY <1>1, RunnerAssumption
    <2> QED BY <1>0, <1>1, <2>1 DEF TypeOK
  <1>3. DriverSound' /\ ActorsSound' /\ DispatchSound'
    BY <1>0, <1>1 DEF DriverSound, ActorsSound, DispatchSound, TypeOK
  <1>4. QueuesSound'
    <2> SUFFICES ASSUME pool # NoPool, NEW w \in Workers PROVE QueueSound(w)'
      BY <1>1 DEF QueuesSound
    <2>1. QueueSound(w)
      BY <1>0 DEF QueuesSound
    <2>2. \A p \in 1..Len(pool[w].queue) : pool[w].queue[p].op <= opNo' /\ pool[w].queue[p].op # opNo'
      BY <1>0, <1>1, <2>1, QueueTypes DEF QueueSound
    <2> QED BY <1>1, <2>1, <2>2 DEF QueueSound
  <1>5. WritesSound'
    BY <1>0, <1>1, RunnerAssumption DEF WritesSound
  <1>6. DatasetSound'
    BY <1>0, <1>1 DEF DatasetSound
  <1>7. RetriesSound'
    BY <1>0, <1>1 DEF RetriesSound
  <1>8. Promises'
    <2>1. WriteTasksRunOnce'
      BY <1>0, <1>1 DEF Promises, WriteTasksRunOnce
    <2>2. \A i \in Tasks : <<opNo + 1, i>> \notin dataset
      BY <1>0, <1>1, RunnerAssumption DEF DatasetSound
    <2>3. WritesAreAtomic'
      BY <1>1, <2>2 DEF WritesAreAtomic, Fragments
    <2> QED BY <1>1, <2>1, <2>3 DEF Promises, ReadSurvivesCrashes, AnswerIsComplete
  <1> QED BY <1>2, <1>3, <1>4, <1>5, <1>6, <1>7, <1>8 DEF IInv

LEMMA EnsureIInv ==
    ASSUME IInv, EnsureWorkers
    PROVE  IInv'
  <1>0. TypeOK /\ DriverSound /\ ActorsSound /\ QueuesSound /\ DispatchSound
        /\ WritesSound /\ DatasetSound /\ RetriesSound /\ Promises
    BY DEF IInv
  <1>1. /\ pc = "ensure" /\ pool' = (IF pool = NoPool THEN NewPool ELSE pool)
        /\ nextIdx' = 0 /\ inflight' = {} /\ results' = [i \in Tasks |-> None]
        /\ ray' = [i \in Tasks |-> "absent"]
        /\ pc' = (IF nParts = 0 THEN "commit" ELSE "dispatch")
        /\ UNCHANGED <<maxTaskBacklog, opNo, op, nParts, attempt, outcome, pinned, crashes,
                       written, dataset, faults, appError>>
    BY DEF EnsureWorkers, operation, history
  <1>2. TypeOK'
    <2>1. pool' = NoPool \/ pool' \in [Workers -> Actors]
      BY <1>0, <1>1, PoolFacts DEF TypeOK
    <2> QED BY <1>0, <1>1, <2>1, RunnerAssumption DEF TypeOK
  <1>3. DriverSound'
    <2>1. pool' # NoPool
      BY <1>1, PoolFacts
    <2>2. pc' = "dispatch" => nParts = NTasks
      BY <1>0, <1>1 DEF TypeOK
    <2>3. pc' = "commit" => op \in Writes
      BY <1>0, <1>1 DEF DriverSound, TypeOK
    <2> QED BY <1>0, <1>1, <2>1, <2>2, <2>3 DEF DriverSound
  <1>4. ActorsSound'
    BY <1>0, <1>1 DEF ActorsSound, NewPool, NewActor
  <1>5. QueuesSound'
    <2> SUFFICES ASSUME pool' # NoPool, NEW w \in Workers PROVE QueueSound(w)'
      BY DEF QueuesSound
    <2>1. CASE pool = NoPool
      <3>1. pool'[w].queue = <<>>
        BY <1>1, <2>1 DEF NewPool, NewActor
      <3> QED BY <3>1 DEF QueueSound
    <2>2. CASE pool # NoPool
      <3>1. QueueSound(w) /\ pool' = pool
        BY <1>0, <1>1, <2>2 DEF QueuesSound
      <3> QED BY <1>1, <3>1 DEF QueueSound
    <2> QED BY <2>1, <2>2
  <1>6. DispatchSound'
    <2>1. pc' = "dispatch" => nParts = NTasks /\ nParts >= 0
      BY <1>0, <1>1, RunnerAssumption DEF TypeOK
    <2>2. \A i \in Tasks : results'[i] = None /\ ray'[i] = "absent" /\ ~(i <= 0)
      BY <1>1 DEF Tasks
    <2>3. inflight' = 1..nextIdx'
      BY <1>1
    <2> QED BY <1>1, <2>1, <2>2, <2>3 DEF DispatchSound
  <1>7. WritesSound'
    <2>1. \A i \in Tasks : ray'[i] # "ok" /\ ~(i <= nextIdx')
      BY <1>1 DEF Tasks
    <2>2. pc' = "commit" => nParts' = 0
      BY <1>1
    <2> QED BY <1>0, <1>1, <2>1, <2>2 DEF WritesSound
  <1>8. DatasetSound'
    BY <1>0, <1>1 DEF DatasetSound
  <1>9. RetriesSound'
    <2>1. \A i \in Tasks : ray'[i] # "lost"
      BY <1>1
    <2>2. attempt >= 1 /\ op = "collect" /\ ~appError => pool' = NewPool
      BY <1>0, <1>1 DEF RetriesSound
    <2>3. \A w \in Workers : NewPool[w].state # "dead"
      BY DEF NewPool, NewActor
    <2> QED BY <1>0, <1>1, <2>1, <2>2, <2>3 DEF RetriesSound
  <1>10. Promises'
    <2>1. ReadSurvivesCrashes' /\ AnswerIsComplete'
      BY <1>0, <1>1 DEF DriverSound, ReadSurvivesCrashes, AnswerIsComplete
    <2> QED BY <1>0, <1>1, <2>1 DEF Promises, WriteTasksRunOnce, WritesAreAtomic, Fragments
  <1> QED BY <1>2, <1>3, <1>4, <1>5, <1>6, <1>7, <1>8, <1>9, <1>10 DEF IInv

\* The queues keep what is said of them while the driver goes on.
LEMMA QueuesKept ==
    ASSUME QueuesSound, ActorsSound, UNCHANGED <<pool, opNo, op, nextIdx, written>>,
           pc' # "ensure", pc' = "dispatch" => pc = "dispatch"
    PROVE  QueuesSound' /\ ActorsSound'
  <1>1. ActorsSound'
    BY DEF ActorsSound
  <1>2. QueuesSound'
    <2> SUFFICES ASSUME pool # NoPool, NEW w \in Workers PROVE QueueSound(w)'
      BY DEF QueuesSound
    <2>1. QueueSound(w)
      BY DEF QueuesSound
    <2> QED BY <2>1 DEF QueueSound
  <1> QED BY <1>1, <1>2

\* An operation may end when its outcome is justified.
LEMMA EndIInv ==
    ASSUME IInv, NEW how \in {"answered", "raised"}, EndOp(how),
           UNCHANGED <<pool, operation, attempt, locals, ray, crashes, written, dataset, history>>,
           how = "answered" /\ op \in Reads => \A i \in 1..nParts : results[i] = <<opNo, i>>,
           how = "answered" /\ op \in Writes => \A i \in 1..nParts : <<opNo, i>> \in dataset,
           how = "raised" /\ op = "collect" /\ ~appError => faults >= MaxQueryRetries
    PROVE  IInv'
  <1>0. TypeOK /\ DriverSound /\ ActorsSound /\ QueuesSound /\ DispatchSound
        /\ WritesSound /\ DatasetSound /\ RetriesSound /\ Promises
    BY DEF IInv
  <1>1. /\ pc' = "idle" /\ outcome' = how /\ pinned' = 0
        /\ UNCHANGED <<maxTaskBacklog, pool, opNo, op, nParts, attempt, nextIdx, inflight,
                       results, ray, crashes, written, dataset, faults, appError>>
    BY DEF EndOp, operation, locals, history
  <1>2. TypeOK'
    <2>1. pinned' \in 0..NWorkers
      BY <1>1, RunnerAssumption
    <2> QED BY <1>0, <1>1, <2>1 DEF TypeOK
  <1>3. DriverSound' /\ DispatchSound' /\ RetriesSound'
    BY <1>0, <1>1 DEF DriverSound, DispatchSound, RetriesSound
  <1>4. QueuesSound' /\ ActorsSound'
    BY <1>0, <1>1, QueuesKept
  <1>5. WritesSound' /\ DatasetSound'
    BY <1>0, <1>1 DEF WritesSound, DatasetSound
  <1>6. Promises'
    <2>1. WriteTasksRunOnce'
      BY <1>0, <1>1 DEF Promises, WriteTasksRunOnce
    <2>2. WritesAreAtomic'
      BY <1>0, <1>1 DEF Promises, WritesAreAtomic, Fragments
    <2>3. ReadSurvivesCrashes' /\ AnswerIsComplete'
      BY <1>1 DEF ReadSurvivesCrashes, AnswerIsComplete
    <2> QED BY <2>1, <2>2, <2>3 DEF Promises
  <1> QED BY <1>2, <1>3, <1>4, <1>5, <1>6 DEF IInv

LEMMA CollectOneIInv ==
    ASSUME IInv, NEW i \in Tasks, CollectOne(i)
    PROVE  IInv'
  <1>0. TypeOK /\ DriverSound /\ ActorsSound /\ QueuesSound /\ DispatchSound
        /\ WritesSound /\ DatasetSound /\ RetriesSound /\ Promises
    BY DEF IInv
  <1>1. /\ pc = "dispatch" /\ Window > 0 /\ i \in inflight /\ ray[i] = "ok"
        /\ inflight' = inflight \ {i}
        /\ results' = [results EXCEPT ![i] = <<opNo, i>>]
        /\ UNCHANGED <<maxTaskBacklog, pool, opNo, op, nParts, attempt, pc, outcome, nextIdx,
                       ray, pinned, crashes, written, dataset, faults, appError>>
    BY DEF CollectOne, operation, history, Slot
  <1>2. opNo \in 1..MaxOps /\ outcome = "none" /\ nParts = NTasks
    BY <1>0, <1>1 DEF DriverSound, TypeOK
  <1>3. TypeOK'
    <2>1. inflight' \in SUBSET Tasks
      BY <1>0, <1>1 DEF TypeOK
    <2>2. results' \in [Tasks -> {None} \cup ((1..MaxOps) \X Tasks)]
      BY <1>0, <1>1, <1>2 DEF TypeOK
    <2> QED BY <1>0, <1>1, <2>1, <2>2 DEF TypeOK
  <1>4. DriverSound'
    BY <1>0, <1>1 DEF DriverSound
  <1>5. QueuesSound' /\ ActorsSound'
    BY <1>0, <1>1, QueuesKept
  <1>6. DispatchSound'
    <2>1. inflight' \subseteq 1..nextIdx
      BY <1>0, <1>1 DEF DispatchSound
    <2>2. \A j \in Tasks : results'[j] = IF j <= nextIdx /\ j \notin inflight'
                                        THEN <<opNo, j>> ELSE None
      <3>1. i <= nextIdx /\ i \notin inflight' /\ results'[i] = <<opNo, i>>
        BY <1>0, <1>1 DEF DispatchSound, TypeOK
      <3>2. \A j \in Tasks \ {i} : /\ results'[j] = results[j]
                                   /\ j \in inflight' <=> j \in inflight
        BY <1>0, <1>1 DEF TypeOK
      <3> QED BY <1>0, <1>1, <3>1, <3>2 DEF DispatchSound
    <2>3. Window' = Window /\ ~(Window = 0)
      BY <1>0, <1>1 DEF Window, DispatchWindow, TypeOK
    <2> QED BY <1>0, <1>1, <2>1, <2>2, <2>3 DEF DispatchSound
  <1>7. WritesSound'
    <2>1. op \in Writes => \A j \in Tasks :
              j <= nextIdx /\ j \notin inflight' => written[opNo][j] = 1
      BY <1>0, <1>1 DEF WritesSound
    <2>2. pc # "commit"
      BY <1>1
    <2> QED BY <1>0, <1>1, <2>1, <2>2 DEF WritesSound
  <1>8. DatasetSound' /\ RetriesSound'
    BY <1>0, <1>1 DEF DatasetSound, RetriesSound
  <1>9. Promises'
    <2>1. WriteTasksRunOnce'
      BY <1>0, <1>1 DEF Promises, WriteTasksRunOnce
    <2>2. WritesAreAtomic'
      BY <1>0, <1>1 DEF Promises, WritesAreAtomic, Fragments
    <2>3. ReadSurvivesCrashes' /\ AnswerIsComplete'
      BY <1>1, <1>2 DEF ReadSurvivesCrashes, AnswerIsComplete
    <2> QED BY <2>1, <2>2, <2>3 DEF Promises
  <1> QED BY <1>3, <1>4, <1>5, <1>6, <1>7, <1>8, <1>9 DEF IInv

LEMMA CollectAllIInv ==
    ASSUME IInv, CollectAll
    PROVE  IInv'
  <1>0. TypeOK /\ DriverSound /\ ActorsSound /\ QueuesSound /\ DispatchSound
        /\ WritesSound /\ DatasetSound /\ RetriesSound /\ Promises
    BY DEF IInv
  <1>1. /\ pc = "dispatch" /\ Window = 0 /\ ~CanSubmit /\ inflight # {}
        /\ \A i \in inflight : ray[i] = "ok"
        /\ inflight' = {}
        /\ results' = [i \in Tasks |-> IF i \in inflight THEN <<opNo, i>> ELSE None]
        /\ UNCHANGED <<maxTaskBacklog, pool, opNo, op, nParts, attempt, pc, outcome, nextIdx,
                       ray, pinned, crashes, written, dataset, faults, appError>>
    BY DEF CollectAll, operation, history
  <1>2. opNo \in 1..MaxOps /\ outcome = "none" /\ nParts = NTasks
    BY <1>0, <1>1 DEF DriverSound, TypeOK
  <1>3. nextIdx = nParts /\ inflight = 1..nextIdx
    BY <1>0, <1>1, <1>2, RunnerAssumption DEF CanSubmit, DispatchSound, TypeOK
  <1>4. TypeOK'
    <2>1. inflight' \in SUBSET Tasks
      BY <1>1
    <2>2. results' \in [Tasks -> {None} \cup ((1..MaxOps) \X Tasks)]
      BY <1>1, <1>2
    <2> QED BY <1>0, <1>1, <2>1, <2>2 DEF TypeOK
  <1>5. DriverSound'
    BY <1>0, <1>1 DEF DriverSound
  <1>6. QueuesSound' /\ ActorsSound'
    BY <1>0, <1>1, QueuesKept
  <1>7. DispatchSound'
    <2>1. \A j \in Tasks : results'[j] = IF j <= nextIdx /\ j \notin inflight'
                                        THEN <<opNo, j>> ELSE None
      BY <1>1, <1>2, <1>3, RunnerAssumption DEF Tasks
    <2> QED BY <1>0, <1>1, <1>3, <2>1 DEF DispatchSound
  <1>8. WritesSound'
    <2>1. \A i \in Tasks : i <= nextIdx => i \in inflight
      BY <1>2, <1>3, RunnerAssumption DEF Tasks
    <2> QED BY <1>0, <1>1, <2>1 DEF WritesSound
  <1>9. DatasetSound' /\ RetriesSound'
    BY <1>0, <1>1 DEF DatasetSound, RetriesSound
  <1>10. Promises'
    <2>1. WriteTasksRunOnce'
      BY <1>0, <1>1 DEF Promises, WriteTasksRunOnce
    <2>2. WritesAreAtomic'
      BY <1>0, <1>1 DEF Promises, WritesAreAtomic, Fragments
    <2>3. ReadSurvivesCrashes' /\ AnswerIsComplete'
      BY <1>1, <1>2 DEF ReadSurvivesCrashes, AnswerIsComplete
    <2> QED BY <2>1, <2>2, <2>3 DEF Promises
  <1> QED BY <1>4, <1>5, <1>6, <1>7, <1>8, <1>9, <1>10 DEF IInv

\* An attempt failed: it is retried on a new pool, or the operation raises.
LEMMA CollectFailureIInv ==
    ASSUME IInv, NEW i \in Tasks, CollectFailure(i)
    PROVE  IInv'
  <1>0. TypeOK /\ DriverSound /\ ActorsSound /\ QueuesSound /\ DispatchSound
        /\ WritesSound /\ DatasetSound /\ RetriesSound /\ Promises
    BY DEF IInv
  <1>1. /\ pc = "dispatch" /\ ray[i] \in {"lost", "error"} /\ Failed
        /\ UNCHANGED <<maxTaskBacklog, opNo, op, nParts, nextIdx, inflight, results,
                       ray, crashes, written, dataset, faults, appError>>
    BY DEF CollectFailure, operation, history, locals
  <1>2. op = "collect" /\ ~appError => faults >= attempt
    <2> SUFFICES ASSUME op = "collect", ~appError PROVE faults >= attempt
      OBVIOUS
    <2>1. ray[i] = "lost"
      BY <1>0, <1>1 DEF DispatchSound
    <2>2. CASE attempt >= 1
      BY <1>0, <1>1, <2>1, <2>2 DEF RetriesSound
    <2>3. CASE attempt = 0
      BY <1>0, <2>3 DEF TypeOK
    <2> QED BY <1>0, <2>2, <2>3, RunnerAssumption DEF TypeOK
  <1>3. CASE ~RetriesLeft
    <2>1. EndOp("raised") /\ UNCHANGED <<attempt, pool>>
      BY <1>1, <1>3 DEF Failed
    <2>2. op = "collect" /\ ~appError => faults >= MaxQueryRetries
      BY <1>0, <1>2, <1>3, RunnerAssumption DEF RetriesLeft, TypeOK
    <2> QED BY <1>1, <2>1, <2>2, EndIInv DEF operation, locals, history
  <1>4. CASE RetriesLeft
    <2>1. /\ op = "collect" /\ attempt < MaxQueryRetries /\ attempt' = attempt + 1
          /\ pool' = NoPool /\ pinned' = Cardinality(LiveActors) /\ pc' = "ensure"
          /\ outcome' = outcome
      BY <1>1, <1>4 DEF Failed, RetriesLeft, PoolAfterFailure
    <2>2. pinned' \in 0..NWorkers
      <3>1. LiveActors \subseteq 1..NWorkers
        BY DEF LiveActors, Workers
      <3>2. IsFiniteSet(1..NWorkers) /\ Cardinality(1..NWorkers) = NWorkers
        BY RunnerAssumption, FS_Interval
      <3>3. Cardinality(LiveActors) \in Nat /\ Cardinality(LiveActors) <= NWorkers
        BY <3>1, <3>2, FS_Subset, FS_CardinalityType
      <3> QED BY <2>1, <3>3, RunnerAssumption
    <2>3. TypeOK'
      <3>1. attempt' \in 0..MaxQueryRetries
        BY <1>0, <2>1, RunnerAssumption DEF TypeOK
      <3> QED BY <1>0, <1>1, <2>1, <2>2, <3>1 DEF TypeOK
    <2>4. DriverSound' /\ ActorsSound' /\ QueuesSound' /\ DispatchSound'
      BY <1>0, <1>1, <2>1, RunnerAssumption
         DEF DriverSound, ActorsSound, QueuesSound, DispatchSound
    <2>5. WritesSound' /\ DatasetSound'
      BY <1>0, <1>1, <2>1 DEF WritesSound, DatasetSound, Writes
    <2>6. RetriesSound'
      <3>1. ~appError => faults >= attempt' - 1
        BY <1>0, <1>2, <2>1 DEF TypeOK
      <3> QED BY <1>1, <2>1, <3>1 DEF RetriesSound
    <2>7. Promises'
      <3>1. WriteTasksRunOnce'
        BY <1>0, <1>1 DEF Promises, WriteTasksRunOnce
      <3>2. WritesAreAtomic'
        BY <1>0, <1>1, <2>1 DEF Promises, WritesAreAtomic, Fragments
      <3>3. ReadSurvivesCrashes' /\ AnswerIsComplete'
        BY <1>0, <1>1, <2>1 DEF DriverSound, ReadSurvivesCrashes, AnswerIsComplete
      <3> QED BY <3>1, <3>2, <3>3 DEF Promises
    <2> QED BY <2>3, <2>4, <2>5, <2>6, <2>7 DEF IInv
  <1> QED BY <1>3, <1>4

LEMMA FinishIInv ==
    ASSUME IInv, FinishDispatch
    PROVE  IInv'
  <1>0. TypeOK /\ DriverSound /\ ActorsSound /\ QueuesSound /\ DispatchSound
        /\ WritesSound /\ DatasetSound /\ RetriesSound /\ Promises
    BY DEF IInv
  <1>1. /\ pc = "dispatch" /\ inflight = {} /\ nextIdx = nParts /\ nParts = NTasks
        /\ UNCHANGED <<maxTaskBacklog, pool, opNo, op, nParts, attempt, nextIdx, inflight,
                       results, ray, crashes, written, dataset, faults, appError>>
    BY <1>0 DEF FinishDispatch, DispatchEnded, operation, history, locals, DriverSound
  <1>2. \A i \in Tasks : i <= nextIdx /\ i \notin inflight
    BY <1>1, RunnerAssumption DEF Tasks
  <1>3. \A i \in Tasks : results[i] = <<opNo, i>>
    BY <1>0, <1>1, <1>2 DEF DispatchSound
  <1>4. CASE op \in Reads
    <2>1. EndOp("answered")
      BY <1>4 DEF FinishDispatch
    <2>2. op \notin Writes
      BY <1>4 DEF Reads, Writes
    <2> QED BY <1>1, <1>3, <2>1, <2>2, EndIInv DEF operation, locals, history, Tasks
  <1>5. CASE op \notin Reads
    <2>1. pc' = "commit" /\ outcome' = outcome /\ pinned' = pinned /\ op \in Writes
      BY <1>0, <1>5 DEF FinishDispatch, TypeOK
    <2>2. TypeOK'
      BY <1>0, <1>1, <2>1 DEF TypeOK
    <2>3. DriverSound' /\ DispatchSound' /\ RetriesSound'
      BY <1>0, <1>1, <2>1 DEF DriverSound, DispatchSound, RetriesSound, Writes
    <2>4. QueuesSound' /\ ActorsSound'
      BY <1>0, <1>1, <2>1, QueuesKept
    <2>5. WritesSound'
      <3>1. \A i \in Tasks : written[opNo][i] = 1
        BY <1>0, <1>1, <1>2, <2>1 DEF WritesSound
      <3> QED BY <1>0, <1>1, <1>3, <2>1, <3>1 DEF WritesSound
    <2>6. DatasetSound'
      BY <1>0, <1>1, <2>1 DEF DatasetSound
    <2>7. Promises'
      <3>1. WriteTasksRunOnce'
        BY <1>0, <1>1 DEF Promises, WriteTasksRunOnce
      <3>2. WritesAreAtomic'
        BY <1>0, <1>1, <2>1 DEF Promises, WritesAreAtomic, Fragments
      <3>3. ReadSurvivesCrashes' /\ AnswerIsComplete'
        BY <1>0, <1>1, <2>1 DEF DriverSound, ReadSurvivesCrashes, AnswerIsComplete
      <3> QED BY <3>1, <3>2, <3>3 DEF Promises
    <2> QED BY <2>2, <2>3, <2>4, <2>5, <2>6, <2>7 DEF IInv
  <1> QED BY <1>4, <1>5

LEMMA CommitIInv ==
    ASSUME IInv, Commit
    PROVE  IInv'
  <1>0. TypeOK /\ DriverSound /\ ActorsSound /\ QueuesSound /\ DispatchSound
        /\ WritesSound /\ DatasetSound /\ RetriesSound /\ Promises
    BY DEF IInv
  <1>1. /\ pc = "commit" /\ op \in Writes /\ op \notin Reads /\ op # "collect"
        /\ UNCHANGED <<maxTaskBacklog, pool, opNo, op, nParts, attempt, nextIdx, inflight,
                       results, ray, crashes, written, faults, appError>>
    BY <1>0 DEF Commit, operation, history, locals, DriverSound, Writes, Reads
  <1>2. opNo \in 1..MaxOps /\ nParts \in {0, NTasks}
    BY <1>0, <1>1 DEF DriverSound, TypeOK
  <1>3. /\ pc' \in {"idle", "index"} /\ outcome' \in {outcome, "answered"} /\ pinned' \in {0, pinned}
        /\ pc' = "index" => outcome' = outcome /\ nParts # 0
    BY DEF Commit, EndOp
  <1>4. /\ nParts = 0 => dataset' = {}
        /\ nParts # 0 => /\ dataset' \in {Gathered, dataset \cup Gathered}
                         /\ Gathered = {<<opNo, i>> : i \in Tasks}
                         /\ \A i \in Tasks : written[opNo][i] = 1
    <2>1. nParts = 0 => dataset' = {}
      BY DEF Commit
    <2>2. nParts # 0 => dataset' \in {Gathered, dataset \cup Gathered}
      BY DEF Commit
    <2>3. nParts # 0 => \A i \in Tasks : results[i] = <<opNo, i>> /\ written[opNo][i] = 1
      BY <1>0, <1>1 DEF WritesSound
    <2>4. \A i \in Tasks : <<opNo, i>> # None
      BY DEF None
    <2> QED BY <2>1, <2>2, <2>3, <2>4 DEF Gathered
  <1>5. TypeOK'
    <2>1. dataset' \subseteq {Base} \cup ((1..MaxOps) \X Tasks)
      BY <1>0, <1>2, <1>4 DEF TypeOK
    <2>2. outcome' \in {"none", "answered", "raised"} /\ pinned' \in 0..NWorkers
      BY <1>0, <1>3, RunnerAssumption DEF TypeOK
    <2> QED BY <1>0, <1>1, <1>3, <2>1, <2>2 DEF TypeOK
  <1>6. DriverSound' /\ DispatchSound' /\ RetriesSound'
    BY <1>0, <1>1, <1>3 DEF DriverSound, DispatchSound, RetriesSound
  <1>7. QueuesSound' /\ ActorsSound'
    BY <1>0, <1>1, <1>3, QueuesKept
  <1>8. WritesSound'
    BY <1>0, <1>1, <1>3 DEF WritesSound
  <1>9. \A o \in 1..MaxOps, i \in Tasks : <<o, i>> \in dataset' =>
            (<<o, i>> \in dataset /\ nParts # 0) \/ (o = opNo /\ nParts # 0)
    BY <1>4
  <1>10. DatasetSound'
    <2>1. \A o \in 1..MaxOps, i \in Tasks : <<o, i>> \in dataset' => written[o][i] = 1 /\ o <= opNo
      BY <1>0, <1>2, <1>4, <1>9 DEF DatasetSound
    <2>2. pc' = "index" => \A i \in 1..nParts : <<opNo, i>> \in dataset'
      BY <1>2, <1>3, <1>4 DEF Tasks
    <2> QED BY <1>1, <1>3, <2>1, <2>2 DEF DatasetSound
  <1>11. Promises'
    <2>1. WriteTasksRunOnce'
      <3>1. \A f \in dataset' \ {Base} : written[f[1]][f[2]] = 1
        BY <1>0, <1>2, <1>4 DEF Promises, WriteTasksRunOnce
      <3> QED BY <1>0, <1>1, <3>1 DEF Promises, WriteTasksRunOnce
    <2>2. WritesAreAtomic'
      <3>1. CASE nParts = 0
        BY <1>1, <1>4, <3>1 DEF WritesAreAtomic
      <3>2. CASE nParts # 0
        <4>1. nParts = NTasks /\ Fragments(opNo) \subseteq dataset'
          BY <1>2, <1>4, <3>2 DEF Fragments
        <4>2. Fragments(opNo) = {<<opNo, i>> : i \in 1..nParts}
          BY <4>1 DEF Fragments, Tasks
        <4> QED BY <1>1, <4>1, <4>2 DEF WritesAreAtomic, Fragments
      <3> QED BY <3>1, <3>2
    <2>3. ReadSurvivesCrashes' /\ AnswerIsComplete'
      BY <1>1 DEF ReadSurvivesCrashes, AnswerIsComplete
    <2> QED BY <2>1, <2>2, <2>3 DEF Promises
  <1> QED BY <1>5, <1>6, <1>7, <1>8, <1>10, <1>11 DEF IInv

LEMMA EndsIInv ==
    ASSUME IInv, CommitRaises \/ Index
    PROVE  IInv'
  <1>0. DriverSound /\ DatasetSound
    BY DEF IInv
  <1>1. pc \in {"commit", "index"} /\ op \in Writes /\ op \notin Reads /\ op # "collect"
    BY <1>0 DEF CommitRaises, Index, DriverSound, Writes, Reads
  <1>2. UNCHANGED <<pool, operation, attempt, locals, ray, crashes, written, dataset, history>>
    BY DEF CommitRaises, Index
  <1>3. EndOp("raised") \/ (pc = "index" /\ EndOp("answered"))
    BY DEF CommitRaises, Index
  <1>4. pc = "index" => \A i \in 1..nParts : <<opNo, i>> \in dataset
    BY <1>0 DEF DatasetSound
  <1>5. CASE EndOp("raised")
    BY <1>1, <1>2, <1>5, EndIInv
  <1>6. CASE pc = "index" /\ EndOp("answered")
    BY <1>1, <1>2, <1>4, <1>6, EndIInv
  <1> QED BY <1>3, <1>5, <1>6

-----------------------------------------------------------------------------
\* An actor that changes its state alone.
LEMMA StateChangeIInv ==
    ASSUME IInv, NEW w \in LiveActors, NEW state \in {"up", "restarting"},
           ~pool[w].busy, pool' = [pool EXCEPT ![w].state = state],
           UNCHANGED <<operation, attempt, pc, outcome, locals, ray, pinned, crashes,
                       written, dataset, history>>
    PROVE  IInv'
  <1>0. TypeOK /\ DriverSound /\ ActorsSound /\ QueuesSound /\ DispatchSound
        /\ WritesSound /\ DatasetSound /\ RetriesSound /\ Promises
    BY DEF IInv
  <1>1. UNCHANGED <<maxTaskBacklog, opNo, op, nParts, attempt, pc, outcome, nextIdx, inflight,
                    results, ray, pinned, crashes, written, dataset, faults, appError>>
    BY DEF operation, locals, history
  <1>2. pool # NoPool /\ w \in Workers /\ pool \in [Workers -> Actors]
    BY <1>0 DEF LiveActors, TypeOK
  <1>3. /\ pool' \in [Workers -> Actors]
        /\ \A v \in Workers : /\ pool'[v].queue = pool[v].queue /\ pool'[v].busy = pool[v].busy
                              /\ pool'[v].state = "dead" => pool[v].state = "dead"
                              /\ pool[v].busy => pool'[v].state = pool[v].state
    BY <1>2 DEF Actors
  <1>4. pool' # NoPool
    BY <1>3, PoolFacts
  <1>5. TypeOK'
    BY <1>0, <1>1, <1>3 DEF TypeOK
  <1>6. DriverSound' /\ ActorsSound' /\ DispatchSound'
    BY <1>0, <1>1, <1>2, <1>3, <1>4 DEF DriverSound, ActorsSound, DispatchSound, Window, DispatchWindow
  <1>7. QueuesSound'
    <2> SUFFICES ASSUME NEW v \in Workers PROVE QueueSound(v)'
      BY DEF QueuesSound
    <2>1. QueueSound(v)
      BY <1>0, <1>2 DEF QueuesSound
    <2> QED BY <1>1, <1>3, <2>1, SMTT(40) DEF QueueSound
  <1>8. WritesSound' /\ DatasetSound'
    BY <1>0, <1>1 DEF WritesSound, DatasetSound
  <1>9. RetriesSound'
    BY <1>0, <1>1, <1>2, <1>3 DEF RetriesSound
  <1>10. Promises'
    BY <1>0, <1>1 DEF Promises, ReadSurvivesCrashes, AnswerIsComplete, WriteTasksRunOnce,
                      WritesAreAtomic, Fragments
  <1> QED BY <1>5, <1>6, <1>7, <1>8, <1>9, <1>10 DEF IInv

LEMMA PlaceRestartIInv ==
    ASSUME IInv, NEW w \in Workers, Place(w) \/ Restart(w)
    PROVE  IInv'
  <1>1. w \in LiveActors /\ pool[w].state \in {"pending", "restarting"}
    BY DEF Place, Restart
  <1>2. ~pool[w].busy
    BY <1>1 DEF IInv, ActorsSound, LiveActors
  <1>3. pool' = [pool EXCEPT ![w].state = "up"]
    BY DEF Place, Restart
  <1>4. UNCHANGED <<operation, attempt, pc, outcome, locals, ray, pinned, crashes, written,
                    dataset, history>>
    BY DEF Place, Restart
  <1> QED BY <1>1, <1>2, <1>3, <1>4, StateChangeIInv

\* What counting one more run changes.
LEMMA OneMoreRun ==
    ASSUME NEW runs \in [1..MaxOps -> [Tasks -> Nat]], NEW o \in 1..MaxOps, NEW i \in Tasks
    PROVE  LET more == [runs EXCEPT ![o][i] = @ + 1]
           IN  /\ more \in [1..MaxOps -> [Tasks -> Nat]]
               /\ \A p \in 1..MaxOps, j \in Tasks :
                     more[p][j] = IF p = o /\ j = i THEN runs[o][i] + 1 ELSE runs[p][j]
  <1>1. runs[o] \in [Tasks -> Nat] /\ runs[o][i] + 1 \in Nat
    OBVIOUS
  <1> DEFINE row == [runs[o] EXCEPT ![i] = runs[o][i] + 1]
  <1>2. row \in [Tasks -> Nat] /\ \A j \in Tasks : row[j] = IF j = i THEN runs[o][i] + 1 ELSE runs[o][j]
    BY <1>1
  <1> HIDE DEF row
  <1>3. [runs EXCEPT ![o][i] = @ + 1] = [runs EXCEPT ![o] = row]
    BY DEF row
  <1> QED BY <1>2, <1>3

\* A write task at the head of a queue has not run, nothing else of its kind and
\* index is queued anywhere, and the dataset does not have its fragment.
LEMMA WorkerStartsIInv ==
    ASSUME IInv, NEW w \in Workers, WorkerStarts(w)
    PROVE  IInv'
  <1>0. TypeOK /\ DriverSound /\ ActorsSound /\ QueuesSound /\ DispatchSound
        /\ WritesSound /\ DatasetSound /\ RetriesSound /\ Promises
    BY DEF IInv
  <1>1. /\ pool # NoPool /\ pool[w].state = "up" /\ ~pool[w].busy /\ pool[w].queue # <<>>
        /\ pool' = [pool EXCEPT ![w].busy = TRUE]
        /\ UNCHANGED <<maxTaskBacklog, opNo, op, nParts, attempt, pc, outcome, nextIdx, inflight,
                       results, ray, pinned, crashes, dataset, faults, appError>>
    BY DEF WorkerStarts, LiveActors, operation, locals, history
  <1>2. /\ pool \in [Workers -> Actors] /\ pool[w].queue \in Seq(TaskIds)
        /\ Len(pool[w].queue) \in Nat /\ Len(pool[w].queue) >= 1
    BY <1>0, <1>1, QueueTypes
  <1> DEFINE t == pool[w].queue[1]
  <1>3. /\ t \in TaskIds /\ t.op \in 1..MaxOps /\ t.kind \in Reads \cup Writes /\ t.i \in Tasks
        /\ Head(pool[w].queue) = t
    BY <1>0, <1>1, <1>2, QueueTypes
  <1>4. written' = IF t.kind \in Writes THEN [written EXCEPT ![t.op][t.i] = @ + 1] ELSE written
    BY <1>3 DEF WorkerStarts
  <1>5. /\ pool' \in [Workers -> Actors]
        /\ \A v \in Workers : /\ pool'[v].queue = pool[v].queue /\ pool'[v].state = pool[v].state
                              /\ v # w => pool'[v] = pool[v]
        /\ pool'[w].busy = TRUE
    BY <1>1, <1>2 DEF Actors
  <1>6. pool' # NoPool
    BY <1>5, PoolFacts
  <1>7. QueueSound(w)
    BY <1>0, <1>1 DEF QueuesSound
  <1>8. /\ t.op <= opNo
        /\ t.op = opNo => pc # "ensure" /\ t.kind = op
        /\ t.op = opNo /\ pc = "dispatch" /\ op \in Writes => t.i <= nextIdx
        /\ t.kind \in Writes => WorkerFor(t.i) = w /\ written[t.op][t.i] = 0
    BY <1>1, <1>2, <1>7 DEF QueueSound
  <1>9. /\ written' \in [1..MaxOps -> [Tasks -> Nat]]
        /\ \A o \in 1..MaxOps, i \in Tasks :
              written'[o][i] = IF t.kind \in Writes /\ o = t.op /\ i = t.i
                               THEN 1 ELSE written[o][i]
    <2>1. written \in [1..MaxOps -> [Tasks -> Nat]]
      BY <1>0 DEF TypeOK
    <2>2. CASE t.kind \in Writes
      <3>1. written' = [written EXCEPT ![t.op][t.i] = @ + 1]
        BY <1>4, <2>2
      <3> HIDE DEF t
      <3>2. /\ written' \in [1..MaxOps -> [Tasks -> Nat]]
            /\ \A o \in 1..MaxOps, i \in Tasks :
                  written'[o][i] = IF o = t.op /\ i = t.i THEN written[t.op][t.i] + 1 ELSE written[o][i]
        BY <1>3, <2>1, <3>1, OneMoreRun
      <3> QED BY <1>8, <2>2, <3>2
    <2>3. CASE t.kind \notin Writes
      BY <1>4, <2>1, <2>3
    <2> QED BY <2>2, <2>3
  <1>10. TypeOK'
    BY <1>0, <1>1, <1>5, <1>9 DEF TypeOK
  <1>11. DriverSound' /\ ActorsSound' /\ DispatchSound'
    BY <1>0, <1>1, <1>5, <1>6 DEF DriverSound, ActorsSound, DispatchSound, Window, DispatchWindow
  <1>12. QueuesSound'
    <2> SUFFICES ASSUME NEW v \in Workers, NEW p \in 1..Len(pool[v].queue)
                 PROVE  LET queue == pool[v].queue
                        IN  /\ queue[p].op <= opNo
                            /\ queue[p].op = opNo =>
                                  /\ pc # "ensure" /\ queue[p].kind = op
                                  /\ pc = "dispatch" /\ op \in Writes => queue[p].i <= nextIdx
                            /\ queue[p].kind \in Writes =>
                                  /\ WorkerFor(queue[p].i) = v
                                  /\ written'[queue[p].op][queue[p].i] =
                                        IF p = 1 /\ pool'[v].busy THEN 1 ELSE 0
                                  /\ \A q \in 1..Len(queue) :
                                        (queue[q].kind \in Writes /\ queue[q].op = queue[p].op
                                            /\ queue[q].i = queue[p].i) => q = p
      BY <1>1, <1>5, SMTT(40) DEF QueuesSound, QueueSound
    <2>1. QueueSound(v)
      BY <1>0, <1>1 DEF QueuesSound
    <2>2. pool[v].queue[p].op \in 1..MaxOps /\ pool[v].queue[p].i \in Tasks
      BY <1>0, <1>1, QueueTypes
    <2>3. CASE v = w /\ p = 1
      BY <1>3, <1>5, <1>9, <2>1, <2>3, SMTT(40) DEF QueueSound
    <2>4. CASE v = w /\ p # 1
      <3>1. pool[v].queue[p].kind \in Writes /\ t.kind \in Writes =>
                ~(pool[v].queue[p].op = t.op /\ pool[v].queue[p].i = t.i)
        BY <1>2, <2>1, <2>4 DEF QueueSound
      <3>2. pool[v].queue[p].kind \in Writes => written'[pool[v].queue[p].op][pool[v].queue[p].i] = 0
        BY <1>9, <2>1, <2>2, <2>4, <3>1, SMTT(40) DEF QueueSound
      <3> QED BY <2>1, <2>4, <3>2 DEF QueueSound
    <2> HIDE DEF t
    <2>5. CASE v # w
      <3>1. pool[v].queue[p].kind \in Writes => WorkerFor(pool[v].queue[p].i) = v
        BY <2>1 DEF QueueSound
      <3>2. pool[v].queue[p].kind \in Writes /\ t.kind \in Writes => pool[v].queue[p].i # t.i
        BY <1>8, <2>5, <3>1
      <3>3. pool[v].queue[p].kind \in Writes =>
                written'[pool[v].queue[p].op][pool[v].queue[p].i]
                    = written[pool[v].queue[p].op][pool[v].queue[p].i]
        BY <1>9, <2>2, <3>2
      <3>4. pool'[v] = pool[v]
        BY <1>5, <2>5
      <3> QED BY <2>1, <3>3, <3>4 DEF QueueSound
    <2> QED BY <2>3, <2>4, <2>5
  <1>13. WritesSound'
    <2>1. \A o \in 1..MaxOps, i \in Tasks :
              /\ written'[o][i] <= 1
              /\ o > opNo => written'[o][i] = 0
              /\ written[o][i] = 1 => written'[o][i] = 1
      BY <1>0, <1>3, <1>8, <1>9 DEF WritesSound, TypeOK
    <2>2. opNo \in 1..MaxOps \/ pc = "idle"
      BY <1>0 DEF DriverSound, TypeOK
    <2>3. op \in Writes /\ pc = "ensure" => \A i \in Tasks : written'[opNo][i] = 0
      BY <1>0, <1>8, <1>9, <2>2 DEF WritesSound
    <2>4. op \in Writes /\ pc = "dispatch" => \A i \in Tasks :
              i > nextIdx => written'[opNo][i] = 0
      BY <1>0, <1>3, <1>8, <1>9, <2>2, SMTT(40) DEF WritesSound, TypeOK, Tasks
    <2> QED BY <1>0, <1>1, <2>1, <2>2, <2>3, <2>4 DEF WritesSound
  <1>14. DatasetSound'
    BY <1>0, <1>1, <1>9 DEF DatasetSound
  <1>15. RetriesSound'
    BY <1>0, <1>1, <1>5 DEF RetriesSound
  <1>16. Promises'
    <2>1. \A f \in dataset \ {Base} : written'[f[1]][f[2]] = 1
      BY <1>0, <1>9 DEF TypeOK, Promises, WriteTasksRunOnce
    <2>2. WriteTasksRunOnce'
      BY <1>0, <1>1, <1>13, <2>1 DEF WritesSound, WriteTasksRunOnce
    <2> QED BY <1>0, <1>1, <2>2 DEF Promises, ReadSurvivesCrashes, AnswerIsComplete,
                                    WritesAreAtomic, Fragments
  <1> QED BY <1>10, <1>11, <1>12, <1>13, <1>14, <1>15, <1>16 DEF IInv

\* A task that ends has run, and leaves the queue.
LEMMA WorkerEndsIInv ==
    ASSUME IInv, NEW w \in Workers, NEW end \in {"ok", "error"}, WorkerEnds(w, end)
    PROVE  IInv'
  <1>0. TypeOK /\ DriverSound /\ ActorsSound /\ QueuesSound /\ DispatchSound
        /\ WritesSound /\ DatasetSound /\ RetriesSound /\ Promises
    BY DEF IInv
  <1>1. /\ pool # NoPool /\ pool[w].busy
        /\ pool' = [pool EXCEPT ![w].queue = Tail(@), ![w].busy = FALSE]
        /\ UNCHANGED <<maxTaskBacklog, opNo, op, nParts, attempt, pc, outcome, nextIdx, inflight,
                       results, pinned, crashes, written, dataset, faults>>
    BY DEF WorkerEnds, LiveActors, operation, locals
  <1>2. /\ pool \in [Workers -> Actors] /\ pool[w].queue \in Seq(TaskIds)
        /\ Len(pool[w].queue) \in Nat /\ Len(pool[w].queue) >= 1
    BY <1>0, <1>1, QueueTypes DEF ActorsSound
  <1> DEFINE t == pool[w].queue[1]
  <1>3. /\ t \in TaskIds /\ t.op \in 1..MaxOps /\ t.kind \in Reads \cup Writes /\ t.i \in Tasks
        /\ Head(pool[w].queue) = t
    BY <1>0, <1>1, <1>2, QueueTypes
  <1>4. /\ ray' = IF Current(t) THEN [ray EXCEPT ![t.i] = end] ELSE ray
        /\ appError' = (appError \/ (Current(t) /\ end = "error"))
    BY <1>3 DEF WorkerEnds
  <1>5. /\ Tail(pool[w].queue) \in Seq(TaskIds)
        /\ Len(Tail(pool[w].queue)) = Len(pool[w].queue) - 1
        /\ \A p \in 1..(Len(pool[w].queue) - 1) : Tail(pool[w].queue)[p] = pool[w].queue[p + 1]
    BY <1>1, <1>2
  <1>6. /\ pool' \in [Workers -> Actors]
        /\ \A v \in Workers : /\ pool'[v].state = pool[v].state
                              /\ v # w => pool'[v] = pool[v]
        /\ pool'[w].queue = Tail(pool[w].queue) /\ pool'[w].busy = FALSE
    BY <1>1, <1>2, <1>5 DEF Actors
  <1>7. pool' # NoPool
    BY <1>6, PoolFacts
  <1>8. QueueSound(w)
    BY <1>0, <1>1 DEF QueuesSound
  <1>9. t.kind \in Writes => written[t.op][t.i] = 1
    BY <1>1, <1>2, <1>8 DEF QueueSound
  <1>10. TypeOK'
    <2>1. ray' \in [Tasks -> {"absent", "waiting", "ok", "lost", "error"}]
      BY <1>0, <1>4 DEF TypeOK
    <2>2. appError' \in BOOLEAN
      BY <1>0, <1>4 DEF TypeOK
    <2> QED BY <1>0, <1>1, <1>6, <2>1, <2>2 DEF TypeOK
  <1>11. DriverSound' /\ ActorsSound'
    BY <1>0, <1>1, <1>6, <1>7 DEF DriverSound, ActorsSound
  <1>12. DispatchSound'
    <2>1. pc = "dispatch" => \A i \in Tasks : ray'[i] = "error" => appError'
      BY <1>0, <1>3, <1>4 DEF DispatchSound, TypeOK
    <2>2. Window' = Window
      BY <1>1 DEF Window, DispatchWindow
    <2> QED BY <1>0, <1>1, <2>1, <2>2 DEF DispatchSound
  <1>13. QueuesSound'
    <2> SUFFICES ASSUME NEW v \in Workers PROVE QueueSound(v)'
      BY DEF QueuesSound
    <2>1. CASE v # w
      <3>1. QueueSound(v) /\ pool'[v] = pool[v]
        BY <1>0, <1>1, <1>6, <2>1 DEF QueuesSound
      <3>2. UNCHANGED <<opNo, op, pc, nextIdx, written>>
        BY <1>1
      <3> QED BY <3>1, <3>2 DEF QueueSound
    <2>2. CASE v = w
      <3> DEFINE queue == pool[w].queue
      <3>1. \A p \in 1..Len(pool'[w].queue) :
                pool'[w].queue[p] = queue[p + 1] /\ p + 1 \in 1..Len(queue) /\ p + 1 # 1
        BY <1>2, <1>5, <1>6
      <3>2. \A p \in 1..Len(queue) : p # 1 /\ queue[p].kind \in Writes => written[queue[p].op][queue[p].i] = 0
        BY <1>8 DEF QueueSound
      <3>3. \A p, q \in 1..Len(pool'[w].queue) : q + 1 = p + 1 => q = p
        OBVIOUS
      <3>4. ASSUME NEW p \in 1..Len(pool'[w].queue) PROVE
              /\ pool'[w].queue[p].op <= opNo
              /\ pool'[w].queue[p].op = opNo =>
                    /\ pc # "ensure" /\ pool'[w].queue[p].kind = op
                    /\ pc = "dispatch" /\ op \in Writes => pool'[w].queue[p].i <= nextIdx
              /\ pool'[w].queue[p].kind \in Writes =>
                    /\ WorkerFor(pool'[w].queue[p].i) = w
                    /\ written[pool'[w].queue[p].op][pool'[w].queue[p].i] = 0
                    /\ \A q \in 1..Len(pool'[w].queue) :
                          (pool'[w].queue[q].kind \in Writes
                              /\ pool'[w].queue[q].op = pool'[w].queue[p].op
                              /\ pool'[w].queue[q].i = pool'[w].queue[p].i) => q = p
        <4> DEFINE e == queue[p + 1]
        <4>1. pool'[w].queue[p] = e /\ p + 1 \in 1..Len(queue) /\ p + 1 # 1
          BY <3>1
        <4>2. /\ e.op <= opNo
              /\ e.op = opNo => /\ pc # "ensure" /\ e.kind = op
                                /\ pc = "dispatch" /\ op \in Writes => e.i <= nextIdx
              /\ e.kind \in Writes => WorkerFor(e.i) = w /\ written[e.op][e.i] = 0
          BY <1>8, <3>2, <4>1 DEF QueueSound
        <4>3. \A q \in 1..Len(queue) : (e.kind \in Writes /\ queue[q].kind \in Writes /\ queue[q].op = e.op
                                          /\ queue[q].i = e.i) => q = p + 1
          BY <1>8, <4>1 DEF QueueSound
        <4> HIDE DEF e, queue
        <4>4. \A q \in 1..Len(pool'[w].queue) :
                (e.kind \in Writes /\ pool'[w].queue[q].kind \in Writes /\ pool'[w].queue[q].op = e.op
                   /\ pool'[w].queue[q].i = e.i) => q = p
          BY <3>1, <3>3, <4>3
        <4> QED BY <4>1, <4>2, <4>4
      <3>5. UNCHANGED <<opNo, op, pc, nextIdx, written>>
        BY <1>1
      <3>6. pool'[w].busy = FALSE
        BY <1>6
      <3> QED BY <2>2, <3>4, <3>5, <3>6 DEF QueueSound
    <2> QED BY <2>1, <2>2
  <1>14. WritesSound'
    <2>1. op \in Writes /\ pc = "dispatch" => \A i \in Tasks : ray'[i] = "ok" => written[opNo][i] = 1
      <3>1. t.op = opNo => t.kind = op
        BY <1>2, <1>8 DEF QueueSound
      <3> QED BY <1>0, <1>3, <1>4, <1>9, <3>1 DEF WritesSound, Current, TypeOK
    <2> QED BY <1>0, <1>1, <2>1 DEF WritesSound
  <1>15. DatasetSound'
    BY <1>0, <1>1 DEF DatasetSound
  <1>16. RetriesSound'
    <2>1. ~appError' => ~appError
      BY <1>0, <1>4 DEF TypeOK
    <2>2. \A i \in Tasks : ray'[i] = "lost" => ray[i] = "lost"
      BY <1>0, <1>3, <1>4 DEF TypeOK
    <2> QED BY <1>0, <1>1, <1>6, <2>1, <2>2 DEF RetriesSound
  <1>17. Promises'
    <2>1. ~appError' => ~appError
      BY <1>0, <1>4 DEF TypeOK
    <2> QED BY <1>0, <1>1, <2>1 DEF Promises, ReadSurvivesCrashes, AnswerIsComplete,
                                    WriteTasksRunOnce, WritesAreAtomic, Fragments
  <1> QED BY <1>10, <1>11, <1>12, <1>13, <1>14, <1>15, <1>16, <1>17 DEF IInv

\* A crash takes the tasks of its actor with it, and is counted.
LEMMA CrashIInv ==
    ASSUME IInv, NEW w \in Workers, Crash(w)
    PROVE  IInv'
  <1>0. TypeOK /\ DriverSound /\ ActorsSound /\ QueuesSound /\ DispatchSound
        /\ WritesSound /\ DatasetSound /\ RetriesSound /\ Promises
    BY DEF IInv
  <1>1. /\ pool # NoPool /\ pool[w].state = "up" /\ crashes < MaxCrashes
        /\ crashes' = crashes + 1 /\ faults' = faults + 1
        /\ UNCHANGED <<maxTaskBacklog, opNo, op, nParts, attempt, pc, outcome, nextIdx, inflight,
                       results, pinned, written, dataset, appError>>
    BY DEF Crash, LiveActors, operation, locals
  <1>2. PICK state \in {"restarting", "dead"}, restarts \in 0..MaxRestarts :
            pool' = [pool EXCEPT ![w] = [state |-> state, restarts |-> restarts,
                                         queue |-> <<>>, busy |-> FALSE]]
    <2>1. pool[w].restarts \in 0..MaxRestarts
      BY <1>0, <1>1, QueueTypes
    <2>2. CASE pool[w].restarts < MaxRestarts
      <3>1. pool' = [pool EXCEPT ![w] = [state |-> "restarting", restarts |-> pool[w].restarts + 1,
                                         queue |-> <<>>, busy |-> FALSE]]
        BY <2>2 DEF Crash, Surviving
      <3>2. pool[w].restarts + 1 \in 0..MaxRestarts
        BY <2>1, <2>2, RunnerAssumption
      <3> QED BY <3>1, <3>2
    <2>3. CASE ~(pool[w].restarts < MaxRestarts)
      <3>1. pool' = [pool EXCEPT ![w] = [state |-> "dead", restarts |-> pool[w].restarts,
                                         queue |-> <<>>, busy |-> FALSE]]
        BY <2>3 DEF Crash, Surviving
      <3> QED BY <2>1, <3>1
    <2> QED BY <2>2, <2>3
  <1>3. PICK hit \in SUBSET Tasks : ray' = [i \in Tasks |-> IF i \in hit THEN "lost" ELSE ray[i]]
    <2> DEFINE queue == pool[w].queue
               hit == {i \in Tasks : \E t \in ToSet(queue) \ ToSet(Surviving(queue)) : Current(t) /\ t.i = i}
    <2>1. ray' = [i \in Tasks |-> IF i \in hit THEN "lost" ELSE ray[i]]
      BY DEF Crash
    <2> QED BY <2>1
  <1>4. pool \in [Workers -> Actors]
    BY <1>0, <1>1, QueueTypes
  <1>5. /\ pool' \in [Workers -> Actors]
        /\ \A v \in Workers : v # w => pool'[v] = pool[v]
        /\ pool'[w].queue = <<>> /\ pool'[w].busy = FALSE
    <2>1. [state |-> state, restarts |-> restarts, queue |-> <<>>, busy |-> FALSE] \in Actors
      BY DEF Actors
    <2> QED BY <1>2, <1>4, <2>1
  <1>6. pool' # NoPool
    BY <1>5, PoolFacts
  <1>7. faults \in Nat /\ crashes \in Nat /\ crashes + 1 <= MaxCrashes /\ faults <= crashes
    BY <1>0, <1>1, RunnerAssumption DEF TypeOK, DriverSound
  <1>8. TypeOK'
    <2>1. faults' \in 0..MaxCrashes /\ crashes' \in 0..MaxCrashes
      BY <1>1, <1>7, RunnerAssumption
    <2>2. ray' \in [Tasks -> {"absent", "waiting", "ok", "lost", "error"}]
      BY <1>0, <1>3 DEF TypeOK
    <2> QED BY <1>0, <1>1, <1>5, <2>1, <2>2 DEF TypeOK
  <1>9. DriverSound' /\ ActorsSound'
    BY <1>0, <1>1, <1>5, <1>6, <1>7 DEF DriverSound, ActorsSound
  <1>10. QueuesSound'
    <2> SUFFICES ASSUME NEW v \in Workers PROVE QueueSound(v)'
      BY DEF QueuesSound
    <2>1. CASE v = w
      <3>1. pool'[v].queue = <<>>
        BY <1>5, <2>1
      <3> QED BY <3>1 DEF QueueSound
    <2>2. CASE v # w
      <3>1. QueueSound(v) /\ pool'[v] = pool[v]
        BY <1>0, <1>1, <1>5, <2>2 DEF QueuesSound
      <3>2. UNCHANGED <<opNo, op, pc, nextIdx, written>>
        BY <1>1
      <3> QED BY <3>1, <3>2 DEF QueueSound
    <2> QED BY <2>1, <2>2
  <1>11. \A i \in Tasks : /\ ray'[i] = "error" => ray[i] = "error"
                          /\ ray'[i] = "ok" => ray[i] = "ok"
    BY <1>3
  <1>12. DispatchSound'
    <2>1. Window' = Window
      BY <1>1 DEF Window, DispatchWindow
    <2> QED BY <1>0, <1>1, <1>11, <2>1 DEF DispatchSound
  <1>13. WritesSound' /\ DatasetSound'
    BY <1>0, <1>1, <1>11 DEF WritesSound, DatasetSound
  <1>14. RetriesSound'
    <2>1. op = "collect" /\ ~appError /\ pc # "idle" => faults + 1 >= attempt
      BY <1>0, <1>7, RunnerAssumption DEF RetriesSound, TypeOK
    <2>2. attempt >= 1 /\ op = "collect" /\ ~appError => pc # "ensure"
      BY <1>0, <1>1 DEF RetriesSound
    <2> QED BY <1>0, <1>1, <1>7, <2>1, <2>2 DEF RetriesSound, TypeOK
  <1>15. Promises'
    <2>1. ReadSurvivesCrashes'
      BY <1>0, <1>1, <1>7, RunnerAssumption DEF Promises, ReadSurvivesCrashes
    <2> QED BY <1>0, <1>1, <2>1 DEF Promises, AnswerIsComplete, WriteTasksRunOnce, WritesAreAtomic, Fragments
  <1> QED BY <1>8, <1>9, <1>10, <1>12, <1>13, <1>14, <1>15 DEF IInv

\* run_bounded submits the next task to its actor, or finds it dead.
LEMMA SubmitIInv ==
    ASSUME IInv, SubmitNext
    PROVE  IInv'
  <1>0. TypeOK /\ DriverSound /\ ActorsSound /\ QueuesSound /\ DispatchSound
        /\ WritesSound /\ DatasetSound /\ RetriesSound /\ Promises
    BY DEF IInv
  <1> DEFINE n == nextIdx + 1
             w == WorkerFor(n)
  <1>1. /\ pc = "dispatch" /\ nextIdx < nParts /\ nextIdx' = n /\ inflight' = inflight \cup {n}
        /\ UNCHANGED <<maxTaskBacklog, opNo, op, nParts, attempt, pc, outcome, results, pinned,
                       crashes, written, dataset, faults, appError>>
    BY DEF SubmitNext, CanSubmit, operation, history
  <1>2. /\ opNo \in 1..MaxOps /\ outcome = "none" /\ nParts = NTasks /\ pool # NoPool
        /\ n \in Tasks /\ nextIdx \in Nat
    BY <1>0, <1>1, RunnerAssumption DEF DriverSound, TypeOK, Tasks
  <1>3. w \in Workers
    BY <1>2, RunnerAssumption DEF WorkerFor, Workers
  <1>4. /\ pool \in [Workers -> Actors] /\ pool[w] \in Actors
        /\ pool[w].queue \in Seq(TaskIds) /\ Len(pool[w].queue) \in Nat
    BY <1>0, <1>2, <1>3, QueueTypes
  <1>5. Task(n) \in TaskIds /\ Task(n).op = opNo /\ Task(n).kind = op /\ Task(n).i = n
    BY <1>0, <1>2 DEF Task, TaskIds, TypeOK
  <1>6. \/ /\ pool[w].state = "dead" /\ ray' = [ray EXCEPT ![n] = "lost"] /\ pool' = pool
        \/ /\ ray' = [ray EXCEPT ![n] = "waiting"]
           /\ pool' = [pool EXCEPT ![w].queue = Append(@, Task(n))]
    BY DEF SubmitNext, Refuses
  <1> HIDE DEF w
  <1>7. /\ pool' \in [Workers -> Actors]
        /\ \A v \in Workers : /\ pool'[v].state = pool[v].state /\ pool'[v].busy = pool[v].busy
                              /\ v # w => pool'[v] = pool[v]
        /\ pool'[w].queue \in {pool[w].queue, Append(pool[w].queue, Task(n))}
    <2>1. CASE pool' = pool
      BY <1>4, <2>1
    <2>2. CASE pool' = [pool EXCEPT ![w].queue = Append(@, Task(n))]
      <3> DEFINE longer == Append(pool[w].queue, Task(n))
      <3>1. longer \in Seq(TaskIds)
        BY <1>4, <1>5
      <3> HIDE DEF longer
      <3>2. pool' = [pool EXCEPT ![w].queue = longer]
        BY <2>2 DEF longer
      <3>3. /\ pool' \in [Workers -> Actors] /\ pool'[w].queue = longer
            /\ pool'[w].state = pool[w].state /\ pool'[w].busy = pool[w].busy
            /\ \A v \in Workers : v # w => pool'[v] = pool[v]
        BY <1>3, <1>4, <3>1, <3>2 DEF Actors
      <3> QED BY <3>3 DEF longer
    <2> QED BY <1>6, <2>1, <2>2
  <1>8. ray' \in [Tasks -> {"absent", "waiting", "ok", "lost", "error"}]
        /\ \A i \in Tasks : /\ ray'[i] = "error" => ray[i] = "error"
                            /\ ray'[i] = "ok" => ray[i] = "ok"
                            /\ ray'[i] = "lost" => ray[i] = "lost" \/ pool[w].state = "dead"
    BY <1>0, <1>2, <1>6 DEF TypeOK
  <1>9. TypeOK'
    <2>1. nextIdx' \in 0..NTasks /\ inflight' \in SUBSET Tasks
      BY <1>0, <1>1, <1>2, RunnerAssumption DEF TypeOK, Tasks
    <2> QED BY <1>0, <1>1, <1>7, <1>8, <2>1 DEF TypeOK
  <1>10. DriverSound'
    BY <1>0, <1>1, <1>7, PoolFacts DEF DriverSound
  <1>11. ActorsSound'
    <2>1. pool[w].queue # <<>> => pool'[w].queue # <<>>
      BY <1>4, <1>5, <1>7
    <2> QED BY <1>0, <1>2, <1>3, <1>7, <2>1 DEF ActorsSound
  <1>12. QueuesSound'
    <2> SUFFICES ASSUME NEW v \in Workers PROVE QueueSound(v)'
      BY DEF QueuesSound
    <2>0. QueueSound(v)
      BY <1>0, <1>2 DEF QueuesSound
    <2>1. CASE pool'[v].queue = pool[v].queue
      <3>1. pool'[v].busy = pool[v].busy
        BY <1>7
      <3>2. \A p \in 1..Len(pool[v].queue) : pool[v].queue[p].i \in Nat
        BY <1>0, <1>2, QueueTypes DEF Tasks
      <3> QED BY <1>1, <1>2, <2>0, <2>1, <3>1, <3>2, SMTT(40) DEF QueueSound
    <2>2. CASE v = w /\ pool'[w].queue = Append(pool[w].queue, Task(n))
      <3> DEFINE old == pool[w].queue
                 new == pool'[w].queue
                 m == Len(old)
      <3>1. /\ Len(new) = m + 1 /\ new[m + 1] = Task(n)
            /\ \A p \in 1..m : new[p] = old[p]
        BY <1>4, <1>5, <2>2
      <3>2. pool'[w].busy = pool[w].busy /\ (pool[w].busy => m >= 1)
        BY <1>0, <1>2, <1>3, <1>4, <1>7 DEF ActorsSound
      <3>3. op \in Writes => written[opNo][n] = 0
        BY <1>0, <1>1, <1>2 DEF WritesSound
      <3>4. \A p \in 1..m : old[p].i \in Nat
        BY <1>0, <1>2, <1>3, QueueTypes DEF Tasks
      <3>5. \A p \in 1..m : op \in Writes /\ old[p].op = opNo => old[p].i # n
        BY <1>1, <1>2, <2>0, <2>2, <3>4 DEF QueueSound
      <3>6. m \in Nat
        BY <1>4
      <3>7. \A p \in 1..m :
              /\ old[p].op <= opNo
              /\ old[p].op = opNo => /\ old[p].kind = op
                                     /\ op \in Writes => old[p].i <= nextIdx + 1
              /\ old[p].kind \in Writes =>
                    /\ WorkerFor(old[p].i) = w
                    /\ written[old[p].op][old[p].i] = IF p = 1 /\ pool[w].busy THEN 1 ELSE 0
                    /\ \A q \in 1..m : (old[q].kind \in Writes /\ old[q].op = old[p].op
                                           /\ old[q].i = old[p].i) => q = p
        <4>1. \A p \in 1..m : /\ old[p].op <= opNo
                              /\ old[p].op = opNo => old[p].kind = op
          BY <2>0, <2>2 DEF QueueSound
        <4>2. \A p \in 1..m : old[p].op = opNo /\ op \in Writes => old[p].i <= nextIdx + 1
          BY <1>1, <1>2, <2>0, <2>2, <3>4 DEF QueueSound
        <4>3. \A p \in 1..m : old[p].kind \in Writes =>
                  /\ WorkerFor(old[p].i) = w
                  /\ written[old[p].op][old[p].i] = IF p = 1 /\ pool[w].busy THEN 1 ELSE 0
          BY <2>0, <2>2 DEF QueueSound
        <4>4. \A p, q \in 1..m : (old[p].kind \in Writes /\ old[q].kind \in Writes
                                 /\ old[q].op = old[p].op /\ old[q].i = old[p].i) => q = p
          BY <2>0, <2>2 DEF QueueSound
        <4> QED BY <4>1, <4>2, <4>3, <4>4
      <3>8. WorkerFor(n) = w
        BY DEF w
      <3> HIDE DEF old, m, new, n
      <3>9. \A p \in 1..(m + 1) : p \in 1..m \/ p = m + 1
        BY <3>6
      <3>10. ~(m + 1 = 1 /\ pool[w].busy)
        BY <3>2, <3>6
      <3>11. \A p \in 1..(m + 1) : new[p].kind \in Writes =>
                 /\ WorkerFor(new[p].i) = w
                 /\ written[new[p].op][new[p].i] = IF p = 1 /\ pool[w].busy THEN 1 ELSE 0
        BY <1>5, <3>1, <3>3, <3>7, <3>8, <3>9, <3>10
      <3>12. \A p \in 1..(m + 1) :
                 /\ new[p].op <= opNo
                 /\ new[p].op = opNo => /\ new[p].kind = op
                                        /\ op \in Writes => new[p].i <= nextIdx + 1
        BY <1>2, <1>5, <3>1, <3>7, <3>9 DEF n
      <3>13. \A p, q \in 1..(m + 1) :
                 (new[p].kind \in Writes /\ new[q].kind \in Writes /\ new[q].op = new[p].op
                     /\ new[q].i = new[p].i) => q = p
        BY <1>5, <3>1, <3>5, <3>7, <3>9
      <3>14. UNCHANGED <<opNo, op, pc, written>> /\ nextIdx' = nextIdx + 1 /\ pc = "dispatch"
        BY <1>1 DEF n
      <3>15. /\ pool'[w].queue = new /\ Len(pool'[w].queue) = m + 1
             /\ pool'[w].busy = pool[w].busy
        BY <3>1, <3>2 DEF new
      <3> QED BY <2>2, <3>11, <3>12, <3>13, <3>14, <3>15 DEF QueueSound
    <2> QED BY <1>7, <2>1, <2>2
  <1>13. DispatchSound'
    <2>1. nextIdx + 1 <= nParts /\ inflight' \subseteq 1..(nextIdx + 1)
      BY <1>0, <1>1, <1>2, RunnerAssumption DEF DispatchSound, TypeOK
    <2>2. \A i \in Tasks : results[i] = IF i <= nextIdx + 1 /\ i \notin inflight'
                                        THEN <<opNo, i>> ELSE None
      BY <1>0, <1>1, <1>2 DEF DispatchSound, Tasks
    <2>3. Window' = Window
      BY <1>1 DEF Window, DispatchWindow
    <2>4. Window = 0 => inflight' = 1..(nextIdx + 1)
      BY <1>0, <1>1, <1>2 DEF DispatchSound
    <2>5. \A i \in Tasks : ray'[i] = "error" => appError
      BY <1>0, <1>1, <1>8 DEF DispatchSound
    <2> QED BY <1>1, <2>1, <2>2, <2>3, <2>4, <2>5 DEF DispatchSound
  <1>14. WritesSound'
    <2>1. op \in Writes => \A i \in Tasks :
              /\ i > nextIdx + 1 => written[opNo][i] = 0
              /\ ray'[i] = "ok" => written[opNo][i] = 1
              /\ i <= nextIdx + 1 /\ i \notin inflight' => written[opNo][i] = 1
      BY <1>0, <1>1, <1>2, <1>8 DEF WritesSound, Tasks
    <2> QED BY <1>0, <1>1, <2>1 DEF WritesSound
  <1>15. DatasetSound'
    BY <1>0, <1>1 DEF DatasetSound
  <1>16. RetriesSound'
    BY <1>0, <1>1, <1>3, <1>7, <1>8 DEF RetriesSound
  <1>17. Promises'
    <2>1. ReadSurvivesCrashes' /\ AnswerIsComplete'
      BY <1>1, <1>2 DEF ReadSurvivesCrashes, AnswerIsComplete
    <2> QED BY <1>0, <1>1, <2>1 DEF Promises, WriteTasksRunOnce, WritesAreAtomic, Fragments
  <1> QED BY <1>9, <1>10, <1>11, <1>12, <1>13, <1>14, <1>15, <1>16, <1>17 DEF IInv

-----------------------------------------------------------------------------
\* Every step preserves the invariant.
LEMMA NextIInv == IInv /\ [Next]_vars => IInv'
  <1> SUFFICES ASSUME IInv, [Next]_vars PROVE IInv'
    OBVIOUS
  <1>1. ASSUME NEW kind \in Kinds, NEW n \in {0, NTasks}, Start(kind, n) PROVE IInv'
    BY <1>1, StartIInv
  <1>2. CASE EnsureWorkers
    BY <1>2, EnsureIInv
  <1>3. CASE SubmitNext
    BY <1>3, SubmitIInv
  <1>4. CASE CollectAll
    BY <1>4, CollectAllIInv
  <1>5. CASE FinishDispatch
    BY <1>5, FinishIInv
  <1>6. CASE Commit
    BY <1>6, CommitIInv
  <1>7. CASE CommitRaises \/ Index
    BY <1>7, EndsIInv
  <1>8. ASSUME NEW i \in Tasks, CollectOne(i) PROVE IInv'
    BY <1>8, CollectOneIInv
  <1>9. ASSUME NEW i \in Tasks, CollectFailure(i) PROVE IInv'
    BY <1>9, CollectFailureIInv
  <1>10. ASSUME NEW w \in Workers, Place(w) \/ Restart(w) PROVE IInv'
    BY <1>10, PlaceRestartIInv
  <1>11. ASSUME NEW w \in Workers, WorkerStarts(w) PROVE IInv'
    BY <1>11, WorkerStartsIInv
  <1>12. ASSUME NEW w \in Workers, NEW end \in {"ok", "error"}, WorkerEnds(w, end) PROVE IInv'
    BY <1>12, WorkerEndsIInv
  <1>13. ASSUME NEW w \in Workers, Crash(w) PROVE IInv'
    BY <1>13, CrashIInv
  <1>14. CASE UNCHANGED vars
    <2>1. UNCHANGED <<maxTaskBacklog, pool, opNo, op, nParts, attempt, pc, outcome, nextIdx,
                      inflight, results, ray, pinned, crashes, written, dataset, faults, appError>>
      BY <1>14 DEF vars, operation, locals, history
    <2>2. TypeOK' /\ DriverSound' /\ ActorsSound' /\ DispatchSound'
      BY <2>1, SMTT(40) DEF IInv, TypeOK, DriverSound, ActorsSound, DispatchSound, Window, DispatchWindow
    <2>3. QueuesSound'
      <3> SUFFICES ASSUME pool # NoPool, NEW w \in Workers PROVE QueueSound(w)'
        BY <2>1 DEF QueuesSound
      <3>1. QueueSound(w)
        BY DEF IInv, QueuesSound
      <3> QED BY <2>1, <3>1 DEF QueueSound
    <2>4. WritesSound' /\ DatasetSound' /\ RetriesSound'
      BY <2>1 DEF IInv, WritesSound, DatasetSound, RetriesSound
    <2>5. Promises'
      BY <2>1 DEF IInv, Promises, ReadSurvivesCrashes, AnswerIsComplete, WriteTasksRunOnce,
                  WritesAreAtomic, Fragments
    <2> QED BY <2>2, <2>3, <2>4, <2>5 DEF IInv
  <1> QED BY <1>1, <1>2, <1>3, <1>4, <1>5, <1>6, <1>7, <1>8, <1>9, <1>10, <1>11, <1>12, <1>13, <1>14
          DEF Next, Driver, Actor

\* The invariant holds in every behaviour, whatever actors do and when they die.
THEOREM RunnerInvariant == Spec => []IInv
  BY InitIInv, NextIInv, PTL DEF Spec

\* The driver's, Ray's and the dataset's state have their types.
THEOREM RunnerTypeCorrect == Spec => []TypeOK
  <1>1. IInv => TypeOK
    BY DEF IInv
  <1> QED BY <1>1, RunnerInvariant, PTL

\* A collect (with_retry) whose tasks raise no error of their own fails only after
\* a crash during each of its retries.
THEOREM ReadsSurvive == Spec => []ReadSurvivesCrashes
  <1>1. IInv => ReadSurvivesCrashes
    BY DEF IInv, Promises
  <1> QED BY <1>1, RunnerInvariant, PTL

\* An answer of run_bounded has the result of each partition in its place,
\* whatever the window, the order of completion and the attempt.
THEOREM AnswersComplete == Spec => []AnswerIsComplete
  <1>1. IInv => AnswerIsComplete
    BY DEF IInv, Promises
  <1> QED BY <1>1, RunnerInvariant, PTL

\* No write task runs twice (max_task_retries = 0, writes outside with_retry), and
\* every fragment in the dataset was written by one run.
THEOREM WritesRunOnce == Spec => []WriteTasksRunOnce
  <1>1. IInv => WriteTasksRunOnce
    BY DEF IInv, Promises
  <1> QED BY <1>1, RunnerInvariant, PTL

\* A distributed write's fragments appear in the dataset together, and are there
\* when it answers.
THEOREM WritesAtomic == Spec => []WritesAreAtomic
  <1>1. IInv => WritesAreAtomic
    BY DEF IInv, Promises
  <1> QED BY <1>1, RunnerInvariant, PTL
=============================================================================
