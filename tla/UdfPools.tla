------------------------------ MODULE UdfPools ------------------------------
(***************************************************************************)
(* Out-of-process UDFs: the pools of interpreters that subprocess.rs keeps *)
(* (execution/_worker.py on the other side of their pipes), and the Ray    *)
(* tasks and resident Ray actors of execution/__init__.py and udf_ray.py.  *)
(* Two callers map a table of several batches through pools that are       *)
(* cached for both; workers may die and pools may be shut down under them. *)
(***************************************************************************)
EXTENDS Integers, SequencesExt

CONSTANTS
    Callers,        \* driver threads
    Width,          \* workers of a pool
    Batches,        \* batches of every call
    Raising,        \* <<caller, batch>> pairs on which the UDF raises
    MaxCalls, MaxDeaths, MaxShutdowns      \* bounds for checking

VARIABLES
    backend,        \* subprocess | ray_actor | ray_task
    registry,       \* the cached pool, 0 when there is none
    crewOf,         \* pool -> its workers' generation, 0 until they are made
    crews,          \* generations made
    dead,           \* workers that died or were killed
    inbox,          \* worker -> what it was sent
    outbox,         \* worker -> replies on its pipe (subprocess)
    applied,        \* worker -> batches its copy of the UDF has seen
    lock,           \* worker -> the caller that holds its mutex, or Nobody
    pc, pool, crew, \* per caller: where it is, its pool, its workers
    got,            \* caller -> batch -> its reply, or NoReply
    calls,          \* caller -> calls it made
    deaths, shutdowns

udfVars == <<backend, registry, crewOf, crews, dead, inbox, outbox, applied, lock,
             pc, pool, crew, got, calls, deaths, shutdowns>>

Nobody == "nobody"
ASSUME UdfAssumption ==
    /\ Width \in Nat \ {0} /\ Batches \in Nat
    /\ MaxCalls \in Nat /\ MaxDeaths \in Nat /\ MaxShutdowns \in Nat
    /\ Nobody \notin Callers
NoReply == [of |-> <<>>, nth |-> 0, ok |-> FALSE]
Failed == [of |-> <<>>, nth |-> -1, ok |-> FALSE]
Workers(c) == {<<c, w>> : w \in 0..(Width - 1)}
AllWorkers == UNION {Workers(c) : c \in 1..(MaxCalls + MaxShutdowns + 1)}
Batch == 1..Batches
WorkerOf(c, i) == <<c, (i - 1) % Width>>           \* round robin
Assigned(wk) == {i \in Batch : WorkerOf(wk[1], i) = wk}
Ray == backend # "subprocess"
Total(f) == FoldFunction(+, 0, f)
Request(t, i) == <<t, i, calls[t]>>

Backends == {"subprocess", "ray_actor", "ray_task"}
NothingCalled ==
    /\ registry = 0 /\ crewOf = <<>> /\ crews = 0 /\ dead = {}
    /\ inbox = [wk \in AllWorkers |-> <<>>] /\ outbox = inbox
    /\ applied = [wk \in AllWorkers |-> 0] /\ lock = [wk \in AllWorkers |-> Nobody]
    /\ pc = [t \in Callers |-> "idle"] /\ pool = [t \in Callers |-> 0] /\ crew = pool
    /\ got = [t \in Callers |-> [i \in Batch |-> NoReply]]
    /\ calls = [t \in Callers |-> 0] /\ deaths = 0 /\ shutdowns = 0

Requests(t, wk) ==
    LET batches == SetToSortSeq(Assigned(wk), <) IN [n \in DOMAIN batches |-> Request(t, batches[n])]
Goto(t, place) == pc' = [pc EXCEPT ![t] = place]
workerVars == <<dead, inbox, outbox, applied, lock>>
boundVars == <<deaths, shutdowns>>

\* get_or_create_pool: found, or spawned and stored, under the registry's lock.
GetOrCreatePool(t) ==
    /\ backend = "subprocess" /\ pc[t] = "idle" /\ Total(calls) < MaxCalls
    /\ calls' = [calls EXCEPT ![t] = @ + 1]
    /\ IF registry # 0
       THEN UNCHANGED <<registry, crewOf, crews>> /\ pool' = [pool EXCEPT ![t] = registry]
       ELSE /\ crews' = crews + 1 /\ crewOf' = Append(crewOf, crews + 1)
            /\ registry' = Len(crewOf') /\ pool' = [pool EXCEPT ![t] = registry']
    /\ crew' = [crew EXCEPT ![t] = crewOf'[pool'[t]]]
    /\ got' = [got EXCEPT ![t] = [i \in Batch |-> NoReply]]
    /\ Goto(t, "mapping")
    /\ UNCHANGED <<backend, workerVars, boundVars>>

(* run_ray_map: tasks get an executor of their own; a resident pool is     *)
(* looked up, and built and stored when it was not there, without a lock.  *)
LookUp(t) ==
    /\ Ray /\ pc[t] = "idle" /\ Total(calls) < MaxCalls
    /\ calls' = [calls EXCEPT ![t] = @ + 1]
    /\ pool' = [pool EXCEPT ![t] = IF backend = "ray_actor" THEN registry ELSE 0]
    /\ got' = [got EXCEPT ![t] = [i \in Batch |-> NoReply]]
    /\ Goto(t, IF pool'[t] = 0 THEN "build" ELSE "pool")
    /\ UNCHANGED <<backend, registry, crewOf, crews, crew, workerVars, boundVars>>
BuildExecutor(t) ==
    /\ pc[t] = "build"
    /\ crewOf' = Append(crewOf, 0) /\ pool' = [pool EXCEPT ![t] = Len(crewOf')]
    /\ registry' = IF backend = "ray_actor" THEN Len(crewOf') ELSE registry
    /\ Goto(t, "pool")
    /\ UNCHANGED <<backend, crews, crew, got, calls, workerVars, boundVars>>
\* _pool: workers are made when there are none ...
MakePool(t) ==
    /\ pc[t] = "pool"
    /\ IF crewOf[pool[t]] = 0
       THEN crews' = crews + 1 /\ crewOf' = [crewOf EXCEPT ![pool[t]] = crews + 1]
       ELSE UNCHANGED <<crews, crewOf>>
    /\ Goto(t, "take")
    /\ UNCHANGED <<backend, registry, pool, crew, got, calls, workerVars, boundVars>>
\* ... and read again to be returned; an emptied list divides by zero.
Submit(t) ==
    /\ pc[t] = "take"
    /\ crew' = [crew EXCEPT ![t] = crewOf[pool[t]]]
    /\ IF crew'[t] = 0
       THEN Goto(t, "raised") /\ UNCHANGED inbox
       ELSE /\ Goto(t, "mapping")
            /\ inbox' = [wk \in AllWorkers |->
                  IF wk[1] = crew'[t] THEN inbox[wk] \o Requests(t, wk) ELSE inbox[wk]]
    /\ UNCHANGED <<backend, registry, crewOf, crews, pool, got, calls, dead, outbox, applied, lock, boundVars>>

-----------------------------------------------------------------------------
(* main() of the worker: read a frame, apply the UDF, write a frame; an    *)
(* error is reported and the worker goes on.  A Ray actor does the same    *)
(* and its reply belongs to the call that was made.                         *)
Reply(wk) == LET request == Head(inbox[wk])
             IN [of |-> request, nth |-> applied[wk] + 1, ok |-> <<request[1], request[2]>> \notin Raising]
Work(wk) ==
    /\ inbox[wk] # <<>> /\ wk \notin dead
    /\ inbox' = [inbox EXCEPT ![wk] = Tail(@)]
    /\ applied' = [applied EXCEPT ![wk] = @ + 1]
    /\ IF Ray
       THEN /\ LET r == Reply(wk) IN
                 got' = IF r.of = Request(r.of[1], r.of[2]) /\ pc[r.of[1]] = "mapping"
                        THEN [got EXCEPT ![r.of[1]][r.of[2]] = r] ELSE got
            /\ UNCHANGED outbox
       ELSE outbox' = [outbox EXCEPT ![wk] = Append(@, Reply(wk))] /\ UNCHANGED got
    /\ UNCHANGED <<backend, registry, crewOf, crews, dead, lock, pc, pool, crew, calls, boundVars>>

(* map_batches: one thread per worker takes the worker's mutex, and sends  *)
(* its batches one at a time, reading the reply of each before the next.   *)
Unanswered(t, wk) == {i \in Assigned(wk) : got[t][i] = NoReply}
SliceFailed(t, wk) == \E i \in Assigned(wk) : got[t][i].nth # 0 /\ ~got[t][i].ok
Open(t, wk) == Unanswered(t, wk) # {} /\ ~SliceFailed(t, wk)
\* Mutant: callers share a worker's pipes without its mutex.
NeverLocked(wk) == TRUE
Free(wk) == lock[wk] = Nobody
Acquire(t, wk) ==
    /\ ~Ray /\ pc[t] = "mapping" /\ wk \in Workers(crew[t]) /\ Open(t, wk) /\ lock[wk] # t /\ Free(wk)
    /\ lock' = [lock EXCEPT ![wk] = t]
    /\ inbox' = [inbox EXCEPT ![wk] = Append(@, Request(t, Min(Unanswered(t, wk))))]
    /\ UNCHANGED <<backend, registry, crewOf, crews, dead, outbox, applied, pc, pool, crew, got, calls, boundVars>>
\* The reply of the batch in turn, then the next batch or the end of the slice.
Receive(t, wk) ==
    /\ ~Ray /\ pc[t] = "mapping" /\ lock[wk] = t
    /\ \/ outbox[wk] # <<>> /\ got' = [got EXCEPT ![t][Min(Unanswered(t, wk))] = Head(outbox[wk])]
       \/ outbox[wk] = <<>> /\ wk \in dead /\ got' = [got EXCEPT ![t][Min(Unanswered(t, wk))] = Failed]
    /\ outbox' = [outbox EXCEPT ![wk] = IF @ = <<>> THEN @ ELSE Tail(@)]
    /\ LET left == {i \in Assigned(wk) : got'[t][i] = NoReply}
           again == left # {} /\ \A i \in Assigned(wk) \ left : got'[t][i].ok
       IN /\ lock' = [lock EXCEPT ![wk] = IF again THEN t ELSE Nobody]
          /\ inbox' = [inbox EXCEPT ![wk] = IF again THEN Append(@, Request(t, Min(left))) ELSE @]
    /\ UNCHANGED <<backend, registry, crewOf, crews, dead, applied, pc, pool, crew, calls, boundVars>>

\* A Ray call to a dead actor fails; tasks are run again by Ray and are not lost.
Lost(t, wk) ==
    /\ Ray /\ pc[t] = "mapping" /\ wk \in Workers(crew[t]) \cap dead /\ Unanswered(t, wk) # {}
    /\ got' = [got EXCEPT ![t][Min(Unanswered(t, wk))] = Failed]
    /\ UNCHANGED <<backend, registry, crewOf, crews, workerVars, pc, pool, crew, calls, boundVars>>

(* The caller's end: slices joined in the order of workers, refs read in   *)
(* the order of batches; the first failure is raised.                       *)
Answered(t) == \A i \in Batch : got[t][i].ok
Gather(t) ==
    /\ pc[t] = "mapping"
    /\ IF Ray THEN \/ Answered(t)
                   \/ \E i \in Batch : got[t][i].nth # 0 /\ ~got[t][i].ok /\ \A k \in 1..(i - 1) : got[t][k].ok
              ELSE \A wk \in Workers(crew[t]) : ~Open(t, wk)
    /\ Goto(t, IF Answered(t) THEN "answered" ELSE "raised")
    /\ UNCHANGED <<backend, registry, crewOf, crews, workerVars, pool, crew, got, calls, boundVars>>
Return(t) ==
    /\ pc[t] \in {"answered", "raised"}
    /\ Goto(t, "idle")
    /\ UNCHANGED <<backend, registry, crewOf, crews, workerVars, pool, crew, got, calls, boundVars>>

-----------------------------------------------------------------------------
Die(wk) ==
    /\ deaths < MaxDeaths /\ wk[1] \in 1..crews /\ wk \notin dead /\ backend # "ray_task"
    /\ dead' = dead \cup {wk} /\ deaths' = deaths + 1
    /\ inbox' = [inbox EXCEPT ![wk] = <<>>]
    /\ UNCHANGED <<backend, registry, crewOf, crews, outbox, applied, lock, pc, pool, crew, got, calls, shutdowns>>
(* shutdown_all_pools forgets the pools, whose callers keep them alive;    *)
(* shutdown_ray_pools kills the actors, whoever is using them.              *)
ShutdownPools ==
    /\ shutdowns < MaxShutdowns /\ registry # 0
    /\ shutdowns' = shutdowns + 1 /\ registry' = 0
    /\ IF Ray
       THEN /\ dead' = dead \cup Workers(crewOf[registry])
            /\ inbox' = [wk \in AllWorkers |-> IF wk \in dead' THEN <<>> ELSE inbox[wk]]
            /\ crewOf' = [crewOf EXCEPT ![registry] = 0]
       ELSE UNCHANGED <<dead, inbox, crewOf>>
    /\ UNCHANGED <<backend, crews, outbox, applied, lock, pc, pool, crew, got, calls, deaths>>

UdfNext ==
    \/ \E t \in Callers :
          \/ GetOrCreatePool(t) \/ LookUp(t) \/ BuildExecutor(t) \/ MakePool(t) \/ Submit(t)
          \/ \E wk \in Workers(crew[t]) : Acquire(t, wk) \/ Receive(t, wk) \/ Lost(t, wk)
          \/ Gather(t) \/ Return(t)
    \/ \E wk \in AllWorkers : Work(wk) \/ Die(wk)
    \/ ShutdownPools

-----------------------------------------------------------------------------
(* A map that answers has one output per batch, in the order of the        *)
(* batches and made from that batch of that caller, whoever else uses the  *)
(* workers and whatever dies; and a stateful UDF sees the batches that one *)
(* worker got from a call in their order.                                   *)
MapAnswersInOrder ==
    \A t \in Callers : pc[t] = "answered" =>
        /\ \A i \in Batch : got[t][i].of = Request(t, i)
        /\ \A i, k \in Batch : i < k /\ WorkerOf(0, i) = WorkerOf(0, k) => got[t][i].nth < got[t][k].nth
=============================================================================
