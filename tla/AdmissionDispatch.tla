-------------------------- MODULE AdmissionDispatch --------------------------
(***************************************************************************)
(* RayRunner._dispatch_admission and the loop that carries it out,         *)
(* run_bounded_admission: driver threads dispatch lists of tasks to Ray,   *)
(* all against the one ResourceManager of the process-wide RayRunner.      *)
(*                                                                         *)
(* A call is one execution of run_bounded_admission. Calls start whenever a *)
(* caller likes, one after another or side by side, and each asks the same *)
(* amount per task: the runner's num_gpus_per_worker.                      *)
(*                                                                         *)
(* Atomicity. One action is one method of the manager with the steps local *)
(* to the call around it; try_reserve and the reserve that follows its     *)
(* refusal are two calls of the manager, so two actions.  A Ray task ends   *)
(* at any moment.                                                          *)
(***************************************************************************)
EXTENDS ResourceManager

CONSTANTS
    Calls,          \* calls of run_bounded_admission
    NTasks,         \* tasks in the list of one call
    Capacities,     \* capacities a runner may be configured with
    InflightCaps,   \* values of JUDE_RAY_MAX_INFLIGHT
    Demands         \* demands per task a runner may be configured with

ASSUME DispatchAssumption ==
    /\ NTasks \in Nat
    /\ Capacities \subseteq Vectors
    /\ InflightCaps \subseteq Nat
    /\ Demands \subseteq Vectors

Tasks == 1..NTasks

VARIABLES
    \* RayRunner, shared by all calls
    mgr,            \* self.resources
    perTask,        \* the demand of every task, fixed when the runner is made
    \* locals of each call of run_bounded_admission
    pc,             \* where the call is in the loop
    nextIdx,        \* how many tasks it has submitted
    inflight,       \* the tasks in its dict of ObjectRefs
    results,        \* its result list, None where nothing arrived
    \* Ray
    ray,            \* ray[c][i]: the state of the i-th task of call c
    \* history: the leases taken from the manager and not given back
    leases,         \* all of them, as <<call, task>>
    forced          \* those taken by reserve, without a capacity check

runner == <<mgr, perTask>>
locals == <<pc, nextIdx, inflight, results>>
history == <<leases, forced>>
vars == <<runner, locals, ray, history>>

None == <<>>
Value(c, i) == <<c, i>>

\* How many leases try_reserve granted.
Admitted == Cardinality(leases \ forced)

\* The call has not ended: it runs on its driver thread.
Running(c) == pc[c] \in {"launch", "force", "wait"}

Init ==
    /\ \E cap \in Capacities, n \in InflightCaps : mgr = NewManager(cap, n)
    /\ perTask \in Demands
    /\ pc = [c \in Calls |-> "idle"]
    /\ nextIdx = [c \in Calls |-> 0]
    /\ inflight = [c \in Calls |-> {}]
    /\ results = [c \in Calls |-> [i \in Tasks |-> None]]
    /\ ray = [c \in Calls |-> [i \in Tasks |-> "absent"]]
    /\ leases = {}
    /\ forced = {}

\* Plausible defects of the three definitions below, for mutation runs.
ForceWhileInFlight(c) == "force"
SpinUntilCapacity(c) == IF inflight[c] = {} THEN "launch" ELSE "wait"
SlotByArrival(c, i) == nextIdx[c] - Cardinality(inflight[c]) + 1

\* The loop condition of launch_ready.
MoreToLaunch(c) == nextIdx[c] < NTasks

\* Where launch_ready goes when try_reserve refuses: to reserve if the call has
\* nothing in flight, so that it makes progress, and else out of the loop.
AfterRefusal(c) == IF inflight[c] = {} THEN "force" ELSE "wait"

\* The place of a task's result: the index the dict kept for its ObjectRef.
Slot(c, i) == i

\* The call enters the loop with nothing launched.
Begin(c) ==
    /\ pc[c] = "idle"
    /\ pc' = [pc EXCEPT ![c] = "launch"]
    /\ UNCHANGED <<runner, nextIdx, inflight, results, ray, history>>

\* submit_fns[next_idx]() after the reservation: Ray takes the task, or the
\* submission raises and the call ends there.
Submitted(c) ==
    LET i == nextIdx[c] + 1
    IN  /\ ray' = [ray EXCEPT ![c][i] = "running"]
        /\ inflight' = [inflight EXCEPT ![c] = @ \cup {i}]
        /\ nextIdx' = [nextIdx EXCEPT ![c] = i]
        /\ pc' = [pc EXCEPT ![c] = "launch"]

SubmitRaised(c) ==
    /\ pc' = [pc EXCEPT ![c] = "raised"]
    /\ UNCHANGED <<ray, inflight, nextIdx>>

Submit(c) == Submitted(c) \/ SubmitRaised(c)

\* launch_ready: try_reserve answers True and the task is submitted.
LaunchReserved(c) ==
    /\ pc[c] = "launch"
    /\ MoreToLaunch(c)
    /\ CanReserve(mgr, perTask)
    /\ mgr' = Reserved(mgr, perTask)
    /\ leases' = leases \cup {<<c, nextIdx[c] + 1>>}
    /\ Submit(c)
    /\ UNCHANGED <<perTask, results, forced>>

\* launch_ready: try_reserve answers False.
Refused(c) ==
    /\ pc[c] = "launch"
    /\ MoreToLaunch(c)
    /\ ~CanReserve(mgr, perTask)
    /\ pc' = [pc EXCEPT ![c] = AfterRefusal(c)]
    /\ UNCHANGED <<runner, nextIdx, inflight, results, ray, history>>

\* launch_ready: reserve, whatever other calls did since the refusal.
LaunchForced(c) ==
    /\ pc[c] = "force"
    /\ mgr' = Reserved(mgr, perTask)
    /\ leases' = leases \cup {<<c, nextIdx[c] + 1>>}
    /\ forced' = forced \cup {<<c, nextIdx[c] + 1>>}
    /\ Submit(c)
    /\ UNCHANGED <<perTask, results>>

AllLaunched(c) ==
    /\ pc[c] = "launch"
    /\ ~MoreToLaunch(c)
    /\ pc' = [pc EXCEPT ![c] = "wait"]
    /\ UNCHANGED <<runner, nextIdx, inflight, results, ray, history>>

\* ray.wait hands out any task that ended; ray.get returns its value, the
\* lease goes back, and the call tries to launch again.
Collect(c, i) ==
    /\ pc[c] = "wait"
    /\ i \in inflight[c]
    /\ ray[c][i] = "ok"
    /\ inflight' = [inflight EXCEPT ![c] = @ \ {i}]
    /\ results' = [results EXCEPT ![c][Slot(c, i)] = Value(c, i)]
    /\ mgr' = Released(mgr, perTask)
    /\ leases' = leases \ {<<c, i>>}
    /\ forced' = forced \ {<<c, i>>}
    /\ pc' = [pc EXCEPT ![c] = "launch"]
    /\ UNCHANGED <<perTask, nextIdx, ray>>

\* The task failed: it is popped, ray.get raises, and the exception leaves
\* the loop with no release, for this task or for the others in flight.
CollectFailure(c, i) ==
    /\ pc[c] = "wait"
    /\ i \in inflight[c]
    /\ ray[c][i] = "failed"
    /\ inflight' = [inflight EXCEPT ![c] = @ \ {i}]
    /\ pc' = [pc EXCEPT ![c] = "raised"]
    /\ UNCHANGED <<runner, nextIdx, results, ray, history>>

Return(c) ==
    /\ pc[c] = "wait"
    /\ inflight[c] = {}
    /\ pc' = [pc EXCEPT ![c] = "done"]
    /\ UNCHANGED <<runner, nextIdx, inflight, results, ray, history>>

\* Ray ends a task, even one whose call raised and no longer waits for it.
Finish(c, i) ==
    /\ ray[c][i] = "running"
    /\ \E o \in {"ok", "failed"} : ray' = [ray EXCEPT ![c][i] = o]
    /\ UNCHANGED <<runner, locals, history>>

Launch(c) ==
    LaunchReserved(c) \/ Refused(c) \/ LaunchForced(c) \/ AllLaunched(c)

Await(c) ==
    Return(c) \/ \E i \in Tasks : Collect(c, i) \/ CollectFailure(c, i)

Driver(c) == Launch(c) \/ Await(c)

Next ==
    \E c \in Calls : \/ Begin(c)
                     \/ Driver(c)
                     \/ \E i \in Tasks : Finish(c, i)

Spec == Init /\ [][Next]_vars

\* The thread of a call is scheduled, and a Ray task ends or fails. Nobody has
\* to make a call.
Fairness ==
    \A c \in Calls : /\ WF_vars(Driver(c))
                     /\ \A i \in Tasks : WF_vars(Finish(c, i))

FairSpec == Spec /\ Fairness
------------------------------------------------------------------------------
TypeOK ==
    /\ mgr \in Managers
    /\ perTask \in Vectors
    /\ pc \in [Calls -> {"idle", "launch", "force", "wait", "done", "raised"}]
    /\ nextIdx \in [Calls -> 0..NTasks]
    /\ inflight \in [Calls -> SUBSET Tasks]
    /\ results \in [Calls -> [Tasks -> {None} \cup (Calls \X Tasks)]]
    /\ ray \in [Calls -> [Tasks -> {"absent", "running", "ok", "failed"}]]
    /\ leases \subseteq Calls \X Tasks
    /\ forced \subseteq leases

\* The loop never loses a task: what a running call has submitted is in flight
\* under a lease, or its own value is in its slot; it blocks in ray.wait only
\* with something to wait for, and falls back on reserve only with nothing.
LoopInvariant ==
    \A c \in Calls :
        /\ \A i \in inflight[c] : i <= nextIdx[c] /\ <<c, i>> \in leases
        /\ pc[c] # "raised" =>
              \A i \in Tasks :
                 /\ <<c, i>> \in leases => i <= nextIdx[c]
                 /\ i <= nextIdx[c] =>
                       \/ i \in inflight[c]
                       \/ results[c][i] = Value(c, i) /\ ray[c][i] = "ok"
        /\ pc[c] = "force" => inflight[c] = {} /\ nextIdx[c] < NTasks
        /\ pc[c] = "wait" => inflight[c] # {} \/ nextIdx[c] = NTasks
        /\ pc[c] = "done" => inflight[c] = {} /\ nextIdx[c] = NTasks

\* The manager's books are the leases that exist: its count is their number
\* and what it holds used of each dimension is their sum, through any
\* interleaving of reservations, forced reservations and releases of several
\* calls; release never clamps an amount away.
LeaseAccounting ==
    /\ mgr.inflight = Cardinality(leases)
    /\ \A d \in Dims : mgr.used[d] = perTask[d] * Cardinality(leases)

\* "never oversubscribes" (resource.rs): the leases granted by try_reserve fit
\* the capacity, but for the slack of a single comparison however many they
\* are, and the in-flight cap. Only forced leases exceed them. A demand that
\* is itself no larger than the slack is granted without end.
AdmittedWithinCapacity ==
    /\ mgr.maxInflight > 0 => Admitted <= mgr.maxInflight
    /\ \A d \in Dims :
          Constrained(mgr, d) /\ perTask[d] > Slack[d]
              => perTask[d] * Admitted <= mgr.capacity[d] + Slack[d]

\* "it runs alone rather than deadlocking" (resource.rs, run_bounded_admission):
\* a task whose demand exceeds the total capacity by more than the slack is the
\* only one its call has in flight.
OversizedRunsAlone ==
    (\E d \in Dims : Constrained(mgr, d) /\ perTask[d] > mgr.capacity[d] + Slack[d])
        => \A c \in Calls : \A i, j \in inflight[c] : i = j

\* No dimension is asked for in amounts as small as the slack.
Coarse(demand) == \A d \in Dims : demand[d] > Slack[d] \/ demand[d] = 0

\* admit_count, by which a caller sizes the next wave, never promises what
\* try_reserve refuses, in any reachable state: as many reservations as it says
\* are granted, each lowering it by one. It may fall short, since it divides
\* without the slack: when it says none, one more task may be granted by the
\* slack of a dimension, and after that one none is.
AdmitCountAgrees ==
    LET n == AdmitCount(mgr, perTask)
        next == Reserved(mgr, perTask)
    IN  /\ n # 0 => /\ CanReserve(mgr, perTask)
                    /\ n # Unlimited => AdmitCount(next, perTask) = n - 1
        /\ n = 0 /\ CanReserve(mgr, perTask) =>
              /\ \E d \in Dims : Slack[d] > 0 /\ Available(mgr, d) < perTask[d]
              /\ Coarse(perTask) => ~CanReserve(next, perTask)

\* A call that started ends, with its results or with an exception, however
\* much of the capacity other calls hold or have leaked.
EveryCallEnds == \A c \in Calls : (pc[c] # "idle") ~> ~Running(c)

\* "the lease is released on completion" (docstring of run_bounded_admission):
\* a task that completed and was taken out of the call's dict holds no lease.
LeaseReleasedOnCompletion ==
    \A c \in Calls, i \in Tasks :
        /\ ray[c][i] \in {"ok", "failed"}
        /\ i \notin inflight[c]
        => <<c, i>> \notin leases

\* The loop implements the dispatch its callers rely on: tasks submitted once
\* and in order, all results at their own index, an exception only when a task
\* or a submission failed.
Abstract == INSTANCE TaskDispatch
    WITH status <- [c \in Calls |-> IF Running(c) THEN "running" ELSE pc[c]],
         submitted <- nextIdx,
         outcome <- ray,
         answer <- [c \in Calls |-> IF pc[c] = "done" THEN results[c] ELSE <<>>]

ImplementsTaskDispatch == Abstract!Spec
=============================================================================
