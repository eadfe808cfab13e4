----------------------- MODULE AdmissionDispatchProofs -----------------------
(***************************************************************************)
(* Theorems about AdmissionDispatch, for any number of calls, tasks and    *)
(* resource dimensions and any capacities and demands.                     *)
(***************************************************************************)
EXTENDS AdmissionDispatch, FiniteSetTheorems, WellFoundedInduction, TLAPS

\* Multiplication by a natural number preserves order.
LEMMA TimesMonotone ==
    ASSUME NEW k \in Nat, NEW a \in Nat, NEW b \in Nat, a <= b
    PROVE  k * a <= k * b
  <1>1. PICK e \in Nat : b = a + e
    BY b - a \in Nat
  <1>2. k * b = k * a + k * e
    BY <1>1
  <1>3. k * e \in Nat
    OBVIOUS
  <1> QED BY <1>2, <1>3

\* The books of a manager say: n leases of this demand each.
Books(m, demand, n) ==
    /\ m.inflight = n
    /\ \A d \in Dims : m.used[d] = demand[d] * n

\* reserve adds one lease to the books, try_reserve too when it grants.
LEMMA ReservedBooks ==
    ASSUME NEW m \in Managers, NEW demand \in Vectors, NEW n \in Nat,
           Books(m, demand, n)
    PROVE  /\ Reserved(m, demand) \in Managers
           /\ Books(Reserved(m, demand), demand, n + 1)
           /\ Reserved(m, demand).capacity = m.capacity
           /\ Reserved(m, demand).maxInflight = m.maxInflight
  <1> DEFINE u == [d \in Dims |-> m.used[d] + demand[d]]
  <1>1. Reserved(m, demand) = [m EXCEPT !.used = u, !.inflight = m.inflight + 1]
    BY DEF Reserved
  <1>2. /\ u \in Vectors
        /\ m.inflight + 1 = n + 1
        /\ m.inflight + 1 \in Nat
    BY DEF Managers, Vectors, Books
  <1>3. \A d \in Dims : u[d] = demand[d] * (n + 1)
    BY DEF Books, Vectors
  <1> HIDE DEF u
  <1> QED BY <1>1, <1>2, <1>3 DEF Managers, Books

\* release takes one lease off the books, and clamps nothing.
LEMMA ReleasedBooks ==
    ASSUME NEW m \in Managers, NEW demand \in Vectors, NEW n \in Nat, n > 0,
           Books(m, demand, n)
    PROVE  /\ Released(m, demand) \in Managers
           /\ Books(Released(m, demand), demand, n - 1)
           /\ Released(m, demand).capacity = m.capacity
           /\ Released(m, demand).maxInflight = m.maxInflight
  <1> DEFINE u == [d \in Dims |-> AtLeastZero(m.used[d] - demand[d])]
  <1>1. Released(m, demand)
          = [m EXCEPT !.used = u, !.inflight = AtLeastZero(m.inflight - 1)]
    BY DEF Released
  <1>2. AtLeastZero(m.inflight - 1) = n - 1 /\ n - 1 \in Nat
    BY DEF Books, AtLeastZero
  <1>3. ASSUME NEW d \in Dims
        PROVE  u[d] = demand[d] * (n - 1) /\ u[d] \in Nat
    <2>1. m.used[d] - demand[d] = demand[d] * (n - 1)
      BY DEF Books, Vectors
    <2>2. demand[d] * (n - 1) \in Nat
      BY <1>2 DEF Vectors
    <2> QED BY <2>1, <2>2 DEF AtLeastZero
  <1>4. u \in Vectors
    BY <1>3 DEF Vectors
  <1> HIDE DEF u
  <1> QED BY <1>1, <1>2, <1>3, <1>4 DEF Managers, Books

\* A granted try_reserve leaves the leases on the books within the capacity
\* and the slack of one comparison.
LEMMA GrantFits ==
    ASSUME NEW m \in Managers, NEW demand \in Vectors, NEW n \in Nat,
           Books(m, demand, n), CanReserve(m, demand),
           NEW k \in Nat, k <= n
    PROVE  /\ m.maxInflight > 0 => k + 1 <= m.maxInflight
           /\ \A d \in Dims : Constrained(m, d) /\ demand[d] > Slack[d]
                 => demand[d] * (k + 1) <= m.capacity[d] + Slack[d]
  <1>1. m.maxInflight > 0 => k + 1 <= m.maxInflight
    BY DEF CanReserve, BelowInflightCap, Books, Managers
  <1>2. ASSUME NEW d \in Dims, Constrained(m, d), demand[d] > Slack[d]
        PROVE  demand[d] * (k + 1) <= m.capacity[d] + Slack[d]
    <2>1. /\ m.capacity[d] \in Nat
          /\ demand[d] \in Nat
          /\ Slack[d] \in Nat
      BY SlackAssumption DEF Managers, Vectors
    <2>2. m.used[d] = demand[d] * n
      BY DEF Books
    <2>3. demand[d] <= AtLeastZero(m.capacity[d] - m.used[d]) + Slack[d]
      BY <1>2 DEF CanReserve, FitsWithin, Available
    <2>4. demand[d] > Slack[d]
      BY <1>2
    <2> HIDE DEF Books
    <2>5. n + 1 \in Nat /\ k + 1 \in Nat /\ k + 1 <= n + 1
      OBVIOUS
    <2>6. demand[d] * (k + 1) <= demand[d] * (n + 1)
      BY <2>1, <2>5, TimesMonotone
    <2>7. demand[d] * n \in Nat
      BY <2>1
    <2>8. demand[d] + demand[d] * n <= m.capacity[d] + Slack[d]
      BY <2>1, <2>2, <2>3, <2>4, <2>7 DEF AtLeastZero
    <2>9. demand[d] * (n + 1) = demand[d] + demand[d] * n
      BY <2>1
    <2>10. demand[d] * (k + 1) \in Nat
      BY <2>1
    <2> QED BY <2>1, <2>6, <2>7, <2>8, <2>9, <2>10
  <1> QED BY <1>1, <1>2
------------------------------------------------------------------------------
\* The strengthening under which the invariants are inductive.
IInv ==
    /\ TypeOK
    /\ IsFiniteSet(leases)
    /\ LoopInvariant
    /\ LeaseAccounting
    /\ AdmittedWithinCapacity

LEMMA InitIInv == Init => IInv
  <1> SUFFICES ASSUME Init PROVE IInv
    OBVIOUS
  <1> USE DispatchAssumption
  <1>1. PICK cap \in Capacities, n \in InflightCaps : mgr = NewManager(cap, n)
    BY DEF Init
  <1>2. /\ mgr \in Managers
        /\ mgr.inflight = 0
        /\ mgr.maxInflight = n /\ n \in Nat
        /\ mgr.capacity = cap /\ cap \in Vectors
        /\ \A d \in Dims : mgr.used[d] = 0
    BY <1>1 DEF NewManager, Managers, Vectors
  <1>3. TypeOK
    BY <1>2 DEF Init, TypeOK, Tasks
  <1>4. IsFiniteSet(leases) /\ Cardinality(leases) = 0
    BY FS_EmptySet DEF Init
  <1>5. LoopInvariant
    BY DEF Init, LoopInvariant, Tasks
  <1>6. LeaseAccounting
    BY <1>2, <1>3, <1>4 DEF LeaseAccounting, TypeOK, Vectors
  <1>7. AdmittedWithinCapacity
    <2>1. Admitted = 0
      BY FS_EmptySet DEF Init, Admitted
    <2>2. \A d \in Dims : perTask[d] * 0 = 0 /\ mgr.capacity[d] \in Nat /\ Slack[d] \in Nat
      BY <1>2, <1>3, SlackAssumption DEF TypeOK, Vectors
    <2> QED BY <1>2, <2>1, <2>2 DEF AdmittedWithinCapacity
  <1> QED BY <1>3, <1>4, <1>5, <1>6, <1>7 DEF IInv

\* The accounting in the terms of the lemmas on the manager.
LEMMA LeasesAreBooked ==
    ASSUME IInv
    PROVE  /\ Cardinality(leases) \in Nat
           /\ Books(mgr, perTask, Cardinality(leases))
           /\ Admitted \in Nat
           /\ Admitted <= Cardinality(leases)
  <1>1. Cardinality(leases) \in Nat
    BY FS_CardinalityType DEF IInv
  <1>2. /\ IsFiniteSet(leases \ forced)
        /\ Admitted <= Cardinality(leases)
    BY FS_Subset DEF IInv, Admitted
  <1>3. Admitted \in Nat
    BY <1>2, FS_CardinalityType DEF Admitted
  <1> QED BY <1>1, <1>2, <1>3 DEF IInv, LeaseAccounting, Books

\* The lease a launch takes is new.
LEMMA LeaseIsNew ==
    ASSUME IInv, NEW c \in Calls, pc[c] # "raised", MoreToLaunch(c)
    PROVE  /\ nextIdx[c] + 1 \in Tasks
           /\ <<c, nextIdx[c] + 1>> \notin leases
           /\ <<c, nextIdx[c] + 1>> \in Calls \X Tasks
  <1>1. nextIdx[c] \in 0..NTasks /\ nextIdx[c] + 1 \in Tasks
    BY DispatchAssumption DEF IInv, TypeOK, MoreToLaunch, Tasks
  <1> QED BY <1>1, DispatchAssumption DEF IInv, LoopInvariant, Tasks

\* Submit keeps the locals of the call and Ray in their types.
LEMMA SubmitTypes ==
    ASSUME IInv, NEW c \in Calls, pc[c] # "raised", MoreToLaunch(c), Submit(c)
    PROVE  /\ pc' \in [Calls -> {"idle", "launch", "force", "wait", "done", "raised"}]
           /\ nextIdx' \in [Calls -> 0..NTasks]
           /\ inflight' \in [Calls -> SUBSET Tasks]
           /\ ray' \in [Calls -> [Tasks -> {"absent", "running", "ok", "failed"}]]
  <1>1. nextIdx[c] + 1 \in Tasks
    BY LeaseIsNew
  <1>2. nextIdx[c] + 1 \in 0..NTasks
    BY <1>1, DispatchAssumption DEF Tasks
  <1>3. CASE SubmitRaised(c)
    BY <1>3 DEF IInv, TypeOK, SubmitRaised
  <1>4. CASE Submitted(c)
    <2> DEFINE k == nextIdx[c] + 1
    <2>1. /\ ray' = [ray EXCEPT ![c][k] = "running"]
          /\ inflight' = [inflight EXCEPT ![c] = @ \cup {k}]
          /\ nextIdx' = [nextIdx EXCEPT ![c] = k]
          /\ pc' = [pc EXCEPT ![c] = "launch"]
      BY <1>4 DEF Submitted
    <2>2. k \in Tasks /\ k \in 0..NTasks
      BY <1>1, <1>2
    <2> HIDE DEF k
    <2>3. ray' \in [Calls -> [Tasks -> {"absent", "running", "ok", "failed"}]]
      <3>1. [ray[c] EXCEPT ![k] = "running"]
               \in [Tasks -> {"absent", "running", "ok", "failed"}]
        BY <2>2 DEF IInv, TypeOK
      <3> QED BY <2>1, <3>1 DEF IInv, TypeOK
    <2>4. inflight' \in [Calls -> SUBSET Tasks]
      BY <2>1, <2>2 DEF IInv, TypeOK
    <2>5. nextIdx' \in [Calls -> 0..NTasks]
      BY <2>1, <2>2 DEF IInv, TypeOK
    <2>6. pc' \in [Calls -> {"idle", "launch", "force", "wait", "done", "raised"}]
      BY <2>1 DEF IInv, TypeOK
    <2> QED BY <2>3, <2>4, <2>5, <2>6
  <1> QED BY <1>3, <1>4 DEF Submit

\* Every step keeps the types.
LEMMA StepType ==
    ASSUME IInv, [Next]_vars
    PROVE  TypeOK'
  <1> USE DEF TypeOK
  <1>0. TypeOK
    BY DEF IInv
  <1>1. /\ Reserved(mgr, perTask) \in Managers
    BY <1>0, LeasesAreBooked, ReservedBooks
  <1>2. CASE UNCHANGED vars
    BY <1>0, <1>2 DEF vars, runner, locals, history
  <1>3. ASSUME NEW c \in Calls, Begin(c)
        PROVE  TypeOK'
    BY <1>0, <1>3 DEF Begin, runner, history
  <1>4. ASSUME NEW c \in Calls, LaunchReserved(c)
        PROVE  TypeOK'
    <2>1. pc[c] # "raised" /\ MoreToLaunch(c) /\ Submit(c)
      BY <1>4 DEF LaunchReserved
    <2>2. leases' \subseteq Calls \X Tasks /\ forced' \subseteq leases'
      BY <1>0, <1>4, <2>1, LeaseIsNew DEF LaunchReserved
    <2>3. /\ pc' \in [Calls -> {"idle", "launch", "force", "wait", "done", "raised"}]
          /\ nextIdx' \in [Calls -> 0..NTasks]
          /\ inflight' \in [Calls -> SUBSET Tasks]
          /\ ray' \in [Calls -> [Tasks -> {"absent", "running", "ok", "failed"}]]
      BY <2>1, SubmitTypes
    <2>4. mgr' \in Managers /\ perTask' = perTask /\ results' = results
      BY <1>1, <1>4 DEF LaunchReserved
    <2> QED BY <1>0, <2>2, <2>3, <2>4
  <1>5. ASSUME NEW c \in Calls, Refused(c)
        PROVE  TypeOK'
    BY <1>0, <1>5 DEF Refused, AfterRefusal, runner, history
  <1>6. ASSUME NEW c \in Calls, LaunchForced(c)
        PROVE  TypeOK'
    <2>1. pc[c] # "raised" /\ MoreToLaunch(c) /\ Submit(c)
      BY <1>6 DEF LaunchForced, IInv, LoopInvariant, MoreToLaunch
    <2>2. leases' \subseteq Calls \X Tasks /\ forced' \subseteq leases'
      BY <1>0, <1>6, <2>1, LeaseIsNew DEF LaunchForced
    <2>3. /\ pc' \in [Calls -> {"idle", "launch", "force", "wait", "done", "raised"}]
          /\ nextIdx' \in [Calls -> 0..NTasks]
          /\ inflight' \in [Calls -> SUBSET Tasks]
          /\ ray' \in [Calls -> [Tasks -> {"absent", "running", "ok", "failed"}]]
      BY <2>1, SubmitTypes
    <2>4. mgr' \in Managers /\ perTask' = perTask /\ results' = results
      BY <1>1, <1>6 DEF LaunchForced
    <2> QED BY <1>0, <2>2, <2>3, <2>4
  <1>7. ASSUME NEW c \in Calls, AllLaunched(c)
        PROVE  TypeOK'
    BY <1>0, <1>7 DEF AllLaunched, runner, history
  <1>8. ASSUME NEW c \in Calls, NEW i \in Tasks, Collect(c, i)
        PROVE  TypeOK'
    <2>1. Cardinality(leases) > 0
      <3>1. <<c, i>> \in leases
        BY <1>8 DEF Collect, IInv, LoopInvariant
      <3>2. Cardinality(leases) \in Nat /\ Cardinality(leases) # 0
        BY <3>1, LeasesAreBooked, FS_EmptySet DEF IInv
      <3> QED BY <3>2
    <2>2. mgr' \in Managers
      BY <1>0, <1>8, <2>1, LeasesAreBooked, ReleasedBooks DEF Collect
    <2>3. Value(c, i) \in {None} \cup Calls \X Tasks
      BY DEF Value
    <2>4. results' \in [Calls -> [Tasks -> {None} \cup Calls \X Tasks]]
      BY <1>0, <1>8, <2>3 DEF Collect, Slot
    <2> QED BY <1>0, <1>8, <2>2, <2>4 DEF Collect
  <1>9. ASSUME NEW c \in Calls, NEW i \in Tasks, CollectFailure(c, i)
        PROVE  TypeOK'
    BY <1>0, <1>9 DEF CollectFailure, runner, history
  <1>10. ASSUME NEW c \in Calls, Return(c)
         PROVE  TypeOK'
    BY <1>0, <1>10 DEF Return, runner, history
  <1>11. ASSUME NEW c \in Calls, NEW i \in Tasks, Finish(c, i)
         PROVE  TypeOK'
    BY <1>0, <1>11 DEF Finish, runner, locals, history
  <1> QED
    BY <1>2, <1>3, <1>4, <1>5, <1>6, <1>7, <1>8, <1>9, <1>10, <1>11
       DEF Next, Driver, Launch, Await

\* Every step keeps the bookkeeping of the loops.
LEMMA StepLoop ==
    ASSUME IInv, [Next]_vars
    PROVE  LoopInvariant'
  <1>0. TypeOK /\ LoopInvariant
    BY DEF IInv
  <1>2. CASE UNCHANGED vars
    BY <1>0, <1>2 DEF LoopInvariant, vars, runner, locals, history
  <1>3. ASSUME NEW c \in Calls, Begin(c)
        PROVE  LoopInvariant'
    BY <1>0, <1>3 DEF TypeOK, LoopInvariant, Begin, runner, history
  <1>4. ASSUME NEW c \in Calls, pc[c] \in {"launch", "force"}, MoreToLaunch(c),
               Submit(c), leases' = leases \cup {<<c, nextIdx[c] + 1>>},
               results' = results
        PROVE  LoopInvariant'
    <2> DEFINE k == nextIdx[c] + 1
    <2>1. /\ k \in Tasks /\ <<c, k>> \notin leases
          /\ nextIdx[c] \in 0..NTasks
      BY <1>0, <1>4, LeaseIsNew DEF TypeOK
    <2>2. ASSUME NEW x \in Calls, x # c
          PROVE  /\ pc'[x] = pc[x] /\ nextIdx'[x] = nextIdx[x]
                 /\ inflight'[x] = inflight[x] /\ ray'[x] = ray[x]
                 /\ \A i \in Tasks : <<x, i>> \in leases' <=> <<x, i>> \in leases
      BY <1>0, <1>4, <2>2 DEF TypeOK, Submit, Submitted, SubmitRaised
    <2>3. CASE SubmitRaised(c)
      BY <1>0, <1>4, <2>1, <2>2, <2>3 DEF TypeOK, LoopInvariant, SubmitRaised
    <2>4. CASE Submitted(c)
      <3>1. /\ pc'[c] = "launch" /\ nextIdx'[c] = k
            /\ inflight'[c] = inflight[c] \cup {k}
            /\ \A i \in Tasks : i # k => ray'[c][i] = ray[c][i]
        BY <1>0, <2>1, <2>4 DEF TypeOK, Submitted
      <3>2. \A i \in inflight'[c] : i <= nextIdx'[c] /\ <<c, i>> \in leases'
        BY <1>0, <1>4, <2>1, <3>1 DEF TypeOK, LoopInvariant, Tasks
      <3>3. ASSUME NEW i \in Tasks
            PROVE  /\ <<c, i>> \in leases' => i <= k
                   /\ i <= k => \/ i \in inflight'[c]
                                \/ results'[c][i] = Value(c, i) /\ ray'[c][i] = "ok"
        <4>1. i <= k <=> i <= nextIdx[c] \/ i = k
          BY <2>1, DispatchAssumption DEF Tasks
        <4> QED BY <1>0, <1>4, <2>1, <3>1, <4>1 DEF TypeOK, LoopInvariant
      <3> QED BY <1>0, <1>4, <2>2, <3>1, <3>2, <3>3 DEF TypeOK, LoopInvariant
    <2> QED BY <1>4, <2>3, <2>4 DEF Submit
  <1>5. ASSUME NEW c \in Calls, Refused(c)
        PROVE  LoopInvariant'
    BY <1>0, <1>5
       DEF TypeOK, LoopInvariant, Refused, AfterRefusal, MoreToLaunch, runner, history
  <1>6. ASSUME NEW c \in Calls, LaunchForced(c)
        PROVE  MoreToLaunch(c)
    BY <1>0, <1>6 DEF LoopInvariant, LaunchForced, MoreToLaunch
  <1>7. ASSUME NEW c \in Calls, AllLaunched(c)
        PROVE  LoopInvariant'
    <2>1. nextIdx[c] = NTasks
      <3>1. NTasks \in Nat /\ nextIdx[c] \in 0..NTasks
        BY <1>0, DispatchAssumption DEF TypeOK
      <3>2. ~(nextIdx[c] < NTasks)
        BY <1>7 DEF AllLaunched, MoreToLaunch
      <3> QED BY <3>1, <3>2
    <2> QED BY <1>0, <1>7, <2>1 DEF TypeOK, LoopInvariant, AllLaunched, runner, history
  <1>8. ASSUME NEW c \in Calls, NEW i \in Tasks, Collect(c, i)
        PROVE  LoopInvariant'
    BY <1>0, <1>8 DEF TypeOK, LoopInvariant, Collect, Slot
  <1>9. ASSUME NEW c \in Calls, NEW i \in Tasks, CollectFailure(c, i)
        PROVE  LoopInvariant'
    BY <1>0, <1>9 DEF TypeOK, LoopInvariant, CollectFailure, runner, history
  <1>10. ASSUME NEW c \in Calls, Return(c)
         PROVE  LoopInvariant'
    BY <1>0, <1>10 DEF TypeOK, LoopInvariant, Return, runner, history
  <1>11. ASSUME NEW c \in Calls, NEW i \in Tasks, Finish(c, i)
         PROVE  LoopInvariant'
    BY <1>0, <1>11 DEF TypeOK, LoopInvariant, Finish, runner, locals, history
  <1> QED
    BY <1>2, <1>3, <1>4, <1>5, <1>6, <1>7, <1>8, <1>9, <1>10, <1>11
       DEF Next, Driver, Launch, Await, LaunchReserved, LaunchForced

\* Every step keeps the set of leases finite, booked, and within the capacity.
LEMMA StepBooks ==
    ASSUME IInv, [Next]_vars
    PROVE  IsFiniteSet(leases)' /\ LeaseAccounting' /\ AdmittedWithinCapacity'
  <1> DEFINE n == Cardinality(leases)
             Goal == /\ IsFiniteSet(leases')
                     /\ mgr'.inflight = Cardinality(leases')
                     /\ \A d \in Dims : mgr'.used[d] = perTask'[d] * Cardinality(leases')
                     /\ mgr'.maxInflight > 0 => Admitted' <= mgr'.maxInflight
                     /\ \A d \in Dims : Constrained(mgr', d) /\ perTask'[d] > Slack[d]
                           => perTask'[d] * Admitted' <= mgr'.capacity[d] + Slack[d]
  <1>0. /\ mgr \in Managers /\ perTask \in Vectors
        /\ n \in Nat /\ Admitted \in Nat /\ Admitted <= n
        /\ Books(mgr, perTask, n)
        /\ IsFiniteSet(leases) /\ forced \subseteq leases
    BY LeasesAreBooked DEF IInv, TypeOK
  <1>1. SUFFICES Goal
    BY DEF LeaseAccounting, AdmittedWithinCapacity, Constrained
  <1>2. CASE UNCHANGED <<mgr, perTask, leases, forced>>
    <2>1. Admitted' = Admitted
      BY <1>2 DEF Admitted
    <2> QED BY <1>2, <2>1 DEF IInv, LeaseAccounting, AdmittedWithinCapacity
  <1>3. ASSUME NEW x, x \notin leases, leases' = leases \cup {x},
               mgr' = Reserved(mgr, perTask), perTask' = perTask
        PROVE  /\ IsFiniteSet(leases')
               /\ Cardinality(leases') = n + 1
               /\ mgr'.inflight = n + 1
               /\ \A d \in Dims : mgr'.used[d] = perTask'[d] * (n + 1)
               /\ mgr'.capacity = mgr.capacity
               /\ mgr'.maxInflight = mgr.maxInflight
    <2>1. IsFiniteSet(leases') /\ Cardinality(leases') = n + 1
      BY <1>0, <1>3, FS_AddElement
    <2>2. /\ Books(Reserved(mgr, perTask), perTask, n + 1)
          /\ Reserved(mgr, perTask).capacity = mgr.capacity
          /\ Reserved(mgr, perTask).maxInflight = mgr.maxInflight
      BY <1>0, ReservedBooks
    <2> QED BY <1>3, <2>1, <2>2 DEF Books
  <1>4. ASSUME NEW c \in Calls, LaunchReserved(c)
        PROVE  Goal
    <2> DEFINE x == <<c, nextIdx[c] + 1>>
    <2>1. x \notin leases /\ CanReserve(mgr, perTask)
      BY <1>4, LeaseIsNew DEF LaunchReserved
    <2>2. /\ leases' = leases \cup {x} /\ mgr' = Reserved(mgr, perTask)
          /\ perTask' = perTask /\ forced' = forced
      BY <1>4 DEF LaunchReserved
    <2>3. Admitted' = Admitted + 1
      <3>1. leases' \ forced' = (leases \ forced) \cup {x} /\ x \notin leases \ forced
        BY <1>0, <2>1, <2>2
      <3>2. IsFiniteSet(leases \ forced)
        BY <1>0, FS_Subset
      <3> HIDE DEF x
      <3>3. Cardinality((leases \ forced) \cup {x}) = Cardinality(leases \ forced) + 1
        BY <3>1, <3>2, FS_AddElement
      <3> QED BY <3>1, <3>3 DEF Admitted
    <2> HIDE DEF x
    <2>4. /\ mgr.maxInflight > 0 => Admitted + 1 <= mgr.maxInflight
          /\ \A d \in Dims : Constrained(mgr, d) /\ perTask[d] > Slack[d]
                => perTask[d] * (Admitted + 1) <= mgr.capacity[d] + Slack[d]
      BY <1>0, <2>1, GrantFits
    <2> QED BY <1>3, <2>1, <2>2, <2>3, <2>4 DEF Constrained
  <1>5. ASSUME NEW c \in Calls, LaunchForced(c)
        PROVE  Goal
    <2> DEFINE x == <<c, nextIdx[c] + 1>>
    <2>1. x \notin leases
      BY <1>5, LeaseIsNew DEF LaunchForced, IInv, LoopInvariant, MoreToLaunch
    <2>2. /\ leases' = leases \cup {x} /\ mgr' = Reserved(mgr, perTask)
          /\ perTask' = perTask /\ forced' = forced \cup {x}
      BY <1>5 DEF LaunchForced
    <2>3. Admitted' = Admitted
      <3>1. leases' \ forced' = leases \ forced
        BY <1>0, <2>1, <2>2
      <3> QED BY <3>1 DEF Admitted
    <2> HIDE DEF x
    <2> QED BY <1>3, <2>1, <2>2, <2>3
            DEF Constrained, IInv, AdmittedWithinCapacity
  <1>6. ASSUME NEW c \in Calls, NEW i \in Tasks, Collect(c, i)
        PROVE  Goal
    <2> DEFINE x == <<c, i>>
    <2>1. x \in leases
      BY <1>6 DEF Collect, IInv, LoopInvariant
    <2>2. /\ leases' = leases \ {x} /\ mgr' = Released(mgr, perTask)
          /\ perTask' = perTask /\ forced' = forced \ {x}
      BY <1>6 DEF Collect
    <2> HIDE DEF x
    <2>3. n > 0
      BY <1>0, <2>1, FS_EmptySet
    <2>4. IsFiniteSet(leases') /\ Cardinality(leases') = n - 1
      BY <1>0, <2>1, <2>2, FS_RemoveElement
    <2>5. /\ Books(Released(mgr, perTask), perTask, n - 1)
          /\ Released(mgr, perTask).capacity = mgr.capacity
          /\ Released(mgr, perTask).maxInflight = mgr.maxInflight
      BY <1>0, <2>3, ReleasedBooks
    <2>6. Admitted' \in Nat /\ Admitted' <= Admitted
      <3>1. IsFiniteSet(leases \ forced)
        BY <1>0, FS_Subset
      <3>2. leases' \ forced' \subseteq leases \ forced
        BY <2>2
      <3> QED BY <3>1, <3>2, FS_Subset, FS_CardinalityType DEF Admitted
    <2>7. mgr.maxInflight > 0 => Admitted' <= mgr.maxInflight
      BY <1>0, <2>6 DEF IInv, AdmittedWithinCapacity, Managers
    <2>8. ASSUME NEW d \in Dims, Constrained(mgr, d), perTask[d] > Slack[d]
          PROVE  perTask[d] * Admitted' <= mgr.capacity[d] + Slack[d]
      <3>1. perTask[d] \in Nat /\ mgr.capacity[d] \in Nat /\ Slack[d] \in Nat
        BY <1>0, SlackAssumption DEF Managers, Vectors
      <3>2. perTask[d] * Admitted' <= perTask[d] * Admitted
        BY <1>0, <2>6, <3>1, TimesMonotone
      <3>3. perTask[d] * Admitted <= mgr.capacity[d] + Slack[d]
        BY <2>8 DEF IInv, AdmittedWithinCapacity
      <3>4. perTask[d] * Admitted \in Nat /\ perTask[d] * Admitted' \in Nat
        BY <1>0, <2>6, <3>1
      <3> QED BY <3>1, <3>2, <3>3, <3>4
    <2> QED BY <2>2, <2>4, <2>5, <2>7, <2>8 DEF Books, Constrained
  <1> QED
    BY <1>2, <1>4, <1>5, <1>6
       DEF Next, Driver, Launch, Await, vars, runner, history,
           Begin, Refused, AllLaunched, CollectFailure, Return, Finish

THEOREM InductiveInvariant == Spec => []IInv
  <1>1. IInv /\ [Next]_vars => IInv'
    BY StepType, StepLoop, StepBooks DEF IInv
  <1> QED BY InitIInv, <1>1, PTL DEF Spec

\* The variables of every reachable state have their types.
THEOREM TypeCorrect == Spec => []TypeOK
  <1>1. IInv => TypeOK
    BY DEF IInv
  <1> QED BY InductiveInvariant, <1>1, PTL

\* No running call loses track of a task it submitted.
THEOREM LoopCorrect == Spec => []LoopInvariant
  <1>1. IInv => LoopInvariant
    BY DEF IInv
  <1> QED BY InductiveInvariant, <1>1, PTL

\* The manager's count and amounts are those of the leases held.
THEOREM AccountingCorrect == Spec => []LeaseAccounting
  <1>1. IInv => LeaseAccounting
    BY DEF IInv
  <1> QED BY InductiveInvariant, <1>1, PTL

\* Leases granted by try_reserve never oversubscribe the runner by more than
\* the slack of one comparison.
THEOREM NeverOversubscribed == Spec => []AdmittedWithinCapacity
  <1>1. IInv => AdmittedWithinCapacity
    BY DEF IInv
  <1> QED BY InductiveInvariant, <1>1, PTL
-----------------------------------------------------------------------------
\* Every non-empty set of natural numbers has a least element.
LEMMA LeastBound ==
    ASSUME NEW B \in SUBSET Nat, B # {}
    PROVE  \E n \in B : \A b \in B : n <= b
  <1> DEFINE R == OpToRel(<, Nat)
  <1>1. IsWellFoundedOn(R, Nat)
    BY NatLessThanWellFounded
  <1>2. \A x, y \in Nat : y < x => <<y, x>> \in R
    BY DEF OpToRel
  <1> HIDE DEF R
  <1>3. PICK n \in B : \A b \in B : ~(<<b, n>> \in R)
    BY <1>1, WFMin
  <1>4. \A b \in B : ~(b < n)
    BY <1>2, <1>3, Zenon
  <1> QED BY <1>4

\* admit_count is the least of its bounds.
LEMMA AdmitCountIsLeast ==
    ASSUME NEW m, NEW demand, AdmitBounds(m, demand) \in SUBSET Nat, AdmitBounds(m, demand) # {}
    PROVE  /\ AdmitCount(m, demand) \in AdmitBounds(m, demand)
           /\ \A b \in AdmitBounds(m, demand) : AdmitCount(m, demand) <= b
  <1> DEFINE B == AdmitBounds(m, demand)
  <1>1. \E n \in B : \A b \in B : n <= b
    BY LeastBound
  <1>2. AdmitCount(m, demand) = CHOOSE n \in B : \A b \in B : n <= b
    BY DEF AdmitCount
  <1> HIDE DEF B
  <1>3. AdmitCount(m, demand) \in B /\ \A b \in B : AdmitCount(m, demand) <= b
    BY <1>1, <1>2
  <1> QED BY <1>3 DEF B

\* The dimensions that bound a demand, and the bound each of them gives.
Bounding(m, demand) == {d \in Dims : demand[d] > 0 /\ Constrained(m, d)}
DimBound(m, demand, d) == Available(m, d) \div demand[d]
CapBound(m) == AtLeastZero(m.maxInflight - m.inflight)

\* A reservation is granted when no bound is zero, and then lowers every bound
\* by one.  It is granted although one is zero only by the slack.
LEMMA BoundsOfReservation ==
    ASSUME NEW m \in Managers, NEW demand \in Vectors
    PROVE  /\ \A d \in Bounding(m, demand) : DimBound(m, demand, d) \in Nat
           /\ CapBound(m) \in Nat
           /\ (/\ \A d \in Bounding(m, demand) : DimBound(m, demand, d) # 0
               /\ m.maxInflight > 0 => CapBound(m) # 0) =>
                 LET r == Reserved(m, demand)
                 IN  /\ CanReserve(m, demand)
                     /\ Bounding(r, demand) = Bounding(m, demand)
                     /\ \A d \in Bounding(m, demand) : DimBound(r, demand, d) = DimBound(m, demand, d) - 1
                     /\ r.maxInflight = m.maxInflight
                     /\ m.maxInflight > 0 => CapBound(r) = CapBound(m) - 1
           /\ CanReserve(m, demand) /\ m.maxInflight > 0 => CapBound(m) # 0
           /\ \A d \in Bounding(m, demand) : CanReserve(m, demand) /\ DimBound(m, demand, d) = 0 =>
                 /\ Slack[d] > 0 /\ Available(m, d) < demand[d]
                 /\ demand[d] > Slack[d] => ~CanReserve(Reserved(m, demand), demand)
  <1> DEFINE r == Reserved(m, demand)
             NoneIsZero == /\ \A d \in Bounding(m, demand) : DimBound(m, demand, d) # 0
                           /\ m.maxInflight > 0 => CapBound(m) # 0
  <1>1. /\ m.maxInflight \in Nat /\ m.inflight \in Nat
        /\ \A d \in Dims : demand[d] \in Nat /\ m.capacity[d] \in Nat /\ m.used[d] \in Nat /\ Slack[d] \in Nat
    BY SlackAssumption DEF Managers, Vectors
  <1>2. \A d \in Dims : Available(m, d) \in Nat
    BY <1>1 DEF Available, AtLeastZero
  <1>3. \A x \in Nat, y \in Nat \ {0} : x \div y \in Nat /\ (x \div y # 0 <=> y <= x)
    OBVIOUS
  <1>4. \A d \in Bounding(m, demand) : DimBound(m, demand, d) \in Nat
    BY <1>1, <1>2, <1>3 DEF Bounding, DimBound
  <1>5. CapBound(m) \in Nat /\ (m.inflight < m.maxInflight <=> CapBound(m) # 0)
    BY <1>1 DEF CapBound, AtLeastZero
  <1>6. \A d \in Bounding(m, demand) : /\ d \in Dims /\ demand[d] \in Nat \ {0} /\ Constrained(m, d)
                                       /\ DimBound(m, demand, d) # 0 <=> demand[d] <= Available(m, d)
    BY <1>1, <1>2, <1>3 DEF Bounding, DimBound
  <1>7. /\ r.capacity = m.capacity /\ r.maxInflight = m.maxInflight /\ r.inflight = m.inflight + 1
        /\ \A d \in Dims : r.used[d] = m.used[d] + demand[d]
    BY DEF Reserved, Managers
  <1> HIDE DEF r
  <1>8. Bounding(r, demand) = Bounding(m, demand)
    BY <1>7 DEF Bounding, Constrained
  <1>9. ASSUME NoneIsZero
        PROVE  /\ CanReserve(m, demand)
               /\ \A d \in Bounding(m, demand) : DimBound(r, demand, d) = DimBound(m, demand, d) - 1
               /\ m.maxInflight > 0 => CapBound(r) = CapBound(m) - 1
    <2>1. ASSUME NEW d \in Dims, Constrained(m, d) PROVE demand[d] <= Available(m, d) + Slack[d]
      <3>1. CASE demand[d] = 0
        BY <1>1, <1>2, <3>1
      <3>2. CASE demand[d] # 0
        <4>1. d \in Bounding(m, demand)
          BY <1>1, <2>1, <3>2 DEF Bounding
        <4> QED BY <1>1, <1>2, <1>6, <1>9, <4>1
      <3> QED BY <3>1, <3>2
    <2>2. CanReserve(m, demand)
      BY <1>5, <1>9, <2>1 DEF CanReserve, BelowInflightCap, FitsWithin
    <2>3. ASSUME NEW d \in Bounding(m, demand)
          PROVE  DimBound(r, demand, d) = DimBound(m, demand, d) - 1
      <3>1. d \in Dims /\ demand[d] \in Nat \ {0} /\ demand[d] <= Available(m, d)
        BY <1>6, <1>9
      <3>2. Available(r, d) = Available(m, d) - demand[d]
        BY <1>1, <1>7, <3>1 DEF Available, AtLeastZero
      <3>3. \A x \in Nat, y \in Nat \ {0} : y <= x => (x - y) \div y = (x \div y) - 1
        OBVIOUS
      <3> QED BY <1>2, <3>1, <3>2, <3>3 DEF DimBound
    <2>4. m.maxInflight > 0 => CapBound(r) = CapBound(m) - 1
      BY <1>1, <1>7, <2>2 DEF CapBound, AtLeastZero, CanReserve, BelowInflightCap
    <2> QED BY <2>2, <2>3, <2>4
  <1>10. CanReserve(m, demand) /\ m.maxInflight > 0 => CapBound(m) # 0
    BY <1>5 DEF CanReserve, BelowInflightCap
  <1>11. ASSUME NEW d \in Bounding(m, demand), CanReserve(m, demand), DimBound(m, demand, d) = 0
         PROVE  /\ Slack[d] > 0 /\ Available(m, d) < demand[d]
                /\ demand[d] > Slack[d] => ~CanReserve(r, demand)
    <2>1. /\ d \in Dims /\ demand[d] \in Nat \ {0} /\ Constrained(m, d)
          /\ Available(m, d) < demand[d] /\ demand[d] <= Available(m, d) + Slack[d]
      BY <1>1, <1>2, <1>6, <1>11 DEF CanReserve, FitsWithin
    <2>2. Available(r, d) = 0
      BY <1>1, <1>7, <2>1 DEF Available, AtLeastZero
    <2>3. Constrained(r, d)
      BY <1>7, <2>1 DEF Constrained
    <2>4. demand[d] > Slack[d] => ~FitsWithin(r, demand)
      BY <1>1, <2>1, <2>2, <2>3 DEF FitsWithin
    <2>5. Slack[d] > 0
      BY <1>1, <1>2, <2>1
    <2> QED BY <2>1, <2>4, <2>5 DEF CanReserve
  <1> QED BY <1>4, <1>5, <1>7, <1>8, <1>9, <1>10, <1>11 DEF r

\* What admit_count answers is granted, and a reservation lowers it by one;
\* beyond it there is at most one, by the slack: for every manager and demand.
LEMMA CountOfReservation ==
    ASSUME NEW m \in Managers, NEW demand \in Vectors
    PROVE  /\ AdmitCount(m, demand) # 0 =>
                 /\ CanReserve(m, demand)
                 /\ AdmitCount(m, demand) # Unlimited
                       => AdmitCount(Reserved(m, demand), demand) = AdmitCount(m, demand) - 1
           /\ AdmitCount(m, demand) = 0 /\ CanReserve(m, demand) =>
                 /\ \E d \in Dims : Slack[d] > 0 /\ Available(m, d) < demand[d]
                 /\ Coarse(demand) => ~CanReserve(Reserved(m, demand), demand)
  <1> DEFINE r == Reserved(m, demand)
             B == AdmitBounds(m, demand)
             n == AdmitCount(m, demand)
  <1>1. \A x : AdmitBounds(x, demand) = {DimBound(x, demand, d) : d \in Bounding(x, demand)}
                    \cup (IF x.maxInflight > 0 THEN {CapBound(x)} ELSE {})
    BY DEF AdmitBounds, DimBound, Bounding, CapBound
  <1>2. B \in SUBSET Nat
    BY <1>1, BoundsOfReservation
  <1>3. (\A b \in B : b # 0) =>
           /\ CanReserve(m, demand)
           /\ Bounding(r, demand) = Bounding(m, demand)
           /\ \A d \in Bounding(m, demand) : DimBound(r, demand, d) = DimBound(m, demand, d) - 1
           /\ r.maxInflight = m.maxInflight
           /\ m.maxInflight > 0 => CapBound(r) = CapBound(m) - 1
    <2>1. (\A b \in B : b # 0) => /\ \A d \in Bounding(m, demand) : DimBound(m, demand, d) # 0
                                  /\ m.maxInflight > 0 => CapBound(m) # 0
      BY <1>1
    <2> QED BY <2>1, BoundsOfReservation
  <1>4. CASE B = {}
    <2>1. n = Unlimited /\ n # 0
      BY <1>4 DEF AdmitCount, Unlimited
    <2> QED BY <1>3, <1>4, <2>1
  <1>5. CASE B # {}
    <2>1. n \in B /\ (\A b \in B : n <= b) /\ n \in Nat
      BY <1>2, <1>5, AdmitCountIsLeast
    <2>2. ASSUME n # 0 PROVE CanReserve(m, demand) /\ AdmitCount(r, demand) = n - 1
      <3>1. \A b \in B : b # 0
        <4> HIDE DEF B, n
        <4> QED BY <1>2, <2>1, <2>2
      <3>2. /\ Bounding(r, demand) = Bounding(m, demand)
            /\ \A d \in Bounding(m, demand) : DimBound(r, demand, d) = DimBound(m, demand, d) - 1
            /\ r.maxInflight = m.maxInflight
            /\ m.maxInflight > 0 => CapBound(r) = CapBound(m) - 1
        BY <1>3, <3>1
      <3> HIDE DEF r
      <3>3. AdmitBounds(r, demand) = {b - 1 : b \in B}
        <4>1. \A b \in B : b - 1 \in AdmitBounds(r, demand)
          BY <1>1, <3>2
        <4>2. \A c \in AdmitBounds(r, demand) : \E b \in B : c = b - 1
          BY <1>1, <3>2
        <4> QED BY <4>1, <4>2
      <3> DEFINE C == AdmitBounds(r, demand)
      <3>4. C \in SUBSET Nat /\ C # {}
        BY <1>2, <1>5, <3>1, <3>3
      <3>5. AdmitCount(r, demand) \in C /\ \A c \in C : AdmitCount(r, demand) <= c
        BY <3>4, AdmitCountIsLeast
      <3> HIDE DEF B, n
      <3>6. n - 1 \in C /\ \A c \in C : n - 1 <= c
        BY <1>2, <2>1, <3>3
      <3> HIDE DEF C
      <3>7. AdmitCount(r, demand) <= n - 1 /\ n - 1 <= AdmitCount(r, demand)
        BY <3>5, <3>6
      <3>8. AdmitCount(r, demand) \in Nat
        BY <3>4, <3>5
      <3>9. AdmitCount(r, demand) = n - 1
        BY <2>1, <3>7, <3>8
      <3> QED BY <1>3, <3>1, <3>9
    <2>3. ASSUME n = 0, CanReserve(m, demand)
          PROVE  /\ \E d \in Dims : Slack[d] > 0 /\ Available(m, d) < demand[d]
                 /\ Coarse(demand) => ~CanReserve(r, demand)
      <3>1. PICK d \in Bounding(m, demand) : DimBound(m, demand, d) = 0
        BY <1>1, <2>1, <2>3, BoundsOfReservation
      <3>2. /\ Slack[d] > 0 /\ Available(m, d) < demand[d]
            /\ demand[d] > Slack[d] => ~CanReserve(r, demand)
        BY <2>3, <3>1, BoundsOfReservation
      <3>3. d \in Dims /\ demand[d] \in Nat /\ demand[d] > 0
        BY <3>1 DEF Bounding, Vectors
      <3>4. Coarse(demand) => demand[d] > Slack[d]
        BY <3>3 DEF Coarse
      <3> QED BY <3>2, <3>3, <3>4
    <2> HIDE DEF n
    <2> QED BY <2>2, <2>3 DEF n
  <1> QED BY <1>4, <1>5

\* In every reachable state what admit_count answers is granted, and at most one
\* task more, by the slack: for any dimensions, capacities, demands and callers.
THEOREM AdmitCountCorrect == Spec => []AdmitCountAgrees
  <1>1. IInv => AdmitCountAgrees
    BY CountOfReservation DEF IInv, TypeOK, AdmitCountAgrees
  <1> QED BY InductiveInvariant, <1>1, PTL


------------------------------------------------------------------------------
Oversized == \E d \in Dims : Constrained(mgr, d) /\ perTask[d] > mgr.capacity[d] + Slack[d]

LEMMA OversizedNeverFits ==
    ASSUME IInv, Oversized
    PROVE  ~CanReserve(mgr, perTask)
  <1>1. PICK d \in Dims : Constrained(mgr, d) /\ perTask[d] > mgr.capacity[d] + Slack[d]
    BY DEF Oversized
  <1>2. /\ mgr.capacity[d] \in Nat /\ mgr.used[d] \in Nat /\ perTask[d] \in Nat /\ Slack[d] \in Nat
    BY SlackAssumption DEF IInv, TypeOK, Managers, Vectors
  <1>3. ~(perTask[d] <= Available(mgr, d) + Slack[d])
    BY <1>1, <1>2 DEF Available, AtLeastZero
  <1> QED BY <1>1, <1>3 DEF CanReserve, FitsWithin

LEMMA OversizedIsFixed ==
    ASSUME IInv, [Next]_vars
    PROVE  Oversized' => Oversized
  <1>1. mgr'.capacity = mgr.capacity /\ perTask' = perTask
    <2>1. /\ mgr \in Managers /\ perTask \in Vectors
      BY DEF IInv, TypeOK
    <2>2. /\ Reserved(mgr, perTask).capacity = mgr.capacity
          /\ Released(mgr, perTask).capacity = mgr.capacity
      BY <2>1 DEF Reserved, Released, Managers
    <2> QED BY <2>2 DEF Next, Driver, Launch, Await, vars, runner, Begin,
                LaunchReserved, Refused, LaunchForced, AllLaunched, Collect,
                CollectFailure, Return, Finish
  <1> QED BY <1>1 DEF Oversized, Constrained

\* A task too large for the runner runs alone in its call.
THEOREM OversizedAlone == Spec => []OversizedRunsAlone
  <1>1. Init => OversizedRunsAlone
    BY DEF Init, OversizedRunsAlone
  <1>2. IInv /\ OversizedRunsAlone /\ [Next]_vars => OversizedRunsAlone'
    <2> SUFFICES ASSUME IInv, OversizedRunsAlone, [Next]_vars, Oversized'
                 PROVE  \A c \in Calls : \A i, j \in inflight'[c] : i = j
      BY DEF OversizedRunsAlone, Oversized
    <2>1. /\ Oversized /\ ~CanReserve(mgr, perTask)
          /\ \A c \in Calls : \A i, j \in inflight[c] : i = j
      BY OversizedIsFixed, OversizedNeverFits DEF OversizedRunsAlone, Oversized
    <2>2. TypeOK /\ LoopInvariant
      BY DEF IInv
    <2>3. CASE UNCHANGED inflight
      BY <2>1, <2>3
    <2>4. ASSUME NEW c \in Calls, LaunchReserved(c)
          PROVE  FALSE
      BY <2>1, <2>4 DEF LaunchReserved
    <2>5. ASSUME NEW c \in Calls, LaunchForced(c)
          PROVE  \A x \in Calls : \A i, j \in inflight'[x] : i = j
      <3>1. inflight[c] = {}
        BY <2>2, <2>5 DEF LaunchForced, LoopInvariant
      <3>2. \/ inflight' = inflight
            \/ inflight' = [inflight EXCEPT ![c] = inflight[c] \cup {nextIdx[c] + 1}]
        BY <2>5 DEF LaunchForced, Submit, Submitted, SubmitRaised
      <3>3. \/ inflight' = inflight
            \/ inflight' = [inflight EXCEPT ![c] = {nextIdx[c] + 1}]
        BY <3>1, <3>2
      <3> QED BY <2>1, <2>2, <3>3 DEF TypeOK
    <2>6. ASSUME NEW c \in Calls, NEW k \in Tasks,
                 Collect(c, k) \/ CollectFailure(c, k)
          PROVE  \A x \in Calls : \A i, j \in inflight'[x] : i = j
      BY <2>1, <2>2, <2>6, SMTT(40) DEF Collect, CollectFailure, TypeOK
    <2> QED BY <2>3, <2>4, <2>5, <2>6
            DEF Next, Driver, Launch, Await, vars, locals,
                Begin, Refused, AllLaunched, Return, Finish
  <1> QED BY InductiveInvariant, <1>1, <1>2, PTL DEF Spec
------------------------------------------------------------------------------
LEMMA AbstractInit == Init => Abstract!Init
  BY DEF Init, Abstract!Init, Abstract!Tasks, Tasks, Running

LEMMA AbstractStep ==
    ASSUME IInv, [Next]_vars
    PROVE  [Abstract!Next]_(Abstract!vars)
  <1> DEFINE status == [c \in Calls |-> IF Running(c) THEN "running" ELSE pc[c]]
             answer == [c \in Calls |-> IF pc[c] = "done" THEN results[c] ELSE <<>>]
  <1>0. TypeOK /\ LoopInvariant
    BY DEF IInv
  <1>1. CASE UNCHANGED vars
    BY <1>1 DEF vars, locals, Running, Abstract!vars
  <1>2. ASSUME NEW c \in Calls, Begin(c)
        PROVE  Abstract!Call(c)
    BY <1>0, <1>2 DEF Begin, TypeOK, Abstract!Call, Running
  <1>3. ASSUME NEW c \in Calls, pc[c] \in {"launch", "force"}, MoreToLaunch(c),
               Submitted(c), results' = results
        PROVE  Abstract!Submit(c)
    BY <1>0, <1>3 DEF Submitted, TypeOK, MoreToLaunch, Abstract!Submit, Running
  <1>4. ASSUME NEW c \in Calls, pc[c] \in {"launch", "force"}, MoreToLaunch(c),
               SubmitRaised(c), results' = results
        PROVE  Abstract!Raise(c)
    BY <1>0, <1>4 DEF SubmitRaised, TypeOK, MoreToLaunch, Abstract!Raise, Running
  <1>5. ASSUME NEW c \in Calls, Refused(c) \/ AllLaunched(c)
        PROVE  UNCHANGED Abstract!vars
    BY <1>0, <1>5
       DEF Refused, AllLaunched, AfterRefusal, TypeOK, Abstract!vars, Running
  <1>6. ASSUME NEW c \in Calls, NEW i \in Tasks, Collect(c, i)
        PROVE  UNCHANGED Abstract!vars
    BY <1>0, <1>6 DEF Collect, TypeOK, Abstract!vars, Running
  <1>7. ASSUME NEW c \in Calls, NEW i \in Tasks, CollectFailure(c, i)
        PROVE  Abstract!Raise(c)
    BY <1>0, <1>7 DEF CollectFailure, TypeOK, Tasks, Abstract!Raise,
                      Abstract!Tasks, Running
  <1>8. ASSUME NEW c \in Calls, Return(c)
        PROVE  Abstract!Return(c)
    <2>1. \A i \in Tasks : results[c][i] = <<c, i>> /\ ray[c][i] = "ok"
      <3>1. /\ pc[c] = "wait" /\ inflight[c] = {} /\ nextIdx[c] = NTasks
        BY <1>0, <1>8 DEF Return, LoopInvariant
      <3>2. \A i \in Tasks : i <= nextIdx[c]
        BY <3>1, DispatchAssumption DEF Tasks
      <3> QED BY <1>0, <3>1, <3>2 DEF LoopInvariant, Value
    <2>2. results[c] = [i \in Tasks |-> <<c, i>>]
      BY <1>0, <2>1 DEF TypeOK
    <2>3. \A x \in Calls : pc'[x] = IF x = c THEN "done" ELSE pc[x]
      BY <1>0, <1>8 DEF Return, TypeOK
    <2> QED BY <1>0, <1>8, <2>1, <2>2, <2>3
            DEF Return, TypeOK, Tasks, Abstract!Return, Abstract!Tasks, Running
  <1>9. ASSUME NEW c \in Calls, NEW i \in Tasks, Finish(c, i)
        PROVE  Abstract!Finish(c, i)
    BY <1>0, <1>9 DEF Finish, TypeOK, locals, Abstract!Finish, Running
  <1>10. ASSUME NEW c \in Calls, LaunchForced(c)
         PROVE  MoreToLaunch(c)
    BY <1>0, <1>10 DEF LoopInvariant, LaunchForced, MoreToLaunch
  <1> QED
    BY <1>1, <1>2, <1>3, <1>4, <1>5, <1>6, <1>7, <1>8, <1>9, <1>10
       DEF Next, Driver, Launch, Await, LaunchReserved, LaunchForced, Submit,
           Abstract!Next, Tasks, Abstract!Tasks

\* The loop implements TaskDispatch: in-order, at-most-once submission and
\* answers complete and in order.
THEOREM Refinement == Spec => ImplementsTaskDispatch
  BY InductiveInvariant, AbstractInit, AbstractStep, PTL
     DEF Spec, ImplementsTaskDispatch, Abstract!Spec
=============================================================================
