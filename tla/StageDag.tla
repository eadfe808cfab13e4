------------------------------ MODULE StageDag ------------------------------
(***************************************************************************)
(* How the driver turns a relation into tasks for the pool of actors.      *)
(*                                                                         *)
(* The driver submits tasks without waiting for any: a task names what it  *)
(* reads by reference.  Each actor runs its tasks one at a time in the     *)
(* order of submission, and a reducer fetches its inputs inside the task,  *)
(* so that an actor whose first task lacks an input is blocked.  A plan    *)
(* with nested shuffles goes through the stage executor, a plan with one   *)
(* boundary through the method of that operator (its route).               *)
(***************************************************************************)
EXTENDS Rows, Partitions

CONSTANTS
    NWorkers,     \* actors of the pool, and buckets of a shuffle
    HotMin,       \* rows below which a key is never salted (the code's 64)
    HotFactor,    \* multiple of the even share that makes a key hot (the code's 4)
    Queries       \* the queries asked, a sequence

ASSUME NWorkersAssumption == NWorkers \in Nat \ {0}

VARIABLES
    query,        \* what the user collects
    relation,     \* what each node of its plan means, on one node
    pc,           \* the next node of the plan the driver visits
    outs,         \* node -> references to the shards of its output
    tasks,        \* all tasks in the order of their submission
    result,       \* task -> its output, one table per returned reference
    answer        \* what the driver assembled, or Pending

vars == <<query, relation, pc, outs, tasks, result, answer>>

Pending == [is |-> "pending", rows |-> <<>>]
Failed == [is |-> "raised", rows |-> <<>>]
Answer(rows) == [is |-> "table", rows |-> rows]
Buckets == NWorkers
WorkerFor(i) == (i - 1) % NWorkers
BucketWorker(j) == (j - 1) % NWorkers

-----------------------------------------------------------------------------
\* Partitioning, hashing and the regions above a boundary.
PartitionTables(t) == Slices(t, IF query.hint > 1 THEN query.hint ELSE NWorkers)

\* One of DuckDB's hashes: any function of the key columns will do.
Hash(x) == IF x = NULL THEN 0 ELSE (x * query.hash) % Buckets
\* Mutant: each worker hashes with a seed of its own.
BucketizeByRow(t) == [j \in 1..Buckets |->
    SelectSeq(t, LAMBDA r : (Hash(r.k) + Len(t)) % Buckets = j - 1)]
Bucketize(t) == [j \in 1..Buckets |-> SelectSeq(t, LAMBDA r : Hash(r.k) = j - 1)]

Region(local, t) ==
    CASE local = "filter" -> SelectSeq(t, LAMBDA r : r.v # NULL /\ r.v > 0)
      [] local = "add" -> [i \in DOMAIN t |-> [t[i] EXCEPT !.v = IF @ = NULL THEN NULL ELSE @ + 1]]
      [] local = "limit" -> Limit(t, 1)
      [] local = "top 2" -> Limit(t, 2)
      [] OTHER -> t
Pushable(local) == local \notin {"limit", "top 2"}

(* A scan's units (files, fragments), here one row each: fragments and hive *)
(* files are split evenly, other files are placed largest first on the      *)
(* worker with the fewest bytes (a file whose size is unreadable counts 0). *)
EvenSplit(units) == Slices(units, Min({Len(units), NWorkers}))
Size(unit) == IF unit.v = NULL THEN 0 ELSE unit.v
\* Mutant: the comparison of two loads is reversed.
MostLoaded(load) ==
    CHOOSE w \in DOMAIN load : \A x \in DOMAIN load : load[w] > load[x] \/ (load[w] = load[x] /\ w <= x)
LeastLoaded(load) ==
    CHOOSE w \in DOMAIN load : \A x \in DOMAIN load : load[w] < load[x] \/ (load[w] = load[x] /\ w <= x)
Largest(units, left) ==
    CHOOSE i \in left : \A j \in left : \/ Size(units[i]) > Size(units[j])
                                      \/ (Size(units[i]) = Size(units[j]) /\ i <= j)
Unplaced(units) == [left |-> DOMAIN units, load |-> [w \in 0..NWorkers - 1 |-> 0],
                    to |-> [i \in DOMAIN units |-> 0]]
PlaceNext(acc, units) ==
    LET i == Largest(units, acc.left)
        w == LeastLoaded(acc.load)
    IN [left |-> acc.left \ {i}, load |-> [acc.load EXCEPT ![w] = @ + Size(units[i])],
        to |-> [acc.to EXCEPT ![i] = w]]
AssignBySize(units) ==
    LET acc[n \in 0..Len(units)] == IF n = 0 THEN Unplaced(units) ELSE PlaceNext(acc[n - 1], units)
    IN acc[Len(units)].to
OnWorker(units, assign, w) ==
    Concat([i \in DOMAIN units |-> IF assign[i] = w THEN <<units[i]>> ELSE <<>>])

-----------------------------------------------------------------------------
(* What the relation means: one node evaluates the whole plan.              *)
Boundary(node, in) ==
    CASE node.op = "Aggregate" -> Aggregate(in[1], node.arg)
      [] node.op = "Join" -> JoinUsing(in[1], in[2], node.arg)
      [] node.op = "Order" -> OrderBy(in[1])
      [] node.op = "Distinct" -> Distinct(in[1])
      [] node.op = "SetOp" -> SetOp(in[1], in[2], node.arg)
      [] OTHER -> in[1]
Meaning(q) ==
    LET val[n \in DOMAIN q.plan] ==
            LET node == q.plan[n]
            IN Region(node.local,
                 IF node.op = "Scan" THEN q.tables[node.arg]
                 ELSE Boundary(node, [i \in DOMAIN node.in |-> val[node.in[i]]]))
    IN val
(* Plans are trees in post-order, as the planner cuts them: a node comes    *)
(* after its inputs.  A route is that of the operator at the root.          *)
PostOrder(plan) ==
    /\ Len(plan) \in Nat /\ DOMAIN plan = 1..Len(plan)
    /\ \A n \in DOMAIN plan :
          /\ \A i \in DOMAIN plan[n].in : plan[n].in[i] \in 1..(n - 1)
          /\ plan[n].op # "Scan" => 1 \in DOMAIN plan[n].in
          /\ plan[n].op \in {"Join", "SetOp"} => 2 \in DOMAIN plan[n].in
RouteFits(route, root) ==
    /\ route \in {"aggregate", "stream_aggregate"} => root.op = "Aggregate"
    /\ route \in {"join", "join_streaming"} => root.op = "Join"
FilesHaveSizes(units) == units \in Seq(Range(units)) /\ \A i \in DOMAIN units : Size(units[i]) \in Nat
ASSUME QueryAssumption ==
    \A i \in DOMAIN Queries :
        LET q == Queries[i]
        IN /\ PostOrder(q.plan) /\ q.plan # <<>> /\ RouteFits(q.route, q.plan[Len(q.plan)])
           /\ q.hint \in Nat
           /\ \A n \in DOMAIN q.plan : Len(Meaning(q)[n]) \in Nat
           /\ q.route = "scan_files" => FilesHaveSizes(Meaning(q)[Len(q.plan)])
Root == Len(query.plan)
Input(i) == relation[query.plan[Root].in[i]]

-----------------------------------------------------------------------------
(* Tasks and references.  A reference is a table put in the object store   *)
(* (t = 0), or output b of task t (b = 0: its only output).                 *)
Put(table) == [t |-> 0, b |-> 0, put |-> table]
Out(t, b) == [t |-> t, b |-> b, put |-> <<>>]
Task(w, fn, refs, arg) == [w |-> w, fn |-> fn, refs |-> refs, arg |-> arg]

(* A submission: the tasks so far, and the references the last step made.   *)
Nothing(refs) == [tasks |-> <<>>, out |-> refs]
Submitting(sub, ts) ==
    [tasks |-> sub.tasks \o ts,
     out |-> [i \in DOMAIN ts |-> Out(Len(tasks) + Len(sub.tasks) + i, 0)]]
\* One task per shard, on the workers in turn.
Each(sub, fn, arg) ==
    Submitting(sub, [i \in DOMAIN sub.out |-> Task(WorkerFor(i), fn, <<sub.out[i]>>, arg)])
\* One reducer per bucket, which reads that bucket of every producer.
BucketOf(refs, j) == [p \in DOMAIN refs |-> Out(refs[p].t, j)]
Reduce(sub, fn, arg) ==
    Submitting(sub, [j \in 1..Buckets |-> Task(BucketWorker(j), fn, BucketOf(sub.out, j), arg)])
\* Mutant: the reducers of a shuffle are submitted before its producers.
ShuffleReducersFirst(sub, fn, arg) ==
    LET made == Each(sub, "bucketize", 0)
        first == Len(tasks) + Len(sub.tasks)
        reducers == [j \in 1..Buckets |-> Task(BucketWorker(j), fn,
                       [p \in DOMAIN made.out |-> Out(first + Buckets + p, j)], arg)]
    IN [tasks |-> sub.tasks \o reducers \o SubSeq(made.tasks, Len(sub.tasks) + 1, Len(made.tasks)),
        out |-> [j \in 1..Buckets |-> Out(first + j, 0)]]
Shuffle(sub, fn, arg) == Reduce(Each(sub, "bucketize", 0), fn, arg)
OnOne(sub, fn, arg) == Submitting(sub, <<Task(0, fn, sub.out, arg)>>)
ShuffleBoth(left, right, fn, arg) ==
    LET l == Each(Nothing(left), "bucketize", 0)
        r == Each([l EXCEPT !.out = right], "bucketize", 0)
    IN Submitting(r, [j \in 1..Buckets |->
           Task(BucketWorker(j), fn, BucketOf(l.out, j) \o BucketOf(r.out, j), <<Len(left), arg>>)])
ThenLocal(sub, local) ==
    IF local = "none" THEN sub
    ELSE IF Pushable(local) THEN Each(sub, "local", local) ELSE OnOne(sub, "local", local)

Puts(tables) == Nothing([i \in DOMAIN tables |-> Put(tables[i])])
(* The tasks of one node of the plan.  A scan partitions the relation it   *)
(* ends, whose rows have been through the node's region already.            *)
Visit(node, in) ==
    LET boundary ==
            CASE node.op = "Scan" -> Each(Puts(PartitionTables(relation[pc])), "select", 0)
              [] node.op = "Aggregate" ->
                   LET partials == Each(Nothing(in[1]), "partial", node.arg)
                   IN IF node.arg THEN Shuffle(partials, "final", TRUE)
                      ELSE OnOne(partials, "final", FALSE)
              [] node.op = "Join" -> ShuffleBoth(in[1], in[2], "join", node.arg)
              [] node.op = "Order" -> OnOne(Each(Nothing(in[1]), "sort", 0), "sort", 0)
              [] node.op = "Distinct" -> Shuffle(Nothing(in[1]), "distinct", 0)
              [] node.op = "SetOp" -> ShuffleBoth(in[1], in[2], "setop", node.arg)
              [] node.op = "Repartition" /\ node.arg -> Shuffle(Nothing(in[1]), "select", 0)
              [] OTHER -> Nothing(in[1])
    IN ThenLocal(boundary, node.local)

-----------------------------------------------------------------------------
(* The salted buckets of an inner join on one key.  NOT IN is unknown when *)
(* the key is NULL or the hot keys hold a NULL.                             *)
HotKeys(l) ==
    IF Len(l) < Buckets * HotMin THEN {}
    ELSE {k \in {r.k : r \in Range(l)} :
             Cardinality({i \in DOMAIN l : l[i].k = k}) > Max({HotMin, (Len(l) \div Buckets) * HotFactor})}
Cold(k, hot) == k # NULL /\ NULL \notin hot /\ k \notin hot
Hot(k, hot) == k # NULL /\ k \in hot
SaltedLeft(l, hot) ==
    LET spread == SelectSeq(l, LAMBDA r : Hot(r.k, hot))
    IN [j \in 1..Buckets |->
           Bucketize(SelectSeq(l, LAMBDA r : Cold(r.k, hot)))[j]
           \o Concat([i \in DOMAIN spread |-> IF (i - 1) % Buckets = j - 1 THEN <<spread[i]>> ELSE <<>>])]
SaltedRight(r, hot) ==
    [j \in 1..Buckets |-> Bucketize(SelectSeq(r, LAMBDA x : Cold(x.k, hot)))[j]
                          \o SelectSeq(r, LAMBDA x : Hot(x.k, hot))]
JoinedBuckets(l, r, how) ==
    LET hot == IF how = "inner" THEN HotKeys(l) ELSE {}
    IN IF hot = {} THEN <<Bucketize(l), Bucketize(r)>>
       ELSE <<SaltedLeft(l, hot), SaltedRight(r, hot)>>

(* The routes: what a method of RayRunner submits, and what it does with   *)
(* the tables it fetches.                                                   *)
DistributedAggregate(input, grouped) ==
    LET partials == Each(input, "partial", grouped)
    IN IF grouped THEN Shuffle(partials, "final", TRUE) ELSE partials
JoinStreaming(left, right, how) ==
    ShuffleBoth(Puts(PartitionTables(left)).out, Puts(PartitionTables(right)).out, "join", how)
DistributedJoin(left, right, how) ==
    LET bs == JoinedBuckets(left, right, how)
    IN Submitting(Nothing(<<>>), [j \in 1..Buckets |->
           Task(BucketWorker(j), "join", <<Put(bs[1][j]), Put(bs[2][j])>>, <<1, how>>)])
FilesTask(units, assign, w) == Task(w, "select", <<Put(OnWorker(units, assign, w))>>, 0)
FirstOfItsWorker(assign, i) == \A j \in 1..(i - 1) : assign[j] # assign[i]
FileTasks(units) ==
    LET assign == AssignBySize(units)
    IN Concat([i \in DOMAIN units |->
           IF FirstOfItsWorker(assign, i) THEN <<FilesTask(units, assign, assign[i])>> ELSE <<>>])
ScanFiles(units) == Submitting(Nothing(<<>>), FileTasks(units))
Route(root) ==
    LET whole == Puts(PartitionTables(relation[Root]))
        input == Puts(PartitionTables(Input(1)))
        units == relation[Root]
    IN CASE query.route = "sort" -> Each(whole, "sort", 0)
         [] query.route = "distinct" -> Shuffle(whole, "distinct", 0)
         [] query.route = "top_k" -> Each(whole, "top", root.arg)
         [] query.route = "aggregate" -> DistributedAggregate(input, root.arg)
         [] query.route = "stream_aggregate" -> Each(input, "batches", root.arg)
         [] query.route = "join_streaming" -> JoinStreaming(Input(1), Input(2), root.arg)
         [] query.route = "join" -> DistributedJoin(Input(1), Input(2), root.arg)
         [] query.route \in {"scan_lance", "read_hive"} -> Each(Puts(EvenSplit(units)), "select", 0)
         [] query.route = "scan_files" /\ Len(units) > 1 -> ScanFiles(units)
         [] OTHER -> Each(whole, "select", 0)
Assemble(root, tables) ==
    LET all == Concat(tables)
    IN CASE query.route = "sort" -> OrderBy(all)
         [] query.route = "top_k" -> Limit(OrderBy(all), root.arg)
         [] query.route = "aggregate" /\ ~root.arg -> FinalAgg(all, FALSE)
         [] query.route = "stream_aggregate" -> IF all = <<>> THEN <<>> ELSE FinalAgg(all, root.arg)
         [] OTHER -> all

-----------------------------------------------------------------------------
(* The methods of _JudeWorker.                                              *)
Read(ref) == IF ref.t = 0 THEN ref.put ELSE result[ref.t][IF ref.b = 0 THEN 1 ELSE ref.b]
Sql(fn, arg, t) ==
    CASE fn = "partial" -> PartialAgg(t, arg)
      [] fn = "final" -> FinalAgg(t, arg)
      [] fn = "sort" -> OrderBy(t)
      [] fn = "top" -> Limit(OrderBy(t), arg)
      [] fn = "local" -> Region(arg, t)
      [] OTHER -> t
SqlOnRefs(in, fn, arg) == Sql(fn, arg, Concat(in))
StreamPartialAgg(t, grouped) == Concat([i \in DOMAIN t |-> PartialAgg(<<t[i]>>, grouped)])
DistinctBucket(in) == Distinct(Concat(in))
Sides(in, n) == <<Concat(SubSeq(in, 1, n)), Concat(SubSeq(in, n + 1, Len(in)))>>
JoinBucketGroup(in, n, how) == LET s == Sides(in, n) IN JoinBuckets(s[1], s[2], how)
SetOpOnRefs(in, n, kw) == LET s == Sides(in, n) IN SetOp(s[1], s[2], kw)
Executed(task) ==
    LET in == [i \in DOMAIN task.refs |-> Read(task.refs[i])]
        arg == task.arg
    IN CASE task.fn = "bucketize" -> Bucketize(in[1])
         [] task.fn = "batches" -> <<StreamPartialAgg(in[1], arg)>>
         [] task.fn = "join" -> <<JoinBucketGroup(in, arg[1], arg[2])>>
         [] task.fn = "setop" -> <<SetOpOnRefs(in, arg[1], arg[2])>>
         [] task.fn = "distinct" -> <<DistinctBucket(in)>>
         [] OTHER -> <<SqlOnRefs(in, task.fn, arg)>>
Ended == DOMAIN result
(* bucketize returns a list of tables also for one bucket; asked for one   *)
(* output, Ray hands that list to the reducer as if it were a table.        *)
Raises(task) == \E i \in DOMAIN task.refs : task.refs[i].b = 1 /\ Buckets = 1
RaisedTask(t) == \E i \in DOMAIN tasks[t].refs :
    tasks[t].refs[i].t # 0 /\ result[tasks[t].refs[i].t] = <<>>

-----------------------------------------------------------------------------
Init ==
    /\ \E i \in DOMAIN Queries : query = Queries[i] /\ relation = Meaning(Queries[i])
    /\ pc = 1 /\ outs = <<>> /\ tasks = <<>> /\ result = <<>>
    /\ answer = Pending

IsDag == query.route = "dag"
Submitted(sub) == /\ tasks' = tasks \o sub.tasks
                  /\ outs' = Append(outs, sub.out)
                  /\ UNCHANGED <<query, relation, result, answer>>
VisitNode ==
    /\ IsDag /\ pc <= Root
    /\ pc' = pc + 1
    /\ LET node == query.plan[pc]
       IN Submitted(Visit(node, [i \in DOMAIN node.in |-> outs[node.in[i]]]))
SubmitRoute ==
    /\ ~IsDag /\ pc <= Root
    /\ pc' = Root + 1
    /\ Submitted(Route(query.plan[Root]))

(* The next task of an actor, in the order of submission.                   *)
Own(w) == {t \in DOMAIN tasks : tasks[t].w = w /\ t \notin Ended}
First(w) == Min(Own(w))
Ready(t) == \A i \in DOMAIN tasks[t].refs : tasks[t].refs[i].t \in Ended \cup {0}
Execute(w) ==
    /\ Own(w) # {} /\ Ready(First(w))
    /\ LET t == First(w)
       IN result' = [x \in Ended \cup {t} |->
              IF x \in Ended THEN result[x]
              ELSE IF Raises(tasks[t]) \/ RaisedTask(t) THEN <<>> ELSE Executed(tasks[t])]
    /\ UNCHANGED <<query, relation, pc, outs, tasks, answer>>

Final == outs[Len(outs)]
Gather ==
    /\ pc > Root /\ answer = Pending
    /\ \A i \in DOMAIN Final : Final[i].t \in Ended \cup {0}
    /\ answer' = IF \E i \in DOMAIN Final : Final[i].t # 0 /\ result[Final[i].t] = <<>>
                 THEN Failed
                 ELSE LET tables == [i \in DOMAIN Final |-> Read(Final[i])]
                      IN Answer(IF IsDag THEN Concat(tables) ELSE Assemble(query.plan[Root], tables))
    /\ UNCHANGED <<query, relation, pc, outs, tasks, result>>

Next == VisitNode \/ SubmitRoute \/ Gather \/ \E w \in 0..NWorkers - 1 : Execute(w)
Spec == Init /\ [][Next]_vars

-----------------------------------------------------------------------------
(* collect and the methods of RayRunner answer what one node would: the    *)
(* shuffles, the two phases, the salted buckets, the regions pushed to the  *)
(* shards and the merges lose, invent and misplace no row, whatever the     *)
(* order in which actors ran the tasks; an ORDER BY at the root is ordered. *)
AnswerAgrees ==
    answer # Pending =>
        /\ answer.is = "table"
        /\ SameRows(answer.rows, relation[Root])
        /\ query.plan[Root].op = "Order" => IsOrdered(answer.rows)

(* A reducer blocks its actor while it fetches.  No set of actors waits     *)
(* for one another: while a task is left, the first task of some actor has  *)
(* all its inputs.                                                          *)
SomeActorCanRun ==
    (\E w \in 0..NWorkers - 1 : Own(w) # {})
        => \E w \in 0..NWorkers - 1 : Own(w) # {} /\ Ready(First(w))

(* The files of a scan are spread so that no worker reads more than the     *)
(* least loaded one by more than one file (one file that is larger than all *)
(* the others does not slow the rest down).                                 *)
Total(f, n) == LET sum[m \in 0..n] == IF m = 0 THEN 0 ELSE sum[m - 1] + f[m] IN sum[n]
Bytes(files) == Total([i \in DOMAIN files |-> Size(files[i])], Len(files))
Load(w) == Total([t \in DOMAIN tasks |-> IF tasks[t].w = w THEN Bytes(tasks[t].refs[1].put) ELSE 0],
                 Len(tasks))
ScanIsBalanced ==
    (query.route = "scan_files" /\ tasks # <<>>)
        => \A w, x \in 0..NWorkers - 1 :
              Load(w) <= Load(x) \/ \E r \in Range(relation[Root]) : Load(w) - Load(x) <= Size(r)
=============================================================================
