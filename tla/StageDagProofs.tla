--------------------------- MODULE StageDagProofs ---------------------------
(***************************************************************************)
(* That reducers, which block their actor while they fetch, never block    *)
(* the pool, and that the files of a scan are spread evenly: for any number *)
(* of actors, any plans, tables, sizes and hashes, and any order in which   *)
(* actors run their queues.                                                 *)
(***************************************************************************)
EXTENDS StageDag, SequenceLemmas, FiniteSetTheorems

\* A sequence of anything.
IsSeq(s) == s \in Seq({s[i] : i \in DOMAIN s})

\* A reference to one of the first n tasks, or to the object store; a task that
\* runs on an actor and reads from tasks before the n-th; a submission.
RefSound(r, n) == r.t \in 0..n
RefsSound(refs, n) == IsSeq(refs) /\ \A i \in 1..Len(refs) : RefSound(refs[i], n)
TaskSound(task, n) == task.w \in 0..(NWorkers - 1) /\ RefsSound(task.refs, n - 1)
SubSound(sub) ==
    /\ IsSeq(sub.tasks) /\ IsSeq(sub.out)
    /\ \A i \in 1..Len(sub.tasks) : TaskSound(sub.tasks[i], Len(tasks) + i)
    /\ RefsSound(sub.out, Len(tasks) + Len(sub.tasks))

\* Every task reads from tasks submitted before it.
TasksSound == IsSeq(tasks) /\ \A i \in 1..Len(tasks) : TaskSound(tasks[i], i)
OutsSound == IsSeq(outs) /\ \A n \in 1..Len(outs) : RefsSound(outs[n], Len(tasks))
QuerySound == \E i \in DOMAIN Queries : query = Queries[i] /\ relation = Meaning(Queries[i])
PcSound == pc \in 1..(Root + 1) /\ (IsDag => Len(outs) = pc - 1)

BackwardInv == TasksSound /\ OutsSound /\ QuerySound /\ PcSound

-----------------------------------------------------------------------------
\* A function on an initial segment of the numbers is a sequence.
LEMMA SegmentIsSeq ==
    ASSUME NEW n \in Nat, NEW f, f = [i \in 1..n |-> f[i]]
    PROVE  IsSeq(f) /\ Len(f) = n /\ DOMAIN f = 1..n
  <1> DEFINE S == {f[i] : i \in DOMAIN f}
  <1>1. DOMAIN f = 1..n
    OBVIOUS
  <1>2. f \in [1..n -> S]
    BY <1>1
  <1> HIDE DEF S
  <1>3. f \in Seq(S) /\ Len(f) = n
    BY <1>2
  <1> QED BY <1>1, <1>3 DEF IsSeq, S

\* The length and the elements of a sequence of anything.
LEMMA SeqFacts ==
    ASSUME NEW s, IsSeq(s)
    PROVE  Len(s) \in Nat /\ DOMAIN s = 1..Len(s)
  BY DEF IsSeq

\* Two sequences after each other.
LEMMA ConcatIsSeq ==
    ASSUME NEW s, NEW t, IsSeq(s), IsSeq(t)
    PROVE  /\ IsSeq(s \o t) /\ Len(s \o t) = Len(s) + Len(t)
           /\ \A i \in 1..Len(s) : (s \o t)[i] = s[i]
           /\ \A i \in 1..Len(t) : (s \o t)[Len(s) + i] = t[i]
           /\ \A i \in 1..Len(s \o t) : i <= Len(s) \/ (i - Len(s) \in 1..Len(t) /\ (s \o t)[i] = t[i - Len(s)])
  <1> DEFINE S == {s[i] : i \in DOMAIN s} \cup {t[i] : i \in DOMAIN t}
             c == s \o t
  <1>1. s \in Seq(S) /\ t \in Seq(S)
    <2>1. \A A, B : \A q \in Seq(A) : A \subseteq B => q \in Seq(B)
      OBVIOUS
    <2> QED BY <2>1 DEF IsSeq
  <1>2. c \in Seq(S) /\ Len(c) = Len(s) + Len(t) /\ Len(s) \in Nat /\ Len(t) \in Nat
    <2> HIDE DEF S
    <2> QED BY <1>1
  <1>3. \A i \in 1..Len(c) : c[i] = IF i <= Len(s) THEN s[i] ELSE t[i - Len(s)]
    <2> HIDE DEF S
    <2> QED BY <1>1
  <1>4. c = [i \in 1..Len(c) |-> c[i]]
    <2> HIDE DEF S, c
    <2> QED BY <1>2
  <1>5. IsSeq(c)
    <2> HIDE DEF c
    <2> QED BY <1>2, <1>4, SegmentIsSeq
  <1> HIDE DEF S, c
  <1>6. /\ \A i \in 1..Len(s) : c[i] = s[i]
        /\ \A i \in 1..Len(t) : c[Len(s) + i] = t[i]
        /\ \A i \in 1..Len(c) : i <= Len(s) \/ (i - Len(s) \in 1..Len(t) /\ c[i] = t[i - Len(s)])
    BY <1>2, <1>3, SMTT(40)
  <1> QED BY <1>2, <1>5, <1>6 DEF c

-----------------------------------------------------------------------------
\* References that are sound stay so when tasks are added.
LEMMA Later ==
    ASSUME NEW refs, NEW m \in Nat, NEW n \in Nat, m <= n, RefsSound(refs, m)
    PROVE  RefsSound(refs, n)
  BY DEF RefsSound, RefSound

\* The references made from others: one alone, a bucket of each, two lists.
LEMMA MadeRefs ==
    ASSUME NEW n \in Nat, NEW refs, RefsSound(refs, n)
    PROVE  /\ \A i \in 1..Len(refs) : RefsSound(<<refs[i]>>, n)
           /\ \A j : RefsSound(BucketOf(refs, j), n) /\ Len(BucketOf(refs, j)) = Len(refs)
           /\ \A more : RefsSound(more, n) => RefsSound(refs \o more, n)
  <1>0. IsSeq(refs) /\ Len(refs) \in Nat /\ DOMAIN refs = 1..Len(refs)
    BY SeqFacts DEF RefsSound
  <1>1. ASSUME NEW i \in 1..Len(refs) PROVE RefsSound(<<refs[i]>>, n)
    <2> DEFINE one == <<refs[i]>>
    <2>1. Len(one) = 1 /\ one[1] = refs[i] /\ one = [k \in 1..1 |-> one[k]]
      OBVIOUS
    <2> HIDE DEF one
    <2>2. IsSeq(one) /\ Len(one) = 1
      BY <2>1, SegmentIsSeq
    <2> QED BY <1>1, <2>1, <2>2 DEF RefsSound, one
  <1>2. ASSUME NEW j PROVE RefsSound(BucketOf(refs, j), n) /\ Len(BucketOf(refs, j)) = Len(refs)
    <2> DEFINE b == BucketOf(refs, j)
    <2>1. b = [p \in 1..Len(refs) |-> b[p]] /\ \A p \in 1..Len(refs) : b[p].t = refs[p].t
      BY <1>0 DEF BucketOf, Out
    <2> HIDE DEF b
    <2>2. IsSeq(b) /\ Len(b) = Len(refs)
      BY <1>0, <2>1, SegmentIsSeq
    <2> QED BY <2>1, <2>2 DEF RefsSound, RefSound, b
  <1>3. ASSUME NEW more, RefsSound(more, n) PROVE RefsSound(refs \o more, n)
    <2> DEFINE both == refs \o more
    <2>1. IsSeq(more) /\ Len(more) \in Nat
      BY <1>3, SeqFacts DEF RefsSound
    <2>2. /\ IsSeq(both) /\ Len(both) = Len(refs) + Len(more)
          /\ \A i \in 1..Len(refs) : both[i] = refs[i]
          /\ \A i \in 1..Len(both) : i <= Len(refs) \/ (i - Len(refs) \in 1..Len(more) /\ both[i] = more[i - Len(refs)])
      BY <1>0, <2>1, ConcatIsSeq
    <2> HIDE DEF both
    <2>3. ASSUME NEW i \in 1..Len(both) PROVE RefSound(both[i], n)
      <3>1. CASE i <= Len(refs)
        <4>1. i \in 1..Len(refs)
          BY <1>0, <2>1, <2>2, <3>1
        <4> QED BY <2>2, <4>1 DEF RefsSound
      <3>2. CASE ~(i <= Len(refs))
        BY <1>3, <2>2, <2>3, <3>2 DEF RefsSound
      <3> QED BY <3>1, <3>2
    <2> QED BY <2>2, <2>3 DEF RefsSound, both
  <1> QED BY <1>1, <1>2, <1>3

\* Adding tasks that read what is there makes a sound submission.
LEMMA SubmittingSound ==
    ASSUME TasksSound, NEW sub, SubSound(sub), NEW k \in Nat, NEW ts, ts = [i \in 1..k |-> ts[i]],
           \A i \in 1..k : /\ ts[i].w \in 0..(NWorkers - 1)
                           /\ RefsSound(ts[i].refs, Len(tasks) + Len(sub.tasks))
    PROVE  /\ SubSound(Submitting(sub, ts)) /\ Len(Submitting(sub, ts).out) = k
           /\ Len(Submitting(sub, ts).tasks) = Len(sub.tasks) + k
  <1> DEFINE all == sub.tasks \o ts
             base == Len(tasks) + Len(sub.tasks)
             out == [i \in DOMAIN ts |-> Out(base + i, 0)]
  <1>1. IsSeq(ts) /\ Len(ts) = k /\ DOMAIN ts = 1..k
    BY SegmentIsSeq
  <1>2. IsSeq(sub.tasks) /\ Len(sub.tasks) \in Nat /\ Len(tasks) \in Nat
    BY SeqFacts DEF SubSound, TasksSound
  <1>3. /\ IsSeq(all) /\ Len(all) = Len(sub.tasks) + k
        /\ \A i \in 1..Len(sub.tasks) : all[i] = sub.tasks[i]
        /\ \A i \in 1..Len(all) : i <= Len(sub.tasks)
                                  \/ (i - Len(sub.tasks) \in 1..k /\ all[i] = ts[i - Len(sub.tasks)])
    BY <1>1, <1>2, ConcatIsSeq
  <1>4. Submitting(sub, ts).tasks = all /\ Submitting(sub, ts).out = out
    BY DEF Submitting
  <1>5. out = [i \in 1..k |-> out[i]] /\ \A i \in 1..k : out[i].t = base + i
    BY <1>1 DEF Out
  <1> HIDE DEF all, out
  <1>6. IsSeq(out) /\ Len(out) = k
    BY <1>5, SegmentIsSeq
  <1>7. ASSUME NEW i \in 1..Len(all) PROVE TaskSound(all[i], Len(tasks) + i)
    <2>1. CASE i <= Len(sub.tasks)
      <3>1. i \in 1..Len(sub.tasks)
        BY <1>2, <1>3, <2>1
      <3> QED BY <1>3, <3>1 DEF SubSound
    <2>2. CASE ~(i <= Len(sub.tasks))
      <3>1. i - Len(sub.tasks) \in 1..k /\ all[i] = ts[i - Len(sub.tasks)]
        BY <1>3, <2>2
      <3>2. all[i].w \in 0..(NWorkers - 1) /\ RefsSound(all[i].refs, base)
        BY <3>1
      <3>3. base \in Nat /\ Len(tasks) + i - 1 \in Nat /\ base <= Len(tasks) + i - 1
        <4>1. Len(all) \in Nat
          BY <1>2, <1>3
        <4>2. i \in Nat /\ i >= Len(sub.tasks) + 1
          BY <1>2, <2>2, <4>1
        <4> QED BY <1>2, <4>2
      <3>4. RefsSound(all[i].refs, Len(tasks) + i - 1)
        BY <3>2, <3>3, Later
      <3> QED BY <3>2, <3>4 DEF TaskSound
    <2> QED BY <2>1, <2>2
  <1>8. RefsSound(out, Len(tasks) + Len(all))
    <2>1. Len(tasks) + Len(all) = base + k /\ base \in Nat
      BY <1>2, <1>3
    <2> HIDE DEF base
    <2>2. \A i \in 1..k : out[i].t \in 0..(base + k)
      BY <1>5, <2>1
    <2> QED BY <1>6, <2>1, <2>2 DEF RefsSound, RefSound
  <1> QED BY <1>3, <1>4, <1>6, <1>7, <1>8 DEF SubSound

\* A submission of no tasks, and one that puts tables.
LEMMA NothingSound ==
    ASSUME TasksSound, NEW refs, RefsSound(refs, Len(tasks))
    PROVE  SubSound(Nothing(refs)) /\ Nothing(refs).out = refs /\ Len(Nothing(refs).tasks) = 0
  <1>1. Nothing(refs).tasks = <<>> /\ Nothing(refs).out = refs
    BY DEF Nothing
  <1>2. <<>> = [i \in 1..0 |-> <<>>[i]]
    OBVIOUS
  <1>3. IsSeq(<<>>) /\ Len(<<>>) = 0
    BY <1>2, SegmentIsSeq
  <1>4. Len(tasks) \in Nat /\ IsSeq(refs)
    BY SeqFacts DEF TasksSound, RefsSound
  <1> QED BY <1>1, <1>3, <1>4 DEF SubSound

\* Tables the driver puts refer to no task.
LEMMA PutsSound ==
    ASSUME TasksSound, NEW tables, NEW k \in Nat, DOMAIN tables = 1..k
    PROVE  SubSound(Puts(tables)) /\ RefsSound(Puts(tables).out, Len(tasks)) /\ Len(Puts(tables).tasks) = 0
  <1> DEFINE out == [i \in DOMAIN tables |-> Put(tables[i])]
  <1>1. Puts(tables) = Nothing(out)
    BY DEF Puts
  <1>2. out = [i \in 1..k |-> out[i]] /\ \A i \in 1..k : out[i].t = 0
    BY DEF Put
  <1> HIDE DEF out
  <1>3. IsSeq(out) /\ Len(out) = k
    BY <1>2, SegmentIsSeq
  <1>4. Len(tasks) \in Nat
    BY SeqFacts DEF TasksSound
  <1>5. RefsSound(out, Len(tasks))
    BY <1>2, <1>3, <1>4 DEF RefsSound, RefSound
  <1> QED BY <1>1, <1>5, NothingSound

-----------------------------------------------------------------------------
\* Placement on the workers in turn.
LEMMA OnWorkers ==
    /\ \A i \in Nat \ {0} : WorkerFor(i) \in 0..(NWorkers - 1) /\ BucketWorker(i) \in 0..(NWorkers - 1)
    /\ 0 \in 0..(NWorkers - 1) /\ Buckets \in Nat
  BY NWorkersAssumption DEF WorkerFor, BucketWorker, Buckets

\* One task per shard.
LEMMA EachSound ==
    ASSUME TasksSound, NEW sub, SubSound(sub), NEW fn, NEW arg
    PROVE  /\ SubSound(Each(sub, fn, arg)) /\ Len(Each(sub, fn, arg).out) = Len(sub.out)
           /\ Len(Each(sub, fn, arg).tasks) = Len(sub.tasks) + Len(sub.out)
  <1> DEFINE ts == [i \in DOMAIN sub.out |-> Task(WorkerFor(i), fn, <<sub.out[i]>>, arg)]
             k == Len(sub.out)
             base == Len(tasks) + Len(sub.tasks)
  <1>1. RefsSound(sub.out, base) /\ IsSeq(sub.out) /\ k \in Nat /\ DOMAIN sub.out = 1..k
    BY SeqFacts DEF SubSound
  <1>2. base \in Nat
    BY SeqFacts DEF SubSound, TasksSound
  <1>3. ts = [i \in 1..k |-> ts[i]]
        /\ \A i \in 1..k : ts[i].w = WorkerFor(i) /\ ts[i].refs = <<sub.out[i]>>
    BY <1>1 DEF Task
  <1>4. Each(sub, fn, arg) = Submitting(sub, ts)
    BY DEF Each
  <1> HIDE DEF ts
  <1>5. \A i \in 1..k : ts[i].w \in 0..(NWorkers - 1) /\ RefsSound(ts[i].refs, base)
    <2>1. \A i \in 1..k : i \in Nat \ {0}
      BY <1>1
    <2>2. \A i \in 1..k : ts[i].w \in 0..(NWorkers - 1)
      BY <1>3, <2>1, OnWorkers
    <2>3. \A i \in 1..Len(sub.out) : RefsSound(<<sub.out[i]>>, base)
      BY <1>1, <1>2, MadeRefs
    <2> QED BY <1>3, <2>2, <2>3
  <1> HIDE DEF k
  <1>6. /\ SubSound(Submitting(sub, ts)) /\ Len(Submitting(sub, ts).out) = k
        /\ Len(Submitting(sub, ts).tasks) = Len(sub.tasks) + k
    BY <1>1, <1>3, <1>5, SubmittingSound
  <1> QED BY <1>4, <1>6 DEF k

\* One reducer per bucket.
LEMMA ReduceSound ==
    ASSUME TasksSound, NEW sub, SubSound(sub), NEW fn, NEW arg
    PROVE  SubSound(Reduce(sub, fn, arg))
  <1> DEFINE ts == [j \in 1..Buckets |-> Task(BucketWorker(j), fn, BucketOf(sub.out, j), arg)]
             base == Len(tasks) + Len(sub.tasks)
  <1>1. RefsSound(sub.out, base)
    BY DEF SubSound
  <1>2. base \in Nat
    BY SeqFacts DEF SubSound, TasksSound
  <1>3. ts = [j \in 1..Buckets |-> ts[j]]
        /\ \A j \in 1..Buckets : ts[j].w = BucketWorker(j) /\ ts[j].refs = BucketOf(sub.out, j)
    BY DEF Task
  <1>4. Reduce(sub, fn, arg) = Submitting(sub, ts)
    BY DEF Reduce
  <1> HIDE DEF ts
  <1>5. \A j \in 1..Buckets : ts[j].w \in 0..(NWorkers - 1) /\ RefsSound(ts[j].refs, base)
    <2>1. \A j \in 1..Buckets : j \in Nat \ {0}
      BY OnWorkers
    <2> HIDE DEF base
    <2> QED BY <1>1, <1>2, <1>3, <2>1, MadeRefs, OnWorkers
  <1>6. SubSound(Submitting(sub, ts))
    BY <1>3, <1>5, OnWorkers, SubmittingSound
  <1> QED BY <1>4, <1>6

\* A shuffle: producers, then reducers that read from every producer.
LEMMA ShuffleSound ==
    ASSUME TasksSound, NEW sub, SubSound(sub), NEW fn, NEW arg
    PROVE  SubSound(Shuffle(sub, fn, arg))
  <1>1. SubSound(Each(sub, "bucketize", 0))
    BY EachSound
  <1> QED BY <1>1, ReduceSound DEF Shuffle

\* One task that reads all.
LEMMA OnOneSound ==
    ASSUME TasksSound, NEW sub, SubSound(sub), NEW fn, NEW arg
    PROVE  SubSound(OnOne(sub, fn, arg))
  <1> DEFINE ts == <<Task(0, fn, sub.out, arg)>>
  <1>1. ts = [i \in 1..1 |-> ts[i]] /\ ts[1].w = 0 /\ ts[1].refs = sub.out
    BY DEF Task
  <1>2. OnOne(sub, fn, arg) = Submitting(sub, ts)
    BY DEF OnOne
  <1> HIDE DEF ts
  <1>3. \A i \in 1..1 : /\ ts[i].w \in 0..(NWorkers - 1)
                        /\ RefsSound(ts[i].refs, Len(tasks) + Len(sub.tasks))
    BY <1>1, OnWorkers DEF SubSound
  <1>4. SubSound(Submitting(sub, ts))
    BY <1>1, <1>3, SubmittingSound
  <1> QED BY <1>2, <1>4

\* Both sides of a join or a set operation, then one reducer per bucket.
LEMMA ShuffleBothSound ==
    ASSUME TasksSound, NEW left, NEW right, RefsSound(left, Len(tasks)), RefsSound(right, Len(tasks)),
           NEW fn, NEW arg
    PROVE  SubSound(ShuffleBoth(left, right, fn, arg))
  <1> DEFINE l == Each(Nothing(left), "bucketize", 0)
             second == [l EXCEPT !.out = right]
             r == Each(second, "bucketize", 0)
             ts == [j \in 1..Buckets |-> Task(BucketWorker(j), fn,
                       BucketOf(l.out, j) \o BucketOf(r.out, j), <<Len(left), arg>>)]
             base == Len(tasks) + Len(r.tasks)
  <1>0. Len(tasks) \in Nat /\ IsSeq(right) /\ Len(right) \in Nat
    BY SeqFacts DEF TasksSound, RefsSound
  <1>1. SubSound(l)
    BY NothingSound, EachSound
  <1>2. IsSeq(l.tasks) /\ Len(l.tasks) \in Nat /\ RefsSound(l.out, Len(tasks) + Len(l.tasks))
    BY <1>1, SeqFacts DEF SubSound
  <1>3. second.tasks = l.tasks /\ second.out = right
    BY DEF Each, Submitting
  <1> HIDE DEF l, second
  <1>4. SubSound(second)
    <2>1. RefsSound(right, Len(tasks) + Len(l.tasks))
      BY <1>0, <1>2, Later
    <2> QED BY <1>0, <1>1, <1>3, <2>1 DEF SubSound
  <1>5. SubSound(r) /\ Len(r.tasks) = Len(l.tasks) + Len(right)
    BY <1>3, <1>4, EachSound
  <1> HIDE DEF r
  <1>6. base \in Nat /\ RefsSound(l.out, base) /\ RefsSound(r.out, base)
    <2>1. RefsSound(l.out, base)
      BY <1>0, <1>2, <1>5, Later
    <2> QED BY <1>0, <1>2, <1>5, <2>1 DEF SubSound
  <1>7. ts = [j \in 1..Buckets |-> ts[j]]
        /\ \A j \in 1..Buckets : /\ ts[j].w = BucketWorker(j)
                                 /\ ts[j].refs = BucketOf(l.out, j) \o BucketOf(r.out, j)
    BY DEF Task
  <1>8. ShuffleBoth(left, right, fn, arg) = Submitting(r, ts)
    BY DEF ShuffleBoth, l, second, r
  <1> HIDE DEF ts
  <1>9. \A j \in 1..Buckets : ts[j].w \in 0..(NWorkers - 1) /\ RefsSound(ts[j].refs, base)
    <2>1. \A j \in 1..Buckets : j \in Nat \ {0}
      BY OnWorkers
    <2>2. \A j \in 1..Buckets : ts[j].w \in 0..(NWorkers - 1)
      BY <1>7, <2>1, OnWorkers
    <2> HIDE DEF base
    <2>3. \A j : RefsSound(BucketOf(l.out, j), base) /\ RefsSound(BucketOf(r.out, j), base)
      BY <1>6, MadeRefs
    <2>4. \A j : RefsSound(BucketOf(l.out, j) \o BucketOf(r.out, j), base)
      BY <1>6, <2>3, MadeRefs
    <2> QED BY <1>7, <2>2, <2>4
  <1>10. SubSound(Submitting(r, ts))
    BY <1>5, <1>7, <1>9, OnWorkers, SubmittingSound
  <1> QED BY <1>8, <1>10

\* The local operators above a boundary.
LEMMA ThenLocalSound ==
    ASSUME TasksSound, NEW sub, SubSound(sub), NEW local
    PROVE  SubSound(ThenLocal(sub, local))
  BY EachSound, OnOneSound DEF ThenLocal

\* Slices are numbered from one.
LEMMA SlicesNumbered ==
    ASSUME NEW t, Len(t) \in Nat, NEW n \in Nat, n # 0 \/ Len(t) = 0
    PROVE  \E k \in Nat : DOMAIN Slices(t, n) = 1..k
  <1> DEFINE rows == Len(t)
             plan == PartitionPlan(rows, n)
             step == (rows + n - 1) \div n
             many == (rows + step - 1) \div step
  <1>1. DOMAIN Slices(t, n) = DOMAIN plan
    BY DEF Slices
  <1>2. CASE rows = 0
    <2>1. plan = << <<1, 0>> >>
      BY <1>2 DEF PartitionPlan
    <2>2. DOMAIN plan = 1..1
      BY <2>1
    <2> QED BY <1>1, <2>2
  <1>3. CASE rows # 0
    <2>1. step \in Nat \ {0}
      BY <1>3
    <2>2. plan = [i \in 1..many |-> <<(i - 1) * step + 1, Min({i * step, rows})>>]
      BY <1>3 DEF PartitionPlan
    <2> HIDE DEF step
    <2>3. many \in Nat
      BY <2>1
    <2> HIDE DEF many
    <2>4. DOMAIN plan = 1..many
      BY <2>2
    <2> QED BY <1>1, <2>3, <2>4
  <1> QED BY <1>2, <1>3

\* What the queries assumed say of the one that is asked.
LEMMA Asked ==
    ASSUME QuerySound
    PROVE  /\ PostOrder(query.plan) /\ query.plan # <<>> /\ RouteFits(query.route, query.plan[Root])
           /\ query.hint \in Nat
           /\ \A n \in 1..Root : Len(relation[n]) \in Nat
           /\ Root \in Nat \ {0} /\ DOMAIN query.plan = 1..Root
           /\ query.route = "scan_files" => FilesHaveSizes(relation[Root])
  <1>1. PICK i \in DOMAIN Queries : query = Queries[i] /\ relation = Meaning(Queries[i])
    BY DEF QuerySound
  <1>2. /\ PostOrder(query.plan) /\ query.plan # <<>> /\ RouteFits(query.route, query.plan[Root])
        /\ query.hint \in Nat
        /\ \A n \in DOMAIN query.plan : Len(relation[n]) \in Nat
        /\ query.route = "scan_files" => FilesHaveSizes(relation[Root])
    BY <1>1, QueryAssumption DEF Root
  <1>3. Root \in Nat /\ DOMAIN query.plan = 1..Root
    BY <1>2 DEF PostOrder, Root
  <1>4. Root # 0
    <2>1. Root = 0 => DOMAIN query.plan = {}
      BY <1>3
    <2> QED BY <1>2, <1>3, <2>1 DEF PostOrder
  <1> QED BY <1>2, <1>3, <1>4

\* The slices of a relation are put.
LEMMA PartitionsSound ==
    ASSUME TasksSound, QuerySound, NEW t, Len(t) \in Nat
    PROVE  /\ SubSound(Puts(PartitionTables(t))) /\ RefsSound(Puts(PartitionTables(t)).out, Len(tasks))
           /\ SubSound(Puts(EvenSplit(t)))
  <1>1. PICK k \in Nat : DOMAIN PartitionTables(t) = 1..k
    <2> DEFINE n == IF query.hint > 1 THEN query.hint ELSE NWorkers
    <2>1. n \in Nat /\ n # 0
      BY Asked, NWorkersAssumption
    <2>2. PartitionTables(t) = Slices(t, n)
      BY DEF PartitionTables
    <2> HIDE DEF n
    <2> QED BY <2>1, <2>2, SlicesNumbered
  <1>2. PICK m \in Nat : DOMAIN EvenSplit(t) = 1..m
    <2> DEFINE n == Min({Len(t), NWorkers})
    <2>1. n \in {Len(t), NWorkers}
      BY LeastNumber, NWorkersAssumption
    <2>2. n \in Nat /\ (n # 0 \/ Len(t) = 0)
      BY <2>1, NWorkersAssumption
    <2>3. EvenSplit(t) = Slices(t, n)
      BY DEF EvenSplit
    <2> HIDE DEF n
    <2> QED BY <2>2, <2>3, SlicesNumbered
  <1> QED BY <1>1, <1>2, PutsSound

-----------------------------------------------------------------------------
(* The files of a scan: totals, and their placement on the workers.          *)
\* The first n of what is added up are numbers.
Numbers(f, n) == \A i \in 1..n : f[i] \in Nat

\* A total is added up term by term.
LEMMA TotalLoop ==
    ASSUME NEW n \in Nat, NEW f, Numbers(f, n)
    PROVE  \E k \in [0..n -> Nat] : /\ k[0] = 0 /\ \A m \in 1..n : k[m] = k[m - 1] + f[m]
                                    /\ Total(f, n) = k[n]
  <1> DEFINE step == [m \in 1..n |-> [x \in Nat |-> x + f[m]]]
             P(g) == g = [m \in 0..n |-> IF m = 0 THEN 0 ELSE g[m - 1] + f[m]]
             g == CHOOSE g : P(g)
  <1>1. StepsIn(step, n, Nat)
    BY DEF StepsIn, Numbers
  <1>2. 0 \in Nat /\ \A m \in 1..n : \A x \in Nat : step[m][x] = x + f[m]
    OBVIOUS
  <1> HIDE DEF step
  <1>3. PICK k \in [0..n -> Nat] : k[0] = 0 /\ \A m \in 1..n : k[m] = step[m][k[m - 1]]
    <2> DEFINE V == Nat
               o == 0
    <2>1. o \in V /\ StepsIn(step, n, V)
      BY <1>1
    <2> HIDE DEF V, o
    <2>2. \E k \in [0..n -> V] : k[0] = o /\ \A m \in 1..n : k[m] = step[m][k[m - 1]]
      BY <2>1, StepByStep
    <2> QED BY <2>2 DEF V, o
  <1>4. \A m \in 1..n : k[m] = k[m - 1] + f[m]
    <2>1. \A m \in 1..n : m - 1 \in 0..n
      OBVIOUS
    <2>2. \A m \in 1..n : k[m - 1] \in Nat
      BY <2>1
    <2> QED BY <1>2, <1>3, <2>2
  <1>5. P(k)
    <2>1. \A m \in 0..n : k[m] = IF m = 0 THEN 0 ELSE k[m - 1] + f[m]
      BY <1>3, <1>4
    <2>2. k = [m \in 0..n |-> k[m]]
      OBVIOUS
    <2> QED BY <2>1, <2>2
  <1>6. P(g)
    <2> HIDE DEF P
    <2> QED BY <1>5, Zenon
  <1>7. Total(f, n) = g[n]
    BY DEF Total
  <1> HIDE DEF g
  <1>8. \A m \in 0..n : g[m] = IF m = 0 THEN 0 ELSE g[m - 1] + f[m]
    BY <1>6
  <1> DEFINE T == {m \in Nat : m <= n => g[m] = k[m]}
  <1>9. 0 \in T
    BY <1>3, <1>8
  <1>10. ASSUME NEW m \in Nat, m \in T PROVE m + 1 \in T
    <2> SUFFICES ASSUME m + 1 <= n PROVE g[m + 1] = k[m + 1]
      OBVIOUS
    <2>1. m + 1 \in 0..n /\ m + 1 \in 1..n /\ (m + 1) - 1 = m /\ m + 1 # 0 /\ m <= n
      OBVIOUS
    <2>2. g[m] = k[m]
      BY <1>10, <2>1
    <2> QED BY <1>4, <1>8, <2>1, <2>2
  <1> HIDE DEF T
  <1>11. \A m \in Nat : m \in T
    BY <1>9, <1>10, Induction
  <1>12. g[n] = k[n]
    BY <1>11 DEF T
  <1> QED BY <1>3, <1>4, <1>7, <1>12

\* The total of one more term.
LEMMA TotalNext ==
    ASSUME NEW n \in Nat, NEW f, Numbers(f, n + 1)
    PROVE  /\ Total(f, 0) = 0 /\ Total(f, n) \in Nat /\ Total(f, n + 1) = Total(f, n) + f[n + 1]
  <1>1. Numbers(f, n) /\ Numbers(f, 0)
    BY DEF Numbers
  <1>2. PICK j \in [0..n -> Nat] : /\ j[0] = 0 /\ \A m \in 1..n : j[m] = j[m - 1] + f[m]
                                   /\ Total(f, n) = j[n]
    BY <1>1, TotalLoop
  <1>3. n + 1 \in Nat
    OBVIOUS
  <1>4. PICK k \in [0..(n + 1) -> Nat] :
            /\ k[0] = 0 /\ \A m \in 1..(n + 1) : k[m] = k[m - 1] + f[m]
            /\ Total(f, n + 1) = k[n + 1]
    BY <1>3, TotalLoop
  <1>5. PICK z \in [0..0 -> Nat] : z[0] = 0 /\ Total(f, 0) = z[0]
    <2>1. 0 \in Nat
      OBVIOUS
    <2> QED BY <1>1, <2>1, TotalLoop
  <1> DEFINE T == {m \in Nat : m <= n => j[m] = k[m]}
  <1>6. 0 \in T
    BY <1>2, <1>4
  <1>7. ASSUME NEW m \in Nat, m \in T PROVE m + 1 \in T
    <2> SUFFICES ASSUME m + 1 <= n PROVE j[m + 1] = k[m + 1]
      OBVIOUS
    <2>1. m + 1 \in 1..n /\ m + 1 \in 1..(n + 1) /\ (m + 1) - 1 = m /\ m <= n
      OBVIOUS
    <2>2. j[m] = k[m]
      BY <1>7, <2>1
    <2> QED BY <1>2, <1>4, <2>1, <2>2
  <1> HIDE DEF T
  <1>8. \A m \in Nat : m \in T
    BY <1>6, <1>7, Induction
  <1>9. j[n] = k[n]
    BY <1>8 DEF T
  <1>10. k[n + 1] = k[n] + f[n + 1]
    <2>1. n + 1 \in 1..(n + 1) /\ (n + 1) - 1 = n
      OBVIOUS
    <2> QED BY <1>4, <2>1
  <1> QED BY <1>2, <1>4, <1>5, <1>9, <1>10

\* When one term changes, so does the total; when none does, it stays.
LEMMA TotalChange ==
    ASSUME NEW n \in Nat, NEW f, NEW g, NEW i \in 1..n, Numbers(f, n), Numbers(g, n),
           \A j \in 1..n : j # i => f[j] = g[j]
    PROVE  Total(g, n) + f[i] = Total(f, n) + g[i]
  <1> DEFINE T == {m \in Nat : m <= n => /\ m < i => Total(g, m) = Total(f, m)
                                         /\ i <= m => Total(g, m) + f[i] = Total(f, m) + g[i]}
  <1>1. \A m \in Nat : m <= n => Numbers(f, m) /\ Numbers(g, m)
    BY DEF Numbers
  <1>2. \A m \in Nat : m + 1 <= n => /\ Total(f, 0) = 0 /\ Total(f, m) \in Nat /\ Total(f, m + 1) = Total(f, m) + f[m + 1]
                                     /\ Total(g, 0) = 0 /\ Total(g, m) \in Nat /\ Total(g, m + 1) = Total(g, m) + g[m + 1]
    <2> SUFFICES ASSUME NEW m \in Nat, m + 1 <= n
                 PROVE  /\ Total(f, 0) = 0 /\ Total(f, m) \in Nat /\ Total(f, m + 1) = Total(f, m) + f[m + 1]
                        /\ Total(g, 0) = 0 /\ Total(g, m) \in Nat /\ Total(g, m + 1) = Total(g, m) + g[m + 1]
      OBVIOUS
    <2>1. Numbers(f, m + 1) /\ Numbers(g, m + 1)
      BY <1>1
    <2> QED BY <2>1, TotalNext
  <1>3. 0 \in T
    <2>1. 0 + 1 <= n
      OBVIOUS
    <2>2. Total(f, 0) = 0 /\ Total(g, 0) = 0
      BY <1>2, <2>1
    <2> QED BY <2>2
  <1>4. ASSUME NEW m \in Nat, m \in T PROVE m + 1 \in T
    <2> SUFFICES ASSUME m + 1 <= n
                 PROVE  /\ m + 1 < i => Total(g, m + 1) = Total(f, m + 1)
                        /\ i <= m + 1 => Total(g, m + 1) + f[i] = Total(f, m + 1) + g[i]
      OBVIOUS
    <2>1. /\ Total(f, m) \in Nat /\ Total(f, m + 1) = Total(f, m) + f[m + 1]
          /\ Total(g, m) \in Nat /\ Total(g, m + 1) = Total(g, m) + g[m + 1]
      BY <1>2
    <2>2. /\ m < i => Total(g, m) = Total(f, m)
          /\ i <= m => Total(g, m) + f[i] = Total(f, m) + g[i]
      BY <1>4
    <2>3. m + 1 \in 1..n /\ f[m + 1] \in Nat /\ g[m + 1] \in Nat /\ f[i] \in Nat /\ g[i] \in Nat
      BY DEF Numbers
    <2>4. m + 1 # i => f[m + 1] = g[m + 1]
      BY <2>3
    <2>5. CASE m + 1 = i
      BY <2>1, <2>2, <2>3, <2>5
    <2>6. CASE m + 1 # i
      BY <2>1, <2>2, <2>3, <2>4, <2>6
    <2> QED BY <2>5, <2>6
  <1> HIDE DEF T
  <1>5. \A m \in Nat : m \in T
    BY <1>3, <1>4, Induction
  <1> QED BY <1>5 DEF T

\* Equal terms have equal totals, and zeros none.
LEMMA TotalSame ==
    ASSUME NEW n \in Nat, NEW f, NEW g, Numbers(f, n), \A j \in 1..n : f[j] = g[j]
    PROVE  /\ Total(g, n) = Total(f, n) /\ Total(f, n) \in Nat
           /\ (\A j \in 1..n : f[j] = 0) => Total(f, n) = 0
  <1> DEFINE T == {m \in Nat : m <= n => /\ Total(g, m) = Total(f, m) /\ Total(f, m) \in Nat
                                         /\ (\A j \in 1..n : f[j] = 0) => Total(f, m) = 0}
  <1>1. \A m \in Nat : m <= n => Numbers(f, m) /\ Numbers(g, m)
    BY DEF Numbers
  <1>2. 0 \in T
    <2>0. 0 \in Nat /\ Numbers(f, 0) /\ Numbers(g, 0)
      BY <1>1
    <2>1. PICK k \in [0..0 -> Nat] : k[0] = 0 /\ Total(f, 0) = k[0]
      BY <2>0, TotalLoop
    <2>2. PICK l \in [0..0 -> Nat] : l[0] = 0 /\ Total(g, 0) = l[0]
      BY <2>0, TotalLoop
    <2> QED BY <2>1, <2>2
  <1>3. ASSUME NEW m \in Nat, m \in T PROVE m + 1 \in T
    <2> SUFFICES ASSUME m + 1 <= n
                 PROVE  /\ Total(g, m + 1) = Total(f, m + 1) /\ Total(f, m + 1) \in Nat
                        /\ (\A j \in 1..n : f[j] = 0) => Total(f, m + 1) = 0
      OBVIOUS
    <2>1. Numbers(f, m + 1) /\ Numbers(g, m + 1)
      BY <1>1
    <2>2. /\ Total(f, m) \in Nat /\ Total(f, m + 1) = Total(f, m) + f[m + 1]
          /\ Total(g, m) \in Nat /\ Total(g, m + 1) = Total(g, m) + g[m + 1]
      BY <2>1, TotalNext
    <2>3. m + 1 \in 1..n /\ f[m + 1] \in Nat /\ f[m + 1] = g[m + 1]
      BY DEF Numbers
    <2> QED BY <1>3, <2>2, <2>3
  <1> HIDE DEF T
  <1>4. \A m \in Nat : m \in T
    BY <1>2, <1>3, Induction
  <1> QED BY <1>4 DEF T

\* What a sequence weighs, when each element has a weight.
Weight(g, s) == Total([i \in DOMAIN s |-> g[s[i]]], Len(s))

\* The weight of one more element.
LEMMA WeightAppend ==
    ASSUME NEW S, NEW g \in [S -> Nat], NEW s \in Seq(S), NEW e \in S
    PROVE  /\ Weight(g, s) \in Nat /\ Weight(g, Append(s, e)) = Weight(g, s) + g[e]
           /\ Weight(g, <<>>) = 0
  <1> DEFINE n == Len(s)
             t == Append(s, e)
             a == [i \in DOMAIN s |-> g[s[i]]]
             b == [i \in DOMAIN t |-> g[t[i]]]
  <1>1. n \in Nat /\ Len(t) = n + 1 /\ DOMAIN t = 1..(n + 1) /\ DOMAIN s = 1..n
    OBVIOUS
  <1>2. (\A i \in 1..n : t[i] = s[i] /\ s[i] \in S) /\ t[n + 1] = e
    OBVIOUS
  <1>3. Weight(g, s) = Total(a, n) /\ Weight(g, t) = Total(b, n + 1)
    BY <1>1 DEF Weight
  <1>4. (\A i \in 1..n : a[i] = b[i] /\ a[i] \in Nat) /\ b[n + 1] = g[e] /\ g[e] \in Nat
    <2> HIDE DEF t
    <2> QED BY <1>1, <1>2
  <1>5. Weight(g, <<>>) = 0
    <2> DEFINE o == [i \in DOMAIN <<>> |-> g[<<>>[i]]]
    <2>1. Weight(g, <<>>) = Total(o, 0)
      BY DEF Weight
    <2> HIDE DEF o
    <2>2. Numbers(o, 0)
      BY DEF Numbers
    <2>3. PICK k \in [0..0 -> Nat] : k[0] = 0 /\ Total(o, 0) = k[0]
      BY <2>2, TotalLoop
    <2> QED BY <2>1, <2>3
  <1> HIDE DEF a, b, t, n
  <1>6. Numbers(a, n) /\ Numbers(b, n + 1)
    <2>1. \A i \in 1..(n + 1) : i \in 1..n \/ i = n + 1
      BY <1>1
    <2>2. \A i \in 1..n : a[i] \in Nat /\ b[i] \in Nat
      BY <1>4
    <2> QED BY <1>4, <2>1, <2>2 DEF Numbers
  <1>7. Total(b, n + 1) = Total(b, n) + b[n + 1] /\ Total(b, n) \in Nat
    BY <1>1, <1>6, TotalNext
  <1>8. Total(b, n) = Total(a, n)
    BY <1>1, <1>4, <1>6, TotalSame
  <1> QED BY <1>3, <1>4, <1>5, <1>7, <1>8 DEF t

-----------------------------------------------------------------------------
(* Placing files. *)
\* A file that is the largest of those left can be chosen.
LEMMA LargestIsLeft ==
    ASSUME NEW units, Len(units) \in Nat, FilesHaveSizes(units),
           NEW left \in SUBSET (1..Len(units)), left # {}
    PROVE  Largest(units, left) \in left
  <1> DEFINE n == Len(units)
             z(i) == Size(units[i])
             Bounds == {b \in Nat : \A j \in left : z(j) <= b}
  <1>1. \A i \in 1..n : z(i) \in Nat
    BY DEF FilesHaveSizes
  <1> HIDE DEF z
  <1> DEFINE T == {m \in Nat : \E b \in Nat : \A j \in 1..n : j <= m => z(j) <= b}
  <1>2. 0 \in T
    OBVIOUS
  <1>3. ASSUME NEW m \in Nat, m \in T PROVE m + 1 \in T
    <2>1. PICK b \in Nat : \A j \in 1..n : j <= m => z(j) <= b
      BY <1>3
    <2>2. PICK c \in Nat : b <= c /\ (m + 1 \in 1..n => z(m + 1) <= c)
      <3>1. CASE m + 1 \in 1..n
        <4>1. z(m + 1) \in Nat
          BY <1>1, <3>1
        <4>2. b + z(m + 1) \in Nat /\ b <= b + z(m + 1) /\ z(m + 1) <= b + z(m + 1)
          BY <4>1
        <4> QED BY <4>2
      <3>2. CASE m + 1 \notin 1..n
        BY <3>2
      <3> QED BY <3>1, <3>2
    <2>3. \A j \in 1..n : j <= m + 1 => z(j) <= c
      <3> SUFFICES ASSUME NEW j \in 1..n, j <= m + 1 PROVE z(j) <= c
        OBVIOUS
      <3>1. z(j) \in Nat
        BY <1>1
      <3>2. CASE j <= m
        BY <2>1, <2>2, <3>1, <3>2
      <3>3. CASE j = m + 1
        BY <2>2, <3>3
      <3> QED BY <3>2, <3>3
    <2> QED BY <2>3
  <1>4. n \in T
    <2> HIDE DEF T
    <2> QED BY <1>2, <1>3, Induction
  <1>5. Bounds # {} /\ Bounds \in SUBSET Nat
    <2>1. PICK b \in Nat : \A j \in 1..n : j <= n => z(j) <= b
      BY <1>4
    <2> QED BY <2>1
  <1>6. PICK b \in Bounds : \A c \in Bounds : b <= c
    <2> HIDE DEF Bounds
    <2> QED BY <1>5, LeastExists
  <1>7. \E j \in left : z(j) = b
    <2> SUFFICES ASSUME \A j \in left : z(j) # b PROVE FALSE
      OBVIOUS
    <2>1. \A j \in left : z(j) \in Nat /\ z(j) < b
      BY <1>1, <1>6
    <2>2. b \in Nat /\ b # 0
      <3>1. PICK j \in left : TRUE
        OBVIOUS
      <3>2. b \in Nat
        BY <1>6
      <3> QED BY <2>1, <3>1, <3>2
    <2>3. b - 1 \in Nat /\ \A j \in left : z(j) <= b - 1
      BY <2>1, <2>2
    <2>4. b - 1 \in Bounds
      BY <2>3
    <2> QED BY <1>6, <2>2, <2>4
  <1> DEFINE top == {j \in left : z(j) = b}
  <1>8. PICK i \in top : \A j \in top : i <= j
    <2>1. top \in SUBSET Nat /\ top # {}
      <3>1. \A j \in left : j \in Nat
        OBVIOUS
      <3> QED BY <1>7, <3>1
    <2> HIDE DEF top
    <2> QED BY <2>1, LeastExists
  <1>9. i \in left /\ \A j \in left : z(i) > z(j) \/ (z(i) = z(j) /\ i <= j)
    <2>1. \A j \in left : z(j) \in Nat /\ z(j) <= b
      BY <1>1, <1>6
    <2> QED BY <1>6, <1>8, <2>1
  <1> QED BY <1>9 DEF Largest, z

\* A worker with the fewest bytes can be chosen.
LEMMA LeastLoadedIs ==
    ASSUME NEW load \in [0..NWorkers - 1 -> Nat]
    PROVE  /\ LeastLoaded(load) \in 0..NWorkers - 1
           /\ \A x \in 0..NWorkers - 1 : load[LeastLoaded(load)] <= load[x]
  <1> DEFINE L == {load[w] : w \in 0..NWorkers - 1}
  <1>1. 0 \in 0..NWorkers - 1 /\ DOMAIN load = 0..NWorkers - 1
    BY NWorkersAssumption
  <1>2. L # {} /\ L \in SUBSET Nat
    BY <1>1
  <1>3. PICK m \in L : \A c \in L : m <= c
    <2> HIDE DEF L
    <2> QED BY <1>2, LeastExists
  <1> DEFINE B == {w \in 0..NWorkers - 1 : load[w] = m}
  <1>4. B # {} /\ B \in SUBSET Nat
    BY <1>3
  <1>5. PICK v \in B : \A c \in B : v <= c
    <2> HIDE DEF B
    <2> QED BY <1>4, LeastExists
  <1>6. v \in DOMAIN load /\ \A x \in DOMAIN load : load[v] < load[x] \/ (load[v] = load[x] /\ v <= x)
    <2>1. \A x \in 0..NWorkers - 1 : load[x] \in Nat /\ m <= load[x] /\ m \in Nat
      BY <1>2, <1>3
    <2> QED BY <1>1, <1>5, <2>1
  <1>7. /\ LeastLoaded(load) \in DOMAIN load
        /\ \A x \in DOMAIN load : \/ load[LeastLoaded(load)] < load[x]
                                  \/ (load[LeastLoaded(load)] = load[x] /\ LeastLoaded(load) <= x)
    BY <1>6 DEF LeastLoaded
  <1> HIDE DEF L, B
  <1> QED BY <1>1, <1>7

\* The placements are made one after the other.
LEMMA PlaceLoop ==
    ASSUME NEW units, Len(units) \in Nat
    PROVE  \E g : /\ g[0] = Unplaced(units)
                  /\ \A i \in 1..Len(units) : g[i] = PlaceNext(g[i - 1], units)
                  /\ AssignBySize(units) = g[Len(units)].to
  <1> DEFINE P(k, n) == k = [i \in 0..n |-> IF i = 0 THEN Unplaced(units) ELSE PlaceNext(k[i - 1], units)]
             S == {n \in Nat : \E k : P(k, n)}
             g == CHOOSE g : P(g, Len(units))
  <1>1. AssignBySize(units) = g[Len(units)].to
    BY DEF AssignBySize
  <1>2. 0 \in S
    <2> DEFINE k == [i \in 0..0 |-> Unplaced(units)]
    <2>1. P(k, 0)
      OBVIOUS
    <2> HIDE DEF P
    <2> QED BY <2>1
  <1>3. ASSUME NEW n \in Nat, n \in S PROVE n + 1 \in S
    <2>1. PICK k : P(k, n)
      BY <1>3
    <2>2. k[0] = Unplaced(units) /\ \A i \in 1..n : k[i] = PlaceNext(k[i - 1], units)
      BY <2>1
    <2> DEFINE m == [i \in 0..(n + 1) |-> IF i = n + 1 THEN PlaceNext(k[n], units) ELSE k[i]]
    <2>3. m[n + 1] = PlaceNext(k[n], units) /\ \A i \in 0..n : m[i] = k[i]
      OBVIOUS
    <2>4. m = [i \in 0..(n + 1) |-> m[i]]
      OBVIOUS
    <2> HIDE DEF m
    <2>5. \A i \in 0..(n + 1) : m[i] = IF i = 0 THEN Unplaced(units) ELSE PlaceNext(m[i - 1], units)
      <3>1. \A i \in 1..n : i - 1 \in 0..n /\ i \in 0..n
        OBVIOUS
      <3>2. \A i \in 1..n : m[i] = PlaceNext(m[i - 1], units)
        BY <2>2, <2>3, <3>1
      <3>3. (n + 1) - 1 = n /\ n \in 0..n /\ 0 \in 0..n
        OBVIOUS
      <3>4. \A i \in 0..(n + 1) : i = 0 \/ i \in 1..n \/ i = n + 1
        OBVIOUS
      <3> QED BY <2>2, <2>3, <3>2, <3>3, <3>4
    <2>6. P(m, n + 1)
      BY <2>4, <2>5
    <2> HIDE DEF P
    <2> QED BY <2>6
  <1>4. \E k : P(k, Len(units))
    <2> HIDE DEF S, P
    <2>1. \A n \in Nat : n \in S
      BY <1>2, <1>3, Induction
    <2> QED BY <2>1 DEF S
  <1>5. P(g, Len(units))
    <2> HIDE DEF P
    <2> QED BY <1>4, Zenon
  <1> HIDE DEF g
  <1>6. g[0] = Unplaced(units) /\ \A i \in 1..Len(units) : g[i] = PlaceNext(g[i - 1], units)
    BY <1>5
  <1> QED BY <1>1, <1>6, Zenon

\* What a worker has of the files placed so far, and a placement that is sound:
\* the loads are what was placed, and differ by one file at most.
ForWorker(units, acc, w) ==
    [i \in 1..Len(units) |-> IF i \notin acc.left /\ acc.to[i] = w THEN Size(units[i]) ELSE 0]
Spread(units, acc, m) ==
    /\ acc.left \in SUBSET (1..Len(units)) /\ Cardinality(acc.left) = Len(units) - m
    /\ acc.load \in [0..NWorkers - 1 -> Nat] /\ acc.to \in [1..Len(units) -> 0..NWorkers - 1]
    /\ \A w \in 0..NWorkers - 1 : acc.load[w] = Total(ForWorker(units, acc, w), Len(units))
    /\ \A w, x \in 0..NWorkers - 1 :
          \/ acc.load[w] <= acc.load[x]
          \/ \E i \in 1..Len(units) : acc.load[w] - acc.load[x] <= Size(units[i])

\* What a worker has are numbers.
LEMMA WorkerNumbers ==
    ASSUME NEW units, Len(units) \in Nat, FilesHaveSizes(units), NEW acc, NEW w
    PROVE  /\ Numbers(ForWorker(units, acc, w), Len(units))
           /\ \A i \in 1..Len(units) : ForWorker(units, acc, w)[i] =
                  IF i \notin acc.left /\ acc.to[i] = w THEN Size(units[i]) ELSE 0
  <1>1. \A i \in 1..Len(units) : Size(units[i]) \in Nat
    BY DEF FilesHaveSizes
  <1> QED BY <1>1 DEF Numbers, ForWorker

\* Nothing is placed at first.
LEMMA UnplacedSpread ==
    ASSUME NEW units, Len(units) \in Nat, FilesHaveSizes(units)
    PROVE  Spread(units, Unplaced(units), 0)
  <1> DEFINE n == Len(units)
             acc == Unplaced(units)
  <1>1. DOMAIN units = 1..n /\ 0 \in 0..NWorkers - 1
    BY NWorkersAssumption DEF FilesHaveSizes
  <1>2. acc.left = 1..n /\ acc.load = [w \in 0..NWorkers - 1 |-> 0] /\ acc.to = [i \in 1..n |-> 0]
    <2>1. acc = [left |-> DOMAIN units, load |-> [w \in 0..NWorkers - 1 |-> 0], to |-> [i \in DOMAIN units |-> 0]]
      BY DEF Unplaced
    <2> HIDE DEF acc
    <2>2. /\ acc.left = DOMAIN units /\ acc.load = [w \in 0..NWorkers - 1 |-> 0]
          /\ acc.to = [i \in DOMAIN units |-> 0]
      BY <2>1
    <2> HIDE DEF n
    <2>3. [i \in DOMAIN units |-> 0] = [i \in 1..n |-> 0]
      BY <1>1
    <2>4. acc.to = [i \in 1..n |-> 0]
      BY <2>2, <2>3, Zenon
    <2>5. acc.left = 1..n
      BY <1>1, <2>2, Zenon
    <2> QED BY <2>2, <2>4, <2>5, Zenon
  <1>3. Cardinality(1..n) = n
    <2>1. n \in Nat
      OBVIOUS
    <2> HIDE DEF n
    <2> QED BY <2>1, FS_Interval
  <1> HIDE DEF acc
  <1>4. \A w \in 0..NWorkers - 1 : acc.load[w] = Total(ForWorker(units, acc, w), n)
    <2> SUFFICES ASSUME NEW w \in 0..NWorkers - 1 PROVE acc.load[w] = Total(ForWorker(units, acc, w), n)
      OBVIOUS
    <2> DEFINE f == ForWorker(units, acc, w)
    <2>1. Numbers(f, n) /\ \A i \in 1..n : f[i] = 0
      BY <1>2, WorkerNumbers
    <2> HIDE DEF f
    <2>2. Total(f, n) = 0
      BY <2>1, TotalSame
    <2> QED BY <1>2, <2>2 DEF f
  <1> QED BY <1>1, <1>2, <1>3, <1>4 DEF Spread, acc

\* Each placement keeps the loads apart by one file at most.
LEMMA PlaceSpread ==
    ASSUME NEW units, Len(units) \in Nat, FilesHaveSizes(units),
           NEW acc, NEW m \in Nat, m < Len(units), Spread(units, acc, m)
    PROVE  Spread(units, PlaceNext(acc, units), m + 1)
  <1> DEFINE n == Len(units)
             i == Largest(units, acc.left)
             w == LeastLoaded(acc.load)
             s == Size(units[i])
             next == PlaceNext(acc, units)
             W == 0..NWorkers - 1
             had == acc.load
             has == next.load
  <1>1. /\ acc.left \in SUBSET (1..n) /\ Cardinality(acc.left) = n - m
        /\ had \in [W -> Nat] /\ acc.to \in [1..n -> W]
        /\ \A v \in W : had[v] = Total(ForWorker(units, acc, v), n)
        /\ \A v, x \in W : had[v] <= had[x] \/ \E j \in 1..n : had[v] - had[x] <= Size(units[j])
    BY DEF Spread
  <1>2. IsFiniteSet(acc.left) /\ acc.left # {}
    <2>1. IsFiniteSet(1..n)
      BY FS_Interval
    <2>2. IsFiniteSet(acc.left)
      BY <1>1, <2>1, FS_Subset
    <2>3. Cardinality({}) = 0
      BY FS_EmptySet
    <2>4. Cardinality(acc.left) # 0
      BY <1>1
    <2> QED BY <2>2, <2>3, <2>4
  <1>3. i \in acc.left /\ i \in 1..n
    BY <1>1, <1>2, LargestIsLeft
  <1>4. w \in W /\ \A x \in W : had[w] <= had[x]
    BY <1>1, LeastLoadedIs
  <1>5. s \in Nat
    BY <1>3 DEF FilesHaveSizes
  <1>6. /\ next.left = acc.left \ {i}
        /\ has = [had EXCEPT ![w] = @ + s]
        /\ next.to = [acc.to EXCEPT ![i] = w]
    BY DEF PlaceNext
  <1> HIDE DEF i, w, s, next
  <1>7. next.left \in SUBSET (1..n) /\ Cardinality(next.left) = n - (m + 1)
    <2>1. Cardinality(acc.left \ {i}) = Cardinality(acc.left) - 1
      BY <1>2, <1>3, FS_RemoveElement
    <2> QED BY <1>1, <1>6, <2>1
  <1>8. /\ has \in [W -> Nat] /\ has[w] = had[w] + s
        /\ \A x \in W : x # w => has[x] = had[x]
    <2> HIDE DEF had, has, W
    <2>1. had[w] \in Nat
      BY <1>1, <1>4
    <2>2. had[w] + s \in Nat
      BY <1>5, <2>1
    <2> QED BY <1>1, <1>4, <1>6, <2>2
  <1>9. next.to \in [1..n -> W] /\ next.to[i] = w /\ \A j \in 1..n : j # i => next.to[j] = acc.to[j]
    BY <1>1, <1>3, <1>4, <1>6
  <1>10. \A v \in W : has[v] = Total(ForWorker(units, next, v), n)
    <2> SUFFICES ASSUME NEW v \in W PROVE has[v] = Total(ForWorker(units, next, v), n)
      OBVIOUS
    <2> DEFINE f == ForWorker(units, acc, v)
               g == ForWorker(units, next, v)
    <2>1. Numbers(f, n) /\ Numbers(g, n)
      BY WorkerNumbers
    <2>2. /\ \A j \in 1..n : f[j] = IF j \notin acc.left /\ acc.to[j] = v THEN Size(units[j]) ELSE 0
          /\ \A j \in 1..n : g[j] = IF j \notin next.left /\ next.to[j] = v THEN Size(units[j]) ELSE 0
      BY WorkerNumbers
    <2> HIDE DEF f, g
    <2>3. \A j \in 1..n : j # i => f[j] = g[j]
      BY <1>6, <1>9, <2>2
    <2>4. f[i] = 0 /\ g[i] = IF v = w THEN s ELSE 0
      BY <1>3, <1>6, <1>9, <2>2 DEF s
    <2>5. Total(g, n) + f[i] = Total(f, n) + g[i]
      BY <1>3, <2>1, <2>3, TotalChange
    <2>6. Total(f, n) = had[v] /\ had[v] \in Nat
      BY <1>1 DEF f
    <2>7. Total(g, n) \in Nat
      BY <2>1, TotalSame
    <2>8. Total(g, n) = had[v] + (IF v = w THEN s ELSE 0)
      BY <1>5, <2>4, <2>5, <2>6, <2>7
    <2> QED BY <1>8, <2>6, <2>8 DEF g
  <1>11. \A v, x \in W : has[v] <= has[x] \/ \E j \in 1..n : has[v] - has[x] <= Size(units[j])
    <2> SUFFICES ASSUME NEW v \in W, NEW x \in W
                 PROVE  has[v] <= has[x] \/ \E j \in 1..n : has[v] - has[x] <= Size(units[j])
      OBVIOUS
    <2>1. had[v] \in Nat /\ had[x] \in Nat /\ had[w] \in Nat /\ had[w] <= had[x]
      BY <1>1, <1>4
    <2>2. CASE v = w /\ x # w
      <3>1. has[v] - has[x] <= s
        BY <1>5, <1>8, <2>1, <2>2
      <3> QED BY <1>3, <3>1 DEF s
    <2>3. CASE v # w /\ x = w
      <3>1. has[v] = had[v] /\ has[x] = had[x] + s
        BY <1>8, <2>3
      <3>2. CASE had[v] <= had[x]
        BY <1>5, <2>1, <3>1, <3>2
      <3>3. CASE \E j \in 1..n : had[v] - had[x] <= Size(units[j])
        <4>1. PICK j \in 1..n : had[v] - had[x] <= Size(units[j])
          BY <3>3
        <4>2. Size(units[j]) \in Nat
          BY DEF FilesHaveSizes
        <4>3. has[v] - has[x] <= Size(units[j])
          <5> DEFINE d == Size(units[j])
                     p == had[v]
                     q == had[x]
          <5>1. has[v] = p /\ has[x] = q + s /\ p - q <= d /\ p \in Nat /\ q \in Nat /\ d \in Nat /\ s \in Nat
            BY <1>5, <2>1, <3>1, <4>1, <4>2
          <5> HIDE DEF d, p, q, s
          <5>2. p - (q + s) <= d
            BY <5>1
          <5> QED BY <5>1, <5>2 DEF d
        <4> QED BY <4>3
      <3> QED BY <1>1, <3>2, <3>3
    <2>4. CASE v # w /\ x # w
      BY <1>1, <1>8, <2>4
    <2>5. CASE v = w /\ x = w
      BY <1>5, <1>8, <2>1, <2>5
    <2> QED BY <2>2, <2>3, <2>4, <2>5
  <1> QED BY <1>7, <1>8, <1>9, <1>10, <1>11 DEF Spread, next

\* All files are placed, and the loads are apart by one file at most.
LEMMA AssignSpread ==
    ASSUME NEW units, Len(units) \in Nat, FilesHaveSizes(units)
    PROVE  \E acc : /\ Spread(units, acc, Len(units)) /\ acc.left = {}
                    /\ AssignBySize(units) = acc.to
  <1> DEFINE n == Len(units)
  <1>1. PICK g : /\ g[0] = Unplaced(units)
                 /\ \A i \in 1..n : g[i] = PlaceNext(g[i - 1], units)
                 /\ AssignBySize(units) = g[n].to
    BY PlaceLoop
  <1> DEFINE T == {m \in Nat : m <= n => Spread(units, g[m], m)}
  <1>2. 0 \in T
    BY <1>1, UnplacedSpread
  <1>3. ASSUME NEW m \in Nat, m \in T PROVE m + 1 \in T
    <2> SUFFICES ASSUME m + 1 <= n PROVE Spread(units, g[m + 1], m + 1)
      OBVIOUS
    <2>1. m + 1 \in 1..n /\ (m + 1) - 1 = m /\ m < n /\ m <= n
      OBVIOUS
    <2>2. Spread(units, g[m], m)
      BY <1>3, <2>1
    <2>3. g[m + 1] = PlaceNext(g[m], units)
      BY <1>1, <2>1
    <2> QED BY <2>1, <2>2, <2>3, PlaceSpread
  <1> HIDE DEF T
  <1>4. \A m \in Nat : m \in T
    BY <1>2, <1>3, Induction
  <1>5. Spread(units, g[n], n)
    BY <1>4 DEF T
  <1>6. g[n].left = {}
    <2>1. g[n].left \in SUBSET (1..n) /\ Cardinality(g[n].left) = 0
      BY <1>5 DEF Spread
    <2>2. IsFiniteSet(1..n)
      BY FS_Interval
    <2>3. IsFiniteSet(g[n].left)
      BY <2>1, <2>2, FS_Subset
    <2> QED BY <2>1, <2>3, FS_EmptySet
  <1> QED BY <1>1, <1>5, <1>6

\* What a worker's group of files weighs, when all are placed.
LEMMA GroupBytes ==
    ASSUME NEW units, Len(units) \in Nat, FilesHaveSizes(units), NEW acc, acc.left = {}, NEW w
    PROVE  /\ Bytes(OnWorker(units, acc.to, w)) = Total(ForWorker(units, acc, w), Len(units))
           /\ Bytes(OnWorker(units, acc.to, w)) \in Nat
  <1> DEFINE n == Len(units)
             S == {units[i] : i \in 1..n}
             g == [u \in S |-> Size(u)]
             z == [i \in 1..n |-> IF acc.to[i] = w THEN <<units[i]>> ELSE <<>>]
             f == ForWorker(units, acc, w)
  <1>1. DOMAIN units = 1..n /\ g \in [S -> Nat] /\ \A i \in 1..n : units[i] \in S /\ g[units[i]] = Size(units[i])
    BY DEF FilesHaveSizes
  <1>2. OnWorker(units, acc.to, w) = FlattenSeq(z)
    BY <1>1, Zenon DEF OnWorker, Concat
  <1>3. z \in Lists(S) /\ Len(z) = n
    <2> DEFINE Q == Seq(S)
    <2>1. ASSUME NEW i \in 1..n PROVE z[i] \in Q
      <3>1. units[i] \in S
        BY <1>1
      <3>2. z[i] = IF acc.to[i] = w THEN <<units[i]>> ELSE <<>>
        OBVIOUS
      <3> HIDE DEF S, z
      <3>3. <<units[i]>> \in Seq(S) /\ <<>> \in Seq(S)
        BY <3>1
      <3> QED BY <3>2, <3>3
    <2>2. z = [i \in 1..n |-> z[i]]
      OBVIOUS
    <2>3. Lists(S) = Seq(Q)
      BY DEF Lists
    <2> HIDE DEF z, Q, S, n
    <2>4. n \in Nat
      BY DEF n
    <2> QED BY <2>1, <2>2, <2>3, <2>4
  <1>4. \A i \in 1..n : z[i] = IF acc.to[i] = w THEN <<units[i]>> ELSE <<>>
    OBVIOUS
  <1>5. Numbers(f, n) /\ \A i \in 1..n : f[i] = IF acc.to[i] = w THEN Size(units[i]) ELSE 0
    BY WorkerNumbers
  <1> HIDE DEF z, f, S, g
  <1> DEFINE y(m) == FlattenSeq(Pre(z, m))
             T == {m \in Nat : m <= n => y(m) \in Seq(S) /\ Weight(g, y(m)) = Total(f, m)}
  <1>6. 0 \in T
    <2>1. Pre(z, 0) = <<>> /\ y(0) = <<>>
      BY FlattenEmpty DEF Pre
    <2>2. <<>> \in Seq(S)
      BY SeqNil
    <2>3. Total(f, 0) = 0
      <3>1. Numbers(f, 0) /\ 0 \in Nat
        BY DEF Numbers
      <3>2. PICK k \in [0..0 -> Nat] : k[0] = 0 /\ Total(f, 0) = k[0]
        BY <3>1, TotalLoop
      <3> QED BY <3>2
    <2>4. Weight(g, <<>>) = 0
      <3> DEFINE o == [i \in DOMAIN <<>> |-> g[<<>>[i]]]
      <3>1. Weight(g, <<>>) = Total(o, 0)
        BY DEF Weight
      <3> HIDE DEF o
      <3>2. Numbers(o, 0) /\ 0 \in Nat
        BY DEF Numbers
      <3>3. PICK k \in [0..0 -> Nat] : k[0] = 0 /\ Total(o, 0) = k[0]
        BY <3>2, TotalLoop
      <3> QED BY <3>1, <3>3
    <2> QED BY <2>1, <2>2, <2>3, <2>4
  <1>7. ASSUME NEW m \in Nat, m \in T PROVE m + 1 \in T
    <2> SUFFICES ASSUME m + 1 <= n
                 PROVE  y(m + 1) \in Seq(S) /\ Weight(g, y(m + 1)) = Total(f, m + 1)
      OBVIOUS
    <2>1. y(m) \in Seq(S) /\ Weight(g, y(m)) = Total(f, m)
      BY <1>7
    <2>2. m + 1 \in 1..n /\ m \in 0..n /\ m + 1 \in Nat /\ m + 1 <= Len(z)
      BY <1>3
    <2>3. /\ Pre(z, m) \in Lists(S) /\ Pre(z, m + 1) = Append(Pre(z, m), z[m + 1]) /\ z[m + 1] \in Seq(S)
      BY <1>3, <2>2, ListPrefixes
    <2>4. y(m + 1) = y(m) \o z[m + 1]
      BY <2>3, FlattenAppend, Zenon
    <2>5. Numbers(f, m + 1)
      BY <1>5, <2>2 DEF Numbers
    <2>6. Total(f, m) \in Nat /\ Total(f, m + 1) = Total(f, m) + f[m + 1]
      BY <2>5, TotalNext
    <2> HIDE DEF y
    <2>7. CASE acc.to[m + 1] = w
      <3>1. z[m + 1] = <<units[m + 1]>> /\ f[m + 1] = Size(units[m + 1]) /\ units[m + 1] \in S
            /\ g[units[m + 1]] = Size(units[m + 1])
        BY <1>1, <1>4, <1>5, <2>2, <2>7
      <3>2. y(m + 1) = Append(y(m), units[m + 1])
        BY <2>1, <2>4, <3>1
      <3>3. Weight(g, Append(y(m), units[m + 1])) = Weight(g, y(m)) + g[units[m + 1]]
        BY <1>1, <2>1, <3>1, WeightAppend
      <3>4. Append(y(m), units[m + 1]) \in Seq(S)
        BY <2>1, <3>1
      <3> QED BY <2>1, <2>6, <3>1, <3>2, <3>3, <3>4
    <2>8. CASE acc.to[m + 1] # w
      <3>1. z[m + 1] = <<>> /\ f[m + 1] = 0
        BY <1>4, <1>5, <2>2, <2>8
      <3>2. y(m + 1) = y(m)
        BY <2>1, <2>4, <3>1
      <3> QED BY <2>1, <2>6, <3>1, <3>2
    <2> QED BY <2>7, <2>8
  <1> HIDE DEF T
  <1>8. \A m \in Nat : m \in T
    BY <1>6, <1>7, Induction
  <1>9. y(n) \in Seq(S) /\ Weight(g, y(n)) = Total(f, n)
    BY <1>8 DEF T
  <1>10. Pre(z, n) = z
    BY <1>3 DEF Pre, Lists
  <1>11. Bytes(y(n)) = Weight(g, y(n))
    <2> DEFINE s == y(n)
               a == [i \in DOMAIN s |-> g[s[i]]]
               b == [i \in DOMAIN s |-> Size(s[i])]
    <2>1. s \in Seq(S)
      BY <1>9
    <2> HIDE DEF s
    <2>2. \A i \in DOMAIN s : s[i] \in S
      BY <2>1
    <2>3. \A u \in S : g[u] = Size(u)
      BY DEF g
    <2>4. a = b
      BY <2>2, <2>3
    <2> QED BY <2>4, Zenon DEF Bytes, Weight, s
  <1>12. Total(f, n) \in Nat
    BY <1>5, TotalSame
  <1> QED BY <1>2, <1>9, <1>10, <1>11, <1>12 DEF f

\* A worker that no file was placed on has a group without bytes.
LEMMA IdleBytes ==
    ASSUME NEW units, Len(units) \in Nat, FilesHaveSizes(units), NEW acc, acc.left = {},
           acc.to \in [1..Len(units) -> 0..NWorkers - 1], NEW w, w \notin Range(acc.to)
    PROVE  Bytes(OnWorker(units, acc.to, w)) = 0
  <1> DEFINE f == ForWorker(units, acc, w)
             n == Len(units)
  <1>1. Numbers(f, n) /\ \A i \in 1..n : f[i] = IF acc.to[i] = w THEN Size(units[i]) ELSE 0
    BY WorkerNumbers
  <1>2. \A i \in 1..n : acc.to[i] # w
    BY DEF Range
  <1>3. Bytes(OnWorker(units, acc.to, w)) = Total(f, n)
    BY GroupBytes
  <1> HIDE DEF f
  <1>4. Total(f, n) = 0
    BY <1>1, <1>2, TotalSame
  <1> QED BY <1>3, <1>4

\* What a worker reads by some tasks.
TasksLoad(ts, w) == Total([t \in DOMAIN ts |-> IF ts[t].w = w THEN Bytes(ts[t].refs[1].put) ELSE 0], Len(ts))

\* The task of each group: where it runs, what it reads.
LEMMA FilesTaskIs ==
    ASSUME NEW units, NEW assign, NEW w
    PROVE  LET task == FilesTask(units, assign, w)
           IN  task.w = w /\ task.refs[1].put = OnWorker(units, assign, w)
  BY DEF FilesTask, Task, Put

\* The task each worker would have.
GroupTasks(units, assign) == {FilesTask(units, assign, w) : w \in 0..NWorkers - 1}

\* Each worker that got files has one task, with all of them.
LEMMA FileTasksAre ==
    ASSUME NEW units, Len(units) \in Nat, FilesHaveSizes(units), NEW acc, acc.left = {},
           acc.to \in [1..Len(units) -> 0..NWorkers - 1], AssignBySize(units) = acc.to
    PROVE  /\ FileTasks(units) \in Seq(GroupTasks(units, acc.to))
           /\ \A w \in 0..NWorkers - 1 : TasksLoad(FileTasks(units), w) = Bytes(OnWorker(units, acc.to, w))
  <1> DEFINE n == Len(units)
             assign == acc.to
             W == 0..NWorkers - 1
             task(v) == FilesTask(units, assign, v)
             S == {task(v) : v \in W}
             B(v) == Bytes(OnWorker(units, assign, v))
             z == [k \in 1..n |-> IF FirstOfItsWorker(assign, k) THEN <<task(assign[k])>> ELSE <<>>]
             y(m) == FlattenSeq(Pre(z, m))
             g(x) == [e \in S |-> IF e.w = x THEN Bytes(e.refs[1].put) ELSE 0]
             Had(x, m) == \E k \in 1..m : assign[k] = x
  <1>0. n \in Nat /\ DOMAIN units = 1..n /\ \A k \in 1..n : assign[k] \in W
    <2> DEFINE R == Range(units)
    <2>1. units \in Seq(R)
      BY DEF FilesHaveSizes
    <2> HIDE DEF R
    <2> QED BY <2>1
  <1>1. FileTasks(units) = FlattenSeq(z)
    BY <1>0, Zenon DEF FileTasks, Concat
  <1>2. \A v \in W : task(v) \in S /\ task(v).w = v /\ task(v).refs[1].put = OnWorker(units, assign, v)
    BY FilesTaskIs
  <1>3. \A v \in W : B(v) \in Nat /\ (v \notin Range(assign) => B(v) = 0)
    BY GroupBytes, IdleBytes
  <1> HIDE DEF B
  <1>4. \A x \in W : g(x) \in [S -> Nat] /\ \A v \in W : g(x)[task(v)] = IF v = x THEN B(v) ELSE 0
    <2> SUFFICES ASSUME NEW x \in W
                 PROVE  g(x) \in [S -> Nat] /\ \A v \in W : g(x)[task(v)] = IF v = x THEN B(v) ELSE 0
      OBVIOUS
    <2>1. \A e \in S : \E v \in W : e = task(v)
      OBVIOUS
    <2> HIDE DEF task, S
    <2>2. \A v \in W : Bytes(task(v).refs[1].put) = B(v)
      BY <1>2 DEF B
    <2>3. \A e \in S : (IF e.w = x THEN Bytes(e.refs[1].put) ELSE 0) \in Nat
      BY <1>3, <2>1, <2>2
    <2>4. \A v \in W : g(x)[task(v)] = IF v = x THEN B(v) ELSE 0
      BY <1>2, <2>2
    <2> QED BY <2>3, <2>4
  <1> HIDE DEF task, g
  <1>5. \A k \in 1..n : z[k] = IF FirstOfItsWorker(assign, k) THEN <<task(assign[k])>> ELSE <<>>
    OBVIOUS
  <1>6. z \in Lists(S) /\ Len(z) = n
    <2> DEFINE Q == Seq(S)
    <2>1. ASSUME NEW k \in 1..n PROVE z[k] \in Q
      <3>1. task(assign[k]) \in S
        BY <1>0, <1>2
      <3>2. z[k] = IF FirstOfItsWorker(assign, k) THEN <<task(assign[k])>> ELSE <<>>
        BY <1>5
      <3> HIDE DEF S, z, assign
      <3>3. <<task(assign[k])>> \in Seq(S) /\ <<>> \in Seq(S)
        BY <3>1
      <3> QED BY <3>2, <3>3
    <2>2. z = [k \in 1..n |-> z[k]]
      OBVIOUS
    <2>3. Lists(S) = Seq(Q)
      BY DEF Lists
    <2> HIDE DEF z, Q, S, n
    <2> QED BY <1>0, <2>1, <2>2, <2>3
  <1> HIDE DEF S, z, n, W, assign
  <1> DEFINE T == {m \in Nat : m <= n => /\ y(m) \in Seq(S)
                                         /\ \A x \in W : Weight(g(x), y(m)) = IF Had(x, m) THEN B(x) ELSE 0}
  <1>7. 0 \in T
    <2>1. Pre(z, 0) = <<>> /\ y(0) = <<>>
      BY FlattenEmpty DEF Pre
    <2>2. <<>> \in Seq(S)
      BY SeqNil
    <2>3. \A x \in W : Weight(g(x), <<>>) = 0
      <3> TAKE x \in W
      <3> DEFINE h == g(x)
                 o == [i \in DOMAIN <<>> |-> h[<<>>[i]]]
      <3>1. Weight(h, <<>>) = Total(o, 0)
        BY DEF Weight
      <3> HIDE DEF o
      <3>2. Numbers(o, 0) /\ 0 \in Nat
        BY DEF Numbers
      <3>3. PICK k \in [0..0 -> Nat] : k[0] = 0 /\ Total(o, 0) = k[0]
        BY <3>2, TotalLoop
      <3> QED BY <3>1, <3>3
    <2>4. \A x : ~Had(x, 0)
      OBVIOUS
    <2> HIDE DEF Had
    <2>5. \A x \in W : Weight(g(x), y(0)) = IF Had(x, 0) THEN B(x) ELSE 0
      <3> TAKE x \in W
      <3>1. Weight(g(x), y(0)) = 0
        BY <2>1, <2>3, Zenon
      <3> HIDE DEF y
      <3> QED BY <2>4, <3>1
    <2>6. y(0) \in Seq(S)
      BY <2>1, <2>2
    <2> HIDE DEF y
    <2> QED BY <2>5, <2>6
  <1>8. ASSUME NEW m \in Nat, m \in T PROVE m + 1 \in T
    <2> SUFFICES ASSUME m + 1 <= n
                 PROVE  /\ y(m + 1) \in Seq(S)
                        /\ \A x \in W : Weight(g(x), y(m + 1)) = IF Had(x, m + 1) THEN B(x) ELSE 0
      OBVIOUS
    <2> DEFINE v == assign[m + 1]
    <2>0. m <= n /\ m + 1 \in 1..n /\ m + 1 <= Len(z) /\ v \in W
      BY <1>0, <1>6
    <2>1. y(m) \in Seq(S) /\ \A x \in W : Weight(g(x), y(m)) = IF Had(x, m) THEN B(x) ELSE 0
      BY <1>8, <2>0
    <2>2. /\ Pre(z, m) \in Lists(S) /\ Pre(z, m + 1) = Append(Pre(z, m), z[m + 1]) /\ z[m + 1] \in Seq(S)
      BY <1>6, <2>0, ListPrefixes
    <2>3. y(m + 1) = y(m) \o z[m + 1]
      BY <2>2, FlattenAppend, Zenon
    <2> HIDE DEF y
    <2>4. /\ \A x : Had(x, m + 1) <=> (Had(x, m) \/ x = v)
          /\ FirstOfItsWorker(assign, m + 1) <=> ~Had(v, m)
      <3>1. \A k : k \in 1..(m + 1) <=> (k \in 1..m \/ k = m + 1)
        OBVIOUS
      <3>2. (m + 1) - 1 = m
        OBVIOUS
      <3> QED BY <3>1, <3>2 DEF FirstOfItsWorker
    <2>5. z[m + 1] = IF FirstOfItsWorker(assign, m + 1) THEN <<task(v)>> ELSE <<>>
      BY <1>5, <2>0
    <2>6. task(v) \in S /\ \A x \in W : g(x)[task(v)] = IF v = x THEN B(v) ELSE 0
      BY <1>2, <1>4, <2>0
    <2> HIDE DEF v, Had
    <2>8. CASE ~Had(v, m)
      <3>1. y(m + 1) = Append(y(m), task(v))
        BY <2>1, <2>3, <2>4, <2>5, <2>6, <2>8
      <3>2. Append(y(m), task(v)) \in Seq(S)
        BY <2>1, <2>6
      <3>3. ASSUME NEW x \in W
            PROVE  Weight(g(x), y(m + 1)) = IF Had(x, m + 1) THEN B(x) ELSE 0
        <4> DEFINE h == g(x)
        <4>1. h \in [S -> Nat] /\ h[task(v)] = IF v = x THEN B(v) ELSE 0
          BY <1>4, <2>6
        <4>2. Weight(h, y(m)) = IF Had(x, m) THEN B(x) ELSE 0
          BY <2>1
        <4> HIDE DEF h
        <4>3. Weight(h, y(m + 1)) = Weight(h, y(m)) + h[task(v)]
          <5>1. ASSUME NEW s \in Seq(S), NEW e \in S
                PROVE  Weight(h, Append(s, e)) = Weight(h, s) + h[e]
            BY <4>1, WeightAppend
          <5>2. Weight(h, Append(y(m), task(v))) = Weight(h, y(m)) + h[task(v)]
            BY <2>1, <2>6, <5>1
          <5> QED BY <3>1, <5>2, Zenon
        <4>4. B(x) \in Nat
          BY <1>3
        <4>5. Weight(h, y(m + 1)) = IF Had(x, m + 1) THEN B(x) ELSE 0
          BY <2>4, <2>8, <4>1, <4>2, <4>3, <4>4
        <4> QED BY <4>5 DEF h
      <3> QED BY <3>1, <3>2, <3>3
    <2>9. CASE Had(v, m)
      <3>1. y(m + 1) = y(m)
        BY <2>1, <2>3, <2>4, <2>5, <2>9
      <3>2. \A x : Had(x, m + 1) <=> Had(x, m)
        BY <2>4, <2>9
      <3> QED BY <2>1, <3>1, <3>2
    <2> QED BY <2>8, <2>9
  <1> HIDE DEF T
  <1>9. \A m \in Nat : m \in T
    BY <1>7, <1>8, Induction
  <1>10. y(n) \in Seq(S) /\ \A x \in W : Weight(g(x), y(n)) = B(x)
    <2>1. y(n) \in Seq(S) /\ \A x \in W : Weight(g(x), y(n)) = IF Had(x, n) THEN B(x) ELSE 0
      BY <1>0, <1>9 DEF T
    <2>2. \A x \in W : ~Had(x, n) => B(x) = 0
      <3>1. DOMAIN assign = 1..n
        BY DEF assign, n
      <3>2. \A x : ~Had(x, n) => x \notin Range(assign)
        BY <3>1 DEF Range
      <3> QED BY <1>3, <3>2
    <2> HIDE DEF y, Had
    <2> QED BY <2>1, <2>2
  <1>11. Pre(z, n) = z
    BY <1>6 DEF Pre, Lists
  <1>12. FileTasks(units) = y(n)
    BY <1>1, <1>11
  <1>13. ASSUME NEW x \in W PROVE TasksLoad(y(n), x) = Weight(g(x), y(n))
    <2> DEFINE s == y(n)
               h == g(x)
               a == [i \in DOMAIN s |-> h[s[i]]]
               b == [i \in DOMAIN s |-> IF s[i].w = x THEN Bytes(s[i].refs[1].put) ELSE 0]
    <2>1. s \in Seq(S)
      BY <1>10
    <2> HIDE DEF s
    <2>2. \A i \in DOMAIN s : s[i] \in S
      BY <2>1
    <2>3. \A e \in S : h[e] = IF e.w = x THEN Bytes(e.refs[1].put) ELSE 0
      BY DEF g
    <2>4. a = b
      <3> HIDE DEF h
      <3> QED BY <2>2, <2>3
    <2> QED BY <2>4, Zenon DEF TasksLoad, Weight, s
  <1>14. FileTasks(units) \in Seq(GroupTasks(units, acc.to))
    <2>1. S = GroupTasks(units, acc.to)
      BY DEF S, W, task, assign, GroupTasks
    <2> HIDE DEF y
    <2> QED BY <1>10, <1>12, <2>1
  <1>15. ASSUME NEW x \in W PROVE TasksLoad(FileTasks(units), x) = Bytes(OnWorker(units, acc.to, x))
    <2> HIDE DEF y
    <2>1. TasksLoad(FileTasks(units), x) = B(x)
      BY <1>10, <1>12, <1>13
    <2> QED BY <2>1 DEF B, assign
  <1> QED BY <1>14, <1>15 DEF W

\* A scan of one file, or of none, is cut into one slice.
LEMMA OneSlice ==
    ASSUME NEW t, NEW n \in Nat \ {0}, Len(t) \in {0, 1}
    PROVE  Slices(t, n) = [i \in 1..1 |-> SubSeq(t, 1, Len(t))]
  <1> DEFINE plan == PartitionPlan(Len(t), n)
  <1>1. DOMAIN plan = 1..1 /\ plan[1][1] = 1 /\ plan[1][2] = Len(t)
    <2>1. CASE Len(t) = 0
      BY <2>1 DEF PartitionPlan
    <2>2. CASE Len(t) = 1
      <3> DEFINE step == (Len(t) + n - 1) \div n
                 many == (Len(t) + step - 1) \div step
      <3>1. step = 1
        <4>1. Len(t) + n - 1 = n
          BY <2>2
        <4>2. n \div n = 1
          OBVIOUS
        <4> QED BY <4>1, <4>2
      <3>2. many = 1
        BY <2>2, <3>1
      <3>3. plan = [i \in 1..many |-> <<(i - 1) * step + 1, Min({i * step, Len(t)})>>]
        BY <2>2 DEF PartitionPlan
      <3> HIDE DEF step, many, plan
      <3>4. DOMAIN plan = 1..1 /\ plan[1] = <<(1 - 1) * step + 1, Min({1 * step, Len(t)})>>
        BY <3>2, <3>3
      <3>5. (1 - 1) * step + 1 = 1 /\ {1 * step, Len(t)} = {1}
        BY <2>2, <3>1
      <3>6. Min({1}) = 1
        BY LeastNumber
      <3> QED BY <2>2, <3>4, <3>5, <3>6
    <2> QED BY <2>1, <2>2
  <1>2. Slices(t, n) = [i \in DOMAIN plan |-> SubSeq(t, plan[i][1], plan[i][2])]
    BY DEF Slices
  <1> HIDE DEF plan
  <1>3. \A i \in 1..1 : SubSeq(t, plan[i][1], plan[i][2]) = SubSeq(t, 1, Len(t))
    BY <1>1
  <1> QED BY <1>1, <1>2, <1>3

\* The tasks a scan of files submits: one for each worker with files, or, of a
\* single file, one that reads it.
FilesPlaced(ts, units) ==
    IF Len(units) > 1 THEN ts = FileTasks(units)
    ELSE DOMAIN ts = 1..1 /\ Len(ts) = 1 /\ ts[1].w = 0
         /\ ts[1].refs[1].put = SubSeq(units, 1, Len(units))

\* A single file is not split, and several are apart by one at most.
LEMMA PlacedApart ==
    ASSUME NEW units, Len(units) \in Nat, FilesHaveSizes(units), NEW ts, FilesPlaced(ts, units),
           NEW w \in 0..NWorkers - 1, NEW x \in 0..NWorkers - 1
    PROVE  \/ TasksLoad(ts, w) <= TasksLoad(ts, x)
           \/ \E r \in Range(units) : TasksLoad(ts, w) - TasksLoad(ts, x) <= Size(r)
  <1>1. DOMAIN units = 1..Len(units) /\ \A i \in 1..Len(units) : Size(units[i]) \in Nat /\ units[i] \in Range(units)
    BY DEF FilesHaveSizes, Range
  <1>2. CASE Len(units) > 1
    <2>1. PICK acc : /\ Spread(units, acc, Len(units)) /\ acc.left = {}
                     /\ AssignBySize(units) = acc.to
      BY AssignSpread
    <2>2. acc.to \in [1..Len(units) -> 0..NWorkers - 1]
      BY <2>1 DEF Spread
    <2>3. \A v \in 0..NWorkers - 1 : TasksLoad(ts, v) = Bytes(OnWorker(units, acc.to, v))
      BY <1>2, <2>1, <2>2, FileTasksAre DEF FilesPlaced
    <2>4. \A v \in 0..NWorkers - 1 : acc.load[v] = Bytes(OnWorker(units, acc.to, v))
      <3>1. \A v : Bytes(OnWorker(units, acc.to, v)) = Total(ForWorker(units, acc, v), Len(units))
        BY <2>1, GroupBytes
      <3> QED BY <2>1, <3>1 DEF Spread
    <2>5. acc.load[w] = TasksLoad(ts, w) /\ acc.load[x] = TasksLoad(ts, x)
      BY <2>3, <2>4
    <2>6. \/ acc.load[w] <= acc.load[x]
          \/ \E i \in 1..Len(units) : acc.load[w] - acc.load[x] <= Size(units[i])
      BY <2>1 DEF Spread
    <2> QED BY <1>1, <2>5, <2>6
  <1>3. CASE ~(Len(units) > 1)
    <2> DEFINE f(v) == [t \in DOMAIN ts |-> IF ts[t].w = v THEN Bytes(ts[t].refs[1].put) ELSE 0]
               b == Bytes(SubSeq(units, 1, Len(units)))
               s == SubSeq(units, 1, Len(units))
    <2>1. DOMAIN ts = 1..1 /\ Len(ts) = 1 /\ ts[1].w = 0 /\ ts[1].refs[1].put = s
      BY <1>3 DEF FilesPlaced
    <2>2. b \in Nat /\ (b = 0 \/ \E i \in 1..Len(units) : b = Size(units[i]))
      <3> DEFINE z == [i \in DOMAIN s |-> Size(s[i])]
      <3>1. units \in Seq(Range(units))
        BY DEF FilesHaveSizes
      <3>2. Len(s) = Len(units) /\ DOMAIN s = 1..Len(units) /\ \A i \in 1..Len(units) : s[i] = units[i]
        <4> DEFINE R == Range(units)
        <4>1. units \in Seq(R)
          BY <3>1
        <4> HIDE DEF R
        <4> QED BY <4>1
      <3>3. b = Total(z, Len(units))
        BY <3>2 DEF Bytes
      <3> HIDE DEF s, b
      <3>4. \A i \in 1..Len(units) : z[i] = Size(units[i])
        BY <3>2
      <3> HIDE DEF z
      <3>5. Numbers(z, Len(units))
        BY <1>1, <3>4 DEF Numbers
      <3>6. CASE Len(units) = 0
        <4>1. \A i \in 1..Len(units) : z[i] = 0
          BY <3>6
        <4>2. Total(z, Len(units)) = 0
          BY <3>5, <4>1, TotalSame
        <4> QED BY <3>3, <4>2
      <3>7. CASE Len(units) # 0
        <4>1. Len(units) = 1 /\ 0 \in Nat /\ 0 + 1 = 1
          <5> DEFINE n == Len(units)
          <5>1. n \in Nat /\ ~(n > 1) /\ n # 0
            BY <1>3, <3>7
          <5> HIDE DEF n
          <5>2. n = 1
            BY <5>1
          <5> QED BY <5>2 DEF n
        <4>2. Numbers(z, 0 + 1)
          BY <3>5, <4>1
        <4>3. Total(z, 0) = 0 /\ Total(z, 0 + 1) = Total(z, 0) + z[0 + 1]
          BY <4>1, <4>2, TotalNext
        <4>4. z[1] = Size(units[1]) /\ Size(units[1]) \in Nat /\ 1 \in 1..Len(units)
          BY <1>1, <3>4, <4>1
        <4>5. b = Size(units[1])
          <5>1. Total(z, 1) = z[1]
            BY <4>1, <4>3, <4>4
          <5> QED BY <3>3, <4>1, <4>4, <5>1
        <4> QED BY <4>4, <4>5
      <3> QED BY <3>6, <3>7
    <2>3. ASSUME NEW v \in 0..NWorkers - 1 PROVE TasksLoad(ts, v) \in {0, b}
      <3>1. f(v)[1] \in {0, b}
        <4>1. 1 \in DOMAIN ts /\ Bytes(ts[1].refs[1].put) = b
          BY <2>1
        <4> HIDE DEF b, s
        <4>2. f(v)[1] = IF ts[1].w = v THEN Bytes(ts[1].refs[1].put) ELSE 0
          BY <4>1
        <4> QED BY <4>1, <4>2
      <3>2. TasksLoad(ts, v) = Total(f(v), 1)
        BY <2>1 DEF TasksLoad
      <3> HIDE DEF f, b
      <3>3. f(v)[1] \in Nat /\ 0 \in Nat /\ 0 + 1 = 1
        BY <2>2, <3>1
      <3>4. Numbers(f(v), 0 + 1)
        BY <3>3 DEF Numbers
      <3>5. Total(f(v), 0) = 0 /\ Total(f(v), 0 + 1) = Total(f(v), 0) + f(v)[0 + 1]
        BY <3>3, <3>4, TotalNext
      <3> QED BY <3>1, <3>2, <3>3, <3>5
    <2> HIDE DEF b
    <2>4. CASE b = 0
      BY <2>3, <2>4
    <2>5. CASE \E i \in 1..Len(units) : b = Size(units[i])
      <3>1. PICK r \in Range(units) : b = Size(r)
        BY <1>1, <2>5
      <3>2. TasksLoad(ts, w) - TasksLoad(ts, x) <= Size(r)
        BY <2>2, <2>3, <3>1
      <3> QED BY <3>2
    <2> QED BY <2>2, <2>4, <2>5
  <1> QED BY <1>2, <1>3

\* The tasks of a scan of several files are sound, and are those of the workers
\* that got files.
LEMMA ScanFilesSound ==
    ASSUME TasksSound, NEW units, Len(units) \in Nat, FilesHaveSizes(units)
    PROVE  SubSound(ScanFiles(units)) /\ ScanFiles(units).tasks = FileTasks(units)
  <1> DEFINE ts == FileTasks(units)
             k == Len(ts)
             none == Nothing(<<>>)
  <1>1. Len(tasks) \in Nat
    BY SeqFacts DEF TasksSound
  <1>2. PICK acc : /\ Spread(units, acc, Len(units)) /\ acc.left = {}
                   /\ AssignBySize(units) = acc.to
    BY AssignSpread
  <1>3. ts \in Seq(GroupTasks(units, acc.to))
    <2>1. acc.to \in [1..Len(units) -> 0..NWorkers - 1]
      BY <1>2 DEF Spread
    <2>2. FileTasks(units) \in Seq(GroupTasks(units, acc.to))
      BY <1>2, <2>1, FileTasksAre
    <2> QED BY <2>2
  <1>4. ASSUME NEW w PROVE FilesTask(units, acc.to, w).w = w /\ RefsSound(FilesTask(units, acc.to, w).refs, Len(tasks))
    <2> DEFINE one == <<Put(OnWorker(units, acc.to, w))>>
    <2>1. one = [i \in 1..1 |-> one[i]] /\ one[1].t = 0
      BY DEF Put
    <2>2. FilesTask(units, acc.to, w).w = w /\ FilesTask(units, acc.to, w).refs = one
      BY DEF FilesTask, Task
    <2> HIDE DEF one
    <2>3. IsSeq(one) /\ Len(one) = 1
      BY <2>1, SegmentIsSeq
    <2>4. RefsSound(one, Len(tasks))
      BY <1>1, <2>1, <2>3 DEF RefsSound, RefSound
    <2> QED BY <2>2, <2>4
  <1> DEFINE S == GroupTasks(units, acc.to)
  <1>5. \A e \in S : e.w \in 0..NWorkers - 1 /\ RefsSound(e.refs, Len(tasks))
    BY <1>4 DEF GroupTasks
  <1>6. ts \in Seq(S)
    BY <1>3
  <1> HIDE DEF ts, S
  <1>7. k \in Nat /\ ts = [i \in 1..k |-> ts[i]] /\ \A i \in 1..k : ts[i] \in S
    BY <1>6
  <1>8. SubSound(none) /\ Len(none.tasks) = 0 /\ none.tasks = <<>>
    <2>1. <<>> = [i \in 1..0 |-> <<>>[i]]
      OBVIOUS
    <2>2. IsSeq(<<>>) /\ Len(<<>>) = 0
      BY <2>1, SegmentIsSeq
    <2>3. RefsSound(<<>>, Len(tasks))
      BY <2>2 DEF RefsSound
    <2>4. none.tasks = <<>>
      BY DEF Nothing
    <2> QED BY <2>3, <2>4, NothingSound
  <1> HIDE DEF none
  <1>9. \A i \in 1..k : ts[i].w \in 0..(NWorkers - 1) /\ RefsSound(ts[i].refs, Len(tasks) + Len(none.tasks))
    <2>1. Len(tasks) + Len(none.tasks) = Len(tasks)
      BY <1>1, <1>8
    <2> QED BY <1>5, <1>7, <2>1
  <1>10. ScanFiles(units) = Submitting(none, ts)
    BY DEF ScanFiles, none, ts
  <1>11. SubSound(Submitting(none, ts))
    <2> HIDE DEF k
    <2> QED BY <1>7, <1>8, <1>9, SubmittingSound
  <1>12. Submitting(none, ts).tasks = ts
    <2>1. Submitting(none, ts).tasks = none.tasks \o ts
      BY DEF Submitting
    <2>2. <<>> \o ts = ts
      BY <1>6
    <2> QED BY <1>8, <2>1, <2>2
  <1> QED BY <1>10, <1>11, <1>12 DEF ts

-----------------------------------------------------------------------------
\* The stage executor: the tasks of a node of the plan.
LEMMA VisitSound ==
    ASSUME BackwardInv, IsDag, pc <= Root
    PROVE  SubSound(Visit(query.plan[pc], [i \in DOMAIN query.plan[pc].in |-> outs[query.plan[pc].in[i]]]))
  <1> DEFINE node == query.plan[pc]
             in == [i \in DOMAIN node.in |-> outs[node.in[i]]]
  <1> USE DEF BackwardInv
  <1>1. pc \in 1..Root /\ Len(outs) = pc - 1 /\ Root \in Nat
    BY Asked DEF PcSound
  <1>2. /\ \A i \in DOMAIN node.in : node.in[i] \in 1..(pc - 1)
        /\ node.op # "Scan" => 1 \in DOMAIN node.in
        /\ node.op \in {"Join", "SetOp"} => 2 \in DOMAIN node.in
    BY <1>1, Asked DEF PostOrder
  <1>3. \A i \in DOMAIN node.in : RefsSound(in[i], Len(tasks))
    BY <1>1, <1>2 DEF OutsSound
  <1>4. /\ node.op # "Scan" => RefsSound(in[1], Len(tasks))
        /\ node.op \in {"Join", "SetOp"} => RefsSound(in[2], Len(tasks))
    BY <1>2, <1>3
  <1>5. Len(relation[pc]) \in Nat
    BY <1>1, Asked
  <1> HIDE DEF node, in
  <1>6. SubSound(Each(Puts(PartitionTables(relation[pc])), "select", 0))
    BY <1>5, PartitionsSound, EachSound
  <1>7. ASSUME node.op # "Scan"
        PROVE  /\ SubSound(Nothing(in[1]))
               /\ \A fn, arg : /\ SubSound(Each(Nothing(in[1]), fn, arg))
                               /\ SubSound(Shuffle(Nothing(in[1]), fn, arg))
                               /\ \A gn, brg : /\ SubSound(Shuffle(Each(Nothing(in[1]), fn, arg), gn, brg))
                                               /\ SubSound(OnOne(Each(Nothing(in[1]), fn, arg), gn, brg))
    <2>1. SubSound(Nothing(in[1]))
      BY <1>4, <1>7, NothingSound
    <2>2. ASSUME NEW fn, NEW arg
          PROVE  SubSound(Each(Nothing(in[1]), fn, arg)) /\ SubSound(Shuffle(Nothing(in[1]), fn, arg))
      BY <2>1, EachSound, ShuffleSound
    <2>3. ASSUME NEW fn, NEW arg, NEW gn, NEW brg
          PROVE  /\ SubSound(Shuffle(Each(Nothing(in[1]), fn, arg), gn, brg))
                 /\ SubSound(OnOne(Each(Nothing(in[1]), fn, arg), gn, brg))
      BY <2>2, ShuffleSound, OnOneSound
    <2> QED BY <2>1, <2>2, <2>3
  <1>8. ASSUME node.op \in {"Join", "SetOp"}, NEW fn, NEW arg
        PROVE  SubSound(ShuffleBoth(in[1], in[2], fn, arg))
    BY <1>4, <1>8, ShuffleBothSound
  <1> DEFINE boundary ==
            CASE node.op = "Scan" -> Each(Puts(PartitionTables(relation[pc])), "select", 0)
              [] node.op = "Aggregate" ->
                   LET partials == Each(Nothing(in[1]), "partial", node.arg)
                   IN IF node.arg THEN Shuffle(partials, "final", TRUE)
                      ELSE OnOne(partials, "final", FALSE)
              [] node.op = "Join" -> ShuffleBoth(in[1], in[2], "join", node.arg)
              [] node.op = "Order" -> OnOne(Each(Nothing(in[1]), "sort", 0), "sort", 0)
              [] node.op = "Distinct" -> Shuffle(Nothing(in[1]), "distinct", 0)
              [] node.op = "SetOp" -> ShuffleBoth(in[1], in[2], "setop", node.arg)
              [] node.op = "Repartition" /\ node.arg -> Shuffle(Nothing(in[1]), "select", 0)
              [] OTHER -> Nothing(in[1])
  <1>9. SubSound(boundary)
    <2>1. CASE node.op = "Scan"
      BY <1>6, <2>1
    <2>2. CASE node.op = "Aggregate"
      BY <1>7, <2>2
    <2>3. CASE node.op \in {"Join", "SetOp"}
      BY <1>8, <2>3
    <2>4. CASE node.op \in {"Order", "Distinct"}
      BY <1>7, <2>4
    <2>5. CASE node.op = "Repartition" /\ node.arg
      BY <1>7, <2>5
    <2>6. CASE /\ node.op \notin {"Scan", "Aggregate", "Join", "Order", "Distinct", "SetOp"}
               /\ ~(node.op = "Repartition" /\ node.arg)
      <3>1. boundary = Nothing(in[1])
        BY <2>6
      <3> QED BY <1>7, <2>6, <3>1
    <2> QED BY <2>1, <2>2, <2>3, <2>4, <2>5, <2>6
  <1>10. Visit(node, in) = ThenLocal(boundary, node.local)
    BY DEF Visit
  <1> HIDE DEF boundary
  <1>11. SubSound(Visit(node, in))
    BY <1>9, <1>10, ThenLocalSound
  <1> QED BY <1>11 DEF node, in

\* The other routes: a method of the runner.
LEMMA RouteSound ==
    ASSUME BackwardInv
    PROVE  SubSound(Route(query.plan[Root]))
  <1> DEFINE root == query.plan[Root]
             whole == Puts(PartitionTables(relation[Root]))
             input == Puts(PartitionTables(Input(1)))
  <1> USE DEF BackwardInv
  <1>1. Root \in Nat \ {0} /\ \A n \in 1..Root : Len(relation[n]) \in Nat
    BY Asked
  <1>2. /\ \A i \in DOMAIN root.in : root.in[i] \in 1..(Root - 1)
        /\ root.op # "Scan" => 1 \in DOMAIN root.in
        /\ root.op \in {"Join", "SetOp"} => 2 \in DOMAIN root.in
    BY <1>1, Asked DEF PostOrder
  <1>3. /\ query.route \in {"aggregate", "stream_aggregate"} => Len(Input(1)) \in Nat
        /\ query.route \in {"join", "join_streaming"} => Len(Input(1)) \in Nat /\ Len(Input(2)) \in Nat
    <2>1. /\ query.route \in {"aggregate", "stream_aggregate"} => root.op = "Aggregate"
          /\ query.route \in {"join", "join_streaming"} => root.op = "Join"
      BY Asked DEF RouteFits
    <2>2. Input(1) = relation[root.in[1]] /\ Input(2) = relation[root.in[2]]
      BY DEF Input
    <2> HIDE DEF root
    <2>3. ASSUME NEW i \in DOMAIN root.in PROVE Len(relation[root.in[i]]) \in Nat
      <3>1. root.in[i] \in 1..(Root - 1)
        BY <1>2
      <3>2. root.in[i] \in 1..Root
        BY <1>1, <3>1
      <3> QED BY <1>1, <3>2
    <2>4. root.op # "Scan" => Len(Input(1)) \in Nat
      BY <1>2, <2>2, <2>3
    <2>5. root.op = "Join" => Len(Input(1)) \in Nat /\ Len(Input(2)) \in Nat
      BY <1>2, <2>2, <2>3, <2>4
    <2>6. root.op = "Aggregate" => root.op # "Scan"
      OBVIOUS
    <2> QED BY <2>1, <2>4, <2>5, <2>6
  <1>4. SubSound(whole) /\ SubSound(Puts(EvenSplit(relation[Root])))
    BY <1>1, PartitionsSound
  <1>5. query.route \in {"aggregate", "stream_aggregate"} => SubSound(input)
    BY <1>3, PartitionsSound
  <1> HIDE DEF whole, input
  <1>6. \A fn, arg : SubSound(Each(whole, fn, arg)) /\ SubSound(Shuffle(whole, fn, arg))
    BY <1>4, EachSound, ShuffleSound
  <1>7. ASSUME query.route = "aggregate", NEW grouped
        PROVE  SubSound(DistributedAggregate(input, grouped))
    <2>1. SubSound(Each(input, "partial", grouped))
      BY <1>5, <1>7, EachSound
    <2> QED BY <2>1, ShuffleSound DEF DistributedAggregate
  <1>8. ASSUME query.route = "join_streaming", NEW how
        PROVE  SubSound(JoinStreaming(Input(1), Input(2), how))
    <2>1. /\ RefsSound(Puts(PartitionTables(Input(1))).out, Len(tasks))
          /\ RefsSound(Puts(PartitionTables(Input(2))).out, Len(tasks))
      BY <1>3, <1>8, PartitionsSound
    <2> QED BY <2>1, ShuffleBothSound DEF JoinStreaming
  <1>9. ASSUME NEW how
        PROVE  SubSound(DistributedJoin(Input(1), Input(2), how))
    <2> DEFINE bs == JoinedBuckets(Input(1), Input(2), how)
               ts == [j \in 1..Buckets |->
                         Task(BucketWorker(j), "join", <<Put(bs[1][j]), Put(bs[2][j])>>, <<1, how>>)]
    <2>1. Len(tasks) \in Nat
      BY SeqFacts DEF TasksSound
    <2>2. ASSUME NEW a, NEW b PROVE RefsSound(<<Put(a), Put(b)>>, Len(tasks))
      <3> DEFINE two == <<Put(a), Put(b)>>
      <3>1. two = [k \in 1..2 |-> two[k]] /\ \A k \in 1..2 : two[k].t = 0
        BY DEF Put
      <3> HIDE DEF two
      <3>2. IsSeq(two) /\ Len(two) = 2
        BY <3>1, SegmentIsSeq
      <3>3. RefsSound(two, Len(tasks))
        BY <2>1, <3>1, <3>2 DEF RefsSound, RefSound
      <3> QED BY <3>3 DEF two
    <2>3. DistributedJoin(Input(1), Input(2), how) = Submitting(Nothing(<<>>), ts)
      BY DEF DistributedJoin
    <2> HIDE DEF bs
    <2>4. ts = [j \in 1..Buckets |-> ts[j]]
          /\ \A j \in 1..Buckets : /\ ts[j].w = BucketWorker(j)
                                   /\ ts[j].refs = <<Put(bs[1][j]), Put(bs[2][j])>>
      BY DEF Task
    <2> HIDE DEF ts
    <2>5. RefsSound(<<>>, Len(tasks))
      <3>1. <<>> = [i \in 1..0 |-> <<>>[i]]
        OBVIOUS
      <3>2. IsSeq(<<>>) /\ Len(<<>>) = 0
        BY <3>1, SegmentIsSeq
      <3>3. \A i \in 1..Len(<<>>) : FALSE
        BY <3>2
      <3> QED BY <3>2, <3>3 DEF RefsSound
    <2>6. SubSound(Nothing(<<>>)) /\ Len(Nothing(<<>>).tasks) = 0
      BY <2>5, NothingSound
    <2>7. \A j \in 1..Buckets : /\ ts[j].w \in 0..(NWorkers - 1)
                                /\ RefsSound(ts[j].refs, Len(tasks) + Len(Nothing(<<>>).tasks))
      <3>1. \A j \in 1..Buckets : j \in Nat \ {0}
        BY OnWorkers
      <3>2. \A j \in 1..Buckets : ts[j].w \in 0..(NWorkers - 1)
        BY <2>4, <3>1, OnWorkers
      <3>3. Len(tasks) + Len(Nothing(<<>>).tasks) = Len(tasks)
        BY <2>1, <2>6
      <3> QED BY <2>2, <2>4, <3>2, <3>3
    <2>8. SubSound(Submitting(Nothing(<<>>), ts))
      BY <2>4, <2>6, <2>7, OnWorkers, SubmittingSound
    <2> QED BY <2>3, <2>8
  <1>10. query.route = "stream_aggregate" => SubSound(Each(input, "batches", root.arg))
    BY <1>5, EachSound
  <1>11. SubSound(Each(Puts(EvenSplit(relation[Root])), "select", 0))
    BY <1>4, EachSound
  <1>12. query.route = "scan_files" => SubSound(ScanFiles(relation[Root]))
    <2>1. Len(relation[Root]) \in Nat
      BY <1>1
    <2> QED BY <2>1, Asked, ScanFilesSound
  <1> HIDE DEF root
  <1>13. SubSound(Route(root))
    <2> DEFINE R == Route(root)
    <2>1. CASE query.route = "sort"
      BY <1>6, <2>1 DEF Route, whole
    <2>2. CASE query.route = "distinct"
      BY <1>6, <2>2 DEF Route, whole
    <2>3. CASE query.route = "top_k"
      BY <1>6, <2>3 DEF Route, whole
    <2>4. CASE query.route = "aggregate"
      BY <1>7, <2>4 DEF Route, input
    <2>5. CASE query.route = "stream_aggregate"
      BY <1>10, <2>5 DEF Route, input
    <2>6. CASE query.route = "join_streaming"
      BY <1>8, <2>6 DEF Route
    <2>7. CASE query.route = "join"
      BY <1>9, <2>7 DEF Route
    <2>8. CASE query.route \in {"scan_lance", "read_hive"}
      BY <1>11, <2>8 DEF Route
    <2>9. CASE query.route \notin {"sort", "distinct", "top_k", "aggregate", "stream_aggregate",
                                   "join_streaming", "join", "scan_lance", "read_hive"}
      <3>1. CASE query.route = "scan_files" /\ Len(relation[Root]) > 1
        BY <1>12, <3>1 DEF Route
      <3>2. CASE ~(query.route = "scan_files" /\ Len(relation[Root]) > 1)
        <4>1. Route(root) = Each(whole, "select", 0)
          BY <2>9, <3>2 DEF Route, whole
        <4> QED BY <1>6, <4>1
      <3> QED BY <3>1, <3>2
    <2> QED BY <2>1, <2>2, <2>3, <2>4, <2>5, <2>6, <2>7, <2>8, <2>9
  <1> QED BY <1>13 DEF root

-----------------------------------------------------------------------------
\* A submission adds tasks that read from what was there.
LEMMA SubmittedSound ==
    ASSUME BackwardInv, NEW sub, SubSound(sub), tasks' = tasks \o sub.tasks, outs' = Append(outs, sub.out)
    PROVE  TasksSound' /\ OutsSound' /\ Len(outs') = Len(outs) + 1
  <1> USE DEF BackwardInv
  <1>1. /\ IsSeq(tasks) /\ Len(tasks) \in Nat /\ IsSeq(sub.tasks) /\ Len(sub.tasks) \in Nat
        /\ IsSeq(outs) /\ Len(outs) \in Nat
    BY SeqFacts DEF TasksSound, OutsSound, SubSound
  <1>2. /\ IsSeq(tasks') /\ Len(tasks') = Len(tasks) + Len(sub.tasks)
        /\ \A i \in 1..Len(tasks) : tasks'[i] = tasks[i]
        /\ \A i \in 1..Len(tasks') : i <= Len(tasks)
              \/ (i - Len(tasks) \in 1..Len(sub.tasks) /\ tasks'[i] = sub.tasks[i - Len(tasks)])
    BY <1>1, ConcatIsSeq
  <1>3. ASSUME NEW i \in 1..Len(tasks') PROVE TaskSound(tasks'[i], i)
    <2>1. CASE i <= Len(tasks)
      <3>1. i \in 1..Len(tasks)
        BY <1>1, <1>2, <2>1
      <3> QED BY <1>2, <3>1 DEF TasksSound
    <2>2. CASE ~(i <= Len(tasks))
      <3>1. i - Len(tasks) \in 1..Len(sub.tasks) /\ tasks'[i] = sub.tasks[i - Len(tasks)]
        BY <1>2, <2>2
      <3>2. Len(tasks) + (i - Len(tasks)) = i
        BY <1>1
      <3>3. TaskSound(tasks'[i], Len(tasks) + (i - Len(tasks)))
        BY <3>1 DEF SubSound
      <3> QED BY <3>2, <3>3
    <2> QED BY <2>1, <2>2
  <1>4. TasksSound'
    BY <1>2, <1>3 DEF TasksSound, TaskSound, RefsSound, RefSound, IsSeq
  <1> DEFINE one == <<sub.out>>
  <1>5. IsSeq(one) /\ Len(one) = 1 /\ one[1] = sub.out
    <2>1. one = [i \in 1..1 |-> one[i]] /\ one[1] = sub.out
      OBVIOUS
    <2> HIDE DEF one
    <2> QED BY <2>1, SegmentIsSeq
  <1>6. outs' = outs \o one
    BY <1>1 DEF IsSeq
  <1> HIDE DEF one
  <1>7. /\ IsSeq(outs') /\ Len(outs') = Len(outs) + 1
        /\ \A i \in 1..Len(outs) : outs'[i] = outs[i]
        /\ \A i \in 1..Len(outs') : i <= Len(outs) \/ (i - Len(outs) \in 1..1 /\ outs'[i] = one[i - Len(outs)])
    <2> DEFINE all == outs \o one
    <2>1. /\ IsSeq(all) /\ Len(all) = Len(outs) + Len(one)
          /\ \A i \in 1..Len(outs) : all[i] = outs[i]
          /\ \A i \in 1..Len(all) :
                i <= Len(outs) \/ (i - Len(outs) \in 1..Len(one) /\ all[i] = one[i - Len(outs)])
      BY <1>1, <1>5, ConcatIsSeq, ZenonT(40)
    <2>2. outs' = all
      BY <1>6
    <2> HIDE DEF all
    <2>3. /\ IsSeq(all) /\ Len(all) = Len(outs) + 1
          /\ \A i \in 1..Len(all) : i <= Len(outs) \/ (i - Len(outs) \in 1..1 /\ all[i] = one[i - Len(outs)])
      BY <1>5, <2>1
    <2> QED BY <2>1, <2>2, <2>3
  <1>8. ASSUME NEW n \in 1..Len(outs') PROVE RefsSound(outs'[n], Len(tasks'))
    <2>1. CASE n <= Len(outs)
      <3>1. n \in 1..Len(outs)
        BY <1>1, <1>7, <2>1
      <3>2. RefsSound(outs'[n], Len(tasks))
        BY <1>7, <3>1 DEF OutsSound
      <3>3. Len(tasks') \in Nat /\ Len(tasks) <= Len(tasks')
        BY <1>1, <1>2
      <3> QED BY <1>1, <3>2, <3>3, Later
    <2>2. CASE ~(n <= Len(outs))
      <3>1. outs'[n] = sub.out
        BY <1>5, <1>7, <2>2
      <3> QED BY <1>2, <3>1 DEF SubSound
    <2> QED BY <2>1, <2>2
  <1>9. OutsSound'
    BY <1>7, <1>8 DEF OutsSound, RefsSound, RefSound, IsSeq
  <1> QED BY <1>4, <1>7, <1>9

\* Nothing is submitted at first.
LEMMA InitBackward == Init => BackwardInv
  <1> SUFFICES ASSUME Init PROVE BackwardInv
    OBVIOUS
  <1>1. QuerySound
    BY DEF Init, QuerySound
  <1>2. <<>> = [i \in 1..0 |-> <<>>[i]]
    OBVIOUS
  <1>3. IsSeq(<<>>) /\ Len(<<>>) = 0
    BY <1>2, SegmentIsSeq
  <1>4. TasksSound /\ OutsSound
    BY <1>3 DEF Init, TasksSound, OutsSound
  <1>5. PcSound
    BY <1>1, <1>3, Asked DEF Init, PcSound
  <1> QED BY <1>1, <1>4, <1>5 DEF BackwardInv

\* Submissions read backward, and running a task changes no submission.
LEMMA NextBackward == BackwardInv /\ [Next]_vars => BackwardInv'
  <1> SUFFICES ASSUME BackwardInv, [Next]_vars PROVE BackwardInv'
    OBVIOUS
  <1>0. QuerySound /\ PcSound /\ TasksSound /\ OutsSound /\ Root \in Nat \ {0}
    BY Asked DEF BackwardInv
  <1>1. CASE VisitNode
    <2> DEFINE sub == Visit(query.plan[pc], [i \in DOMAIN query.plan[pc].in |-> outs[query.plan[pc].in[i]]])
    <2>1. /\ IsDag /\ pc <= Root /\ pc' = pc + 1 /\ tasks' = tasks \o sub.tasks
          /\ outs' = Append(outs, sub.out) /\ UNCHANGED <<query, relation>>
      BY <1>1 DEF VisitNode, Submitted
    <2>2. SubSound(sub)
      BY <2>1, VisitSound
    <2> HIDE DEF sub
    <2>3. TasksSound' /\ OutsSound' /\ Len(outs') = Len(outs) + 1
      BY <2>1, <2>2, SubmittedSound
    <2>4. QuerySound' /\ PcSound'
      BY <1>0, <2>1, <2>3 DEF QuerySound, PcSound, Root, IsDag
    <2> QED BY <2>3, <2>4 DEF BackwardInv
  <1>2. CASE SubmitRoute
    <2> DEFINE sub == Route(query.plan[Root])
    <2>1. /\ ~IsDag /\ pc' = Root + 1 /\ tasks' = tasks \o sub.tasks
          /\ outs' = Append(outs, sub.out) /\ UNCHANGED <<query, relation>>
      BY <1>2 DEF SubmitRoute, Submitted
    <2>2. SubSound(sub)
      BY RouteSound
    <2> HIDE DEF sub
    <2>3. TasksSound' /\ OutsSound'
      BY <2>1, <2>2, SubmittedSound
    <2>4. QuerySound' /\ PcSound'
      BY <1>0, <2>1 DEF QuerySound, PcSound, Root, IsDag
    <2> QED BY <2>3, <2>4 DEF BackwardInv
  <1>3. CASE UNCHANGED <<query, relation, pc, outs, tasks>>
    BY <1>0, <1>3, ZenonT(40) DEF BackwardInv, TasksSound, OutsSound, QuerySound, PcSound, Root, IsDag,
                      TaskSound, RefsSound, RefSound, IsSeq
  <1>4. ASSUME NEW w \in 0..NWorkers - 1, Execute(w) PROVE UNCHANGED <<query, relation, pc, outs, tasks>>
    BY <1>4 DEF Execute
  <1>5. Gather => UNCHANGED <<query, relation, pc, outs, tasks>>
    BY DEF Gather
  <1> QED BY <1>1, <1>2, <1>3, <1>4, <1>5 DEF Next, vars

\* Every task reads from tasks that were submitted before it, by execute_dag and
\* by every route.
THEOREM TasksReadBackward == Spec => []BackwardInv
  <1> QED BY InitBackward, NextBackward, PTL DEF Spec

\* The actors never wait for one another in a circle: the first task that has not
\* ended has all its inputs, and is the first of its actor.
THEOREM NoCircularWait == Spec => []SomeActorCanRun
  <1>1. BackwardInv => SomeActorCanRun
    <2> SUFFICES ASSUME BackwardInv, \E w \in 0..NWorkers - 1 : Own(w) # {}
                 PROVE  \E w \in 0..NWorkers - 1 : Own(w) # {} /\ Ready(First(w))
      BY DEF SomeActorCanRun
    <2> DEFINE left == DOMAIN tasks \ Ended
               t == Min(left)
    <2>1. IsSeq(tasks) /\ Len(tasks) \in Nat /\ DOMAIN tasks = 1..Len(tasks)
      BY SeqFacts DEF BackwardInv, TasksSound
    <2>2. left # {} /\ left \in SUBSET Nat
      BY <2>1 DEF Own
    <2>3. t \in left /\ \A n \in left : t <= n
      BY <2>2, LeastNumber
    <2> HIDE DEF left
    <2>4. t \in 1..Len(tasks) /\ t \notin Ended /\ t \in Nat
      BY <2>1, <2>3 DEF left
    <2> HIDE DEF t
    <2>5. TaskSound(tasks[t], t)
      BY <2>4 DEF BackwardInv, TasksSound
    <2> DEFINE w == tasks[t].w
    <2>6. w \in 0..NWorkers - 1 /\ t \in Own(w)
      BY <2>1, <2>4, <2>5 DEF TaskSound, Own
    <2>7. First(w) = t
      <3>1. Own(w) \in SUBSET Nat /\ \A n \in Own(w) : n \in left
        BY <2>1 DEF Own, left
      <3> HIDE DEF w
      <3>2. First(w) \in Own(w) /\ \A n \in Own(w) : First(w) <= n
        BY <2>6, <3>1, LeastNumber DEF First
      <3>3. First(w) <= t /\ t <= First(w) /\ First(w) \in Nat
        BY <2>3, <2>6, <3>1, <3>2
      <3> QED BY <2>4, <3>3
    <2>8. Ready(t)
      <3> SUFFICES ASSUME NEW i \in DOMAIN tasks[t].refs PROVE tasks[t].refs[i].t \in Ended \cup {0}
        BY DEF Ready
      <3>1. tasks[t].refs[i].t \in 0..(t - 1)
        <4>1. IsSeq(tasks[t].refs) /\ i \in 1..Len(tasks[t].refs)
          BY <2>5, SeqFacts DEF TaskSound, RefsSound
        <4> QED BY <2>5, <4>1 DEF TaskSound, RefsSound, RefSound
      <3> DEFINE r == tasks[t].refs[i].t
      <3>2. r = 0 \/ (r \in 1..Len(tasks) /\ r < t)
        BY <2>1, <2>4, <3>1
      <3>3. r < t /\ r \in Nat => r \notin left
        BY <2>3, <2>4
      <3> QED BY <2>1, <3>2, <3>3 DEF left
    <2> QED BY <2>6, <2>7, <2>8
  <1> QED BY <1>1, TasksReadBackward, PTL

-----------------------------------------------------------------------------
\* What a scan of files submits: one task for each worker that got files; of a
\* single file, one.
LEMMA ScanPlaces ==
    ASSUME BackwardInv, query.route = "scan_files"
    PROVE  FilesPlaced(Route(query.plan[Root]).tasks, relation[Root])
  <1> DEFINE root == query.plan[Root]
             units == relation[Root]
             parts == PartitionTables(units)
             ts == [i \in DOMAIN Puts(parts).out |-> Task(WorkerFor(i), "select", <<Puts(parts).out[i]>>, 0)]
  <1>1. Len(units) \in Nat /\ FilesHaveSizes(units) /\ query.hint \in Nat /\ TasksSound
    BY Asked DEF BackwardInv
  <1>2. CASE Len(units) > 1
    <2>1. Route(root) = ScanFiles(units)
      BY <1>2 DEF Route
    <2>2. ScanFiles(units).tasks = FileTasks(units)
      BY <1>1, ScanFilesSound
    <2> QED BY <1>2, <2>1, <2>2 DEF FilesPlaced
  <1>3. CASE ~(Len(units) > 1)
    <2>1. Route(root) = Each(Puts(parts), "select", 0)
      BY <1>3 DEF Route
    <2>2. parts = [i \in 1..1 |-> SubSeq(units, 1, Len(units))]
      <3> DEFINE n == IF query.hint > 1 THEN query.hint ELSE NWorkers
      <3>1. n \in Nat \ {0}
        BY <1>1, NWorkersAssumption
      <3>2. parts = Slices(units, n)
        BY DEF PartitionTables
      <3>3. Len(units) \in {0, 1}
        <4> DEFINE k == Len(units)
        <4>1. k \in Nat /\ ~(k > 1)
          BY <1>1, <1>3
        <4> HIDE DEF k
        <4>2. k \in {0, 1}
          BY <4>1
        <4> QED BY <4>2 DEF k
      <3> HIDE DEF n, units, parts
      <3> QED BY <3>1, <3>2, <3>3, OneSlice
    <2> HIDE DEF parts, units
    <2>3. Puts(parts).out = [i \in 1..1 |-> Put(parts[i])] /\ Puts(parts).tasks = <<>>
      BY <2>2 DEF Puts, Nothing
    <2>4. ts = [i \in 1..1 |-> ts[i]] /\ ts[1] = Task(WorkerFor(1), "select", <<Puts(parts).out[1]>>, 0)
      BY <2>3
    <2>5. Each(Puts(parts), "select", 0).tasks = <<>> \o ts
      BY <2>3 DEF Each, Submitting
    <2>6. ts[1].w = 0 /\ ts[1].refs[1].put = SubSeq(units, 1, Len(units))
      <3>1. WorkerFor(1) = 0
        BY NWorkersAssumption DEF WorkerFor
      <3>2. Puts(parts).out[1] = Put(SubSeq(units, 1, Len(units)))
        BY <2>2, <2>3
      <3> HIDE DEF ts
      <3> QED BY <2>4, <3>1, <3>2 DEF Task, Put
    <2> HIDE DEF ts
    <2>7. IsSeq(ts) /\ Len(ts) = 1 /\ DOMAIN ts = 1..1
      BY <2>4, SegmentIsSeq
    <2>8. <<>> \o ts = ts
      BY <2>7 DEF IsSeq
    <2>9. Each(Puts(parts), "select", 0).tasks = ts
      BY <2>5, <2>8
    <2>10. FilesPlaced(ts, units)
      BY <1>3, <2>6, <2>7 DEF FilesPlaced, units
    <2> QED BY <2>1, <2>9, <2>10 DEF units
  <1> QED BY <1>2, <1>3

\* The tasks of a scan of files, before and after they are submitted.
ScanSound == query.route = "scan_files" =>
    IF pc <= Root THEN tasks = <<>> ELSE FilesPlaced(tasks, relation[Root])
ScanInv == BackwardInv /\ ScanSound

\* A scan submits its tasks once.
LEMMA NextScan == ScanInv /\ [Next]_vars => ScanSound'
  <1> SUFFICES ASSUME ScanInv, [Next]_vars, query'.route = "scan_files"
               PROVE  (IF pc <= Root THEN tasks = <<>> ELSE FilesPlaced(tasks, relation[Root]))'
    BY DEF ScanSound
  <1>0. BackwardInv /\ ScanSound /\ Root \in Nat \ {0}
    BY Asked DEF ScanInv, BackwardInv
  <1>1. ~VisitNode
    BY DEF VisitNode, IsDag, Submitted
  <1>2. CASE SubmitRoute
    <2> DEFINE sub == Route(query.plan[Root])
    <2>1. /\ pc <= Root /\ pc' = Root + 1 /\ tasks' = tasks \o sub.tasks
          /\ UNCHANGED <<query, relation>>
      BY <1>2 DEF SubmitRoute, Submitted
    <2>2. FilesPlaced(sub.tasks, relation[Root]) /\ SubSound(sub)
      BY <1>0, <2>1, ScanPlaces, RouteSound
    <2> HIDE DEF sub
    <2>3. tasks = <<>>
      BY <1>0, <2>1 DEF ScanSound
    <2>4. tasks' = sub.tasks
      BY <2>1, <2>2, <2>3 DEF SubSound, IsSeq
    <2>5. Root' = Root /\ relation'[Root'] = relation[Root] /\ ~(pc' <= Root')
      BY <1>0, <2>1 DEF Root
    <2>6. FilesPlaced(tasks', relation'[Root'])
      BY <2>2, <2>4, <2>5
    <2> QED BY <2>5, <2>6 DEF FilesPlaced
  <1>3. CASE UNCHANGED <<query, relation, pc, outs, tasks>>
    BY <1>0, <1>3 DEF ScanSound, Root, FilesPlaced
  <1>4. ASSUME NEW w \in 0..NWorkers - 1, Execute(w) PROVE UNCHANGED <<query, relation, pc, outs, tasks>>
    BY <1>4 DEF Execute
  <1>5. Gather => UNCHANGED <<query, relation, pc, outs, tasks>>
    BY DEF Gather
  <1> QED BY <1>1, <1>2, <1>3, <1>4, <1>5 DEF Next, vars

\* No worker of a file scan reads more than the least loaded one by more than one
\* file, whatever the sizes of the files and the number of workers.
THEOREM ScansBalanced == Spec => []ScanIsBalanced
  <1>1. Init => ScanInv
    <2> SUFFICES ASSUME Init PROVE ScanInv
      OBVIOUS
    <2>1. BackwardInv
      BY InitBackward
    <2>2. pc <= Root
      BY <2>1, Asked DEF BackwardInv, Init
    <2> QED BY <2>1, <2>2 DEF ScanInv, ScanSound, Init
  <1>2. ScanInv /\ [Next]_vars => ScanInv'
    BY NextBackward, NextScan DEF ScanInv
  <1>3. ScanInv => ScanIsBalanced
    <2> SUFFICES ASSUME ScanInv, query.route = "scan_files", tasks # <<>>,
                        NEW w \in 0..NWorkers - 1, NEW x \in 0..NWorkers - 1
                 PROVE  Load(w) <= Load(x) \/ \E r \in Range(relation[Root]) : Load(w) - Load(x) <= Size(r)
      BY DEF ScanIsBalanced
    <2>1. FilesPlaced(tasks, relation[Root])
      BY DEF ScanInv, ScanSound
    <2>2. Len(relation[Root]) \in Nat /\ FilesHaveSizes(relation[Root])
      BY Asked DEF ScanInv, BackwardInv
    <2>3. Load(w) = TasksLoad(tasks, w) /\ Load(x) = TasksLoad(tasks, x)
      BY DEF Load, TasksLoad
    <2> QED BY <2>1, <2>2, <2>3, PlacedApart
  <1> QED BY <1>1, <1>2, <1>3, PTL DEF Spec
=============================================================================
