---------------------------- MODULE SplitAssigner ----------------------------
(***************************************************************************)
(* How jude packs input splits into the partitions that become tasks       *)
(* (src/dist/split_assigner.rs) and how the descriptors of those tasks     *)
(* record them (src/dist/fte.rs).                                          *)
(*                                                                         *)
(* Sources report their splits in batches; the last batch of a source says *)
(* so (no_more_inputs). One call of assign handles one batch and answers   *)
(* with an AssignmentResult; its updates are applied to the descriptors in *)
(* order, as append_splits and seal_source. A call takes &mut self, so one *)
(* action is one call and the application of its result.                   *)
(*                                                                         *)
(* The three assigners of the trait are the three strategies.              *)
(***************************************************************************)
EXTENDS Integers, FiniteSets, SequencesExt, Folds

CONSTANTS
    Strategies,      \* subset of {"single", "hash", "arbitrary"}
    Sources,         \* source node ids
    Replicated,      \* those that are broadcast (used by "arbitrary")
    NumPartitions,   \* of the hash assigner
    MaxSplits,       \* max_task_split_count
    MinTarget, MaxTarget,      \* bytes a partition is to hold
    GrowthPeriod,              \* adaptive_growth_period
    GrowthNum, GrowthDen,      \* adaptive_growth_factor, as a fraction
    Sizes,           \* sizes a split may have
    MaxBatch,        \* bound: splits in one batch
    MaxFed           \* bound: splits one source reports

ASSUME AssignerAssumption ==
    /\ Strategies \subseteq {"single", "hash", "arbitrary"}
    /\ Replicated \subseteq Sources
    /\ IsFiniteSet(Sources)
    /\ NumPartitions \in Nat \ {0} /\ MaxSplits \in Nat \ {0}
    /\ MinTarget \in Nat \ {0} /\ MaxTarget \in Nat /\ MinTarget <= MaxTarget
    /\ GrowthPeriod \in Nat \ {0}
    /\ GrowthDen \in Nat \ {0} /\ GrowthNum \in Nat /\ GrowthNum >= GrowthDen
    /\ Sizes \subseteq Nat
    /\ MaxBatch \in Nat /\ MaxFed \in Nat

VARIABLES
    strategy,
    assigner,    \* the fields of the assigner
    sealed,      \* sealed_partitions of all calls, in their order
    noMorePartitions,  \* whether a call has said so (AssignmentResult::merge)
    tasks,       \* the TaskDescriptor of each partition that was added
    fed,         \* the splits each source has reported
    ended        \* the sources that have reported their last batch

vars == <<strategy, assigner, sealed, noMorePartitions, tasks, fed, ended>>

\* The partitions that exist.
added == DOMAIN tasks

\* sequence_id tells the splits of a source apart; key is the
\* source_partition_id of the hash assigner.
Splits == [source : Sources, seq : 1..MaxFed, size : Sizes, key : 0..NumPartitions]

NoPart == [pid |-> -1, size |-> 0, count |-> 0]

NewAssigner ==
    [target |-> MinTarget, counter |-> 0, open |-> NoPart, parts |-> <<>>,
     broadcast |-> [s \in Replicated |-> <<>>],  \* replicated_splits
     seen |-> {},                                \* sources that were assigned
     completed |-> {}]

\* TaskDescriptor: splits and seen_sequences by source, no_more_splits,
\* source_node_ids.
NewTask == [splits |-> [s \in Sources |-> <<>>], noMore |-> {}, known |-> {}]

NoUpdate == [added |-> <<>>, updates |-> <<>>, sealed |-> <<>>, noMore |-> FALSE]

Update(pid, source, splits, noMore) ==
    [pid |-> pid, source |-> source, splits |-> splits, noMore |-> noMore]

MinOfTwo(a, b) == IF a <= b THEN a ELSE b
------------------------------------------------------------------------------
\* Plausible defects of the definitions below, for mutation runs.
NeedsNewIgnoringCount(a, split) ==
    a.open = NoPart \/ a.open.size + split.size > a.target
LateWithoutBroadcast(a, pid) == <<>>
KeepOpen(a) == a
SealsNothing(t, source) == t
Overwritten(old, splits) == splits

\* TaskDescriptor::append_splits: a split whose sequence_id was seen is dropped.
Appended(old, splits) ==
    LET kept[i \in 0..Len(splits)] ==
            IF i = 0 THEN old
            ELSE LET prev == kept[i - 1]
                 IN  IF \E y \in ToSet(prev) : y.seq = splits[i].seq THEN prev
                     ELSE Append(prev, splits[i])
    IN  kept[Len(splits)]
AppendSplits(t, source, splits) ==
    [t EXCEPT !.splits[source] = Appended(@, splits), !.known = @ \cup {source}]

SealSource(t, source) == [t EXCEPT !.noMore = @ \cup {source}]

IsSealed(t) == t.known # {} /\ t.known \subseteq t.noMore

\* The target a partition is packed to, after one more period of growth.
GrownTarget(t) == MinOfTwo((t * GrowthNum) \div GrowthDen, MaxTarget)

\* grow_target: called when a full partition is sealed.
GrowTarget(a) ==
    IF a.counter + 1 >= GrowthPeriod
    THEN [a EXCEPT !.counter = 0, !.target = GrownTarget(@)]
    ELSE [a EXCEPT !.counter = @ + 1]

NeedsNew(a, split) ==
    \/ a.open = NoPart
    \/ a.open.size + split.size > a.target
    \/ a.open.count + 1 > MaxSplits

\* The updates by which a new partition catches up with the replicated sources
\* that have been assigned, in some order.
CatchUp(a, pid) ==
    LET late == SetToSeq(a.seen \cap Replicated)
    IN  [i \in DOMAIN late |->
            Update(pid, late[i], a.broadcast[late[i]], late[i] \in a.completed)]

\* self.open.take()
TakeOpen(a) == [a EXCEPT !.open = NoPart]

\* The body of the loop over splits of ArbitrarySplitAssigner::assign, on the
\* pair of the assigner and the result so far.
PackSplit(st, split) ==
    LET full   == st.a.open # NoPart
        closed == IF full THEN GrowTarget(TakeOpen(st.a)) ELSE st.a
        pid    == Len(st.a.parts)
        fresh  == [closed EXCEPT !.open = [pid |-> pid, size |-> 0, count |-> 0],
                                 !.parts = Append(@, pid)]
        new    == NeedsNew(st.a, split)
        a      == IF new THEN fresh ELSE st.a
        own    == Update(a.open.pid, split.source, <<split>>, FALSE)
    IN  [a |-> [a EXCEPT !.open.size = @ + split.size, !.open.count = @ + 1],
         r |-> IF ~new THEN [st.r EXCEPT !.updates = Append(@, own)]
               ELSE [added   |-> Append(st.r.added, pid),
                     updates |-> Append(st.r.updates \o CatchUp(st.a, pid), own),
                     sealed  |-> IF full THEN Append(st.r.sealed, st.a.open.pid)
                                 ELSE st.r.sealed,
                     noMore  |-> st.r.noMore]]

\* The loop itself.
PackAll(a, batch) ==
    LET after[i \in 0..Len(batch)] ==
            IF i = 0 THEN [a |-> a, r |-> NoUpdate] ELSE PackSplit(after[i - 1], batch[i])
    IN  after[Len(batch)]

\* ArbitrarySplitAssigner::assign for a replicated source: to every partition.
AssignBroadcast(a, s, batch, last) ==
    [a |-> [a EXCEPT !.broadcast[s] = @ \o batch, !.seen = @ \cup {s},
                     !.completed = IF last THEN @ \cup {s} ELSE @],
     r |-> [NoUpdate EXCEPT !.updates =
               [i \in DOMAIN a.parts |-> Update(a.parts[i], s, batch, last)]]]

\* ArbitrarySplitAssigner::assign for any other source: each split into the
\* open partition; the end of a source seals that partition, tells all and
\* announces that no more partitions come, whatever other sources may add.
AssignPacked(a, s, batch, last) ==
    LET packed == PackAll(a, batch)
        b == packed.a
        ends == [i \in DOMAIN b.parts |-> Update(b.parts[i], s, <<>>, TRUE)]
    IN  IF ~last THEN packed
        ELSE [a |-> [TakeOpen(b) EXCEPT !.completed = @ \cup {s}],
              r |-> [packed.r EXCEPT
                        !.updates = @ \o ends,
                        !.sealed = IF b.open = NoPart THEN @
                                   ELSE Append(@, b.open.pid),
                        !.noMore = TRUE]]

AssignArbitrary(a, s, batch, last) ==
    IF s \in Replicated THEN AssignBroadcast(a, s, batch, last)
    ELSE AssignPacked(a, s, batch, last)

\* What the other two share: n partitions, all made by the first call, and all
\* sealed when every source that was assigned so far has ended - a source that
\* is assigned later fills them again, and its end seals them again.
AssignFixed(a, s, routed, last, n) ==
    LET pids == [i \in 1..n |-> i - 1]
        seen == a.seen \cup {s}
        completed == IF last THEN a.completed \cup {s} ELSE a.completed
        ends == [i \in 1..n |-> Update(i - 1, s, <<>>, TRUE)]
        over == last /\ seen \subseteq completed
    IN  [a |-> [a EXCEPT !.seen = seen, !.completed = completed, !.parts = pids],
         r |-> [added   |-> IF a.parts = <<>> THEN pids ELSE <<>>,
                updates |-> IF last THEN routed \o ends ELSE routed,
                sealed  |-> IF over THEN pids ELSE <<>>,
                noMore  |-> over]]

\* SingleSplitAssigner::assign: everything to partition 0.
AssignSingle(a, s, batch, last) ==
    AssignFixed(a, s, <<Update(0, s, batch, FALSE)>>, last, 1)

RouteOf(split) == split.key % NumPartitions

\* HashSplitAssigner::assign: each split by its key, in the order they come.
ByPart(batch) ==
    LET placed[i \in 0..Len(batch)] ==
            IF i = 0 THEN [p \in 0..(NumPartitions - 1) |-> <<>>]
            ELSE [placed[i - 1] EXCEPT ![RouteOf(batch[i])] = Append(@, batch[i])]
    IN  placed[Len(batch)]
AssignHash(a, s, batch, last) ==
    LET part == ByPart(batch)
        used == SetToSeq({RouteOf(x) : x \in ToSet(batch)})
        routed == [i \in DOMAIN used |-> Update(used[i], s, part[used[i]], FALSE)]
    IN  AssignFixed(a, s, routed, last, NumPartitions)

Assign(a, s, batch, last) ==
    CASE strategy = "single"    -> AssignSingle(a, s, batch, last)
      [] strategy = "hash"      -> AssignHash(a, s, batch, last)
      [] strategy = "arbitrary" -> AssignArbitrary(a, s, batch, last)

\* The descriptors of partitions_added are made, then each update is taken by
\* the descriptor of its partition.
Created(ts, pids) ==
    [p \in DOMAIN ts \cup pids |-> IF p \in DOMAIN ts THEN ts[p] ELSE NewTask]
Updated(t, u) ==
    LET more == AppendSplits(t, u.source, u.splits)
    IN  IF u.noMore THEN SealSource(more, u.source) ELSE more
Apply(ts, u) == [ts EXCEPT ![u.pid] = Updated(@, u)]
ApplyAll(ts, updates) ==
    LET after[i \in 0..Len(updates)] ==
            IF i = 0 THEN ts ELSE Apply(after[i - 1], updates[i])
    IN  after[Len(updates)]

Init ==
    /\ strategy \in Strategies
    /\ assigner = NewAssigner
    /\ sealed = <<>> /\ tasks = <<>>
    /\ noMorePartitions = FALSE
    /\ fed = [s \in Sources |-> <<>>]
    /\ ended = {}

Batches(s) ==
    LET n == Len(fed[s])
        room == MinOfTwo(MaxBatch, MaxFed - n)
    IN  {[i \in DOMAIN z |-> [source |-> s, seq |-> n + i, size |-> z[i],
                              key |-> (n + i) % (NumPartitions + 1)]] :
            z \in BoundedSeq(Sizes, room)}

\* One call of assign, its result applied to the descriptors.
Feed(s, batch, last) ==
    LET done == Assign(assigner, s, batch, last)
    IN  /\ s \notin ended
        /\ batch # <<>> \/ last
        /\ assigner' = done.a
        /\ sealed' = sealed \o done.r.sealed
        /\ noMorePartitions' = (noMorePartitions \/ done.r.noMore)
        /\ tasks' = ApplyAll(Created(tasks, ToSet(done.r.added)), done.r.updates)
        /\ fed' = [fed EXCEPT ![s] = @ \o batch]
        /\ ended' = IF last THEN ended \cup {s} ELSE ended
        /\ UNCHANGED strategy

Next ==
    \E s \in Sources, last \in BOOLEAN :
        \E batch \in Batches(s) : Feed(s, batch, last)

Spec == Init /\ [][Next]_vars
------------------------------------------------------------------------------
\* The splits of a partition that are its own.
Own(p) == UNION {ToSet(tasks[p].splits[s]) : s \in Sources \ Replicated}
\* Bytes in a set of splits.
SizeOf(xs) == MapThenFoldSet(+, 0, LAMBDA x : x.size, LAMBDA S : CHOOSE x \in S : TRUE, xs)

\* Only the packing assigner knows replicated sources.
Broadcasting == strategy = "arbitrary"
IsBroadcast(s) == Broadcasting /\ s \in Replicated

\* The sources that have reported something.
Reporters == {s \in Sources : fed[s] # <<>>} \cup ended

TypeOK ==
    /\ strategy \in Strategies
    /\ assigner.target \in MinTarget..MaxTarget
    /\ assigner.counter \in 0..(GrowthPeriod - 1)
    /\ assigner.open = NoPart \/ assigner.open.pid \in added
    /\ ToSet(assigner.parts) = added
    /\ ToSet(sealed) \subseteq added
    /\ noMorePartitions \in BOOLEAN
    /\ \A p \in added, s \in Sources : ToSet(tasks[p].splits[s]) \subseteq Splits
    /\ \A s \in Sources : fed[s] \in Seq(Splits)
    /\ ended \subseteq Sources

\* However the splits of several sources interleave and are batched, each one
\* that is not broadcast is in the task of exactly one partition, once, and the
\* single and hash assigners put it where they promise.
EachSplitInOneTask ==
    \A s \in Sources : ~IsBroadcast(s) =>
        \A x \in ToSet(fed[s]) :
            LET at == {p \in added : x \in ToSet(tasks[p].splits[s])}
            IN  /\ \E p \in added : at = {p}
                /\ strategy = "single" => at = {0}
                /\ strategy = "hash" => at = {RouteOf(x)}
                /\ \A p \in at : IsInjective(tasks[p].splits[s])

\* "late-created partitions retroactively receive the replicated splits seen so
\* far" (docs/distributed_design.md): every partition, whenever it was made,
\* holds every split of every replicated source, in order, and knows when the
\* source has ended.
BroadcastReachesAll ==
    Broadcasting =>
        \A p \in added, s \in Replicated :
            /\ tasks[p].splits[s] = fed[s]
            /\ s \in ended => s \in tasks[p].noMore

\* A packed partition holds at most MaxSplits splits and, unless it holds a
\* single one, no more than the largest target.
PackedWithinBounds ==
    Broadcasting =>
        \A p \in added :
            LET own == Own(p)
            IN  /\ Cardinality(own) <= MaxSplits
                /\ \/ Cardinality(own) = 1
                   \/ SizeOf(own) <= MaxTarget

\* In the end every partition is sealed and its descriptor says so, so that no
\* task waits for splits that cannot come, and no more partitions are announced:
\* with the packing assigner when every source has ended, with the other two,
\* which know a source only from its reports, whenever every source that has
\* reported has ended. The packing assigner seals no partition twice, nor the
\* one it goes on filling.
SealedInTheEnd ==
    /\ Broadcasting =>
          /\ Cardinality(ToSet(sealed)) = Len(sealed)
          /\ assigner.open.pid \notin ToSet(sealed)
    /\ (IF Broadcasting THEN ended = Sources ELSE Reporters \subseteq ended) =>
          /\ \A p \in added : p \in ToSet(sealed) /\ IsSealed(tasks[p])
          /\ (\E s \in Reporters : ~IsBroadcast(s)) => noMorePartitions

\* The packing assigner puts no further split of its own into a sealed
\* partition. The single and hash assigners do: they seal exactly when a source
\* ends and none that has reported is still going on, so a source that reports
\* only then finds its partitions sealed, fills them, and has them sealed again
\* at its end. No partitions are added once they have announced the end of them.
SealsFollowTheEnds ==
    [][/\ Broadcasting => \A p \in ToSet(sealed) : Own(p)' = Own(p)
       /\ ~Broadcasting =>
             /\ sealed' # sealed <=> ended' # ended /\ Reporters' \subseteq ended'
             /\ noMorePartitions => added' = added]_vars

\* What the name of no_more_partitions says: no partition is added after it.
\* No run checks it: the packing assigner announces it when the first source it
\* packs ends, and others go on and add partitions.
NoneAddedAfterTheLast == [][noMorePartitions => added' = added]_vars

\* "the target partition size grows geometrically - x1.26 every 64 packed
\* splits, up to a cap" (docs/distributed_design.md): after one period of packed
\* splits the target has grown. No run checks it: the code grows the target after
\* a period of sealed partitions (GrowTarget).
GrowsEveryPeriodOfSplits ==
    Broadcasting =>
        LET packed == UNION {Own(p) : p \in added}
        IN  Cardinality(packed) >= GrowthPeriod =>
                assigner.target >= GrownTarget(MinTarget)
=============================================================================
