----------------------------- MODULE LanceStore -----------------------------
(***************************************************************************)
(* One Lance dataset and everything that is cached of it                   *)
(* (python/jude/_lance.py, vector.py, runners/_ray_shim.py).               *)
(*                                                                         *)
(* The dataset is the list of its committed versions. Each process keeps,  *)
(* by path, the handle it opened last (_DS_CACHE), which goes on showing   *)
(* the version it was opened at. The driver also counts its own mutations  *)
(* (_EPOCH) and keeps vector matrices stamped with that count              *)
(* (_RESIDENT_VEC); an actor keeps one matrix stamped with the version on  *)
(* disk (_vec_cache). The driver runs one call at a time and makes all the *)
(* commits; actors answer one call at a time and may be restarted.         *)
(***************************************************************************)
EXTENDS Naturals, Sequences

CONSTANTS Actors,         \* the actors that serve shards
          Driver,         \* the driver's process
          Rows,           \* rows, as tokens of their contents
          Columns,        \* vector columns
          HasSegmentApi,  \* the installed Lance builds indices uncommitted
          MaxVersions,    \* bound: versions ever committed
          MaxEpoch        \* bound: mutations counted by the driver

ASSUME LanceAssumption ==
    /\ Driver \notin Actors
    /\ HasSegmentApi \in BOOLEAN
    /\ MaxVersions \in Nat \ {0} /\ MaxEpoch \in Nat

Clients == Actors \cup {Driver}

VARIABLES
    history,    \* the versions: the rows of each
    handle,     \* handle[p]: the version process p's cached handle shows
    epoch,      \* _EPOCH[path] in the driver
    matrix,     \* matrix[c]: version and epoch stamp of the driver's matrix
    shard,      \* shard[a]: version and column of actor a's matrix
    segments,   \* whether index segments are built and not committed
    answer      \* the last query: what it read, and what was committed then

vars == <<history, handle, epoch, matrix, shard, segments, answer>>

Latest == Len(history)

\* Versions are counted from 1: version 0 stands for nothing cached.
Nothing == 0
RowsOf(v) == history[v]

NoAnswer == [by |-> Driver, via |-> "none", seen |-> Nothing, scored |-> Nothing,
             sameColumn |-> TRUE, latest |-> Nothing]

Init ==
    /\ history \in {<<R>> : R \in SUBSET Rows}
    /\ handle = [p \in Clients |-> Nothing]
    /\ epoch = 0
    /\ matrix = [c \in Columns |-> [version |-> Nothing, epoch |-> 0]]
    /\ shard = [a \in Actors |-> {}]
    /\ segments = FALSE
    /\ answer = NoAnswer

\* Plausible defects of the definitions below, for mutation runs.
OnlyDropsHandle == handle' = [handle EXCEPT ![Driver] = Nothing] /\ UNCHANGED epoch
KeepsHandle == UNCHANGED handle
AnyVersion(m) == TRUE

(***************************************************************************)
(* Mutations, by the driver.                                               *)
(***************************************************************************)

\* Lance commits one more version, with these rows.
Commit(R) ==
    /\ Latest < MaxVersions
    /\ history' = Append(history, R)

\* invalidate(path): drop this process's handle and count the mutation.
Invalidate ==
    /\ handle' = [handle EXCEPT ![Driver] = Nothing]
    /\ epoch' = epoch + 1

\* _DS_CACHE.pop(path): drop the handle without counting.
DropHandle == handle' = [handle EXCEPT ![Driver] = Nothing]

Mutated(R) ==
    /\ epoch < MaxEpoch
    /\ Commit(R)
    /\ Invalidate
    /\ UNCHANGED <<matrix, shard, answer>>

\* write, or commit_fragments, of an append.
AppendRows ==
    /\ \E r \in Rows \ RowsOf(Latest) : Mutated(RowsOf(Latest) \cup {r})
    /\ UNCHANGED segments

\* write, or commit_fragments, that replaces everything.
Overwrite ==
    /\ \E R \in SUBSET Rows : Mutated(R)
    /\ UNCHANGED segments

\* merge_insert: the rows with the keys of the new ones are replaced.
MergeInsert ==
    /\ \E old \in SUBSET RowsOf(Latest), r \in Rows \ RowsOf(Latest) :
           Mutated((RowsOf(Latest) \ old) \cup {r})
    /\ UNCHANGED segments

Delete ==
    /\ \E R \in SUBSET RowsOf(Latest) : Mutated(R)
    /\ UNCHANGED segments

\* restore(version): the old state becomes a new version.
Restore ==
    /\ \E v \in 1..Latest : Mutated(RowsOf(v))
    /\ UNCHANGED segments

\* A new version of the same rows: compact, add_columns, optimize_indices,
\* create_vector_index, create_scalar_index and create_fts_index.
Rewrite ==
    /\ Mutated(RowsOf(Latest))
    /\ UNCHANGED segments

\* create_branch commits nothing on the main branch, and invalidates.
CreateBranch ==
    /\ epoch < MaxEpoch
    /\ Invalidate
    /\ UNCHANGED <<history, matrix, shard, segments, answer>>

\* create_index_uncommitted: builds a segment, or, with a Lance that cannot,
\* commits a whole index and invalidates nothing.
CreateIndexUncommitted ==
    /\ IF HasSegmentApi
       THEN segments' = TRUE /\ UNCHANGED history
       ELSE Commit(RowsOf(Latest)) /\ UNCHANGED segments
    /\ UNCHANGED <<handle, epoch, matrix, shard, answer>>

\* commit_index_segments: without the API it returns before it does anything.
CommitIndexSegments ==
    /\ HasSegmentApi /\ segments
    /\ Mutated(RowsOf(Latest))
    /\ segments' = FALSE

\* distributed_create_vector_index: the index is created through the cached
\* handle, which is then dropped and nothing counted; if Lance refuses the
\* centroids, the single-node build takes over.
DistributedCreateIndex ==
    /\ \/ /\ Commit(RowsOf(Latest))
          /\ DropHandle
          /\ UNCHANGED <<epoch, matrix, shard, answer>>
       \/ Mutated(RowsOf(Latest))
    /\ UNCHANGED segments

\* set_index_cache_size, in the driver: every handle is forgotten.
SetIndexCacheSize ==
    /\ handle' = [handle EXCEPT ![Driver] = Nothing]
    /\ UNCHANGED <<history, epoch, matrix, shard, segments, answer>>

(***************************************************************************)
(* Queries.                                                                *)
(***************************************************************************)

\* _dataset(path): the cached handle, or one opened now.
Opened(p) == IF handle[p] = Nothing THEN Latest ELSE handle[p]

Answer(p, how, version, vectors, same) ==
    answer' = [by |-> p, via |-> how, seen |-> version, scored |-> vectors,
               sameColumn |-> same, latest |-> Latest]

\* read_table, vector_search and full_text_search open the dataset anew.
FreshRead ==
    /\ Answer(Driver, "fresh", Latest, Latest, TRUE)
    /\ UNCHANGED <<history, handle, epoch, matrix, shard, segments>>

\* Queries through the cached handle: knn_rerank, lance_scan, register_search
\* and register_fts in the driver; vector_knn_shard, fts_shard, fts_termstats
\* and fts_candidates in an actor.
CachedRead(p) ==
    /\ handle' = [handle EXCEPT ![p] = Opened(p)]
    /\ Answer(p, "handle", Opened(p), Opened(p), TRUE)
    /\ UNCHANGED <<history, epoch, matrix, shard, segments>>

\* A matrix of the driver's that _resident_vectors does not load again.
Usable(m) == m.version # Nothing /\ m.epoch = epoch

\* A matrix loaded now, from the handle on version v.
Stamped(v) == [version |-> v, epoch |-> epoch]

\* knn_ann_resident: candidates from the handle, distances from the matrix.
ResidentRead(c) ==
    LET held == IF Usable(matrix[c]) THEN matrix[c]
                ELSE Stamped(Opened(Driver))
    IN /\ matrix' = [matrix EXCEPT ![c] = held]
       /\ handle' = [handle EXCEPT ![Driver] = Opened(Driver)]
       /\ Answer(Driver, "resident", Opened(Driver), held.version, TRUE)
       /\ UNCHANGED <<history, epoch, shard, segments>>

\* A matrix of an actor's that _resident_shard does not decode again.
UpToDate(m) == m.version = Latest

\* vector_exact_shard, and its batched form, over column c: one matrix for
\* each path, whatever the column it was decoded from.
ShardRead(a, c) ==
    LET held == {m \in shard[a] : UpToDate(m)}
        used == IF held = {} THEN {[version |-> Latest, column |-> c]} ELSE held
    IN \E m \in used :
        /\ shard' = [shard EXCEPT ![a] = used]
        /\ Answer(a, "shard", m.version, m.version, m.column = c)
        /\ UNCHANGED <<history, handle, epoch, matrix, segments>>

\* Ray restarts an actor, or the runner replaces its pool: a new process.
Restart(a) ==
    /\ handle' = [handle EXCEPT ![a] = Nothing]
    /\ shard' = [shard EXCEPT ![a] = {}]
    /\ UNCHANGED <<history, epoch, matrix, segments, answer>>

Mutation ==
    \/ AppendRows \/ Overwrite \/ MergeInsert \/ Delete \/ Rewrite \/ Restore
    \/ CreateIndexUncommitted \/ CommitIndexSegments
    \/ DistributedCreateIndex

Next ==
    \/ Mutation
    \/ CreateBranch
    \/ SetIndexCacheSize
    \/ FreshRead
    \/ \E p \in Clients : CachedRead(p)
    \/ \E c \in Columns : ResidentRead(c)
    \/ \E a \in Actors, c \in Columns : ShardRead(a, c)
    \/ \E a \in Actors : Restart(a)

Spec == Init /\ [][Next]_vars

(***************************************************************************)
(* Properties.                                                             *)
(***************************************************************************)

\* Types: what is cached is a version that exists, stamped with a count of
\* mutations that the driver has reached.
TypeOK ==
    /\ history \in Seq(SUBSET Rows) /\ history # <<>>
    /\ handle \in [Clients -> 0..Latest]
    /\ epoch \in Nat
    /\ matrix \in [Columns -> [version : 0..Latest, epoch : 0..epoch]]
    /\ shard \in [Actors -> SUBSET [version : 1..Latest, column : Columns]]
    /\ segments \in BOOLEAN
    /\ answer \in [by : Clients, via : {"none", "fresh", "handle", "resident", "shard"},
                   seen : 0..Latest, scored : 0..Latest, sameColumn : BOOLEAN,
                   latest : 0..Latest]

\* A query of the driver after any of its mutations reads the last version, its
\* indices included: no cached handle hides a write or an index
\* (_lance.py:22-28, tests/test_cache_invalidation.py).
DriverSeesWrites == answer.by = Driver => answer.seen = answer.latest

\* The resident search scores its candidates with the vectors of the very rows
\* that the index proposed them from: an id the matrix lacks would be dropped
\* in silence, and a vector replaced since would rank its row wrongly
\* (vector.py:329-331).
RerankAgrees ==
    answer.via = "resident" => RowsOf(answer.scored) = RowsOf(answer.seen)

\* A resident shard answers from the rows committed before the query, though
\* the process that committed them cannot reach its cache (_ray_shim.py:297-312).
ShardSeesWrites == answer.via = "shard" => answer.scored = answer.latest

\* The comment on epochs: a query after a write never silently returns stale
\* data (_lance.py:26-28), whichever process answers it. No run checks it: the
\* handle an actor keeps outlives the driver's writes.
NoStaleAnswer == answer.seen = answer.latest

\* A shard's exact top-k is of the column that was asked for
\* (_ray_shim.py:316-320). No run checks it: the actor's matrix is cached by path.
AnswersFromItsColumn == answer.via = "shard" => answer.sameColumn
=============================================================================
