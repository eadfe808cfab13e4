---------------------------- MODULE LibraryProofs ----------------------------
(***************************************************************************)
(* Theorems about five parts of the library that share no state:           *)
(* - a pipeline destroys the stages it has set up, and what its streaming  *)
(*   engine has yielded is always a beginning of what the breadth-first    *)
(*   one would answer, for any stages, sources, sizes and consumers;       *)
(* - callers that share the workers of a subprocess pool get their own     *)
(*   answers, in order, for any number of callers, workers and batches,    *)
(*   any UDF that raises, and any number of calls, deaths and shutdowns;   *)
(* - runs of incremental_dedup that do not overlap hand every content out  *)
(*   once, for any dumps, any number of runs and crashes anywhere;         *)
(* - no query reads a superseded version of a Lance dataset, for any       *)
(*   number of actors, rows, columns and versions;                         *)
(* - exact search over the shards of a corpus answers as a scan of the     *)
(*   whole of it, for any corpora, shards and questions.                   *)
(***************************************************************************)
EXTENDS Pipeline, UdfPools, HashIndex, LanceStore, Search, SequenceLemmas, FiniteSetTheorems

-----------------------------------------------------------------------------
(* Pipelines: the stages. *)
PipelineSpec == job \in Pipelines /\ Unstarted /\ [][PipelineNext]_pipelineVars

\* Which stages live in which state; "setup" is on its way, "refused" is left.
AliveInv ==
    /\ at \in {"start", "cosmos"} => alive = {}
    /\ at \in {"working", "yielding"} => alive = DOMAIN Stages
    /\ at \in {"done", "raised", "closed"} => alive = {}

-----------------------------------------------------------------------------
\* No stage lives before the pipeline runs.
LEMMA InitAlive == Unstarted => AliveInv
  BY DEF Unstarted, AliveInv

\* Every step keeps the stages that live what the state says.
LEMMA NextAlive == AliveInv /\ [PipelineNext]_pipelineVars => AliveInv'
  <1> SUFFICES ASSUME AliveInv, [PipelineNext]_pipelineVars PROVE AliveInv'
    OBVIOUS
  <1>1. CASE Start
    <2>1. Stages = <<>> => DOMAIN Stages = {}
      OBVIOUS
    <2>2. alive' = {} /\ Stages' = Stages
      BY <1>1 DEF Start, AliveInv, Stages
    <2>3. at' \in {"raised", "cosmos", "setup"} \/ (at' = "yielding" /\ Stages = <<>>)
      BY <1>1 DEF Start
    <2> QED BY <2>1, <2>2, <2>3 DEF AliveInv
  <1>2. CASE SetUp
    BY <1>2 DEF SetUp, AliveInv, Stages
  <1>3. CASE RunNextStage
    BY <1>3 DEF RunNextStage, Destroyed, AliveInv, Stages
  <1>4. CASE PullShard
    <2>1. \/ alive' = {} /\ at' = "raised"
          \/ alive' = alive /\ at' \in {"working", "yielding"}
      BY <1>4, Zenon DEF PullShard, Destroyed
    <2>2. alive = DOMAIN Stages /\ Stages' = Stages
      BY <1>4 DEF PullShard, AliveInv, Stages
    <2> QED BY <2>1, <2>2 DEF AliveInv
  <1>5. CASE Yield
    BY <1>5 DEF Yield, AliveInv, Stages
  <1>6. CASE Close
    BY <1>6 DEF Close, Closed, AliveInv
  <1>7. CASE NextShard
    BY <1>7 DEF NextShard, AliveInv, Stages
  <1>8. CASE Finish
    BY <1>8 DEF Finish, Destroyed, AliveInv
  <1>9. CASE RunCosmos
    <2>1. alive' = {} /\ at' \in {"done", "raised"}
      BY <1>9 DEF RunCosmos, AliveInv
    <2> QED BY <2>1 DEF AliveInv
  <1>10. CASE UNCHANGED pipelineVars
    BY <1>10 DEF pipelineVars, AliveInv, Stages
  <1> QED
    BY <1>1, <1>2, <1>3, <1>4, <1>5, <1>6, <1>7, <1>8, <1>9, <1>10 DEF PipelineNext

\* A stage works only between its setup and its destruction, and every stage
\* that was set up is destroyed when the pipeline ends, raises or is closed.
THEOREM StagesAreDestroyed == PipelineSpec => []StagesDestroyed
  <1>1. AliveInv => StagesDestroyed
    BY DEF AliveInv, StagesDestroyed
  <1> QED BY <1>1, InitAlive, NextAlive, PTL DEF PipelineSpec

-----------------------------------------------------------------------------
(* Cutting a sequence into chunks. *)
\* The lesser of two numbers.
LEMMA MinOfTwo ==
    ASSUME NEW a \in Nat, NEW b \in Nat
    PROVE  Min({a, b}) = IF a <= b THEN a ELSE b
  <1> DEFINE m == IF a <= b THEN a ELSE b
  <1>1. m \in {a, b} /\ \A y \in {a, b} : m <= y
    OBVIOUS
  <1>2. \A x \in {a, b} : (\A y \in {a, b} : x <= y) => x = m
    OBVIOUS
  <1>3. Min({a, b}) \in {a, b} /\ \A y \in {a, b} : Min({a, b}) <= y
    BY <1>1 DEF Min
  <1> QED BY <1>2, <1>3

\* How many pieces of a size there are.
LEMMA CeilFacts ==
    ASSUME NEW a \in Nat, NEW n \in Nat \ {0}
    PROVE  /\ CeilDiv(a, n) \in Nat /\ a <= n * CeilDiv(a, n) /\ (a = 0 <=> CeilDiv(a, n) = 0)
           /\ \A j \in Nat : j < CeilDiv(a, n) => n * j \in Nat /\ n * j < a /\ n * (j + 1) = n * j + n
  <1> DEFINE c == CeilDiv(a, n)
  <1>1. c \in Nat /\ n * (c - 1) < a /\ a <= n * c
    BY DEF CeilDiv
  <1> HIDE DEF c
  <1>2. a = 0 => c = 0
    BY <1>1
  <1>3. c = 0 => a = 0
    BY <1>1
  <1>4. ASSUME NEW j \in Nat, j < c PROVE n * j \in Nat /\ n * j < a /\ n * (j + 1) = n * j + n
    <2>1. n * j <= n * (c - 1)
      BY <1>1, <1>4
    <2>2. n * (c - 1) \in Int
      BY <1>1
    <2> QED BY <1>1, <2>1, <2>2
  <1> QED BY <1>1, <1>2, <1>3, <1>4 DEF c

\* Cutting a sequence into pieces of one size loses nothing.
LEMMA ChunkedJoins ==
    ASSUME NEW S, NEW s \in Seq(S), NEW n \in Nat \ {0}
    PROVE  /\ Chunked(s, n) \in Lists(S) /\ FlattenSeq(Chunked(s, n)) = s
           /\ Len(Chunked(s, n)) = CeilDiv(Len(s), n)
  <1> DEFINE c == CeilDiv(Len(s), n)
             z == Chunked(s, n)
             to(j) == IF Len(s) <= n * j THEN Len(s) ELSE n * j
  <1>0. Len(s) \in Nat
    OBVIOUS
  <1>1. /\ c \in Nat /\ Len(s) <= n * c
        /\ \A j \in Nat : j < c => n * j \in Nat /\ n * j < Len(s) /\ n * (j + 1) = n * j + n
    BY <1>0, CeilFacts
  <1>2. DOMAIN z = 1..c
    BY DEF Chunked
  <1>3. ASSUME NEW j \in Nat, j < c
        PROVE  /\ z[j + 1] = SubSeq(s, n * j + 1, to(j + 1))
               /\ to(j) = n * j /\ to(j + 1) \in (n * j)..Len(s)
    <2>1. n * j \in Nat /\ n * j < Len(s) /\ n * (j + 1) = n * j + n /\ n * (j + 1) \in Nat
      BY <1>1, <1>3
    <2>2. j + 1 \in 1..c /\ (j + 1) - 1 = j
      BY <1>1, <1>3
    <2>3. z[j + 1] = SubSeq(s, n * j + 1, Min({Len(s), n * (j + 1)}))
      BY <2>2 DEF Chunked
    <2>4. Min({Len(s), n * (j + 1)}) = to(j + 1)
      BY <1>0, <2>1, MinOfTwo
    <2>5. to(j) = n * j
      BY <1>0, <2>1
    <2>6. to(j + 1) \in (n * j)..Len(s)
      <3> DEFINE k == n * j
                 l == n * (j + 1)
      <3>1. k \in Nat /\ l \in Nat /\ k < Len(s) /\ k <= l
        BY <2>1
      <3> HIDE DEF k, l
      <3>2. (IF Len(s) <= l THEN Len(s) ELSE l) \in k..Len(s)
        BY <1>0, <3>1
      <3> QED BY <3>2 DEF k, l
    <2> HIDE DEF z, to
    <2> QED BY <2>3, <2>4, <2>5, <2>6, Zenon
  <1> HIDE DEF z, c
  <1>4. z \in Lists(S) /\ Len(z) = c
    <2> DEFINE Q == Seq(S)
    <2>1. \A i \in 1..c : z[i] \in Q
      <3> SUFFICES ASSUME NEW i \in 1..c PROVE z[i] \in Q
        OBVIOUS
      <3>1. i - 1 \in Nat /\ i - 1 < c /\ (i - 1) + 1 = i
        BY <1>1
      <3>2. z[i] = SubSeq(s, n * (i - 1) + 1, to(i)) /\ to(i) \in (n * (i - 1))..Len(s) /\ n * (i - 1) \in Nat
        BY <1>1, <1>3, <3>1
      <3>3. \A k \in (n * (i - 1) + 1)..to(i) : s[k] \in S
        <4> DEFINE lo == n * (i - 1)
                   hi == to(i)
        <4>1. lo \in Nat /\ hi \in lo..Len(s)
          BY <3>2
        <4> HIDE DEF lo, hi
        <4>2. \A k \in (lo + 1)..hi : k \in 1..Len(s)
          BY <1>0, <4>1
        <4>3. \A k \in (lo + 1)..hi : s[k] \in S
          BY <1>0, <4>2
        <4> QED BY <4>3 DEF lo, hi
      <3> HIDE DEF to
      <3>4. to(i) \in Int
        BY <1>0, <3>2
      <3> QED BY <3>2, <3>3, <3>4, SubSeqProperties
    <2>2. z = [i \in 1..c |-> z[i]]
      BY <1>2 DEF z, Chunked, c
    <2> HIDE DEF Q
    <2>3. z \in Seq(Q) /\ Len(z) = c
      BY <1>1, <2>1, <2>2
    <2> QED BY <2>3 DEF Lists, Q
  <1> DEFINE T == {j \in Nat : j <= c => FlattenSeq(Pre(z, j)) = SubSeq(s, 1, to(j))}
  <1>5. 0 \in T
    <2>1. to(0) = 0 /\ SubSeq(s, 1, 0) = <<>>
      BY <1>0, SubSeqEmpty
    <2>2. FlattenSeq(Pre(z, 0)) = <<>>
      BY <1>4, ListPrefixes, FlattenEmpty
    <2> QED BY <2>1, <2>2
  <1>6. ASSUME NEW j \in Nat, j \in T PROVE j + 1 \in T
    <2> SUFFICES ASSUME j + 1 <= c PROVE FlattenSeq(Pre(z, j + 1)) = SubSeq(s, 1, to(j + 1))
      OBVIOUS
    <2>1. j < c /\ j <= c /\ j \in 0..c
      BY <1>1
    <2>2. z[j + 1] = SubSeq(s, n * j + 1, to(j + 1)) /\ to(j) = n * j /\ to(j + 1) \in (n * j)..Len(s) /\ n * j \in Nat
      BY <1>1, <1>3, <2>1
    <2>3. FlattenSeq(Pre(z, j)) = SubSeq(s, 1, to(j))
      BY <1>6, <2>1
    <2>4. Pre(z, j + 1) = Append(Pre(z, j), z[j + 1]) /\ Pre(z, j) \in Lists(S) /\ z[j + 1] \in Seq(S)
      BY <1>4, <2>1, ListPrefixes
    <2>5. FlattenSeq(Pre(z, j + 1)) = FlattenSeq(Pre(z, j)) \o z[j + 1]
      BY <2>4, FlattenAppend
    <2> DEFINE k == n * j
               m == to(j + 1)
    <2>6. k \in Nat /\ m \in k..Len(s) /\ to(j) = k /\ z[j + 1] = SubSeq(s, k + 1, m)
      BY <2>2
    <2> HIDE DEF k, m, to
    <2>7. 1 \in 1..(Len(s) + 1) /\ k \in (1 - 1)..Len(s) /\ m \in k..Len(s)
      BY <1>0, <2>6
    <2>8. SubSeq(s, 1, k) \o SubSeq(s, k + 1, m) = SubSeq(s, 1, m)
      BY <2>7, ConcatAdjacentSubSeq
    <2> QED BY <2>3, <2>5, <2>6, <2>8 DEF m
  <1> HIDE DEF T
  <1>7. \A j \in Nat : j \in T
    BY <1>5, <1>6, Induction
  <1>8. FlattenSeq(Pre(z, c)) = SubSeq(s, 1, Len(s))
    <2>1. to(c) = Len(s)
      BY <1>0, <1>1
    <2>2. c \in T
      BY <1>1, <1>7
    <2> QED BY <1>1, <2>1, <2>2 DEF T
  <1>9. Pre(z, c) = z /\ SubSeq(s, 1, Len(s)) = s
    BY <1>4, ListPrefixes, SubSeqFull
  <1>10. FlattenSeq(z) = s
    BY <1>8, <1>9
  <1> QED BY <1>4, <1>10 DEF z, c

-----------------------------------------------------------------------------
(* Stages: what they make of shards joins to what they make of the rows. *)
\* What a stage makes of each row.
Makes(kind) == [x \in Nat |-> RowsFrom(kind, x)]

\* A stage makes rows of a row.
LEMMA MakesRows == ASSUME NEW kind PROVE Gives(Makes(kind), Nat, Nat)
  <1> SUFFICES ASSUME NEW x \in Nat PROVE RowsFrom(kind, x) \in Seq(Nat)
    BY DEF Gives, Makes
  <1>1. x % 3 \in 0..2
    OBVIOUS
  <1>2. [i \in 1..(x % 3) |-> 10 * x + i] \in Seq(Nat)
    <2> DEFINE n == x % 3
    <2> HIDE DEF n
    <2>1. n \in Nat
      BY <1>1 DEF n
    <2>2. \A i \in 1..n : 10 * x + i \in Nat
      OBVIOUS
    <2>3. [i \in 1..n |-> 10 * x + i] \in Seq(Nat)
      BY <2>1, <2>2
    <2> QED BY <2>3 DEF n
  <1>3. <<x, x>> \in Seq(Nat) /\ <<x>> \in Seq(Nat) /\ <<x + 1>> \in Seq(Nat) /\ <<>> \in Seq(Nat)
    OBVIOUS
  <1>4. CASE kind = "chunk"
    BY <1>2, <1>4, Zenon DEF RowsFrom
  <1>5. CASE kind = "decode"
    BY <1>3, <1>5 DEF RowsFrom
  <1>6. CASE kind = "quality_filter"
    BY <1>3, <1>6 DEF RowsFrom
  <1>7. CASE kind = "map_batches"
    BY <1>3, <1>7 DEF RowsFrom
  <1>8. CASE kind \notin {"chunk", "decode", "quality_filter", "map_batches"}
    BY <1>3, <1>8, Zenon DEF RowsFrom
  <1> QED BY <1>4, <1>5, <1>6, <1>7, <1>8

\* A stage on a shard, as a map.
LEMMA TransformIsMap ==
    ASSUME NEW kind, NEW piece \in Seq(Nat)
    PROVE  Transform(kind, piece) = FlatMap(Makes(kind), piece)
  <1>1. \A i \in DOMAIN piece : Makes(kind)[piece[i]] = RowsFrom(kind, piece[i])
    <2>1. \A i \in DOMAIN piece : piece[i] \in Nat
      OBVIOUS
    <2> QED BY <2>1, Zenon DEF Makes
  <1> QED BY <1>1, Zenon DEF Transform, FlatMap

\* A stage makes a shard of a shard.
LEMMA TransformTyped ==
    ASSUME NEW kind, NEW piece \in Seq(Nat)
    PROVE  Transform(kind, piece) \in Seq(Nat)
  BY TransformIsMap, MakesRows, FlatMapTyped, Zenon

\* A stage works row by row: on two shards as on each of them.
LEMMA TransformConcat ==
    ASSUME NEW kind, NEW a \in Seq(Nat), NEW b \in Seq(Nat)
    PROVE  Transform(kind, a \o b) = Transform(kind, a) \o Transform(kind, b)
  <1>1. a \o b \in Seq(Nat)
    OBVIOUS
  <1>2. FlatMap(Makes(kind), a \o b) = FlatMap(Makes(kind), a) \o FlatMap(Makes(kind), b)
    <2> DEFINE h == Makes(kind)
    <2>1. Gives(h, Nat, Nat)
      BY MakesRows
    <2> HIDE DEF h
    <2>2. FlatMap(h, a \o b) = FlatMap(h, a) \o FlatMap(h, b)
      BY <2>1, FlatMapConcat
    <2> QED BY <2>2 DEF h
  <1>3. /\ Transform(kind, a) = FlatMap(Makes(kind), a) /\ Transform(kind, b) = FlatMap(Makes(kind), b)
        /\ Transform(kind, a \o b) = FlatMap(Makes(kind), a \o b)
    BY <1>1, TransformIsMap
  <1> QED BY <1>2, <1>3, Zenon

\* A stage works row by row: on any number of shards as on each of them.
LEMMA TransformFlatten ==
    ASSUME NEW kind, NEW z \in Lists(Nat)
    PROVE  /\ Transform(kind, FlattenSeq(z)) = FlattenSeq([i \in DOMAIN z |-> Transform(kind, z[i])])
           /\ [i \in DOMAIN z |-> Transform(kind, z[i])] \in Lists(Nat)
  <1>1. FlattenSeq(z) \in Seq(Nat) /\ DOMAIN z = 1..Len(z) /\ Len(z) \in Nat /\ \A i \in 1..Len(z) : z[i] \in Seq(Nat)
    BY FlattenTyped, ListShape
  <1>2. [i \in DOMAIN z |-> FlatMap(Makes(kind), z[i])] = [i \in DOMAIN z |-> Transform(kind, z[i])]
    <2>1. \A i \in DOMAIN z : FlatMap(Makes(kind), z[i]) = Transform(kind, z[i])
      BY <1>1, TransformIsMap
    <2> QED BY <2>1, Zenon
  <1>3. [i \in 1..Len(z) |-> Transform(kind, z[i])] \in Lists(Nat)
    <2> DEFINE Q == Seq(Nat)
    <2>1. \A i \in 1..Len(z) : Transform(kind, z[i]) \in Q
      BY <1>1, TransformTyped
    <2> HIDE DEF Q
    <2>2. [i \in 1..Len(z) |-> Transform(kind, z[i])] \in Seq(Q)
      BY <1>1, <2>1
    <2> QED BY <2>2, Zenon DEF Lists, Q
  <1>4. Transform(kind, FlattenSeq(z)) = FlattenSeq([i \in DOMAIN z |-> FlatMap(Makes(kind), z[i])])
    <2>1. Transform(kind, FlattenSeq(z)) = FlatMap(Makes(kind), FlattenSeq(z))
      BY <1>1, TransformIsMap
    <2>2. Gives(Makes(kind), Nat, Nat)
      BY MakesRows
    <2>3. FlatMap(Makes(kind), FlattenSeq(z)) = FlattenSeq([i \in DOMAIN z |-> FlatMap(Makes(kind), z[i])])
      <3> DEFINE h == Makes(kind)
      <3>1. Gives(h, Nat, Nat)
        BY <2>2
      <3> HIDE DEF h
      <3>2. FlatMap(h, FlattenSeq(z)) = FlattenSeq([i \in DOMAIN z |-> FlatMap(h, z[i])])
        BY <3>1, FlatMapFlatten
      <3> QED BY <3>2 DEF h
    <2> QED BY <2>1, <2>3, Zenon
  <1> QED BY <1>1, <1>2, <1>3, <1>4, Zenon

\* Dropping empty shards drops no row.
LEMMA NonEmptyJoins ==
    ASSUME NEW S, NEW z \in Lists(S)
    PROVE  NonEmpty(z) \in Lists(S) /\ FlattenSeq(NonEmpty(z)) = FlattenSeq(z)
  <1> DEFINE pick(e) == IF e = <<>> THEN <<>> ELSE <<e>>
             y == [i \in DOMAIN z |-> pick(z[i])]
  <1>1. DOMAIN z = 1..Len(z) /\ Len(z) \in Nat /\ \A i \in 1..Len(z) : z[i] \in Seq(S)
    BY ListShape
  <1>2. \A e \in Seq(S) : pick(e) \in Lists(S) /\ FlattenSeq(pick(e)) = e
    <2> SUFFICES ASSUME NEW e \in Seq(S) PROVE pick(e) \in Lists(S) /\ FlattenSeq(pick(e)) = e
      OBVIOUS
    <2>1. CASE e = <<>>
      BY <2>1, ListNil, FlattenEmpty, Zenon
    <2>2. CASE e # <<>>
      BY <2>2, ListSingle, FlattenOne, Zenon
    <2> QED BY <2>1, <2>2
  <1> HIDE DEF pick
  <1>3. y \in Lists(Seq(S))
    <2> DEFINE R == Lists(S)
    <2>1. \A i \in 1..Len(z) : pick(z[i]) \in R
      BY <1>1, <1>2
    <2> HIDE DEF R
    <2>2. [i \in 1..Len(z) |-> pick(z[i])] \in Seq(R)
      BY <1>1, <2>1
    <2> QED BY <1>1, <2>2, Zenon DEF Lists, R
  <1>4. [i \in DOMAIN y |-> FlattenSeq(y[i])] = z
    <2>1. DOMAIN y = 1..Len(z) /\ \A i \in 1..Len(z) : FlattenSeq(y[i]) = z[i]
      BY <1>1, <1>2
    <2>2. z = [i \in 1..Len(z) |-> z[i]]
      BY <1>1 DEF Lists
    <2> HIDE DEF y
    <2> QED BY <2>1, <2>2, Zenon
  <1>5. NonEmpty(z) = FlattenSeq(y)
    BY DEF NonEmpty, pick
  <1> HIDE DEF y
  <1> QED BY <1>3, <1>4, <1>5, FlattenFlatten, Zenon

\* A batch of shards through a stage.
LEMMA ProcessJoins ==
    ASSUME NEW kind, NEW z \in Lists(Nat)
    PROVE  /\ ProcessData(kind, z) \in Lists(Nat)
           /\ FlattenSeq(ProcessData(kind, z)) = Transform(kind, FlattenSeq(z))
  BY TransformFlatten, NonEmptyJoins, Zenon DEF ProcessData

\* A stage gives the rows it makes of the rows it gets, whatever its batches.
LEMMA StageJoins ==
    ASSUME NEW stage, stage.batch \in Nat \ {0}, NEW z \in Lists(Nat)
    PROVE  /\ RunStage(stage, z) \in Lists(Nat)
           /\ FlattenSeq(RunStage(stage, z)) = Transform(stage.kind, FlattenSeq(z))
  <1> DEFINE c == CeilDiv(Len(z), stage.batch)
             y == Chunked(z, stage.batch)
             w == [b \in 1..c |-> ProcessData(stage.kind, y[b])]
             f == [b \in 1..c |-> FlattenSeq(y[b])]
  <1>0. stage.batch \in Nat \ {0} /\ RunStage(stage, z) = FlattenSeq(w)
    BY DEF RunStage
  <1>1. y \in Lists(Seq(Nat)) /\ FlattenSeq(y) = z /\ Len(y) = c
    <2> DEFINE Q == Seq(Nat)
    <2>1. z \in Seq(Q)
      BY DEF Lists
    <2> HIDE DEF Q
    <2>2. y \in Lists(Q) /\ FlattenSeq(y) = z /\ Len(y) = c
      BY <1>0, <2>1, ChunkedJoins
    <2> QED BY <2>2 DEF Q
  <1> HIDE DEF y, c
  <1>2. c \in Nat /\ DOMAIN y = 1..c /\ \A b \in 1..c : y[b] \in Lists(Nat)
    <2> DEFINE Q == Seq(Nat)
    <2>1. y \in Lists(Q)
      BY <1>1
    <2> HIDE DEF Q
    <2>2. c \in Nat /\ DOMAIN y = 1..c /\ \A b \in 1..c : y[b] \in Seq(Q)
      BY <1>1, <2>1, ListShape
    <2> QED BY <2>2, Zenon DEF Lists, Q
  <1>3. \A b \in 1..c : /\ ProcessData(stage.kind, y[b]) \in Lists(Nat)
                        /\ FlattenSeq(ProcessData(stage.kind, y[b])) = Transform(stage.kind, f[b])
    BY <1>2, ProcessJoins
  <1>4. w \in Lists(Seq(Nat))
    <2> DEFINE R == Lists(Nat)
    <2>1. \A b \in 1..c : ProcessData(stage.kind, y[b]) \in R
      BY <1>3
    <2> HIDE DEF R
    <2>2. w \in Seq(R)
      BY <1>2, <2>1
    <2> QED BY <2>2, Zenon DEF Lists, R
  <1>5. f \in Lists(Nat) /\ FlattenSeq(f) = FlattenSeq(z)
    <2>1. f = [b \in DOMAIN y |-> FlattenSeq(y[b])]
      BY <1>2, Zenon
    <2> HIDE DEF f
    <2> QED BY <1>1, <2>1, FlattenFlatten, Zenon
  <1>6. [b \in DOMAIN w |-> FlattenSeq(w[b])] = [b \in DOMAIN f |-> Transform(stage.kind, f[b])]
    <2>1. DOMAIN w = 1..c /\ DOMAIN f = 1..c
      OBVIOUS
    <2>2. \A b \in 1..c : FlattenSeq(w[b]) = Transform(stage.kind, f[b])
      BY <1>3, Zenon
    <2> HIDE DEF w, f
    <2> QED BY <2>1, <2>2, Zenon
  <1> HIDE DEF w, f
  <1>7. FlattenSeq(FlattenSeq(w)) = FlattenSeq([b \in DOMAIN w |-> FlattenSeq(w[b])]) /\ FlattenSeq(w) \in Lists(Nat)
    BY <1>4, FlattenFlatten, Zenon
  <1>8. Transform(stage.kind, FlattenSeq(f)) = FlattenSeq([b \in DOMAIN f |-> Transform(stage.kind, f[b])])
    BY <1>5, TransformFlatten, Zenon
  <1> QED BY <1>0, <1>5, <1>6, <1>7, <1>8, Zenon

\* Stages whose batches are not empty.
Runnable(stages) == Len(stages) \in Nat /\ \A i \in 1..Len(stages) : stages[i].batch \in Nat \ {0}

\* The shards after each of the stages.
LEMMA ChainSteps ==
    ASSUME NEW stages, Runnable(stages), NEW piece \in Seq(Nat)
    PROVE  /\ Chain(stages, piece)[0] = <<piece>>
           /\ \A n \in 0..Len(stages) : Chain(stages, piece)[n] \in Lists(Nat)
           /\ \A n \in 1..Len(stages) :
                 Chain(stages, piece)[n] = RunStage(stages[n], Chain(stages, piece)[n - 1])
  <1> DEFINE m == Len(stages)
             P(h) == h = [n \in 0..m |-> IF n = 0 THEN <<piece>> ELSE RunStage(stages[n], h[n - 1])]
             g == CHOOSE h : P(h)
             V == Lists(Nat)
             step == [n \in 1..m |-> [x \in V |-> RunStage(stages[n], x)]]
             first == <<piece>>
  <1>1. Chain(stages, piece) = g
    BY DEF Chain
  <1>2. m \in Nat /\ \A n \in 1..m : \A x \in V : RunStage(stages[n], x) \in V
    BY StageJoins DEF Runnable
  <1>3. first \in V
    BY ListSingle
  <1> HIDE DEF V
  <1>4. \A n \in 1..m : \A x \in V : step[n][x] = RunStage(stages[n], x) /\ step[n][x] \in V
    BY <1>2
  <1> HIDE DEF step, m, first
  <1>5. PICK k \in [0..m -> V] : k[0] = first /\ \A n \in 1..m : k[n] = step[n][k[n - 1]]
    <2>1. StepsIn(step, m, V)
      BY <1>4 DEF StepsIn
    <2>2. m \in Nat /\ first \in V
      BY <1>2, <1>3
    <2> HIDE DEF g
    <2> QED BY <2>1, <2>2, StepByStep
  <1>6. \A n \in 1..m : k[n] = RunStage(stages[n], k[n - 1])
    <2>1. \A n \in 1..m : k[n - 1] \in V
      BY <1>2
    <2> QED BY <1>4, <1>5, <2>1
  <1>7. k = [n \in 0..m |-> IF n = 0 THEN first ELSE RunStage(stages[n], k[n - 1])]
    <2>1. \A n \in 0..m : k[n] = IF n = 0 THEN first ELSE RunStage(stages[n], k[n - 1])
      <3>1. \A n \in 0..m : n = 0 \/ (n # 0 /\ n \in 1..m)
        BY <1>2
      <3> QED BY <1>5, <1>6, <3>1
    <2>2. k = [n \in 0..m |-> k[n]]
      BY <1>5
    <2> QED BY <2>1, <2>2
  <1>8. g = [n \in 0..m |-> IF n = 0 THEN first ELSE RunStage(stages[n], g[n - 1])]
    <2>1. P(k)
      BY <1>7 DEF first
    <2>2. P(g)
      <3> HIDE DEF P
      <3> QED BY <2>1, Zenon
    <2> HIDE DEF g
    <2> QED BY <2>2 DEF first
  <1> HIDE DEF g
  <1>9. g[0] = first /\ \A n \in 1..m : g[n] = RunStage(stages[n], g[n - 1])
    BY <1>2, <1>8
  <1>10. \A n \in 0..m : g[n] \in V
    <2> DEFINE T == {n \in Nat : n <= m => g[n] \in V}
    <2>1. 0 \in T
      BY <1>3, <1>9
    <2>2. ASSUME NEW n \in Nat, n \in T PROVE n + 1 \in T
      <3> SUFFICES ASSUME n + 1 <= m PROVE g[n + 1] \in V
        OBVIOUS
      <3>1. n + 1 \in 1..m /\ (n + 1) - 1 = n /\ n <= m
        BY <1>2
      <3> QED BY <1>2, <1>9, <2>2, <3>1
    <2> HIDE DEF T
    <2>3. \A n \in Nat : n \in T
      BY <2>1, <2>2, Induction
    <2> QED BY <1>2, <2>3 DEF T
  <1> QED BY <1>1, <1>9, <1>10 DEF V, m, first

\* The rows after each of the stages.
LEMMA ThroughSteps ==
    ASSUME NEW stages, Len(stages) \in Nat, NEW rows \in Seq(Nat)
    PROVE  /\ Through(stages, rows)[0] = rows
           /\ \A n \in 0..Len(stages) : Through(stages, rows)[n] \in Seq(Nat)
           /\ \A n \in 1..Len(stages) :
                 Through(stages, rows)[n] = Transform(stages[n].kind, Through(stages, rows)[n - 1])
  <1> DEFINE m == Len(stages)
             P(h) == h = [n \in 0..m |-> IF n = 0 THEN rows ELSE Transform(stages[n].kind, h[n - 1])]
             g == CHOOSE h : P(h)
             V == Seq(Nat)
             step == [n \in 1..m |-> [x \in V |-> Transform(stages[n].kind, x)]]
             first == rows
  <1>1. Through(stages, rows) = g
    BY DEF Through
  <1>2. m \in Nat /\ \A n \in 1..m : \A x \in V : Transform(stages[n].kind, x) \in V
    BY TransformTyped
  <1>3. first \in V
    OBVIOUS
  <1> HIDE DEF V
  <1>4. \A n \in 1..m : \A x \in V : step[n][x] = Transform(stages[n].kind, x) /\ step[n][x] \in V
    BY <1>2
  <1> HIDE DEF step, m, first
  <1>5. PICK k \in [0..m -> V] : k[0] = first /\ \A n \in 1..m : k[n] = step[n][k[n - 1]]
    <2>1. StepsIn(step, m, V)
      BY <1>4 DEF StepsIn
    <2>2. m \in Nat /\ first \in V
      BY <1>2, <1>3
    <2> HIDE DEF g
    <2> QED BY <2>1, <2>2, StepByStep
  <1>6. \A n \in 1..m : k[n] = Transform(stages[n].kind, k[n - 1])
    <2>1. \A n \in 1..m : k[n - 1] \in V
      BY <1>2
    <2> QED BY <1>4, <1>5, <2>1
  <1>7. k = [n \in 0..m |-> IF n = 0 THEN first ELSE Transform(stages[n].kind, k[n - 1])]
    <2>1. \A n \in 0..m : k[n] = IF n = 0 THEN first ELSE Transform(stages[n].kind, k[n - 1])
      <3>1. \A n \in 0..m : n = 0 \/ (n # 0 /\ n \in 1..m)
        BY <1>2
      <3> QED BY <1>5, <1>6, <3>1
    <2>2. k = [n \in 0..m |-> k[n]]
      BY <1>5
    <2> QED BY <2>1, <2>2
  <1>8. g = [n \in 0..m |-> IF n = 0 THEN first ELSE Transform(stages[n].kind, g[n - 1])]
    <2>1. P(k)
      BY <1>7 DEF first
    <2>2. P(g)
      <3> HIDE DEF P
      <3> QED BY <2>1, Zenon
    <2> HIDE DEF g
    <2>3. g = [n \in 0..m |-> IF n = 0 THEN rows ELSE Transform(stages[n].kind, g[n - 1])]
      BY <2>2, Zenon
    <2>4. first = rows
      BY DEF first
    <2> QED BY <2>3, <2>4, Zenon
  <1> HIDE DEF g
  <1>9. g[0] = first /\ \A n \in 1..m : g[n] = Transform(stages[n].kind, g[n - 1])
    <2>1. 0 \in 0..m /\ \A n \in 1..m : n \in 0..m /\ n # 0
      BY <1>2
    <2>2. \A n \in 0..m : g[n] = IF n = 0 THEN first ELSE Transform(stages[n].kind, g[n - 1])
      BY <1>8, Zenon
    <2> QED BY <2>1, <2>2
  <1>10. \A n \in 0..m : g[n] \in V
    <2> DEFINE T == {n \in Nat : n <= m => g[n] \in V}
    <2>1. 0 \in T
      BY <1>3, <1>9
    <2>2. ASSUME NEW n \in Nat, n \in T PROVE n + 1 \in T
      <3> SUFFICES ASSUME n + 1 <= m PROVE g[n + 1] \in V
        OBVIOUS
      <3>1. n + 1 \in 1..m /\ (n + 1) - 1 = n /\ n <= m
        BY <1>2
      <3> QED BY <1>2, <1>9, <2>2, <3>1
    <2> HIDE DEF T
    <2>3. \A n \in Nat : n \in T
      BY <2>1, <2>2, Induction
    <2> QED BY <1>2, <2>3 DEF T
  <1> QED BY <1>1, <1>9, <1>10 DEF V, m, first

\* A chain makes of a shard what its stages make of its rows.
LEMMA ChainJoins ==
    ASSUME NEW stages, Runnable(stages), NEW piece \in Seq(Nat)
    PROVE  \A n \in 0..Len(stages) :
              /\ Chain(stages, piece)[n] \in Lists(Nat)
              /\ FlattenSeq(Chain(stages, piece)[n]) = Through(stages, piece)[n]
  <1> DEFINE m == Len(stages)
             c == Chain(stages, piece)
             t == Through(stages, piece)
  <1>1. m \in Nat /\ \A n \in 1..m : stages[n].batch \in Nat \ {0}
    BY DEF Runnable
  <1>2. c[0] = <<piece>> /\ (\A n \in 0..m : c[n] \in Lists(Nat)) /\ \A n \in 1..m : c[n] = RunStage(stages[n], c[n - 1])
    BY ChainSteps
  <1>3. t[0] = piece /\ \A n \in 1..m : t[n] = Transform(stages[n].kind, t[n - 1])
    BY <1>1, ThroughSteps
  <1> HIDE DEF c, t, m
  <1> DEFINE T == {n \in Nat : n <= m => FlattenSeq(c[n]) = t[n]}
  <1>4. 0 \in T
    <2>1. FlattenSeq(c[0]) = t[0]
      BY <1>2, <1>3, FlattenOne
    <2> QED BY <2>1
  <1>5. ASSUME NEW n \in Nat, n \in T PROVE n + 1 \in T
    <2> SUFFICES ASSUME n + 1 <= m PROVE FlattenSeq(c[n + 1]) = t[n + 1]
      OBVIOUS
    <2>1. n + 1 \in 1..m /\ (n + 1) - 1 = n /\ n <= m /\ n \in 0..m
      BY <1>1
    <2>2. FlattenSeq(c[n]) = t[n] /\ c[n] \in Lists(Nat) /\ stages[n + 1].batch \in Nat \ {0}
      BY <1>1, <1>2, <1>5, <2>1
    <2>3. c[n + 1] = RunStage(stages[n + 1], c[n]) /\ t[n + 1] = Transform(stages[n + 1].kind, t[n])
      BY <1>2, <1>3, <2>1
    <2>4. FlattenSeq(RunStage(stages[n + 1], c[n])) = Transform(stages[n + 1].kind, FlattenSeq(c[n]))
      BY <2>2, StageJoins
    <2> QED BY <2>2, <2>3, <2>4, Zenon
  <1> HIDE DEF T
  <1>6. \A n \in Nat : n \in T
    BY <1>4, <1>5, Induction
  <1>7. \A n \in 0..m : FlattenSeq(c[n]) = t[n]
    BY <1>1, <1>6 DEF T
  <1> QED BY <1>2, <1>7 DEF m, c, t

\* The rows of two tables go through the stages as those of one.
LEMMA ThroughConcat ==
    ASSUME NEW stages, Len(stages) \in Nat, NEW a \in Seq(Nat), NEW b \in Seq(Nat)
    PROVE  \A n \in 0..Len(stages) : Through(stages, a \o b)[n] = Through(stages, a)[n] \o Through(stages, b)[n]
  <1> DEFINE m == Len(stages)
             s == Through(stages, a)
             t == Through(stages, b)
             u == Through(stages, a \o b)
  <1>0. a \o b \in Seq(Nat)
    OBVIOUS
  <1>1. /\ s[0] = a /\ (\A n \in 0..m : s[n] \in Seq(Nat))
        /\ \A n \in 1..m : s[n] = Transform(stages[n].kind, s[n - 1])
    BY ThroughSteps
  <1>2. /\ t[0] = b /\ (\A n \in 0..m : t[n] \in Seq(Nat))
        /\ \A n \in 1..m : t[n] = Transform(stages[n].kind, t[n - 1])
    BY ThroughSteps
  <1>3. u[0] = a \o b /\ \A n \in 1..m : u[n] = Transform(stages[n].kind, u[n - 1])
    BY <1>0, ThroughSteps
  <1>4. m \in Nat
    OBVIOUS
  <1> HIDE DEF s, t, u, m
  <1> DEFINE T == {n \in Nat : n <= m => u[n] = Glued(s[n], t[n])}
  <1>5. 0 \in T
    <2>1. u[0] = Glued(s[0], t[0])
      BY <1>1, <1>2, <1>3, Zenon DEF Glued
    <2> QED BY <2>1
  <1>6. ASSUME NEW n \in Nat, n \in T PROVE n + 1 \in T
    <2> SUFFICES ASSUME n + 1 <= m PROVE u[n + 1] = Glued(s[n + 1], t[n + 1])
      OBVIOUS
    <2>1. n + 1 \in 1..m /\ (n + 1) - 1 = n /\ n <= m /\ n \in 0..m
      BY <1>4
    <2>2. u[n] = Glued(s[n], t[n]) /\ s[n] \in Seq(Nat) /\ t[n] \in Seq(Nat)
      BY <1>1, <1>2, <1>6, <2>1
    <2> DEFINE kind == stages[n + 1].kind
    <2>3. s[n + 1] = Transform(kind, s[n]) /\ t[n + 1] = Transform(kind, t[n]) /\ u[n + 1] = Transform(kind, u[n])
      BY <1>1, <1>2, <1>3, <2>1
    <2> HIDE DEF kind
    <2>4. Transform(kind, Glued(s[n], t[n])) = Glued(Transform(kind, s[n]), Transform(kind, t[n]))
      BY <2>2, TransformConcat DEF Glued
    <2> QED BY <2>2, <2>3, <2>4, Zenon
  <1> HIDE DEF T
  <1>7. \A n \in Nat : n \in T
    BY <1>5, <1>6, Induction
  <1>8. \A n \in 0..m : u[n] = Glued(s[n], t[n])
    BY <1>4, <1>7 DEF T
  <1> QED BY <1>8, Zenon DEF m, s, t, u, Glued

\* No rows go through the stages as no rows.
LEMMA ThroughNil ==
    ASSUME NEW stages, Len(stages) \in Nat
    PROVE  \A n \in 0..Len(stages) : Through(stages, <<>>)[n] = <<>>
  <1>1. <<>> \in Seq(Nat) /\ <<>> \o <<>> = <<>>
    OBVIOUS
  <1>2. ASSUME NEW n \in 0..Len(stages) PROVE Through(stages, <<>>)[n] = <<>>
    <2> DEFINE x == Through(stages, <<>>)[n]
    <2>1. x \in Seq(Nat)
      BY <1>1, ThroughSteps
    <2>2. \A a, b \in Seq(Nat) : Through(stages, a \o b)[n] = Through(stages, a)[n] \o Through(stages, b)[n]
      BY ThroughConcat
    <2>3. x = x \o x
      BY <1>1, <2>2, Zenon
    <2> HIDE DEF x
    <2>4. x = <<>>
      BY <2>1, <2>3
    <2> QED BY <2>4 DEF x
  <1> QED BY <1>2

\* The rows of many shards go through the stages as those of one table.
LEMMA ThroughFlatten ==
    ASSUME NEW stages, Len(stages) \in Nat, NEW z \in Lists(Nat)
    PROVE  \A n \in 0..Len(stages) :
              /\ [i \in DOMAIN z |-> Through(stages, z[i])[n]] \in Lists(Nat)
              /\ Through(stages, FlattenSeq(z))[n] = FlattenSeq([i \in DOMAIN z |-> Through(stages, z[i])[n]])
  <1> DEFINE m == Len(stages)
             u == Through(stages, FlattenSeq(z))
             w(n) == [i \in DOMAIN z |-> Through(stages, z[i])[n]]
  <1>1. DOMAIN z = 1..Len(z) /\ Len(z) \in Nat /\ \A i \in DOMAIN z : z[i] \in Seq(Nat)
    BY ListShape
  <1>2. FlattenSeq(z) \in Seq(Nat) /\ m \in Nat
    BY FlattenTyped
  <1>3. u[0] = FlattenSeq(z) /\ \A n \in 1..m : u[n] = Transform(stages[n].kind, u[n - 1])
    BY <1>2, ThroughSteps
  <1>4. \A i \in DOMAIN z : /\ Through(stages, z[i])[0] = z[i]
                            /\ \A n \in 0..m : Through(stages, z[i])[n] \in Seq(Nat)
                            /\ \A n \in 1..m : Through(stages, z[i])[n] = Transform(stages[n].kind, Through(stages, z[i])[n - 1])
    BY <1>1, ThroughSteps
  <1>5. \A n \in 0..m : w(n) \in Lists(Nat)
    <2> DEFINE Q == Seq(Nat)
    <2> SUFFICES ASSUME NEW n \in 0..m PROVE w(n) \in Lists(Nat)
      OBVIOUS
    <2>1. \A i \in 1..Len(z) : Through(stages, z[i])[n] \in Q
      BY <1>1, <1>4
    <2> HIDE DEF Q
    <2>2. w(n) \in Seq(Q)
      BY <1>1, <2>1
    <2> QED BY <2>2, Zenon DEF Lists, Q
  <1>6. w(0) = z
    <2>1. z = [i \in DOMAIN z |-> z[i]]
      BY DEF Lists
    <2>2. \A i \in DOMAIN z : Through(stages, z[i])[0] = z[i]
      BY <1>4
    <2> QED BY <2>1, <2>2, Zenon
  <1>7. \A n \in 1..m : n - 1 \in 0..m /\ w(n) = [i \in DOMAIN w(n - 1) |-> Transform(stages[n].kind, w(n - 1)[i])]
    <2> SUFFICES ASSUME NEW n \in 1..m
                 PROVE  n - 1 \in 0..m /\ w(n) = [i \in DOMAIN w(n - 1) |-> Transform(stages[n].kind, w(n - 1)[i])]
      OBVIOUS
    <2>1. \A i \in DOMAIN z : Through(stages, z[i])[n] = Transform(stages[n].kind, Through(stages, z[i])[n - 1])
      BY <1>4
    <2>2. n - 1 \in 0..m
      BY <1>2
    <2> QED BY <2>1, <2>2, Zenon
  <1> HIDE DEF w, u, m
  <1> DEFINE T == {n \in Nat : n <= m => u[n] = FlattenSeq(w(n))}
  <1>8. 0 \in T
    <2>1. u[0] = FlattenSeq(w(0))
      BY <1>3, <1>6, Zenon
    <2> QED BY <2>1
  <1>9. ASSUME NEW n \in Nat, n \in T PROVE n + 1 \in T
    <2> SUFFICES ASSUME n + 1 <= m PROVE u[n + 1] = FlattenSeq(w(n + 1))
      OBVIOUS
    <2>1. n + 1 \in 1..m /\ (n + 1) - 1 = n /\ n <= m /\ n \in 0..m
      BY <1>2
    <2>2. u[n] = FlattenSeq(w(n)) /\ w(n) \in Lists(Nat)
      BY <1>5, <1>9, <2>1
    <2> DEFINE kind == stages[n + 1].kind
    <2>3. u[n + 1] = Transform(kind, u[n]) /\ w(n + 1) = [i \in DOMAIN w(n) |-> Transform(kind, w(n)[i])]
      BY <1>3, <1>7, <2>1
    <2> HIDE DEF kind
    <2>4. Transform(kind, FlattenSeq(w(n))) = FlattenSeq([i \in DOMAIN w(n) |-> Transform(kind, w(n)[i])])
      BY <2>2, TransformFlatten
    <2> QED BY <2>2, <2>3, <2>4, Zenon
  <1> HIDE DEF T
  <1>10. \A n \in Nat : n \in T
    BY <1>8, <1>9, Induction
  <1>11. \A n \in 0..m : u[n] = FlattenSeq(w(n))
    BY <1>2, <1>10 DEF T
  <1> QED BY <1>5, <1>11 DEF m, u, w

-----------------------------------------------------------------------------
(* Sources, and rows counted. *)
\* The shards of a source hold the rows of its tasks, in order.
LEMMA SourceJoins ==
    ASSUME NEW j \in Jobs
    PROVE  /\ TableOf(j.tasks) \in Seq(Nat)
           /\ Source(j) \in Lists(Nat) /\ FlattenSeq(Source(j)) = TableOf(j.tasks)
           /\ ReadDistributed(j.tasks) = TableOf(j.tasks)
  <1> DEFINE tasks == j.tasks
             size == j.size
             chunks == FlattenSeq(tasks)
             table == FlattenSeq(chunks)
  <1>1. tasks \in Lists(Seq(Nat)) /\ size \in Nat \ {0}
    BY DEF Jobs, Lists
  <1> HIDE DEF tasks, size
  <1>2. chunks \in Lists(Nat) /\ [i \in DOMAIN tasks |-> FlattenSeq(tasks[i])] \in Lists(Nat)
        /\ FlattenSeq(chunks) = FlattenSeq([i \in DOMAIN tasks |-> FlattenSeq(tasks[i])])
    BY <1>1, FlattenFlatten
  <1> HIDE DEF chunks
  <1>3. table \in Seq(Nat)
    BY <1>2, FlattenTyped
  <1> HIDE DEF table
  <1>4. TableOf(tasks) = table
    BY DEF TableOf, table, chunks
  <1>5. ReadDistributed(tasks) = table
    BY <1>2, NonEmptyJoins, Zenon DEF ReadDistributed, table
  <1>6. << <<>> >> \in Lists(Nat) /\ FlattenSeq(<< <<>> >>) = <<>>
    <2>1. <<>> \in Seq(Nat)
      OBVIOUS
    <2> QED BY <2>1, ListSingle, FlattenOne
  <1>7. ReadStream(tasks, size) \in Lists(Nat) /\ FlattenSeq(ReadStream(tasks, size)) = table
    <2> DEFINE cut == [i \in DOMAIN chunks |-> Chunked(chunks[i], size)]
               batches == FlattenSeq(cut)
    <2>1. DOMAIN chunks = 1..Len(chunks) /\ Len(chunks) \in Nat /\ \A i \in 1..Len(chunks) : chunks[i] \in Seq(Nat)
      BY <1>2, ListShape
    <2>2. \A i \in 1..Len(chunks) : Chunked(chunks[i], size) \in Lists(Nat) /\ FlattenSeq(Chunked(chunks[i], size)) = chunks[i]
      BY <1>1, <2>1, ChunkedJoins
    <2>3. cut \in Lists(Seq(Nat))
      <3> DEFINE R == Lists(Nat)
      <3>1. \A i \in 1..Len(chunks) : Chunked(chunks[i], size) \in R
        BY <2>2
      <3> HIDE DEF R
      <3>2. cut \in Seq(R)
        BY <2>1, <3>1
      <3> QED BY <3>2, Zenon DEF Lists, R
    <2>4. [i \in DOMAIN cut |-> FlattenSeq(cut[i])] = chunks
      <3>1. DOMAIN cut = 1..Len(chunks) /\ \A i \in 1..Len(chunks) : FlattenSeq(cut[i]) = chunks[i]
        BY <2>1, <2>2
      <3>2. chunks = [i \in 1..Len(chunks) |-> chunks[i]]
        BY <1>2, <2>1 DEF Lists
      <3> HIDE DEF cut
      <3> QED BY <3>1, <3>2, Zenon
    <2> HIDE DEF cut
    <2>5. batches \in Lists(Nat) /\ FlattenSeq(batches) = table
      BY <2>3, <2>4, FlattenFlatten, Zenon DEF table
    <2>6. ReadStream(tasks, size) = IF batches = <<>> THEN << <<>> >> ELSE batches
      BY Zenon DEF ReadStream, cut, chunks
    <2>7. CASE batches = <<>>
      <3>1. table = <<>>
        BY <2>5, <2>7, FlattenEmpty, Zenon
      <3> QED BY <1>6, <2>6, <2>7, <3>1, Zenon
    <2>8. CASE batches # <<>>
      BY <2>5, <2>6, <2>8, Zenon
    <2> QED BY <2>7, <2>8
  <1>8. RelationToShards(table, size) \in Lists(Nat) /\ FlattenSeq(RelationToShards(table, size)) = table
    <2>1. CASE table = <<>>
      BY <1>6, <2>1, Zenon DEF RelationToShards
    <2>2. CASE table # <<>>
      <3>1. Len(table) \in Nat \ {0}
        BY <1>3, <2>2
      <3>2. CeilDiv(Len(table), size) \in Nat \ {0}
        BY <1>1, <3>1, CeilFacts
      <3>3. Chunked(table, CeilDiv(Len(table), size)) \in Lists(Nat)
            /\ FlattenSeq(Chunked(table, CeilDiv(Len(table), size))) = table
        BY <1>3, <3>2, ChunkedJoins
      <3> QED BY <2>2, <3>3, Zenon DEF RelationToShards
    <2> QED BY <2>1, <2>2
  <1>9. Source(j) = IF j.streamed THEN ReadStream(tasks, size) ELSE RelationToShards(table, size)
    BY <1>4, Zenon DEF Source, tasks, size
  <1>10. Source(j) \in Lists(Nat) /\ FlattenSeq(Source(j)) = table
    BY <1>7, <1>8, <1>9, Zenon
  <1> QED BY <1>3, <1>4, <1>5, <1>10, Zenon DEF tasks

-----------------------------------------------------------------------------
\* How often a row is there when one more is appended.
LEMMA TimesAppend ==
    ASSUME NEW S, NEW s \in Seq(S), NEW e \in S, NEW x
    PROVE  /\ Times(s, x) \in Nat
           /\ Times(Append(s, e), x) = Times(s, x) + IF e = x THEN 1 ELSE 0
  <1> DEFINE n == Len(s)
             A == {i \in DOMAIN s : s[i] = x}
             B == {i \in DOMAIN Append(s, e) : Append(s, e)[i] = x}
  <1>1. n \in Nat /\ DOMAIN s = 1..n /\ DOMAIN Append(s, e) = 1..(n + 1)
    OBVIOUS
  <1>2. IsFiniteSet(1..n)
    BY <1>1, FS_Interval
  <1>3. IsFiniteSet(A) /\ Cardinality(A) \in Nat
    BY <1>1, <1>2, FS_Subset, FS_CardinalityType
  <1>4. (\A i \in 1..n : Append(s, e)[i] = s[i]) /\ Append(s, e)[n + 1] = e
    OBVIOUS
  <1>5. n + 1 \notin A /\ B = IF e = x THEN A \cup {n + 1} ELSE A
    BY <1>1, <1>4
  <1> HIDE DEF A, B
  <1>6. Cardinality(A \cup {n + 1}) = Cardinality(A) + 1
    BY <1>3, <1>5, FS_AddElement
  <1>7. Times(s, x) = Cardinality(A) /\ Times(Append(s, e), x) = Cardinality(B)
    BY DEF Times, A, B
  <1> QED BY <1>3, <1>5, <1>6, <1>7

\* No row is in the empty sequence.
LEMMA TimesNil == ASSUME NEW x PROVE Times(<<>>, x) = 0
  <1>1. {i \in DOMAIN <<>> : <<>>[i] = x} = {}
    OBVIOUS
  <1> QED BY <1>1, FS_EmptySet, Zenon DEF Times

\* How often a row is in one sequence after another.
LEMMA TimesConcat ==
    ASSUME NEW S, NEW a \in Seq(S), NEW b \in Seq(S), NEW x
    PROVE  Times(a, x) \in Nat /\ Times(b, x) \in Nat /\ Times(a \o b, x) = Times(a, x) + Times(b, x)
  <1> DEFINE P == {y \in Seq(S) : /\ Times(y, x) \in Nat
                                  /\ Times(a \o y, x) = Times(a, x) + Times(y, x)}
  <1>0. \A y \in Seq(S) : Times(y, x) \in Nat
    <2> DEFINE N == {y \in Seq(S) : Times(y, x) \in Nat}
    <2>1. <<>> \in N
      BY TimesNil
    <2>2. \A y \in Seq(S), e \in S : y \in N => Append(y, e) \in N
      BY TimesAppend
    <2> HIDE DEF N
    <2>3. \A y \in Seq(S) : y \in N
      BY <2>1, <2>2, SeqInduction
    <2> QED BY <2>3 DEF N
  <1>1. <<>> \in P
    <2>1. a \o <<>> = a /\ <<>> \in Seq(S)
      OBVIOUS
    <2>2. Times(a \o <<>>, x) = Times(a, x) + Times(<<>>, x)
      BY <1>0, <2>1, TimesNil
    <2> QED BY <1>0, <2>1, <2>2
  <1>2. ASSUME NEW y \in Seq(S), NEW e \in S, y \in P PROVE Append(y, e) \in P
    <2> DEFINE u == a \o y
    <2>1. u \in Seq(S) /\ Append(y, e) \in Seq(S) /\ a \o Append(y, e) = Append(u, e)
      OBVIOUS
    <2>2. Times(u, x) = Times(a, x) + Times(y, x)
      BY <1>2
    <2> HIDE DEF u
    <2>3. Times(Append(u, e), x) = Times(u, x) + IF e = x THEN 1 ELSE 0
      BY <2>1, TimesAppend
    <2>4. Times(Append(y, e), x) = Times(y, x) + IF e = x THEN 1 ELSE 0
      BY TimesAppend
    <2>5. Times(Append(u, e), x) = Times(a, x) + Times(Append(y, e), x)
      BY <1>0, <2>2, <2>3, <2>4
    <2>6. Times(a \o Append(y, e), x) = Times(a, x) + Times(Append(y, e), x)
      BY <2>1, <2>5, Zenon
    <2>7. Times(Append(y, e), x) \in Nat
      BY <1>0, <2>1
    <2> QED BY <2>1, <2>6, <2>7, Zenon
  <1> HIDE DEF P
  <1>3. \A y \in Seq(S) : y \in P
    BY <1>1, <1>2, SeqInduction
  <1> QED BY <1>0, <1>3 DEF P

\* A sequence, and the same sequence without one of its elements.
Without(y, j, w) ==
    /\ Len(y) = Len(w) + 1 /\ j \in 1..Len(y)
    /\ \A i \in 1..(j - 1) : w[i] = y[i]
    /\ \A i \in j..Len(w) : w[i] = y[i + 1]
Around(Q, y, j, w) == \E a, b \in Seq(Q) : y = Append(a, y[j]) \o b /\ w = a \o b

\* What stands before the element and behind it.
LEMMA CutOut ==
    ASSUME NEW Q, NEW y \in Seq(Q), NEW w \in Seq(Q), NEW j, Without(y, j, w)
    PROVE  Around(Q, y, j, w)
  <1> USE DEF Without
  <1> DEFINE a == [i \in 1..(j - 1) |-> y[i]]
             b == [i \in 1..(Len(y) - j) |-> y[i + j]]
             c == Append(a, y[j])
  <1>1. Len(y) \in Nat /\ Len(w) \in Nat /\ j \in Nat
    OBVIOUS
  <1>2. a \in Seq(Q) /\ Len(a) = j - 1 /\ \A i \in 1..(j - 1) : a[i] = y[i]
    BY <1>1
  <1>3. b \in Seq(Q) /\ Len(b) = Len(y) - j /\ \A i \in 1..(Len(y) - j) : b[i] = y[i + j]
    BY <1>1
  <1> HIDE DEF a, b
  <1>4. c \in Seq(Q) /\ Len(c) = j /\ c[j] = y[j] /\ \A i \in 1..(j - 1) : c[i] = y[i]
    BY <1>1, <1>2
  <1> HIDE DEF c
  <1>5. c \o b \in Seq(Q) /\ Len(c \o b) = Len(y)
    BY <1>1, <1>3, <1>4
  <1>6. \A i \in 1..Len(y) : (c \o b)[i] = IF i <= j THEN c[i] ELSE b[i - j]
    BY <1>1, <1>3, <1>4, ConcatProperties
  <1>7. \A i \in 1..Len(y) : (c \o b)[i] = y[i]
    <2> SUFFICES ASSUME NEW i \in 1..Len(y) PROVE (c \o b)[i] = y[i]
      OBVIOUS
    <2>1. CASE i < j
      BY <1>1, <1>4, <1>6, <2>1
    <2>2. CASE i = j
      BY <1>1, <1>4, <1>6, <2>2
    <2>3. CASE i > j
      <3> DEFINE k == i - j
      <3>1. k \in 1..(Len(y) - j) /\ k + j = i /\ ~(i <= j)
        BY <1>1, <2>3
      <3>2. (c \o b)[i] = b[k]
        BY <1>6, <3>1
      <3> HIDE DEF k
      <3>3. b[k] = y[k + j]
        BY <1>3, <3>1
      <3> QED BY <3>1, <3>2, <3>3
    <2>4. i < j \/ i = j \/ i > j
      BY <1>1
    <2> QED BY <2>1, <2>2, <2>3, <2>4, Zenon
  <1>8. y = c \o b
    BY <1>5, <1>7, SeqEqual
  <1>9. a \o b \in Seq(Q) /\ Len(a \o b) = Len(w)
    BY <1>1, <1>2, <1>3
  <1>10. \A i \in 1..Len(w) : (a \o b)[i] = IF i <= j - 1 THEN a[i] ELSE b[i - (j - 1)]
    BY <1>1, <1>2, <1>3, ConcatProperties
  <1>11. \A i \in 1..Len(w) : (a \o b)[i] = w[i]
    <2> SUFFICES ASSUME NEW i \in 1..Len(w) PROVE (a \o b)[i] = w[i]
      OBVIOUS
    <2>1. CASE i < j
      <3>1. i \in 1..(j - 1) /\ i <= j - 1
        BY <1>1, <2>1
      <3>2. (a \o b)[i] = a[i]
        BY <1>10, <3>1
      <3>3. a[i] = y[i] /\ w[i] = y[i]
        BY <1>2, <3>1
      <3> QED BY <3>2, <3>3
    <2>2. CASE i >= j
      <3> DEFINE k == i - (j - 1)
      <3>1. k \in 1..(Len(y) - j) /\ k + j = i + 1 /\ ~(i <= j - 1) /\ i \in j..Len(w)
        BY <1>1, <2>2
      <3>2. (a \o b)[i] = b[k]
        BY <1>10, <3>1
      <3> HIDE DEF k
      <3>3. b[k] = y[k + j]
        BY <1>3, <3>1
      <3>4. w[i] = y[i + 1]
        BY <3>1
      <3> QED BY <3>1, <3>2, <3>3, <3>4
    <2>3. i < j \/ i >= j
      BY <1>1
    <2> QED BY <2>1, <2>2, <2>3, Zenon
  <1>12. w = a \o b
    BY <1>9, <1>11, SeqEqual
  <1>13. y = Append(a, y[j]) \o b
    BY <1>8 DEF c
  <1> QED BY <1>2, <1>3, <1>13, <1>12, Zenon DEF Around

\* An injection of the first n numbers to themselves reaches all of them.
LEMMA OntoItself ==
    ASSUME NEW n \in Nat, NEW p \in [1..n -> 1..n], \A i, k \in 1..n : i # k => p[i] # p[k], NEW m \in 1..n
    PROVE  \E j \in 1..n : p[j] = m
  <1>1. p \in Injection(1..n, 1..n)
    BY DEF Injection, IsInjective
  <1>2. IsFiniteSet(1..n)
    BY FS_Interval
  <1>3. p \in Surjection(1..n, 1..n)
    BY <1>1, <1>2, FS_Injection
  <1> QED BY <1>3 DEF Surjection

\* A list, its elements taken in another order.
Along(z, p) == [i \in DOMAIN z |-> z[p[i]]]

\* Joining a list in another order gives the same rows, in another order.
LEMMA Shuffled ==
    ASSUME NEW S, NEW x
    PROVE  \A z \in Lists(S) : \A p \in [DOMAIN z -> DOMAIN z] :
              (\A i, k \in DOMAIN z : i # k => p[i] # p[k]) =>
                 /\ Along(z, p) \in Lists(S)
                 /\ Times(FlattenSeq(Along(z, p)), x) = Times(FlattenSeq(z), x)
  <1> DEFINE Same(z, p) == Times(FlattenSeq(Along(z, p)), x) = Times(FlattenSeq(z), x)
             Inj(p, n) == \A i, k \in 1..n : i # k => p[i] # p[k]
             T == {n \in Nat : \A z \in Lists(S) : Len(z) = n => \A p \in [1..n -> 1..n] : Inj(p, n) => Same(z, p)}
             Q == Seq(S)
  <1>1. Lists(S) = Seq(Q)
    BY DEF Lists
  <1>2. \A z \in Lists(S) : DOMAIN z = 1..Len(z) /\ Len(z) \in Nat
    BY ListShape
  <1>3. \A z \in Lists(S) : \A p \in [1..Len(z) -> 1..Len(z)] :
            /\ Along(z, p) \in Seq(Q) /\ Len(Along(z, p)) = Len(z)
            /\ \A i \in 1..Len(z) : Along(z, p)[i] = z[p[i]]
    <2> HIDE DEF Q
    <2> SUFFICES ASSUME NEW z \in Seq(Q), NEW p \in [1..Len(z) -> 1..Len(z)]
                 PROVE  /\ Along(z, p) \in Seq(Q) /\ Len(Along(z, p)) = Len(z)
                        /\ \A i \in 1..Len(z) : Along(z, p)[i] = z[p[i]]
      BY <1>1
    <2>1. \A i \in 1..Len(z) : p[i] \in 1..Len(z) /\ z[p[i]] \in Q
      OBVIOUS
    <2>2. Along(z, p) = [i \in 1..Len(z) |-> z[p[i]]]
      BY DEF Along
    <2> QED BY <2>1, <2>2
  <1>4. 0 \in T
    <2> SUFFICES ASSUME NEW z \in Lists(S), Len(z) = 0, NEW p PROVE Same(z, p)
      OBVIOUS
    <2>1. z = <<>> /\ DOMAIN z = {}
      BY DEF Lists
    <2>2. Along(z, p) = <<>>
      BY <2>1 DEF Along
    <2> QED BY <2>1, <2>2, Zenon
  <1>5. ASSUME NEW n \in Nat, n \in T PROVE n + 1 \in T
    <2> SUFFICES ASSUME NEW z \in Lists(S), Len(z) = n + 1, NEW p \in [1..(n + 1) -> 1..(n + 1)], Inj(p, n + 1)
                 PROVE  Same(z, p)
      OBVIOUS
    <2>1. PICK j \in 1..(n + 1) : p[j] = n + 1
      <3>1. n + 1 \in Nat /\ n + 1 \in 1..(n + 1)
        OBVIOUS
      <3> QED BY <3>1, OntoItself
    <2> DEFINE q == [i \in 1..n |-> IF i < j THEN p[i] ELSE p[i + 1]]
               y == Along(z, p)
               v == Pre(z, n)
               w == Along(v, q)
               e == z[n + 1]
    <2>2. /\ q \in [1..n -> 1..n] /\ Inj(q, n)
          /\ \A i \in 1..(j - 1) : q[i] = p[i]
          /\ \A i \in j..n : q[i] = p[i + 1]
      <3>1. \A i \in 1..n : i \in 1..(n + 1) /\ i + 1 \in 1..(n + 1)
        OBVIOUS
      <3>2. \A i \in 1..(n + 1) : i # j => p[i] \in 1..n
        <4> SUFFICES ASSUME NEW i \in 1..(n + 1), i # j PROVE p[i] \in 1..n
          OBVIOUS
        <4>1. p[i] \in 1..(n + 1) /\ p[i] # n + 1
          BY <2>1
        <4> QED BY <4>1
      <3>3. q \in [1..n -> 1..n]
        BY <3>1, <3>2
      <3>4. Inj(q, n)
        <4> SUFFICES ASSUME NEW i \in 1..n, NEW k \in 1..n, i # k PROVE q[i] # q[k]
          OBVIOUS
        <4> DEFINE sh(l) == IF l < j THEN l ELSE l + 1
        <4>1. sh(i) \in 1..(n + 1) /\ sh(k) \in 1..(n + 1) /\ sh(i) # sh(k)
          BY <3>1
        <4>2. q[i] = p[sh(i)] /\ q[k] = p[sh(k)]
          OBVIOUS
        <4> HIDE DEF sh, q
        <4>3. p[sh(i)] # p[sh(k)]
          BY <4>1
        <4> QED BY <4>2, <4>3
      <3> QED BY <3>3, <3>4
    <2>3. v \in Lists(S) /\ Len(v) = n /\ z = Append(v, e) /\ e \in Q
      <3>1. n \in 0..Len(z) /\ n + 1 <= Len(z)
        OBVIOUS
      <3>2. Pre(z, n + 1) = z
        BY ListPrefixes
      <3> QED BY <3>1, <3>2, ListPrefixes
    <2>4. \A i \in 1..n : v[i] = z[i]
      BY DEF Pre
    <2> HIDE DEF Q, q, v
    <2>5. y \in Seq(Q) /\ Len(y) = n + 1 /\ \A i \in 1..(n + 1) : y[i] = z[p[i]]
      <3>1. p \in [1..Len(z) -> 1..Len(z)] /\ Len(z) = n + 1
        OBVIOUS
      <3>2. y \in Seq(Q) /\ Len(y) = Len(z) /\ \A i \in 1..Len(z) : y[i] = z[p[i]]
        BY <1>3, <3>1
      <3> HIDE DEF y
      <3> QED BY <3>1, <3>2
    <2>6. w \in Seq(Q) /\ Len(w) = n /\ \A i \in 1..n : w[i] = v[q[i]]
      <3>1. q \in [1..Len(v) -> 1..Len(v)] /\ Len(v) = n /\ v \in Lists(S)
        BY <2>2, <2>3
      <3>2. w \in Seq(Q) /\ Len(w) = Len(v) /\ \A i \in 1..Len(v) : w[i] = v[q[i]]
        BY <1>3, <3>1
      <3> HIDE DEF w
      <3> QED BY <3>1, <3>2
    <2> HIDE DEF y, w
    <2>7. Times(FlattenSeq(w), x) = Times(FlattenSeq(v), x)
      BY <1>5, <2>2, <2>3 DEF w
    <2>8. PICK a, b \in Seq(Q) : y = Append(a, e) \o b /\ w = a \o b
      <3>1. \A i \in 1..n : w[i] = z[q[i]]
        BY <2>2, <2>4, <2>6
      <3>2. \A i \in 1..(j - 1) : w[i] = y[i]
        BY <2>2, <2>5, <3>1
      <3>3. \A i \in j..n : w[i] = y[i + 1]
        BY <2>2, <2>5, <3>1
      <3>4. y[j] = e
        BY <2>1, <2>5
      <3> HIDE DEF e
      <3>5. Without(y, j, w)
        BY <2>5, <2>6, <3>2, <3>3 DEF Without
      <3>6. Around(Q, y, j, w)
        BY <2>5, <2>6, <3>5, CutOut
      <3> QED BY <3>4, <3>6, Zenon DEF Around
    <2> DEFINE fa == FlattenSeq(a)
               fb == FlattenSeq(b)
               g == fa \o e
    <2> HIDE DEF e
    <2>9. a \in Lists(S) /\ b \in Lists(S) /\ Append(a, e) \in Lists(S) /\ fa \in Seq(S) /\ fb \in Seq(S) /\ e \in Seq(S)
      <3>1. a \in Lists(S) /\ b \in Lists(S)
        BY <1>1, <2>8
      <3>2. e \in Seq(S)
        BY <2>3 DEF Q
      <3> QED BY <3>1, <3>2, ListAppend, FlattenTyped
    <2>10. FlattenSeq(w) = fa \o fb /\ FlattenSeq(y) = g \o fb
      <3>1. FlattenSeq(w) = fa \o fb
        BY <2>8, <2>9, FlattenConcat, Zenon
      <3>2. FlattenSeq(Append(a, e)) = g
        BY <2>9, FlattenAppend, Zenon
      <3>3. FlattenSeq(y) = FlattenSeq(Append(a, e)) \o fb
        BY <2>8, <2>9, FlattenConcat, Zenon
      <3> QED BY <3>1, <3>2, <3>3, Zenon
    <2>11. FlattenSeq(z) = FlattenSeq(v) \o e /\ FlattenSeq(v) \in Seq(S)
      BY <2>3, <2>9, FlattenAppend, FlattenTyped
    <2> HIDE DEF fa, fb
    <2>12. g \in Seq(S) /\ Times(g, x) = Times(fa, x) + Times(e, x) /\ Times(e, x) \in Nat
      BY <2>9, TimesConcat
    <2> HIDE DEF g
    <2>13. /\ Times(FlattenSeq(w), x) = Times(fa, x) + Times(fb, x)
           /\ Times(fa, x) \in Nat /\ Times(fb, x) \in Nat
      BY <2>9, <2>10, TimesConcat
    <2>14. Times(FlattenSeq(y), x) = Times(g, x) + Times(fb, x)
      BY <2>9, <2>10, <2>12, TimesConcat
    <2>16. Times(FlattenSeq(z), x) = Times(FlattenSeq(v), x) + Times(e, x)
      <3> DEFINE fv == FlattenSeq(v)
      <3>1. fv \in Seq(S) /\ FlattenSeq(z) = fv \o e
        BY <2>11
      <3> HIDE DEF fv
      <3>2. Times(FlattenSeq(z), x) = Times(fv, x) + Times(e, x)
        BY <2>9, <3>1, TimesConcat
      <3> QED BY <3>2 DEF fv
    <2>17. Times(FlattenSeq(y), x) = Times(FlattenSeq(z), x)
      <3> DEFINE ta == Times(fa, x)
                 tb == Times(fb, x)
                 te == Times(e, x)
      <3>1. ta \in Nat /\ tb \in Nat /\ te \in Nat
        BY <2>12, <2>13
      <3>2. Times(FlattenSeq(y), x) = (ta + te) + tb
        BY <2>12, <2>14
      <3>3. Times(FlattenSeq(z), x) = (ta + tb) + te
        BY <2>7, <2>13, <2>16
      <3> HIDE DEF ta, tb, te
      <3>4. (ta + te) + tb = (ta + tb) + te
        BY <3>1
      <3> QED BY <3>2, <3>3, <3>4
    <2> QED BY <2>17 DEF y
  <1> HIDE DEF T
  <1>6. \A n \in Nat : n \in T
    BY <1>4, <1>5, Induction
  <1>7. ASSUME NEW z \in Lists(S), NEW p \in [DOMAIN z -> DOMAIN z], \A i, k \in DOMAIN z : i # k => p[i] # p[k]
        PROVE  Along(z, p) \in Lists(S) /\ Same(z, p)
    <2>1. DOMAIN z = 1..Len(z) /\ Len(z) \in T
      BY <1>2, <1>6
    <2>2. p \in [1..Len(z) -> 1..Len(z)] /\ Inj(p, Len(z))
      BY <1>7, <2>1
    <2>3. Same(z, p)
      BY <2>1, <2>2 DEF T
    <2> QED BY <1>1, <1>3, <2>2, <2>3
  <1> QED BY <1>7

\* A sequence begins with the first part of it.
LEMMA PrefixOfConcat ==
    ASSUME NEW S, NEW s \in Seq(S), NEW t \in Seq(S)
    PROVE  IsPrefix(s, s \o t)
  <1> DEFINE c == s \o t
             x == SubSeq(s, 1, Len(s))
             y == SubSeq(c, 1, Len(s))
  <1>1. c \in Seq(S) /\ Len(c) = Len(s) + Len(t) /\ Len(s) \in Nat /\ Len(t) \in Nat
    BY SeqConcat
  <1>2. \A i \in 1..Len(s) : c[i] = s[i]
    BY ConcatProperties
  <1> HIDE DEF c
  <1>3. x \in Seq(S) /\ Len(x) = Len(s) /\ \A i \in 1..Len(s) : x[i] = s[i]
    BY <1>1, SubSeqProperties
  <1>4. y \in Seq(S) /\ Len(y) = Len(s) /\ \A i \in 1..Len(s) : y[i] = c[i]
    BY <1>1, SubSeqProperties
  <1>5. x = y
    <2> HIDE DEF x, y
    <2> QED BY <1>2, <1>3, <1>4, SeqEqual
  <1>6. Len(s) <= Len(c)
    BY <1>1
  <1> QED BY <1>5, <1>6 DEF IsPrefix, c

\* What is left of a sequence behind its first elements.
LEMMA RestOfSeq ==
    ASSUME NEW S, NEW z \in Seq(S), NEW n \in 0..Len(z)
    PROVE  \E y \in Seq(S) : z = Pre(z, n) \o y
  <1> DEFINE b == [i \in 1..(Len(z) - n) |-> z[i + n]]
             a == Pre(z, n)
  <1>1. Len(z) \in Nat /\ n \in Nat /\ n <= Len(z)
    OBVIOUS
  <1>2. a \in Seq(S) /\ Len(a) = n /\ \A i \in 1..n : a[i] = z[i]
    <2>1. a \in Seq(S) /\ Len(a) = n
      BY SeqPrefixes
    <2> QED BY <2>1 DEF Pre
  <1>3. b \in Seq(S) /\ Len(b) = Len(z) - n /\ \A i \in 1..(Len(z) - n) : b[i] = z[i + n]
    BY <1>1
  <1> HIDE DEF a, b
  <1>4. a \o b \in Seq(S) /\ Len(a \o b) = Len(z)
    BY <1>1, <1>2, <1>3
  <1>5. \A i \in 1..Len(z) : (a \o b)[i] = IF i <= n THEN a[i] ELSE b[i - n]
    BY <1>1, <1>2, <1>3, ConcatProperties
  <1>6. \A i \in 1..Len(z) : (a \o b)[i] = z[i]
    <2> SUFFICES ASSUME NEW i \in 1..Len(z) PROVE (a \o b)[i] = z[i]
      OBVIOUS
    <2>1. CASE i <= n
      BY <1>1, <1>2, <1>5, <2>1
    <2>2. CASE ~(i <= n)
      <3> DEFINE k == i - n
      <3>1. k \in 1..(Len(z) - n) /\ k + n = i
        BY <1>1, <2>2
      <3>2. (a \o b)[i] = b[k]
        BY <1>5, <2>2
      <3> HIDE DEF k
      <3>3. b[k] = z[k + n]
        BY <1>3, <3>1
      <3> QED BY <3>1, <3>2, <3>3
    <2> QED BY <2>1, <2>2, Zenon
  <1>7. z = a \o b
    BY <1>4, <1>6, SeqEqual
  <1> QED BY <1>3, <1>7, Zenon DEF a

\* What is left of a list.
LEMMA RestOfList ==
    ASSUME NEW S, NEW z \in Lists(S), NEW n \in 0..Len(z)
    PROVE  \E y \in Lists(S) : z = Pre(z, n) \o y
  <1> DEFINE Q == Seq(S)
  <1>1. z \in Seq(Q) /\ Lists(S) = Seq(Q)
    BY DEF Lists
  <1> HIDE DEF Q
  <1>2. \E y \in Seq(Q) : z = Pre(z, n) \o y
    BY <1>1, RestOfSeq, Zenon
  <1> QED BY <1>1, <1>2, Zenon

\* The first element and the others.
LEMMA HeadAndTail ==
    ASSUME NEW S, NEW z \in Seq(S), z # <<>>
    PROVE  Head(z) \in S /\ Tail(z) \in Seq(S) /\ z = <<Head(z)>> \o Tail(z)
  <1> DEFINE a == <<Head(z)>>
             b == Tail(z)
  <1>1. Len(z) \in Nat /\ Len(z) >= 1 /\ Head(z) \in S /\ Head(z) = z[1]
    OBVIOUS
  <1>2. a \in Seq(S) /\ Len(a) = 1 /\ a[1] = z[1]
    BY <1>1
  <1>3. b \in Seq(S) /\ Len(b) = Len(z) - 1 /\ \A i \in 1..(Len(z) - 1) : b[i] = z[i + 1]
    BY <1>1
  <1> HIDE DEF a, b
  <1>4. a \o b \in Seq(S) /\ Len(a \o b) = Len(z)
    <2>1. a \o b \in Seq(S) /\ Len(a \o b) = Len(a) + Len(b)
      BY <1>2, <1>3, SeqConcat
    <2> QED BY <1>1, <1>2, <1>3, <2>1
  <1>5. \A i \in 1..Len(z) : (a \o b)[i] = IF i <= 1 THEN a[i] ELSE b[i - 1]
    <2>1. \A i \in 1..(Len(a) + Len(b)) : (a \o b)[i] = IF i <= Len(a) THEN a[i] ELSE b[i - Len(a)]
      <3>1. a \in Seq(S) /\ b \in Seq(S)
        BY <1>2, <1>3
      <3> QED BY <3>1, ConcatProperties
    <2>2. Len(a) + Len(b) = Len(z) /\ Len(a) = 1
      BY <1>1, <1>2, <1>3
    <2> QED BY <2>1, <2>2
  <1>6. \A i \in 1..Len(z) : (a \o b)[i] = z[i]
    <2> SUFFICES ASSUME NEW i \in 1..Len(z) PROVE (a \o b)[i] = z[i]
      OBVIOUS
    <2>1. CASE i = 1
      <3>1. 1 \in 1..Len(z) /\ 1 <= 1
        BY <1>1
      <3>2. (a \o b)[1] = IF 1 <= 1 THEN a[1] ELSE b[1 - 1]
        BY <1>5, <3>1, Zenon
      <3>3. (a \o b)[1] = a[1]
        BY <3>1, <3>2, Zenon
      <3> QED BY <1>2, <2>1, <3>3, Zenon
    <2>2. CASE i # 1
      <3> DEFINE k == i - 1
      <3>1. k \in 1..(Len(z) - 1) /\ k + 1 = i /\ ~(i <= 1)
        BY <1>1, <2>2
      <3>2. (a \o b)[i] = b[k]
        BY <1>5, <3>1
      <3> HIDE DEF k
      <3>3. b[k] = z[k + 1]
        BY <1>3, <3>1
      <3> QED BY <3>1, <3>2, <3>3
    <2> QED BY <2>1, <2>2
  <1>7. z = a \o b
    BY <1>4, <1>6, SeqEqual
  <1> QED BY <1>1, <1>3, <1>7 DEF a, b

\* The first shard of a list and the others.
LEMMA FirstShard ==
    ASSUME NEW S, NEW z \in Lists(S), z # <<>>
    PROVE  /\ Head(z) \in Seq(S) /\ Tail(z) \in Lists(S)
           /\ FlattenSeq(z) = Head(z) \o FlattenSeq(Tail(z))
  <1> DEFINE Q == Seq(S)
             h == Head(z)
             t == Tail(z)
  <1>1. z \in Seq(Q) /\ Lists(S) = Seq(Q) /\ Q = Seq(S)
    BY DEF Lists
  <1>2. h \in Seq(S) /\ t \in Lists(S) /\ z = <<h>> \o t
    <2> HIDE DEF Q
    <2> QED BY <1>1, HeadAndTail
  <1> HIDE DEF h, t
  <1>3. <<h>> \in Lists(S) /\ FlattenSeq(<<h>>) = h
    BY <1>2, ListSingle, FlattenOne
  <1>4. FlattenSeq(<<h>> \o t) = FlattenSeq(<<h>>) \o FlattenSeq(t)
    BY <1>2, <1>3, FlattenConcat
  <1> QED BY <1>2, <1>3, <1>4, Zenon DEF h, t

\* A list whose shards are empty but the first.
FirstOf(a, n) == [i \in 1..n |-> IF i = 1 THEN a ELSE <<>>]

\* Such a list holds the rows of its first shard.
LEMMA OnlyTheFirst ==
    ASSUME NEW S, NEW a \in Seq(S)
    PROVE  \A n \in Nat : FirstOf(a, n + 1) \in Lists(S) /\ FlattenSeq(FirstOf(a, n + 1)) = a
  <1> DEFINE T == {n \in Nat : FirstOf(a, n + 1) \in Lists(S) /\ FlattenSeq(FirstOf(a, n + 1)) = a}
             Q == Seq(S)
  <1>0. Lists(S) = Seq(Q) /\ Q = Seq(S) /\ <<>> \in Q
    BY DEF Lists
  <1>1. 0 \in T
    <2>1. FirstOf(a, 1) = <<a>>
      BY DEF FirstOf
    <2>2. <<a>> \in Lists(S) /\ FlattenSeq(<<a>>) = a
      BY ListSingle, FlattenOne
    <2>3. 0 \in Nat /\ 0 + 1 = 1
      OBVIOUS
    <2> QED BY <2>1, <2>2, <2>3
  <1>2. ASSUME NEW n \in Nat, n \in T PROVE n + 1 \in T
    <2> DEFINE z == FirstOf(a, n + 1)
    <2>1. z \in Lists(S) /\ FlattenSeq(z) = a
      BY <1>2
    <2>2. FirstOf(a, (n + 1) + 1) = Append(z, <<>>)
      <3> DEFINE x == FirstOf(a, (n + 1) + 1)
                 y == Append(z, <<>>)
      <3> HIDE DEF Q
      <3>1. z \in Seq(Q) /\ Len(z) = n + 1 /\ \A i \in 1..(n + 1) : z[i] = IF i = 1 THEN a ELSE <<>>
        BY <1>0 DEF FirstOf
      <3>2. x \in Seq(Q) /\ Len(x) = n + 2 /\ \A i \in 1..(n + 2) : x[i] = IF i = 1 THEN a ELSE <<>>
        BY <1>0 DEF FirstOf
      <3> HIDE DEF x, z
      <3>3. y \in Seq(Q) /\ Len(y) = n + 2 /\ y[n + 2] = <<>> /\ \A i \in 1..(n + 1) : y[i] = z[i]
        BY <1>0, <3>1
      <3> HIDE DEF y
      <3>4. \A i \in 1..(n + 2) : i = n + 2 \/ i \in 1..(n + 1)
        OBVIOUS
      <3>5. \A i \in 1..(n + 2) : x[i] = y[i]
        BY <3>1, <3>2, <3>3, <3>4
      <3>6. x = y
        BY <3>2, <3>3, <3>5, SeqEqual
      <3> QED BY <3>6 DEF x, y, z
    <2> HIDE DEF z
    <2>3. <<>> \in Seq(S) /\ a \o <<>> = a
      OBVIOUS
    <2>4. Append(z, <<>>) \in Lists(S) /\ FlattenSeq(Append(z, <<>>)) = a
      <3>1. Append(z, <<>>) \in Lists(S)
        BY <2>1, <2>3, ListAppend, Zenon
      <3>2. FlattenSeq(Append(z, <<>>)) = FlattenSeq(z) \o <<>>
        BY <2>1, <2>3, FlattenAppend, Zenon
      <3> QED BY <2>1, <2>3, <3>1, <3>2, Zenon
    <2>5. n + 1 \in Nat
      OBVIOUS
    <2> DEFINE y == FirstOf(a, (n + 1) + 1)
    <2>6. y \in Lists(S) /\ FlattenSeq(y) = a
      BY <2>2, <2>4, Zenon
    <2> HIDE DEF y
    <2>7. n + 1 \in Nat /\ FirstOf(a, (n + 1) + 1) \in Lists(S) /\ FlattenSeq(FirstOf(a, (n + 1) + 1)) = a
      BY <2>5, <2>6 DEF y
    <2> QED BY <2>7, Zenon
  <1> HIDE DEF T
  <1>3. \A n \in Nat : n \in T
    BY <1>1, <1>2, Induction
  <1> QED BY <1>3 DEF T

\* Prefixes of what has been taken are prefixes of all.
LEMMA JobFacts ==
    ASSUME NEW j \in Jobs
    PROVE  /\ j.stages \in Seq([kind : Kinds, batch : Nat \ {0}])
           /\ Runnable(j.stages) /\ Len(j.stages) \in Nat /\ DOMAIN j.stages = 1..Len(j.stages)
           /\ (j.stages = <<>> <=> Len(j.stages) = 0)
  <1> DEFINE R == [kind : Kinds, batch : Nat \ {0}]
  <1>1. j.stages \in Seq(R)
    BY Zenon DEF Jobs
  <1>2. \A r \in R : r.batch \in Nat \ {0}
    OBVIOUS
  <1> HIDE DEF R
  <1>3. Runnable(j.stages)
    BY <1>1, <1>2 DEF Runnable
  <1>4. Len(j.stages) \in Nat /\ DOMAIN j.stages = 1..Len(j.stages) /\ (j.stages = <<>> <=> Len(j.stages) = 0)
    BY <1>1
  <1> QED BY <1>1, <1>3, <1>4 DEF R

-----------------------------------------------------------------------------
(* Pipelines: what a consumer has. *)
(* What the stages make of the first shards of the source, and of all.     *)
Given(k) == Through(Stages, FlattenSeq(Pre(Source(job), k)))
Whole == Expected(Len(Stages))
RowsOut == FlattenSeq(out)

\* The states a run reaches: cosmos takes all of the source at once.
WhereInv ==
    /\ at \in {"setup", "working", "cosmos"} => Stages # <<>>
    /\ at \in {"setup", "working"} => ~UseCosmos(job)
    /\ at = "cosmos" => UseCosmos(job) /\ data = Source(job)
    /\ at = "yielding" /\ Stages # <<>> => DepthFirst /\ ~UseCosmos(job)
    /\ at \in {"start", "setup"} => next = 1 /\ out = <<>>
    /\ data \in Lists(Nat) /\ out \in Lists(Nat) /\ job \in Jobs

\* Depth-first: what is out and what is about to be are what the stages make
\* of the shards taken, and the funnel counts it.
DepthInv ==
    DepthFirst /\ Stages # <<>> /\ at \in {"setup", "working", "yielding"} =>
        /\ next \in 1..(Len(Source(job)) + 1)
        /\ at # "yielding" => data = <<>>
        /\ RowsOut \o FlattenSeq(data) = Given(next - 1)[Len(Stages)]
        /\ funnel = [i \in DOMAIN Stages |-> Len(Given(next - 1)[i])]

\* Without stages the source itself goes to the consumer.
PlainInv ==
    Stages = <<>> /\ at = "yielding" =>
        /\ RowsOut \o FlattenSeq(data) = Whole
        /\ funnel = [i \in DOMAIN Stages |-> Len(Expected(i))]

\* Breadth-first: what is between two stages is what the earlier ones make of
\* the table, and the funnel has their counts.
BreadthInv ==
    ~DepthFirst /\ at \in {"setup", "working"} =>
        /\ next \in 1..(Len(Stages) + 1)
        /\ FlattenSeq(data) = Expected(next - 1)
        /\ funnel = [i \in DOMAIN Stages |-> IF i < next THEN Len(Expected(i)) ELSE 0]

\* The files: one for every shard that has rows, or one for all.
FileRows(i) == IF i \in DOMAIN parts THEN parts[i] ELSE <<>>
FilesInv ==
    /\ job.call = "parquet" => /\ DOMAIN parts \subseteq 0..(Len(out) - 1)
                               /\ \A i \in 1..Len(out) : FileRows(i - 1) = out[i]
    /\ job.call = "lance" => DOMAIN parts \subseteq {0} /\ FileRows(0) = RowsOut

\* What a consumer has, on the way and in the end.
AnswerInv ==
    /\ UseCosmos(job) \/ IsPrefix(RowsOut, Whole)
    /\ at = "done" => IF UseCosmos(job) THEN \A x : Times(RowsOut, x) = Times(Whole, x)
                      ELSE RowsOut = Whole /\ funnel = [i \in DOMAIN Stages |-> Len(Expected(i))]

PipeInv == WhereInv /\ DepthInv /\ PlainInv /\ BreadthInv /\ FilesInv /\ AnswerInv

-----------------------------------------------------------------------------
\* The source of a job, whose rows go to the stages.
LEMMA SourceFacts ==
    ASSUME job \in Jobs
    PROVE  /\ Source(job) \in Lists(Nat) /\ FlattenSeq(Source(job)) = TableOf(job.tasks)
           /\ TableOf(job.tasks) \in Seq(Nat) /\ Len(Source(job)) \in Nat
           /\ Runnable(Stages) /\ Len(Stages) \in Nat /\ DOMAIN Stages = 1..Len(Stages)
           /\ (Stages = <<>> <=> Len(Stages) = 0)
  <1>1. Source(job) \in Lists(Nat) /\ FlattenSeq(Source(job)) = TableOf(job.tasks) /\ TableOf(job.tasks) \in Seq(Nat)
    BY SourceJoins
  <1>2. Len(Source(job)) \in Nat
    BY <1>1, ListShape
  <1>3. Runnable(Stages) /\ Len(Stages) \in Nat /\ DOMAIN Stages = 1..Len(Stages) /\ (Stages = <<>> <=> Len(Stages) = 0)
    BY JobFacts DEF Stages
  <1> QED BY <1>1, <1>2, <1>3

\* What the stages make of the source.
LEMMA ExpectedFacts ==
    ASSUME job \in Jobs
    PROVE  /\ \A i \in 0..Len(Stages) : Expected(i) \in Seq(Nat) /\ Len(Expected(i)) \in Nat
           /\ Expected(0) = TableOf(job.tasks) /\ Whole \in Seq(Nat)
           /\ \A i \in 1..Len(Stages) : Expected(i) = Transform(Stages[i].kind, Expected(i - 1))
  <1> DEFINE rows == TableOf(job.tasks)
  <1>1. rows \in Seq(Nat) /\ Len(Stages) \in Nat
    BY SourceFacts
  <1> HIDE DEF rows
  <1>2. /\ Through(Stages, rows)[0] = rows
        /\ \A n \in 0..Len(Stages) : Through(Stages, rows)[n] \in Seq(Nat)
        /\ \A n \in 1..Len(Stages) : Through(Stages, rows)[n] = Transform(Stages[n].kind, Through(Stages, rows)[n - 1])
    BY <1>1, ThroughSteps
  <1>3. \A n : Expected(n) = Through(Stages, rows)[n]
    BY DEF Expected, rows
  <1>4. \A i \in 0..Len(Stages) : Expected(i) \in Seq(Nat)
    BY <1>2, <1>3
  <1>5. \A s \in Seq(Nat) : Len(s) \in Nat
    OBVIOUS
  <1>6. Len(Stages) \in 0..Len(Stages)
    BY <1>1
  <1>7. Whole \in Seq(Nat)
    BY <1>4, <1>6 DEF Whole
  <1>8. Expected(0) = TableOf(job.tasks)
    BY <1>2, <1>3 DEF rows
  <1>9. \A i \in 1..Len(Stages) : Expected(i) = Transform(Stages[i].kind, Expected(i - 1))
    BY <1>2, <1>3
  <1> QED BY <1>4, <1>5, <1>7, <1>8, <1>9

\* Of no shards the stages make nothing, of all of them the whole answer.
LEMMA GivenEnds ==
    ASSUME job \in Jobs, NEW i \in 0..Len(Stages)
    PROVE  Given(0)[i] = <<>> /\ Given(Len(Source(job)))[i] = Expected(i)
  <1> DEFINE z == Source(job)
  <1>1. z \in Lists(Nat) /\ FlattenSeq(z) = TableOf(job.tasks) /\ Len(Stages) \in Nat
    BY SourceFacts
  <1> HIDE DEF z
  <1>2. Pre(z, 0) = <<>> /\ Pre(z, Len(z)) = z
    BY <1>1, ListPrefixes
  <1>3. Through(Stages, FlattenSeq(Pre(z, 0)))[i] = <<>>
    BY <1>1, <1>2, FlattenEmpty, ThroughNil
  <1>4. Through(Stages, FlattenSeq(Pre(z, Len(z))))[i] = Expected(i)
    BY <1>1, <1>2 DEF Expected
  <1> QED BY <1>3, <1>4 DEF Given, z

\* What they make of the shards taken is the beginning of the answer.
LEMMA GivenPart ==
    ASSUME job \in Jobs, NEW n \in 0..Len(Source(job)), NEW i \in 0..Len(Stages)
    PROVE  Given(n)[i] \in Seq(Nat) /\ \E y \in Seq(Nat) : Expected(i) = Given(n)[i] \o y
  <1> DEFINE z == Source(job)
             a == FlattenSeq(Pre(z, n))
  <1>1. z \in Lists(Nat) /\ FlattenSeq(z) = TableOf(job.tasks) /\ Len(Stages) \in Nat /\ n \in 0..Len(z)
    BY SourceFacts
  <1> HIDE DEF z
  <1>2. Pre(z, n) \in Lists(Nat)
    BY <1>1, ListPrefixes
  <1>3. a \in Seq(Nat)
    BY <1>2, FlattenTyped
  <1>4. PICK y \in Lists(Nat) : z = Pre(z, n) \o y
    BY <1>1, RestOfList, Zenon
  <1> DEFINE b == FlattenSeq(y)
  <1>5. FlattenSeq(Pre(z, n) \o y) = a \o b
    BY <1>2, <1>4, FlattenConcat, Zenon
  <1>6. TableOf(job.tasks) = a \o b
    BY <1>1, <1>4, <1>5, Zenon
  <1>7. b \in Seq(Nat)
    BY <1>4, FlattenTyped
  <1>8. Given(n)[i] = Through(Stages, a)[i]
    BY DEF Given, z
  <1> HIDE DEF a, b
  <1>9. Through(Stages, a)[i] \in Seq(Nat) /\ Through(Stages, b)[i] \in Seq(Nat)
    BY <1>1, <1>3, <1>7, ThroughSteps
  <1>10. Through(Stages, a \o b)[i] = Through(Stages, a)[i] \o Through(Stages, b)[i]
    BY <1>1, <1>3, <1>7, ThroughConcat, Zenon
  <1>11. Expected(i) = Through(Stages, a)[i] \o Through(Stages, b)[i]
    BY <1>6, <1>10, Zenon DEF Expected
  <1> QED BY <1>8, <1>9, <1>11, Zenon

\* The next shard adds what the stages make of it.
LEMMA GivenNext ==
    ASSUME job \in Jobs, NEW n \in Nat, n + 1 <= Len(Source(job)), NEW i \in 0..Len(Stages)
    PROVE  /\ Source(job)[n + 1] \in Seq(Nat)
           /\ Given(n + 1)[i] = Given(n)[i] \o Through(Stages, Source(job)[n + 1])[i]
  <1> DEFINE z == Source(job)
             a == FlattenSeq(Pre(z, n))
             e == z[n + 1]
  <1>1. z \in Lists(Nat) /\ Len(Stages) \in Nat /\ Len(z) \in Nat /\ n + 1 <= Len(z)
    BY SourceFacts
  <1> HIDE DEF z
  <1>2. n \in 0..Len(z)
    BY <1>1
  <1>3. Pre(z, n) \in Lists(Nat) /\ Pre(z, n + 1) = Append(Pre(z, n), e) /\ e \in Seq(Nat)
    BY <1>1, <1>2, ListPrefixes
  <1>4. a \in Seq(Nat)
    BY <1>3, FlattenTyped
  <1>5. FlattenSeq(Pre(z, n + 1)) = a \o e
    BY <1>3, FlattenAppend, Zenon
  <1> HIDE DEF a, e
  <1>6. Through(Stages, a \o e)[i] = Through(Stages, a)[i] \o Through(Stages, e)[i]
    BY <1>1, <1>3, <1>4, ThroughConcat, Zenon
  <1>7. Given(n + 1)[i] = Through(Stages, a)[i] \o Through(Stages, e)[i]
    BY <1>5, <1>6, Zenon DEF Given, z
  <1>8. Given(n)[i] = Through(Stages, a)[i]
    <2>1. Given(n)[i] = Through(Stages, FlattenSeq(Pre(Source(job), n)))[i]
      BY Zenon DEF Given
    <2> QED BY <2>1, Zenon DEF z, a
  <1> QED BY <1>3, <1>7, <1>8, Zenon DEF z, e

\* How three sequences are put together does not matter.
LEMMA Associative == \A s, t, u \in Seq(Nat) : (s \o t) \o u = s \o (t \o u)
  <1> SUFFICES ASSUME NEW s \in Seq(Nat), NEW t \in Seq(Nat), NEW u \in Seq(Nat)
               PROVE  (s \o t) \o u = s \o (t \o u)
    OBVIOUS
  <1> QED BY ConcatAssociative, SMTT(30)

\* What is out before all of it is, is a beginning of the answer.
LEMMA Fits ==
    ASSUME job \in Jobs, NEW n \in 0..Len(Source(job)), NEW a \in Seq(Nat), NEW b \in Seq(Nat),
           a \o b = Given(n)[Len(Stages)]
    PROVE  IsPrefix(a, Whole)
  <1>1. Len(Stages) \in 0..Len(Stages)
    BY SourceFacts
  <1>2. PICK y \in Seq(Nat) : Whole = Given(n)[Len(Stages)] \o y
    BY <1>1, GivenPart, Zenon DEF Whole
  <1>3. b \o y \in Seq(Nat)
    BY SeqConcat, Zenon
  <1>4. Whole = a \o (b \o y)
    <2>1. \A s, t, u \in Seq(Nat) : (s \o t) \o u = s \o (t \o u)
      BY Associative, Zenon
    <2>2. (a \o b) \o y = a \o (b \o y)
      BY <2>1
    <2> QED BY <1>2, <2>2, Zenon
  <1> QED BY <1>3, <1>4, PrefixOfConcat, Zenon

\* Nothing is a beginning of the answer.
LEMMA NothingFits == ASSUME job \in Jobs PROVE IsPrefix(<<>>, Whole)
  <1>1. <<>> \in Seq(Nat) /\ Whole \in Seq(Nat)
    BY ExpectedFacts
  <1>2. \A s \in Seq(Nat) : <<>> \o s = s
    OBVIOUS
  <1>3. IsPrefix(<<>>, <<>> \o Whole)
    BY <1>1, PrefixOfConcat, Zenon
  <1> QED BY <1>1, <1>2, <1>3, Zenon

\* What depends on the job alone stays.
LEMMA SameJob ==
    ASSUME job' = job
    PROVE  /\ Stages' = Stages /\ (UseCosmos(job))' = UseCosmos(job) /\ DepthFirst' = DepthFirst /\ Writes' = Writes
           /\ (Source(job))' = Source(job) /\ Whole' = Whole
           /\ \A k : Given(k)' = Given(k)
           /\ \A k : Expected(k)' = Expected(k)
  <1>1. Stages' = Stages
    BY DEF Stages
  <1>2. (UseCosmos(job))' = UseCosmos(job) /\ DepthFirst' = DepthFirst /\ Writes' = Writes
    BY DEF UseCosmos, DepthFirst, Writes
  <1>3. (Source(job))' = Source(job)
    OBVIOUS
  <1>4. \A k : Given(k)' = Given(k)
    BY <1>1 DEF Given
  <1>5. \A k : Expected(k)' = Expected(k)
    BY <1>1 DEF Expected
  <1>6. Whole' = Whole
    BY <1>1, <1>5 DEF Whole
  <1> QED BY <1>1, <1>2, <1>3, <1>4, <1>5, <1>6

\* Before a pipeline starts nothing is out and nothing is written.
LEMMA InitPipe == ASSUME job \in Pipelines, Unstarted PROVE PipeInv
  <1>1. job \in Jobs /\ at = "start" /\ next = 1 /\ data = <<>> /\ out = <<>> /\ parts = <<>>
    BY PipelinesAssumption DEF Unstarted
  <1>2. data \in Lists(Nat) /\ out \in Lists(Nat)
    BY <1>1, ListNil
  <1>3. WhereInv /\ DepthInv /\ PlainInv /\ BreadthInv
    BY <1>1, <1>2 DEF WhereInv, DepthInv, PlainInv, BreadthInv
  <1>4. RowsOut = <<>>
    BY <1>1, FlattenEmpty, Zenon DEF RowsOut
  <1>5. FilesInv
    <2>1. DOMAIN parts = {} /\ Len(out) = 0
      BY <1>1
    <2>2. FileRows(0) = RowsOut
      BY <1>4, <2>1 DEF FileRows
    <2> QED BY <2>1, <2>2 DEF FilesInv
  <1>6. IsPrefix(RowsOut, Whole)
    BY <1>1, <1>4, NothingFits
  <1>7. AnswerInv
    BY <1>1, <1>6 DEF AnswerInv
  <1> QED BY <1>3, <1>5, <1>7 DEF PipeInv

\* Nothing that is out or written changes: the files stay what they were.
LEMMA FilesStay ==
    ASSUME FilesInv, job' = job, out' = out, parts' = parts PROVE FilesInv'
  BY DEF FilesInv, FileRows, RowsOut

\* Nothing is out and the run is not over: the answer stays what it was.
LEMMA AnswerStays ==
    ASSUME AnswerInv, job' = job, out' = out, at' # "done" PROVE AnswerInv'
  <1>1. RowsOut' = RowsOut /\ Whole' = Whole /\ (UseCosmos(job))' = UseCosmos(job)
    BY SameJob DEF RowsOut
  <1> QED BY <1>1 DEF AnswerInv

\* A run that has ended promises no more than what is out.
LEMMA Ended ==
    ASSUME PipeInv, job' = job, data' = data, out' = out, parts' = parts,
           at' \in {"raised", "refused", "closed"}
    PROVE  PipeInv'
  <1>1. FilesInv' /\ AnswerInv'
    BY FilesStay, AnswerStays DEF PipeInv
  <1>2. data' \in Lists(Nat) /\ out' \in Lists(Nat) /\ job' \in Jobs
    BY DEF PipeInv, WhereInv
  <1>3. WhereInv'
    BY <1>2 DEF WhereInv
  <1>4. DepthInv' /\ PlainInv' /\ BreadthInv'
    BY DEF DepthInv, PlainInv, BreadthInv
  <1> QED BY <1>1, <1>3, <1>4 DEF PipeInv

\* The start of a run.
LEMMA StartPipe == ASSUME PipeInv, Start PROVE PipeInv'
  <1>1. at = "start" /\ job' = job /\ next' = next /\ out' = out /\ parts' = parts
    BY DEF Start
  <1>2. job \in Jobs /\ next = 1 /\ out = <<>> /\ data \in Lists(Nat) /\ out \in Lists(Nat)
    BY <1>1 DEF PipeInv, WhereInv
  <1>3. CASE at' = "raised" /\ data' = data
    BY <1>1, <1>3, Ended
  <1> DEFINE All == Stages = <<>> \/ UseCosmos(job) \/ ~DepthFirst
  <1>4. CASE /\ UseCosmos(job) => job.cosmos
             /\ at' = IF Stages = <<>> THEN "yielding" ELSE IF UseCosmos(job) THEN "cosmos" ELSE "setup"
             /\ data' = IF All THEN Source(job) ELSE <<>>
             /\ funnel' = [i \in DOMAIN Stages |-> 0]
    <2>1. /\ Stages = <<>> => at' = "yielding"
          /\ Stages # <<>> /\ UseCosmos(job) => at' = "cosmos"
          /\ Stages # <<>> /\ ~UseCosmos(job) => at' = "setup"
      BY <1>4
    <2>2. /\ All => data' = Source(job)
          /\ ~All => data' = <<>>
      BY <1>4
    <2>3. /\ Source(job) \in Lists(Nat) /\ FlattenSeq(Source(job)) = TableOf(job.tasks)
          /\ Len(Source(job)) \in Nat /\ Len(Stages) \in Nat /\ DOMAIN Stages = 1..Len(Stages)
          /\ (Stages = <<>> <=> Len(Stages) = 0) /\ TableOf(job.tasks) \in Seq(Nat)
      BY <1>2, SourceFacts
    <2>4. data' \in Lists(Nat)
      BY <2>2, <2>3, ListNil
    <2>5. /\ Stages' = Stages /\ (UseCosmos(job))' = UseCosmos(job) /\ DepthFirst' = DepthFirst
          /\ (Source(job))' = Source(job) /\ Whole' = Whole
          /\ \A k : Given(k)' = Given(k)
          /\ \A k : Expected(k)' = Expected(k)
      BY <1>1, SameJob
    <2>6. RowsOut' = <<>> /\ \A s \in Seq(Nat) : <<>> \o s = s
      <3>1. RowsOut' = <<>>
        BY <1>1, <1>2, FlattenEmpty, Zenon DEF RowsOut
      <3> QED BY <3>1
    <2>7. Expected(0) = TableOf(job.tasks)
      BY <1>2, ExpectedFacts
    <2>8. WhereInv'
      BY <1>1, <1>2, <2>1, <2>2, <2>4, <2>5 DEF WhereInv
    <2>9. DepthInv'
      <3> SUFFICES ASSUME DepthFirst, Stages # <<>>, at' \in {"setup", "working", "yielding"}
                   PROVE  /\ next' \in 1..(Len(Source(job)) + 1)
                          /\ data' = <<>>
                          /\ RowsOut' \o FlattenSeq(data') = Given(next' - 1)[Len(Stages)]
                          /\ funnel' = [i \in DOMAIN Stages |-> Len(Given(next' - 1)[i])]
        BY <1>1, <2>5 DEF DepthInv
      <3>1. data' = <<>>
        BY <2>1, <2>2
      <3>2. FlattenSeq(data') = <<>> /\ <<>> \o <<>> = <<>>
        <4>1. FlattenSeq(data') = <<>>
          BY <3>1, FlattenEmpty, Zenon
        <4> QED BY <2>6, <4>1, SeqNil
      <3>3. \A i \in 0..Len(Stages) : Given(0)[i] = <<>>
        BY <1>2, GivenEnds
      <3>4. next' - 1 = 0 /\ next' \in 1..(Len(Source(job)) + 1)
        BY <1>1, <1>2, <2>3
      <3>5. \A i \in DOMAIN Stages : Len(Given(next' - 1)[i]) = 0
        BY <2>3, <3>3, <3>4
      <3>6. funnel' = [i \in DOMAIN Stages |-> Len(Given(next' - 1)[i])]
        BY <1>4, <3>5
      <3>7. Given(next' - 1)[Len(Stages)] = <<>>
        BY <2>3, <3>3, <3>4
      <3>8. RowsOut' \o FlattenSeq(data') = Given(next' - 1)[Len(Stages)]
        BY <2>6, <3>2, <3>7, Zenon
      <3> QED BY <3>1, <3>4, <3>6, <3>8
    <2>10. PlainInv'
      <3> SUFFICES ASSUME Stages = <<>>
                   PROVE  /\ RowsOut' \o FlattenSeq(data') = Whole
                          /\ funnel' = [i \in DOMAIN Stages |-> Len(Expected(i))]
        BY <2>5 DEF PlainInv
      <3>1. Whole = TableOf(job.tasks)
        BY <2>3, <2>7 DEF Whole
      <3>2. FlattenSeq(data') = TableOf(job.tasks)
        BY <2>2, <2>3
      <3>3. RowsOut' \o FlattenSeq(data') = Whole
        BY <2>3, <2>6, <3>1, <3>2, Zenon
      <3>4. DOMAIN Stages = {}
        BY <2>3
      <3> QED BY <1>4, <3>3, <3>4
    <2>11. BreadthInv'
      <3> SUFFICES ASSUME ~DepthFirst
                   PROVE  /\ next' \in 1..(Len(Stages) + 1)
                          /\ FlattenSeq(data') = Expected(next' - 1)
                          /\ funnel' = [i \in DOMAIN Stages |-> IF i < next' THEN Len(Expected(i)) ELSE 0]
        BY <2>5 DEF BreadthInv
      <3>1. next' = 1 /\ next' - 1 = 0 /\ next' \in 1..(Len(Stages) + 1)
        BY <1>1, <1>2, <2>3
      <3>2. FlattenSeq(data') = Expected(next' - 1)
        BY <2>2, <2>3, <2>7, <3>1
      <3>3. \A i \in DOMAIN Stages : ~(i < next')
        BY <2>3, <3>1
      <3> QED BY <1>4, <3>1, <3>2, <3>3
    <2>12. FilesInv' /\ AnswerInv'
      BY <1>1, <2>1, FilesStay, AnswerStays DEF PipeInv
    <2> QED BY <2>8, <2>9, <2>10, <2>11, <2>12 DEF PipeInv
  <1> QED BY <1>3, <1>4 DEF Start

\* A stage is set up, or refuses.
LEMMA SetUpPipe == ASSUME PipeInv, SetUp PROVE PipeInv'
  <1>1. /\ at = "setup" /\ job' = job /\ data' = data /\ next' = next /\ out' = out /\ parts' = parts
        /\ funnel' = funnel /\ at' \in {"setup", "working", "refused"}
    BY DEF SetUp
  <1>2. FilesInv' /\ AnswerInv'
    BY <1>1, FilesStay, AnswerStays DEF PipeInv
  <1>3. /\ Stages' = Stages /\ (UseCosmos(job))' = UseCosmos(job) /\ DepthFirst' = DepthFirst
        /\ (Source(job))' = Source(job) /\ RowsOut' = RowsOut
        /\ \A k : Given(k)' = Given(k)
        /\ \A k : Expected(k)' = Expected(k)
    BY <1>1, SameJob DEF RowsOut
  <1>4. WhereInv'
    BY <1>1, <1>3 DEF PipeInv, WhereInv
  <1>5. DepthInv'
    BY <1>1, <1>3 DEF PipeInv, DepthInv
  <1>6. PlainInv'
    BY <1>1 DEF PlainInv
  <1>7. BreadthInv'
    BY <1>1, <1>3 DEF PipeInv, BreadthInv
  <1> QED BY <1>2, <1>4, <1>5, <1>6, <1>7 DEF PipeInv

\* A consumer leaves.
LEMMA ClosePipe == ASSUME PipeInv, Close PROVE PipeInv'
  BY Ended DEF Close

\* The generator goes on after the last shard it had.
LEMMA NextShardPipe == ASSUME PipeInv, NextShard PROVE PipeInv'
  <1>1. /\ at = "yielding" /\ data = <<>> /\ Stages # <<>> /\ at' = "working"
        /\ job' = job /\ data' = data /\ next' = next /\ out' = out /\ parts' = parts /\ funnel' = funnel
    BY DEF NextShard
  <1>2. FilesInv' /\ AnswerInv'
    BY <1>1, FilesStay, AnswerStays DEF PipeInv
  <1>3. /\ Stages' = Stages /\ (UseCosmos(job))' = UseCosmos(job) /\ DepthFirst' = DepthFirst
        /\ (Source(job))' = Source(job) /\ RowsOut' = RowsOut
        /\ \A k : Given(k)' = Given(k)
        /\ \A k : Expected(k)' = Expected(k)
    BY <1>1, SameJob DEF RowsOut
  <1>4. DepthFirst
    BY <1>1 DEF PipeInv, WhereInv
  <1>5. WhereInv'
    BY <1>1, <1>3 DEF PipeInv, WhereInv
  <1>6. DepthInv'
    BY <1>1, <1>3, <1>4 DEF PipeInv, DepthInv
  <1>7. PlainInv' /\ BreadthInv'
    BY <1>1, <1>3, <1>4 DEF PlainInv, BreadthInv
  <1> QED BY <1>2, <1>5, <1>6, <1>7 DEF PipeInv

\* One stage over all the shards.
LEMMA RunNextPipe == ASSUME PipeInv, RunNextStage PROVE PipeInv'
  <1>1. /\ at = "working" /\ ~DepthFirst /\ next <= Len(Stages)
        /\ job' = job /\ out' = out /\ parts' = parts
    BY DEF RunNextStage
  <1>2. CASE at' = "raised" /\ data' = data
    BY <1>1, <1>2, Ended
  <1>3. CASE /\ data' = RunStage(Stages[next], data)
             /\ funnel' = [funnel EXCEPT ![next] = RowsIn(data')]
             /\ next' = next + 1 /\ at' = at
    <2>1. /\ job \in Jobs /\ data \in Lists(Nat) /\ out \in Lists(Nat) /\ Stages # <<>> /\ ~UseCosmos(job)
          /\ next \in 1..(Len(Stages) + 1) /\ FlattenSeq(data) = Expected(next - 1)
          /\ funnel = [i \in DOMAIN Stages |-> IF i < next THEN Len(Expected(i)) ELSE 0]
      BY <1>1 DEF PipeInv, WhereInv, BreadthInv
    <2>2. Runnable(Stages) /\ Len(Stages) \in Nat /\ DOMAIN Stages = 1..Len(Stages)
      BY <2>1, SourceFacts
    <2>3. next \in 1..Len(Stages) /\ next' - 1 = next /\ next' \in 1..(Len(Stages) + 1)
      BY <1>1, <1>3, <2>1, <2>2
    <2>4. Stages[next].batch \in Nat \ {0}
      BY <2>2, <2>3 DEF Runnable
    <2>5. data' \in Lists(Nat) /\ FlattenSeq(data') = Transform(Stages[next].kind, FlattenSeq(data))
      BY <1>3, <2>1, <2>4, StageJoins
    <2>6. Expected(next) = Transform(Stages[next].kind, Expected(next - 1))
      BY <2>1, <2>3, ExpectedFacts
    <2>7. FlattenSeq(data') = Expected(next)
      BY <2>1, <2>5, <2>6
    <2>8. /\ Stages' = Stages /\ (UseCosmos(job))' = UseCosmos(job) /\ DepthFirst' = DepthFirst
          /\ \A k : Expected(k)' = Expected(k)
      BY <1>1, SameJob
    <2>9. FilesInv' /\ AnswerInv'
      BY <1>1, <1>3, FilesStay, AnswerStays DEF PipeInv
    <2>10. WhereInv'
      BY <1>1, <1>3, <2>1, <2>5, <2>8 DEF WhereInv
    <2>11. DepthInv' /\ PlainInv'
      BY <1>1, <1>3, <2>8 DEF DepthInv, PlainInv
    <2>12. BreadthInv'
      <3>1. FlattenSeq(data') = Expected(next' - 1)
        BY <2>3, <2>7
      <3>2. RowsIn(data') = Len(Expected(next))
        BY <2>7, Zenon DEF RowsIn
      <3>3. funnel' = [i \in DOMAIN Stages |-> IF i = next THEN Len(Expected(next)) ELSE funnel[i]]
        BY <1>3, <2>1, <3>2
      <3>4. \A i \in DOMAIN Stages : funnel[i] = IF i < next THEN Len(Expected(i)) ELSE 0
        BY <2>1
      <3>5. \A i \in DOMAIN Stages : (i < next' <=> i < next \/ i = next)
        BY <1>3, <2>2, <2>3
      <3>6. \A i \in DOMAIN Stages :
               (IF i = next THEN Len(Expected(next)) ELSE funnel[i]) = IF i < next' THEN Len(Expected(i)) ELSE 0
        <4> SUFFICES ASSUME NEW i \in DOMAIN Stages
                     PROVE  (IF i = next THEN Len(Expected(next)) ELSE funnel[i]) = IF i < next' THEN Len(Expected(i)) ELSE 0
          OBVIOUS
        <4>1. CASE i = next
          BY <3>5, <4>1
        <4>2. CASE i # next
          BY <3>4, <3>5, <4>2
        <4> QED BY <4>1, <4>2
      <3>7. funnel' = [i \in DOMAIN Stages |-> IF i < next' THEN Len(Expected(i)) ELSE 0]
        BY <3>3, <3>6
      <3> QED BY <1>1, <2>3, <2>8, <3>1, <3>7 DEF BreadthInv
    <2> QED BY <2>9, <2>10, <2>11, <2>12 DEF PipeInv
  <1> QED BY <1>2, <1>3 DEF RunNextStage

\* One shard through all the stages.
LEMMA PullPipe == ASSUME PipeInv, PullShard PROVE PipeInv'
  <1> DEFINE piece == Source(job)[next]
             chain == Chain(Stages, piece)
             N == Len(Stages)
  <1>1. /\ at = "working" /\ DepthFirst /\ next <= Len(Source(job))
        /\ job' = job /\ out' = out /\ parts' = parts /\ next' = next + 1
    BY DEF PullShard
  <1>2. CASE at' = "raised" /\ data' = data
    BY <1>1, <1>2, Ended
  <1>3. CASE /\ data' = chain[N] /\ funnel' = AddCounts(chain)
             /\ at' = IF data' = <<>> THEN "working" ELSE "yielding"
    <2>1. /\ job \in Jobs /\ data \in Lists(Nat) /\ out \in Lists(Nat) /\ Stages # <<>> /\ ~UseCosmos(job)
          /\ next \in 1..(Len(Source(job)) + 1) /\ data = <<>>
          /\ RowsOut \o FlattenSeq(data) = Given(next - 1)[N]
          /\ funnel = [i \in DOMAIN Stages |-> Len(Given(next - 1)[i])]
      BY <1>1 DEF PipeInv, WhereInv, DepthInv
    <2>2. Runnable(Stages) /\ N \in Nat /\ DOMAIN Stages = 1..N /\ Len(Source(job)) \in Nat
      BY <2>1, SourceFacts
    <2> DEFINE n == next - 1
    <2>3. n \in Nat /\ n + 1 = next /\ n + 1 <= Len(Source(job)) /\ n \in 0..Len(Source(job)) /\ N \in 0..N
      BY <1>1, <2>1, <2>2
    <2>4. next' - 1 = next /\ next' \in 1..(Len(Source(job)) + 1)
      BY <1>1, <2>1, <2>2
    <2> HIDE DEF n
    <2>5. piece \in Seq(Nat) /\ \A i \in 0..N : Given(next)[i] = Given(n)[i] \o Through(Stages, piece)[i]
      BY <2>1, <2>3, GivenNext
    <2>6. \A i \in 0..N : Given(n)[i] \in Seq(Nat)
      BY <2>1, <2>3, GivenPart
    <2> HIDE DEF piece
    <2>7. \A i \in 0..N : /\ chain[i] \in Lists(Nat)
                          /\ FlattenSeq(chain[i]) = Through(Stages, piece)[i]
                          /\ Through(Stages, piece)[i] \in Seq(Nat)
      BY <2>2, <2>5, ChainJoins, ThroughSteps
    <2> HIDE DEF chain
    <2>8. RowsOut = Given(n)[N]
      <3>1. RowsOut \in Seq(Nat) /\ FlattenSeq(data) = <<>>
        BY <2>1, FlattenTyped, FlattenEmpty, Zenon DEF RowsOut
      <3>2. \A s \in Seq(Nat) : s \o <<>> = s
        OBVIOUS
      <3>3. RowsOut \o FlattenSeq(data) = RowsOut
        BY <3>1, <3>2, Zenon
      <3> QED BY <2>1, <3>3 DEF n
    <2>9. RowsOut \o FlattenSeq(data') = Given(next)[N]
      BY <1>3, <2>3, <2>5, <2>7, <2>8, Zenon
    <2>10. funnel' = [i \in DOMAIN Stages |-> Len(Given(next)[i])]
      <3>1. \A s, t \in Seq(Nat) : Len(s \o t) = Len(s) + Len(t)
        OBVIOUS
      <3>2. \A i \in 1..N : i \in 0..N
        BY <2>2
      <3>3. \A i \in 1..N : Len(Given(next)[i]) = Len(Given(n)[i]) + Len(Through(Stages, piece)[i])
        BY <2>5, <2>6, <2>7, <3>1, <3>2, Zenon
      <3>4. \A i \in 1..N : RowsIn(chain[i]) = Len(Through(Stages, piece)[i])
        BY <2>7, <3>2, Zenon DEF RowsIn
      <3>5. \A i \in 1..N : funnel[i] = Len(Given(n)[i])
        BY <2>1, <2>2 DEF n
      <3>6. \A i \in DOMAIN Stages : funnel[i] + RowsIn(chain[i]) = Len(Given(next)[i])
        BY <2>2, <3>3, <3>4, <3>5
      <3> QED BY <1>3, <3>6 DEF AddCounts
    <2>11. /\ Stages' = Stages /\ (UseCosmos(job))' = UseCosmos(job) /\ DepthFirst' = DepthFirst
           /\ (Source(job))' = Source(job) /\ RowsOut' = RowsOut
           /\ \A k : Given(k)' = Given(k)
      BY <1>1, SameJob DEF RowsOut
    <2>12. at' \in {"working", "yielding"} /\ (at' # "yielding" => data' = <<>>)
      BY <1>3
    <2>13. FilesInv' /\ AnswerInv'
      BY <1>1, <2>12, FilesStay, AnswerStays DEF PipeInv
    <2>14. data' \in Lists(Nat)
      BY <1>3, <2>3, <2>7
    <2>15. WhereInv'
      BY <1>1, <2>1, <2>11, <2>12, <2>14 DEF WhereInv
    <2>16. DepthInv'
      <3> SUFFICES ASSUME at' \in {"working", "yielding"}
                   PROVE  /\ next' \in 1..(Len(Source(job)) + 1)
                          /\ at' # "yielding" => data' = <<>>
                          /\ RowsOut \o FlattenSeq(data') = Given(next' - 1)[Len(Stages)]
                          /\ funnel' = [i \in DOMAIN Stages |-> Len(Given(next' - 1)[i])]
        BY <2>11, <2>12 DEF DepthInv
      <3> QED BY <2>4, <2>9, <2>10, <2>12
    <2>17. PlainInv' /\ BreadthInv'
      BY <1>1, <2>1, <2>11 DEF PlainInv, BreadthInv
    <2> QED BY <2>13, <2>15, <2>16, <2>17 DEF PipeInv
  <1> QED BY <1>2, <1>3 DEF PullShard

\* What a consumer takes moves from what is about to be out to what is.
LEMMA TakeShard ==
    ASSUME PipeInv, Yield
    PROVE  /\ Head(data) \in Seq(Nat) /\ data' \in Lists(Nat) /\ out' \in Lists(Nat)
           /\ Len(out) \in Nat /\ Len(out') = Len(out) + 1 /\ out'[Len(out) + 1] = Head(data)
           /\ \A i \in 1..Len(out) : out'[i] = out[i]
           /\ RowsOut \in Seq(Nat) /\ RowsOut' \in Seq(Nat) /\ FlattenSeq(data') \in Seq(Nat)
           /\ RowsOut' = RowsOut \o Head(data)
           /\ RowsOut' \o FlattenSeq(data') = RowsOut \o FlattenSeq(data)
  <1> DEFINE h == Head(data)
             t == FlattenSeq(data')
  <1>1. data \in Lists(Nat) /\ data # <<>> /\ out \in Lists(Nat)
    BY DEF PipeInv, WhereInv, Yield
  <1>2. out' = Append(out, h) /\ data' = Tail(data)
    BY DEF Yield
  <1>3. h \in Seq(Nat) /\ data' \in Lists(Nat) /\ FlattenSeq(data) = h \o t
    BY <1>1, <1>2, FirstShard, Zenon
  <1>4. t \in Seq(Nat)
    BY <1>3, FlattenTyped
  <1> HIDE DEF h, t
  <1>5. /\ out' \in Lists(Nat) /\ Len(out') = Len(out) + 1 /\ out'[Len(out) + 1] = h
        /\ \A i \in 1..Len(out) : out'[i] = out[i]
    BY <1>1, <1>2, <1>3, ListAppend
  <1>6. Len(out) \in Nat
    BY <1>1, ListShape
  <1>7. RowsOut \in Seq(Nat) /\ RowsOut' \in Seq(Nat)
    <2>1. FlattenSeq(out) \in Seq(Nat) /\ FlattenSeq(out') \in Seq(Nat)
      BY <1>1, <1>5, FlattenTyped
    <2> QED BY <2>1 DEF RowsOut
  <1>8. RowsOut' = RowsOut \o h
    <2>1. FlattenSeq(Append(out, h)) = FlattenSeq(out) \o h
      BY <1>1, <1>3, FlattenAppend, Zenon
    <2> QED BY <1>2, <2>1, Zenon DEF RowsOut
  <1>9. RowsOut' \o t = RowsOut \o FlattenSeq(data)
    <2>1. (RowsOut \o h) \o t = RowsOut \o (h \o t)
      BY <1>3, <1>4, <1>7, Associative, Zenon
    <2> QED BY <1>3, <1>8, <2>1, Zenon
  <1> QED BY <1>3, <1>4, <1>5, <1>6, <1>7, <1>8, <1>9 DEF h, t

\* A shard that is taken is written, unless it is empty.
LEMMA YieldFiles == ASSUME PipeInv, Yield PROVE FilesInv'
  <1> DEFINE h == Head(data)
             n == Len(out)
  <1>1. /\ h \in Seq(Nat) /\ n \in Nat /\ Len(out') = n + 1 /\ out'[n + 1] = h
        /\ \A i \in 1..n : out'[i] = out[i]
        /\ RowsOut \in Seq(Nat) /\ RowsOut' = RowsOut \o h
    BY TakeShard
  <1>2. FilesInv /\ job' = job /\ parts' = IF Writes /\ h # <<>> THEN Written(n, h) ELSE parts
    BY DEF PipeInv, Yield
  <1> HIDE DEF h, n
  <1>3. ASSUME job.call = "parquet"
        PROVE  /\ DOMAIN parts' \subseteq 0..n
               /\ \A i \in 1..(n + 1) : (FileRows(i - 1))' = out'[i]
    <2>1. DOMAIN parts \subseteq 0..(n - 1) /\ \A i \in 1..n : FileRows(i - 1) = out[i]
      BY <1>2, <1>3 DEF FilesInv, n
    <2>2. n \notin DOMAIN parts
      BY <1>1, <2>1
    <2>3. DOMAIN parts \subseteq 0..n /\ n \in 0..n
      BY <1>1, <2>1
    <2>4. CASE h = <<>>
      <3>1. parts' = parts
        BY <1>2, <2>4
      <3>2. \A i \in 1..(n + 1) : (FileRows(i - 1))' = out'[i]
        <4> SUFFICES ASSUME NEW i \in 1..(n + 1) PROVE (FileRows(i - 1))' = out'[i]
          OBVIOUS
        <4>1. CASE i = n + 1
          <5>1. i - 1 = n
            BY <1>1, <4>1
          <5> QED BY <1>1, <2>2, <2>4, <3>1, <4>1, <5>1 DEF FileRows
        <4>2. CASE i # n + 1
          <5>1. i \in 1..n
            BY <1>1, <4>2
          <5> QED BY <1>1, <2>1, <3>1, <5>1 DEF FileRows
        <4> QED BY <4>1, <4>2
      <3> QED BY <2>3, <3>1, <3>2
    <2>5. CASE h # <<>>
      <3>1. parts' = [k \in DOMAIN parts \cup {n} |-> IF k \in DOMAIN parts THEN parts[k] ELSE h]
        BY <1>2, <1>3, <2>2, <2>5 DEF Writes, Written, PartName
      <3>2. DOMAIN parts' = DOMAIN parts \cup {n}
        BY <3>1
      <3>3. \A i \in 1..(n + 1) : (FileRows(i - 1))' = out'[i]
        <4> SUFFICES ASSUME NEW i \in 1..(n + 1) PROVE (FileRows(i - 1))' = out'[i]
          OBVIOUS
        <4> DEFINE k == i - 1
        <4>1. k \in Nat
          OBVIOUS
        <4>2. CASE i = n + 1
          <5>1. k = n
            BY <1>1, <4>2
          <5> HIDE DEF k
          <5>2. parts'[k] = h /\ k \in DOMAIN parts'
            BY <2>2, <3>1, <5>1
          <5>3. (FileRows(k))' = h
            BY <5>2 DEF FileRows
          <5> QED BY <1>1, <4>2, <5>3 DEF k
        <4>3. CASE i # n + 1
          <5>1. i \in 1..n /\ k # n
            BY <1>1, <4>3
          <5>2. FileRows(k) = out[i]
            BY <2>1, <5>1
          <5> HIDE DEF k
          <5>3. k \in DOMAIN parts' <=> k \in DOMAIN parts
            BY <3>2, <5>1
          <5>4. k \in DOMAIN parts => parts'[k] = parts[k]
            BY <3>1
          <5>5. (FileRows(k))' = FileRows(k)
            BY <5>3, <5>4 DEF FileRows
          <5> QED BY <1>1, <5>1, <5>2, <5>5 DEF k
        <4> QED BY <4>2, <4>3
      <3> QED BY <2>3, <3>2, <3>3
    <2> QED BY <2>4, <2>5
  <1>4. ASSUME job.call = "lance"
        PROVE  DOMAIN parts' \subseteq {0} /\ (FileRows(0))' = RowsOut'
    <2>1. DOMAIN parts \subseteq {0} /\ FileRows(0) = RowsOut
      BY <1>2, <1>4 DEF FilesInv
    <2>2. \A s \in Seq(Nat) : s \o <<>> = s /\ <<>> \o s = s
      OBVIOUS
    <2>3. CASE h = <<>>
      <3>1. parts' = parts
        BY <1>2, <2>3
      <3>2. RowsOut' = RowsOut
        BY <1>1, <2>2, <2>3, Zenon
      <3>3. (FileRows(0))' = FileRows(0)
        BY <3>1 DEF FileRows
      <3> QED BY <2>1, <3>1, <3>2, <3>3
    <2>4. CASE h # <<>> /\ 0 \in DOMAIN parts
      <3>1. parts' = [parts EXCEPT ![0] = @ \o h]
        BY <1>2, <1>4, <2>4, Zenon DEF Writes, Written, PartName
      <3>2. DOMAIN parts' = DOMAIN parts /\ parts'[0] = parts[0] \o h
        BY <2>4, <3>1, Zenon
      <3>3. parts[0] = RowsOut
        BY <2>1, <2>4 DEF FileRows
      <3>4. (FileRows(0))' = parts'[0]
        BY <2>4, <3>2 DEF FileRows
      <3> QED BY <1>1, <2>1, <3>2, <3>3, <3>4, Zenon
    <2>5. CASE h # <<>> /\ 0 \notin DOMAIN parts
      <3>1. parts' = [k \in DOMAIN parts \cup {0} |-> IF k \in DOMAIN parts THEN parts[k] ELSE h]
        BY <1>2, <1>4, <2>5 DEF Writes, Written, PartName
      <3>2. DOMAIN parts' \subseteq {0} /\ 0 \in DOMAIN parts' /\ parts'[0] = h
        BY <2>1, <2>5, <3>1
      <3>3. RowsOut = <<>>
        BY <2>1, <2>5 DEF FileRows
      <3>4. RowsOut' = h
        BY <1>1, <2>2, <3>3, Zenon
      <3>5. (FileRows(0))' = h
        BY <3>2 DEF FileRows
      <3> QED BY <3>2, <3>4, <3>5
    <2> QED BY <2>3, <2>4, <2>5
  <1>5. Len(out') - 1 = n
    BY <1>1
  <1> QED BY <1>1, <1>2, <1>3, <1>4, <1>5 DEF FilesInv

\* A consumer takes a shard.
LEMMA YieldPipe == ASSUME PipeInv, Yield PROVE PipeInv'
  <1>1. /\ at = "yielding" /\ at' = at /\ job' = job /\ next' = next /\ funnel' = funnel
    BY DEF Yield
  <1>2. /\ data' \in Lists(Nat) /\ out' \in Lists(Nat)
        /\ RowsOut' \in Seq(Nat) /\ FlattenSeq(data') \in Seq(Nat)
        /\ RowsOut' \o FlattenSeq(data') = RowsOut \o FlattenSeq(data)
    BY TakeShard
  <1>3. /\ Stages' = Stages /\ (UseCosmos(job))' = UseCosmos(job) /\ DepthFirst' = DepthFirst
        /\ (Source(job))' = Source(job) /\ Whole' = Whole
        /\ \A k : Given(k)' = Given(k)
        /\ \A k : Expected(k)' = Expected(k)
    BY <1>1, SameJob
  <1>4. job \in Jobs
    BY DEF PipeInv, WhereInv
  <1>5. WhereInv'
    BY <1>1, <1>2, <1>3 DEF PipeInv, WhereInv
  <1>6. DepthInv'
    BY <1>1, <1>2, <1>3 DEF PipeInv, DepthInv
  <1>7. PlainInv'
    BY <1>1, <1>2, <1>3 DEF PipeInv, PlainInv
  <1>8. BreadthInv'
    BY <1>1 DEF BreadthInv
  <1>9. ~UseCosmos(job) => IsPrefix(RowsOut', Whole)
    <2>1. CASE Stages = <<>>
      <3>1. RowsOut' \o FlattenSeq(data') = Whole
        BY <1>1, <1>2, <2>1 DEF PipeInv, PlainInv
      <3> QED BY <1>2, <3>1, PrefixOfConcat, Zenon
    <2>2. CASE Stages # <<>>
      <3>1. /\ next \in 1..(Len(Source(job)) + 1)
            /\ RowsOut' \o FlattenSeq(data') = Given(next - 1)[Len(Stages)]
        BY <1>1, <1>2, <2>2 DEF PipeInv, WhereInv, DepthInv
      <3>2. next - 1 \in 0..Len(Source(job))
        BY <1>4, <3>1, SourceFacts
      <3> QED BY <1>2, <1>4, <3>1, <3>2, Fits
    <2> QED BY <2>1, <2>2
  <1>10. AnswerInv'
    BY <1>1, <1>3, <1>9 DEF AnswerInv
  <1> QED BY <1>5, <1>6, <1>7, <1>8, <1>10, YieldFiles DEF PipeInv

\* The end of a run: all that the stages make of the source is out.
LEMMA FinishPipe == ASSUME PipeInv, Finish PROVE PipeInv'
  <1>1. /\ \/ at = "working" /\ next > IF DepthFirst THEN Len(Source(job)) ELSE Len(Stages)
           \/ at = "yielding" /\ data = <<>> /\ Stages = <<>>
        /\ at' = "done" /\ job' = job /\ data' = data /\ parts' = parts /\ funnel' = funnel
        /\ out' = IF DepthFirst \/ Stages = <<>> THEN out ELSE data
    BY DEF Finish
  <1>2. job \in Jobs /\ data \in Lists(Nat) /\ out \in Lists(Nat) /\ FilesInv
    BY DEF PipeInv, WhereInv
  <1>3. /\ Stages' = Stages /\ (UseCosmos(job))' = UseCosmos(job) /\ Whole' = Whole
        /\ \A k : Expected(k)' = Expected(k)
    BY <1>1, SameJob
  <1>4. /\ Len(Source(job)) \in Nat /\ Len(Stages) \in Nat /\ DOMAIN Stages = 1..Len(Stages) /\ Whole \in Seq(Nat)
        /\ (Stages = <<>> <=> Len(Stages) = 0)
    BY <1>2, SourceFacts, ExpectedFacts
  <1>5. RowsOut \in Seq(Nat) /\ \A s \in Seq(Nat) : s \o <<>> = s
    BY <1>2, FlattenTyped DEF RowsOut
  <1>6. data = <<>> => RowsOut \o FlattenSeq(data) = RowsOut
    BY <1>5, FlattenEmpty, Zenon
  <1>7. WhereInv' /\ DepthInv' /\ PlainInv' /\ BreadthInv'
    <2>1. out' \in Lists(Nat)
      BY <1>1, <1>2
    <2> QED BY <1>1, <1>2, <2>1 DEF WhereInv, DepthInv, PlainInv, BreadthInv
  <1>8. FilesInv'
    <2>1. CASE out' = out
      BY <1>1, <1>2, <2>1, FilesStay
    <2>2. CASE ~DepthFirst
      <3>1. job.call = "run"
        BY <2>2 DEF DepthFirst
      <3> QED BY <1>1, <3>1 DEF FilesInv
    <2> QED BY <1>1, <2>1, <2>2
  <1>9. RowsOut' = Whole /\ funnel' = [i \in DOMAIN Stages |-> Len(Expected(i))]
    <2>1. CASE at = "yielding" /\ data = <<>> /\ Stages = <<>>
      <3>1. RowsOut \o FlattenSeq(data) = Whole /\ funnel = [i \in DOMAIN Stages |-> Len(Expected(i))]
        BY <2>1 DEF PipeInv, PlainInv
      <3>2. RowsOut' = RowsOut
        BY <1>1, <2>1 DEF RowsOut
      <3> QED BY <1>1, <1>6, <2>1, <3>1, <3>2
    <2>2. CASE at = "working" /\ DepthFirst /\ next > Len(Source(job))
      <3>1. /\ next \in 1..(Len(Source(job)) + 1) /\ data = <<>>
            /\ RowsOut \o FlattenSeq(data) = Given(next - 1)[Len(Stages)]
            /\ funnel = [i \in DOMAIN Stages |-> Len(Given(next - 1)[i])]
        BY <2>2 DEF PipeInv, WhereInv, DepthInv
      <3>2. next - 1 = Len(Source(job))
        BY <1>4, <2>2, <3>1
      <3>3. \A i \in 0..Len(Stages) : Given(next - 1)[i] = Expected(i)
        BY <1>2, <3>2, GivenEnds
      <3>4. Len(Stages) \in 0..Len(Stages) /\ \A i \in DOMAIN Stages : i \in 0..Len(Stages)
        BY <1>4
      <3>5. RowsOut = Whole
        BY <1>6, <3>1, <3>3, <3>4 DEF Whole
      <3>6. funnel = [i \in DOMAIN Stages |-> Len(Expected(i))]
        BY <3>1, <3>3, <3>4
      <3>7. RowsOut' = RowsOut
        BY <1>1, <2>2 DEF RowsOut
      <3> QED BY <1>1, <3>5, <3>6, <3>7
    <2>3. CASE at = "working" /\ ~DepthFirst /\ next > Len(Stages)
      <3>1. /\ next \in 1..(Len(Stages) + 1) /\ FlattenSeq(data) = Expected(next - 1) /\ Stages # <<>>
            /\ funnel = [i \in DOMAIN Stages |-> IF i < next THEN Len(Expected(i)) ELSE 0]
        BY <2>3 DEF PipeInv, WhereInv, BreadthInv
      <3>2. next - 1 = Len(Stages) /\ \A i \in DOMAIN Stages : i < next
        BY <1>4, <2>3, <3>1
      <3>3. FlattenSeq(data) = Whole
        BY <3>1, <3>2 DEF Whole
      <3>4. out' = data
        BY <1>1, <2>3, <3>1
      <3>5. RowsOut' = Whole
        BY <3>3, <3>4, Zenon DEF RowsOut
      <3>6. funnel = [i \in DOMAIN Stages |-> Len(Expected(i))]
        BY <3>1, <3>2
      <3> QED BY <1>1, <3>5, <3>6
    <2> QED BY <1>1, <2>1, <2>2, <2>3
  <1>10. AnswerInv'
    <2>1. IsPrefix(Whole, Whole)
      BY <1>4 DEF IsPrefix
    <2>2. IsPrefix(RowsOut', Whole) /\ \A x : Times(RowsOut', x) = Times(Whole, x)
      BY <1>9, <2>1
    <2>3. CASE UseCosmos(job)
      BY <1>3, <2>2, <2>3 DEF AnswerInv
    <2>4. CASE ~UseCosmos(job)
      BY <1>3, <1>9, <2>2, <2>4 DEF AnswerInv
    <2> QED BY <2>3, <2>4
  <1> QED BY <1>7, <1>8, <1>10 DEF PipeInv

\* cosmos runs every shard through all the stages and gives them in any order.
LEMMA CosmosPipe == ASSUME PipeInv, RunCosmos PROVE PipeInv'
  <1> DEFINE N == Len(Stages)
             D == DOMAIN data
  <1>1. /\ at = "cosmos" /\ job' = job /\ data' = data /\ next' = next /\ parts' = parts
    BY DEF RunCosmos
  <1>2. /\ job \in Jobs /\ data \in Lists(Nat) /\ out \in Lists(Nat) /\ UseCosmos(job) /\ data = Source(job)
        /\ Stages # <<>>
    BY <1>1 DEF PipeInv, WhereInv
  <1>3. CASE at' = "raised" /\ out' = out
    BY <1>1, <1>3, Ended
  <1>4. ASSUME NEW order \in [D -> D], \A i, k \in D : i # k => order[i] # order[k], at' = "done",
               out' = FlattenSeq([i \in D |-> Chain(Stages, data[order[i]])[N]])
        PROVE  PipeInv'
    <2> DEFINE w == [i \in D |-> Through(Stages, data[i])[N]]
               zz == [i \in D |-> Chain(Stages, data[order[i]])[N]]
               y == [i \in D |-> FlattenSeq(zz[i])]
    <2>1. Runnable(Stages) /\ N \in Nat /\ N \in 0..N
      BY <1>2, SourceFacts
    <2>2. D = 1..Len(data) /\ Len(data) \in Nat /\ \A i \in D : data[i] \in Seq(Nat)
      BY <1>2, ListShape
    <2>3. w \in Lists(Nat) /\ FlattenSeq(w) = Whole
      <3>1. w \in Lists(Nat) /\ Through(Stages, FlattenSeq(data))[N] = FlattenSeq(w)
        <4>1. \A n \in 0..Len(Stages) :
                 /\ [i \in DOMAIN data |-> Through(Stages, data[i])[n]] \in Lists(Nat)
                 /\ Through(Stages, FlattenSeq(data))[n] = FlattenSeq([i \in DOMAIN data |-> Through(Stages, data[i])[n]])
          BY <1>2, <2>1, ThroughFlatten
        <4> QED BY <2>1, <4>1, Zenon
      <3>2. FlattenSeq(data) = TableOf(job.tasks)
        BY <1>2, SourceFacts
      <3> HIDE DEF w
      <3> QED BY <3>1, <3>2, Zenon DEF Whole, Expected
    <2>4. \A i \in D : /\ order[i] \in D
                       /\ Chain(Stages, data[order[i]])[N] \in Lists(Nat)
                       /\ FlattenSeq(Chain(Stages, data[order[i]])[N]) = Through(Stages, data[order[i]])[N]
      <3> SUFFICES ASSUME NEW i \in D
                   PROVE  /\ order[i] \in D
                          /\ Chain(Stages, data[order[i]])[N] \in Lists(Nat)
                          /\ FlattenSeq(Chain(Stages, data[order[i]])[N]) = Through(Stages, data[order[i]])[N]
        OBVIOUS
      <3> DEFINE s == data[order[i]]
      <3>1. order[i] \in D /\ s \in Seq(Nat)
        BY <2>2
      <3> HIDE DEF s
      <3>2. Chain(Stages, s)[N] \in Lists(Nat) /\ FlattenSeq(Chain(Stages, s)[N]) = Through(Stages, s)[N]
        BY <2>1, <3>1, ChainJoins
      <3> QED BY <3>1, <3>2 DEF s
    <2>5. zz \in Lists(Seq(Nat))
      <3> DEFINE L == Lists(Nat)
      <3>1. Lists(Seq(Nat)) = Seq(L)
        BY DEF Lists
      <3>2. \A i \in 1..Len(data) : zz[i] \in L
        BY <2>2, <2>4
      <3>3. zz = [i \in 1..Len(data) |-> zz[i]]
        BY <2>2
      <3> HIDE DEF zz, L
      <3>4. zz \in Seq(L)
        BY <2>2, <3>2, <3>3
      <3> QED BY <3>1, <3>4
    <2>6. DOMAIN zz = D /\ DOMAIN w = D
      OBVIOUS
    <2>7. y = Along(w, order)
      BY <2>4 DEF Along
    <2>8. \A x : Times(FlattenSeq(y), x) = Times(FlattenSeq(w), x)
      <3> HIDE DEF w, y, D
      <3>1. order \in [DOMAIN w -> DOMAIN w] /\ \A i, k \in DOMAIN w : i # k => order[i] # order[k]
        BY <1>4, <2>6
      <3> QED BY <2>3, <2>7, <3>1, Shuffled
    <2>9. out' \in Lists(Nat) /\ FlattenSeq(out') = FlattenSeq(y)
      <3>1. out' = FlattenSeq(zz)
        BY <1>4
      <3>2. y = [i \in DOMAIN zz |-> FlattenSeq(zz[i])]
        BY <2>6
      <3> HIDE DEF zz, y
      <3>3. FlattenSeq(FlattenSeq(zz)) = FlattenSeq([i \in DOMAIN zz |-> FlattenSeq(zz[i])]) /\ FlattenSeq(zz) \in Lists(Nat)
        BY <2>5, FlattenFlatten
      <3> QED BY <3>1, <3>2, <3>3, Zenon
    <2>10. \A x : Times(RowsOut', x) = Times(Whole, x)
      <3> HIDE DEF w, y
      <3> QED BY <2>3, <2>8, <2>9, Zenon DEF RowsOut
    <2> HIDE DEF w, zz, y
    <2>11. (UseCosmos(job))' /\ Whole' = Whole
      BY <1>1, <1>2, SameJob
    <2>12. AnswerInv'
      BY <2>10, <2>11, <1>4 DEF AnswerInv
    <2>13. FilesInv'
      <3>1. job'.call = "run"
        BY <1>1, <1>2 DEF UseCosmos
      <3> QED BY <3>1 DEF FilesInv
    <2>14. WhereInv'
      BY <1>1, <1>2, <1>4, <2>9 DEF WhereInv
    <2>15. DepthInv' /\ PlainInv' /\ BreadthInv'
      BY <1>4 DEF DepthInv, PlainInv, BreadthInv
    <2> QED BY <2>12, <2>13, <2>14, <2>15 DEF PipeInv
  <1> QED BY <1>3, <1>4, Zenon DEF RunCosmos

\* Every step of a run keeps what is out a part of the answer.
LEMMA NextPipe == PipeInv /\ [PipelineNext]_pipelineVars => PipeInv'
  <1> SUFFICES ASSUME PipeInv, [PipelineNext]_pipelineVars PROVE PipeInv'
    OBVIOUS
  <1>1. CASE UNCHANGED pipelineVars
    <2>1. /\ job' = job /\ at' = at /\ data' = data /\ next' = next /\ out' = out /\ parts' = parts /\ funnel' = funnel
      BY <1>1 DEF pipelineVars
    <2>2. /\ Stages' = Stages /\ (UseCosmos(job))' = UseCosmos(job) /\ DepthFirst' = DepthFirst
          /\ (Source(job))' = Source(job) /\ Whole' = Whole /\ RowsOut' = RowsOut
          /\ \A k : Given(k)' = Given(k)
          /\ \A k : Expected(k)' = Expected(k)
      BY <2>1, SameJob DEF RowsOut
    <2>3. WhereInv' /\ DepthInv'
      BY <2>1, <2>2 DEF PipeInv, WhereInv, DepthInv
    <2>4. PlainInv' /\ BreadthInv' /\ AnswerInv'
      BY <2>1, <2>2 DEF PipeInv, PlainInv, BreadthInv, AnswerInv
    <2>5. FilesInv'
      BY <2>1, FilesStay DEF PipeInv
    <2> QED BY <2>3, <2>4, <2>5 DEF PipeInv
  <1> QED
    BY <1>1, StartPipe, SetUpPipe, RunNextPipe, PullPipe, YieldPipe, ClosePipe, NextShardPipe, FinishPipe, CosmosPipe
    DEF PipelineNext

\* What holds in every state of a run is what the pipeline promises.
LEMMA PipeAgrees == PipeInv => StreamingAgrees
  <1> SUFFICES ASSUME PipeInv PROVE StreamingAgrees
    OBVIOUS
  <1> DEFINE files == [i \in 1..Len(out) + 1 |-> IF i - 1 \in DOMAIN parts THEN parts[i - 1] ELSE <<>>]
  <1>1. job \in Jobs /\ out \in Lists(Nat)
    BY DEF PipeInv, WhereInv
  <1>2. RowsOut \in Seq(Nat) /\ \A s \in Seq(Nat) : s \o <<>> = s
    BY <1>1, FlattenTyped DEF RowsOut
  <1>3. \A a, b : (\A x : Times(a, x) = Times(b, x)) => SameRows(a, b)
    BY Zenon DEF SameRows
  <1>4. ReadDistributed(job.tasks) = TableOf(job.tasks)
    BY <1>1, SourceJoins
  <1>5. Writes => FlattenSeq(files) = RowsOut
    <2>1. Len(out) \in Nat
      BY <1>1, ListShape
    <2>2. CASE job.call = "parquet"
      <3>1. DOMAIN parts \subseteq 0..(Len(out) - 1) /\ \A i \in 1..Len(out) : FileRows(i - 1) = out[i]
        BY <2>2 DEF PipeInv, FilesInv
      <3> DEFINE y == Append(out, <<>>)
                 Q == Seq(Nat)
      <3>2. out \in Seq(Q) /\ <<>> \in Q
        BY <1>1 DEF Lists
      <3> HIDE DEF Q
      <3>3. y \in Seq(Q) /\ Len(y) = Len(out) + 1 /\ y[Len(out) + 1] = <<>> /\ \A i \in 1..Len(out) : y[i] = out[i]
        BY <3>2
      <3> HIDE DEF y
      <3>4. \A i \in 1..(Len(out) + 1) : files[i] = FileRows(i - 1)
        BY DEF FileRows
      <3>5. FileRows(Len(out)) = <<>>
        BY <2>1, <3>1 DEF FileRows
      <3>6. \A i \in 1..(Len(out) + 1) : files[i] = y[i]
        <4> SUFFICES ASSUME NEW i \in 1..(Len(out) + 1) PROVE files[i] = y[i]
          OBVIOUS
        <4> HIDE DEF files
        <4>1. CASE i = Len(out) + 1
          <5>1. i - 1 = Len(out)
            BY <2>1, <4>1
          <5> QED BY <3>3, <3>4, <3>5, <4>1, <5>1
        <4>2. CASE i # Len(out) + 1
          <5>1. i \in 1..Len(out)
            BY <2>1, <4>2
          <5> QED BY <3>1, <3>3, <3>4, <5>1
        <4> QED BY <4>1, <4>2
      <3>7. files \in Seq(Q) /\ Len(files) = Len(out) + 1
        <4>1. files = [i \in 1..(Len(out) + 1) |-> files[i]]
          OBVIOUS
        <4> HIDE DEF files
        <4>2. \A i \in 1..(Len(out) + 1) : files[i] \in Q
          BY <3>3, <3>6
        <4> QED BY <2>1, <4>1, <4>2
      <3> HIDE DEF files
      <3>8. files = y
        BY <2>1, <3>3, <3>6, <3>7, SeqEqual
      <3>9. FlattenSeq(Append(out, <<>>)) = FlattenSeq(out) \o <<>>
        BY <1>1, SeqNil, FlattenAppend, Zenon
      <3> QED BY <1>2, <3>8, <3>9, Zenon DEF y, RowsOut
    <2>3. CASE job.call = "lance"
      <3>1. DOMAIN parts \subseteq {0} /\ FileRows(0) = RowsOut
        BY <2>3 DEF PipeInv, FilesInv
      <3>2. files = FirstOf(RowsOut, Len(out) + 1)
        <4>1. \A i \in 1..(Len(out) + 1) : files[i] = IF i = 1 THEN RowsOut ELSE <<>>
          <5> SUFFICES ASSUME NEW i \in 1..(Len(out) + 1) PROVE files[i] = IF i = 1 THEN RowsOut ELSE <<>>
            OBVIOUS
          <5>1. files[i] = FileRows(i - 1)
            BY DEF FileRows
          <5> HIDE DEF files
          <5>2. CASE i = 1
            <6>1. i - 1 = 0
              BY <5>2
            <6> QED BY <3>1, <5>1, <5>2, <6>1
          <5>3. CASE i # 1
            <6>1. i - 1 # 0
              BY <5>3
            <6> QED BY <3>1, <5>1, <5>3, <6>1 DEF FileRows
          <5> QED BY <5>2, <5>3
        <4>2. files = [i \in 1..(Len(out) + 1) |-> files[i]]
          OBVIOUS
        <4> HIDE DEF files
        <4> QED BY <4>1, <4>2 DEF FirstOf
      <3> HIDE DEF files
      <3> QED BY <1>2, <2>1, <3>2, OnlyTheFirst
    <2> QED BY <2>2, <2>3 DEF Writes
  <1> HIDE DEF files
  <1>6. UseCosmos(job) \/ IsPrefix(RowsOut, Whole)
    BY DEF PipeInv, AnswerInv
  <1>7. at = "done" => IF UseCosmos(job) THEN SameRows(RowsOut, Whole)
                       ELSE RowsOut = Whole /\ funnel = [i \in DOMAIN Stages |-> Len(Expected(i))]
    BY <1>3 DEF PipeInv, AnswerInv
  <1>8. Writes => SameRows(RowsOut, FlattenSeq(files))
    BY <1>3, <1>5
  <1> QED BY <1>4, <1>6, <1>7, <1>8 DEF StreamingAgrees, RowsOut, Whole, files

\* A pipeline gives what its stages make of the source row by row, however it
\* is cut into tasks, chunks, shards and batches.
THEOREM StreamingAgreesAlways == PipelineSpec => []StreamingAgrees
  <1>1. job \in Pipelines /\ Unstarted => PipeInv
    BY InitPipe
  <1> QED BY <1>1, NextPipe, PipeAgrees, PTL DEF PipelineSpec

-----------------------------------------------------------------------------
(* Subprocess pools. *)
SubprocessInit == backend = "subprocess" /\ NothingCalled
SubprocessSpec == SubprocessInit /\ [][UdfNext]_udfVars

Answers == [of : (Callers \X Batch \X Nat) \cup {<<>>}, nth : Int, ok : BOOLEAN]

PoolTypes ==
    /\ backend = "subprocess"
    /\ shutdowns \in 0..MaxShutdowns /\ crews \in Nat
    /\ crewOf \in Seq(1..crews) /\ registry \in 0..Len(crewOf)
    /\ dead \subseteq AllWorkers
    /\ inbox \in [AllWorkers -> Seq(Callers \X Batch \X Nat)]
    /\ outbox \in [AllWorkers -> Seq(Answers)]
    /\ applied \in [AllWorkers -> Nat]
    /\ lock \in [AllWorkers -> Callers \cup {Nobody}]
    /\ pc \in [Callers -> {"idle", "mapping", "answered", "raised"}]
    /\ pool \in [Callers -> Nat] /\ crew \in [Callers -> 0..crews]
    /\ got \in [Callers -> [Batch -> Answers]]
    /\ calls \in [Callers -> Nat]
    /\ \A t \in Callers : pc[t] # "idle" => crew[t] \in 1..crews

\* A new crew is made only where a shutdown forgot the last pool.
CrewsBounded == crews <= shutdowns + IF registry = 0 THEN 0 ELSE 1

\* What a caller has got: answers to its own batches, worker by worker in order.
GotSound(t) ==
    /\ pc[t] = "answered" => Answered(t)
    /\ pc[t] \in {"mapping", "answered"} =>
        \A i \in Batch :
            /\ got[t][i] = NoReply \/ got[t][i].nth # 0
            /\ got[t][i].ok => /\ got[t][i].of = Request(t, i)
                               /\ got[t][i].nth <= applied[WorkerOf(crew[t], i)]
            /\ \A k \in Batch : i < k /\ WorkerOf(0, i) = WorkerOf(0, k) /\ got[t][k] # NoReply =>
                  /\ got[t][i] # NoReply
                  /\ got[t][i].ok /\ got[t][k].ok => got[t][i].nth < got[t][k].nth

\* On the pipes of a worker that nobody has locked there is nothing to read; on
\* those of a locked one, the request of the batch in turn or its reply.
LockSound(wk) ==
    LET t == lock[wk]
        n == Min(Unanswered(t, wk))
    IN  /\ t = Nobody => outbox[wk] = <<>> /\ (wk \notin dead => inbox[wk] = <<>>)
        /\ t # Nobody =>
              /\ pc[t] = "mapping" /\ wk \in Workers(crew[t]) /\ Open(t, wk)
              /\ \/ outbox[wk] = <<>> /\ (wk \notin dead => inbox[wk] = <<Request(t, n)>>)
                 \/ /\ outbox[wk] # <<>> /\ outbox[wk] = <<Head(outbox[wk])>>
                    /\ wk \notin dead => inbox[wk] = <<>>
                    /\ Head(outbox[wk]).of = Request(t, n)
                    /\ Head(outbox[wk]).nth \in 1..applied[wk]
                    /\ \A i \in Assigned(wk) : got[t][i].ok => got[t][i].nth < Head(outbox[wk]).nth

PoolInv ==
    /\ PoolTypes /\ CrewsBounded
    /\ \A t \in Callers : GotSound(t)
    /\ \A wk \in AllWorkers : LockSound(wk)

-----------------------------------------------------------------------------
\* The batch in turn.
LEMMA Turn ==
    ASSUME NEW t, NEW wk, Unanswered(t, wk) # {}
    PROVE  /\ Min(Unanswered(t, wk)) \in Unanswered(t, wk)
           /\ Min(Unanswered(t, wk)) \in Assigned(wk) /\ Min(Unanswered(t, wk)) \in Batch
           /\ got[t][Min(Unanswered(t, wk))] = NoReply
           /\ \A i \in Assigned(wk) : got[t][i] = NoReply => Min(Unanswered(t, wk)) <= i
  <1>1. Unanswered(t, wk) \in SUBSET Nat
    BY DEF Unanswered, Assigned, Batch
  <1>2. /\ Min(Unanswered(t, wk)) \in Unanswered(t, wk)
        /\ \A i \in Unanswered(t, wk) : Min(Unanswered(t, wk)) <= i
    BY <1>1, LeastNumber
  <1> HIDE DEF Unanswered
  <1> QED BY <1>2 DEF Unanswered, Assigned

\* Batches go round robin whatever the crew, and the workers of a crew are workers.
LEMMA RoundRobin ==
    /\ \A c, d, i, k : WorkerOf(c, i) = WorkerOf(c, k) <=> WorkerOf(d, i) = WorkerOf(d, k)
    /\ \A c, i : WorkerOf(c, i)[1] = c
    /\ \A c : \A wk \in Workers(c) : wk[1] = c
    /\ \A wk : \A i \in Assigned(wk) : i \in Batch /\ WorkerOf(wk[1], i) = wk
  BY DEF WorkerOf, Workers, Assigned

\* There are no more crews than calls and shutdowns allow.
LEMMA CrewWorkers ==
    ASSUME PoolTypes, CrewsBounded, NEW c \in 1..crews
    PROVE  Workers(c) \subseteq AllWorkers
  <1>1. c \in 1..(MaxCalls + MaxShutdowns + 1)
    BY UdfAssumption DEF PoolTypes, CrewsBounded
  <1> QED BY <1>1 DEF AllWorkers

\* Sending to one queue keeps the queues' type.
LEMMA Appended ==
    ASSUME NEW D, NEW S, NEW f \in [D -> Seq(S)], NEW d \in D, NEW x \in S
    PROVE  [f EXCEPT ![d] = Append(@, x)] \in [D -> Seq(S)]
  <1>1. Append(f[d], x) \in Seq(S)
    OBVIOUS
  <1> QED BY <1>1, Zenon
\* Reading from one queue keeps the queues' type.
LEMMA Taken ==
    ASSUME NEW D, NEW S, NEW f \in [D -> Seq(S)], NEW d \in D, f[d] # <<>>
    PROVE  [f EXCEPT ![d] = Tail(@)] \in [D -> Seq(S)]
  <1>1. Tail(f[d]) \in Seq(S)
    OBVIOUS
  <1> QED BY <1>1, Zenon

\* Before the first call the invariant holds.
LEMMA InitPoolInv == SubprocessInit => PoolInv
  <1> SUFFICES ASSUME SubprocessInit PROVE PoolInv
    OBVIOUS
  <1> USE DEF SubprocessInit, NothingCalled
  <1>1. NoReply \in Answers
    BY DEF NoReply, Answers
  <1>2. PoolTypes
    <2>1. got \in [Callers -> [Batch -> Answers]]
      BY <1>1
    <2>2. crewOf \in Seq(1..crews) /\ Len(crewOf) = 0
      OBVIOUS
    <2>3. /\ inbox \in [AllWorkers -> Seq(Callers \X Batch \X Nat)]
          /\ outbox \in [AllWorkers -> Seq(Answers)]
      OBVIOUS
    <2>4. /\ pool \in [Callers -> Nat] /\ crew \in [Callers -> 0..crews] /\ calls \in [Callers -> Nat]
          /\ shutdowns \in 0..MaxShutdowns
      BY UdfAssumption
    <2> QED BY <2>1, <2>2, <2>3, <2>4 DEF PoolTypes
  <1>3. CrewsBounded
    BY DEF CrewsBounded
  <1>4. \A t \in Callers : GotSound(t)
    BY DEF GotSound
  <1>5. \A wk \in AllWorkers : LockSound(wk)
    BY DEF LockSound
  <1> QED BY <1>2, <1>3, <1>4, <1>5 DEF PoolInv

\* What is said of a caller stays true when others move.
LEMMA GotKept ==
    ASSUME PoolInv, NEW t \in Callers, got'[t] = got[t], calls'[t] = calls[t], crew'[t] = crew[t],
           pc'[t] = pc[t], \A wk \in AllWorkers : applied'[wk] >= applied[wk],
           applied' \in [AllWorkers -> Nat]
    PROVE  GotSound(t)'
  <1>1. GotSound(t) /\ PoolTypes /\ CrewsBounded
    BY DEF PoolInv
  <1>2. pc[t] = "answered" => Answered(t)'
    BY <1>1 DEF GotSound, Answered
  <1>3. ASSUME NEW i \in Batch, pc[t] \in {"mapping", "answered"}, got[t][i].ok
        PROVE  got[t][i].nth <= applied'[WorkerOf(crew[t], i)]
    <2>1. got[t][i].nth <= applied[WorkerOf(crew[t], i)]
      BY <1>1, <1>3 DEF GotSound
    <2>2. crew[t] \in 1..crews
      BY <1>1, <1>3 DEF PoolTypes
    <2>3. WorkerOf(crew[t], i) \in Workers(crew[t])
      BY UdfAssumption DEF WorkerOf, Workers, Batch
    <2>4. WorkerOf(crew[t], i) \in AllWorkers
      BY <1>1, <2>2, <2>3, CrewWorkers
    <2>5. got[t][i].nth \in Int
      BY <1>1 DEF PoolTypes, Answers
    <2> QED BY <1>1, <2>1, <2>4, <2>5 DEF PoolTypes
  <1> QED BY <1>1, <1>2, <1>3 DEF GotSound, Request

\* What is said of a worker's pipes stays true when others move.
LEMMA LockKept ==
    ASSUME PoolInv, NEW wk \in AllWorkers, inbox'[wk] = inbox[wk], outbox'[wk] = outbox[wk],
           lock'[wk] = lock[wk], applied'[wk] = applied[wk], dead \subseteq dead',
           lock[wk] # Nobody =>
               /\ pc'[lock[wk]] = pc[lock[wk]] /\ crew'[lock[wk]] = crew[lock[wk]]
               /\ calls'[lock[wk]] = calls[lock[wk]]
               /\ \A i \in Assigned(wk) : got'[lock[wk]][i] = got[lock[wk]][i]
    PROVE  LockSound(wk)'
  <1>1. LockSound(wk)
    BY DEF PoolInv
  <1>2. CASE lock[wk] = Nobody
    BY <1>1, <1>2 DEF LockSound
  <1>3. CASE lock[wk] # Nobody
    <2> DEFINE t == lock[wk]
    <2>1. Unanswered(t, wk)' = Unanswered(t, wk)
      BY <1>3 DEF Unanswered
    <2>2. Open(t, wk)' <=> Open(t, wk)
      BY <1>3, <2>1 DEF Open, SliceFailed
    <2>3. \A n : Request(t, n)' = Request(t, n)
      BY <1>3 DEF Request
    <2> QED BY <1>1, <1>3, <2>1, <2>2, <2>3 DEF LockSound
  <1> QED BY <1>2, <1>3

\* A caller gets the cached pool, or spawns one: it holds no worker's lock yet.
LEMMA GetOrCreateInv ==
    ASSUME PoolInv, NEW t \in Callers, GetOrCreatePool(t)
    PROVE  PoolInv'
  <1>0. PoolTypes /\ CrewsBounded
    BY DEF PoolInv
  <1>1. /\ pc[t] = "idle" /\ pc' = [pc EXCEPT ![t] = "mapping"]
        /\ calls' = [calls EXCEPT ![t] = @ + 1]
        /\ crew' = [crew EXCEPT ![t] = crewOf'[pool'[t]]]
        /\ got' = [got EXCEPT ![t] = [i \in Batch |-> NoReply]]
        /\ UNCHANGED <<backend, dead, inbox, outbox, applied, lock, deaths, shutdowns>>
    BY DEF GetOrCreatePool, Goto, workerVars, boundVars
  <1>2. /\ crews' \in Nat /\ crews' >= crews /\ crewOf' \in Seq(1..crews')
        /\ registry' \in 1..Len(crewOf') /\ pool' \in [Callers -> Nat]
        /\ pool'[t] \in 1..Len(crewOf')
        /\ crews' <= shutdowns + 1
    <2>1. CASE registry # 0
      <3>1. UNCHANGED <<registry, crewOf, crews>> /\ pool' = [pool EXCEPT ![t] = registry]
        BY <2>1 DEF GetOrCreatePool
      <3> QED BY <1>0, <2>1, <3>1 DEF PoolTypes, CrewsBounded
    <2>2. CASE registry = 0
      <3>1. /\ crews' = crews + 1 /\ crewOf' = Append(crewOf, crews + 1)
            /\ registry' = Len(crewOf') /\ pool' = [pool EXCEPT ![t] = registry']
        BY <2>2 DEF GetOrCreatePool
      <3>2. crewOf \in Seq(1..crews + 1) /\ crews + 1 \in 1..crews + 1
        BY <1>0 DEF PoolTypes
      <3>3. crewOf' \in Seq(1..crews + 1) /\ Len(crewOf') \in Nat /\ Len(crewOf') >= 1
        BY <3>1, <3>2
      <3> QED BY <1>0, <2>2, <3>1, <3>3 DEF PoolTypes, CrewsBounded
    <2> QED BY <2>1, <2>2
  <1>3. crewOf'[pool'[t]] \in 1..crews'
    BY <1>2
  <1>4. NoReply \in Answers /\ ~NoReply.ok /\ NoReply.nth = 0
    BY DEF NoReply, Answers
  <1>5. PoolTypes'
    <2>1. got' \in [Callers -> [Batch -> Answers]]
      BY <1>0, <1>1, <1>4 DEF PoolTypes
    <2>2. crew' \in [Callers -> 0..crews']
      <3>1. crew \in [Callers -> 0..crews'] /\ crewOf'[pool'[t]] \in 0..crews'
        <4>1. crew \in [Callers -> 0..crews] /\ crews \in Nat /\ crews' \in Nat /\ crews' >= crews
          BY <1>0, <1>2 DEF PoolTypes
        <4>2. 0..crews \subseteq 0..crews' /\ 1..crews' \subseteq 0..crews'
          BY <4>1
        <4>3. crewOf'[pool'[t]] \in 0..crews'
          BY <1>3, <4>2
        <4>4. \A c, d : c \subseteq d /\ crew \in [Callers -> c] => crew \in [Callers -> d]
          OBVIOUS
        <4> QED BY <4>1, <4>2, <4>3, <4>4, Zenon
      <3> DEFINE S == 0..crews'
                 x == crewOf'[pool'[t]]
      <3>2. crew \in [Callers -> S] /\ x \in S /\ crew' = [crew EXCEPT ![t] = x]
        BY <1>1, <3>1
      <3> HIDE DEF S, x
      <3>3. crew' \in [Callers -> S]
        BY <3>2
      <3> QED BY <3>3 DEF S
    <2>3. ASSUME NEW u \in Callers, pc'[u] # "idle" PROVE crew'[u] \in 1..crews'
      <3>1. CASE u = t
        BY <1>0, <1>1, <1>3, <3>1 DEF PoolTypes
      <3>2. CASE u # t
        <4>1. crew'[u] = crew[u] /\ pc'[u] = pc[u]
          BY <1>0, <1>1, <3>2 DEF PoolTypes
        <4>2. crew[u] \in 1..crews
          BY <1>0, <2>3, <4>1 DEF PoolTypes
        <4> QED BY <1>0, <1>2, <4>1, <4>2 DEF PoolTypes
      <3> QED BY <3>1, <3>2
    <2>4. calls' \in [Callers -> Nat]
      BY <1>0, <1>1 DEF PoolTypes
    <2>5. pc' \in [Callers -> {"idle", "mapping", "answered", "raised"}]
      BY <1>0, <1>1 DEF PoolTypes
    <2>6. /\ backend' = "subprocess" /\ shutdowns' \in 0..MaxShutdowns /\ dead' \subseteq AllWorkers
          /\ inbox' \in [AllWorkers -> Seq(Callers \X Batch \X Nat)]
          /\ outbox' \in [AllWorkers -> Seq(Answers)]
          /\ applied' \in [AllWorkers -> Nat] /\ lock' \in [AllWorkers -> Callers \cup {Nobody}]
      BY <1>0, <1>1 DEF PoolTypes
    <2>7. registry' \in 0..Len(crewOf')
      BY <1>2
    <2> QED BY <1>2, <2>1, <2>2, <2>3, <2>4, <2>5, <2>6, <2>7 DEF PoolTypes
  <1>6. CrewsBounded'
    BY <1>1, <1>2 DEF CrewsBounded
  <1>7. ASSUME NEW u \in Callers PROVE GotSound(u)'
    <2>1. CASE u = t
      <3>1. pc'[t] = "mapping" /\ \A i \in Batch : got'[t][i] = NoReply
        BY <1>0, <1>1 DEF PoolTypes
      <3> QED BY <1>4, <2>1, <3>1 DEF GotSound
    <2>2. CASE u # t
      <3>1. got'[u] = got[u] /\ calls'[u] = calls[u] /\ crew'[u] = crew[u] /\ pc'[u] = pc[u]
        BY <1>0, <1>1, <2>2 DEF PoolTypes
      <3>2. applied' = applied /\ applied' \in [AllWorkers -> Nat]
        BY <1>0, <1>1 DEF PoolTypes
      <3> QED BY <3>1, <3>2, GotKept
    <2> QED BY <2>1, <2>2
  <1>8. ASSUME NEW wk \in AllWorkers PROVE LockSound(wk)'
    <2>1. lock[wk] # Nobody => lock[wk] \in Callers /\ lock[wk] # t
      BY <1>0, <1>1 DEF PoolInv, LockSound, PoolTypes
    <2>2. lock[wk] # Nobody => /\ pc'[lock[wk]] = pc[lock[wk]] /\ crew'[lock[wk]] = crew[lock[wk]]
                               /\ calls'[lock[wk]] = calls[lock[wk]] /\ got'[lock[wk]] = got[lock[wk]]
      BY <1>0, <1>1, <2>1 DEF PoolTypes
    <2> QED BY <1>1, <2>2, LockKept
  <1> QED BY <1>5, <1>6, <1>7, <1>8 DEF PoolInv

\* A thread takes the mutex of a worker, whose pipes are empty, and sends.
LEMMA AcquireInv ==
    ASSUME PoolInv, NEW t \in Callers, NEW wk \in Workers(crew[t]), Acquire(t, wk)
    PROVE  PoolInv'
  <1>0. PoolTypes /\ CrewsBounded
    BY DEF PoolInv
  <1> DEFINE n == Min(Unanswered(t, wk))
  <1>1. /\ pc[t] = "mapping" /\ Open(t, wk) /\ lock[wk] = Nobody
        /\ lock' = [lock EXCEPT ![wk] = t]
        /\ inbox' = [inbox EXCEPT ![wk] = Append(@, Request(t, n))]
        /\ UNCHANGED <<backend, registry, crewOf, crews, dead, outbox, applied, pc, pool, crew,
                       got, calls, deaths, shutdowns>>
    BY DEF Acquire, Free, boundVars
  <1>2. wk \in AllWorkers
    BY <1>0, <1>1, CrewWorkers DEF PoolTypes
  <1>3. Request(t, n) \in Callers \X Batch \X Nat
    BY <1>0, <1>1, Turn DEF Request, Open, PoolTypes
  <1>4. PoolTypes'
    <2>1. lock' \in [AllWorkers -> Callers \cup {Nobody}]
      BY <1>0, <1>1 DEF PoolTypes
    <2>2. inbox' \in [AllWorkers -> Seq(Callers \X Batch \X Nat)]
      <3> DEFINE S == Callers \X Batch \X Nat
                 x == Request(t, n)
      <3>1. inbox \in [AllWorkers -> Seq(S)] /\ x \in S /\ inbox' = [inbox EXCEPT ![wk] = Append(@, x)]
        BY <1>0, <1>1, <1>3 DEF PoolTypes
      <3> HIDE DEF S, x, n
      <3>2. inbox' \in [AllWorkers -> Seq(S)]
        BY <1>2, <3>1, Appended, Zenon
      <3> QED BY <3>2 DEF S
    <2> QED BY <1>0, <1>1, <2>1, <2>2 DEF PoolTypes
  <1>5. CrewsBounded'
    BY <1>0, <1>1 DEF CrewsBounded
  <1>6. ASSUME NEW u \in Callers PROVE GotSound(u)'
    <2>1. applied' \in [AllWorkers -> Nat] /\ \A v \in AllWorkers : applied'[v] >= applied[v]
      BY <1>0, <1>1 DEF PoolTypes
    <2> QED BY <1>1, <2>1, GotKept
  <1>7. ASSUME NEW v \in AllWorkers PROVE LockSound(v)'
    <2>1. CASE v # wk
      <3>1. lock'[v] = lock[v] /\ inbox'[v] = inbox[v]
        BY <1>0, <1>1, <2>1 DEF PoolTypes
      <3> QED BY <1>1, <3>1, LockKept
    <2>2. CASE v = wk
      <3>1. outbox[wk] = <<>> /\ (wk \notin dead => inbox[wk] = <<>>)
        BY <1>1, <1>2 DEF PoolInv, LockSound
      <3>2. lock'[wk] = t /\ t # Nobody
        BY <1>0, <1>1, <1>2, UdfAssumption DEF PoolTypes
      <3>3. wk \notin dead => inbox'[wk] = <<Request(t, n)>>
        BY <1>0, <1>1, <1>2, <3>1 DEF PoolTypes
      <3>4. /\ Unanswered(t, wk)' = Unanswered(t, wk) /\ Open(t, wk)' /\ Request(t, n)' = Request(t, n)
        BY <1>1 DEF Unanswered, Open, SliceFailed, Request
      <3> QED BY <1>1, <2>2, <3>1, <3>2, <3>3, <3>4 DEF LockSound
    <2> QED BY <2>1, <2>2
  <1> QED BY <1>4, <1>5, <1>6, <1>7 DEF PoolInv

\* The worker answers the only request it was sent, after all it answered before.
LEMMA WorkInv ==
    ASSUME PoolInv, NEW wk \in AllWorkers, Work(wk)
    PROVE  PoolInv'
  <1>0. PoolTypes /\ CrewsBounded /\ LockSound(wk)
    BY DEF PoolInv
  <1> DEFINE t == lock[wk]
             n == Min(Unanswered(t, wk))
  <1>1. /\ inbox[wk] # <<>> /\ wk \notin dead
        /\ inbox' = [inbox EXCEPT ![wk] = Tail(@)]
        /\ applied' = [applied EXCEPT ![wk] = @ + 1]
        /\ outbox' = [outbox EXCEPT ![wk] = Append(@, Reply(wk))]
        /\ UNCHANGED <<backend, registry, crewOf, crews, dead, lock, pc, pool, crew, got, calls,
                       deaths, shutdowns>>
    BY <1>0 DEF Work, Ray, boundVars, PoolTypes
  <1>2. /\ t # Nobody /\ t \in Callers /\ pc[t] = "mapping" /\ wk \in Workers(crew[t]) /\ Open(t, wk)
        /\ outbox[wk] = <<>> /\ inbox[wk] = <<Request(t, n)>>
    BY <1>0, <1>1 DEF LockSound, PoolTypes
  <1>3. /\ Reply(wk) \in Answers /\ Reply(wk).of = Request(t, n) /\ Reply(wk).nth = applied[wk] + 1
    <2>1. Request(t, n) \in Callers \X Batch \X Nat
      BY <1>0, <1>2, Turn DEF Request, Open, PoolTypes
    <2>2. Head(inbox[wk]) = Request(t, n)
      BY <1>2
    <2> HIDE DEF n, t
    <2> QED BY <1>0, <2>1, <2>2 DEF Reply, Answers, PoolTypes
  <1>4. /\ outbox'[wk] = <<Reply(wk)>> /\ inbox'[wk] = <<>> /\ applied'[wk] = applied[wk] + 1
        /\ applied' \in [AllWorkers -> Nat] /\ \A v \in AllWorkers : applied'[v] >= applied[v]
    BY <1>0, <1>1, <1>2 DEF PoolTypes
  <1>5. PoolTypes'
    <2>1. outbox' \in [AllWorkers -> Seq(Answers)]
      BY <1>0, <1>1, <1>3 DEF PoolTypes
    <2>2. inbox' \in [AllWorkers -> Seq(Callers \X Batch \X Nat)]
      <3> DEFINE S == Callers \X Batch \X Nat
      <3>1. inbox \in [AllWorkers -> Seq(S)]
        BY <1>0 DEF PoolTypes
      <3> HIDE DEF S
      <3>2. inbox' \in [AllWorkers -> Seq(S)]
        BY <1>1, <3>1, Taken, Zenon
      <3> QED BY <3>2 DEF S
    <2> QED BY <1>0, <1>1, <1>4, <2>1, <2>2 DEF PoolTypes
  <1>6. CrewsBounded'
    BY <1>0, <1>1 DEF CrewsBounded
  <1>7. ASSUME NEW u \in Callers PROVE GotSound(u)'
    BY <1>1, <1>4, GotKept
  <1>8. ASSUME NEW v \in AllWorkers PROVE LockSound(v)'
    <2>1. CASE v # wk
      <3>1. outbox'[v] = outbox[v] /\ inbox'[v] = inbox[v] /\ applied'[v] = applied[v]
        BY <1>0, <1>1, <2>1 DEF PoolTypes
      <3> QED BY <1>1, <3>1, LockKept
    <2>2. CASE v = wk
      <3>1. \A i \in Assigned(wk) : got[t][i].ok => got[t][i].nth < Reply(wk).nth
        <4> SUFFICES ASSUME NEW i \in Assigned(wk), got[t][i].ok PROVE got[t][i].nth < Reply(wk).nth
          OBVIOUS
        <4>1. i \in Batch /\ WorkerOf(crew[t], i) = wk
          BY <1>2, RoundRobin
        <4>2. got[t][i].nth <= applied[wk]
          BY <1>2, <4>1 DEF PoolInv, GotSound
        <4>3. got[t][i].nth \in Int /\ applied[wk] \in Nat
          BY <1>0, <1>2, <4>1 DEF PoolTypes, Answers
        <4> QED BY <1>3, <4>2, <4>3
      <3>2. Unanswered(t, wk)' = Unanswered(t, wk) /\ Open(t, wk)' /\ Request(t, n)' = Request(t, n)
        BY <1>1, <1>2 DEF Unanswered, Open, SliceFailed, Request
      <3>3. Head(outbox'[wk]) = Reply(wk) /\ outbox'[wk] # <<>>
        BY <1>4
      <3>4. Reply(wk).nth \in 1..applied'[wk]
        BY <1>0, <1>3, <1>4 DEF PoolTypes
      <3>5. lock'[wk] = t
        BY <1>1
      <3> QED BY <1>1, <1>2, <1>3, <1>4, <2>2, <3>1, <3>2, <3>3, <3>4, <3>5 DEF LockSound
    <2> QED BY <2>1, <2>2
  <1> QED BY <1>5, <1>6, <1>7, <1>8 DEF PoolInv

\* The thread that holds the mutex reads the reply of the batch in turn, or
\* learns that the worker is gone; then it sends the next batch or lets go.
LEMMA ReceiveInv ==
    ASSUME PoolInv, NEW t \in Callers, NEW wk \in Workers(crew[t]), Receive(t, wk)
    PROVE  PoolInv'
  <1>0. PoolTypes /\ CrewsBounded /\ GotSound(t)
    BY DEF PoolInv
  <1> DEFINE n == Min(Unanswered(t, wk))
             left == Unanswered(t, wk)'
             again == left # {} /\ \A i \in Assigned(wk) \ left : got'[t][i].ok
  <1>1. /\ pc[t] = "mapping" /\ lock[wk] = t
        /\ UNCHANGED <<backend, registry, crewOf, crews, dead, applied, pc, pool, crew, calls,
                       deaths, shutdowns>>
        /\ outbox' = [outbox EXCEPT ![wk] = IF @ = <<>> THEN @ ELSE Tail(@)]
        /\ lock' = [lock EXCEPT ![wk] = IF again THEN t ELSE Nobody]
        /\ inbox' = [inbox EXCEPT ![wk] = IF again THEN Append(@, Request(t, Min(left))) ELSE @]
    BY DEF Receive, boundVars, Unanswered
  <1>2. wk \in AllWorkers /\ t # Nobody /\ LockSound(wk)
    BY <1>0, <1>1, CrewWorkers, UdfAssumption DEF PoolTypes, PoolInv
  <1>3. Open(t, wk) /\ Unanswered(t, wk) # {}
    BY <1>1, <1>2 DEF LockSound, Open
  <1>4. /\ n \in Assigned(wk) /\ n \in Batch /\ got[t][n] = NoReply
        /\ \A i \in Assigned(wk) : got[t][i] = NoReply => n <= i
    BY <1>3, Turn
  <1>5. PICK r \in Answers :
        /\ got' = [got EXCEPT ![t][n] = r] /\ r.nth # 0
        /\ r.ok => /\ r.of = Request(t, n) /\ r.nth <= applied[wk]
                   /\ \A i \in Assigned(wk) : got[t][i].ok => got[t][i].nth < r.nth
    <2>1. CASE outbox[wk] # <<>>
      <3>1. got' = [got EXCEPT ![t][n] = Head(outbox[wk])]
        BY <2>1 DEF Receive
      <3>2. Head(outbox[wk]) \in Answers
        BY <1>0, <1>2, <2>1 DEF PoolTypes
      <3>3. /\ Head(outbox[wk]).of = Request(t, n) /\ Head(outbox[wk]).nth \in 1..applied[wk]
            /\ \A i \in Assigned(wk) : got[t][i].ok => got[t][i].nth < Head(outbox[wk]).nth
        BY <1>1, <1>2, <2>1 DEF LockSound
      <3>4. applied[wk] \in Nat
        BY <1>0, <1>2 DEF PoolTypes
      <3> DEFINE h == Head(outbox[wk])
      <3>5. h.nth # 0 /\ h.nth <= applied[wk]
        BY <3>3, <3>4
      <3> HIDE DEF n, h
      <3>6. h = Head(outbox[wk])
        BY DEF h
      <3> QED BY <3>1, <3>2, <3>3, <3>5, <3>6, Zenon
    <2>2. CASE outbox[wk] = <<>>
      <3>1. got' = [got EXCEPT ![t][n] = Failed]
        BY <2>2 DEF Receive
      <3>2. Failed \in Answers /\ Failed.nth # 0 /\ ~Failed.ok
        BY DEF Failed, Answers
      <3> HIDE DEF n
      <3> QED BY <3>1, <3>2
    <2> QED BY <2>1, <2>2
  <1>6. outbox'[wk] = <<>> /\ (wk \notin dead => inbox[wk] = <<>>)
    <2>1. CASE outbox[wk] # <<>>
      <3>1. outbox[wk] = <<Head(outbox[wk])>> /\ (wk \notin dead => inbox[wk] = <<>>)
        BY <1>1, <1>2, <2>1 DEF LockSound
      <3>2. outbox'[wk] = Tail(outbox[wk])
        BY <1>0, <1>1, <1>2, <2>1 DEF PoolTypes
      <3>3. \A x : Tail(<<x>>) = <<>>
        OBVIOUS
      <3> QED BY <3>1, <3>2, <3>3
    <2>2. CASE outbox[wk] = <<>>
      <3>1. wk \in dead
        BY <2>2 DEF Receive
      <3> QED BY <1>0, <1>1, <1>2, <2>2, <3>1 DEF PoolTypes
    <2> QED BY <2>1, <2>2
  <1>7. /\ got'[t][n] = r /\ \A i \in Batch : i # n => got'[t][i] = got[t][i]
        /\ \A u \in Callers : u # t => got'[u] = got[u]
        /\ got' \in [Callers -> [Batch -> Answers]]
    <2> HIDE DEF n
    <2> QED BY <1>0, <1>4, <1>5 DEF PoolTypes
  <1>8. NoReply.nth = 0 /\ ~NoReply.ok /\ r # NoReply
    BY <1>5 DEF NoReply
  <1>9. wk[1] = crew[t]
    BY RoundRobin
  <1>10. PoolTypes'
    <2>1. lock' \in [AllWorkers -> Callers \cup {Nobody}]
      <3> HIDE DEF again
      <3> QED BY <1>0, <1>1 DEF PoolTypes
    <2>2. outbox' \in [AllWorkers -> Seq(Answers)]
      <3>1. outbox \in [AllWorkers -> Seq(Answers)]
        BY <1>0 DEF PoolTypes
      <3>2. CASE outbox[wk] = <<>>
        <4>1. outbox' = [outbox EXCEPT ![wk] = outbox[wk]]
          BY <1>1, <3>2, Zenon
        <4> QED BY <3>1, <4>1
      <3>3. CASE outbox[wk] # <<>>
        <4>1. outbox' = [outbox EXCEPT ![wk] = Tail(@)]
          BY <1>1, <3>3, Zenon
        <4> QED BY <1>2, <3>1, <3>3, <4>1, Taken, Zenon
      <3> QED BY <3>2, <3>3
    <2>3. inbox' \in [AllWorkers -> Seq(Callers \X Batch \X Nat)]
      <3>1. CASE again
        <4>1. Min(left) \in Batch
          <5>1. left \in SUBSET Nat /\ left \subseteq Batch
            BY DEF Unanswered, Assigned, Batch
          <5> HIDE DEF left
          <5> QED BY <3>1, <5>1, LeastNumber
        <4>2. Request(t, Min(left)) \in Callers \X Batch \X Nat
          <5> HIDE DEF left
          <5> QED BY <1>0, <4>1 DEF Request, PoolTypes
        <4>3. inbox' = [inbox EXCEPT ![wk] = Append(@, Request(t, Min(left)))]
          <5> HIDE DEF left
          <5> QED BY <1>1, <3>1
        <4> DEFINE S == Callers \X Batch \X Nat
                   x == Request(t, Min(left))
        <4>4. inbox \in [AllWorkers -> Seq(S)] /\ x \in S /\ inbox' = [inbox EXCEPT ![wk] = Append(@, x)]
          <5> HIDE DEF left
          <5> QED BY <1>0, <4>2, <4>3 DEF PoolTypes
        <4> HIDE DEF S, x, left
        <4>5. inbox' \in [AllWorkers -> Seq(S)]
          BY <1>2, <4>4, Appended, Zenon
        <4> QED BY <4>5 DEF S
      <3>2. CASE ~again
        <4>1. inbox' = [inbox EXCEPT ![wk] = inbox[wk]]
          <5> HIDE DEF again
          <5> QED BY <1>1, <3>2
        <4> QED BY <1>0, <4>1 DEF PoolTypes
      <3> QED BY <3>1, <3>2
    <2> QED BY <1>0, <1>1, <1>7, <2>1, <2>2, <2>3 DEF PoolTypes
  <1>11. CrewsBounded'
    BY <1>0, <1>1 DEF CrewsBounded
  <1>12. ASSUME NEW u \in Callers PROVE GotSound(u)'
    <2>1. CASE u # t
      <3>1. applied' \in [AllWorkers -> Nat] /\ \A v \in AllWorkers : applied'[v] >= applied[v]
        BY <1>0, <1>1 DEF PoolTypes
      <3> QED BY <1>1, <1>7, <2>1, <3>1, GotKept
    <2>2. CASE u = t
      <3> SUFFICES ASSUME NEW i \in Batch
                   PROVE  /\ got'[t][i] = NoReply \/ got'[t][i].nth # 0
                          /\ got'[t][i].ok => /\ got'[t][i].of = Request(t, i)
                                              /\ got'[t][i].nth <= applied[WorkerOf(crew[t], i)]
                          /\ \A k \in Batch : i < k /\ WorkerOf(0, i) = WorkerOf(0, k) /\ got'[t][k] # NoReply =>
                                /\ got'[t][i] # NoReply
                                /\ got'[t][i].ok /\ got'[t][k].ok => got'[t][i].nth < got'[t][k].nth
        BY <1>1, <2>2 DEF GotSound, Request
      <3>1. WorkerOf(crew[t], n) = wk
        BY <1>4, <1>9, RoundRobin
      <3>2. /\ got[t][i] = NoReply \/ got[t][i].nth # 0
            /\ got[t][i].ok => /\ got[t][i].of = Request(t, i)
                               /\ got[t][i].nth <= applied[WorkerOf(crew[t], i)]
        BY <1>0, <1>1 DEF GotSound
      <3>3. /\ got'[t][i] = NoReply \/ got'[t][i].nth # 0
            /\ got'[t][i].ok => /\ got'[t][i].of = Request(t, i)
                                /\ got'[t][i].nth <= applied[WorkerOf(crew[t], i)]
        <4> HIDE DEF n
        <4>1. CASE i = n
          BY <1>5, <1>7, <3>1, <4>1
        <4>2. CASE i # n
          BY <1>7, <3>2, <4>2
        <4> QED BY <4>1, <4>2
      <3>4. ASSUME NEW k \in Batch, i < k, WorkerOf(0, i) = WorkerOf(0, k), got'[t][k] # NoReply
            PROVE  /\ got'[t][i] # NoReply
                   /\ got'[t][i].ok /\ got'[t][k].ok => got'[t][i].nth < got'[t][k].nth
        <4>1. got[t][k] # NoReply => /\ got[t][i] # NoReply
                                     /\ got[t][i].ok /\ got[t][k].ok => got[t][i].nth < got[t][k].nth
          BY <1>0, <1>1, <3>4 DEF GotSound
        <4>2. CASE k = n
          <5>1. WorkerOf(crew[t], i) = WorkerOf(crew[t], n)
            BY <3>4, <4>2, RoundRobin
          <5>2. i \in Assigned(wk)
            BY <1>9, <3>1, <5>1 DEF Assigned
          <5>3. i \in Nat /\ n \in Nat
            BY <1>4 DEF Batch
          <5> HIDE DEF n
          <5>4. got[t][i] # NoReply /\ i # n
            BY <1>4, <3>4, <4>2, <5>2, <5>3
          <5> QED BY <1>5, <1>7, <4>2, <5>2, <5>4
        <4>3. CASE i = n /\ k # n
          <5> HIDE DEF n
          <5> QED BY <1>4, <1>7, <3>4, <4>1, <4>3
        <4>4. CASE i # n /\ k # n
          <5> HIDE DEF n
          <5> QED BY <1>7, <3>4, <4>1, <4>4
        <4> QED BY <4>2, <4>3, <4>4
      <3> QED BY <3>3, <3>4
    <2> QED BY <2>1, <2>2
  <1>13. ASSUME NEW v \in AllWorkers PROVE LockSound(v)'
    <2>1. CASE v # wk
      <3>1. inbox'[v] = inbox[v] /\ outbox'[v] = outbox[v] /\ lock'[v] = lock[v]
        <4> HIDE DEF again
        <4> QED BY <1>0, <1>1, <2>1 DEF PoolTypes
      <3>2. ASSUME lock[v] # Nobody, NEW i \in Assigned(v) PROVE got'[lock[v]][i] = got[lock[v]][i]
        <4>1. lock[v] \in Callers /\ v \in Workers(crew[lock[v]]) /\ i \in Batch
          BY <1>0, <3>2, RoundRobin DEF PoolTypes, PoolInv, LockSound
        <4>2. CASE lock[v] # t
          BY <1>7, <4>1, <4>2
        <4>3. CASE lock[v] = t
          <5>1. v[1] = wk[1] /\ WorkerOf(v[1], i) = v /\ WorkerOf(wk[1], n) = wk
            BY <1>4, <1>9, <3>2, <4>1, <4>3, RoundRobin
          <5>2. i # n
            BY <2>1, <5>1
          <5> HIDE DEF n
          <5> QED BY <1>7, <4>1, <4>3, <5>2
        <4> QED BY <4>2, <4>3
      <3>3. dead \subseteq dead' /\ applied'[v] = applied[v]
        BY <1>1
      <3>4. lock[v] # Nobody => /\ pc'[lock[v]] = pc[lock[v]] /\ crew'[lock[v]] = crew[lock[v]]
                                /\ calls'[lock[v]] = calls[lock[v]]
        BY <1>1
      <3> QED BY <3>1, <3>2, <3>3, <3>4, LockKept
    <2>2. CASE v = wk /\ again
      <3>1. lock'[wk] = t
        <4> HIDE DEF again
        <4> QED BY <1>0, <1>1, <1>2, <2>2 DEF PoolTypes
      <3>2. wk \notin dead => inbox'[wk] = <<Request(t, Min(left))>>
        <4>1. inbox'[wk] = Append(inbox[wk], Request(t, Min(left)))
          <5> HIDE DEF left
          <5> QED BY <1>0, <1>1, <1>2, <2>2 DEF PoolTypes
        <4>2. \A x : Append(<<>>, x) = <<x>>
          OBVIOUS
        <4> HIDE DEF left
        <4> QED BY <1>6, <4>1, <4>2
      <3>3. Open(t, wk)'
        <4>1. \A i \in Assigned(wk) : got'[t][i].nth # 0 => got'[t][i].ok
          BY <1>8, <2>2 DEF Unanswered
        <4> QED BY <1>1, <2>2, <4>1 DEF Open, SliceFailed
      <3>4. \A m : Request(t, m)' = Request(t, m)
        BY <1>1 DEF Request
      <3>5. pc'[t] = "mapping" /\ wk \in Workers(crew'[t])
        BY <1>1
      <3> QED BY <1>1, <1>2, <1>6, <2>2, <3>1, <3>2, <3>3, <3>4, <3>5 DEF LockSound
    <2>3. CASE v = wk /\ ~again
      <3>1. lock'[wk] = Nobody /\ inbox'[wk] = inbox[wk]
        <4> HIDE DEF again
        <4> QED BY <1>0, <1>1, <1>2, <2>3 DEF PoolTypes
      <3> QED BY <1>1, <1>6, <2>3, <3>1 DEF LockSound
    <2> QED BY <2>1, <2>2, <2>3
  <1> QED BY <1>10, <1>11, <1>12, <1>13 DEF PoolInv

\* A caller that is done, or goes home, holds no mutex: no worker of its crew is open.
LEMMA LeaveInv ==
    ASSUME PoolInv, NEW t \in Callers, Gather(t) \/ Return(t)
    PROVE  PoolInv'
  <1>0. PoolTypes /\ CrewsBounded /\ GotSound(t)
    BY DEF PoolInv
  <1>1. /\ UNCHANGED <<backend, registry, crewOf, crews, dead, inbox, outbox, applied, lock,
                       pool, crew, got, calls, deaths, shutdowns>>
        /\ \E place \in {"answered", "raised", "idle"} :
              /\ pc' = [pc EXCEPT ![t] = place]
              /\ place = "answered" => Answered(t) /\ pc[t] = "mapping"
              /\ pc[t] # "idle"
        /\ pc[t] = "mapping" => \A wk \in Workers(crew[t]) : ~Open(t, wk)
    <2>1. CASE Gather(t)
      BY <1>0, <2>1 DEF Gather, Goto, workerVars, boundVars, Ray, PoolTypes
    <2>2. CASE Return(t)
      BY <2>2 DEF Return, Goto, workerVars, boundVars
    <2> QED BY <2>1, <2>2
  <1>2. PICK goal \in {"answered", "raised", "idle"} :
              /\ pc' = [pc EXCEPT ![t] = goal]
              /\ goal = "answered" => Answered(t) /\ pc[t] = "mapping"
              /\ pc[t] # "idle"
    BY <1>1
  <1>3. PoolTypes'
    <2>1. pc' \in [Callers -> {"idle", "mapping", "answered", "raised"}]
      BY <1>0, <1>2 DEF PoolTypes
    <2>2. \A u \in Callers : pc'[u] # "idle" => crew'[u] \in 1..crews'
      BY <1>0, <1>1, <1>2 DEF PoolTypes
    <2> QED BY <1>0, <1>1, <2>1, <2>2 DEF PoolTypes
  <1>4. CrewsBounded'
    BY <1>0, <1>1 DEF CrewsBounded
  <1>5. ASSUME NEW u \in Callers PROVE GotSound(u)'
    <2>1. CASE u # t
      <3>1. applied' \in [AllWorkers -> Nat] /\ \A v \in AllWorkers : applied'[v] >= applied[v]
        BY <1>0, <1>1 DEF PoolTypes
      <3>2. pc'[u] = pc[u]
        BY <1>0, <1>2, <2>1 DEF PoolTypes
      <3> QED BY <1>1, <3>1, <3>2, GotKept
    <2>2. CASE u = t
      <3>1. pc'[t] = goal
        BY <1>0, <1>2 DEF PoolTypes
      <3>2. CASE goal = "answered"
        BY <1>0, <1>1, <1>2, <2>2, <3>1, <3>2 DEF GotSound, Answered, Request
      <3>3. CASE goal # "answered"
        BY <1>2, <2>2, <3>1, <3>3 DEF GotSound
      <3> QED BY <3>2, <3>3
    <2> QED BY <2>1, <2>2
  <1>6. ASSUME NEW wk \in AllWorkers PROVE LockSound(wk)'
    <2>1. lock[wk] # Nobody => lock[wk] \in Callers /\ lock[wk] # t
      BY <1>0, <1>1 DEF PoolInv, LockSound, PoolTypes
    <2>2. lock[wk] # Nobody => pc'[lock[wk]] = pc[lock[wk]]
      BY <1>0, <1>2, <2>1 DEF PoolTypes
    <2> QED BY <1>1, <2>2, LockKept
  <1> QED BY <1>3, <1>4, <1>5, <1>6 DEF PoolInv

\* A worker that dies, and a registry that is emptied, take nothing from a caller.
LEMMA DieInv ==
    ASSUME PoolInv, NEW wk \in AllWorkers, Die(wk)
    PROVE  PoolInv'
  <1>0. PoolTypes /\ CrewsBounded
    BY DEF PoolInv
  <1>1. /\ dead' = dead \cup {wk} /\ inbox' = [inbox EXCEPT ![wk] = <<>>]
        /\ UNCHANGED <<backend, registry, crewOf, crews, outbox, applied, lock, pc, pool, crew,
                       got, calls, shutdowns>>
    BY DEF Die
  <1>2. PoolTypes'
    <2>1. inbox' \in [AllWorkers -> Seq(Callers \X Batch \X Nat)]
      BY <1>0, <1>1 DEF PoolTypes
    <2> QED BY <1>0, <1>1, <2>1 DEF PoolTypes
  <1>3. CrewsBounded'
    BY <1>0, <1>1 DEF CrewsBounded
  <1>4. ASSUME NEW u \in Callers PROVE GotSound(u)'
    <2>1. applied' \in [AllWorkers -> Nat] /\ \A v \in AllWorkers : applied'[v] >= applied[v]
      BY <1>0, <1>1 DEF PoolTypes
    <2> QED BY <1>1, <2>1, GotKept
  <1>5. ASSUME NEW v \in AllWorkers PROVE LockSound(v)'
    <2>1. CASE v # wk
      <3>1. inbox'[v] = inbox[v]
        BY <1>0, <1>1, <2>1 DEF PoolTypes
      <3> QED BY <1>1, <3>1, LockKept
    <2>2. CASE v = wk
      <3>1. wk \in dead' /\ LockSound(wk)
        BY <1>1 DEF PoolInv
      <3>2. \A u, m : Request(u, m)' = Request(u, m) /\ Unanswered(u, wk)' = Unanswered(u, wk)
                      /\ (Open(u, wk)' <=> Open(u, wk))
        BY <1>1 DEF Request, Unanswered, Open, SliceFailed
      <3> QED BY <1>1, <2>2, <3>1, <3>2 DEF LockSound
    <2> QED BY <2>1, <2>2
  <1> QED BY <1>2, <1>3, <1>4, <1>5 DEF PoolInv

\* shutdown_all_pools forgets the pool; its callers keep it.
LEMMA ShutdownInv ==
    ASSUME PoolInv, ShutdownPools
    PROVE  PoolInv'
  <1>0. PoolTypes /\ CrewsBounded
    BY DEF PoolInv
  <1>1. /\ shutdowns < MaxShutdowns /\ registry # 0 /\ shutdowns' = shutdowns + 1 /\ registry' = 0
        /\ UNCHANGED <<backend, crewOf, crews, dead, inbox, outbox, applied, lock, pc, pool, crew,
                       got, calls, deaths>>
    BY <1>0 DEF ShutdownPools, Ray, PoolTypes
  <1>2. PoolTypes'
    <2>1. shutdowns' \in 0..MaxShutdowns /\ registry' \in 0..Len(crewOf')
      BY <1>0, <1>1, UdfAssumption DEF PoolTypes
    <2> QED BY <1>0, <1>1, <2>1 DEF PoolTypes
  <1>3. CrewsBounded'
    BY <1>0, <1>1, UdfAssumption DEF CrewsBounded, PoolTypes
  <1>4. ASSUME NEW u \in Callers PROVE GotSound(u)'
    <2>1. applied' \in [AllWorkers -> Nat] /\ \A v \in AllWorkers : applied'[v] >= applied[v]
      BY <1>0, <1>1 DEF PoolTypes
    <2> QED BY <1>1, <2>1, GotKept
  <1>5. ASSUME NEW v \in AllWorkers PROVE LockSound(v)'
    BY <1>1, LockKept
  <1> QED BY <1>2, <1>3, <1>4, <1>5 DEF PoolInv

-----------------------------------------------------------------------------
\* Every step of callers, workers and the environment keeps the invariant.
LEMMA NextPoolInv == PoolInv /\ [UdfNext]_udfVars => PoolInv'
  <1> SUFFICES ASSUME PoolInv, [UdfNext]_udfVars PROVE PoolInv'
    OBVIOUS
  <1>1. PoolTypes
    BY DEF PoolInv
  <1>2. ASSUME NEW t \in Callers, GetOrCreatePool(t) PROVE PoolInv'
    BY <1>2, GetOrCreateInv
  <1>3. ASSUME NEW t \in Callers, LookUp(t) \/ BuildExecutor(t) \/ MakePool(t) \/ Submit(t) PROVE FALSE
    BY <1>1, <1>3 DEF LookUp, BuildExecutor, MakePool, Submit, Ray, PoolTypes
  <1>4. ASSUME NEW t \in Callers, NEW wk \in Workers(crew[t]), Acquire(t, wk) \/ Receive(t, wk) \/ Lost(t, wk)
        PROVE  PoolInv'
    BY <1>1, <1>4, AcquireInv, ReceiveInv DEF Lost, Ray, PoolTypes
  <1>5. ASSUME NEW t \in Callers, Gather(t) \/ Return(t) PROVE PoolInv'
    BY <1>5, LeaveInv
  <1>6. ASSUME NEW wk \in AllWorkers, Work(wk) \/ Die(wk) PROVE PoolInv'
    BY <1>6, WorkInv, DieInv
  <1>7. CASE ShutdownPools
    BY <1>7, ShutdownInv
  <1>8. CASE UNCHANGED udfVars
    <2> USE <1>8 DEF udfVars
    <2>1. PoolTypes' /\ CrewsBounded'
      BY DEF PoolInv, PoolTypes, CrewsBounded
    <2>2. \A u \in Callers : GotSound(u)'
      BY DEF PoolInv, GotSound, Answered, Request
    <2>3. ASSUME NEW v \in AllWorkers PROVE LockSound(v)'
      BY LockKept
    <2> QED BY <2>1, <2>2, <2>3 DEF PoolInv
  <1> QED BY <1>2, <1>3, <1>4, <1>5, <1>6, <1>7, <1>8 DEF UdfNext

\* The types, the generations, the answers and the pipes of subprocess pools are
\* sound in every reachable state.
THEOREM PoolInvariant == SubprocessSpec => []PoolInv
  <1> QED BY InitPoolInv, NextPoolInv, PTL DEF SubprocessSpec

\* What a caller of a shared pool is given has one answer per batch, of that batch
\* and that call, and every worker's answers in the order of its batches.
THEOREM SubprocessAnswersInOrder == SubprocessSpec => []MapAnswersInOrder
  <1>1. PoolInv => MapAnswersInOrder
    <2> SUFFICES ASSUME PoolInv, NEW t \in Callers, pc[t] = "answered"
                 PROVE  /\ \A i \in Batch : got[t][i].of = Request(t, i)
                        /\ \A i, k \in Batch : i < k /\ WorkerOf(0, i) = WorkerOf(0, k)
                                               => got[t][i].nth < got[t][k].nth
      BY DEF MapAnswersInOrder
    <2>1. GotSound(t) /\ Answered(t)
      BY DEF PoolInv, GotSound
    <2>2. \A i \in Batch : got[t][i].ok /\ got[t][i] # NoReply
      BY <2>1 DEF Answered, NoReply
    <2> QED BY <2>1, <2>2 DEF GotSound
  <1> QED BY <1>1, PoolInvariant, PTL

-----------------------------------------------------------------------------
(* Incremental deduplication. *)
(* A run's record keeps its fields.                                        *)
LEMMA RunTyped ==
    ASSUME IndexTypeOK, NEW p \in Processes
    PROVE  /\ run[p] \in Runs
           /\ run[p] = [at |-> run[p].at, id |-> run[p].id, after |-> run[p].after, dump |-> run[p].dump,
                         seen |-> run[p].seen, keep |-> run[p].keep]
BY DEF IndexTypeOK, Runs

(* The rows that are kept are rows of the dump, with a content.            *)
LEMMA KeptTyped ==
    ASSUME NEW seen, NEW dump \in Seq(Hashes \cup {NULL})
    PROVE  Kept(seen, dump) \subseteq Nat /\ \A i \in Kept(seen, dump) : dump[i] \in Hashes
<1>1. DOMAIN dump \subseteq Nat /\ \A i \in DOMAIN dump : dump[i] \in Hashes \cup {NULL}
  OBVIOUS
<1> QED
  BY <1>1 DEF Kept

(* Every variable keeps its type; kept rows always have a content.         *)
TypeInv ==
    /\ IndexTypeOK
    /\ \A p \in Processes : \A i \in run[p].keep : run[p].dump[i] \in Hashes
LEMMA TypeInit == IndexInit => TypeInv
BY DEF IndexInit, TypeInv, IndexTypeOK, Runs, Idle
LEMMA BeginTyped ==
    ASSUME TypeInv, NEW p \in Processes, NEW seen \in SUBSET Hashes, Begin(p, seen), failures' \in Nat
    PROVE  TypeInv'
<1> USE DEF TypeInv
<1>1. PICK d \in Dumps : run' = [run EXCEPT ![p] = [at |-> "loaded", id |-> runsBegun', after |-> failures',
                                                    dump |-> d, seen |-> seen, keep |-> {}]]
  BY DEF Begin
<1>2. d \in Seq(Hashes \cup {NULL}) /\ runsBegun' \in Nat
  BY IndexAssumption DEF Begin, IndexTypeOK
<1>3. [at |-> "loaded", id |-> runsBegun', after |-> failures', dump |-> d, seen |-> seen, keep |-> {}] \in Runs
  BY <1>2 DEF Runs
<1> QED
  BY <1>1, <1>2, <1>3 DEF Begin, IndexTypeOK

LEMMA TypeStep == TypeInv /\ [IndexNext]_indexVars => TypeInv'
<1> SUFFICES ASSUME TypeInv, [IndexNext]_indexVars PROVE TypeInv'
  OBVIOUS
<1> USE DEF TypeInv
<1>1. ASSUME NEW p \in Processes, Load(p) \/ LoadFails(p) PROVE TypeInv'
  <2>1. PICK seen \in SUBSET Hashes : Begin(p, seen) /\ failures' \in Nat
    BY <1>1 DEF Load, LoadFails, IndexTypeOK
  <2> QED
    BY <2>1, BeginTyped
<1>2. ASSUME NEW p \in Processes, Add(p) PROVE TypeInv'
  <2> DEFINE keep == Kept(run[p].seen, run[p].dump)
  <2>1. run[p] \in Runs
    BY RunTyped
  <2>2. run[p].dump \in Seq(Hashes \cup {NULL})
    BY <2>1 DEF Runs
  <2>3. keep \subseteq Nat /\ \A i \in keep : run[p].dump[i] \in Hashes
    BY <2>2, KeptTyped
  <2> DEFINE seen == run[p].seen \cup {run[p].dump[i] : i \in keep}
             added == [run[p] EXCEPT !.at = "added", !.seen = seen, !.keep = keep]
  <2>4. run' = [run EXCEPT ![p] = added]
    BY <1>2 DEF Add
  <2>8. seen \in SUBSET Hashes
    BY <2>1, <2>3 DEF Runs
  <2>9. added \in Runs
    <3> HIDE DEF keep, seen
    <3> QED
      BY <2>1, <2>2, <2>3, <2>8 DEF Runs
  <2> HIDE DEF keep, seen
  <2>5. run' \in [Processes -> Runs] /\ \A q \in Processes : q # p => run'[q] = run[q]
    BY <2>4, <2>9 DEF IndexTypeOK
  <2>6. run'[p].keep = keep /\ run'[p].dump = run[p].dump
    BY <2>4 DEF IndexTypeOK
  <2>7. \A q \in Processes : \A i \in run'[q].keep : run'[q].dump[i] \in Hashes
    BY <2>3, <2>5, <2>6
  <2> QED
    BY <1>2, <2>5, <2>7 DEF Add, IndexTypeOK
<1>3. ASSUME NEW p \in Processes, Save(p) PROVE TypeInv'
  <2>1. run' \in [Processes -> Runs]
    BY <1>3 DEF Save, IndexTypeOK, Runs
  <2>2. \A q \in Processes : run'[q].keep = run[q].keep /\ run'[q].dump = run[q].dump
    BY <1>3, RunTyped DEF Save, IndexTypeOK, Runs
  <2>3. run[p].seen \in SUBSET Hashes
    BY RunTyped DEF Runs
  <2> QED
    BY <1>3, <2>1, <2>2, <2>3 DEF Save, IndexTypeOK
<1>4. ASSUME NEW p \in Processes, Deliver(p) PROVE TypeInv'
  <2>1. Idle \in Runs
    BY DEF Idle, Runs
  <2>2. run[p].id \in Nat /\ run[p].after \in Nat /\ run[p].keep \subseteq Nat
    BY RunTyped DEF Runs
  <2>3. \A i \in run[p].keep : Document(run[p], i) \in [run : Nat, after : Nat, row : Nat, hash : Hashes]
    BY <2>2 DEF Document
  <2> QED
    BY <1>4, <2>1, <2>3 DEF Deliver, IndexTypeOK, Idle
<1>5. ASSUME NEW p \in Processes, Crash(p) PROVE TypeInv'
  BY <1>5 DEF Crash, IndexTypeOK, Idle, Runs
<1>6. CASE UNCHANGED indexVars
  BY <1>6 DEF indexVars, IndexTypeOK
<1> QED
  BY <1>1, <1>2, <1>3, <1>4, <1>5, <1>6 DEF IndexNext

(* Nothing was handed out in the beginning.                                *)
LEMMA InitHolds == ASSUME IndexInit PROVE IndexInv
BY DEF IndexInit, IndexInv, KeptOnce, Alone, Fresh, Idle, Known

(* A run begins alone, with what it knows of the index on disk.            *)
LEMMA BeginSays ==
    ASSUME ~Overlap, IndexTypeOK, NEW p \in Processes, NEW seen, Begin(p, seen)
    PROVE  /\ \A q \in Processes : q # p => run'[q] = run[q] /\ run[q].at = "idle"
           /\ run'[p].at = "loaded" /\ run'[p].after = failures'
           /\ run'[p].seen = seen /\ run'[p].keep = {}
           /\ saved' = saved /\ handed' = handed
<1>1. PICK d \in Dumps : run' = [run EXCEPT ![p] = [at |-> "loaded", id |-> runsBegun', after |-> failures',
                                                    dump |-> d, seen |-> seen, keep |-> {}]]
  BY DEF Begin
<1>2. \A q \in Processes : q # p => run'[q] = run[q] /\ run[q].at = "idle"
  BY <1>1 DEF Begin, IndexTypeOK
<1>3. run'[p].at = "loaded" /\ run'[p].after = failures' /\ run'[p].seen = seen /\ run'[p].keep = {}
  BY <1>1 DEF IndexTypeOK
<1> QED
  BY <1>2, <1>3 DEF Begin

(* Whoever reads the index knows what it holds.                            *)
LEMMA LoadKeeps ==
    ASSUME ~Overlap, IndexTypeOK, IndexInv, NEW p \in Processes, Load(p) PROVE IndexInv'
<1>1. /\ \A q \in Processes : q # p => run'[q] = run[q] /\ run[q].at = "idle"
      /\ run'[p].at = "loaded" /\ run'[p].after = failures' /\ run'[p].seen = saved /\ run'[p].keep = {}
      /\ saved' = saved /\ handed' = handed /\ failures' = failures
  BY BeginSays DEF Load
<1>2. KeptOnce'
  BY <1>1 DEF KeptOnce, IndexInv, Known
<1>3. Alone'
  BY <1>1 DEF Alone
<1>4. \A q \in Processes : Fresh(q)'
  BY <1>1 DEF Fresh, IndexInv
<1> QED
  BY <1>1, <1>2, <1>3, <1>4 DEF IndexInv

(* A load that fails begins anew: nothing was handed out since.            *)
LEMMA LoadFailsKeeps ==
    ASSUME ~Overlap, IndexTypeOK, IndexInv, NEW p \in Processes, LoadFails(p) PROVE IndexInv'
<1>1. /\ \A q \in Processes : q # p => run'[q] = run[q] /\ run[q].at = "idle"
      /\ run'[p].at = "loaded" /\ run'[p].after = failures' /\ run'[p].keep = {}
      /\ saved' = saved /\ handed' = handed /\ failures' = failures + 1
  BY BeginSays DEF LoadFails
<1>2. failures \in Nat /\ \A d \in handed : d.after \in Nat
  BY DEF IndexTypeOK
<1>3. \A d \in handed : d.after <= failures
  BY DEF IndexInv
<1>4. \A d \in handed : d.after <= failures' /\ d.after # failures'
  BY <1>1, <1>2, <1>3
<1>5. KeptOnce'
  BY <1>1, <1>4 DEF KeptOnce, IndexInv
<1>6. Alone'
  BY <1>1 DEF Alone
<1>7. \A q \in Processes : Fresh(q)'
  BY <1>1, <1>4 DEF Fresh, IndexInv
<1>8. \A q \in Processes : /\ run'[q].at # "idle" => run'[q].after = failures'
                           /\ run'[q].at = "saved" => saved' = run'[q].seen
                           /\ run'[q].at \in {"idle", "loaded"} => run'[q].keep = {}
  BY <1>1 DEF IndexInv
<1> QED
  BY <1>1, <1>4, <1>5, <1>6, <1>7, <1>8 DEF IndexInv

(* A run that has read the index keeps documents that nobody was given.    *)
LEMMA AddKeeps ==
    ASSUME IndexTypeOK, IndexInv, NEW p \in Processes, Add(p) PROVE IndexInv'
<1> DEFINE keep == Kept(run[p].seen, run[p].dump)
<1>1. run' = [run EXCEPT ![p] = [run[p] EXCEPT !.at = "added", !.keep = keep,
                                 !.seen = run[p].seen \cup {run[p].dump[i] : i \in keep}]]
  BY DEF Add
<1>2. \A q \in Processes : q # p => run'[q] = run[q]
  BY <1>1 DEF IndexTypeOK
<1>3. run[p].at = "loaded" /\ saved' = saved /\ handed' = handed /\ failures' = failures
  BY DEF Add
<1>4. \A q \in Processes : q # p => run[q].at = "idle"
  BY <1>3 DEF IndexInv, Alone
<1>5. /\ run'[p].at = "added" /\ run'[p].keep = keep /\ run'[p].dump = run[p].dump
      /\ run'[p].after = run[p].after
      /\ run'[p].seen = run[p].seen \cup {run[p].dump[i] : i \in keep}
  BY <1>1, RunTyped DEF IndexTypeOK
<1>6. KeptOnce'
  BY <1>2, <1>3, <1>5 DEF KeptOnce, IndexInv, Known
<1>7. Fresh(p)'
  <2>1. \A d \in handed : d.after = failures => d.hash \in run[p].seen
    BY <1>3 DEF IndexInv, KeptOnce, Known
  <2>2. \A i \in keep : /\ run[p].dump[i] \notin run[p].seen /\ run[p].dump[i] # NULL
                        /\ i \in DOMAIN run[p].dump
                        /\ \A j \in DOMAIN run[p].dump : run[p].dump[j] = run[p].dump[i] => i <= j
    BY DEF Kept
  <2>3. \A i, j \in keep : run[p].dump[i] = run[p].dump[j] => i <= j /\ j <= i
    BY <2>2
  <2>4. \A i \in keep : i \in Int
    <3>1. run[p].dump \in Seq(Hashes \cup {NULL})
      BY RunTyped DEF Runs
    <3> QED
      BY <3>1, KeptTyped
  <2> QED
    BY <1>3, <1>5, <2>1, <2>2, <2>3, <2>4 DEF Fresh
<1>8. \A q \in Processes : q # p => Fresh(q)'
  BY <1>2, <1>3 DEF Fresh, IndexInv
<1>9. Alone'
  BY <1>2, <1>4 DEF Alone
<1> QED
  BY <1>2, <1>3, <1>5, <1>6, <1>7, <1>8, <1>9 DEF IndexInv

(* The index that is written has what was read and what was kept.          *)
LEMMA SaveKeeps ==
    ASSUME IndexTypeOK, IndexInv, NEW p \in Processes, Save(p) PROVE IndexInv'
<1>1. run' = [run EXCEPT ![p].at = "saved"] /\ saved' = run[p].seen /\ run[p].at = "added"
      /\ handed' = handed /\ failures' = failures
  BY DEF Save
<1>2. \A q \in Processes : q # p => run'[q] = run[q] /\ run[q].at = "idle"
  BY <1>1 DEF IndexTypeOK, IndexInv, Alone
<1>3. /\ run'[p].at = "saved" /\ run'[p].keep = run[p].keep /\ run'[p].after = run[p].after
      /\ run'[p].dump = run[p].dump /\ run'[p].seen = run[p].seen
  BY <1>1, RunTyped DEF IndexTypeOK
<1>4. KeptOnce'
  BY <1>1, <1>2, <1>3 DEF KeptOnce, IndexInv, Known
<1>5. Alone' /\ \A q \in Processes : Fresh(q)'
  BY <1>1, <1>2, <1>3 DEF IndexInv, Alone, Fresh
<1> QED
  BY <1>1, <1>2, <1>3, <1>4, <1>5 DEF IndexInv

(* What is handed out was fresh and is on disk.                            *)
LEMMA DeliverKeeps ==
    ASSUME IndexTypeOK, IndexInv, NEW p \in Processes, Deliver(p) PROVE IndexInv'
<1> DEFINE new == {Document(run[p], i) : i \in run[p].keep}
<1>1. /\ run' = [run EXCEPT ![p] = Idle] /\ handed' = handed \cup new /\ run[p].at = "saved"
      /\ saved' = saved /\ failures' = failures
  BY DEF Deliver
<1>2. \A q \in Processes : run'[q].at = "idle" /\ run'[q].keep = {}
  <2>1. \A q \in Processes : q # p => run'[q] = run[q] /\ run[q].at = "idle"
    BY <1>1 DEF IndexTypeOK, IndexInv, Alone
  <2>2. run'[p] = Idle
    BY <1>1 DEF IndexTypeOK
  <2> QED
    BY <2>1, <2>2 DEF Idle, IndexInv
<1>3. saved = run[p].seen /\ Fresh(p) /\ run[p].after = failures
  BY <1>1 DEF IndexInv
<1>4. \A d \in new : /\ \E i \in run[p].keep : d = Document(run[p], i) /\ d.hash = run[p].dump[i]
                     /\ d.after = failures
  BY <1>3 DEF Document
<1>5. \A d \in new, e \in handed : e.after = failures => d.hash # e.hash
  BY <1>3, <1>4 DEF Fresh
<1>6. \A d, e \in handed' : d.hash = e.hash /\ d.after = e.after => d = e
  <2>1. \A d, e \in new : d.hash = e.hash => d = e
    BY <1>3, <1>4 DEF Fresh
  <2>2. \A d, e \in handed : d.hash = e.hash /\ d.after = e.after => d = e
    BY DEF IndexInv, KeptOnce
  <2> HIDE DEF new
  <2> QED
    BY <1>1, <1>4, <1>5, <2>1, <2>2
<1>7. \A d \in handed' : d.after = failures' => d.hash \in saved' \ {NULL}
  <2>1. \A d \in new : d.hash \in saved \ {NULL}
    BY <1>3, <1>4 DEF Fresh
  <2>2. \A d \in handed : d.after = failures => d.hash \in saved \ {NULL}
    BY DEF IndexInv, KeptOnce
  <2> HIDE DEF new
  <2> QED
    BY <1>1, <2>1, <2>2
<1>8. \A d \in handed' : d.after <= failures'
  <2>1. \A d \in handed : d.after <= failures
    BY DEF IndexInv
  <2>2. failures <= failures
    BY DEF IndexTypeOK
  <2> HIDE DEF new
  <2> QED
    BY <1>1, <1>4, <2>1, <2>2
<1>9. KeptOnce'
  BY <1>2, <1>6, <1>7 DEF KeptOnce
<1>10. Alone' /\ \A q \in Processes : Fresh(q)'
  BY <1>2 DEF Alone, Fresh
<1> QED
  BY <1>1, <1>2, <1>8, <1>9, <1>10 DEF IndexInv

(* A crash loses what was in memory.                                       *)
LEMMA CrashKeeps ==
    ASSUME IndexTypeOK, IndexInv, NEW p \in Processes, Crash(p) PROVE IndexInv'
<1>1. run' = [run EXCEPT ![p] = Idle] /\ handed' = handed /\ saved' = saved /\ failures' = failures
  BY DEF Crash
<1>2. \A q \in Processes : q # p => run'[q] = run[q]
  BY <1>1 DEF IndexTypeOK
<1>3. run'[p].at = "idle" /\ run'[p].keep = {}
  BY <1>1 DEF IndexTypeOK, Idle
<1>4. KeptOnce'
  BY <1>1, <1>2, <1>3 DEF KeptOnce, IndexInv, Known
<1>5. Alone' /\ \A q \in Processes : Fresh(q)'
  BY <1>1, <1>2, <1>3 DEF IndexInv, Alone, Fresh
<1> QED
  BY <1>1, <1>2, <1>3, <1>4, <1>5 DEF IndexInv

(* The inductive invariant of runs that do not overlap.                    *)
THEOREM IndexInductive == ASSUME ~Overlap PROVE IndexSpec => [](TypeInv /\ IndexInv)
<1>1. IndexInit => TypeInv /\ IndexInv
  BY InitHolds, TypeInit
<1>2. TypeInv /\ IndexInv /\ [IndexNext]_indexVars => TypeInv' /\ IndexInv'
  <2> SUFFICES ASSUME TypeInv, IndexInv, [IndexNext]_indexVars PROVE IndexInv'
    BY TypeStep
  <2>1. CASE IndexNext
    <3>1. PICK p \in Processes : Load(p) \/ LoadFails(p) \/ Add(p) \/ Save(p) \/ Deliver(p) \/ Crash(p)
      BY <2>1 DEF IndexNext
    <3> QED
      BY <3>1, LoadKeeps, LoadFailsKeeps, AddKeeps, SaveKeeps, DeliverKeeps, CrashKeeps DEF TypeInv
  <2>2. CASE UNCHANGED indexVars
    BY <2>2 DEF indexVars, IndexInv, KeptOnce, Alone, Fresh, Known
  <2> QED
    BY <2>1, <2>2
<1> QED
  BY <1>1, <1>2, PTL DEF IndexSpec

(* No content is handed out twice, in any number of runs and crashes, but  *)
(* across a load that could not read the index that was there: what is     *)
(* true of the promise of incremental deduplication when runs do not       *)
(* overlap.                                                                *)
THEOREM HandedOnce == ASSUME ~Overlap PROVE IndexSpec => []KeptOnce
<1>1. IndexInv => KeptOnce
  BY DEF IndexInv
<1> QED
  BY <1>1, IndexInductive, PTL

-----------------------------------------------------------------------------
(* A Lance dataset and its caches. *)
\* The driver's handle is the last version or none: every commit it makes, the
\* distributed index build's included, forgets the handle.
HandleCurrent == handle[Driver] \in {Nothing, Latest}

\* A matrix stamped with the current count has the rows of the last version. An
\* index build may commit without counting, for it leaves the rows alone.
MatrixCurrent ==
    \A c \in Columns :
        Usable(matrix[c]) => RowsOf(matrix[c].version) = RowsOf(Latest)

\* An answer was read from versions that exist.
AnswerReal ==
    answer.via # "none" => answer.seen \in 1..Latest /\ answer.scored \in 1..Latest

AnswersCorrect == DriverSeesWrites /\ RerankAgrees /\ ShardSeesWrites

IInv == TypeOK /\ HandleCurrent /\ MatrixCurrent /\ AnswerReal /\ AnswersCorrect

\* A commit adds one version and leaves the others as they are.
LEMMA CommitFacts ==
    ASSUME TypeOK, NEW R \in SUBSET Rows, Commit(R)
    PROVE  /\ history' \in Seq(SUBSET Rows) /\ history' # <<>>
           /\ Latest \in Nat /\ Latest >= 1
           /\ Latest' = Latest + 1
           /\ \A v \in 1..Latest : RowsOf(v)' = RowsOf(v)
           /\ RowsOf(Latest)' = R
  <1>1. history \in Seq(SUBSET Rows) /\ history # <<>> /\ history' = Append(history, R)
    BY DEF TypeOK, Commit
  <1>2. Len(history) \in Nat /\ Len(history) >= 1
    BY <1>1
  <1>3. history' \in Seq(SUBSET Rows) /\ Len(history') = Len(history) + 1
    BY <1>1
  <1>4. \A v \in 1..Len(history) : history'[v] = history[v]
    BY <1>1
  <1>5. history'[Len(history) + 1] = R
    BY <1>1
  <1>6. history' # <<>>
    BY <1>2, <1>3
  <1> QED BY <1>2, <1>3, <1>4, <1>5, <1>6 DEF Latest, RowsOf

\* The last version's rows are rows.
LEMMA LatestRows ==
    ASSUME TypeOK
    PROVE  Latest \in Nat /\ Latest >= 1 /\ RowsOf(Latest) \in SUBSET Rows
           /\ \A v \in 1..Latest : RowsOf(v) \in SUBSET Rows
  BY DEF TypeOK, Latest, RowsOf

\* Forgetting the driver's handle makes it current.
LEMMA Forgotten ==
    ASSUME TypeOK, DropHandle
    PROVE  /\ handle'[Driver] = Nothing
           /\ \A n \in Nat : Latest <= n => handle' \in [Clients -> 0..n]
  BY DEF TypeOK, DropHandle, Clients, Nothing, Latest

\* What a commit that forgets the handle preserves, whether it is counted or
\* not, as long as an uncounted one leaves the rows alone.
LEMMA CommitPreserves ==
    ASSUME IInv, NEW R \in SUBSET Rows, Commit(R), DropHandle,
           \/ epoch' = epoch + 1
           \/ epoch' = epoch /\ R = RowsOf(Latest),
           UNCHANGED <<matrix, shard, answer>>, segments' \in BOOLEAN
    PROVE  IInv'
  <1>0. TypeOK /\ HandleCurrent /\ MatrixCurrent /\ AnswerReal /\ AnswersCorrect
    BY DEF IInv
  <1>1. /\ history' \in Seq(SUBSET Rows) /\ history' # <<>>
        /\ Latest \in Nat /\ Latest >= 1
        /\ Latest' = Latest + 1
        /\ \A v \in 1..Latest : RowsOf(v)' = RowsOf(v)
        /\ RowsOf(Latest)' = R
    BY <1>0, CommitFacts
  <1>2. /\ handle'[Driver] = Nothing
        /\ handle' \in [Clients -> 0..Latest']
    BY <1>0, <1>1, Forgotten
  <1>3. epoch \in Nat /\ epoch' \in Nat /\ epoch' >= epoch
    BY <1>0 DEF TypeOK
  <1>4. TypeOK'
    <2>1. matrix' \in [Columns -> [version : 0..Latest', epoch : 0..epoch']]
      <3>1. \A c \in Columns : matrix[c] \in [version : 0..Latest', epoch : 0..epoch']
        BY <1>0, <1>1, <1>3 DEF TypeOK
      <3> QED BY <1>0, <3>1 DEF TypeOK
    <2>2. shard' \in [Actors -> SUBSET [version : 1..Latest', column : Columns]]
      <3>1. \A a \in Actors : shard[a] \in SUBSET [version : 1..Latest', column : Columns]
        <4> TAKE a \in Actors
        <4>1. \A m \in shard[a] : m \in [version : 1..Latest, column : Columns]
          BY <1>0 DEF TypeOK
        <4>2. \A m \in shard[a] : m \in [version : 1..Latest', column : Columns]
          BY <1>1, <4>1
        <4> QED BY <4>2
      <3> QED BY <1>0, <3>1 DEF TypeOK
    <2>3. answer' \in [by : Clients, via : {"none", "fresh", "handle", "resident", "shard"},
                       seen : 0..Latest', scored : 0..Latest', sameColumn : BOOLEAN,
                       latest : 0..Latest']
      BY <1>0, <1>1 DEF TypeOK
    <2> QED BY <1>1, <1>2, <1>3, <2>1, <2>2, <2>3 DEF TypeOK
  <1>5. HandleCurrent'
    BY <1>2 DEF HandleCurrent
  <1>6. MatrixCurrent'
    <2> SUFFICES ASSUME NEW c \in Columns, Usable(matrix[c])'
                 PROVE  (RowsOf(matrix[c].version) = RowsOf(Latest))'
      BY DEF MatrixCurrent
    <2>1. matrix[c].epoch \in 0..epoch /\ matrix[c].version \in 0..Latest
      BY <1>0 DEF TypeOK
    <2>2. matrix[c].version # Nothing /\ matrix[c].epoch = epoch'
      BY DEF Usable
    <2>3. epoch' = epoch /\ R = RowsOf(Latest)
      BY <1>3, <2>1, <2>2
    <2>4. Usable(matrix[c])
      BY <2>2, <2>3 DEF Usable
    <2>5. RowsOf(matrix[c].version) = RowsOf(Latest)
      BY <1>0, <2>4 DEF MatrixCurrent
    <2>6. matrix[c].version \in 1..Latest
      BY <2>1, <2>2 DEF Nothing
    <2>7. RowsOf(matrix[c].version)' = RowsOf(matrix[c].version)
      BY <1>1, <2>6 DEF RowsOf
    <2> QED BY <1>1, <2>3, <2>5, <2>7
  <1>7. AnswerReal'
    BY <1>0, <1>1 DEF AnswerReal
  <1>8. AnswersCorrect'
    <2>1. DriverSeesWrites' /\ ShardSeesWrites'
      BY <1>0 DEF AnswersCorrect, DriverSeesWrites, ShardSeesWrites
    <2>2. RerankAgrees'
      <3> SUFFICES ASSUME answer.via = "resident"
                   PROVE  (RowsOf(answer.scored) = RowsOf(answer.seen))'
        BY DEF RerankAgrees
      <3>1. answer.scored \in 1..Latest /\ answer.seen \in 1..Latest
        BY <1>0 DEF AnswerReal
      <3>2. RowsOf(answer.scored) = RowsOf(answer.seen)
        BY <1>0 DEF AnswersCorrect, RerankAgrees
      <3>3. /\ RowsOf(answer.scored)' = RowsOf(answer.scored)
            /\ RowsOf(answer.seen)' = RowsOf(answer.seen)
        BY <1>1, <3>1 DEF RowsOf
      <3> QED BY <3>2, <3>3
    <2> QED BY <2>1, <2>2 DEF AnswersCorrect
  <1> QED BY <1>4, <1>5, <1>6, <1>7, <1>8 DEF IInv

\* A counted mutation is such a commit.
LEMMA MutatedPreserves ==
    ASSUME IInv, NEW R \in SUBSET Rows, Mutated(R), segments' \in BOOLEAN
    PROVE  IInv'
  BY CommitPreserves DEF Mutated, Invalidate, DropHandle

\* Nothing but the caches and the answer changes in a query, and nothing but
\* the caches when they are forgotten: what an answer must satisfy then.
LEMMA ReadPreserves ==
    ASSUME IInv, UNCHANGED <<history, segments>>,
           epoch' \in Nat, epoch' >= epoch,
           handle' \in [Clients -> 0..Latest], handle'[Driver] \in {Nothing, Latest},
           matrix' \in [Columns -> [version : 0..Latest, epoch : 0..epoch']],
           MatrixCurrent',
           shard' \in [Actors -> SUBSET [version : 1..Latest, column : Columns]],
           \/ UNCHANGED answer
           \/ /\ answer' \in [by : Clients, via : {"fresh", "handle", "resident", "shard"},
                              seen : 1..Latest, scored : 1..Latest,
                              sameColumn : BOOLEAN, latest : {Latest}]
              /\ answer'.by = Driver => answer'.seen = Latest
              /\ answer'.via = "resident" =>
                     RowsOf(answer'.scored) = RowsOf(answer'.seen)
              /\ answer'.via = "shard" => answer'.scored = Latest
    PROVE  IInv'
  <1>1. Latest' = Latest /\ \A v : RowsOf(v)' = RowsOf(v)
    BY DEF Latest, RowsOf
  <1>2. Latest \in Nat /\ Latest >= 1
    BY LatestRows DEF IInv
  <1>3. TypeOK'
    <2>1. history' \in Seq(SUBSET Rows) /\ history' # <<>> /\ segments' \in BOOLEAN
      BY DEF IInv, TypeOK
    <2>2. answer' \in [by : Clients, via : {"none", "fresh", "handle", "resident", "shard"},
                       seen : 0..Latest, scored : 0..Latest, sameColumn : BOOLEAN,
                       latest : 0..Latest]
      <3>1. CASE UNCHANGED answer
        BY <3>1 DEF IInv, TypeOK
      <3>2. CASE answer' \in [by : Clients, via : {"fresh", "handle", "resident", "shard"},
                              seen : 1..Latest, scored : 1..Latest,
                              sameColumn : BOOLEAN, latest : {Latest}]
        BY <1>2, <3>2
      <3> QED BY <3>1, <3>2
    <2> QED BY <1>1, <2>1, <2>2 DEF TypeOK
  <1>4. HandleCurrent'
    BY <1>1 DEF HandleCurrent
  <1>5. AnswerReal' /\ AnswersCorrect'
    <2>1. CASE UNCHANGED answer
      BY <1>1, <2>1 DEF IInv, AnswerReal, AnswersCorrect, DriverSeesWrites, RerankAgrees,
                        ShardSeesWrites, RowsOf
    <2>2. CASE answer' \in [by : Clients, via : {"fresh", "handle", "resident", "shard"},
                            seen : 1..Latest, scored : 1..Latest,
                            sameColumn : BOOLEAN, latest : {Latest}]
      <3>1. answer'.seen \in 1..Latest /\ answer'.scored \in 1..Latest
            /\ answer'.latest = Latest
        BY <2>2
      <3> QED BY <1>1, <3>1 DEF AnswerReal, AnswersCorrect, DriverSeesWrites, RerankAgrees,
                                ShardSeesWrites, RowsOf, IInv
    <2> QED BY <2>1, <2>2
  <1> QED BY <1>3, <1>4, <1>5 DEF IInv

\* The actions keep the invariant, as long as Lance builds segments uncommitted.
LEMMA NextPreserves ==
    ASSUME HasSegmentApi, IInv, [Next]_vars
    PROVE  IInv'
  <1>0. TypeOK /\ HandleCurrent /\ MatrixCurrent
    BY DEF IInv
  <1>1. /\ Latest \in Nat /\ Latest >= 1
        /\ \A v \in 1..Latest : RowsOf(v) \in SUBSET Rows
    BY <1>0, LatestRows
  <1>2. RowsOf(Latest) \in SUBSET Rows
    BY <1>1
  <1>3. epoch \in Nat /\ segments \in BOOLEAN /\ Driver \in Clients
    BY <1>0 DEF TypeOK, Clients
  <1>4. UNCHANGED history => Latest' = Latest /\ \A v : RowsOf(v)' = RowsOf(v)
    BY DEF Latest, RowsOf
  <1>5. \A p \in Clients : Opened(p) \in 1..Latest
    BY <1>0, <1>1 DEF Opened, Nothing, TypeOK
  <1>6. Opened(Driver) = Latest
    BY <1>0 DEF HandleCurrent, Opened
  <1>7. CASE AppendRows
    BY <1>2, <1>3, <1>7, MutatedPreserves DEF AppendRows
  <1>8. CASE Overwrite
    BY <1>3, <1>8, MutatedPreserves DEF Overwrite
  <1>9. CASE MergeInsert
    BY <1>2, <1>3, <1>9, MutatedPreserves DEF MergeInsert
  <1>10. CASE Delete
    BY <1>2, <1>3, <1>10, MutatedPreserves DEF Delete
  <1>11. CASE Rewrite
    BY <1>2, <1>3, <1>11, MutatedPreserves DEF Rewrite
  <1>12. CASE Restore
    BY <1>1, <1>3, <1>12, MutatedPreserves DEF Restore
  <1>13. CASE CommitIndexSegments
    BY <1>2, <1>13, MutatedPreserves DEF CommitIndexSegments
  <1>14. CASE DistributedCreateIndex
    <2>1. CASE Mutated(RowsOf(Latest))
      BY <1>2, <1>3, <1>14, <2>1, MutatedPreserves DEF DistributedCreateIndex
    <2>2. CASE /\ Commit(RowsOf(Latest))
               /\ DropHandle
               /\ UNCHANGED <<epoch, matrix, shard, answer>>
      BY <1>2, <1>3, <1>14, <2>2, CommitPreserves DEF DistributedCreateIndex
    <2> QED BY <1>14, <2>1, <2>2 DEF DistributedCreateIndex
  <1>15. CASE CreateIndexUncommitted
    <2>1. /\ UNCHANGED <<history, handle, epoch, matrix, shard, answer>>
          /\ segments' = TRUE
      BY <1>15 DEF CreateIndexUncommitted
    <2> QED BY <2>1 DEF IInv, TypeOK, HandleCurrent, MatrixCurrent, AnswerReal, AnswersCorrect,
                        DriverSeesWrites, RerankAgrees, ShardSeesWrites, Latest, RowsOf, Usable
  <1>16. CASE CreateBranch
    <2>1. /\ UNCHANGED <<history, segments, matrix, shard, answer>>
          /\ epoch' = epoch + 1
          /\ handle' = [handle EXCEPT ![Driver] = Nothing]
      BY <1>16 DEF CreateBranch, Invalidate
    <2>2. handle' \in [Clients -> 0..Latest] /\ handle'[Driver] = Nothing
      BY <1>0, <1>1, <1>3, <2>1 DEF TypeOK, Nothing
    <2>3. MatrixCurrent'
      <3>1. \A c \in Columns : matrix[c].epoch \in 0..epoch
        BY <1>0 DEF TypeOK
      <3> QED BY <1>3, <2>1, <3>1 DEF MatrixCurrent, Usable
    <2>4. matrix' \in [Columns -> [version : 0..Latest, epoch : 0..epoch']]
      <3>1. \A c \in Columns : matrix[c] \in [version : 0..Latest, epoch : 0..epoch']
        BY <1>0, <1>3, <2>1 DEF TypeOK
      <3> QED BY <1>0, <2>1, <3>1 DEF TypeOK
    <2>5. shard' \in [Actors -> SUBSET [version : 1..Latest, column : Columns]]
      BY <1>0, <2>1 DEF TypeOK
    <2> QED BY <1>3, <2>1, <2>2, <2>3, <2>4, <2>5, ReadPreserves
  <1>17. ASSUME UNCHANGED <<history, segments, epoch, matrix, shard>>
         PROVE  /\ matrix' \in [Columns -> [version : 0..Latest, epoch : 0..epoch']]
                /\ shard' \in [Actors -> SUBSET [version : 1..Latest, column : Columns]]
                /\ MatrixCurrent'
                /\ epoch' \in Nat /\ epoch' >= epoch
    BY <1>0, <1>3, <1>4, <1>17 DEF TypeOK, MatrixCurrent, Usable
  <1>18. CASE SetIndexCacheSize
    <2>1. handle' \in [Clients -> 0..Latest] /\ handle'[Driver] = Nothing
      BY <1>0, <1>1, <1>3, <1>18 DEF SetIndexCacheSize, TypeOK, Nothing
    <2> QED BY <1>17, <1>18, <2>1, ReadPreserves DEF SetIndexCacheSize
  <1>19. CASE FreshRead
    <2>1. /\ UNCHANGED <<history, handle, epoch, matrix, shard, segments>>
          /\ answer' = [by |-> Driver, via |-> "fresh", seen |-> Latest, scored |-> Latest,
                        sameColumn |-> TRUE, latest |-> Latest]
      BY <1>19 DEF FreshRead, Answer
    <2>2. handle' \in [Clients -> 0..Latest] /\ handle'[Driver] \in {Nothing, Latest}
      BY <1>0, <2>1 DEF TypeOK, HandleCurrent
    <2> QED BY <1>1, <1>3, <1>17, <2>1, <2>2, ReadPreserves
  <1>20. ASSUME NEW p \in Clients, CachedRead(p)
         PROVE  IInv'
    <2>1. /\ UNCHANGED <<history, epoch, matrix, shard, segments>>
          /\ handle' = [handle EXCEPT ![p] = Opened(p)]
          /\ answer' = [by |-> p, via |-> "handle", seen |-> Opened(p), scored |-> Opened(p),
                        sameColumn |-> TRUE, latest |-> Latest]
      BY <1>20 DEF CachedRead, Answer
    <2>2. Opened(p) \in 1..Latest /\ Opened(p) \in 0..Latest
      BY <1>5
    <2>3. handle' \in [Clients -> 0..Latest] /\ handle'[Driver] \in {Nothing, Latest}
      BY <1>0, <1>3, <1>6, <2>1, <2>2 DEF TypeOK, HandleCurrent
    <2> QED BY <1>6, <1>17, <2>1, <2>2, <2>3, ReadPreserves
  <1>21. ASSUME NEW c \in Columns, ResidentRead(c)
         PROVE  IInv'
    <2> DEFINE held == IF Usable(matrix[c]) THEN matrix[c]
                       ELSE Stamped(Opened(Driver))
    <2>1. /\ UNCHANGED <<history, epoch, shard, segments>>
          /\ matrix' = [matrix EXCEPT ![c] = held]
          /\ handle' = [handle EXCEPT ![Driver] = Latest]
          /\ answer' = [by |-> Driver, via |-> "resident", seen |-> Latest,
                        scored |-> held.version, sameColumn |-> TRUE, latest |-> Latest]
      BY <1>6, <1>21 DEF ResidentRead, Answer
    <2>2. held \in [version : 1..Latest, epoch : 0..epoch]
      <3>1. matrix[c] \in [version : 0..Latest, epoch : 0..epoch]
        BY <1>0 DEF TypeOK
      <3>2. CASE Usable(matrix[c])
        BY <1>1, <3>1, <3>2 DEF Usable, Nothing
      <3>3. CASE ~Usable(matrix[c])
        BY <1>1, <1>3, <1>6, <3>3 DEF Stamped
      <3> QED BY <3>2, <3>3
    <2>3. RowsOf(held.version) = RowsOf(Latest)
      BY <1>0, <1>6 DEF MatrixCurrent, Stamped
    <2> HIDE DEF held
    <2>4. matrix' \in [Columns -> [version : 0..Latest, epoch : 0..epoch']]
      BY <1>0, <2>1, <2>2 DEF TypeOK
    <2>5. MatrixCurrent'
      BY <1>0, <1>4, <2>1, <2>3 DEF MatrixCurrent, Usable, TypeOK
    <2>6. handle' \in [Clients -> 0..Latest] /\ handle'[Driver] = Latest
      BY <1>0, <1>1, <1>3, <2>1 DEF TypeOK
    <2>7. shard' \in [Actors -> SUBSET [version : 1..Latest, column : Columns]]
      BY <1>0, <2>1 DEF TypeOK
    <2>8. answer' \in [by : Clients, via : {"fresh", "handle", "resident", "shard"},
                       seen : 1..Latest, scored : 1..Latest,
                       sameColumn : BOOLEAN, latest : {Latest}]
      BY <1>1, <1>3, <2>1, <2>2
    <2> QED BY <1>3, <2>1, <2>3, <2>4, <2>5, <2>6, <2>7, <2>8, ReadPreserves
  <1>22. ASSUME NEW a \in Actors, NEW c \in Columns, ShardRead(a, c)
         PROVE  IInv'
    <2> DEFINE held == {m \in shard[a] : UpToDate(m)}
               used == IF held = {} THEN {[version |-> Latest, column |-> c]} ELSE held
    <2>1. PICK m \in used :
            /\ shard' = [shard EXCEPT ![a] = used]
            /\ answer' = [by |-> a, via |-> "shard", seen |-> m.version, scored |-> m.version,
                          sameColumn |-> (m.column = c), latest |-> Latest]
            /\ UNCHANGED <<history, handle, epoch, matrix, segments>>
      BY <1>22 DEF ShardRead, Answer
    <2>2. used \in SUBSET [version : 1..Latest, column : Columns]
      <3>1. shard[a] \in SUBSET [version : 1..Latest, column : Columns]
        BY <1>0 DEF TypeOK
      <3>2. [version |-> Latest, column |-> c] \in [version : 1..Latest, column : Columns]
        BY <1>1
      <3> QED BY <3>1, <3>2
    <2>3. m.version = Latest
      BY DEF UpToDate
    <2> HIDE DEF held, used
    <2>4. shard' \in [Actors -> SUBSET [version : 1..Latest, column : Columns]]
      BY <1>0, <2>1, <2>2 DEF TypeOK
    <2>5. a # Driver /\ a \in Clients
      BY LanceAssumption DEF LanceAssumption, Clients
    <2>6. MatrixCurrent'
      BY <1>0, <1>4, <2>1 DEF MatrixCurrent, Usable
    <2>7. matrix' \in [Columns -> [version : 0..Latest, epoch : 0..epoch']]
      BY <1>0, <2>1 DEF TypeOK
    <2>8. handle' \in [Clients -> 0..Latest] /\ handle'[Driver] \in {Nothing, Latest}
      BY <1>0, <2>1 DEF TypeOK, HandleCurrent
    <2>9. answer' \in [by : Clients, via : {"fresh", "handle", "resident", "shard"},
                       seen : 1..Latest, scored : 1..Latest,
                       sameColumn : BOOLEAN, latest : {Latest}]
      BY <1>1, <2>1, <2>3, <2>5
    <2> QED BY <1>3, <2>1, <2>3, <2>4, <2>5, <2>6, <2>7, <2>8, <2>9, ReadPreserves
  <1>23. ASSUME NEW a \in Actors, Restart(a)
         PROVE  IInv'
    <2>1. /\ UNCHANGED <<history, epoch, matrix, segments, answer>>
          /\ handle' = [handle EXCEPT ![a] = Nothing]
          /\ shard' = [shard EXCEPT ![a] = {}]
      BY <1>23 DEF Restart
    <2>2. handle' \in [Clients -> 0..Latest] /\ handle'[Driver] \in {Nothing, Latest}
      BY <1>0, <1>1, <1>3, <2>1 DEF TypeOK, HandleCurrent, Nothing, Clients
    <2>3. shard' \in [Actors -> SUBSET [version : 1..Latest, column : Columns]]
      BY <1>0, <2>1 DEF TypeOK
    <2>4. MatrixCurrent'
      BY <1>0, <1>4, <2>1 DEF MatrixCurrent, Usable
    <2>5. matrix' \in [Columns -> [version : 0..Latest, epoch : 0..epoch']]
      BY <1>0, <2>1 DEF TypeOK
    <2> QED BY <1>3, <2>1, <2>2, <2>3, <2>4, <2>5, ReadPreserves
  <1>24. CASE UNCHANGED vars
    BY <1>24 DEF vars, IInv, TypeOK, HandleCurrent, MatrixCurrent, AnswerReal, AnswersCorrect,
                 DriverSeesWrites, RerankAgrees, ShardSeesWrites, Latest, RowsOf, Usable
  <1> QED BY <1>7, <1>8, <1>9, <1>10, <1>11, <1>12, <1>13, <1>14, <1>15, <1>16, <1>18,
             <1>19, <1>20, <1>21, <1>22, <1>23, <1>24 DEF Next, Mutation

\* At the start there is one version and nothing is cached.
LEMMA InitEstablishes ==
    ASSUME Init
    PROVE  IInv
  <1>1. PICK R \in SUBSET Rows : history = <<R>>
    BY DEF Init
  <1>2. history \in Seq(SUBSET Rows) /\ history # <<>> /\ Latest = 1
    BY <1>1 DEF Latest
  <1>3. TypeOK
    <2>0. /\ handle = [p \in Clients |-> 0] /\ epoch = 0 /\ segments = FALSE
      BY DEF Init, Nothing
    <2>1. handle \in [Clients -> 0..Latest] /\ epoch \in Nat
      BY <1>2, <2>0
    <2>6. segments \in BOOLEAN
      BY <2>0, Zenon
    <2>2. matrix \in [Columns -> [version : 0..Latest, epoch : 0..epoch]]
      BY <1>2 DEF Init, Nothing
    <2>3. shard \in [Actors -> SUBSET [version : 1..Latest, column : Columns]]
      BY DEF Init
    <2>4. answer = NoAnswer /\ Driver \in Clients
      BY DEF Init, Clients
    <2>5. answer \in [by : Clients, via : {"none", "fresh", "handle", "resident", "shard"},
                      seen : 0..Latest, scored : 0..Latest, sameColumn : BOOLEAN,
                      latest : 0..Latest]
      BY <1>2, <2>4 DEF NoAnswer, Nothing
    <2> QED BY <1>2, <2>1, <2>2, <2>3, <2>5, <2>6 DEF TypeOK
  <1> QED BY <1>2, <1>3 DEF Init, IInv, HandleCurrent, MatrixCurrent, AnswerReal, AnswersCorrect,
                            DriverSeesWrites, RerankAgrees, ShardSeesWrites, Usable, NoAnswer,
                            Nothing, Clients

\* The invariant of the caches: the driver's handle is the last version or
\* forgotten (_lance.py:38-43, ray.py:331), and a matrix stamped with the
\* current count has the rows of the last version (vector.py:276-288).
THEOREM CachesInvariant ==
    ASSUME HasSegmentApi
    PROVE  Spec => []IInv
  <1>1. Init => IInv
    BY InitEstablishes
  <1>2. IInv /\ [Next]_vars => IInv'
    BY NextPreserves
  <1> QED BY <1>1, <1>2, PTL DEF Spec

\* Types, with the stamps: no matrix is ahead of the driver's count.
THEOREM TypeCorrect ==
    ASSUME HasSegmentApi
    PROVE  Spec => []TypeOK
  <1>1. IInv => TypeOK
    BY DEF IInv
  <1> QED BY <1>1, CachesInvariant, PTL

\* No query of the driver is answered from before its last mutation
\* (_lance.py:22-28).
THEOREM DriverNeverStale ==
    ASSUME HasSegmentApi
    PROVE  Spec => []DriverSeesWrites
  <1>1. IInv => DriverSeesWrites
    BY DEF IInv, AnswersCorrect
  <1> QED BY <1>1, CachesInvariant, PTL

\* The resident search scores the candidates with the vectors of their rows
\* (vector.py:320-331).
THEOREM RerankSound ==
    ASSUME HasSegmentApi
    PROVE  Spec => []RerankAgrees
  <1>1. IInv => RerankAgrees
    BY DEF IInv, AnswersCorrect
  <1> QED BY <1>1, CachesInvariant, PTL

\* A resident shard never answers from a version superseded before the query
\* (_ray_shim.py:297-312).
THEOREM ShardNeverStale ==
    ASSUME HasSegmentApi
    PROVE  Spec => []ShardSeesWrites
  <1>1. IInv => ShardSeesWrites
    BY DEF IInv, AnswersCorrect
  <1> QED BY <1>1, CachesInvariant, PTL

-----------------------------------------------------------------------------
(* Search over shards: counting. *)
\* How many elements of a sequence are in a set.
HowMany(s, P) == Cardinality({i \in DOMAIN s : s[i] \in P})

\* No element is in the empty sequence, and appending one counts it.
LEMMA HowManyNil == ASSUME NEW P PROVE HowMany(<<>>, P) = 0
  <1>1. {i \in DOMAIN <<>> : <<>>[i] \in P} = {}
    OBVIOUS
  <1> QED BY <1>1, FS_EmptySet, Zenon DEF HowMany

\* Appending an element counts it.
LEMMA HowManyAppend ==
    ASSUME NEW S, NEW s \in Seq(S), NEW e \in S, NEW P
    PROVE  /\ HowMany(s, P) \in Nat
           /\ HowMany(Append(s, e), P) = HowMany(s, P) + IF e \in P THEN 1 ELSE 0
  <1> DEFINE n == Len(s)
             A == {i \in DOMAIN s : s[i] \in P}
             B == {i \in DOMAIN Append(s, e) : Append(s, e)[i] \in P}
  <1>1. n \in Nat /\ DOMAIN s = 1..n /\ DOMAIN Append(s, e) = 1..(n + 1)
    OBVIOUS
  <1>2. IsFiniteSet(1..n)
    BY <1>1, FS_Interval
  <1>3. IsFiniteSet(A) /\ Cardinality(A) \in Nat
    BY <1>1, <1>2, FS_Subset, FS_CardinalityType
  <1>4. (\A i \in 1..n : Append(s, e)[i] = s[i]) /\ Append(s, e)[n + 1] = e
    OBVIOUS
  <1>5. n + 1 \notin A /\ B = IF e \in P THEN A \cup {n + 1} ELSE A
    BY <1>1, <1>4
  <1> HIDE DEF A, B
  <1>6. Cardinality(A \cup {n + 1}) = Cardinality(A) + 1
    BY <1>3, <1>5, FS_AddElement
  <1>7. HowMany(s, P) = Cardinality(A) /\ HowMany(Append(s, e), P) = Cardinality(B)
    BY DEF HowMany, A, B
  <1> QED BY <1>3, <1>5, <1>6, <1>7

\* As many are in a sequence after another as in both.
LEMMA HowManyConcat ==
    ASSUME NEW S, NEW a \in Seq(S), NEW b \in Seq(S), NEW P
    PROVE  HowMany(a, P) \in Nat /\ HowMany(b, P) \in Nat /\ HowMany(a \o b, P) = HowMany(a, P) + HowMany(b, P)
  <1> DEFINE T == {y \in Seq(S) : /\ HowMany(y, P) \in Nat
                                  /\ HowMany(a \o y, P) = HowMany(a, P) + HowMany(y, P)}
  <1>0. \A y \in Seq(S) : HowMany(y, P) \in Nat
    <2> DEFINE N == {y \in Seq(S) : HowMany(y, P) \in Nat}
    <2>1. <<>> \in N
      BY HowManyNil
    <2>2. \A y \in Seq(S), e \in S : y \in N => Append(y, e) \in N
      BY HowManyAppend
    <2> HIDE DEF N
    <2>3. \A y \in Seq(S) : y \in N
      BY <2>1, <2>2, SeqInduction
    <2> QED BY <2>3 DEF N
  <1>1. <<>> \in T
    <2>1. a \o <<>> = a /\ <<>> \in Seq(S)
      OBVIOUS
    <2>2. HowMany(a \o <<>>, P) = HowMany(a, P) + HowMany(<<>>, P)
      BY <1>0, <2>1, HowManyNil
    <2> QED BY <1>0, <2>1, <2>2
  <1>2. ASSUME NEW y \in Seq(S), NEW e \in S, y \in T PROVE Append(y, e) \in T
    <2> DEFINE u == a \o y
    <2>1. u \in Seq(S) /\ Append(y, e) \in Seq(S) /\ a \o Append(y, e) = Append(u, e)
      OBVIOUS
    <2>2. HowMany(u, P) = HowMany(a, P) + HowMany(y, P)
      BY <1>2
    <2> HIDE DEF u
    <2>3. HowMany(Append(u, e), P) = HowMany(u, P) + IF e \in P THEN 1 ELSE 0
      BY <2>1, HowManyAppend
    <2>4. HowMany(Append(y, e), P) = HowMany(y, P) + IF e \in P THEN 1 ELSE 0
      BY HowManyAppend
    <2>5. HowMany(Append(u, e), P) = HowMany(a, P) + HowMany(Append(y, e), P)
      BY <1>0, <2>2, <2>3, <2>4
    <2>6. HowMany(a \o Append(y, e), P) = HowMany(a, P) + HowMany(Append(y, e), P)
      BY <2>1, <2>5, Zenon
    <2>7. HowMany(Append(y, e), P) \in Nat
      BY <1>0, <2>1
    <2> QED BY <2>1, <2>6, <2>7, Zenon
  <1> HIDE DEF T
  <1>3. \A y \in Seq(S) : y \in T
    BY <1>1, <1>2, SeqInduction
  <1> QED BY <1>0, <1>3 DEF T

-----------------------------------------------------------------------------
(* The best first. *)
IsBest(f, left, i) == i \in left /\ \A j \in left : f[i] < f[j] \/ (f[i] = f[j] /\ i <= j)

\* Of finitely many numbered things one is the best, the first of equals.
LEMMA BestExists ==
    ASSUME NEW n \in Nat, NEW left \in SUBSET (1..n), left # {}, NEW f, \A i \in 1..n : f[i] \in Int
    PROVE  \E i \in left : IsBest(f, left, i)
  <1> DEFINE part(m) == {i \in left : i <= m}
             T == {m \in Nat : m <= n => part(m) = {} \/ \E i \in part(m) : IsBest(f, part(m), i)}
  <1>0. \A i \in left : i \in Nat /\ ~(i <= 0) /\ i <= n
    OBVIOUS
  <1>1. 0 \in T
    <2>1. part(0) = {}
      BY <1>0
    <2> HIDE DEF part
    <2> QED BY <2>1
  <1>2. ASSUME NEW m \in Nat, m \in T PROVE m + 1 \in T
    <2> SUFFICES ASSUME m + 1 <= n PROVE part(m + 1) = {} \/ \E i \in part(m + 1) : IsBest(f, part(m + 1), i)
      OBVIOUS
    <2>1. m <= n /\ m + 1 \in 1..n
      OBVIOUS
    <2>2. part(m) = {} \/ \E i \in part(m) : IsBest(f, part(m), i)
      BY <1>2, <2>1
    <2>3. \A i \in left : i \in Nat /\ f[i] \in Int
      OBVIOUS
    <2>4. \A i \in left : i \in part(m + 1) <=> (i \in part(m) \/ i = m + 1)
      BY <2>3
    <2>5. CASE m + 1 \notin left
      <3>1. part(m + 1) = part(m)
        BY <2>4, <2>5
      <3> HIDE DEF part
      <3> QED BY <2>2, <3>1
    <2>6. CASE m + 1 \in left /\ part(m) = {}
      <3>1. part(m + 1) = {m + 1}
        BY <2>3, <2>4, <2>6
      <3> HIDE DEF part
      <3>2. IsBest(f, part(m + 1), m + 1)
        BY <2>3, <2>6, <3>1 DEF IsBest
      <3> QED BY <3>1, <3>2
    <2>7. CASE m + 1 \in left /\ part(m) # {}
      <3>1. PICK i \in part(m) : IsBest(f, part(m), i)
        BY <2>2, <2>7
      <3>2. \A j \in part(m) : j \in left /\ j <= m /\ f[i] <= f[j] /\ (f[i] < f[j] \/ (f[i] = f[j] /\ i <= j))
        BY <2>3, <3>1 DEF IsBest
      <3>3. i \in left /\ i <= m /\ i \in Nat /\ f[i] \in Int /\ f[m + 1] \in Int
        BY <2>1, <2>3, <3>2
      <3>4. CASE f[m + 1] < f[i]
        <4>1. \A j \in part(m + 1) : f[m + 1] < f[j] \/ j = m + 1
          BY <2>3, <2>4, <3>2, <3>3, <3>4
        <4>2. m + 1 \in part(m + 1)
          BY <2>4, <2>7
        <4> HIDE DEF part
        <4> QED BY <4>1, <4>2 DEF IsBest
      <3>5. CASE ~(f[m + 1] < f[i])
        <4>1. \A j \in part(m + 1) : f[i] < f[j] \/ (f[i] = f[j] /\ i <= j)
          BY <2>3, <2>4, <3>2, <3>3, <3>5
        <4>2. i \in part(m + 1)
          BY <2>4, <3>1, <3>3
        <4> HIDE DEF part
        <4> QED BY <4>1, <4>2 DEF IsBest
      <3> QED BY <3>4, <3>5
    <2> QED BY <2>5, <2>6, <2>7
  <1> HIDE DEF T
  <1>3. \A m \in Nat : m \in T
    BY <1>1, <1>2, Induction
  <1>4. part(n) = left
    BY <1>0
  <1> HIDE DEF part
  <1>5. n \in T /\ n <= n
    BY <1>3
  <1> QED BY <1>4, <1>5 DEF T

(* Taking the best, one after another: what is taken is in order, none of   *)
(* what is left comes before it, and within any bound as much is taken as   *)
(* there is, or all that is taken.                                          *)
Least(a, b) == IF a <= b THEN a ELSE b
Amount(f, A, t) == Cardinality({i \in A : f[i] <= t})
UpTo(t) == {d \in Int : d <= t}
Greedy(f, n, left, ds) ==
    /\ left \in SUBSET (1..n) /\ ds \in Seq(Int) /\ Len(ds) <= n /\ Cardinality(left) = n - Len(ds)
    /\ \A i, j \in 1..Len(ds) : i <= j => ds[i] <= ds[j]
    /\ \A i \in 1..Len(ds), j \in left : ds[i] <= f[j]
    /\ \A t \in Int : /\ Amount(f, 1..n, t) \in Nat
                      /\ HowMany(ds, UpTo(t)) = Least(Len(ds), Amount(f, 1..n, t))
                      /\ Amount(f, left, t) = Amount(f, 1..n, t) - HowMany(ds, UpTo(t))

\* Nothing is taken at first.
LEMMA GreedyStarts ==
    ASSUME NEW n \in Nat, NEW f, \A i \in 1..n : f[i] \in Int
    PROVE  Greedy(f, n, 1..n, <<>>)
  <1>1. IsFiniteSet(1..n) /\ Cardinality(1..n) = n
    BY FS_Interval
  <1>2. <<>> \in Seq(Int) /\ Len(<<>>) = 0
    OBVIOUS
  <1>3. ASSUME NEW t \in Int PROVE Amount(f, 1..n, t) \in Nat
    <2>1. IsFiniteSet({i \in 1..n : f[i] <= t})
      BY <1>1, FS_Subset
    <2> QED BY <2>1, FS_CardinalityType DEF Amount
  <1>4. \A t \in Int : HowMany(<<>>, UpTo(t)) = 0
    BY HowManyNil
  <1> HIDE DEF Amount, HowMany
  <1>5. \A t \in Int : 0 = Least(0, Amount(f, 1..n, t)) /\ Amount(f, 1..n, t) = Amount(f, 1..n, t) - 0
    BY <1>3 DEF Least
  <1>6. /\ 1..n \in SUBSET (1..n) /\ 0 <= n /\ n = n - 0
        /\ \A i \in 1..0 : FALSE
    OBVIOUS
  <1> QED BY <1>1, <1>2, <1>3, <1>4, <1>5, <1>6 DEF Greedy

\* Taking the best of what is left.
LEMMA GreedyTakes ==
    ASSUME NEW n \in Nat, NEW f, \A i \in 1..n : f[i] \in Int,
           NEW left, NEW ds, Greedy(f, n, left, ds), NEW v, IsBest(f, left, v)
    PROVE  Greedy(f, n, left \ {v}, Append(ds, f[v]))
  <1> DEFINE m == Len(ds)
             es == Append(ds, f[v])
             rest == left \ {v}
  <1>1. /\ left \in SUBSET (1..n) /\ ds \in Seq(Int) /\ m <= n /\ Cardinality(left) = n - m
        /\ \A i, j \in 1..m : i <= j => ds[i] <= ds[j]
        /\ \A i \in 1..m, j \in left : ds[i] <= f[j]
    BY DEF Greedy
  <1>2. v \in left /\ v \in 1..n /\ f[v] \in Int /\ \A j \in left : f[v] <= f[j]
    BY <1>1 DEF IsBest
  <1>3. IsFiniteSet(left) /\ IsFiniteSet(1..n)
    <2>1. IsFiniteSet(1..n)
      BY FS_Interval
    <2> QED BY <1>1, <2>1, FS_Subset
  <1>4. Cardinality(rest) = n - m - 1 /\ Cardinality(rest) \in Nat
    <2>1. Cardinality(rest) = Cardinality(left) - 1
      BY <1>2, <1>3, FS_RemoveElement
    <2>2. IsFiniteSet(rest)
      BY <1>3, FS_Subset
    <2>3. Cardinality(rest) \in Nat
      BY <2>2, FS_CardinalityType
    <2> HIDE DEF rest
    <2>4. m \in Nat
      BY <1>1
    <2> HIDE DEF m
    <2> QED BY <1>1, <2>1, <2>3, <2>4
  <1>5. /\ es \in Seq(Int) /\ Len(es) = m + 1 /\ es[m + 1] = f[v] /\ m \in Nat
        /\ \A i \in 1..m : es[i] = ds[i] /\ ds[i] \in Int
    BY <1>1, <1>2
  <1>6. \A i \in 1..(m + 1) : i \in 1..m \/ i = m + 1
    BY <1>5
  <1>7. ASSUME NEW t \in Int
        PROVE  /\ Amount(f, 1..n, t) \in Nat
               /\ HowMany(es, UpTo(t)) = Least(m + 1, Amount(f, 1..n, t))
               /\ Amount(f, rest, t) = Amount(f, 1..n, t) - HowMany(es, UpTo(t))
    <2> DEFINE c == Amount(f, 1..n, t)
               a == Amount(f, left, t)
               h == HowMany(ds, UpTo(t))
    <2>1. c \in Nat /\ h = Least(m, c) /\ a = c - h
      BY DEF Greedy
    <2>2. HowMany(es, UpTo(t)) = h + IF f[v] <= t THEN 1 ELSE 0
      <3>1. HowMany(es, UpTo(t)) = h + IF f[v] \in UpTo(t) THEN 1 ELSE 0
        BY <1>1, <1>2, HowManyAppend
      <3>2. f[v] \in UpTo(t) <=> f[v] <= t
        BY <1>2 DEF UpTo
      <3> HIDE DEF h, es
      <3> QED BY <3>1, <3>2
    <2> DEFINE A == {i \in left : f[i] <= t}
               B == {i \in rest : f[i] <= t}
    <2>3. IsFiniteSet(A) /\ Cardinality(A) = a
      BY <1>3, FS_Subset DEF Amount
    <2>4. CASE f[v] <= t
      <3>1. v \in A /\ B = A \ {v}
        BY <1>2, <2>4
      <3> HIDE DEF A, B
      <3>2. Cardinality(B) = a - 1
        BY <2>3, <3>1, FS_RemoveElement
      <3>3. a \in Nat /\ a # 0
        BY <2>3, <3>1, FS_CardinalityType, FS_EmptySet
      <3>4. Amount(f, rest, t) = a - 1
        BY <3>2 DEF Amount, B
      <3> HIDE DEF a, c, h, m, es, rest
      <3>5. HowMany(es, UpTo(t)) = h + 1
        BY <2>2, <2>4
      <3> QED BY <1>5, <2>1, <3>3, <3>4, <3>5 DEF Least, a, c, h, m, es, rest
    <2>5. CASE ~(f[v] <= t)
      <3>1. A = {} /\ B = {}
        <4>1. \A j \in left : ~(f[j] <= t)
          <5> SUFFICES ASSUME NEW j \in left, f[j] <= t PROVE FALSE
            OBVIOUS
          <5>1. f[j] \in Int /\ f[v] <= f[j]
            BY <1>1, <1>2
          <5> QED BY <1>2, <2>5, <5>1
        <4> QED BY <4>1
      <3> HIDE DEF A, B
      <3>2. a = 0 /\ Amount(f, rest, t) = 0
        BY <2>3, <3>1, FS_EmptySet DEF Amount, B
      <3> HIDE DEF a, c, h, m, es, rest
      <3>3. HowMany(es, UpTo(t)) = h
        BY <1>5, <2>1, <2>2, <2>5 DEF Least
      <3>4. c = h /\ h = Least(m + 1, c)
        BY <1>5, <2>1, <3>2 DEF Least
      <3> QED BY <2>1, <3>2, <3>3, <3>4 DEF a, c, h, m, es, rest
    <2> QED BY <2>4, <2>5
  <1>8. \A i, j \in 1..(m + 1) : i <= j => es[i] <= es[j]
    <2> SUFFICES ASSUME NEW i \in 1..(m + 1), NEW j \in 1..(m + 1), i <= j PROVE es[i] <= es[j]
      OBVIOUS
    <2> HIDE DEF es, m
    <2>1. CASE j \in 1..m
      <3>1. i \in 1..m
        BY <1>5, <2>1
      <3> QED BY <1>1, <1>5, <2>1, <3>1 DEF m
    <2>2. CASE j = m + 1 /\ i \in 1..m
      BY <1>1, <1>2, <1>5, <2>2 DEF m
    <2>3. CASE j = m + 1 /\ i = m + 1
      BY <1>2, <1>5, <2>3
    <2> QED BY <1>6, <2>1, <2>2, <2>3
  <1>9. \A i \in 1..(m + 1), j \in rest : es[i] <= f[j]
    <2> SUFFICES ASSUME NEW i \in 1..(m + 1), NEW j \in left PROVE es[i] <= f[j]
      OBVIOUS
    <2>1. CASE i \in 1..m
      BY <1>1, <1>5, <2>1
    <2>2. CASE i = m + 1
      BY <1>2, <1>5, <2>2
    <2> QED BY <1>6, <2>1, <2>2
  <1>10. rest \in SUBSET (1..n)
    BY <1>1
  <1> HIDE DEF es, rest, m
  <1>11. m + 1 <= n /\ Cardinality(rest) = n - (m + 1)
    BY <1>4, <1>5
  <1>12. Greedy(f, n, rest, es)
    BY <1>5, <1>7, <1>8, <1>9, <1>10, <1>11 DEF Greedy
  <1> QED BY <1>12 DEF es, rest

-----------------------------------------------------------------------------
(* The first k hits. *)
\* The hits taken, and what is left after each.
LEMMA TopKLoop ==
    ASSUME NEW hits, Len(hits) \in Nat, DOMAIN hits = 1..Len(hits), NEW k \in Nat
    PROVE  \E left : /\ left[0] = 1..Len(hits)
                     /\ \A n \in 1..Len(hits) : left[n] = left[n - 1] \ {Nearest(hits, left[n - 1])}
                     /\ TopK(hits, k) = [n \in 1..Min({k, Len(hits)}) |-> hits[Nearest(hits, left[n - 1])]]
  <1> DEFINE N == Len(hits)
             V == SUBSET (1..N)
             step == [n \in 1..N |-> [x \in V |-> x \ {Nearest(hits, x)}]]
             P(g) == g = [n \in 0..N |-> IF n = 0 THEN DOMAIN hits ELSE g[n - 1] \ {Nearest(hits, g[n - 1])}]
             g == CHOOSE g : P(g)
  <1>1. StepsIn(step, N, V) /\ \A n \in 1..N : \A x \in V : step[n][x] = x \ {Nearest(hits, x)}
    BY DEF StepsIn
  <1>2. 1..N \in V /\ N \in Nat
    OBVIOUS
  <1> HIDE DEF step, V
  <1>3. PICK l \in [0..N -> V] : l[0] = 1..N /\ \A n \in 1..N : l[n] = step[n][l[n - 1]]
    <2> HIDE DEF N
    <2> DEFINE o == 1..N
    <2>1. o \in V
      BY <1>2
    <2> HIDE DEF o
    <2>2. \E l \in [0..N -> V] : l[0] = o /\ \A n \in 1..N : l[n] = step[n][l[n - 1]]
      BY <1>1, <1>2, <2>1, StepByStep
    <2> QED BY <2>2 DEF o
  <1>4. \A n \in 1..N : l[n] = l[n - 1] \ {Nearest(hits, l[n - 1])}
    <2>1. \A n \in 1..N : n - 1 \in 0..N
      OBVIOUS
    <2>2. \A n \in 1..N : l[n - 1] \in V
      BY <2>1
    <2> QED BY <1>1, <1>3, <2>2
  <1>5. P(l)
    <2>1. \A n \in 0..N : l[n] = IF n = 0 THEN DOMAIN hits ELSE l[n - 1] \ {Nearest(hits, l[n - 1])}
      BY <1>3, <1>4
    <2>2. l = [n \in 0..N |-> l[n]]
      OBVIOUS
    <2> QED BY <2>1, <2>2
  <1>6. P(g)
    <2> HIDE DEF P
    <2> QED BY <1>5, Zenon
  <1>7. TopK(hits, k) = [n \in 1..Min({k, N}) |-> hits[Nearest(hits, g[n - 1])]]
    BY DEF TopK
  <1> HIDE DEF g
  <1>8. \A n \in 0..N : g[n] = IF n = 0 THEN DOMAIN hits ELSE g[n - 1] \ {Nearest(hits, g[n - 1])}
    BY <1>6
  <1>9. g[0] = 1..N /\ \A n \in 1..N : g[n] = g[n - 1] \ {Nearest(hits, g[n - 1])}
    <2>1. DOMAIN hits = 1..N /\ N \in Nat
      OBVIOUS
    <2> HIDE DEF N
    <2>2. 0 \in 0..N /\ \A n \in 1..N : n \in 0..N /\ n # 0
      BY <2>1
    <2> QED BY <1>8, <2>1, <2>2
  <1> QED BY <1>7, <1>9

\* The lesser of two numbers.
LEMMA MinIsLeast ==
    ASSUME NEW a \in Nat, NEW b \in Nat
    PROVE  Min({a, b}) = Least(a, b) /\ Least(a, b) \in Nat /\ Least(a, b) <= a /\ Least(a, b) <= b
  <1>1. {a, b} \in SUBSET Nat /\ {a, b} # {}
    OBVIOUS
  <1>2. Min({a, b}) \in {a, b} /\ \A n \in {a, b} : Min({a, b}) <= n
    BY <1>1, LeastNumber
  <1> QED BY <1>2 DEF Least

\* Hits have distances; those within t.
HaveDistances(S) == \A h \in S : h.d \in Int
AreHits(hits, S) == hits \in Seq(S) /\ HaveDistances(S)
Nearby(S, t) == {h \in S : h.d <= t}
\* As many distances are within t as hits are.
LEMMA DistancesClose ==
    ASSUME NEW S, NEW hits, AreHits(hits, S), NEW t \in Int
    PROVE  HowMany(Distances(hits), UpTo(t)) = HowMany(hits, Nearby(S, t))
  <1>1. DOMAIN Distances(hits) = DOMAIN hits /\ \A i \in DOMAIN hits : Distances(hits)[i] = hits[i].d
    BY DEF Distances
  <1>2. \A i \in DOMAIN hits : hits[i] \in S /\ hits[i].d \in Int
    BY DEF AreHits, HaveDistances
  <1>3. \A i \in DOMAIN hits : Distances(hits)[i] \in UpTo(t) <=> hits[i] \in Nearby(S, t)
    BY <1>1, <1>2 DEF UpTo, Nearby
  <1>4. {i \in DOMAIN Distances(hits) : Distances(hits)[i] \in UpTo(t)} = {i \in DOMAIN hits : hits[i] \in Nearby(S, t)}
    BY <1>1, <1>3, Zenon
  <1> QED BY <1>4 DEF HowMany

\* What the first k of the hits are: hits, in order; within any distance there are as
\* many of them as of all, but no more than k.
AreFirst(top, hits, k, S) ==
    /\ top \in Seq(S) /\ Len(top) = Least(k, Len(hits)) /\ ToSet(top) \subseteq ToSet(hits)
    /\ \A i, j \in 1..Len(top) : i <= j => top[i].d <= top[j].d
    /\ \A t \in Int : HowMany(top, Nearby(S, t)) = Least(k, HowMany(hits, Nearby(S, t)))
    /\ Len(hits) <= k => ToSet(top) = ToSet(hits)

\* TopK takes the first k hits.
LEMMA TopKIsNearest ==
    ASSUME NEW S, NEW hits, AreHits(hits, S), NEW k \in Nat
    PROVE  AreFirst(TopK(hits, k), hits, k, S)
  <1> DEFINE N == Len(hits)
             top == TopK(hits, k)
             ds == Distances(top)
             f == Distances(hits)
             K == Least(k, N)
  <1>1. N \in Nat /\ DOMAIN hits = 1..N /\ \A i \in 1..N : hits[i] \in S /\ hits[i].d \in Int
    BY DEF AreHits, HaveDistances
  <1>2. f \in Seq(Int) /\ Len(f) = N /\ \A i \in 1..N : f[i] = hits[i].d /\ f[i] \in Int
    BY <1>1 DEF Distances
  <1>3. K \in Nat /\ K <= N /\ Min({k, N}) = K
    BY <1>1, MinIsLeast
  <1>4. PICK left : /\ left[0] = 1..N
                    /\ \A n \in 1..N : left[n] = left[n - 1] \ {Nearest(hits, left[n - 1])}
                    /\ top = [n \in 1..Min({k, N}) |-> hits[Nearest(hits, left[n - 1])]]
    BY <1>1, TopKLoop
  <1> HIDE DEF top, K
  <1>5. top = [n \in 1..K |-> hits[Nearest(hits, left[n - 1])]]
    BY <1>3, <1>4
  <1> DEFINE e == [n \in 1..N |-> f[Nearest(hits, left[n - 1])]]
             es(n) == [i \in 1..n |-> e[i]]
             spot(n) == Nearest(hits, left[n - 1])
  <1>6. ASSUME NEW A \in SUBSET (1..N), A # {}
        PROVE  IsBest(f, A, Nearest(hits, A)) /\ Nearest(hits, A) \in 1..N
    <2>1. \E i \in A : IsBest(f, A, i)
      <3> HIDE DEF f, N
      <3> QED BY <1>1, <1>2, <1>6, BestExists
    <2>2. \A i \in A : IsBest(f, A, i) <=> \A j \in A : hits[i].d < hits[j].d \/ (hits[i].d = hits[j].d /\ i <= j)
      BY <1>2 DEF IsBest
    <2> HIDE DEF f
    <2>3. Nearest(hits, A) \in A /\ IsBest(f, A, Nearest(hits, A))
      BY <2>1, <2>2 DEF Nearest
    <2> QED BY <2>3
  <1> HIDE DEF f
  <1> DEFINE T == {n \in Nat : n <= N => Greedy(f, N, left[n], es(n))}
  <1>7. 0 \in T
    <2>1. es(0) = <<>>
      OBVIOUS
    <2> HIDE DEF es
    <2> QED BY <1>1, <1>2, <1>4, <2>1, GreedyStarts
  <1>8. ASSUME NEW n \in Nat, n \in T PROVE n + 1 \in T
    <2> SUFFICES ASSUME n + 1 <= N PROVE Greedy(f, N, left[n + 1], es(n + 1))
      OBVIOUS
    <2>1. n <= N /\ n + 1 \in 1..N /\ (n + 1) - 1 = n
      OBVIOUS
    <2>2. Greedy(f, N, left[n], es(n))
      BY <1>8, <2>1
    <2>3. Len(es(n)) = n
      OBVIOUS
    <2>4. left[n] \in SUBSET (1..N) /\ Cardinality(left[n]) = N - n
      BY <2>2, <2>3 DEF Greedy
    <2>5. left[n] # {}
      <3> HIDE DEF N
      <3>1. N - n # 0
        BY <1>1, <2>1
      <3> QED BY <2>4, <3>1, FS_EmptySet
    <2> DEFINE v == Nearest(hits, left[n])
    <2>6. IsBest(f, left[n], v) /\ v \in 1..N
      BY <1>6, <2>4, <2>5
    <2>7. left[n + 1] = left[n] \ {v} /\ e[n + 1] = f[v]
      BY <1>4, <2>1
    <2> HIDE DEF v
    <2>8. es(n + 1) = Append(es(n), f[v])
      <3>1. es(n) \in Seq(Int)
        BY <2>2 DEF Greedy
      <3>2. \A i \in 1..(n + 1) : es(n + 1)[i] = e[i]
        OBVIOUS
      <3>3. \A i \in 1..(n + 1) : e[i] = IF i = n + 1 THEN f[v] ELSE es(n)[i]
        BY <2>7
      <3> QED BY <2>3, <2>7, <3>1, <3>2, <3>3
    <2> HIDE DEF es
    <2>9. Greedy(f, N, left[n] \ {v}, Append(es(n), f[v]))
      BY <1>1, <1>2, <2>2, <2>6, GreedyTakes
    <2> QED BY <2>7, <2>8, <2>9
  <1> HIDE DEF T, es
  <1>9. \A n \in Nat : n \in T
    BY <1>7, <1>8, Induction
  <1>10. \A n \in 0..N : Greedy(f, N, left[n], es(n))
    <2>1. \A n \in 0..N : n \in Nat /\ n <= N
      BY <1>1
    <2> QED BY <1>9, <2>1 DEF T
  <1> DEFINE es2 == es(K)
  <1>11. Greedy(f, N, left[K], es(K)) /\ K \in 0..N
    BY <1>1, <1>3, <1>10
  <1>12. es(K) = ds
    <2>1. DOMAIN top = 1..K /\ \A i \in 1..K : top[i] = hits[spot(i)]
      BY <1>5
    <2>2. \A i \in 1..K : i \in 1..N /\ i - 1 \in 0..N /\ i - 1 < N /\ i - 1 >= 0
      BY <1>1, <1>3
    <2>3. \A i \in 1..K : spot(i) \in 1..N
      <3> SUFFICES ASSUME NEW i \in 1..K PROVE spot(i) \in 1..N
        OBVIOUS
      <3> DEFINE A == left[i - 1]
      <3>1. Greedy(f, N, A, es(i - 1)) /\ Len(es(i - 1)) = i - 1
        <4>1. Len(es(i - 1)) = i - 1
          BY <2>2 DEF es
        <4> QED BY <1>10, <2>2, <4>1
      <3>2. A \in SUBSET (1..N) /\ Cardinality(A) = N - (i - 1)
        BY <3>1 DEF Greedy
      <3>3. A # {}
        <4> HIDE DEF N, A
        <4>1. N - (i - 1) # 0
          BY <1>1, <2>2
        <4> QED BY <3>2, <4>1, FS_EmptySet
      <3> QED BY <1>6, <3>2, <3>3
    <2>4. \A i \in 1..K : ds[i] = f[spot(i)]
      <3> HIDE DEF spot
      <3> QED BY <1>2, <2>1, <2>3 DEF Distances
    <2>5. ds = [i \in 1..K |-> f[spot(i)]]
      <3>1. ds = [i \in 1..K |-> ds[i]]
        BY <2>1 DEF Distances
      <3> HIDE DEF ds, spot
      <3> QED BY <2>4, <3>1
    <2>6. es(K) = [i \in 1..K |-> f[spot(i)]]
      <3>1. \A i \in 1..K : e[i] = f[spot(i)]
        BY <2>2
      <3> HIDE DEF e, spot
      <3> QED BY <3>1 DEF es
    <2> HIDE DEF ds, spot, e
    <2> QED BY <2>5, <2>6, Zenon
  <1>13. /\ ds \in Seq(Int) /\ Cardinality(left[K]) = N - K
         /\ \A i, j \in 1..Len(ds) : i <= j => ds[i] <= ds[j]
         /\ \A t \in Int : /\ Amount(f, 1..N, t) \in Nat
                           /\ HowMany(ds, UpTo(t)) = Least(K, Amount(f, 1..N, t))
         /\ Len(ds) = K
    <2>1. Len(ds) = K
      BY <1>5, <1>3 DEF Distances
    <2> HIDE DEF ds, f, N
    <2> QED BY <1>11, <1>12, <2>1 DEF Greedy
  <1>14. ASSUME NEW t \in Int
         PROVE  /\ HowMany(f, UpTo(t)) \in Nat
                /\ HowMany(ds, UpTo(t)) = Least(k, HowMany(f, UpTo(t)))
    <2> DEFINE c == HowMany(f, UpTo(t))
               A == {i \in 1..N : f[i] <= t}
    <2>1. {i \in DOMAIN f : f[i] \in UpTo(t)} = A
      <3>1. DOMAIN f = 1..N
        BY <1>2
      <3> QED BY <1>2, <3>1 DEF UpTo
    <2>2. Amount(f, 1..N, t) = Cardinality(A) /\ c = Cardinality(A)
      <3> HIDE DEF f, N
      <3> QED BY <2>1 DEF Amount, HowMany
    <2>3. Cardinality(A) <= N
      <3>1. IsFiniteSet(1..N) /\ Cardinality(1..N) = N
        BY <1>1, FS_Interval
      <3>2. A \subseteq 1..N
        OBVIOUS
      <3> HIDE DEF A
      <3>3. Cardinality(A) <= Cardinality(1..N)
        BY <3>1, <3>2, FS_Subset
      <3> QED BY <3>1, <3>3
    <2> HIDE DEF A
    <2>4. c \in Nat /\ c <= N /\ HowMany(ds, UpTo(t)) = Least(K, c)
      <3> HIDE DEF ds, f, N
      <3> QED BY <1>13, <2>2, <2>3
    <2> HIDE DEF c, ds, f, N
    <2>5. Least(Least(k, N), c) = Least(k, c)
      BY <1>1, <2>4 DEF Least
    <2> QED BY <2>4, <2>5 DEF K, c
  <1>15. \A i \in 1..K : spot(i) \in 1..N /\ top[i] = hits[spot(i)]
    <2> SUFFICES ASSUME NEW i \in 1..K PROVE spot(i) \in 1..N
      BY <1>5
    <2> DEFINE A == left[i - 1]
    <2>1. i - 1 \in 0..N /\ N - (i - 1) # 0 /\ Len(es(i - 1)) = i - 1
      BY <1>1, <1>3 DEF es
    <2>2. Greedy(f, N, A, es(i - 1))
      BY <1>10, <2>1
    <2>3. A \in SUBSET (1..N) /\ Cardinality(A) = N - (i - 1)
      BY <2>1, <2>2 DEF Greedy
    <2>4. A # {}
      <3> HIDE DEF N, A
      <3> QED BY <2>1, <2>3, FS_EmptySet
    <2> QED BY <1>6, <2>3, <2>4
  <1>16. top \in Seq(S) /\ Len(top) = K /\ DOMAIN top = 1..K
    <2> HIDE DEF spot
    <2>1. \A i \in 1..K : hits[spot(i)] \in S
      BY <1>1, <1>15
    <2>2. top = [i \in 1..K |-> hits[spot(i)]]
      BY <1>5 DEF spot
    <2> QED BY <1>3, <2>1, <2>2
  <1>17. ToSet(top) \subseteq ToSet(hits)
    <2> HIDE DEF spot, N
    <2> QED BY <1>1, <1>15, <1>16 DEF ToSet
  <1>18. ASSUME N <= k PROVE ToSet(hits) \subseteq ToSet(top)
    <2>1. K = N
      <3> HIDE DEF N
      <3> QED BY <1>1, <1>18 DEF K, Least
    <2> DEFINE R == {n \in Nat : n <= N => \A j \in 1..N : j \in left[n] \/ \E i \in 1..n : spot(i) = j}
    <2>2. 0 \in R
      BY <1>4
    <2>3. ASSUME NEW n \in Nat, n \in R PROVE n + 1 \in R
      <3> SUFFICES ASSUME n + 1 <= N, NEW j \in 1..N PROVE j \in left[n + 1] \/ \E i \in 1..(n + 1) : spot(i) = j
        OBVIOUS
      <3>1. n + 1 \in 1..N /\ (n + 1) - 1 = n /\ n + 1 \in 1..(n + 1) /\ \A i \in 1..n : i \in 1..(n + 1)
        OBVIOUS
      <3>2. left[n + 1] = left[n] \ {spot(n + 1)}
        BY <1>4, <3>1
      <3>3. j \in left[n] \/ \E i \in 1..n : spot(i) = j
        BY <2>3, <1>1, <3>1
      <3> HIDE DEF spot
      <3> QED BY <3>1, <3>2, <3>3
    <2> HIDE DEF R
    <2>4. \A n \in Nat : n \in R
      BY <2>2, <2>3, Induction
    <2>5. left[N] = {}
      <3>1. Cardinality(left[N]) = 0 /\ left[N] \in SUBSET (1..N)
        <4> HIDE DEF N, f, ds
        <4> QED BY <1>1, <1>11, <1>13, <2>1 DEF Greedy
      <3>2. IsFiniteSet(left[N])
        <4>1. IsFiniteSet(1..N)
          BY <1>1, FS_Interval
        <4> QED BY <3>1, <4>1, FS_Subset
      <3> QED BY <3>1, <3>2, FS_EmptySet
    <2>6. \A j \in 1..N : \E i \in 1..N : spot(i) = j
      <3>1. N \in R /\ N \in Nat /\ N <= N
        BY <1>1, <2>4
      <3>2. \A j \in 1..N : j \in left[N] \/ \E i \in 1..N : spot(i) = j
        <4> HIDE DEF N, spot
        <4> QED BY <3>1 DEF R
      <3> HIDE DEF spot, N
      <3> QED BY <2>5, <3>2
    <2> HIDE DEF spot, N
    <2> QED BY <1>1, <1>15, <1>16, <2>1, <2>6 DEF ToSet
  <1> HIDE DEF N, f, ds, spot, e
  <1>19. N <= k => ToSet(top) = ToSet(hits)
    BY <1>17, <1>18
  <1>20. \A t \in Int : HowMany(top, Nearby(S, t)) = Least(k, HowMany(hits, Nearby(S, t)))
    <2> TAKE t \in Int
    <2>1. AreHits(top, S)
      BY <1>16 DEF AreHits
    <2>2. HowMany(ds, UpTo(t)) = HowMany(top, Nearby(S, t)) /\ HowMany(f, UpTo(t)) = HowMany(hits, Nearby(S, t))
      BY <2>1, DistancesClose DEF ds, f
    <2>3. HowMany(ds, UpTo(t)) = Least(k, HowMany(f, UpTo(t)))
      BY <1>14
    <2> QED BY <2>2, <2>3, Zenon
  <1>21. \A i, j \in 1..Len(top) : i <= j => top[i].d <= top[j].d
    <2>1. \A i \in 1..Len(top) : ds[i] = top[i].d
      BY <1>16 DEF ds, Distances
    <2> QED BY <1>13, <1>16, <2>1
  <1> QED BY <1>16, <1>17, <1>19, <1>20, <1>21 DEF AreFirst, N, K, top

-----------------------------------------------------------------------------
(* Merging the shards' first k. *)
\* The lesser of k and a number is the same whether or not its parts were cut off at k.
LEMMA LeastOfParts ==
    ASSUME NEW k \in Nat, NEW a \in Nat, NEW b \in Nat, NEW c \in Nat, Least(k, a) = Least(k, b)
    PROVE  Least(k, a + Least(k, c)) = Least(k, b + c)
  BY DEF Least

\* Every shard answers with as many as it has, or k.
ShardsAnswer(locals, shards, A, B, k) ==
    \A s \in 1..Len(shards) : HowMany(locals[s], A) = Least(k, HowMany(shards[s], B))
\* Then the shards' answers hold as many as all shards, or k.
LEMMA MergedCounts ==
    ASSUME NEW S, NEW Q, NEW locals \in Lists(S), NEW shards \in Lists(Q), Len(locals) = Len(shards),
           NEW A, NEW B, NEW k \in Nat, ShardsAnswer(locals, shards, A, B, k)
    PROVE  Least(k, HowMany(FlattenSeq(locals), A)) = Least(k, HowMany(FlattenSeq(shards), B))
  <1> DEFINE N == Len(shards)
             l(n) == FlattenSeq(Pre(locals, n))
             s(n) == FlattenSeq(Pre(shards, n))
             T == {n \in Nat : n <= N => Least(k, HowMany(l(n), A)) = Least(k, HowMany(s(n), B))}
  <1>1. /\ Pre(locals, 0) = <<>> /\ Pre(locals, N) = locals
        /\ \A n \in 0..N : Pre(locals, n) \in Lists(S)
        /\ \A n \in Nat : n + 1 <= N => Pre(locals, n + 1) = Append(Pre(locals, n), locals[n + 1]) /\ locals[n + 1] \in Seq(S)
    BY ListPrefixes
  <1>2. /\ Pre(shards, 0) = <<>> /\ Pre(shards, N) = shards
        /\ \A n \in 0..N : Pre(shards, n) \in Lists(Q)
        /\ \A n \in Nat : n + 1 <= N => Pre(shards, n + 1) = Append(Pre(shards, n), shards[n + 1]) /\ shards[n + 1] \in Seq(Q)
    BY ListPrefixes
  <1>3. N \in Nat
    BY ListShape
  <1> HIDE DEF N
  <1>4. 0 \in T
    <2>1. l(0) = <<>> /\ s(0) = <<>>
      BY <1>1, <1>2, FlattenEmpty
    <2> HIDE DEF l, s
    <2>2. HowMany(l(0), A) = 0 /\ HowMany(s(0), B) = 0
      BY <2>1, HowManyNil
    <2> QED BY <2>2
  <1>5. ASSUME NEW n \in Nat, n \in T PROVE n + 1 \in T
    <2> SUFFICES ASSUME n + 1 <= N PROVE Least(k, HowMany(l(n + 1), A)) = Least(k, HowMany(s(n + 1), B))
      OBVIOUS
    <2> DEFINE x == locals[n + 1]
               y == shards[n + 1]
    <2>1. n <= N /\ n \in 0..N /\ n + 1 \in 1..N
      BY <1>3
    <2>2. l(n) \in Seq(S) /\ s(n) \in Seq(Q) /\ x \in Seq(S) /\ y \in Seq(Q)
      <3>1. Pre(locals, n) \in Lists(S) /\ Pre(shards, n) \in Lists(Q)
        BY <1>1, <1>2, <2>1
      <3> QED BY <1>1, <1>2, <3>1, FlattenTyped
    <2>3. l(n + 1) = l(n) \o x /\ s(n + 1) = s(n) \o y
      <3>1. FlattenSeq(Append(Pre(locals, n), x)) = FlattenSeq(Pre(locals, n)) \o x
        BY <1>1, <2>1, <2>2, FlattenAppend
      <3>2. FlattenSeq(Append(Pre(shards, n), y)) = FlattenSeq(Pre(shards, n)) \o y
        BY <1>2, <2>1, <2>2, FlattenAppend
      <3> QED BY <1>1, <1>2, <3>1, <3>2
    <2>4. Least(k, HowMany(l(n), A)) = Least(k, HowMany(s(n), B))
      BY <1>5, <2>1
    <2>5. HowMany(x, A) = Least(k, HowMany(y, B))
      BY <2>1 DEF N, ShardsAnswer
    <2> HIDE DEF l, s, x, y
    <2>6. /\ HowMany(l(n), A) \in Nat /\ HowMany(x, A) \in Nat /\ HowMany(l(n + 1), A) = HowMany(l(n), A) + HowMany(x, A)
          /\ HowMany(s(n), B) \in Nat /\ HowMany(y, B) \in Nat /\ HowMany(s(n + 1), B) = HowMany(s(n), B) + HowMany(y, B)
      <3>1. /\ HowMany(l(n), A) \in Nat /\ HowMany(x, A) \in Nat
            /\ HowMany(l(n) \o x, A) = HowMany(l(n), A) + HowMany(x, A)
        BY <2>2, HowManyConcat
      <3>2. /\ HowMany(s(n), B) \in Nat /\ HowMany(y, B) \in Nat
            /\ HowMany(s(n) \o y, B) = HowMany(s(n), B) + HowMany(y, B)
        BY <2>2, HowManyConcat
      <3> QED BY <2>3, <3>1, <3>2
    <2>7. Least(k, HowMany(l(n), A) + Least(k, HowMany(y, B))) = Least(k, HowMany(s(n), B) + HowMany(y, B))
      BY <2>4, <2>6, LeastOfParts
    <2> QED BY <2>5, <2>6, <2>7, Zenon
  <1> HIDE DEF T
  <1>6. \A n \in Nat : n \in T
    BY <1>4, <1>5, Induction
  <1>7. N \in T /\ N <= N
    BY <1>3, <1>6
  <1> QED BY <1>1, <1>2, <1>7 DEF T

\* A function of the elements; the elements it makes one of P; those it puts within t; what it makes of each.
Maps(g, Q, S) == g \in [Q -> S]
Into(g, Q, P) == {r \in Q : g[r] \in P}
Under(g, Q, t) == {r \in Q : g[r].d <= t}
Of(g, s) == [i \in DOMAIN s |-> g[s[i]]]

\* What a function makes of a sequence is as long, and has as many of P as the sequence has that become one.
LEMMA OfTyped ==
    ASSUME NEW S, NEW Q, NEW g, Maps(g, Q, S), NEW s \in Seq(Q), NEW P
    PROVE  /\ Of(g, s) \in Seq(S) /\ Len(Of(g, s)) = Len(s)
           /\ HowMany(Of(g, s), P) = HowMany(s, Into(g, Q, P))
  <1>1. DOMAIN Of(g, s) = DOMAIN s /\ DOMAIN s = 1..Len(s) /\ Len(s) \in Nat
    BY DEF Of
  <1>2. \A i \in DOMAIN s : Of(g, s)[i] = g[s[i]] /\ s[i] \in Q /\ g[s[i]] \in S
    BY DEF Of, Maps
  <1>3. Of(g, s) \in Seq(S) /\ Len(Of(g, s)) = Len(s)
    BY <1>1, <1>2 DEF Of
  <1>4. {i \in DOMAIN Of(g, s) : Of(g, s)[i] \in P} = {i \in DOMAIN s : s[i] \in Into(g, Q, P)}
    BY <1>1, <1>2 DEF Into
  <1> QED BY <1>3, <1>4 DEF HowMany

\* Hits in order, as many of them within any distance as of what the rows give, or k.
AreBest(top, rows, g, Q, S, k) ==
    /\ top \in Seq(S)
    /\ \A i, j \in 1..Len(top) : i <= j => top[i].d <= top[j].d
    /\ \A t \in Int : HowMany(top, Nearby(S, t)) = Least(k, HowMany(rows, Under(g, Q, t)))

\* The first k of what is made of some rows.
LEMMA LocalIsBest ==
    ASSUME NEW S, HaveDistances(S), NEW Q, NEW g, Maps(g, Q, S), NEW y \in Seq(Q), NEW k \in Nat
    PROVE  AreBest(TopK(Of(g, y), k), y, g, Q, S, k)
  <1> DEFINE of == Of(g, y)
  <1>1. of \in Seq(S)
    BY OfTyped
  <1>2. ASSUME NEW t \in Int PROVE HowMany(of, Nearby(S, t)) = HowMany(y, Under(g, Q, t))
    <2>1. Into(g, Q, Nearby(S, t)) = Under(g, Q, t)
      BY DEF Nearby, Into, Under, Maps
    <2> DEFINE P == Nearby(S, t)
    <2> HIDE DEF P
    <2>2. HowMany(Of(g, y), P) = HowMany(y, Into(g, Q, P))
      BY OfTyped
    <2> QED BY <2>1, <2>2 DEF P
  <1> HIDE DEF of
  <1>3. AreHits(of, S)
    BY <1>1 DEF AreHits
  <1>4. AreFirst(TopK(of, k), of, k, S)
    BY <1>3, TopKIsNearest
  <1>5. AreBest(TopK(of, k), y, g, Q, S, k)
    BY <1>2, <1>4 DEF AreFirst, AreBest
  <1> QED BY <1>5 DEF of

\* The first k of the shards' first k have as many within any distance as all
\* rows, or k.
LEMMA MergeIsNearest ==
    ASSUME NEW S, HaveDistances(S), NEW Q, NEW g, Maps(g, Q, S), NEW shards \in Lists(Q), NEW k \in Nat,
           NEW locals, locals = [s \in DOMAIN shards |-> TopK(Of(g, shards[s]), k)]
    PROVE  AreBest(MergeTopK(locals, k), FlattenSeq(shards), g, Q, S, k)
  <1>1. Len(shards) \in Nat /\ DOMAIN shards = 1..Len(shards) /\ \A s \in 1..Len(shards) : shards[s] \in Seq(Q)
    BY ListShape
  <1>2. ASSUME NEW s \in 1..Len(shards)
        PROVE  /\ locals[s] \in Seq(S)
               /\ \A t \in Int : HowMany(locals[s], Nearby(S, t)) = Least(k, HowMany(shards[s], Under(g, Q, t)))
    <2> DEFINE y == shards[s]
    <2>1. y \in Seq(Q) /\ locals[s] = TopK(Of(g, y), k)
      BY <1>1
    <2> HIDE DEF y
    <2>2. AreBest(locals[s], y, g, Q, S, k)
      BY <2>1, LocalIsBest
    <2> QED BY <2>2 DEF AreBest, y
  <1>3. locals \in Lists(S) /\ Len(locals) = Len(shards)
    <2> DEFINE R == Seq(S)
    <2>1. \A s \in 1..Len(shards) : locals[s] \in R
      BY <1>2
    <2> HIDE DEF R
    <2>2. locals \in Seq(R) /\ Len(locals) = Len(shards)
      BY <1>1, <2>1
    <2> QED BY <2>2 DEF R, Lists
  <1> DEFINE all == FlattenSeq(locals)
  <1>4. all \in Seq(S)
    BY <1>3, FlattenTyped
  <1>5. AreFirst(TopK(all, k), all, k, S)
    <2>1. AreHits(all, S)
      BY <1>4 DEF AreHits
    <2> HIDE DEF all
    <2> QED BY <2>1, TopKIsNearest
  <1>6. \A t \in Int : Least(k, HowMany(all, Nearby(S, t))) = Least(k, HowMany(FlattenSeq(shards), Under(g, Q, t)))
    <2> TAKE t \in Int
    <2>1. \A s \in 1..Len(shards) : HowMany(locals[s], Nearby(S, t)) = Least(k, HowMany(shards[s], Under(g, Q, t)))
      BY <1>2
    <2> DEFINE A == Nearby(S, t)
               B == Under(g, Q, t)
    <2> HIDE DEF A, B
    <2>2. ShardsAnswer(locals, shards, A, B, k)
      BY <2>1 DEF A, B, ShardsAnswer
    <2>3. Least(k, HowMany(FlattenSeq(locals), A)) = Least(k, HowMany(FlattenSeq(shards), B))
      BY <1>3, <2>2, MergedCounts
    <2> QED BY <2>3 DEF A, B
  <1> HIDE DEF all
  <1>7. MergeTopK(locals, k) = TopK(all, k)
    BY DEF MergeTopK, all
  <1> QED BY <1>5, <1>6, <1>7 DEF AreFirst, AreBest

-----------------------------------------------------------------------------
(* The nearest rows. *)
\* A corpus of rows: an id names one of them.
WellCut(shards) ==
    /\ shards \in Lists(CorpusRows(shards))
    /\ \A r, s \in CorpusRows(shards) : r.pos \in Int /\ (r.id = s.id => r = s)

\* Every corpus is one of rows.
LEMMA CorporaWellCut == corpus \in Corpora => WellCut(corpus)
  BY SearchAssumption DEF WellCut, Lists

\* The distance of two positions.
LEMMA GapTyped == ASSUME NEW x \in Int, NEW y \in Int PROVE Gap(x, y) \in Nat
  BY DEF Gap

\* All rows, and the row of an id.
LEMMA AllRowsTyped ==
    ASSUME WellCut(corpus)
    PROVE  /\ AllRows \in Seq(CorpusRows(corpus)) /\ Len(AllRows) \in Nat /\ DOMAIN AllRows = 1..Len(AllRows)
           /\ CorpusRows(corpus) = {AllRows[i] : i \in 1..Len(AllRows)}
  <1>1. AllRows \in Seq(CorpusRows(corpus))
    BY FlattenTyped DEF WellCut, AllRows
  <1>2. CorpusRows(corpus) = ToSet(AllRows)
    BY DEF CorpusRows, AllRows
  <1> HIDE DEF AllRows
  <1>3. Len(AllRows) \in Nat /\ DOMAIN AllRows = 1..Len(AllRows)
    BY <1>1
  <1> QED BY <1>1, <1>2, <1>3 DEF ToSet

\* The row of a row's id is the row.
LEMMA RowOfId ==
    ASSUME WellCut(corpus), NEW r \in CorpusRows(corpus)
    PROVE  RowOf(r.id) = r
  <1> DEFINE I == {i \in 1..Len(AllRows) : AllRows[i].id = r.id}
  <1>1. RowOf(r.id) = AllRows[IF I # {} THEN Min(I) ELSE 0]
    BY DEF RowOf, SelectInSeq
  <1>2. PICK i \in 1..Len(AllRows) : r = AllRows[i]
    BY AllRowsTyped
  <1>3. I \in SUBSET Nat /\ i \in I
    BY <1>2, AllRowsTyped
  <1>4. Min(I) \in I
    <2> HIDE DEF I
    <2> QED BY <1>3, LeastNumber
  <1>5. AllRows[Min(I)] \in CorpusRows(corpus) /\ AllRows[Min(I)].id = r.id
    BY <1>4, AllRowsTyped
  <1>6. AllRows[Min(I)] = r
    BY <1>5 DEF WellCut
  <1>7. I # {}
    BY <1>3
  <1> HIDE DEF I
  <1> QED BY <1>1, <1>6, <1>7

\* What is made of the rows names them, and ranks them by their distance to q.
Ranks(g, Q, S, q) ==
    /\ \A r \in Q : g[r].id = r.id
    /\ \A r, s \in Q : Gap(r.pos, q) <= Gap(s.pos, q) <=> g[r].d <= g[s].d
    /\ \A h \in S : \E r \in Q : h = g[r]

\* The best of what ranks the rows are the nearest.
LEMMA BestAreNearest ==
    ASSUME WellCut(corpus), NEW q \in Int, NEW k \in Nat, NEW S, NEW g, Maps(g, CorpusRows(corpus), S), HaveDistances(S),
           Ranks(g, CorpusRows(corpus), S, q), NEW top, AreBest(top, AllRows, g, CorpusRows(corpus), S, k)
    PROVE  NearestGaps(Gaps(top, q), q, k)
  <1> DEFINE Q == CorpusRows(corpus)
             ds == Gaps(top, q)
             all == AllGaps(q)
             M == Len(top)
             N == Len(AllRows)
  <1>1. M \in Nat /\ DOMAIN top = 1..M /\ \A i \in 1..M : top[i] \in S
    BY DEF AreBest
  <1>2. N \in Nat /\ DOMAIN AllRows = 1..N /\ Q = {AllRows[i] : i \in 1..N} /\ \A i \in 1..N : AllRows[i] \in Q
    BY AllRowsTyped
  <1>3. \A r \in Q : r.pos \in Int /\ Gap(r.pos, q) \in Nat /\ g[r] \in S /\ g[r].d \in Int
    BY GapTyped DEF WellCut, Maps, HaveDistances
  <1>4. DOMAIN ds = 1..M /\ DOMAIN all = 1..N /\ \A i \in 1..N : all[i] = Gap(AllRows[i].pos, q)
    BY <1>1, <1>2 DEF Gaps, AllGaps
  <1>5. \A i \in 1..M : \E r \in Q : top[i] = g[r] /\ ds[i] = Gap(r.pos, q)
    <2> TAKE i \in 1..M
    <2>1. PICK r \in Q : top[i] = g[r]
      BY <1>1 DEF Ranks
    <2>2. RowOf(top[i].id) = r
      BY <2>1, RowOfId DEF Ranks
    <2> QED BY <1>1, <2>1, <2>2 DEF Gaps
  <1> HIDE DEF ds, all, M, N, Q
  <1>6. \A i, j \in 1..M : i <= j => ds[i] <= ds[j]
    <2> SUFFICES ASSUME NEW i \in 1..M, NEW j \in 1..M, i <= j PROVE ds[i] <= ds[j]
      OBVIOUS
    <2>1. top[i].d <= top[j].d
      BY DEF AreBest, M
    <2> QED BY <1>5, <2>1 DEF Ranks, Q
  <1>7. ASSUME NEW r \in Q
        PROVE  Within(ds, Gap(r.pos, q)) = Min({k, Within(all, Gap(r.pos, q))})
    <2> DEFINE t == g[r].d
               u == Gap(r.pos, q)
    <2>1. t \in Int /\ u \in Nat
      BY <1>3
    <2>2. \A s \in Q : Gap(s.pos, q) <= u <=> g[s].d <= t
      BY DEF Ranks, Q
    <2>3. \A i \in 1..M : ds[i] <= u <=> top[i] \in Nearby(S, t)
      BY <1>1, <1>5, <2>2 DEF Nearby
    <2>4. \A i \in 1..N : all[i] <= u <=> AllRows[i] \in Under(g, Q, t)
      BY <1>2, <1>4, <2>2 DEF Under
    <2> HIDE DEF t, u
    <2>5. Within(ds, u) = HowMany(top, Nearby(S, t))
      <3>1. {i \in DOMAIN ds : ds[i] <= u} = {i \in DOMAIN top : top[i] \in Nearby(S, t)}
        BY <1>1, <1>4, <2>3
      <3> QED BY <3>1 DEF Within, HowMany
    <2>6. Within(all, u) = HowMany(AllRows, Under(g, Q, t))
      <3>1. {i \in DOMAIN all : all[i] <= u} = {i \in DOMAIN AllRows : AllRows[i] \in Under(g, Q, t)}
        BY <1>2, <1>4, <2>4
      <3> QED BY <3>1 DEF Within, HowMany
    <2>7. HowMany(top, Nearby(S, t)) = Least(k, HowMany(AllRows, Under(g, Q, t)))
      BY <2>1 DEF AreBest, Q
    <2>8. HowMany(AllRows, Under(g, Q, t)) \in Nat
      <3>1. AllRows \in Seq(Q)
        BY AllRowsTyped DEF Q
      <3> QED BY <3>1, HowManyConcat
    <2>9. Min({k, Within(all, u)}) = Least(k, Within(all, u))
      BY <2>6, <2>8, MinIsLeast
    <2>10. Within(ds, u) = Min({k, Within(all, u)})
      BY <2>5, <2>6, <2>7, <2>9
    <2> QED BY <2>10 DEF u
  <1>8. \A t \in ToSet(ds) \cup ToSet(all) : \E r \in Q : t = Gap(r.pos, q)
    <2> TAKE t \in ToSet(ds) \cup ToSet(all)
    <2>1. CASE t \in ToSet(ds)
      <3>1. PICK i \in 1..M : t = ds[i]
        BY <1>4, <2>1 DEF ToSet
      <3> QED BY <1>5, <3>1
    <2>2. CASE t \in ToSet(all)
      <3>1. PICK i \in 1..N : t = all[i]
        BY <1>4, <2>2 DEF ToSet
      <3> QED BY <1>2, <1>4, <3>1
    <2> QED BY <2>1, <2>2
  <1>9. AreNearest(ds, all, k)
    BY <1>4, <1>6, <1>7, <1>8 DEF AreNearest
  <1> QED BY <1>9 DEF NearestGaps, ds, all

\* What is made of a shard's rows, and of the shards'.
LEMMA ShardsTyped ==
    ASSUME WellCut(corpus)
    PROVE  /\ corpus \in Lists(CorpusRows(corpus)) /\ DOMAIN corpus = 1..Len(corpus) /\ Len(corpus) \in Nat
           /\ \A s \in DOMAIN corpus : corpus[s] \in Seq(CorpusRows(corpus))
           /\ \A s \in DOMAIN corpus : \A i \in DOMAIN corpus[s] : corpus[s][i] \in CorpusRows(corpus)
  <1> DEFINE Q == CorpusRows(corpus)
  <1>1. corpus \in Lists(Q)
    BY DEF WellCut
  <1> HIDE DEF Q
  <1>2. DOMAIN corpus = 1..Len(corpus) /\ Len(corpus) \in Nat /\ \A s \in 1..Len(corpus) : corpus[s] \in Seq(Q)
    BY <1>1, ListShape
  <1>3. \A s \in DOMAIN corpus : \A i \in DOMAIN corpus[s] : corpus[s][i] \in Q
    <2> SUFFICES ASSUME NEW s \in DOMAIN corpus PROVE \A i \in DOMAIN corpus[s] : corpus[s][i] \in Q
      OBVIOUS
    <2> DEFINE y == corpus[s]
    <2>1. y \in Seq(Q)
      BY <1>2
    <2> HIDE DEF y
    <2>2. \A i \in DOMAIN y : y[i] \in Q
      BY <2>1
    <2> QED BY <2>2 DEF y
  <1> QED BY <1>1, <1>2, <1>3 DEF Q

Gapped(Q, q) == [r \in Q |-> Hit(r, Gap(r.pos, q))]
GappedOf(Q, q) == {Gapped(Q, q)[r] : r \in Q}

\* DuckDB's distances rank the rows.
LEMMA GappedRank ==
    ASSUME WellCut(corpus), NEW q \in Int
    PROVE  /\ Maps(Gapped(CorpusRows(corpus), q), CorpusRows(corpus), GappedOf(CorpusRows(corpus), q))
           /\ HaveDistances(GappedOf(CorpusRows(corpus), q))
           /\ Ranks(Gapped(CorpusRows(corpus), q), CorpusRows(corpus), GappedOf(CorpusRows(corpus), q), q)
           /\ \A r \in CorpusRows(corpus) : /\ Gapped(CorpusRows(corpus), q)[r] = Hit(r, Gap(r.pos, q))
                                       /\ Gapped(CorpusRows(corpus), q)[r].d = Gap(r.pos, q)
  <1> DEFINE Q == CorpusRows(corpus)
             g == Gapped(Q, q)
             S == GappedOf(Q, q)
  <1>1. \A r \in Q : g[r] = Hit(r, Gap(r.pos, q)) /\ g[r].id = r.id /\ g[r].d = Gap(r.pos, q) /\ Gap(r.pos, q) \in Nat
    BY GapTyped DEF Hit, WellCut, Gapped
  <1>2. S = {g[r] : r \in Q} /\ g = [r \in Q |-> g[r]]
    BY Zenon DEF GappedOf, Gapped
  <1> HIDE DEF g, S
  <1>3. Maps(g, Q, S)
    BY <1>2 DEF Maps
  <1>4. HaveDistances(S)
    BY <1>1, <1>2 DEF HaveDistances
  <1>5. Ranks(g, Q, S, q)
    BY <1>1, <1>2 DEF Ranks
  <1> QED BY <1>1, <1>3, <1>4, <1>5 DEF g, S

\* A search of some rows is the first k of what it makes of them.
LEMMA KnnIsFirst ==
    ASSUME WellCut(corpus), NEW q \in Int, NEW k \in Nat, NEW y, \A i \in DOMAIN y : y[i] \in CorpusRows(corpus)
    PROVE  Knn(y, q, k) = TopK(Of(Gapped(CorpusRows(corpus), q), y), k)
  <1> DEFINE g == Gapped(CorpusRows(corpus), q)
  <1>1. \A i \in DOMAIN y : g[y[i]] = Hit(y[i], Gap(y[i].pos, q))
    BY GappedRank
  <1> HIDE DEF g
  <1>2. Of(g, y) = [i \in DOMAIN y |-> Hit(y[i], Gap(y[i].pos, q))]
    BY <1>1, Zenon DEF Of
  <1> QED BY <1>2, Zenon DEF Knn, g

\* Exact search over the shards answers with the nearest rows of the corpus.
LEMMA KnnIsNearest ==
    ASSUME WellCut(corpus), NEW q \in Int, NEW k \in Nat
    PROVE  NearestGaps(Gaps(DistributedKnn(corpus, q, k), q), q, k)
  <1> DEFINE Q == CorpusRows(corpus)
             g == Gapped(Q, q)
             S == GappedOf(Q, q)
             locals == [s \in DOMAIN corpus |-> TopK(Of(g, corpus[s]), k)]
             top == DistributedKnn(corpus, q, k)
  <1>1. Maps(g, Q, S) /\ HaveDistances(S) /\ Ranks(g, Q, S, q)
    BY GappedRank
  <1>2. top = MergeTopK(locals, k)
    <2>1. \A s \in DOMAIN corpus : Knn(corpus[s], q, k) = TopK(Of(g, corpus[s]), k)
      BY ShardsTyped, KnnIsFirst
    <2> HIDE DEF g
    <2>2. [s \in DOMAIN corpus |-> Knn(corpus[s], q, k)] = locals
      BY <2>1, Zenon
    <2> QED BY <2>2, Zenon DEF DistributedKnn
  <1> HIDE DEF g, S
  <1>3. AreBest(MergeTopK(locals, k), FlattenSeq(corpus), g, Q, S, k)
    BY <1>1, ShardsTyped, MergeIsNearest
  <1> HIDE DEF top, locals
  <1>4. AreBest(top, AllRows, g, Q, S, k)
    BY <1>2, <1>3, Zenon DEF AllRows
  <1>5. NearestGaps(Gaps(top, q), q, k)
    BY <1>1, <1>4, BestAreNearest
  <1> QED BY <1>5 DEF top

\* Squares are in the order of the numbers.
LEMMA SquareOrder ==
    ASSUME NEW a \in Nat, NEW b \in Nat
    PROVE  a * a \in Nat /\ (a <= b <=> a * a <= b * b)
  <1>1. a * a \in Nat /\ b * b \in Nat
    OBVIOUS
  <1>2. a <= b => a * a <= b * b
    <2> SUFFICES ASSUME a <= b PROVE a * a <= b * b
      OBVIOUS
    <2>1. PICK c \in Nat : b = a + c
      <3>1. b - a \in Nat /\ b = a + (b - a)
        OBVIOUS
      <3> QED BY <3>1
    <2>2. b * b = a * a + (2 * (a * c) + c * c) /\ a * c \in Nat /\ c * c \in Nat
      BY <2>1
    <2> QED BY <1>1, <2>2
  <1>3. b < a => b * b < a * a
    <2> SUFFICES ASSUME b < a PROVE b * b < a * a
      OBVIOUS
    <2>1. PICK c \in Nat : a = (b + 1) + c
      <3>1. a - b - 1 \in Nat /\ a = (b + 1) + (a - b - 1)
        OBVIOUS
      <3> QED BY <3>1
    <2>2. a * a = b * b + (2 * (b * c) + 2 * b + c * c + 2 * c) + 1 /\ b * c \in Nat /\ c * c \in Nat
      BY <2>1
    <2> QED BY <1>1, <2>2
  <1> QED BY <1>1, <1>2, <1>3

Squares(Q, q) == [r \in Q |-> Hit(r, Squared(r, q))]
SquaresOf(Q, q) == {Squares(Q, q)[r] : r \in Q}

\* The workers' distances rank the rows as the true ones do.
LEMMA SquaresRank ==
    ASSUME WellCut(corpus), NEW q \in Int
    PROVE  LET Q == CorpusRows(corpus)
           IN  /\ Maps(Squares(Q, q), Q, SquaresOf(Q, q)) /\ HaveDistances(SquaresOf(Q, q))
               /\ Ranks(Squares(Q, q), Q, SquaresOf(Q, q), q)
               /\ \A r \in Q : Squares(Q, q)[r] = Hit(r, Squared(r, q)) /\ Squared(r, q) \in Nat
  <1> DEFINE Q == CorpusRows(corpus)
             g == Squares(Q, q)
             S == SquaresOf(Q, q)
  <1>1. \A r \in Q : g[r] = Hit(r, Squared(r, q))
    BY DEF Squares
  <1>2. \A r \in Q : Gap(r.pos, q) \in Nat
    BY GapTyped DEF WellCut
  <1>3. \A r \in Q : Squared(r, q) \in Nat
    BY <1>2, SquareOrder DEF Squared
  <1>4. \A r, s \in Q : Gap(r.pos, q) <= Gap(s.pos, q) <=> Squared(r, q) <= Squared(s, q)
    BY <1>2, SquareOrder DEF Squared
  <1>5. S = {g[r] : r \in Q} /\ Maps(g, Q, S)
    <2>1. S = {g[r] : r \in Q}
      BY Zenon DEF SquaresOf
    <2>2. g = [r \in Q |-> g[r]] /\ \A r \in Q : g[r] \in S
      BY <2>1 DEF Squares
    <2> HIDE DEF g, S, Q
    <2>3. Maps(g, Q, S)
      BY <2>2 DEF Maps
    <2> QED BY <2>1, <2>3
  <1> HIDE DEF g, S, Q
  <1>6. \A r \in Q : g[r].id = r.id /\ g[r].d = Squared(r, q)
    <2> TAKE r \in Q
    <2> DEFINE d == Squared(r, q)
    <2>1. g[r] = Hit(r, d)
      BY <1>1
    <2> HIDE DEF d
    <2>2. Hit(r, d).id = r.id /\ Hit(r, d).d = d
      BY DEF Hit
    <2> QED BY <2>1, <2>2 DEF d
  <1>7. HaveDistances(S)
    BY <1>3, <1>5, <1>6 DEF HaveDistances
  <1>8. Ranks(g, Q, S, q)
    <2>1. \A h \in S : \E r \in Q : h = g[r]
      BY <1>5
    <2> QED BY <1>4, <1>6, <2>1 DEF Ranks
  <1> QED BY <1>1, <1>3, <1>5, <1>7, <1>8 DEF g, S, Q

\* A worker's answer is the first k of what it makes of its rows.
LEMMA ShardIsFirst ==
    ASSUME WellCut(corpus), NEW q \in Int, NEW k \in Nat, NEW s \in DOMAIN corpus
    PROVE  VectorExactShard(corpus[s], q, k) = TopK(Of(Squares(CorpusRows(corpus), q), corpus[s]), k)
  <1> DEFINE g == Squares(CorpusRows(corpus), q)
  <1>1. \A i \in DOMAIN corpus[s] : g[corpus[s][i]] = Hit(corpus[s][i], Squared(corpus[s][i], q))
    BY ShardsTyped, SquaresRank
  <1> HIDE DEF g
  <1>2. Of(g, corpus[s]) = [i \in DOMAIN corpus[s] |-> Hit(corpus[s][i], Squared(corpus[s][i], q))]
    BY <1>1, Zenon DEF Of
  <1> QED BY <1>2, Zenon DEF VectorExactShard, g

\* So do the workers that keep the shards.
LEMMA ResidentIsNearest ==
    ASSUME WellCut(corpus), NEW q \in Int, NEW k \in Nat
    PROVE  NearestGaps(Gaps(DistributedResident(corpus, q, k), q), q, k)
  <1> DEFINE Q == CorpusRows(corpus)
             g == Squares(Q, q)
             S == SquaresOf(Q, q)
             locals == [s \in DOMAIN corpus |-> TopK(Of(g, corpus[s]), k)]
             top == DistributedResident(corpus, q, k)
  <1>1. Maps(g, Q, S) /\ HaveDistances(S) /\ Ranks(g, Q, S, q)
    BY SquaresRank
  <1>2. top = MergeTopK(locals, k)
    <2>1. [s \in DOMAIN corpus |-> VectorExactShard(corpus[s], q, k)] = locals
      BY ShardIsFirst
    <2> QED BY <2>1, Zenon DEF DistributedResident
  <1> HIDE DEF g, S
  <1>3. AreBest(MergeTopK(locals, k), FlattenSeq(corpus), g, Q, S, k)
    BY <1>1, ShardsTyped, MergeIsNearest
  <1> HIDE DEF top, locals
  <1>4. AreBest(top, AllRows, g, Q, S, k)
    BY <1>2, <1>3, Zenon DEF AllRows
  <1>5. NearestGaps(Gaps(top, q), q, k)
    BY <1>1, <1>4, BestAreNearest
  <1> QED BY <1>5 DEF top

-----------------------------------------------------------------------------
(* A batch of queries. *)
\* The elements of a set, each as a sequence of its own; what is not of it is dropped.
Picker(S, P) == [x \in S |-> IF x \in P THEN <<x>> ELSE <<>>]
Picked(S, P, s) ==
    /\ FlatMap(Picker(S, P), s) \in Seq(P)
    /\ ToSet(FlatMap(Picker(S, P), s)) = ToSet(s) \cap P
    /\ \A A \in SUBSET P : HowMany(FlatMap(Picker(S, P), s), A) = HowMany(s, A)

\* Picking takes what is in the set, as often as it is there.
LEMMA PickerPicks ==
    ASSUME NEW S, NEW P \in SUBSET S, NEW s \in Seq(S)
    PROVE  Picked(S, P, s)
  <1> DEFINE h == Picker(S, P)
             T == {x \in Seq(S) : Picked(S, P, x)}
  <1>1. \A x \in S : h[x] = IF x \in P THEN <<x>> ELSE <<>>
    BY DEF Picker
  <1>2. Gives(h, S, P)
    <2>1. ASSUME NEW x \in S PROVE h[x] \in Seq(P)
      <3>1. CASE x \in P
        <4>1. <<x>> \in Seq(P)
          BY <3>1
        <4> QED BY <1>1, <3>1, <4>1, Zenon
      <3>2. CASE x \notin P
        <4>1. <<>> \in Seq(P)
          OBVIOUS
        <4> QED BY <1>1, <3>2, <4>1, Zenon
      <3> QED BY <3>1, <3>2
    <2> HIDE DEF h
    <2> QED BY <2>1, Zenon DEF Gives
  <1> HIDE DEF h
  <1>3. <<>> \in T
    <2>1. FlatMap(h, <<>>) = <<>> /\ <<>> \in Seq(P) /\ <<>> \in Seq(S) /\ ToSet(<<>>) = {}
      BY FlatMapNil DEF ToSet
    <2> QED BY <2>1, HowManyNil DEF Picked, h
  <1>4. ASSUME NEW x \in Seq(S), NEW e \in S, x \in T PROVE Append(x, e) \in T
    <2> DEFINE y == Append(x, e)
               f == FlatMap(h, x)
               u == FlatMap(h, y)
    <2>1. f \in Seq(P) /\ ToSet(f) = ToSet(x) \cap P /\ \A A \in SUBSET P : HowMany(f, A) = HowMany(x, A)
      BY <1>4 DEF Picked, h
    <2>2. u = f \o h[e]
      BY <1>2, FlatMapAppend
    <2>3. y \in Seq(S) /\ ToSet(y) = ToSet(x) \cup {e}
      <3>1. y \in Seq(S) /\ Len(y) = Len(x) + 1 /\ y[Len(x) + 1] = e /\ \A i \in 1..Len(x) : y[i] = x[i]
        OBVIOUS
      <3>2. DOMAIN x = 1..Len(x) /\ DOMAIN y = 1..(Len(x) + 1) /\ Len(x) \in Nat
        OBVIOUS
      <3> HIDE DEF y
      <3> QED BY <3>1, <3>2 DEF ToSet
    <2>4. \A A \in SUBSET P : HowMany(y, A) = HowMany(x, A) + (IF e \in A THEN 1 ELSE 0) /\ HowMany(x, A) \in Nat
      BY HowManyAppend
    <2>5. CASE e \in P
      <3>1. u = Append(f, e)
        <4> HIDE DEF f, u
        <4>1. u = f \o <<e>>
          BY <1>1, <2>2, <2>5, Zenon
        <4> QED BY <2>1, <2>5, <4>1
      <3>2. u \in Seq(P) /\ ToSet(u) = ToSet(f) \cup {e}
        <4> HIDE DEF f, u
        <4>1. u \in Seq(P) /\ Len(u) = Len(f) + 1 /\ u[Len(f) + 1] = e /\ \A i \in 1..Len(f) : u[i] = f[i]
          BY <2>1, <2>5, <3>1
        <4>2. DOMAIN f = 1..Len(f) /\ DOMAIN u = 1..(Len(f) + 1) /\ Len(f) \in Nat
          BY <2>1, <4>1
        <4> QED BY <4>1, <4>2 DEF ToSet
      <3> HIDE DEF f, u, y
      <3>3. \A A \in SUBSET P : HowMany(u, A) = HowMany(f, A) + IF e \in A THEN 1 ELSE 0
        BY <2>1, <2>5, <3>1, HowManyAppend
      <3>4. \A A \in SUBSET P : HowMany(u, A) = HowMany(y, A)
        BY <2>1, <2>4, <3>3
      <3>5. Picked(S, P, y)
        <4>1. ToSet(u) = ToSet(y) \cap P
          BY <2>1, <2>3, <2>5, <3>2
        <4>2. u = FlatMap(Picker(S, P), y)
          BY Zenon DEF h, u
        <4> QED BY <3>2, <3>4, <4>1, <4>2 DEF Picked
      <3> QED BY <2>3, <3>5 DEF y
    <2>6. CASE e \notin P
      <3>1. u = f
        <4> HIDE DEF f, u
        <4>1. u = f \o <<>>
          BY <1>1, <2>2, <2>6, Zenon
        <4> QED BY <2>1, <4>1
      <3> HIDE DEF f, u, y
      <3>2. \A A \in SUBSET P : HowMany(u, A) = HowMany(y, A)
        BY <2>1, <2>4, <2>6, <3>1
      <3>3. Picked(S, P, y)
        <4>1. ToSet(u) = ToSet(y) \cap P /\ u \in Seq(P)
          BY <2>1, <2>3, <2>6, <3>1
        <4>2. u = FlatMap(Picker(S, P), y)
          BY Zenon DEF h, u
        <4> QED BY <3>2, <4>1, <4>2 DEF Picked
      <3> QED BY <2>3, <3>3 DEF y
    <2> QED BY <2>5, <2>6
  <1> HIDE DEF T
  <1>5. \A x \in Seq(S) : x \in T
    BY <1>3, <1>4, SeqInduction
  <1> QED BY <1>5 DEF T

Says(s, yes, P) == \A i \in DOMAIN s : yes[i] \in BOOLEAN /\ (yes[i] <=> s[i] \in P)

\* Those of a sequence that are in the set.
LEMMA ThoseArePicked ==
    ASSUME NEW S, NEW P \in SUBSET S, NEW s \in Seq(S), NEW yes, Says(s, yes, P)
    PROVE  /\ Those(s, yes) \in Seq(P) /\ ToSet(Those(s, yes)) = ToSet(s) \cap P
           /\ \A A \in SUBSET P : HowMany(Those(s, yes), A) = HowMany(s, A)
  <1> DEFINE h == Picker(S, P)
             Pick(i) == IF yes[i] THEN <<s[i]>> ELSE <<>>
  <1>1. ASSUME NEW i \in DOMAIN s PROVE h[s[i]] = Pick(i)
    <2>1. s[i] \in S
      OBVIOUS
    <2>2. h[s[i]] = IF s[i] \in P THEN <<s[i]>> ELSE <<>>
      BY <2>1 DEF Picker
    <2>3. yes[i] <=> s[i] \in P
      BY DEF Says
    <2> HIDE DEF h
    <2> QED BY <2>2, <2>3, Zenon
  <1> HIDE DEF Pick, h
  <1>2. [i \in DOMAIN s |-> h[s[i]]] = [i \in DOMAIN s |-> Pick(i)]
    BY <1>1, Zenon
  <1>3. FlatMap(h, s) = Those(s, yes)
    BY <1>2, Zenon DEF FlatMap, Those, Pick
  <1>4. Picked(S, P, s)
    BY PickerPicks
  <1> QED BY <1>3, <1>4, Zenon DEF Picked, h

OnlyIn(z, i, A) == \A j \in 1..Len(z) : j # i => HowMany(z[j], A) = 0

\* Where only one part of a list has elements of a set, the list has as many.
LEMMA OneCounts ==
    ASSUME NEW S, NEW z \in Lists(S), NEW i \in 1..Len(z), NEW A, OnlyIn(z, i, A)
    PROVE  HowMany(FlattenSeq(z), A) = HowMany(z[i], A)
  <1> DEFINE N == Len(z)
             l(n) == FlattenSeq(Pre(z, n))
             c == HowMany(z[i], A)
             T == {n \in Nat : n <= N => HowMany(l(n), A) = IF i <= n THEN c ELSE 0}
  <1>1. /\ Pre(z, 0) = <<>> /\ Pre(z, N) = z
        /\ \A n \in 0..N : Pre(z, n) \in Lists(S)
        /\ \A n \in Nat : n + 1 <= N => Pre(z, n + 1) = Append(Pre(z, n), z[n + 1]) /\ z[n + 1] \in Seq(S)
    BY ListPrefixes
  <1>2. N \in Nat /\ i \in 1..N /\ \A j \in 1..N : z[j] \in Seq(S)
    BY ListShape
  <1>3. \A j \in 1..N : j # i => HowMany(z[j], A) = 0
    BY DEF OnlyIn
  <1> HIDE DEF N
  <1>4. c \in Nat
    <2> DEFINE y == z[i]
    <2>1. y \in Seq(S)
      BY <1>2
    <2> HIDE DEF y
    <2>2. HowMany(y, A) \in Nat
      BY <2>1, HowManyConcat
    <2> QED BY <2>2 DEF y
  <1>5. 0 \in T
    <2>1. l(0) = <<>>
      BY <1>1, FlattenEmpty
    <2> HIDE DEF l, c
    <2>2. HowMany(l(0), A) = 0 /\ ~(i <= 0)
      BY <1>2, <2>1, HowManyNil
    <2> QED BY <2>2
  <1>6. ASSUME NEW n \in Nat, n \in T PROVE n + 1 \in T
    <2> SUFFICES ASSUME n + 1 <= N PROVE HowMany(l(n + 1), A) = IF i <= n + 1 THEN c ELSE 0
      OBVIOUS
    <2> DEFINE x == z[n + 1]
    <2>1. n <= N /\ n \in 0..N /\ n + 1 \in 1..N
      BY <1>2
    <2>2. l(n) \in Seq(S) /\ x \in Seq(S)
      <3>1. Pre(z, n) \in Lists(S)
        BY <1>1, <2>1
      <3> QED BY <1>1, <3>1, FlattenTyped
    <2>3. l(n + 1) = l(n) \o x
      <3>1. FlattenSeq(Append(Pre(z, n), x)) = FlattenSeq(Pre(z, n)) \o x
        BY <1>1, <2>1, <2>2, FlattenAppend
      <3> QED BY <1>1, <3>1
    <2>4. HowMany(l(n), A) = IF i <= n THEN c ELSE 0
      BY <1>6, <2>1
    <2>5. HowMany(x, A) = IF i = n + 1 THEN c ELSE 0
      <3>1. CASE i = n + 1
        BY <3>1
      <3>2. CASE i # n + 1
        <4> HIDE DEF c
        <4> QED BY <1>3, <2>1, <3>2
      <3> QED BY <3>1, <3>2
    <2> HIDE DEF l, x, c
    <2>6. HowMany(l(n) \o x, A) = HowMany(l(n), A) + HowMany(x, A)
      BY <2>2, HowManyConcat
    <2>7. HowMany(l(n + 1), A) = HowMany(l(n), A) + HowMany(x, A)
      BY <2>3, <2>6
    <2>8. i \in Nat
      BY <1>2
    <2>9. CASE i <= n
      BY <1>4, <2>4, <2>5, <2>7, <2>8, <2>9
    <2>10. CASE i = n + 1
      BY <1>4, <2>4, <2>5, <2>7, <2>8, <2>10
    <2>11. CASE ~(i <= n) /\ i # n + 1
      BY <1>4, <2>4, <2>5, <2>7, <2>8, <2>11
    <2> QED BY <2>9, <2>10, <2>11
  <1> HIDE DEF T
  <1>7. \A n \in Nat : n \in T
    BY <1>5, <1>6, Induction
  <1>8. N \in T /\ N <= N /\ i <= N
    BY <1>2, <1>7
  <1> QED BY <1>1, <1>8 DEF T

\* What the batch makes of the rows for its i-th query: hits with the query's number.
Tag(i, h) == [qi |-> i, id |-> h.id, d |-> h.d]
Tagged(Q, i, q) == [r \in Q |-> Tag(i, Squares(Q, q)[r])]
TaggedOf(Q, i, q) == {Tagged(Q, i, q)[r] : r \in Q}

\* They rank the rows, and tell their queries apart.
LEMMA TaggedRank ==
    ASSUME WellCut(corpus), NEW q \in Int, NEW i
    PROVE  /\ Maps(Tagged(CorpusRows(corpus), i, q), CorpusRows(corpus), TaggedOf(CorpusRows(corpus), i, q))
           /\ HaveDistances(TaggedOf(CorpusRows(corpus), i, q))
           /\ Ranks(Tagged(CorpusRows(corpus), i, q), CorpusRows(corpus), TaggedOf(CorpusRows(corpus), i, q), q)
           /\ \A h \in TaggedOf(CorpusRows(corpus), i, q) : h.qi = i
           /\ \A r \in CorpusRows(corpus) : Tagged(CorpusRows(corpus), i, q)[r] = Tag(i, Squares(CorpusRows(corpus), q)[r])
  <1> DEFINE Q == CorpusRows(corpus)
             g == Tagged(Q, i, q)
             S == TaggedOf(Q, i, q)
             f == Squares(Q, q)
  <1>1. /\ HaveDistances(SquaresOf(Q, q)) /\ Ranks(f, Q, SquaresOf(Q, q), q)
        /\ \A r \in Q : f[r] \in SquaresOf(Q, q)
    <2>1. Maps(f, Q, SquaresOf(Q, q))
      BY SquaresRank
    <2>2. \A r \in Q : f[r] \in SquaresOf(Q, q)
      BY DEF SquaresOf
    <2> QED BY <2>2, SquaresRank
  <1>2. S = {g[r] : r \in Q}
    BY Zenon DEF TaggedOf
  <1>3. g = [r \in Q |-> g[r]] /\ \A r \in Q : g[r] = Tag(i, f[r])
    <2> HIDE DEF f
    <2> QED BY DEF Tagged, f
  <1> HIDE DEF g, S, f, Q
  <1>4. \A r \in Q : g[r].qi = i /\ g[r].id = f[r].id /\ g[r].d = f[r].d
    BY <1>3 DEF Tag
  <1>5. Maps(g, Q, S)
    <2>1. \A r \in Q : g[r] \in S
      BY <1>2
    <2> QED BY <1>3, <2>1 DEF Maps
  <1>6. HaveDistances(S) /\ \A h \in S : h.qi = i
    BY <1>1, <1>2, <1>4 DEF HaveDistances
  <1>7. Ranks(g, Q, S, q)
    BY <1>1, <1>2, <1>4 DEF Ranks
  <1> QED BY <1>3, <1>5, <1>6, <1>7 DEF g, S, f, Q

TaggedHits(local, i) == [n \in DOMAIN local |-> [qi |-> i, id |-> local[n].id, d |-> local[n].d]]

\* One query's part of a worker's answer to the batch.
LEMMA TaggedLocal ==
    ASSUME WellCut(corpus), NEW q \in Int, NEW k \in Nat, NEW i, NEW s \in DOMAIN corpus
    PROVE  /\ TaggedHits(VectorExactShard(corpus[s], q, k), i) \in Seq(TaggedOf(CorpusRows(corpus), i, q))
           /\ \A t \in Int :
                 HowMany(TaggedHits(VectorExactShard(corpus[s], q, k), i), Nearby(TaggedOf(CorpusRows(corpus), i, q), t))
                   = Least(k, HowMany(corpus[s], Under(Tagged(CorpusRows(corpus), i, q), CorpusRows(corpus), t)))
  <1> DEFINE Q == CorpusRows(corpus)
             f == Squares(Q, q)
             S == SquaresOf(Q, q)
             g == Tagged(Q, i, q)
             R == TaggedOf(Q, i, q)
             y == corpus[s]
             local == VectorExactShard(y, q, k)
             tagger == [h \in S |-> Tag(i, h)]
  <1>1. y \in Seq(Q) /\ local = TopK(Of(f, y), k)
    BY ShardsTyped, ShardIsFirst
  <1>2. Maps(f, Q, S) /\ HaveDistances(S) /\ \A h \in S : \E r \in Q : h = f[r]
    BY SquaresRank DEF Ranks
  <1>3. HaveDistances(R) /\ \A r \in Q : g[r] = Tag(i, f[r]) /\ g[r] \in R /\ f[r] \in S
    <2>1. HaveDistances(R) /\ \A r \in Q : g[r] = Tag(i, f[r])
      BY TaggedRank
    <2>2. \A r \in Q : g[r] \in R
      BY Zenon DEF TaggedOf
    <2>3. \A r \in Q : f[r] \in S
      BY Zenon DEF SquaresOf
    <2> QED BY <2>1, <2>2, <2>3
  <1>4. (\A h \in S : tagger[h] = Tag(i, h)) /\ \A h : Tag(i, h).d = h.d
    BY DEF Tag
  <1>5. tagger = [h \in S |-> tagger[h]]
    OBVIOUS
  <1> HIDE DEF Q, f, S, g, R, y, local, tagger
  <1>6. AreBest(local, y, f, Q, S, k)
    BY <1>1, <1>2, LocalIsBest
  <1>7. local \in Seq(S)
    BY <1>6 DEF AreBest
  <1>8. Maps(tagger, S, R)
    <2>1. \A h \in S : tagger[h] \in R
      BY <1>2, <1>3, <1>4
    <2> QED BY <1>5, <2>1 DEF Maps
  <1>9. TaggedHits(local, i) = Of(tagger, local)
    <2>1. \A n \in DOMAIN local : tagger[local[n]] = [qi |-> i, id |-> local[n].id, d |-> local[n].d]
      <3>1. \A n \in DOMAIN local : local[n] \in S
        BY <1>7
      <3> QED BY <1>4, <3>1, Zenon DEF Tag
    <2> QED BY <2>1, Zenon DEF TaggedHits, Of
  <1>10. Of(tagger, local) \in Seq(R)
    BY <1>7, <1>8, OfTyped
  <1>11. ASSUME NEW t \in Int
         PROVE  HowMany(Of(tagger, local), Nearby(R, t)) = Least(k, HowMany(y, Under(g, Q, t)))
    <2> DEFINE P == Nearby(R, t)
    <2>1. Into(tagger, S, P) = Nearby(S, t)
      <3>1. \A h \in S : tagger[h].d = h.d
        BY <1>4
      <3>2. \A h \in S : tagger[h] \in R
        BY <1>2, <1>3, <1>4
      <3> QED BY <3>1, <3>2 DEF Into, Nearby
    <2> HIDE DEF P
    <2>2. HowMany(Of(tagger, local), P) = HowMany(local, Into(tagger, S, P))
      BY <1>7, <1>8, OfTyped
    <2>3. Under(f, Q, t) = Under(g, Q, t)
      <3>1. \A r \in Q : g[r].d = f[r].d
        BY <1>3, <1>4
      <3> QED BY <3>1 DEF Under
    <2>4. HowMany(local, Nearby(S, t)) = Least(k, HowMany(y, Under(f, Q, t)))
      BY <1>6 DEF AreBest
    <2> QED BY <2>1, <2>2, <2>3, <2>4 DEF P
  <1>12. /\ TaggedHits(local, i) \in Seq(R)
         /\ \A t \in Int : HowMany(TaggedHits(local, i), Nearby(R, t)) = Least(k, HowMany(y, Under(g, Q, t)))
    BY <1>9, <1>10, <1>11
  <1> QED BY <1>12 DEF local, Q, R, y, g

AllTagged(Q, qs) == UNION {TaggedOf(Q, i, qs[i]) : i \in DOMAIN qs}

\* A worker's answer to the batch, query by query.
LEMMA BatchShard ==
    ASSUME WellCut(corpus), NEW qs \in Seq(Int), NEW k \in Nat, NEW s \in DOMAIN corpus
    PROVE  /\ VectorExactShardBatch(corpus[s], qs, k) \in Seq(AllTagged(CorpusRows(corpus), qs))
           /\ \A i \in DOMAIN qs, t \in Int :
                 HowMany(VectorExactShardBatch(corpus[s], qs, k), Nearby(TaggedOf(CorpusRows(corpus), i, qs[i]), t))
                   = Least(k, HowMany(corpus[s], Under(Tagged(CorpusRows(corpus), i, qs[i]), CorpusRows(corpus), t)))
  <1> DEFINE Q == CorpusRows(corpus)
             R(i) == TaggedOf(Q, i, qs[i])
             All == AllTagged(Q, qs)
             part(i) == TaggedHits(VectorExactShard(corpus[s], qs[i], k), i)
             z == [i \in DOMAIN qs |-> part(i)]
  <1>1. VectorExactShardBatch(corpus[s], qs, k) = FlattenSeq(z)
    BY Zenon DEF VectorExactShardBatch, TaggedHits
  <1>2. DOMAIN z = DOMAIN qs /\ Len(z) = Len(qs) /\ DOMAIN qs = 1..Len(qs) /\ Len(qs) \in Nat
    OBVIOUS
  <1>3. ASSUME NEW i \in DOMAIN qs
        PROVE  /\ z[i] \in Seq(R(i)) /\ R(i) \subseteq All /\ \A h \in R(i) : h.qi = i
               /\ \A t \in Int : HowMany(z[i], Nearby(R(i), t)) = Least(k, HowMany(corpus[s], Under(Tagged(Q, i, qs[i]), Q, t)))
    <2> DEFINE q == qs[i]
    <2>1. q \in Int
      OBVIOUS
    <2>2. z[i] = TaggedHits(VectorExactShard(corpus[s], q, k), i)
      OBVIOUS
    <2>3. R(i) \subseteq All
      BY DEF AllTagged
    <2> HIDE DEF q, z
    <2>4. \A h \in TaggedOf(Q, i, q) : h.qi = i
      BY <2>1, TaggedRank
    <2>5. /\ z[i] \in Seq(TaggedOf(Q, i, q))
          /\ \A t \in Int : HowMany(z[i], Nearby(TaggedOf(Q, i, q), t)) = Least(k, HowMany(corpus[s], Under(Tagged(Q, i, q), Q, t)))
      <3> DEFINE tagged == TaggedHits(VectorExactShard(corpus[s], q, k), i)
      <3>1. tagged \in Seq(TaggedOf(Q, i, q))
        BY <2>1, TaggedLocal
      <3>2. \A t \in Int : HowMany(tagged, Nearby(TaggedOf(Q, i, q), t)) = Least(k, HowMany(corpus[s], Under(Tagged(Q, i, q), Q, t)))
        BY <2>1, TaggedLocal
      <3> QED BY <2>2, <3>1, <3>2, Zenon
    <2> QED BY <2>3, <2>4, <2>5 DEF q
  <1> HIDE DEF All, R, z
  <1>4. z \in Lists(All)
    <2> DEFINE W == Seq(All)
    <2>1. \A i \in DOMAIN qs : z[i] \in W
      <3> TAKE i \in DOMAIN qs
      <3>1. z[i] \in Seq(R(i)) /\ R(i) \subseteq All
        BY <1>3
      <3> QED BY <3>1
    <2>2. z = [i \in 1..Len(qs) |-> z[i]]
      BY <1>2 DEF z
    <2> HIDE DEF W
    <2>3. z \in Seq(W)
      BY <1>2, <2>1, <2>2
    <2> QED BY <2>3 DEF W, Lists
  <1>5. FlattenSeq(z) \in Seq(All)
    BY <1>4, FlattenTyped
  <1>6. ASSUME NEW i \in DOMAIN qs, NEW t \in Int
        PROVE  HowMany(FlattenSeq(z), Nearby(R(i), t)) = HowMany(z[i], Nearby(R(i), t))
    <2> DEFINE A == Nearby(R(i), t)
    <2>1. ASSUME NEW j \in 1..Len(z), j # i PROVE HowMany(z[j], A) = 0
      <3> DEFINE e == {n \in DOMAIN z[j] : z[j][n] \in A}
      <3>1. j \in DOMAIN qs
        BY <1>2
      <3>2. z[j] \in Seq(R(j)) /\ \A h \in R(j) : h.qi = j
        BY <1>3, <3>1
      <3>3. \A h \in A : h.qi = i
        BY <1>3 DEF Nearby
      <3>4. \A n \in DOMAIN z[j] : z[j][n] \in R(j)
        BY <3>2
      <3>5. e = {}
        BY <2>1, <3>2, <3>3, <3>4
      <3>6. HowMany(z[j], A) = Cardinality(e)
        BY DEF HowMany
      <3> HIDE DEF e
      <3> QED BY <3>5, <3>6, FS_EmptySet
    <2>2. OnlyIn(z, i, A)
      BY <2>1 DEF OnlyIn
    <2>3. i \in 1..Len(z)
      BY <1>2
    <2> HIDE DEF A
    <2>4. HowMany(FlattenSeq(z), A) = HowMany(z[i], A)
      BY <1>4, <2>2, <2>3, OneCounts
    <2> QED BY <2>4 DEF A
  <1>7. /\ FlattenSeq(z) \in Seq(All)
        /\ \A i \in DOMAIN qs, t \in Int : HowMany(FlattenSeq(z), Nearby(R(i), t)) = Least(k, HowMany(corpus[s], Under(Tagged(Q, i, qs[i]), Q, t)))
    BY <1>3, <1>5, <1>6
  <1> HIDE DEF Q
  <1> QED BY <1>1, <1>7, Zenon DEF All, R, Q

\* The batch answers every query with its nearest rows.
LEMMA BatchIsNearest ==
    ASSUME WellCut(corpus), NEW qs \in Seq(Int), NEW k \in Nat, NEW i \in DOMAIN qs
    PROVE  NearestGaps(Gaps(DistributedResidentBatch(corpus, qs, k)[i], qs[i]), qs[i], k)
  <1> DEFINE Q == CorpusRows(corpus)
             q == qs[i]
             g == Tagged(Q, i, q)
             R == TaggedOf(Q, i, q)
             All == AllTagged(Q, qs)
             locals == [s \in DOMAIN corpus |-> VectorExactShardBatch(corpus[s], qs, k)]
             merged == FlattenSeq(locals)
             yes == [n \in DOMAIN merged |-> merged[n].qi = i]
             those == Those(merged, yes)
             top == DistributedResidentBatch(corpus, qs, k)[i]
  <1>1. q \in Int
    OBVIOUS
  <1>2. top = TopK(those, k)
    BY Zenon DEF DistributedResidentBatch
  <1>3. corpus \in Lists(Q) /\ DOMAIN corpus = 1..Len(corpus) /\ Len(corpus) \in Nat
    BY ShardsTyped
  <1>4. /\ \A s \in DOMAIN corpus : locals[s] \in Seq(All)
        /\ \A s \in DOMAIN corpus, t \in Int : HowMany(locals[s], Nearby(R, t)) = Least(k, HowMany(corpus[s], Under(g, Q, t)))
    BY BatchShard
  <1>5. R \subseteq All /\ \A h \in All : h \in R <=> h.qi = i
    <2>1. \A j \in DOMAIN qs : qs[j] \in Int
      OBVIOUS
    <2>2. \A j \in DOMAIN qs : \A h \in TaggedOf(Q, j, qs[j]) : h.qi = j
      BY <2>1, TaggedRank
    <2> QED BY <2>2 DEF AllTagged
  <1>6. Maps(g, Q, R) /\ HaveDistances(R) /\ Ranks(g, Q, R, q)
    <2> HIDE DEF q
    <2> QED BY <1>1, TaggedRank
  <1>7. locals \in Lists(All) /\ Len(locals) = Len(corpus)
    <2> DEFINE W == Seq(All)
    <2>1. \A s \in 1..Len(corpus) : locals[s] \in W
      BY <1>3, <1>4
    <2>2. locals = [s \in 1..Len(corpus) |-> locals[s]]
      BY <1>3
    <2> HIDE DEF W, locals
    <2>3. locals \in Seq(W) /\ Len(locals) = Len(corpus)
      BY <1>3, <2>1, <2>2
    <2> QED BY <2>3 DEF W, Lists
  <1> HIDE DEF q, g, R, All, locals
  <1>8. merged \in Seq(All)
    BY <1>7, FlattenTyped
  <1>9. ASSUME NEW t \in Int
        PROVE  Least(k, HowMany(merged, Nearby(R, t))) = Least(k, HowMany(AllRows, Under(g, Q, t)))
    <2> DEFINE A == Nearby(R, t)
               B == Under(g, Q, t)
    <2>1. ShardsAnswer(locals, corpus, A, B, k)
      BY <1>3, <1>4 DEF ShardsAnswer
    <2> HIDE DEF A, B
    <2>2. Least(k, HowMany(FlattenSeq(locals), A)) = Least(k, HowMany(FlattenSeq(corpus), B))
      BY <1>3, <1>7, <2>1, MergedCounts
    <2> QED BY <2>2 DEF A, B, AllRows
  <1> HIDE DEF merged
  <1>10. Says(merged, yes, R)
    <2>1. \A n \in DOMAIN merged : merged[n] \in All
      BY <1>8
    <2> QED BY <1>5, <2>1 DEF Says
  <1> HIDE DEF yes
  <1>11. those \in Seq(R) /\ \A A \in SUBSET R : HowMany(those, A) = HowMany(merged, A)
    <2>1. R \in SUBSET All
      BY <1>5
    <2>2. Those(merged, yes) \in Seq(R) /\ \A A \in SUBSET R : HowMany(Those(merged, yes), A) = HowMany(merged, A)
      BY <1>8, <1>10, <2>1, ThoseArePicked
    <2> QED BY <2>2
  <1> HIDE DEF those, top
  <1>12. AreFirst(top, those, k, R)
    <2>1. AreHits(those, R)
      BY <1>6, <1>11 DEF AreHits
    <2> QED BY <1>2, <2>1, TopKIsNearest
  <1>13. \A t \in Int : HowMany(those, Nearby(R, t)) = HowMany(merged, Nearby(R, t))
    <2>1. \A t \in Int : Nearby(R, t) \in SUBSET R
      BY DEF Nearby
    <2> QED BY <1>11, <2>1
  <1>14. AreBest(top, AllRows, g, Q, R, k)
    BY <1>9, <1>12, <1>13 DEF AreFirst, AreBest
  <1>15. NearestGaps(Gaps(top, q), q, k)
    BY <1>1, <1>6, <1>14, BestAreNearest
  <1> QED BY <1>15 DEF top, q

-----------------------------------------------------------------------------
(* Range search. *)
\* The rows within the radius are answered, and no others.
LEMMA RangeIsWithin ==
    ASSUME WellCut(corpus), NEW q \in Int, NEW radius \in Int
    PROVE  {h.id : h \in ToSet(RangeSearch(AllRows, q, radius))}
             = {r.id : r \in {r \in ToSet(AllRows) : Gap(r.pos, q) <= radius}}
  <1> DEFINE Q == CorpusRows(corpus)
             g == Gapped(Q, q)
             S == GappedOf(Q, q)
             N == Len(AllRows)
             of == Of(g, AllRows)
             all == Knn(AllRows, q, N)
             yes == [i \in DOMAIN all |-> all[i].d <= radius]
             P == Nearby(S, radius)
  <1>1. AllRows \in Seq(Q) /\ N \in Nat /\ ToSet(AllRows) = Q /\ \A i \in DOMAIN AllRows : AllRows[i] \in Q
    BY AllRowsTyped DEF ToSet
  <1>2. Maps(g, Q, S) /\ HaveDistances(S) /\ Ranks(g, Q, S, q) /\ \A r \in Q : g[r].d = Gap(r.pos, q)
    BY GappedRank
  <1>3. all = TopK(of, N)
    BY <1>1, KnnIsFirst
  <1> HIDE DEF Q, g, S, N
  <1>4. of \in Seq(S) /\ Len(of) = N
    BY <1>1, <1>2, OfTyped DEF N
  <1>5. ToSet(of) = {g[r] : r \in Q}
    <2>1. DOMAIN of = DOMAIN AllRows /\ \A i \in DOMAIN AllRows : of[i] = g[AllRows[i]]
      BY DEF Of
    <2> HIDE DEF of
    <2>2. \A r \in Q : \E i \in DOMAIN AllRows : AllRows[i] = r
      BY <1>1 DEF ToSet
    <2> QED BY <1>1, <2>1, <2>2 DEF ToSet
  <1> HIDE DEF of
  <1>6. all \in Seq(S) /\ ToSet(all) = ToSet(of)
    <2>1. AreHits(of, S)
      BY <1>2, <1>4 DEF AreHits
    <2>2. AreFirst(TopK(of, N), of, N, S)
      BY <1>1, <2>1, TopKIsNearest
    <2> QED BY <1>1, <1>3, <1>4, <2>2 DEF AreFirst
  <1>7. RangeSearch(AllRows, q, radius) = Those(all, yes)
    BY Zenon DEF RangeSearch, N
  <1> HIDE DEF all
  <1>8. Says(all, yes, P)
    <2>1. \A i \in DOMAIN all : all[i] \in S
      BY <1>6
    <2>2. \A i \in DOMAIN all : all[i].d \in Int /\ (all[i] \in P <=> all[i].d <= radius)
      BY <1>2, <2>1 DEF HaveDistances, Nearby
    <2>3. \A i \in DOMAIN all : yes[i] \in BOOLEAN /\ (yes[i] <=> all[i].d <= radius)
      <3> TAKE i \in DOMAIN all
      <3>1. yes[i] = (all[i].d <= radius)
        BY Zenon
      <3>2. (all[i].d <= radius) \in BOOLEAN
        BY <2>2
      <3> QED BY <3>1, <3>2, Zenon
    <2> HIDE DEF P, yes
    <2>4. \A i \in DOMAIN all : yes[i] \in BOOLEAN /\ (yes[i] <=> all[i] \in P)
      BY <2>2, <2>3
    <2> QED BY <2>4 DEF Says
  <1> HIDE DEF yes
  <1>9. ToSet(Those(all, yes)) = ToSet(all) \cap P
    <2>1. P \in SUBSET S
      BY DEF Nearby
    <2> HIDE DEF P
    <2> QED BY <1>6, <1>8, <2>1, ThoseArePicked
  <1> DEFINE answered == ToSet(RangeSearch(AllRows, q, radius))
  <1>10. answered = {g[r] : r \in Q} \cap P
    BY <1>5, <1>6, <1>7, <1>9
  <1> HIDE DEF answered
  <1>11. \A r \in Q : g[r].id = r.id /\ (g[r] \in P <=> Gap(r.pos, q) <= radius)
    <2>1. \A r \in Q : g[r] \in S
      BY <1>2 DEF Maps
    <2> QED BY <1>2, <2>1 DEF Ranks, Nearby
  <1> HIDE DEF P
  <1>12. {h.id : h \in answered} = {r.id : r \in {r \in Q : Gap(r.pos, q) <= radius}}
    BY <1>10, <1>11
  <1> QED BY <1>1, <1>12 DEF answered

-----------------------------------------------------------------------------
(* Maximal marginal relevance. *)
\* The greatest of finitely many numbers is one of them.
LEMMA GreatestTyped ==
    ASSUME NEW n \in Nat, NEW left \in SUBSET (1..n), left # {}, NEW h, \A i \in 1..n : h[i] \in Int
    PROVE  Max({h[i] : i \in left}) \in Int
  <1> DEFINE f == [i \in 1..n |-> -h[i]]
             S == {h[i] : i \in left}
  <1>1. \A i \in 1..n : f[i] = -h[i] /\ f[i] \in Int
    OBVIOUS
  <1> HIDE DEF f
  <1>2. PICK i \in left : IsBest(f, left, i)
    BY <1>1, BestExists
  <1>3. \A j \in left : h[i] >= h[j]
    <2> TAKE j \in left
    <2>1. f[i] <= f[j]
      BY <1>1, <1>2 DEF IsBest
    <2> QED BY <1>1, <2>1
  <1>4. h[i] \in S /\ \A y \in S : h[i] >= y
    BY <1>3
  <1>5. S \subseteq Int
    OBVIOUS
  <1> HIDE DEF S
  <1>6. Max(S) \in S
    BY <1>4 DEF Max
  <1> QED BY <1>5, <1>6 DEF S

\* One more element.
LEMMA InjectiveAppend ==
    ASSUME NEW B, NEW s \in Seq(B), NEW v \in B \ ToSet(s), IsInjective(s)
    PROVE  /\ Append(s, v) \in Seq(B) /\ Len(Append(s, v)) = Len(s) + 1 /\ IsInjective(Append(s, v))
           /\ ToSet(Append(s, v)) = ToSet(s) \cup {v}
  <1> DEFINE y == Append(s, v)
  <1>1. y \in Seq(B) /\ Len(y) = Len(s) + 1 /\ y[Len(s) + 1] = v /\ \A i \in 1..Len(s) : y[i] = s[i]
    BY SeqAppend
  <1>2. DOMAIN s = 1..Len(s) /\ Len(s) \in Nat /\ DOMAIN y = 1..(Len(s) + 1)
    BY <1>1, SeqShape
  <1> HIDE DEF y
  <1>3. ToSet(y) = ToSet(s) \cup {v}
    BY <1>1, <1>2 DEF ToSet
  <1>4. IsInjective(y)
    BY <1>1, <1>2 DEF IsInjective, ToSet
  <1> QED BY <1>1, <1>3, <1>4 DEF y

Selects(rows, q, lambda) ==
    \A s \in Seq(1..Len(rows)) : IsInjective(s) /\ Len(s) < Len(rows) =>
        MmrBest(rows, q, lambda, s) \in 1..Len(rows) \ ToSet(s)
Selection(g, rows, q, k, lambda) ==
    /\ g[0] = <<>>
    /\ \A n \in 1..Len(rows) : g[n] = Append(g[n - 1], MmrBest(rows, q, lambda, g[n - 1]))
    /\ Mmr(rows, q, k, lambda) = g[Min({k, Len(rows)})]

\* The selection is a recursion, when there is always a row to select.
LEMMA MmrLoop ==
    ASSUME NEW rows, Len(rows) \in Nat, NEW q, NEW k \in Nat, NEW lambda, Selects(rows, q, lambda)
    PROVE  \E g : Selection(g, rows, q, k, lambda)
  <1> DEFINE N == Len(rows)
             V == Seq(Int)
             Next1(x) == MmrBest(rows, q, lambda, x)
             one(x) == IF Next1(x) \in Int THEN Next1(x) ELSE 0
             step == [n \in 1..N |-> [x \in V |-> Append(x, one(x))]]
             P(g) == g = [n \in 0..N |-> IF n = 0 THEN <<>> ELSE Append(g[n - 1], Next1(g[n - 1]))]
             g == CHOOSE g : P(g)
  <1>1. StepsIn(step, N, V) /\ \A n \in 1..N : \A x \in V : step[n][x] = Append(x, one(x))
    <2>1. \A x \in V : Append(x, one(x)) \in V
      <3> TAKE x \in V
      <3> DEFINE o == one(x)
      <3>1. o \in Int
        OBVIOUS
      <3> HIDE DEF o
      <3> QED BY <3>1
    <2> HIDE DEF one, V, N
    <2> QED BY <2>1 DEF StepsIn
  <1>2. <<>> \in V /\ N \in Nat
    OBVIOUS
  <1> HIDE DEF step, N
  <1>3. PICK l \in [0..N -> V] : l[0] = <<>> /\ \A n \in 1..N : l[n] = step[n][l[n - 1]]
    <2> DEFINE o == <<>>
    <2>1. o \in V
      BY <1>2
    <2> HIDE DEF o, V
    <2>2. StepsIn(step, N, V) /\ N \in Nat
      BY <1>1, <1>2, Zenon
    <2>3. \E l \in [0..N -> V] : l[0] = o /\ \A n \in 1..N : l[n] = step[n][l[n - 1]]
      BY <2>1, <2>2, StepByStep
    <2> QED BY <2>3 DEF o, V
  <1> DEFINE T == {n \in Nat : n <= N => l[n] \in Seq(1..N) /\ IsInjective(l[n]) /\ Len(l[n]) = n}
  <1>4. 0 \in T
    BY <1>3 DEF IsInjective
  <1>5. ASSUME NEW n \in Nat, n \in T, n + 1 <= N
        PROVE  l[n + 1] = Append(l[n], Next1(l[n])) /\ n + 1 \in T
    <2> DEFINE s == l[n]
               v == Next1(s)
    <2>1. s \in Seq(1..N) /\ IsInjective(s) /\ Len(s) = n
      BY <1>2, <1>5
    <2>2. v \in 1..N \ ToSet(s)
      BY <1>2, <1>5, <2>1 DEF N, Selects
    <2>3. n + 1 \in 1..N /\ (n + 1) - 1 = n /\ v \in Int /\ s \in V
      BY <1>2, <1>5, <2>1, <2>2
    <2>4. l[n + 1] = Append(s, one(s))
      BY <1>1, <1>3, <2>3
    <2>5. one(s) = v
      BY <2>3
    <2> HIDE DEF s, v, one
    <2>6. l[n + 1] = Append(s, v)
      BY <2>4, <2>5
    <2>7. Append(s, v) \in Seq(1..N) /\ Len(Append(s, v)) = n + 1 /\ IsInjective(Append(s, v))
      BY <2>1, <2>2 DEF IsInjective, ToSet
    <2>8. l[n + 1] = Append(l[n], Next1(l[n]))
      BY <2>6 DEF s, v
    <2>9. l[n + 1] \in Seq(1..N) /\ IsInjective(l[n + 1]) /\ Len(l[n + 1]) = n + 1
      BY <2>6, <2>7
    <2>10. n + 1 \in T
      BY <2>9
    <2> HIDE DEF Next1, T
    <2> QED BY <2>8, <2>10
  <1>6. \A n \in Nat : n \in T
    <2>1. ASSUME NEW n \in Nat, n \in T PROVE n + 1 \in T
      <3>1. CASE n + 1 <= N
        BY <1>5, <2>1, <3>1
      <3>2. CASE ~(n + 1 <= N)
        BY <3>2
      <3> QED BY <3>1, <3>2
    <2> HIDE DEF T
    <2> QED BY <1>4, <2>1, Induction
  <1>7. \A n \in 1..N : l[n] = Append(l[n - 1], Next1(l[n - 1]))
    <2> TAKE n \in 1..N
    <2>1. n - 1 \in Nat /\ (n - 1) + 1 = n /\ n <= N
      BY <1>2
    <2> HIDE DEF T
    <2> QED BY <1>5, <1>6, <2>1
  <1>8. P(l)
    <2>1. \A n \in 0..N : l[n] = IF n = 0 THEN <<>> ELSE Append(l[n - 1], Next1(l[n - 1]))
      <3> TAKE n \in 0..N
      <3>1. n = 0 \/ n \in 1..N
        BY <1>2
      <3> HIDE DEF Next1
      <3>2. CASE n = 0
        BY <1>3, <3>2
      <3>3. CASE n \in 1..N
        BY <1>2, <1>7, <3>3
      <3> QED BY <3>1, <3>2, <3>3
    <2>2. l = [n \in 0..N |-> l[n]]
      OBVIOUS
    <2> HIDE DEF Next1
    <2> QED BY <2>1, <2>2
  <1>9. P(g)
    <2> HIDE DEF P
    <2> QED BY <1>8, Zenon
  <1>10. Mmr(rows, q, k, lambda) = g[Min({k, N})]
    BY DEF Mmr, N
  <1> HIDE DEF g
  <1>11. \A n \in 0..N : g[n] = IF n = 0 THEN <<>> ELSE Append(g[n - 1], Next1(g[n - 1]))
    <2> HIDE DEF Next1
    <2> QED BY <1>9
  <1>12. g[0] = <<>> /\ \A n \in 1..N : g[n] = Append(g[n - 1], Next1(g[n - 1]))
    <2>1. 0 \in 0..N /\ \A n \in 1..N : n \in 0..N /\ n # 0
      BY <1>2
    <2> HIDE DEF Next1
    <2> QED BY <1>11, <2>1
  <1>13. Selection(g, rows, q, k, lambda)
    BY <1>10, <1>12, Zenon DEF N, Selection
  <1> QED BY <1>13, Zenon

\* What has been taken greedily, as much as was asked for, is nearest.
LEMMA GreedyIsNearest ==
    ASSUME NEW f \in Seq(Int), NEW left, NEW ds, Greedy(f, Len(f), left, ds), NEW k \in Nat, Len(ds) = Least(k, Len(f))
    PROVE  AreNearest(ds, f, k)
  <1> DEFINE n == Len(f)
             A(t) == {i \in 1..n : f[i] <= t}
  <1>1. n \in Nat /\ DOMAIN f = 1..n /\ \A i \in 1..n : f[i] \in Int
    OBVIOUS
  <1>2. /\ ds \in Seq(Int) /\ \A i, j \in 1..Len(ds) : i <= j => ds[i] <= ds[j]
        /\ \A t \in Int : Amount(f, 1..n, t) \in Nat /\ HowMany(ds, UpTo(t)) = Least(Len(ds), Amount(f, 1..n, t))
    BY DEF Greedy
  <1>3. DOMAIN ds = 1..Len(ds) /\ \A i \in DOMAIN ds : ds[i] \in Int
    BY <1>2
  <1> HIDE DEF n
  <1>4. ASSUME NEW t \in Int PROVE Within(ds, t) = Min({k, Within(f, t)})
    <2> DEFINE c == Amount(f, 1..n, t)
    <2>1. Within(f, t) = c
      BY <1>1 DEF Within, Amount
    <2>2. Within(ds, t) = HowMany(ds, UpTo(t))
      <3>1. {i \in DOMAIN ds : ds[i] <= t} = {i \in DOMAIN ds : ds[i] \in UpTo(t)}
        BY <1>3 DEF UpTo
      <3> QED BY <3>1 DEF Within, HowMany
    <2>3. c <= n
      <3>1. IsFiniteSet(1..n) /\ Cardinality(1..n) = n
        BY <1>1, FS_Interval
      <3>2. A(t) \subseteq 1..n
        OBVIOUS
      <3>3. c = Cardinality(A(t))
        BY DEF Amount
      <3> HIDE DEF A, c
      <3>4. Cardinality(A(t)) <= Cardinality(1..n)
        BY <3>1, <3>2, FS_Subset
      <3> QED BY <3>1, <3>3, <3>4
    <2>4. c \in Nat /\ HowMany(ds, UpTo(t)) = Least(Least(k, n), c)
      BY <1>2 DEF n
    <2> HIDE DEF c
    <2>5. Least(Least(k, n), c) = Least(k, c) /\ Min({k, c}) = Least(k, c)
      BY <1>1, <2>3, <2>4, MinIsLeast DEF Least
    <2> QED BY <2>1, <2>2, <2>4, <2>5
  <1>5. ToSet(ds) \cup ToSet(f) \subseteq Int
    BY <1>1, <1>3 DEF ToSet
  <1> QED BY <1>2, <1>3, <1>4, <1>5 DEF AreNearest

\* The selection is injective and full; when only relevance counts, it is nearest.
LEMMA MmrIsNearest ==
    ASSUME WellCut(corpus), NEW q \in Int, NEW k \in Nat, NEW lambda \in Int
    PROVE  LET chosen == Mmr(AllRows, q, k, lambda)
           IN  /\ IsInjective(chosen) /\ Len(chosen) = Min({k, Len(AllRows)})
               /\ lambda = 10 => NearestGaps([i \in DOMAIN chosen |-> Gap(AllRows[chosen[i]].pos, q)], q, k)
  <1> DEFINE N == Len(AllRows)
             f == AllGaps(q)
             rest(s) == 1..N \ ToSet(s)
             best(s) == MmrBest(AllRows, q, lambda, s)
             score(s, c) == MmrScore(AllRows, q, lambda, s, c)
             like(c) == Likeness(AllRows[c].pos, q)
  <1>1. N \in Nat /\ DOMAIN AllRows = 1..N /\ \A i \in 1..N : AllRows[i].pos \in Int
    BY AllRowsTyped DEF WellCut
  <1>2. f \in Seq(Int) /\ Len(f) = N /\ \A i \in 1..N : f[i] = Gap(AllRows[i].pos, q) /\ f[i] \in Int
    <2>1. \A i \in 1..N : Gap(AllRows[i].pos, q) \in Int
      <3> HIDE DEF N
      <3>1. \A i \in 1..N : Gap(AllRows[i].pos, q) \in Nat
        BY <1>1, GapTyped
      <3> QED BY <3>1
    <2>2. f = [i \in 1..N |-> Gap(AllRows[i].pos, q)]
      BY <1>1, Zenon DEF AllGaps
    <2> HIDE DEF N, f
    <2> QED BY <1>1, <2>1, <2>2
  <1> HIDE DEF N
  <1>3. ASSUME NEW s \in Seq(1..N), NEW c \in 1..N
        PROVE  /\ score(s, c) \in Int
               /\ lambda = 10 => score(s, c) = 10 * (10 - f[c])
    <2> DEFINE x == IF s = <<>> THEN 0 ELSE Max({Likeness(AllRows[c].pos, AllRows[i].pos) : i \in ToSet(s)})
    <2>1. x \in Int
      <3>1. CASE s = <<>>
        BY <3>1
      <3>2. CASE s # <<>>
        <4> DEFINE h == [i \in 1..N |-> Likeness(AllRows[c].pos, AllRows[i].pos)]
        <4>0. \A i \in 1..N : Gap(AllRows[c].pos, AllRows[i].pos) \in Nat
          BY <1>1, GapTyped
        <4>1. \A i \in 1..N : h[i] = Likeness(AllRows[c].pos, AllRows[i].pos) /\ h[i] \in Int
          BY <4>0 DEF Likeness
        <4>2. ToSet(s) \in SUBSET (1..N) /\ ToSet(s) # {}
          <5>1. DOMAIN s = 1..Len(s) /\ Len(s) \in Nat /\ \A j \in 1..Len(s) : s[j] \in 1..N
            BY SeqShape
          <5>2. 1 \in DOMAIN s
            BY <3>2
          <5> QED BY <5>1, <5>2 DEF ToSet
        <4> HIDE DEF h
        <4>3. Max({h[i] : i \in ToSet(s)}) \in Int
          BY <1>1, <4>1, <4>2, GreatestTyped
        <4>4. {h[i] : i \in ToSet(s)} = {Likeness(AllRows[c].pos, AllRows[i].pos) : i \in ToSet(s)}
          BY <4>1, <4>2
        <4> QED BY <3>2, <4>3, <4>4, Zenon
      <3> QED BY <3>1, <3>2
    <2>2. score(s, c) = lambda * like(c) - (10 - lambda) * x
      BY DEF MmrScore
    <2> HIDE DEF x
    <2>3. like(c) = 10 - f[c]
      BY <1>2 DEF Likeness
    <2> HIDE DEF like, score, f
    <2>4. like(c) \in Int /\ f[c] \in Int
      BY <1>2, <2>3
    <2>5. score(s, c) \in Int
      BY <2>1, <2>2, <2>4
    <2>6. lambda = 10 => score(s, c) = 10 * (10 - f[c])
      BY <2>1, <2>2, <2>3, <2>4
    <2> QED BY <2>5, <2>6
  <1> HIDE DEF f, score
  <1>4. ASSUME NEW s \in Seq(1..N), IsInjective(s), Len(s) < N
        PROVE  rest(s) # {}
    <2> SUFFICES ASSUME rest(s) = {} PROVE FALSE
      OBVIOUS
    <2> DEFINE l == Len(s)
               m == [j \in 1..l |-> s[j]]
    <2>2. DOMAIN s = 1..l /\ l \in Nat /\ \A j \in 1..l : s[j] \in 1..N
      BY SeqShape
    <2>1. \A i \in 1..N : \E j \in 1..l : s[j] = i
      <3> HIDE DEF l
      <3> QED BY <2>2 DEF ToSet
    <2> HIDE DEF l
    <2>3. Cardinality(1..N) = N
      BY <1>1, FS_Interval
    <2>4. \A j \in 1..l : m[j] = s[j]
      OBVIOUS
    <2>5. m \in [1..l -> 1..N]
      BY <2>2
    <2> HIDE DEF m
    <2>6. m \in Surjection(1..l, 1..N)
      BY <2>1, <2>4, <2>5 DEF Surjection
    <2>7. Cardinality(1..N) <= l
      <3>1. ExistsSurjection(1..l, 1..N)
        BY <2>6 DEF ExistsSurjection
      <3> DEFINE B == 1..N
      <3> HIDE DEF B
      <3>2. ExistsSurjection(1..l, B)
        BY <3>1 DEF B
      <3>3. Cardinality(B) <= l
        BY <2>2, <3>2, FS_SurjCardinalityBound
      <3> QED BY <3>3 DEF B
    <2>8. l < N
      BY <1>4 DEF l
    <2> QED BY <1>1, <2>2, <2>3, <2>7, <2>8
  <1>5. ASSUME NEW s \in Seq(1..N), IsInjective(s), Len(s) < N
        PROVE  best(s) \in rest(s) /\ (lambda = 10 => IsBest(f, rest(s), best(s)))
    <2> DEFINE e == [c \in 1..N |-> -score(s, c)]
               left == rest(s)
    <2>1. \A c \in 1..N : e[c] = -score(s, c) /\ e[c] \in Int /\ score(s, c) \in Int
      BY <1>3
    <2>2. left \in SUBSET (1..N) /\ left # {}
      BY <1>4, <1>5
    <2> HIDE DEF e
    <2>3. PICK i \in left : IsBest(e, left, i)
      <3> HIDE DEF left
      <3> QED BY <1>1, <2>1, <2>2, BestExists
    <2> DEFINE first(c) == \A d \in left : score(s, c) > score(s, d) \/ (score(s, c) = score(s, d) /\ c <= d)
    <2>4. first(i)
      <3> SUFFICES ASSUME NEW d \in left PROVE score(s, i) > score(s, d) \/ (score(s, i) = score(s, d) /\ i <= d)
        OBVIOUS
      <3>1. e[i] < e[d] \/ (e[i] = e[d] /\ i <= d)
        BY <2>3 DEF IsBest
      <3> HIDE DEF left
      <3>2. i \in 1..N /\ d \in 1..N
        BY <2>2, <2>3
      <3> QED BY <2>1, <3>1, <3>2
    <2>5. best(s) = CHOOSE c \in left : first(c)
      BY <1>1, Zenon DEF MmrBest, score
    <2>6. best(s) \in left /\ first(best(s))
      <3> HIDE DEF first, left
      <3> QED BY <2>3, <2>4, <2>5, Zenon
    <2>7. lambda = 10 => IsBest(f, left, best(s))
      <3> SUFFICES ASSUME lambda = 10, NEW d \in left
                   PROVE  f[best(s)] < f[d] \/ (f[best(s)] = f[d] /\ best(s) <= d)
        BY <2>6 DEF IsBest
      <3> DEFINE b == best(s)
      <3>1. score(s, b) > score(s, d) \/ (score(s, b) = score(s, d) /\ b <= d)
        BY <2>6
      <3>2. b \in 1..N /\ d \in 1..N
        BY <2>6
      <3> HIDE DEF b
      <3>3. score(s, b) = 10 * (10 - f[b]) /\ score(s, d) = 10 * (10 - f[d]) /\ f[b] \in Int /\ f[d] \in Int
        BY <1>2, <1>3, <3>2
      <3>4. f[b] < f[d] \/ (f[b] = f[d] /\ b <= d)
        BY <3>1, <3>3
      <3> QED BY <3>4 DEF b
    <2> QED BY <2>6, <2>7
  <1> DEFINE chosen == Mmr(AllRows, q, k, lambda)
             K == Min({k, N})
  <1>6. PICK g : /\ g[0] = <<>> /\ \A n \in 1..N : g[n] = Append(g[n - 1], best(g[n - 1]))
                 /\ chosen = g[K]
    <2> HIDE DEF chosen
    <2>1. Selects(AllRows, q, lambda)
      BY <1>5 DEF N, Selects
    <2>2. Len(AllRows) \in Nat
      BY <1>1 DEF N
    <2>3. PICK g : Selection(g, AllRows, q, k, lambda)
      BY <2>1, <2>2, MmrLoop
    <2>4. /\ g[0] = <<>> /\ \A n \in 1..N : g[n] = Append(g[n - 1], best(g[n - 1]))
          /\ chosen = g[K]
      BY <2>3, Zenon DEF Selection, chosen, N, K
    <2> QED BY <2>4, Zenon
  <1> HIDE DEF chosen, K, best
  <1> DEFINE ds(s) == [i \in DOMAIN s |-> f[s[i]]]
             Good(n) == /\ g[n] \in Seq(1..N) /\ IsInjective(g[n]) /\ Len(g[n]) = n
                        /\ lambda = 10 => Greedy(f, N, rest(g[n]), ds(g[n]))
             T == {n \in Nat : n <= N => Good(n)}
  <1>7. 0 \in T
    <2>1. <<>> \in Seq(1..N) /\ Len(<<>>) = 0 /\ IsInjective(<<>>) /\ ToSet(<<>>) = {}
      BY DEF IsInjective, ToSet
    <2>2. rest(<<>>) = 1..N /\ ds(<<>>) = <<>>
      BY <2>1
    <2>3. Greedy(f, N, 1..N, <<>>)
      BY <1>1, <1>2, GreedyStarts
    <2> HIDE DEF rest, ds
    <2> QED BY <1>6, <2>1, <2>2, <2>3
  <1>8. ASSUME NEW n \in Nat, n \in T PROVE n + 1 \in T
    <2> SUFFICES ASSUME n + 1 <= N PROVE Good(n + 1)
      OBVIOUS
    <2> DEFINE s == g[n]
               v == best(s)
               y == Append(s, v)
    <2>1. n + 1 \in 1..N /\ (n + 1) - 1 = n /\ n <= N /\ n < N
      BY <1>1
    <2>2. /\ s \in Seq(1..N) /\ IsInjective(s) /\ Len(s) = n
          /\ lambda = 10 => Greedy(f, N, rest(s), ds(s))
      BY <1>8, <2>1
    <2>3. v \in rest(s) /\ (lambda = 10 => IsBest(f, rest(s), v))
      <3> HIDE DEF rest
      <3> QED BY <1>5, <2>1, <2>2
    <2>4. g[n + 1] = y
      BY <1>6, <2>1
    <2> HIDE DEF s, v
    <2>5. y \in Seq(1..N) /\ Len(y) = n + 1 /\ IsInjective(y) /\ ToSet(y) = ToSet(s) \cup {v}
      <3> DEFINE B == 1..N
      <3>1. v \in B \ ToSet(s) /\ s \in Seq(B)
        BY <2>2, <2>3
      <3> HIDE DEF B
      <3>2. y \in Seq(B) /\ Len(y) = Len(s) + 1 /\ IsInjective(y) /\ ToSet(y) = ToSet(s) \cup {v}
        BY <2>2, <3>1, InjectiveAppend
      <3> QED BY <2>2, <3>2 DEF B
    <2>6. rest(y) = rest(s) \ {v}
      BY <2>5
    <2>7. ds(y) = Append(ds(s), f[v])
      <3>1. DOMAIN s = 1..n /\ DOMAIN y = 1..(n + 1) /\ y[n + 1] = v /\ \A i \in 1..n : y[i] = s[i]
        BY <2>2, <2>3
      <3>2. \A i \in 1..n : f[s[i]] \in Int
        BY <1>2, <2>2
      <3> HIDE DEF y
      <3>3. ds(s) \in Seq(Int) /\ Len(ds(s)) = n /\ \A i \in 1..n : ds(s)[i] = f[s[i]]
        BY <3>1, <3>2
      <3>4. DOMAIN ds(y) = 1..(n + 1) /\ \A i \in 1..(n + 1) : ds(y)[i] = f[y[i]]
        BY <3>1
      <3>5. f[v] \in Int
        BY <1>2, <2>3
      <3>6. ds(y) = [i \in 1..(n + 1) |-> f[y[i]]]
        BY <3>1
      <3> HIDE DEF ds
      <3> QED BY <3>1, <3>3, <3>4, <3>5, <3>6
    <2>8. lambda = 10 => Greedy(f, N, rest(y), ds(y))
      <3> HIDE DEF rest, ds, y
      <3>1. lambda = 10 => Greedy(f, N, rest(s) \ {v}, Append(ds(s), f[v]))
        BY <1>1, <1>2, <2>2, <2>3, GreedyTakes
      <3> QED BY <2>6, <2>7, <3>1
    <2> HIDE DEF y, rest, ds
    <2> QED BY <2>4, <2>5, <2>8
  <1> HIDE DEF T
  <1>9. \A n \in Nat : n \in T
    BY <1>7, <1>8, Induction
  <1>10. K = Least(k, N) /\ K \in Nat /\ K <= N
    BY <1>1, MinIsLeast DEF K
  <1>11. Good(K)
    <2>1. K \in T
      BY <1>9, <1>10
    <2> HIDE DEF Good
    <2> QED BY <1>10, <2>1 DEF T
  <1>12. IsInjective(chosen) /\ Len(chosen) = K
    BY <1>6, <1>11
  <1>13. lambda = 10 => NearestGaps([i \in DOMAIN chosen |-> Gap(AllRows[chosen[i]].pos, q)], q, k)
    <2> SUFFICES ASSUME lambda = 10 PROVE NearestGaps([i \in DOMAIN chosen |-> Gap(AllRows[chosen[i]].pos, q)], q, k)
      OBVIOUS
    <2>1. DOMAIN chosen = 1..K /\ \A i \in 1..K : chosen[i] \in 1..N
      <3> DEFINE B == 1..N
      <3>1. chosen \in Seq(B) /\ Len(chosen) = K
        BY <1>6, <1>11
      <3> HIDE DEF B
      <3>2. DOMAIN chosen = 1..Len(chosen) /\ \A i \in 1..Len(chosen) : chosen[i] \in B
        BY <3>1, SeqShape
      <3> QED BY <3>1, <3>2 DEF B
    <2>2. ds(chosen) = [i \in DOMAIN chosen |-> Gap(AllRows[chosen[i]].pos, q)]
      BY <1>2, <2>1
    <2>3. Greedy(f, N, rest(chosen), ds(chosen)) /\ Len(ds(chosen)) = K
      <3>1. Greedy(f, N, rest(chosen), ds(chosen))
        BY <1>6, <1>11
      <3>2. Len(ds(chosen)) = K
        BY <1>10, <2>1
      <3> QED BY <3>1, <3>2
    <2> HIDE DEF ds, rest
    <2>4. AreNearest(ds(chosen), f, k)
      BY <1>2, <1>10, <2>3, GreedyIsNearest
    <2> QED BY <2>2, <2>4 DEF NearestGaps, f
  <1> QED BY <1>12, <1>13 DEF chosen, K, N

-----------------------------------------------------------------------------
(* What exact search answers. *)
SearchSpec == /\ corpus \in Corpora /\ question \in Questions /\ Unasked
              /\ [][SearchNext]_searchVars
Posed == corpus \in Corpora /\ question \in Questions

\* The hits are those of a scan of the whole corpus.
ExactHits(hits) ==
    /\ question.by \in {"knn", "resident"} => NearestGaps(Gaps(hits, qn.q), qn.q, qn.k)
    /\ question.by = "batch" => \A i \in 1..3 :
          LET q == <<qn.q, qn.q + 3, qn.q>>[i] IN NearestGaps(Gaps(hits[i], q), q, qn.k)
    /\ question.by = "range" =>
          {h.id : h \in ToSet(hits)} = {r.id : r \in {r \in ToSet(AllRows) : Gap(r.pos, qn.q) <= qn.k}}
    /\ question.by = "mmr" =>
          /\ IsInjective(hits) /\ Len(hits) = Min({qn.k, Len(AllRows)})
          /\ qn.probes = 10 => NearestGaps([i \in DOMAIN hits |-> Gap(AllRows[hits[i]].pos, qn.q)], qn.q, qn.k)

\* Exact search gives such hits.
LEMMA ExactSearchIsRight ==
    ASSUME Posed, AskExact
    PROVE  \E hits : ExactHits(hits) /\ Give(hits)
  <1> DEFINE q == question.q
             k == question.k
  <1>1. WellCut(corpus)
    BY CorporaWellCut DEF Posed
  <1>2. q \in Int /\ k \in Nat /\ k \in Int /\ question.probes \in Int
    BY SearchAssumption DEF Posed
  <1> HIDE DEF q, k
  <1>3. CASE Asked("knn") /\ Give(DistributedKnn(corpus, qn.q, qn.k))
    <2>1. NearestGaps(Gaps(DistributedKnn(corpus, q, k), q), q, k)
      BY <1>1, <1>2, KnnIsNearest
    <2>2. ExactHits(DistributedKnn(corpus, q, k))
      BY <1>3, <2>1 DEF ExactHits, Asked, q, k, qn
    <2> QED BY <1>3, <2>2, Zenon DEF q, k, qn
  <1>4. CASE Asked("resident") /\ Give(DistributedResident(corpus, qn.q, qn.k))
    <2>1. NearestGaps(Gaps(DistributedResident(corpus, q, k), q), q, k)
      BY <1>1, <1>2, ResidentIsNearest
    <2>2. ExactHits(DistributedResident(corpus, q, k))
      BY <1>4, <2>1 DEF ExactHits, Asked, q, k, qn
    <2> QED BY <1>4, <2>2, Zenon DEF q, k, qn
  <1>5. CASE Asked("batch") /\ Give(DistributedResidentBatch(corpus, <<qn.q, qn.q + 3, qn.q>>, qn.k))
    <2> DEFINE qs == <<q, q + 3, q>>
               hits == DistributedResidentBatch(corpus, qs, k)
    <2>1. qs \in Seq(Int) /\ DOMAIN qs = 1..3
      BY <1>2
    <2> HIDE DEF qs
    <2>2. \A i \in 1..3 : NearestGaps(Gaps(hits[i], qs[i]), qs[i], k)
      BY <1>1, <1>2, <2>1, BatchIsNearest
    <2> HIDE DEF hits
    <2>3. ExactHits(hits)
      BY <1>5, <2>2 DEF ExactHits, Asked, q, k, qn, qs
    <2> QED BY <1>5, <2>3, Zenon DEF q, k, qn, qs, hits
  <1>6. CASE Asked("range") /\ Give(RangeSearch(AllRows, qn.q, qn.k))
    <2> DEFINE hits == RangeSearch(AllRows, q, k)
    <2>1. {h.id : h \in ToSet(hits)} = {r.id : r \in {r \in ToSet(AllRows) : Gap(r.pos, q) <= k}}
      BY <1>1, <1>2, RangeIsWithin
    <2> HIDE DEF hits
    <2>2. ExactHits(hits)
      BY <1>6, <2>1 DEF ExactHits, Asked, q, k, qn
    <2> QED BY <1>6, <2>2, Zenon DEF q, k, qn, hits
  <1>7. CASE Asked("mmr") /\ Give(Mmr(AllRows, qn.q, qn.k, qn.probes))
    <2> DEFINE lambda == question.probes
               hits == Mmr(AllRows, q, k, lambda)
    <2>1. lambda \in Int
      BY <1>2
    <2> HIDE DEF lambda
    <2>2. /\ IsInjective(hits) /\ Len(hits) = Min({k, Len(AllRows)})
          /\ lambda = 10 => NearestGaps([i \in DOMAIN hits |-> Gap(AllRows[hits[i]].pos, q)], q, k)
      BY <1>1, <1>2, <2>1, MmrIsNearest
    <2> HIDE DEF hits
    <2>3. ExactHits(hits)
      BY <1>7, <2>2 DEF ExactHits, Asked, q, k, qn, lambda
    <2> QED BY <1>7, <2>3, Zenon DEF q, k, qn, hits, lambda
  <1> QED BY <1>3, <1>4, <1>5, <1>6, <1>7 DEF AskExact

\* They stay right as long as corpus and question stay.
LEMMA ExactHitsStay ==
    ASSUME NEW hits, corpus' = corpus, question' = question, ExactHits(hits),
           reply' = [hits |-> hits, at |-> "answered"]
    PROVE  ExactAgrees'
  <1>1. reply'.hits = hits
    OBVIOUS
  <1> QED BY <1>1 DEF ExactAgrees, ExactHits, By, HasAnswer, Gaps, AllGaps, NearestGaps, RowOf, AllRows, SelectInSeq, qn

ExactKinds == {"knn", "resident", "batch", "range", "mmr"}

\* Whoever asks for something else is not answered by exact search.
LEMMA OthersStay == question.by \notin ExactKinds \/ ~HasAnswer => ExactAgrees
  BY DEF ExactAgrees, By, ExactKinds

\* Exact search over shards answers as a scan of the corpus, for any corpora of
\* rows, shards and questions.
THEOREM ExactAlwaysAgrees == SearchSpec => []ExactAgrees
  <1>1. corpus \in Corpora /\ question \in Questions /\ Unasked => Posed /\ ExactAgrees
    <2>1. Unasked => ~HasAnswer
      BY DEF Unasked, HasAnswer, NoResult
    <2> QED BY <2>1, OthersStay DEF Posed
  <1>2. ASSUME Posed, ExactAgrees, [SearchNext]_searchVars
        PROVE  Posed' /\ ExactAgrees'
    <2>1. CASE AskExact
      <3>1. PICK hits : ExactHits(hits) /\ Give(hits)
        BY <1>2, <2>1, ExactSearchIsRight
      <3>2. corpus' = corpus /\ question' = question
        BY <2>1 DEF AskExact, Unaltered
      <3>3. ExactAgrees'
        BY <3>1, <3>2, ExactHitsStay DEF Give
      <3> QED BY <1>2, <3>2, <3>3 DEF Posed
    <2>2. ASSUME corpus' = corpus, question' = question, question.by \notin ExactKinds
          PROVE  Posed' /\ ExactAgrees'
      BY <1>2, <2>2 DEF Posed, ExactAgrees, By, ExactKinds
    <2>3. CASE AskIndex
      <3>1. corpus' = corpus /\ question' = question /\ question.by \in {"ann", "routed", "ann_resident"}
        BY <2>3 DEF AskIndex, Asked, Unaltered
      <3> QED BY <2>2, <3>1 DEF ExactKinds
    <2>4. CASE AskText
      <3>1. corpus' = corpus /\ question' = question /\ question.by \in {"fts", "local_fts", "hybrid", "lance_hybrid"}
        BY <2>4 DEF AskText, Asked, Unaltered
      <3> QED BY <2>2, <3>1 DEF ExactKinds
    <2>5. CASE AskClusters \/ SearchThenSql \/ SqlEnds \/ RegisterReader
      <3>1. corpus' = corpus /\ question' = question /\ question.by \in {"kmeans", "analytical", "register"}
        BY <2>5 DEF AskClusters, SearchThenSql, SqlEnds, RegisterReader, Asked, Unaltered
      <3> QED BY <2>2, <3>1 DEF ExactKinds
    <2>6. CASE UNCHANGED searchVars
      <3>1. corpus' = corpus /\ question' = question /\ reply' = reply
        BY <2>6 DEF searchVars
      <3>2. ExactAgrees'
        BY <1>2, <3>1 DEF ExactAgrees, By, HasAnswer, Gaps, AllGaps, NearestGaps, RowOf, AllRows, SelectInSeq, qn
      <3> QED BY <1>2, <3>1, <3>2 DEF Posed
    <2> QED BY <1>2, <2>1, <2>3, <2>4, <2>5, <2>6 DEF SearchNext
  <1> QED BY <1>1, <1>2, PTL DEF SearchSpec
=============================================================================
