--------------------------- MODULE CurationProofs ---------------------------
(***************************************************************************)
(* Theorems about curation. The first half is about the graph of near      *)
(* duplicates: DistCC, for any graph on natural numbers, any number of     *)
(* shards, any way of giving edges to them and any bound on the rounds,    *)
(* and the union-find that answers the same question on the driver. The    *)
(* second half is about CurationFlow, for any corpora and operators.       *)
(***************************************************************************)
EXTENDS FuzzyDedup, CurationFlow, SequenceLemmas, FiniteSetTheorems

-----------------------------------------------------------------------------
(* The components of the near duplicates. *)
\* A vertex is in its own component.
LEMMA OwnComponent ==
    ASSUME NEW E, NEW v \in Vertices
    PROVE  v \in Component(v, E)
  BY DEF Component

\* Both ends of an edge have the same component.
LEMMA EdgeKeepsComponent ==
    ASSUME NEW E, NEW e \in E, NEW u \in Vertices,
           e[1] \in Vertices, e[2] \in Vertices
    PROVE  /\ u \in Component(e[1], E) <=> u \in Component(e[2], E)
  BY DEF Component, Closed

\* Labels that are sound and equal along every edge are the least vertices of
\* their components.
LEMMA EqualLabelsAreLeast ==
    ASSUME NEW E \in SUBSET (Vertices \X Vertices),
           NEW f \in [Vertices -> Vertices],
           \A v \in Vertices : f[v] \in Component(v, E) /\ f[v] <= v,
           \A e \in E : f[e[1]] = f[e[2]],
           NEW v \in Vertices
    PROVE  IsLeast(f[v], Component(v, E))
  <1> DEFINE S == {u \in Vertices : f[u] = f[v]}
  <1>1. Closed(S, E)
    BY DEF Closed
  <1>2. Component(v, E) \subseteq S
    BY <1>1 DEF Component
  <1>3. \A u \in Component(v, E) : f[v] <= u
    BY <1>2
  <1> QED BY <1>3 DEF IsLeast
------------------------------------------------------------------------------
HasGathered(s) == pc = "compute" \/ (pc = "gather" /\ s \notin left)

HasProposed(s) == pc = "apply" \/ (pc = "compute" /\ s \notin left)

\* Labels do not change before the apply phase.
QuietBeforeApply == pc \in {"gather", "compute"} => ~changed

\* What a shard gathered in this round still is what the labels are.
SnapshotFresh ==
    \A s \in Shards : HasGathered(s) =>
        snapshot[s] = [r \in Endpoints(edges[s]) |-> label[r]]

\* Every proposal is a label its receiver may take.
ProposalsSound ==
    \A s \in Shards : HasProposed(s) =>
        \A q \in messages[s] :
            q[2] \in Component(q[1], AllEdges) /\ q[2] <= q[1]

\* As long as the round changed nothing, both ends of every edge have the least
\* of their labels as a proposal.
ProposalsComplete ==
    ~changed =>
        \A s \in Shards : HasProposed(s) =>
            \A e \in edges[s] :
                \A r \in Receivers(e) :
                    <<r, MinOf(label[e[1]], label[e[2]])>> \in messages[s]

\* As long as the round changed nothing, no shard that has applied had a
\* proposal below a label of its own.
AppliedQuiet ==
    pc = "apply" /\ ~changed =>
        \A v \in Vertices : Owner(v) \notin left =>
            \A m \in ProposalsFor(v) : label[v] <= m

EqualAtTheEnd ==
    Ended /\ ~changed => \A e \in AllEdges : label[e[1]] = label[e[2]]

RoundsLeft == ~Ended => round < MaxRounds

\* The strengthening under which the invariants are inductive.
IInv ==
    /\ TypeOK
    /\ LabelsSound
    /\ QuietBeforeApply
    /\ SnapshotFresh
    /\ ProposalsSound
    /\ ProposalsComplete
    /\ AppliedQuiet
    /\ EqualAtTheEnd
    /\ RoundsLeft

------------------------------------------------------------------------------
\* The edges of all shards are pairs of vertices.
LEMMA EdgesAreEdges ==
    ASSUME TypeOK
    PROVE  /\ AllEdges \in SUBSET (Vertices \X Vertices)
           /\ \A s \in Shards : edges[s] \subseteq AllEdges
           /\ \A e \in AllEdges : e[1] \in Vertices /\ e[2] \in Vertices
  BY DEF TypeOK, AllEdges

LEMMA InitIInv == Init => IInv
  <1> SUFFICES ASSUME Init PROVE IInv
    OBVIOUS
  <1> USE CCAssumption
  <1>1. TypeOK
    <2>1. snapshot \in [Shards -> UNION {[V -> Vertices] : V \in SUBSET Vertices}]
      <3>1. [r \in {} |-> 0] \in [{} -> Vertices]
        OBVIOUS
      <3>2. {} \in SUBSET Vertices
        OBVIOUS
      <3> QED BY <3>1, <3>2 DEF Init
    <2>2. edges \in [Shards -> SUBSET (Vertices \X Vertices)]
      BY DEF Init
    <2>3. label \in Labels /\ messages \in [Shards -> SUBSET (Vertices \X Vertices)]
      BY DEF Init, Labels
    <2>4. round \in 0..MaxRounds
      BY DEF Init
    <2> QED BY <2>1, <2>2, <2>3, <2>4 DEF Init, TypeOK
  <1>2. LabelsSound
    BY OwnComponent DEF Init, LabelsSound
  <1>3. /\ QuietBeforeApply /\ SnapshotFresh /\ ProposalsSound
        /\ ProposalsComplete /\ AppliedQuiet /\ EqualAtTheEnd /\ RoundsLeft
    BY DEF Init, QuietBeforeApply, SnapshotFresh, ProposalsSound,
           ProposalsComplete, AppliedQuiet, EqualAtTheEnd, RoundsLeft, Ended,
           HasGathered, HasProposed, Shards
  <1> QED BY <1>1, <1>2, <1>3 DEF IInv

\* What a shard gathers is a labelling of the ends of its edges.
LEMMA GatherType ==
    ASSUME TypeOK, NEW s \in Shards
    PROVE  [r \in Endpoints(edges[s]) |-> label[r]]
               \in UNION {[V -> Vertices] : V \in SUBSET Vertices}
  <1>1. Endpoints(edges[s]) \in SUBSET Vertices
    BY EdgesAreEdges DEF Endpoints
  <1>2. [r \in Endpoints(edges[s]) |-> label[r]] \in [Endpoints(edges[s]) -> Vertices]
    BY <1>1 DEF TypeOK, Labels
  <1> QED BY <1>1, <1>2

LEMMA GatherIInv ==
    ASSUME IInv, NEW s \in Shards, Gather(s)
    PROVE  IInv'
  <1> USE CCAssumption
  <1>1. AllEdges' = AllEdges
    BY DEF Gather, AllEdges
  <1>2. TypeOK'
    BY GatherType DEF IInv, TypeOK, Gather, Answered
  <1>3. LabelsSound'
    BY <1>1 DEF IInv, LabelsSound, Gather
  <1>4. SnapshotFresh'
    BY DEF IInv, TypeOK, SnapshotFresh, HasGathered, Gather, Answered
  <1>5. /\ QuietBeforeApply' /\ ProposalsSound' /\ ProposalsComplete'
        /\ AppliedQuiet' /\ EqualAtTheEnd' /\ RoundsLeft'
    BY DEF IInv, QuietBeforeApply, ProposalsSound, ProposalsComplete,
           AppliedQuiet, EqualAtTheEnd, RoundsLeft, HasProposed, Ended, Gather
  <1> QED BY <1>2, <1>3, <1>4, <1>5 DEF IInv

LEMMA MinOfNats ==
    ASSUME NEW a \in Nat, NEW b \in Nat
    PROVE  MinOf(a, b) \in {a, b} /\ MinOf(a, b) <= a /\ MinOf(a, b) <= b
  BY DEF MinOf

\* What a shard proposes along an edge, once it gathered.
LEMMA ProposalIsMin ==
    ASSUME IInv, NEW s \in Shards, HasGathered(s), NEW e \in edges[s]
    PROVE  /\ Proposal(snapshot[s], e) = MinOf(label[e[1]], label[e[2]])
           /\ \A r \in Receivers(e) :
                 /\ r \in Vertices
                 /\ Proposal(snapshot[s], e) \in Component(r, AllEdges)
                 /\ Proposal(snapshot[s], e) \in Vertices
                 /\ Proposal(snapshot[s], e) <= r
  <1> USE CCAssumption
  <1>1. /\ e \in AllEdges
        /\ e[1] \in Vertices /\ e[2] \in Vertices
    BY EdgesAreEdges DEF IInv
  <1>2. e[1] \in Endpoints(edges[s]) /\ e[2] \in Endpoints(edges[s])
    BY DEF Endpoints
  <1>3. Proposal(snapshot[s], e) = MinOf(label[e[1]], label[e[2]])
    <2>1. snapshot[s] = [r \in Endpoints(edges[s]) |-> label[r]]
      BY DEF IInv, SnapshotFresh
    <2>2. snapshot[s][e[1]] = label[e[1]] /\ snapshot[s][e[2]] = label[e[2]]
      BY <1>2, <2>1
    <2> QED BY <2>2 DEF Proposal
  <1>4. /\ label[e[1]] \in Vertices /\ label[e[2]] \in Vertices
        /\ label[e[1]] \in Component(e[1], AllEdges) /\ label[e[1]] <= e[1]
        /\ label[e[2]] \in Component(e[2], AllEdges) /\ label[e[2]] <= e[2]
    BY <1>1 DEF IInv, TypeOK, Labels, LabelsSound
  <1>5. /\ label[e[1]] \in Component(e[2], AllEdges)
        /\ label[e[2]] \in Component(e[1], AllEdges)
    BY <1>1, <1>4, EdgeKeepsComponent
  <1>6. /\ MinOf(label[e[1]], label[e[2]]) \in {label[e[1]], label[e[2]]}
        /\ MinOf(label[e[1]], label[e[2]]) <= e[1]
        /\ MinOf(label[e[1]], label[e[2]]) <= e[2]
    <2> DEFINE a == label[e[1]]
               b == label[e[2]]
    <2>1. /\ a \in Nat /\ b \in Nat /\ e[1] \in Nat /\ e[2] \in Nat
          /\ a <= e[1] /\ b <= e[2]
      BY <1>1, <1>4
    <2> HIDE DEF a, b
    <2>2. MinOf(a, b) \in {a, b} /\ MinOf(a, b) <= a /\ MinOf(a, b) <= b
      BY <2>1, MinOfNats
    <2>3. MinOf(a, b) \in {a, b} /\ MinOf(a, b) <= e[1] /\ MinOf(a, b) <= e[2]
      BY <2>1, <2>2
    <2> QED BY <2>3 DEF a, b
  <1>7. \A r \in Receivers(e) : r = e[1] \/ r = e[2]
    BY DEF Receivers
  <1> QED BY <1>1, <1>3, <1>4, <1>5, <1>6, <1>7

LEMMA ComputeIInv ==
    ASSUME IInv, NEW s \in Shards, Compute(s)
    PROVE  IInv'
  <1> USE CCAssumption
  <1> DEFINE out == UNION {{<<r, Proposal(snapshot[s], e)>> : r \in Receivers(e)} :
                              e \in edges[s]}
  <1>1. AllEdges' = AllEdges
    BY DEF Compute, AllEdges
  <1>2. messages' = [messages EXCEPT ![s] = out]
    BY DEF Compute
  <1>3. HasGathered(s)
    BY DEF Compute, HasGathered
  <1>4. \A q \in out : \E e \in edges[s] : \E r \in Receivers(e) :
            q = <<r, Proposal(snapshot[s], e)>>
    OBVIOUS
  <1>5. \A e \in edges[s] : \A r \in Receivers(e) : <<r, Proposal(snapshot[s], e)>> \in out
    OBVIOUS
  <1> HIDE DEF out
  <1>6. /\ out \subseteq Vertices \X Vertices
        /\ \A q \in out : q[2] \in Component(q[1], AllEdges) /\ q[2] <= q[1]
    BY <1>3, <1>4, ProposalIsMin
  <1>7. \A e \in edges[s] : \A r \in Receivers(e) :
            <<r, MinOf(label[e[1]], label[e[2]])>> \in out
    BY <1>3, <1>5, ProposalIsMin
  <1>8. /\ messages \in [Shards -> SUBSET (Vertices \X Vertices)]
        /\ messages'[s] = out
        /\ \A t \in Shards : t # s => messages'[t] = messages[t]
    BY <1>2 DEF IInv, TypeOK
  <1>9. TypeOK'
    BY <1>2, <1>6 DEF IInv, TypeOK, Compute, Answered
  <1>10. LabelsSound'
    BY <1>1 DEF IInv, LabelsSound, Compute
  <1>11. ProposalsSound'
    BY <1>1, <1>6, <1>8 DEF IInv, ProposalsSound, HasProposed, Compute, Answered
  <1>12. ProposalsComplete'
    BY <1>7, <1>8 DEF IInv, ProposalsComplete, HasProposed, Compute, Answered
  <1>13. SnapshotFresh'
    BY DEF IInv, SnapshotFresh, HasGathered, Compute
  <1>14. /\ QuietBeforeApply' /\ AppliedQuiet' /\ EqualAtTheEnd' /\ RoundsLeft'
    BY DEF IInv, QuietBeforeApply, AppliedQuiet, EqualAtTheEnd, RoundsLeft, Ended,
           Compute
  <1> QED BY <1>9, <1>10, <1>11, <1>12, <1>13, <1>14 DEF IInv

\* What apply does to the labels.
LEMMA ApplyLabels ==
    ASSUME IInv, NEW s \in Shards, Apply(s)
    PROVE  /\ label' \in [Vertices -> Nat]
           /\ changed' \in BOOLEAN
           /\ \A r \in Vertices : label'[r] = label[r] \/ label'[r] \in ProposalsFor(r)
           /\ ~changed' => /\ ~changed /\ label' = label
                           /\ \A v \in Vertices : Owner(v) = s =>
                                 \A m \in ProposalsFor(v) : label[v] <= m
  <1> USE CCAssumption
  <1> DEFINE low == {r \in Vertices : Owner(r) = s
                         /\ \E m \in ProposalsFor(r) : Lowers(r, m)}
             least(r) == CHOOSE m \in ProposalsFor(r) :
                             \A n \in ProposalsFor(r) : m <= n
  <1>1. /\ label' = [r \in Vertices |-> IF r \in low THEN least(r) ELSE label[r]]
        /\ changed' = (changed \/ low # {})
    BY DEF Apply
  <1>2. label \in [Vertices -> Nat] /\ changed \in BOOLEAN
    BY DEF IInv, TypeOK, Labels
  <1>3. ASSUME NEW r \in low
        PROVE  least(r) \in ProposalsFor(r)
    <2>1. ProposalsFor(r) \in SUBSET Nat /\ ProposalsFor(r) # {}
      BY DEF ProposalsFor
    <2>2. \E m \in ProposalsFor(r) : \A n \in ProposalsFor(r) : m <= n
      BY <2>1, LeastExists
    <2> QED BY <2>2
  <1>4. \A r \in Vertices : ProposalsFor(r) \subseteq Nat
    BY DEF ProposalsFor
  <1>5. \A v \in Vertices : Owner(v) = s /\ v \notin low =>
            \A m \in ProposalsFor(v) : label[v] <= m
    BY <1>2, <1>4 DEF Lowers
  <1> HIDE DEF low, least
  <1>6. low \subseteq Vertices
    BY DEF low
  <1>7. \A r \in Vertices : label'[r] = label[r] \/ label'[r] \in ProposalsFor(r)
    BY <1>1, <1>3
  <1>8. label' \in [Vertices -> Nat]
    <2>1. \A r \in Vertices : label'[r] \in Nat
      BY <1>2, <1>4, <1>7
    <2> QED BY <1>1, <2>1
  <1>9. ASSUME ~changed'
        PROVE  ~changed /\ low = {} /\ label' = label
    BY <1>1, <1>2, <1>9
  <1> QED BY <1>1, <1>2, <1>5, <1>7, <1>8, <1>9

LEMMA ApplyIInv ==
    ASSUME IInv, NEW s \in Shards, Apply(s)
    PROVE  IInv'
  <1> USE CCAssumption
  <1>1. AllEdges' = AllEdges
    BY DEF Apply, AllEdges
  <1>2. /\ pc = "apply" /\ pc' = "apply"
        /\ left' = left \ {s}
        /\ UNCHANGED <<edges, snapshot, messages, round, result>>
    BY DEF Apply, Answered
  <1>3. ASSUME NEW r \in Vertices, NEW m \in ProposalsFor(r)
        PROVE  m \in Vertices /\ m \in Component(r, AllEdges) /\ m <= r
    <2>1. PICK t \in Shards : <<r, m>> \in messages[t]
      BY DEF ProposalsFor
    <2>2. <<r, m>>[1] = r /\ <<r, m>>[2] = m
      OBVIOUS
    <2>3. HasProposed(t)
      BY <1>2 DEF HasProposed
    <2> QED BY <2>1, <2>2, <2>3 DEF IInv, ProposalsSound, ProposalsFor
  <1>4. \A r \in Vertices : label'[r] = label[r] \/ label'[r] \in ProposalsFor(r)
    BY ApplyLabels
  <1>5. \A r \in Vertices : /\ label'[r] \in Vertices
                            /\ label'[r] \in Component(r, AllEdges)
                            /\ label'[r] <= r
    BY <1>3, <1>4 DEF IInv, TypeOK, Labels, LabelsSound
  <1>6. LabelsSound'
    BY <1>1, <1>5 DEF LabelsSound
  <1>7. label' \in Labels
    BY <1>5, ApplyLabels DEF Labels
  <1>8. TypeOK'
    BY <1>2, <1>7, ApplyLabels DEF IInv, TypeOK
  <1>9. ~changed' => ~changed /\ label' = label
    BY ApplyLabels
  <1>10. ProposalsComplete'
    BY <1>2, <1>9 DEF IInv, ProposalsComplete, HasProposed
  <1>11. \A r : ProposalsFor(r)' = ProposalsFor(r)
    BY <1>2 DEF ProposalsFor
  <1>12. AppliedQuiet'
    <2> SUFFICES ASSUME ~changed', NEW v \in Vertices, Owner(v) \notin left',
                        NEW m \in ProposalsFor(v)'
                 PROVE  label'[v] <= m
      BY DEF AppliedQuiet
    <2>1. ~changed /\ label' = label /\ m \in ProposalsFor(v)
      BY <1>9, <1>11
    <2>2. CASE Owner(v) = s
      BY <2>1, <2>2, ApplyLabels
    <2>3. CASE Owner(v) # s
      BY <1>2, <2>1, <2>3 DEF IInv, AppliedQuiet
    <2> QED BY <2>2, <2>3
  <1>13. ProposalsSound'
    BY <1>1, <1>2 DEF IInv, ProposalsSound, HasProposed
  <1>14. /\ QuietBeforeApply' /\ SnapshotFresh' /\ EqualAtTheEnd' /\ RoundsLeft'
    BY <1>2 DEF IInv, QuietBeforeApply, SnapshotFresh, HasGathered, EqualAtTheEnd,
                RoundsLeft, Ended
  <1> QED BY <1>6, <1>8, <1>10, <1>12, <1>13, <1>14 DEF IInv

LEMMA NextPhaseIInv ==
    ASSUME IInv, NextPhase
    PROVE  IInv'
  <1> USE CCAssumption
  <1>1. AllEdges' = AllEdges
    BY DEF NextPhase, AllEdges
  <1>2. /\ left = {} /\ left' = Shards
        /\ UNCHANGED <<edges, label, snapshot, messages, changed, round, result>>
        /\ \/ pc = "gather" /\ pc' = "compute"
           \/ pc = "compute" /\ pc' = "apply"
    BY DEF NextPhase
  <1>3. TypeOK'
    BY <1>2 DEF IInv, TypeOK
  <1>4. LabelsSound'
    BY <1>1, <1>2 DEF IInv, LabelsSound
  <1>5. SnapshotFresh'
    BY <1>2 DEF IInv, SnapshotFresh, HasGathered
  <1>6. ProposalsSound'
    BY <1>1, <1>2 DEF IInv, ProposalsSound, HasProposed
  <1>7. ProposalsComplete'
    BY <1>2 DEF IInv, ProposalsComplete, HasProposed
  <1>8. AppliedQuiet'
    <2>1. \A v \in Vertices : Owner(v) \in Shards
      BY DEF Owner, Shards
    <2> QED BY <1>2, <2>1 DEF AppliedQuiet
  <1>9. QuietBeforeApply' /\ EqualAtTheEnd' /\ RoundsLeft'
    BY <1>2 DEF IInv, QuietBeforeApply, EqualAtTheEnd, RoundsLeft, Ended
  <1> QED BY <1>3, <1>4, <1>5, <1>6, <1>7, <1>8, <1>9 DEF IInv

\* When a round changed nothing, the labels of every edge's ends are equal.
LEMMA QuietRoundEqualizes ==
    ASSUME IInv, pc = "apply", left = {}, ~changed, NEW e \in AllEdges
    PROVE  label[e[1]] = label[e[2]]
  <1> USE CCAssumption
  <1>1. PICK s \in Shards : e \in edges[s]
    BY DEF AllEdges
  <1>2. /\ e[1] \in Vertices /\ e[2] \in Vertices
        /\ label[e[1]] \in Vertices /\ label[e[2]] \in Vertices
    BY EdgesAreEdges DEF IInv, TypeOK, Labels
  <1> DEFINE m == MinOf(label[e[1]], label[e[2]])
  <1>3. <<e[1], m>> \in messages[s] /\ <<e[2], m>> \in messages[s]
    BY <1>1 DEF IInv, ProposalsComplete, HasProposed, Receivers
  <1>4. m \in Vertices /\ m <= label[e[1]] /\ m <= label[e[2]]
        /\ m \in {label[e[1]], label[e[2]]}
    BY <1>2, MinOfNats
  <1> HIDE DEF m
  <1>5. m \in ProposalsFor(e[1]) /\ m \in ProposalsFor(e[2])
    BY <1>1, <1>3, <1>4 DEF ProposalsFor
  <1>6. label[e[1]] <= m /\ label[e[2]] <= m
    <2>1. /\ Owner(e[1]) \notin left /\ Owner(e[2]) \notin left
      OBVIOUS
    <2> QED BY <1>2, <1>5, <2>1 DEF IInv, AppliedQuiet
  <1>7. label[e[1]] \in Nat /\ label[e[2]] \in Nat /\ m \in Nat
    BY <1>2, <1>4
  <1> QED BY <1>4, <1>6, <1>7

LEMMA EndRoundIInv ==
    ASSUME IInv, EndRound
    PROVE  IInv'
  <1> USE CCAssumption
  <1>1. AllEdges' = AllEdges
    BY DEF EndRound, AllEdges
  <1>2. /\ pc = "apply" /\ left = {} /\ left' = Shards /\ round' = round + 1
        /\ UNCHANGED <<edges, label, snapshot, messages, result>>
        /\ \/ pc' = "collect" /\ changed' = changed
           \/ pc' = "gather" /\ changed' = FALSE /\ ~(round + 1 >= MaxRounds)
    BY DEF EndRound, OutOfRounds
  <1>3. round \in Nat /\ round < MaxRounds
    BY <1>2 DEF IInv, TypeOK, RoundsLeft, Ended
  <1>4. TypeOK'
    <2>1. round' \in 0..MaxRounds
      BY <1>2, <1>3
    <2> QED BY <1>2, <2>1 DEF IInv, TypeOK
  <1>5. LabelsSound'
    BY <1>1, <1>2 DEF IInv, LabelsSound
  <1>6. EqualAtTheEnd'
    BY <1>1, <1>2, QuietRoundEqualizes DEF EqualAtTheEnd, Ended
  <1>7. RoundsLeft'
    BY <1>2, <1>3 DEF RoundsLeft, Ended
  <1>8. /\ QuietBeforeApply' /\ SnapshotFresh' /\ ProposalsSound'
        /\ ProposalsComplete' /\ AppliedQuiet'
    BY <1>2 DEF QuietBeforeApply, SnapshotFresh, ProposalsSound, ProposalsComplete,
                AppliedQuiet, HasGathered, HasProposed
  <1> QED BY <1>4, <1>5, <1>6, <1>7, <1>8 DEF IInv

LEMMA CollectIInv ==
    ASSUME IInv, Collect
    PROVE  IInv'
  <1>1. AllEdges' = AllEdges
    BY DEF Collect, AllEdges
  <1>2. TypeOK'
    <2>1. result' \subseteq Vertices \X Vertices
      BY DEF IInv, TypeOK, Labels, Collect
    <2> QED BY <2>1 DEF IInv, TypeOK, Collect
  <1>3. LabelsSound'
    BY <1>1 DEF IInv, LabelsSound, Collect
  <1>4. EqualAtTheEnd'
    BY <1>1 DEF IInv, EqualAtTheEnd, Ended, Collect
  <1>5. /\ QuietBeforeApply' /\ SnapshotFresh' /\ ProposalsSound'
        /\ ProposalsComplete' /\ AppliedQuiet' /\ RoundsLeft'
    BY DEF QuietBeforeApply, SnapshotFresh, ProposalsSound, ProposalsComplete,
           AppliedQuiet, RoundsLeft, HasGathered, HasProposed, Ended, Collect
  <1> QED BY <1>2, <1>3, <1>4, <1>5 DEF IInv

LEMMA StutterIInv ==
    ASSUME IInv, UNCHANGED vars
    PROVE  IInv'
  <1>1. AllEdges' = AllEdges
    BY DEF vars, AllEdges
  <1>2. \A r : ProposalsFor(r)' = ProposalsFor(r)
    BY DEF vars, ProposalsFor
  <1>3. TypeOK' /\ LabelsSound' /\ QuietBeforeApply' /\ SnapshotFresh'
    BY <1>1 DEF IInv, vars, TypeOK, LabelsSound, QuietBeforeApply, SnapshotFresh,
                HasGathered
  <1>4. ProposalsSound' /\ ProposalsComplete' /\ EqualAtTheEnd' /\ RoundsLeft'
    BY <1>1 DEF IInv, vars, ProposalsSound, ProposalsComplete, EqualAtTheEnd,
                RoundsLeft, HasProposed, Ended
  <1>5. AppliedQuiet'
    BY <1>2 DEF IInv, vars, AppliedQuiet
  <1> QED BY <1>3, <1>4, <1>5 DEF IInv

LEMMA NextIInv == IInv /\ [Next]_vars => IInv'
  <1> SUFFICES ASSUME IInv, [Next]_vars PROVE IInv'
    OBVIOUS
  <1>1. CASE NextPhase
    BY <1>1, NextPhaseIInv
  <1>2. CASE EndRound
    BY <1>2, EndRoundIInv
  <1>3. CASE Collect
    BY <1>3, CollectIInv
  <1>4. CASE \E s \in Shards : Gather(s)
    BY <1>4, GatherIInv
  <1>5. CASE \E s \in Shards : Compute(s)
    BY <1>5, ComputeIInv
  <1>6. CASE \E s \in Shards : Apply(s)
    BY <1>6, ApplyIInv
  <1>7. CASE UNCHANGED vars
    BY <1>7, StutterIInv
  <1> QED BY <1>1, <1>2, <1>3, <1>4, <1>5, <1>6, <1>7 DEF Next, Driver

\* The invariant of the computation: fresh snapshots, sound proposals and,
\* while a round changed nothing, complete ones.
THEOREM InductiveInvariant == Spec => []IInv
  BY InitIInv, NextIInv, PTL DEF Spec

\* Every variable of the computation keeps its type; in particular no more than
\* max_rounds rounds are run (the loop of connected_components).
THEOREM TypeCorrect == Spec => []TypeOK
  <1>1. IInv => TypeOK
    BY DEF IInv
  <1> QED BY <1>1, InductiveInvariant, PTL

\* Labels are sound at every moment: each names a vertex of its own vertex's
\* component that is no larger (apply takes nothing else).
THEOREM LabelsCorrect == Spec => []LabelsSound
  <1>1. IInv => LabelsSound
    BY DEF IInv
  <1> QED BY <1>1, InductiveInvariant, PTL

\* "Converges when a full round changes no label" (connected_components): then
\* every label is the least vertex of its component, whatever the graph and
\* however its edges are spread.
THEOREM ConvergenceCorrect == Spec => []ConvergedIsComponentMin
  <1>1. IInv => ConvergedIsComponentMin
    <2> SUFFICES ASSUME IInv, Ended, ~changed, NEW v \in Vertices
                 PROVE  IsLeast(label[v], Component(v, AllEdges))
      BY DEF ConvergedIsComponentMin
    <2>1. /\ AllEdges \in SUBSET (Vertices \X Vertices)
          /\ label \in [Vertices -> Vertices]
      BY EdgesAreEdges DEF IInv, TypeOK, Labels
    <2>2. \A u \in Vertices : label[u] \in Component(u, AllEdges) /\ label[u] <= u
      BY DEF IInv, LabelsSound
    <2>3. \A e \in AllEdges : label[e[1]] = label[e[2]]
      BY DEF IInv, EqualAtTheEnd
    <2> QED BY <2>1, <2>2, <2>3, EqualLabelsAreLeast
  <1> QED BY <1>1, InductiveInvariant, PTL

------------------------------------------------------------------------------
\* The vertices within one edge of what w says of each vertex.
Wider(w) ==
    [v \in Vertices |-> w[v] \cup UNION {w[u] : u \in
        {x \in Vertices : <<v, x>> \in AllEdges \/ <<x, v>> \in AllEdges}}]

\* The recursive function Within has a value for every number of edges.
LEMMA WithinLoop ==
    /\ Within[0] = [v \in Vertices |-> {v}]
    /\ \A k \in Nat : Within[k + 1] = Wider(Within[k])
  <1> DEFINE zero == [v \in Vertices |-> {v}]
             Fits(f, n) == f = [k \in 0..n |-> IF k = 0 THEN zero ELSE Wider(f[k - 1])]
             Loop(n) == \E f : Fits(f, n)
             S == {n \in Nat : Loop(n)}
             g == CHOOSE g : g = [k \in Nat |-> IF k = 0 THEN zero ELSE Wider(g[k - 1])]
  <1>1. Within = g
    BY DEF Within, Wider
  <1> HIDE DEF zero
  <1>2. 0 \in S
    <2> DEFINE f == [k \in 0..0 |-> zero]
    <2>1. Fits(f, 0)
      OBVIOUS
    <2> QED BY <2>1
  <1>3. ASSUME NEW n \in Nat, NEW f, Fits(f, n)
        PROVE  f[0] = zero /\ \A k \in 1..n : f[k] = Wider(f[k - 1])
    BY <1>3
  <1>4. ASSUME NEW n \in Nat, n \in S PROVE n + 1 \in S
    <2>1. PICK f : Fits(f, n)
      BY <1>4
    <2>2. f[0] = zero /\ \A k \in 1..n : f[k] = Wider(f[k - 1])
      BY <1>3, <2>1
    <2> DEFINE m == [k \in 0..(n + 1) |-> IF k = n + 1 THEN Wider(f[n]) ELSE f[k]]
    <2>3. m[n + 1] = Wider(f[n]) /\ \A k \in 0..n : m[k] = f[k]
      OBVIOUS
    <2>4. m = [k \in 0..(n + 1) |-> m[k]]
      OBVIOUS
    <2> HIDE DEF m
    <2>5. \A k \in 0..(n + 1) : m[k] = IF k = 0 THEN zero ELSE Wider(m[k - 1])
      <3>1. \A k \in 1..n : k - 1 \in 0..n /\ k \in 0..n
        OBVIOUS
      <3>2. \A k \in 1..n : m[k] = Wider(m[k - 1])
        BY <2>2, <2>3, <3>1
      <3>3. (n + 1) - 1 = n /\ n \in 0..n /\ 0 \in 0..n
        OBVIOUS
      <3>4. \A k \in 0..(n + 1) : k = 0 \/ k \in 1..n \/ k = n + 1
        OBVIOUS
      <3> QED BY <2>2, <2>3, <3>2, <3>3, <3>4
    <2>6. m = [k \in 0..(n + 1) |-> IF k = 0 THEN zero ELSE Wider(m[k - 1])]
      BY <2>4, <2>5
    <2> QED BY <2>6
  <1>5. \A n \in Nat : \E f : Fits(f, n)
    <2> HIDE DEF S
    <2>1. \A n \in Nat : n \in S
      BY <1>2, <1>4, Induction
    <2> QED BY <2>1 DEF S
  <1>6. ASSUME NEW n \in Nat, NEW f, NEW h, Fits(f, n), Fits(h, n + 1)
        PROVE  f[n] = h[n]
    <2> DEFINE T == {k \in Nat : k <= n => f[k] = h[k]}
    <2>1. f[0] = zero /\ \A k \in 1..n : f[k] = Wider(f[k - 1])
      BY <1>3, <1>6
    <2>2. h[0] = zero /\ \A k \in 1..(n + 1) : h[k] = Wider(h[k - 1])
      BY <1>3, <1>6
    <2> HIDE DEF Fits
    <2>3. 0 \in T
      BY <2>1, <2>2
    <2>4. ASSUME NEW k \in Nat, k \in T PROVE k + 1 \in T
      <3>1. CASE k + 1 <= n
        <4>1. k + 1 \in 1..n /\ k + 1 \in 1..(n + 1) /\ (k + 1) - 1 = k /\ f[k] = h[k]
          BY <2>4, <3>1
        <4>2. f[k + 1] = Wider(f[k]) /\ h[k + 1] = Wider(h[k])
          BY <2>1, <2>2, <4>1
        <4> QED BY <4>1, <4>2
      <3>2. CASE ~(k + 1 <= n)
        BY <3>2
      <3> QED BY <3>1, <3>2
    <2> HIDE DEF T
    <2>5. n \in T
      BY <2>3, <2>4, Induction
    <2> QED BY <2>5 DEF T
  <1> DEFINE K(n) == CHOOSE f : Fits(f, n)
             w == [n \in Nat |-> K(n)[n]]
  <1>7. \A n \in Nat : Fits(K(n), n)
    BY <1>5
  <1>8. \A n \in Nat : w[n] = K(n)[n]
    OBVIOUS
  <1>9. w = [n \in Nat |-> w[n]]
    OBVIOUS
  <1> HIDE DEF K, w
  <1>10. w[0] = zero
    BY <1>3, <1>7, <1>8
  <1>11. ASSUME NEW n \in Nat
         PROVE  w[n + 1] = Wider(w[n])
    <2>1. Fits(K(n), n) /\ Fits(K(n + 1), n + 1)
      BY <1>7
    <2>2. K(n + 1)[n] = K(n)[n]
      BY <1>6, <2>1
    <2>3. n + 1 \in 1..(n + 1) /\ (n + 1) - 1 = n
      OBVIOUS
    <2>4. K(n + 1)[n + 1] = Wider(K(n + 1)[n])
      BY <1>3, <2>1, <2>3
    <2> QED BY <1>8, <2>2, <2>4
  <1>12. \A k \in Nat : w[k] = IF k = 0 THEN zero ELSE Wider(w[k - 1])
    <2>1. \A k \in Nat : k # 0 => k - 1 \in Nat /\ (k - 1) + 1 = k
      OBVIOUS
    <2> QED BY <1>10, <1>11, <2>1
  <1>13. w = [k \in Nat |-> IF k = 0 THEN zero ELSE Wider(w[k - 1])]
    BY <1>9, <1>12
  <1>14. g = [k \in Nat |-> IF k = 0 THEN zero ELSE Wider(g[k - 1])]
    BY <1>13
  <1> HIDE DEF g
  <1>15. g[0] = zero
    BY <1>14
  <1>16. \A k \in Nat : g[k + 1] = Wider(g[k])
    <2>1. \A k \in Nat : k + 1 \in Nat /\ k + 1 # 0 /\ (k + 1) - 1 = k
      OBVIOUS
    <2> QED BY <1>14, <2>1
  <1> QED BY <1>1, <1>15, <1>16 DEF zero

\* As long as the edges stay, so does what is within k of them.
LEMMA WithinStays ==
    ASSUME AllEdges' = AllEdges
    PROVE  Within' = Within
  BY DEF Within

------------------------------------------------------------------------------
\* The labels of v count for one round more once its owner has applied.
Horizon(v) == IF pc = "apply" /\ Owner(v) \notin left THEN round + 1 ELSE round

\* What the ends of an edge hear of within k edges.
Nearby(k, e) == Within[k][e[1]] \cup Within[k][e[2]]

\* After k rounds a label is the least vertex within k edges.
LabelsLeast == \A v \in Vertices : IsLeast(label[v], Within[Horizon(v)][v])

\* A shard that proposed has, for each of its edges, the least vertex within the
\* rounds done of either end as a proposal to both, and no other proposals.
ProposalsLeast ==
    \A s \in Shards : HasProposed(s) =>
        /\ \A q \in messages[s] : \E e \in edges[s] :
               q[1] \in Receivers(e) /\ IsLeast(q[2], Nearby(round, e))
        /\ \A e \in edges[s] : \A r \in Receivers(e) :
               \E m \in Vertices : <<r, m>> \in messages[s] /\ IsLeast(m, Nearby(round, e))

\* The rounds done before the one that counts.
Begun == IF Ended THEN round - 1 ELSE round

\* A round that changed something has lowered a label below what is within the
\* rounds before it.
ChangeSeen ==
    changed => \E v \in Vertices : \E m \in Vertices :
                   IsLeast(m, Within[Begun][v]) /\ label[v] < m

\* The loop is left after a change only when the rounds are used up.
CutShort == Ended /\ changed => round = MaxRounds

\* The invariant of the rounds.
RInv ==
    /\ IInv
    /\ LabelsLeast
    /\ ProposalsLeast
    /\ ChangeSeen
    /\ CutShort

\* What is within k edges are vertices.
LEMMA WithinIsVertices ==
    \A k \in Nat : Within[k] \in [Vertices -> SUBSET Vertices]
  <1> DEFINE S == {k \in Nat : Within[k] \in [Vertices -> SUBSET Vertices]}
  <1>1. 0 \in S
    BY WithinLoop
  <1>2. ASSUME NEW k \in Nat, k \in S PROVE k + 1 \in S
    <2> DEFINE w == Within[k]
    <2>1. w \in [Vertices -> SUBSET Vertices]
      BY <1>2
    <2>2. Within[k + 1] = Wider(w)
      BY WithinLoop
    <2> HIDE DEF w
    <2>3. Wider(w) \in [Vertices -> SUBSET Vertices]
      <3>1. \A v \in Vertices : w[v] \subseteq Vertices
        BY <2>1
      <3> QED BY <3>1 DEF Wider
    <2> QED BY <2>2, <2>3
  <1> HIDE DEF S
  <1>3. \A k \in Nat : k \in S
    BY <1>1, <1>2, Induction
  <1> QED BY <1>3 DEF S

\* One round more: what an edge's ends hear of each other.
LEMMA WithinGrows ==
    ASSUME NEW k \in Nat, TypeOK
    PROVE  /\ \A e \in AllEdges : Nearby(k, e) \subseteq Within[k + 1][e[1]] \cap Within[k + 1][e[2]]
           /\ \A v \in Vertices : Within[k][v] \subseteq Within[k + 1][v]
           /\ \A v \in Vertices : \A u \in Within[k + 1][v] :
                 \/ u \in Within[k][v]
                 \/ \E e \in AllEdges : v \in Receivers(e) /\ u \in Nearby(k, e)
  <1> DEFINE w == Within[k]
  <1>1. Within[k + 1] = Wider(w)
    BY WithinLoop
  <1>2. \A e \in AllEdges : e[1] \in Vertices /\ e[2] \in Vertices /\ e = <<e[1], e[2]>>
    BY EdgesAreEdges
  <1> HIDE DEF w
  <1>3. \A v \in Vertices : Wider(w)[v] = w[v] \cup UNION {w[u] : u \in
            {x \in Vertices : <<v, x>> \in AllEdges \/ <<x, v>> \in AllEdges}}
    BY DEF Wider
  <1>4. \A v \in Vertices : w[v] \subseteq Wider(w)[v]
    BY <1>3
  <1>5. ASSUME NEW v \in Vertices, NEW x \in Vertices, <<v, x>> \in AllEdges \/ <<x, v>> \in AllEdges
        PROVE  w[x] \subseteq Wider(w)[v]
    BY <1>3, <1>5
  <1>6. ASSUME NEW e \in AllEdges
        PROVE  w[e[1]] \cup w[e[2]] \subseteq Wider(w)[e[1]] \cap Wider(w)[e[2]]
    <2>1. <<e[1], e[2]>> \in AllEdges /\ e[1] \in Vertices /\ e[2] \in Vertices
      BY <1>2
    <2> QED BY <1>4, <1>5, <2>1
  <1>7. ASSUME NEW v \in Vertices, NEW u \in Wider(w)[v], u \notin w[v]
        PROVE  \E e \in AllEdges : v \in Receivers(e) /\ u \in w[e[1]] \cup w[e[2]]
    <2>1. PICK x \in Vertices : u \in w[x] /\ (<<v, x>> \in AllEdges \/ <<x, v>> \in AllEdges)
      BY <1>3, <1>7
    <2>2. CASE <<v, x>> \in AllEdges
      <3>1. <<v, x>>[1] = v /\ <<v, x>>[2] = x
        OBVIOUS
      <3> QED BY <2>1, <2>2, <3>1 DEF Receivers
    <2>3. CASE <<x, v>> \in AllEdges
      <3>1. <<x, v>>[1] = x /\ <<x, v>>[2] = v
        OBVIOUS
      <3> QED BY <2>1, <2>3, <3>1 DEF Receivers
    <2> QED BY <2>1, <2>2, <2>3
  <1> QED BY <1>1, <1>4, <1>6, <1>7 DEF Nearby, w

\* Apply leaves an owner's label at the least of what it was and what was
\* proposed, and the others alone.
LEMMA ApplyTakesLeast ==
    ASSUME IInv, NEW s \in Shards, Apply(s), NEW v \in Vertices
    PROVE  /\ Owner(v) # s => label'[v] = label[v]
           /\ label'[v] = label[v] \/ label'[v] \in ProposalsFor(v)
           /\ label'[v] <= label[v]
           /\ Owner(v) = s => \A m \in ProposalsFor(v) : label'[v] <= m
  <1> USE CCAssumption
  <1> DEFINE low == {r \in Vertices : Owner(r) = s
                         /\ \E m \in ProposalsFor(r) : Lowers(r, m)}
             least(r) == CHOOSE m \in ProposalsFor(r) :
                             \A n \in ProposalsFor(r) : m <= n
  <1>1. label' = [r \in Vertices |-> IF r \in low THEN least(r) ELSE label[r]]
    BY DEF Apply
  <1>2. label[v] \in Nat
    BY DEF IInv, TypeOK, Labels
  <1>3. ProposalsFor(v) \subseteq Nat
    BY DEF ProposalsFor
  <1>4. CASE v \in low
    <2>1. ProposalsFor(v) # {}
      BY <1>4
    <2>2. \E m \in ProposalsFor(v) : \A n \in ProposalsFor(v) : m <= n
      BY <1>3, <2>1, LeastExists
    <2>3. least(v) \in ProposalsFor(v) /\ \A n \in ProposalsFor(v) : least(v) <= n
      BY <2>2
    <2>4. PICK m \in ProposalsFor(v) : m < label[v]
      BY <1>4 DEF Lowers
    <2>5. Owner(v) = s
      BY <1>4
    <2> HIDE DEF low, least
    <2>6. label'[v] = least(v)
      BY <1>1, <1>4
    <2>7. least(v) <= m /\ m \in Nat /\ least(v) \in Nat
      BY <1>3, <2>3
    <2> QED BY <1>2, <2>3, <2>4, <2>5, <2>6, <2>7
  <1>5. CASE v \notin low
    <2>1. Owner(v) = s => \A m \in ProposalsFor(v) : ~(m < label[v])
      BY <1>5 DEF Lowers
    <2> HIDE DEF low, least
    <2>2. label'[v] = label[v]
      BY <1>1, <1>5
    <2> QED BY <1>2, <1>3, <2>1, <2>2
  <1> QED BY <1>4, <1>5

\* What is least in k rounds and in what the edges brought is least in one more.
LEMMA ApplyLeast ==
    ASSUME RInv, NEW s \in Shards, Apply(s), NEW v \in Vertices, Owner(v) = s
    PROVE  IsLeast(label'[v], Within[round + 1][v])
  <1> USE CCAssumption
  <1>1. pc = "apply" /\ s \in left /\ round \in Nat
    BY DEF Apply, RInv, IInv, TypeOK
  <1>2. IsLeast(label[v], Within[round][v])
    BY <1>1 DEF RInv, LabelsLeast, Horizon
  <1>3. \A t \in Shards : HasProposed(t)
    BY <1>1 DEF HasProposed
  <1>4. \A e \in AllEdges : Nearby(round, e) \subseteq Within[round + 1][e[1]] \cap Within[round + 1][e[2]]
    BY <1>1, WithinGrows DEF RInv, IInv
  <1>5. Within[round + 1] \in [Vertices -> SUBSET Vertices]
    <2>1. round + 1 \in Nat
      BY <1>1
    <2> QED BY <2>1, WithinIsVertices
  <1>6. ASSUME NEW m \in ProposalsFor(v)
        PROVE  m \in Within[round + 1][v]
    <2>1. PICK t \in Shards : <<v, m>> \in messages[t]
      BY DEF ProposalsFor
    <2>2. <<v, m>>[1] = v /\ <<v, m>>[2] = m
      OBVIOUS
    <2>3. PICK e \in edges[t] : v \in Receivers(e) /\ IsLeast(m, Nearby(round, e))
      BY <1>3, <2>1, <2>2 DEF RInv, ProposalsLeast
    <2>4. e \in AllEdges /\ m \in Nearby(round, e)
      BY <2>3 DEF AllEdges, IsLeast
    <2>5. v = e[1] \/ v = e[2]
      BY <2>3 DEF Receivers
    <2> QED BY <1>4, <2>4, <2>5
  <1>7. label'[v] \in Within[round + 1][v]
    <2>1. label[v] \in Within[round + 1][v]
      BY <1>1, <1>2, WithinGrows DEF RInv, IInv, IsLeast
    <2>2. label'[v] = label[v] \/ label'[v] \in ProposalsFor(v)
      BY ApplyTakesLeast DEF RInv
    <2> QED BY <1>6, <2>1, <2>2
  <1>8. label'[v] \in Nat /\ label[v] \in Nat /\ label'[v] <= label[v]
    <2>1. label'[v] \in Nat
      BY <1>5, <1>7
    <2>2. label[v] \in Nat
      BY DEF RInv, IInv, TypeOK, Labels
    <2> QED BY <2>1, <2>2, ApplyTakesLeast DEF RInv
  <1>9. ASSUME NEW u \in Within[round + 1][v]
        PROVE  label'[v] <= u
    <2>1. u \in Nat
      BY <1>5
    <2>2. CASE u \in Within[round][v]
      <3>1. label[v] <= u
        BY <1>2, <2>2 DEF IsLeast
      <3> QED BY <1>8, <2>1, <3>1
    <2>3. CASE \E e \in AllEdges : v \in Receivers(e) /\ u \in Nearby(round, e)
      <3>1. PICK e \in AllEdges : v \in Receivers(e) /\ u \in Nearby(round, e)
        BY <2>3
      <3>2. PICK t \in Shards : e \in edges[t]
        BY DEF AllEdges
      <3>3. PICK m \in Vertices : <<v, m>> \in messages[t] /\ IsLeast(m, Nearby(round, e))
        BY <1>3, <3>1, <3>2 DEF RInv, ProposalsLeast
      <3>4. m \in ProposalsFor(v)
        BY <3>3 DEF ProposalsFor
      <3>5. label'[v] <= m
        BY <3>4, ApplyTakesLeast DEF RInv
      <3>6. m <= u
        BY <3>1, <3>3 DEF IsLeast
      <3>7. m \in Nat
        OBVIOUS
      <3> QED BY <1>8, <2>1, <3>5, <3>6, <3>7
    <2> QED BY <1>1, <2>2, <2>3, WithinGrows DEF RInv, IInv
  <1> QED BY <1>7, <1>9 DEF IsLeast

LEMMA InitRInv == Init => RInv
  <1> SUFFICES ASSUME Init PROVE RInv
    OBVIOUS
  <1> USE CCAssumption
  <1>1. LabelsLeast
    <2>1. \A v \in Vertices : Horizon(v) = 0
      BY DEF Init, Horizon
    <2>2. \A v \in Vertices : Within[0][v] = {v} /\ label[v] = v /\ v \in Nat
      BY WithinLoop DEF Init
    <2> QED BY <2>1, <2>2 DEF LabelsLeast, IsLeast
  <1>2. ProposalsLeast /\ ChangeSeen /\ CutShort
    BY DEF Init, ProposalsLeast, ChangeSeen, CutShort, Ended, HasProposed
  <1> QED BY <1>1, <1>2, InitIInv DEF RInv

LEMMA GatherRInv ==
    ASSUME RInv, NEW s \in Shards, Gather(s)
    PROVE  RInv'
  <1>1. AllEdges' = AllEdges
    BY DEF Gather, AllEdges
  <1>2. Within' = Within
    BY <1>1, WithinStays
  <1>3. LabelsLeast'
    BY <1>2 DEF RInv, LabelsLeast, Horizon, Gather
  <1>4. ProposalsLeast'
    BY <1>2 DEF RInv, ProposalsLeast, HasProposed, Nearby, Gather
  <1>5. ChangeSeen' /\ CutShort'
    BY DEF RInv, IInv, QuietBeforeApply, ChangeSeen, CutShort, Ended, Gather
  <1> QED BY <1>3, <1>4, <1>5, GatherIInv DEF RInv

LEMMA ComputeRInv ==
    ASSUME RInv, NEW s \in Shards, Compute(s)
    PROVE  RInv'
  <1> USE CCAssumption
  <1> DEFINE out == UNION {{<<r, Proposal(snapshot[s], e)>> : r \in Receivers(e)} :
                              e \in edges[s]}
  <1>1. AllEdges' = AllEdges
    BY DEF Compute, AllEdges
  <1>2. Within' = Within
    BY <1>1, WithinStays
  <1>3. messages' = [messages EXCEPT ![s] = out]
    BY DEF Compute
  <1>4. HasGathered(s) /\ round \in Nat
    BY DEF Compute, HasGathered, RInv, IInv, TypeOK
  <1>5. ASSUME NEW e \in edges[s]
        PROVE  /\ Proposal(snapshot[s], e) \in Vertices
               /\ IsLeast(Proposal(snapshot[s], e), Nearby(round, e))
    <2> DEFINE a == label[e[1]]
               b == label[e[2]]
               A == Within[round][e[1]]
               B == Within[round][e[2]]
    <2>1. e[1] \in Vertices /\ e[2] \in Vertices
      BY EdgesAreEdges DEF RInv, IInv
    <2>2. IsLeast(a, A) /\ IsLeast(b, B)
      BY <2>1 DEF RInv, LabelsLeast, Horizon, Compute
    <2>3. A \subseteq Nat /\ B \subseteq Nat
      BY <1>4, <2>1, WithinIsVertices
    <2>4. Proposal(snapshot[s], e) = MinOf(a, b)
      BY <1>4, ProposalIsMin DEF RInv
    <2>5. e[1] \in Receivers(e)
      BY DEF Receivers
    <2>6. Proposal(snapshot[s], e) \in Vertices
      BY <1>4, <2>5, ProposalIsMin DEF RInv
    <2> HIDE DEF a, b, A, B
    <2>7. a \in A /\ b \in B /\ (\A u \in A : a <= u) /\ (\A u \in B : b <= u)
      BY <2>2 DEF IsLeast
    <2>8. a \in Nat /\ b \in Nat
      BY <2>3, <2>7
    <2> DEFINE m == MinOf(a, b)
    <2>9. m \in {a, b} /\ m <= a /\ m <= b
      BY <2>8, MinOfNats
    <2> HIDE DEF m
    <2>10. \A u \in A \cup B : m <= u
      BY <2>3, <2>7, <2>8, <2>9
    <2>11. IsLeast(m, A \cup B)
      BY <2>7, <2>9, <2>10 DEF IsLeast
    <2> QED BY <2>4, <2>6, <2>11 DEF Nearby, A, B, m
  <1>6. \A q \in out : \E e \in edges[s] : \E r \in Receivers(e) :
            q = <<r, Proposal(snapshot[s], e)>>
    OBVIOUS
  <1>7. \A e \in edges[s] : \A r \in Receivers(e) : <<r, Proposal(snapshot[s], e)>> \in out
    OBVIOUS
  <1> HIDE DEF out
  <1>8. /\ \A q \in out : \E e \in edges[s] :
               q[1] \in Receivers(e) /\ IsLeast(q[2], Nearby(round, e))
        /\ \A e \in edges[s] : \A r \in Receivers(e) :
               \E m \in Vertices : <<r, m>> \in out /\ IsLeast(m, Nearby(round, e))
    <2>1. ASSUME NEW q \in out
          PROVE  \E e \in edges[s] : q[1] \in Receivers(e) /\ IsLeast(q[2], Nearby(round, e))
      <3>1. PICK e \in edges[s] : \E r \in Receivers(e) : q = <<r, Proposal(snapshot[s], e)>>
        BY <1>6
      <3>2. q[1] \in Receivers(e) /\ q[2] = Proposal(snapshot[s], e)
        BY <3>1
      <3> QED BY <1>5, <3>2
    <2>2. ASSUME NEW e \in edges[s], NEW r \in Receivers(e)
          PROVE  \E m \in Vertices : <<r, m>> \in out /\ IsLeast(m, Nearby(round, e))
      BY <1>5, <1>7
    <2> QED BY <2>1, <2>2
  <1>9. /\ messages'[s] = out
        /\ \A t \in Shards : t # s => messages'[t] = messages[t]
    BY <1>3 DEF RInv, IInv, TypeOK
  <1>10. /\ pc = "compute" /\ pc' = pc /\ left' = left \ {s}
         /\ UNCHANGED <<edges, label, snapshot, changed, round, result>>
    BY DEF Compute, Answered
  <1>11. ProposalsLeast'
    <2> SUFFICES ASSUME NEW t \in Shards, HasProposed(t)'
                 PROVE  /\ \A q \in messages'[t] : \E e \in edges[t] :
                               q[1] \in Receivers(e) /\ IsLeast(q[2], Nearby(round, e))
                        /\ \A e \in edges[t] : \A r \in Receivers(e) : \E m \in Vertices :
                               <<r, m>> \in messages'[t] /\ IsLeast(m, Nearby(round, e))
      BY <1>2, <1>10 DEF ProposalsLeast, Nearby
    <2>1. CASE t = s
      BY <1>8, <1>9, <2>1
    <2>2. CASE t # s
      <3>1. HasProposed(t)
        BY <1>10, <2>2 DEF HasProposed
      <3> QED BY <1>9, <2>2, <3>1 DEF RInv, ProposalsLeast
    <2> QED BY <2>1, <2>2
  <1>12. LabelsLeast'
    BY <1>2, <1>10 DEF RInv, LabelsLeast, Horizon
  <1>13. ChangeSeen' /\ CutShort'
    BY <1>10 DEF RInv, IInv, QuietBeforeApply, ChangeSeen, CutShort, Ended
  <1> QED BY <1>11, <1>12, <1>13, ComputeIInv DEF RInv

LEMMA ApplyRInv ==
    ASSUME RInv, NEW s \in Shards, Apply(s)
    PROVE  RInv'
  <1> USE CCAssumption
  <1>1. AllEdges' = AllEdges
    BY DEF Apply, AllEdges
  <1>2. Within' = Within
    BY <1>1, WithinStays
  <1>3. /\ pc = "apply" /\ pc' = "apply" /\ s \in left /\ left' = left \ {s}
        /\ UNCHANGED <<edges, snapshot, messages, round, result>>
    BY DEF Apply, Answered
  <1>4. LabelsLeast'
    <2> SUFFICES ASSUME NEW v \in Vertices
                 PROVE  IsLeast(label'[v], Within[Horizon(v)'][v])
      BY <1>2 DEF LabelsLeast
    <2>1. CASE Owner(v) = s
      <3>1. Horizon(v)' = round + 1
        BY <1>3, <2>1 DEF Horizon
      <3> QED BY <2>1, <3>1, ApplyLeast
    <2>2. CASE Owner(v) # s
      <3>1. Horizon(v)' = Horizon(v)
        BY <1>3, <2>2 DEF Horizon
      <3>2. label'[v] = label[v]
        BY <2>2, ApplyTakesLeast DEF RInv
      <3> QED BY <3>1, <3>2 DEF RInv, LabelsLeast
    <2> QED BY <2>1, <2>2
  <1>5. ProposalsLeast'
    BY <1>2, <1>3 DEF RInv, ProposalsLeast, HasProposed, Nearby
  <1>6. ChangeSeen'
    <2> SUFFICES ASSUME changed'
                 PROVE  \E v \in Vertices : \E m \in Vertices :
                            IsLeast(m, Within[round][v]) /\ label'[v] < m
      BY <1>2, <1>3 DEF ChangeSeen, Begun, Ended
    <2>1. label \in [Vertices -> Vertices] /\ label' \in [Vertices -> Nat]
      BY ApplyLabels DEF RInv, IInv, TypeOK, Labels
    <2>2. CASE changed
      <3>1. PICK v \in Vertices, m \in Vertices : IsLeast(m, Within[round][v]) /\ label[v] < m
        BY <1>3, <2>2 DEF RInv, ChangeSeen, Begun, Ended
      <3>2. label'[v] <= label[v]
        BY ApplyTakesLeast DEF RInv
      <3>3. label'[v] \in Nat /\ label[v] \in Nat /\ m \in Nat
        BY <2>1
      <3>4. label'[v] < m
        BY <3>1, <3>2, <3>3
      <3> QED BY <3>1, <3>4
    <2>3. CASE ~changed
      <3>1. PICK v \in Vertices : Owner(v) = s /\ \E m \in ProposalsFor(v) : Lowers(v, m)
        BY <2>3 DEF Apply
      <3>2. PICK m \in ProposalsFor(v) : m < label[v]
        BY <3>1 DEF Lowers
      <3>3. label'[v] <= m
        BY <3>1, ApplyTakesLeast DEF RInv
      <3>4. m \in Nat
        BY DEF ProposalsFor
      <3>5. label[v] \in Vertices /\ label[v] \in Nat /\ label'[v] \in Nat
        BY <2>1
      <3>6. label'[v] < label[v]
        BY <3>2, <3>3, <3>4, <3>5
      <3>7. Horizon(v) = round
        BY <1>3, <3>1 DEF Horizon
      <3>8. IsLeast(label[v], Within[round][v])
        BY <3>7 DEF RInv, LabelsLeast
      <3> QED BY <3>5, <3>6, <3>8
    <2> QED BY <2>2, <2>3
  <1>7. CutShort'
    BY <1>3 DEF CutShort, Ended
  <1> QED BY <1>4, <1>5, <1>6, <1>7, ApplyIInv DEF RInv

LEMMA NextPhaseRInv ==
    ASSUME RInv, NextPhase
    PROVE  RInv'
  <1> USE CCAssumption
  <1>1. AllEdges' = AllEdges
    BY DEF NextPhase, AllEdges
  <1>2. Within' = Within
    BY <1>1, WithinStays
  <1>3. /\ left = {} /\ left' = Shards
        /\ UNCHANGED <<edges, label, snapshot, messages, changed, round, result>>
        /\ \/ pc = "gather" /\ pc' = "compute"
           \/ pc = "compute" /\ pc' = "apply"
    BY DEF NextPhase
  <1>4. \A v \in Vertices : Owner(v) \in Shards
    BY DEF Owner, Shards
  <1>5. LabelsLeast'
    <2>1. \A v \in Vertices : Horizon(v)' = Horizon(v)
      BY <1>3, <1>4 DEF Horizon
    <2> QED BY <1>2, <1>3, <2>1 DEF RInv, LabelsLeast
  <1>6. ProposalsLeast'
    BY <1>2, <1>3 DEF RInv, ProposalsLeast, HasProposed, Nearby
  <1>7. ChangeSeen' /\ CutShort'
    BY <1>3 DEF RInv, IInv, QuietBeforeApply, ChangeSeen, CutShort, Ended
  <1> QED BY <1>5, <1>6, <1>7, NextPhaseIInv DEF RInv

LEMMA EndRoundRInv ==
    ASSUME RInv, EndRound
    PROVE  RInv'
  <1> USE CCAssumption
  <1>1. AllEdges' = AllEdges
    BY DEF EndRound, AllEdges
  <1>2. Within' = Within
    BY <1>1, WithinStays
  <1>3. /\ pc = "apply" /\ left = {} /\ left' = Shards /\ round' = round + 1
        /\ UNCHANGED <<edges, label, snapshot, messages, result>>
        /\ \/ pc' = "collect" /\ changed' = changed /\ (~changed \/ round + 1 >= MaxRounds)
           \/ pc' = "gather" /\ changed' = FALSE
    BY DEF EndRound, OutOfRounds, RoundChangedNothing
  <1>4. round \in Nat /\ round < MaxRounds
    BY <1>3 DEF RInv, IInv, TypeOK, RoundsLeft, Ended
  <1>5. LabelsLeast'
    <2>1. \A v \in Vertices : Horizon(v)' = Horizon(v)
      BY <1>3 DEF Horizon
    <2> QED BY <1>2, <1>3, <2>1 DEF RInv, LabelsLeast
  <1>6. ProposalsLeast'
    BY <1>3 DEF ProposalsLeast, HasProposed
  <1>7. ChangeSeen'
    <2> SUFFICES ASSUME changed'
                 PROVE  \E v \in Vertices : \E m \in Vertices :
                            IsLeast(m, Within[Begun'][v]) /\ label'[v] < m
      BY <1>2 DEF ChangeSeen
    <2>1. changed /\ pc' = "collect"
      BY <1>3, Zenon
    <2>2. Begun = round
      BY <1>3 DEF Begun, Ended
    <2>3. Begun' = round' - 1
      BY <2>1 DEF Begun, Ended
    <2>4. Begun' = Begun
      BY <1>3, <1>4, <2>2, <2>3
    <2>5. PICK v \in Vertices, m \in Vertices : IsLeast(m, Within[Begun][v]) /\ label[v] < m
      BY <2>1 DEF RInv, ChangeSeen
    <2>6. label' = label
      BY <1>3
    <2> QED BY <2>4, <2>5, <2>6
  <1>8. CutShort'
    <2> SUFFICES ASSUME Ended', changed' PROVE round' = MaxRounds
      BY DEF CutShort
    <2>1. changed /\ pc' = "collect"
      BY <1>3, Zenon
    <2>2. round + 1 >= MaxRounds /\ round' = round + 1
      BY <1>3, <2>1
    <2> QED BY <1>4, <2>2
  <1> QED BY <1>5, <1>6, <1>7, <1>8, EndRoundIInv DEF RInv

LEMMA CollectRInv ==
    ASSUME RInv, Collect
    PROVE  RInv'
  <1>1. AllEdges' = AllEdges
    BY DEF Collect, AllEdges
  <1>2. Within' = Within
    BY <1>1, WithinStays
  <1>3. /\ pc = "collect" /\ pc' = "done"
        /\ UNCHANGED <<edges, label, snapshot, messages, left, changed, round>>
    BY DEF Collect
  <1>4. LabelsLeast'
    BY <1>2, <1>3 DEF RInv, LabelsLeast, Horizon
  <1>5. ProposalsLeast' /\ CutShort'
    BY <1>3 DEF RInv, ProposalsLeast, HasProposed, CutShort, Ended
  <1>6. ChangeSeen'
    BY <1>2, <1>3 DEF RInv, ChangeSeen, Begun, Ended
  <1> QED BY <1>4, <1>5, <1>6, CollectIInv DEF RInv

LEMMA StutterRInv ==
    ASSUME RInv, UNCHANGED vars
    PROVE  RInv'
  <1>1. AllEdges' = AllEdges
    BY DEF vars, AllEdges
  <1>2. Within' = Within
    BY <1>1, WithinStays
  <1>3. LabelsLeast' /\ ProposalsLeast'
    BY <1>2 DEF RInv, vars, LabelsLeast, Horizon, ProposalsLeast, HasProposed, Nearby
  <1>4. ChangeSeen' /\ CutShort'
    BY <1>2 DEF RInv, vars, ChangeSeen, Begun, CutShort, Ended
  <1> QED BY <1>3, <1>4, StutterIInv DEF RInv

LEMMA NextRInv == RInv /\ [Next]_vars => RInv'
  <1> SUFFICES ASSUME RInv, [Next]_vars PROVE RInv'
    OBVIOUS
  <1>1. CASE NextPhase
    BY <1>1, NextPhaseRInv
  <1>2. CASE EndRound
    BY <1>2, EndRoundRInv
  <1>3. CASE Collect
    BY <1>3, CollectRInv
  <1>4. CASE \E s \in Shards : Gather(s)
    BY <1>4, GatherRInv
  <1>5. CASE \E s \in Shards : Compute(s)
    BY <1>5, ComputeRInv
  <1>6. CASE \E s \in Shards : Apply(s)
    BY <1>6, ApplyRInv
  <1>7. CASE UNCHANGED vars
    BY <1>7, StutterRInv
  <1> QED BY <1>1, <1>2, <1>3, <1>4, <1>5, <1>6, <1>7 DEF Next, Driver

\* The rounds in step with what they reach: labels are the least vertices within
\* as many edges as their owners have applied rounds, proposals the least within
\* one edge more.
THEOREM RoundsInvariant == Spec => []RInv
  BY InitRInv, NextRInv, PTL DEF Spec

\* After k rounds of connected_components a label is the least vertex within k
\* edges, and max_rounds cuts no computation short whose components have their
\* least vertex within max_rounds - 1 edges of every other.
THEOREM RoundsCorrect == Spec => []RoundsSuffice
  <1>1. RInv => RoundsSuffice
    <2> SUFFICES ASSUME RInv PROVE RoundsSuffice
      OBVIOUS
    <2> USE CCAssumption
    <2>1. ASSUME pc = "gather" \/ Ended, NEW v \in Vertices
          PROVE  IsLeast(label[v], Within[round][v])
      BY <2>1 DEF RInv, LabelsLeast, Horizon, Ended
    <2>2. ASSUME Ended, changed,
                 \A v \in Vertices : \E m \in Within[MaxRounds - 1][v] :
                     IsLeast(m, Component(v, AllEdges))
          PROVE  FALSE
      <3>1. round = MaxRounds /\ Begun = MaxRounds - 1
        BY <2>2 DEF RInv, CutShort, Begun
      <3>2. PICK v \in Vertices, m \in Vertices :
                IsLeast(m, Within[MaxRounds - 1][v]) /\ label[v] < m
        BY <2>2, <3>1 DEF RInv, ChangeSeen
      <3>3. PICK n \in Within[MaxRounds - 1][v] : IsLeast(n, Component(v, AllEdges))
        BY <2>2
      <3>4. m <= n
        BY <3>2 DEF IsLeast
      <3>5. label[v] \in Component(v, AllEdges) /\ label[v] \in Nat
        BY DEF RInv, IInv, LabelsSound, TypeOK, Labels
      <3>6. n \in Nat /\ m \in Nat
        BY <3>3 DEF IsLeast, Component
      <3>7. n <= label[v]
        BY <3>3, <3>5 DEF IsLeast
      <3> QED BY <3>2, <3>4, <3>5, <3>6, <3>7
    <2> QED BY <2>1, <2>2 DEF RoundsSuffice
  <1> QED BY <1>1, RoundsInvariant, PTL

------------------------------------------------------------------------------
\* Parent arrays of the union-find: no element has a larger parent.
Forest == {p \in [Elements -> Elements] : \A x \in Elements : p[x] <= x}

\* What following the parents of x comes to: the elements of every set with x
\* in it that holds its members' parents.
Ancestors(p, x) ==
    {y \in Elements : \A S \in SUBSET Elements : x \in S /\ (\A z \in S : p[z] \in S) => y \in S}

\* The rows are natural numbers,
LEMMA ElementsAreNats == Elements \subseteq Nat
  BY CCAssumption, RowsAssumption

\* and ordered as such.
LEMMA Ordered ==
    /\ \A x, y \in Elements : x <= x /\ (x <= y /\ x # y => x < y) /\ (x < y => ~(y <= x))
    /\ \A x, y, z \in Elements : x <= y /\ y <= z => x <= z
  <1>1. \A x \in Elements : x \in Nat
    BY ElementsAreNats
  <1>2. \A x, y \in Nat : x <= x /\ (x <= y /\ x # y => x < y) /\ (x < y => ~(y <= x))
    OBVIOUS
  <1>3. \A x, y, z \in Nat : x <= y /\ y <= z => x <= z
    OBVIOUS
  <1> QED BY <1>1, <1>2, <1>3

\* What holds of an element whenever it holds of all smaller ones holds of all.
LEMMA Descent ==
    ASSUME NEW S,
           \A x \in Elements : (\A y \in Elements : y < x => y \in S) => x \in S
    PROVE  \A x \in Elements : x \in S
  <1> DEFINE T == {x \in Elements : x \notin S}
  <1>1. SUFFICES ASSUME T # {} PROVE FALSE
    OBVIOUS
  <1>2. PICK m \in T : \A y \in T : m <= y
    BY <1>1, LeastExists, ElementsAreNats
  <1>3. \A y \in Elements : y < m => y \in S
    BY <1>2, ElementsAreNats
  <1> QED BY <1>2, <1>3

\* One link of the walk to the root.
LEMMA AncestorsStep ==
    ASSUME NEW p \in Forest, NEW x \in Elements
    PROVE  /\ x \in Ancestors(p, x)
           /\ \A y \in Ancestors(p, x) : y \in Elements /\ y <= x
           /\ p[x] = x => Ancestors(p, x) = {x}
           /\ p[x] \in Elements
           /\ Ancestors(p, x) = {x} \cup Ancestors(p, p[x])
  <1>1. p \in [Elements -> Elements] /\ \A y \in Elements : p[y] <= y /\ p[y] \in Elements
    BY DEF Forest
  <1>2. x \in Ancestors(p, x)
    BY DEF Ancestors
  <1>3. \A y \in Ancestors(p, x) : y \in Elements /\ y <= x
    <2> DEFINE S == {z \in Elements : z <= x}
    <2>1. x \in S /\ \A z \in S : p[z] \in S
      <3>1. x <= x
        BY ElementsAreNats
      <3>2. \A z \in Elements : z <= x => p[z] <= x
        BY <1>1, Ordered
      <3> QED BY <1>1, <3>1, <3>2
    <2>2. S \in SUBSET Elements
      OBVIOUS
    <2> HIDE DEF S
    <2>3. Ancestors(p, x) \subseteq S
      BY <2>1, <2>2 DEF Ancestors
    <2> QED BY <2>3 DEF S
  <1>4. p[x] = x => Ancestors(p, x) = {x}
    <2> SUFFICES ASSUME p[x] = x PROVE Ancestors(p, x) \subseteq {x}
      BY <1>2
    <2>1. {x} \in SUBSET Elements /\ x \in {x} /\ \A z \in {x} : p[z] \in {x}
      OBVIOUS
    <2> QED BY <2>1 DEF Ancestors
  <1>5. Ancestors(p, x) \subseteq {x} \cup Ancestors(p, p[x])
    <2> DEFINE S == {x} \cup Ancestors(p, p[x])
    <2>1. S \in SUBSET Elements /\ x \in S
      BY DEF Ancestors
    <2>2. p[x] \in Ancestors(p, p[x])
      BY <1>1 DEF Ancestors
    <2>3. \A z \in Ancestors(p, p[x]) : p[z] \in Ancestors(p, p[x])
      BY <1>1 DEF Ancestors
    <2>4. \A z \in S : p[z] \in S
      BY <2>2, <2>3
    <2> HIDE DEF S
    <2>5. Ancestors(p, x) \subseteq S
      BY <2>1, <2>4 DEF Ancestors
    <2> QED BY <2>5 DEF S
  <1>6. Ancestors(p, p[x]) \subseteq Ancestors(p, x)
    BY DEF Ancestors
  <1> QED BY <1>1, <1>2, <1>3, <1>4, <1>5, <1>6

\* The walk of find has an end for every element: it is a function.
LEMMA RootWalk ==
    ASSUME NEW p \in Forest
    PROVE  \A x \in Elements : Root(p)[x] = IF p[x] = x THEN x ELSE Root(p)[p[x]]
  <1> DEFINE Least(x) == CHOOSE m \in Ancestors(p, x) : \A n \in Ancestors(p, x) : m <= n
             w == [x \in Elements |-> Least(x)]
             g == CHOOSE g : g = [x \in Elements |-> IF p[x] = x THEN x ELSE g[p[x]]]
  <1>1. Root(p) = g
    BY DEF Root
  <1>2. ASSUME NEW x \in Elements
        PROVE  /\ Least(x) \in Ancestors(p, x)
               /\ \A n \in Ancestors(p, x) : Least(x) <= n
    <2>1. Ancestors(p, x) \in SUBSET Nat /\ Ancestors(p, x) # {}
      BY AncestorsStep, ElementsAreNats
    <2>2. \E m \in Ancestors(p, x) : \A n \in Ancestors(p, x) : m <= n
      BY <2>1, LeastExists
    <2> QED BY <2>2
  <1>3. \A x \in Elements : w[x] = Least(x)
    OBVIOUS
  <1>4. w = [x \in Elements |-> w[x]]
    OBVIOUS
  <1> HIDE DEF Least, w
  <1>5. ASSUME NEW x \in Elements
        PROVE  w[x] = IF p[x] = x THEN x ELSE w[p[x]]
    <2>1. CASE p[x] = x
      BY <1>2, <1>3, <2>1, AncestorsStep
    <2>2. CASE p[x] # x
      <3>1. p[x] \in Elements /\ Ancestors(p, x) = {x} \cup Ancestors(p, p[x])
        BY AncestorsStep
      <3>2. /\ Least(x) \in Ancestors(p, x)
            /\ \A n \in Ancestors(p, x) : Least(x) <= n
            /\ Least(p[x]) \in Ancestors(p, p[x])
            /\ \A n \in Ancestors(p, p[x]) : Least(p[x]) <= n
        BY <1>2, <3>1
      <3>3. Least(p[x]) <= p[x]
        BY <3>1, <3>2, AncestorsStep
      <3>4. p[x] < x
        BY <2>2, <3>1, Ordered DEF Forest
      <3>5. Least(x) \in Nat /\ Least(p[x]) \in Nat
        BY <3>1, <3>2, AncestorsStep, ElementsAreNats
      <3>6. Least(x) <= Least(p[x])
        BY <3>1, <3>2
      <3>7. Least(x) # x
        <4>1. Least(x) <= p[x]
          BY <3>1, <3>2, AncestorsStep
        <4> QED BY <3>1, <3>4, <4>1, Ordered
      <3>8. Least(p[x]) <= Least(x)
        BY <3>1, <3>2, <3>7
      <3>9. Least(x) = Least(p[x])
        BY <3>5, <3>6, <3>8
      <3> QED BY <1>3, <2>2, <3>1, <3>9
    <2> QED BY <2>1, <2>2
  <1>6. w = [x \in Elements |-> IF p[x] = x THEN x ELSE w[p[x]]]
    BY <1>4, <1>5
  <1>7. g = [x \in Elements |-> IF p[x] = x THEN x ELSE g[p[x]]]
    BY <1>6
  <1> HIDE DEF g
  <1> QED BY <1>1, <1>7

\* The same for the links the walk follows.
LEMMA PathWalk ==
    ASSUME NEW p \in Forest
    PROVE  \E h : /\ \A x \in Elements : h[x] = IF p[x] = x THEN {} ELSE {x} \cup h[p[x]]
                  /\ \A x : PathOf(p, x) = h[x]
  <1> DEFINE Linking(x) == {z \in Ancestors(p, x) : p[z] # z}
             w == [x \in Elements |-> Linking(x)]
             g == CHOOSE g : g = [x \in Elements |-> IF p[x] = x THEN {} ELSE {x} \cup g[p[x]]]
  <1>1. \A x : PathOf(p, x) = g[x]
    BY DEF PathOf
  <1>2. ASSUME NEW x \in Elements
        PROVE  w[x] = IF p[x] = x THEN {} ELSE {x} \cup w[p[x]]
    <2>1. CASE p[x] = x
      BY <2>1, AncestorsStep
    <2>2. CASE p[x] # x
      BY <2>2, AncestorsStep
    <2> QED BY <2>1, <2>2
  <1>3. w = [x \in Elements |-> w[x]]
    OBVIOUS
  <1> HIDE DEF w
  <1>4. w = [x \in Elements |-> IF p[x] = x THEN {} ELSE {x} \cup w[p[x]]]
    BY <1>2, <1>3
  <1>5. g = [x \in Elements |-> IF p[x] = x THEN {} ELSE {x} \cup g[p[x]]]
    BY <1>4
  <1> HIDE DEF g
  <1>6. \A x \in Elements : g[x] = IF p[x] = x THEN {} ELSE {x} \cup g[p[x]]
    BY <1>5
  <1> QED BY <1>1, <1>6

\* The walk ends at an element that is its own parent and no larger.
LEMMA RootIsRoot ==
    ASSUME NEW p \in Forest
    PROVE  \A x \in Elements : /\ Root(p)[x] \in Elements
                               /\ p[Root(p)[x]] = Root(p)[x]
                               /\ Root(p)[x] <= x
  <1> DEFINE S == {x \in Elements : /\ Root(p)[x] \in Elements
                                    /\ p[Root(p)[x]] = Root(p)[x]
                                    /\ Root(p)[x] <= x}
  <1>1. ASSUME NEW x \in Elements, \A y \in Elements : y < x => y \in S
        PROVE  x \in S
    <2>1. p[x] \in Elements /\ p[x] <= x
      BY DEF Forest
    <2>2. CASE p[x] = x
      BY <2>2, RootWalk, ElementsAreNats
    <2>3. CASE p[x] # x
      <3>1. p[x] < x
        BY <2>1, <2>3, Ordered
      <3>2. p[x] \in S /\ Root(p)[x] = Root(p)[p[x]]
        BY <1>1, <2>1, <2>3, <3>1, RootWalk
      <3>3. Root(p)[x] <= x
        BY <2>1, <3>2, Ordered
      <3> QED BY <3>2, <3>3
    <2> QED BY <2>2, <2>3
  <1> HIDE DEF S
  <1>2. \A x \in Elements : x \in S
    BY <1>1, Descent
  <1> QED BY <1>2 DEF S

\* All links that find follows lead to its answer.
LEMMA PathLeadsToRoot ==
    ASSUME NEW p \in Forest
    PROVE  \A x \in Elements : \A z \in PathOf(p, x) :
               z \in Elements /\ p[z] # z /\ Root(p)[z] = Root(p)[x]
  <1> DEFINE Good(x) == \A z \in PathOf(p, x) :
                            z \in Elements /\ p[z] # z /\ Root(p)[z] = Root(p)[x]
             S == {x \in Elements : Good(x)}
  <1>1. PICK h : /\ \A x \in Elements : h[x] = IF p[x] = x THEN {} ELSE {x} \cup h[p[x]]
                 /\ \A x : PathOf(p, x) = h[x]
    BY PathWalk
  <1>2. ASSUME NEW x \in Elements, \A y \in Elements : y < x => y \in S
        PROVE  x \in S
    <2>1. p[x] \in Elements /\ p[x] <= x
      BY DEF Forest
    <2>2. CASE p[x] = x
      <3>1. PathOf(p, x) = {}
        BY <1>1, <2>2, Zenon
      <3> QED BY <3>1
    <2>3. CASE p[x] # x
      <3>1. p[x] < x
        BY <2>1, <2>3, Ordered
      <3>2. Good(p[x])
        BY <1>2, <2>1, <3>1
      <3>3. Root(p)[x] = Root(p)[p[x]]
        BY <2>3, RootWalk
      <3>4. PathOf(p, x) = {x} \cup PathOf(p, p[x])
        BY <1>1, <2>3
      <3> QED BY <2>3, <3>2, <3>3, <3>4
    <2> QED BY <2>2, <2>3
  <1> HIDE DEF S
  <1>3. \A x \in Elements : x \in S
    BY <1>2, Descent
  <1> QED BY <1>3 DEF S

\* Path compression moves links and no roots.
LEMMA CompressedKeepsRoots ==
    ASSUME NEW p \in Forest, NEW x \in Elements
    PROVE  /\ Compressed(p, x) \in Forest
           /\ \A y \in Elements : Root(Compressed(p, x))[y] = Root(p)[y]
  <1> DEFINE q == Compressed(p, x)
             r == Root(p)[x]
  <1>1. \A y \in Elements : q[y] = IF y \in PathOf(p, x) THEN r ELSE p[y]
    BY DEF Compressed
  <1>2. \A z \in PathOf(p, x) : z \in Elements /\ p[z] # z /\ Root(p)[z] = r
    BY PathLeadsToRoot
  <1>3. r \in Elements /\ p[r] = r
    BY RootIsRoot
  <1>4. \A z \in PathOf(p, x) : r <= z
    BY <1>2, RootIsRoot
  <1>5. q = [y \in Elements |-> q[y]]
    BY DEF Compressed
  <1> HIDE DEF q, r
  <1>6. q \in Forest
    <2>1. \A y \in Elements : q[y] \in Elements /\ q[y] <= y
      BY <1>1, <1>3, <1>4 DEF Forest
    <2> QED BY <1>5, <2>1 DEF Forest
  <1>7. r \notin PathOf(p, x) /\ q[r] = r
    BY <1>1, <1>2, <1>3
  <1> DEFINE S == {y \in Elements : Root(q)[y] = Root(p)[y]}
  <1>8. ASSUME NEW y \in Elements, \A z \in Elements : z < y => z \in S
        PROVE  y \in S
    <2>1. CASE y \in PathOf(p, x)
      <3>1. q[y] = r /\ Root(p)[y] = r /\ y # r
        BY <1>1, <1>2, <1>7, <2>1
      <3>2. Root(q)[r] = r
        BY <1>3, <1>6, <1>7, RootWalk
      <3>3. Root(q)[y] = Root(q)[r]
        BY <1>6, <3>1, RootWalk
      <3> QED BY <3>1, <3>2, <3>3
    <2>2. CASE y \notin PathOf(p, x)
      <3>1. q[y] = p[y] /\ p[y] \in Elements /\ p[y] <= y
        BY <1>1, <2>2 DEF Forest
      <3>2. Root(q)[y] = IF p[y] = y THEN y ELSE Root(q)[p[y]]
        BY <1>6, <3>1, RootWalk
      <3>3. Root(p)[y] = IF p[y] = y THEN y ELSE Root(p)[p[y]]
        BY RootWalk
      <3>4. p[y] # y => p[y] < y
        BY <3>1, Ordered
      <3>5. p[y] # y => Root(q)[p[y]] = Root(p)[p[y]]
        BY <1>8, <3>1, <3>4
      <3> QED BY <3>2, <3>3, <3>5
    <2> QED BY <2>1, <2>2
  <1> HIDE DEF S
  <1>9. \A y \in Elements : y \in S
    BY <1>8, Descent
  <1> QED BY <1>6, <1>9 DEF S, q

\* Linking two roots gives the elements of the larger the smaller as their root.
LEMMA LinkedRoots ==
    ASSUME NEW p \in Forest, NEW lo \in Elements, NEW hi \in Elements,
           lo < hi, p[lo] = lo, p[hi] = hi, NEW q \in [Elements -> Elements],
           \A y \in Elements : q[y] = IF y = hi THEN lo ELSE p[y]
    PROVE  /\ q \in Forest
           /\ \A y \in Elements : Root(q)[y] = IF Root(p)[y] = hi THEN lo ELSE Root(p)[y]
  <1> DEFINE New(y) == IF Root(p)[y] = hi THEN lo ELSE Root(p)[y]
  <1>1. \A y \in Elements : q[y] = IF y = hi THEN lo ELSE p[y]
    OBVIOUS
  <1>2. q \in [Elements -> Elements]
    OBVIOUS
  <1>3. q \in Forest
    <2>1. \A y \in Elements : q[y] <= y
      BY <1>1, ElementsAreNats DEF Forest
    <2> QED BY <1>2, <2>1 DEF Forest
  <1>4. lo # hi
    BY ElementsAreNats
  <1>5. Root(q)[lo] = lo
    BY <1>1, <1>3, <1>4, RootWalk
  <1>6. Root(p)[hi] = hi
    BY RootWalk
  <1> DEFINE S == {y \in Elements : Root(q)[y] = New(y)}
  <1>7. ASSUME NEW y \in Elements, \A z \in Elements : z < y => z \in S
        PROVE  y \in S
    <2>1. CASE y = hi
      <3>1. Root(q)[hi] = Root(q)[lo]
        BY <1>1, <1>3, <1>4, RootWalk
      <3> QED BY <1>5, <1>6, <2>1, <3>1
    <2>2. CASE y # hi
      <3>1. q[y] = p[y] /\ p[y] \in Elements /\ p[y] <= y
        BY <1>1, <2>2 DEF Forest
      <3>2. Root(q)[y] = IF p[y] = y THEN y ELSE Root(q)[p[y]]
        BY <1>3, <3>1, RootWalk
      <3>3. Root(p)[y] = IF p[y] = y THEN y ELSE Root(p)[p[y]]
        BY RootWalk
      <3>4. CASE p[y] = y
        BY <2>2, <3>2, <3>3, <3>4
      <3>5. CASE p[y] # y
        <4>1. p[y] < y
          BY <3>1, <3>5, Ordered
        <4>2. Root(q)[p[y]] = New(p[y])
          BY <1>7, <3>1, <4>1
        <4> QED BY <3>2, <3>3, <3>5, <4>2
      <3> QED BY <3>4, <3>5
    <2> QED BY <2>1, <2>2
  <1> HIDE DEF S
  <1>8. \A y \in Elements : y \in S
    BY <1>7, Descent
  <1> QED BY <1>3, <1>8 DEF S

------------------------------------------------------------------------------
\* What a component's member leads to is in the component.
LEMMA ComponentTransitive ==
    ASSUME NEW E, NEW v \in Vertices, NEW u \in Component(v, E), NEW w \in Component(u, E)
    PROVE  w \in Component(v, E)
  BY DEF Component

\* A member of a component has the component's vertex in its own.
LEMMA ComponentSymmetric ==
    ASSUME NEW E \in SUBSET (Vertices \X Vertices), NEW v \in Vertices,
           NEW u \in Component(v, E)
    PROVE  v \in Component(u, E)
  <1> SUFFICES ASSUME NEW S \in SUBSET Vertices, u \in S, Closed(S, E), v \notin S
               PROVE  FALSE
    BY DEF Component
  <1> DEFINE T == Vertices \ S
  <1>1. \A e \in E : e[1] \in Vertices /\ e[2] \in Vertices
    OBVIOUS
  <1>2. Closed(T, E)
    BY <1>1 DEF Closed
  <1>3. v \in T /\ T \in SUBSET Vertices
    OBVIOUS
  <1>4. u \in T
    BY <1>2, <1>3 DEF Component
  <1> QED BY <1>4

\* Links that stay in a component.
InComponents(p, E) == \A x \in Vertices : p[x] \in Component(x, E)

\* The ends of an edge have been joined.
EndsMeet(p, e) == Root(p)[e[1]] = Root(p)[e[2]]

\* When the links stay in a component, so do the roots,
LEMMA RootsInComponents ==
    ASSUME NEW E, NEW p \in Forest, InComponents(p, E)
    PROVE  \A x \in Vertices : Root(p)[x] \in Component(x, E)
  <1> USE RowsAssumption
  <1> DEFINE S == {x \in Elements : Root(p)[x] \in Component(x, E)}
  <1>1. ASSUME NEW x \in Elements, \A y \in Elements : y < x => y \in S
        PROVE  x \in S
    <2>1. p[x] \in Elements /\ p[x] <= x /\ p[x] \in Component(x, E)
      BY DEF Forest, InComponents
    <2>2. CASE p[x] = x
      BY <2>1, <2>2, RootWalk
    <2>3. CASE p[x] # x
      <3>1. p[x] < x
        BY <2>1, <2>3, Ordered
      <3>2. Root(p)[p[x]] \in Component(p[x], E)
        BY <1>1, <2>1, <3>1
      <3>3. Root(p)[x] = Root(p)[p[x]]
        BY <2>3, RootWalk
      <3> QED BY <2>1, <3>2, <3>3, ComponentTransitive
    <2> QED BY <2>2, <2>3
  <1> HIDE DEF S
  <1>2. \A x \in Elements : x \in S
    BY <1>1, Descent
  <1> QED BY <1>2 DEF S

\* and the links after a path compression.
LEMMA CompressedInComponents ==
    ASSUME NEW E, NEW p \in Forest, InComponents(p, E), NEW x \in Elements
    PROVE  InComponents(Compressed(p, x), E)
  <1> USE RowsAssumption
  <1>1. \A z \in PathOf(p, x) : Root(p)[z] = Root(p)[x]
    BY PathLeadsToRoot
  <1>2. \A z \in Vertices : Root(p)[z] \in Component(z, E)
    BY RootsInComponents
  <1>3. \A y \in Elements : Compressed(p, x)[y] = IF y \in PathOf(p, x) THEN Root(p)[x] ELSE p[y]
    BY DEF Compressed
  <1> QED BY <1>1, <1>2, <1>3 DEF InComponents

\* union joins the ends of an edge, parts none that were joined, and invents no
\* link.
LEMMA UnionStep ==
    ASSUME NEW E \in SUBSET (Vertices \X Vertices), NEW e \in E,
           NEW p \in Forest, InComponents(p, E)
    PROVE  /\ Union(p, e) \in Forest
           /\ InComponents(Union(p, e), E)
           /\ EndsMeet(Union(p, e), e)
           /\ \A a, b \in Vertices : Root(p)[a] = Root(p)[b] => Root(Union(p, e))[a] = Root(Union(p, e))[b]
  <1> USE RowsAssumption
  <1> DEFINE p1 == Compressed(p, e[1])
             q == Compressed(p1, e[2])
             ra == Root(q)[e[1]]
             rb == Root(q)[e[2]]
             u == Union(p, e)
  <1>1. e[1] \in Vertices /\ e[2] \in Vertices
    OBVIOUS
  <1>2. p1 \in Forest /\ InComponents(p1, E) /\ \A y \in Elements : Root(p1)[y] = Root(p)[y]
    BY <1>1, CompressedKeepsRoots, CompressedInComponents
  <1>3. u = IF ra = rb THEN q ELSE LinkedTo(q, ra, rb)
    BY DEF Union
  <1> HIDE DEF p1
  <1>4. q \in Forest /\ InComponents(q, E) /\ \A y \in Elements : Root(q)[y] = Root(p1)[y]
    BY <1>1, <1>2, CompressedKeepsRoots, CompressedInComponents
  <1> HIDE DEF q, u
  <1>5. /\ ra \in Elements /\ q[ra] = ra /\ rb \in Elements /\ q[rb] = rb
    BY <1>1, <1>4, RootIsRoot
  <1>6. \A a, b \in Vertices : Root(p)[a] = Root(p)[b] => Root(q)[a] = Root(q)[b]
    BY <1>2, <1>4
  <1>7. ra \in Component(rb, E) /\ rb \in Component(ra, E)
    <2>1. ra \in Component(e[1], E) /\ rb \in Component(e[2], E)
      BY <1>1, <1>4, RootsInComponents
    <2>2. e[2] \in Component(e[1], E)
      BY <1>1, OwnComponent, EdgeKeepsComponent DEF Component, Closed
    <2>3. rb \in Component(e[1], E)
      BY <1>1, <2>1, <2>2, ComponentTransitive
    <2>4. e[1] \in Component(ra, E) /\ e[1] \in Component(rb, E)
      BY <1>1, <2>1, <2>3, ComponentSymmetric
    <2> QED BY <1>5, <2>1, <2>3, <2>4, ComponentTransitive
  <1>8. CASE ra = rb
    <2>1. u = q
      BY <1>3, <1>8
    <2>2. EndsMeet(u, e)
      BY <1>8, <2>1 DEF EndsMeet
    <2> QED BY <1>4, <1>6, <2>1, <2>2 DEF u
  <1>9. CASE ra # rb
    <2> DEFINE lo == IF ra < rb THEN ra ELSE rb
               hi == IF ra < rb THEN rb ELSE ra
    <2>1. u = [q EXCEPT ![hi] = lo]
      BY <1>3, <1>9 DEF LinkedTo
    <2>2. lo \in Elements /\ hi \in Elements /\ lo < hi /\ q[lo] = lo /\ q[hi] = hi
      <3>1. ra < rb \/ rb < ra
        <4>1. ra \in Nat /\ rb \in Nat
          BY <1>5, ElementsAreNats
        <4> HIDE DEF ra, rb
        <4> QED BY <1>9, <4>1
      <3> HIDE DEF ra, rb
      <3> QED BY <1>5, <3>1
    <2>3. lo \in Component(hi, E)
      BY <1>7
    <2>4. {ra, rb} = {lo, hi}
      OBVIOUS
    <2> HIDE DEF lo, hi
    <2>5. /\ u \in [Elements -> Elements]
          /\ \A y \in Elements : u[y] = IF y = hi THEN lo ELSE q[y]
      BY <1>4, <2>1, <2>2 DEF Forest
    <2>6. /\ u \in Forest
          /\ \A y \in Elements : Root(u)[y] = IF Root(q)[y] = hi THEN lo ELSE Root(q)[y]
      BY <1>4, <2>2, <2>5, LinkedRoots
    <2>7. InComponents(u, E)
      BY <1>4, <2>3, <2>5 DEF InComponents
    <2>8. Root(u)[e[1]] = lo /\ Root(u)[e[2]] = lo
      <3>1. ra \in {lo, hi} /\ rb \in {lo, hi}
        BY <2>4
      <3> QED BY <1>1, <2>6, <3>1
    <2>9. \A a, b \in Vertices : Root(p)[a] = Root(p)[b] => Root(u)[a] = Root(u)[b]
      BY <1>6, <2>6
    <2> QED BY <2>6, <2>7, <2>8, <2>9 DEF EndsMeet, u
  <1> QED BY <1>8, <1>9

\* The array after every edge.
LEMMA UnionsLoop ==
    ASSUME NEW es, Len(es) \in Nat
    PROVE  \E k : /\ k[0] = NewParent
                  /\ \A i \in 1..Len(es) : k[i] = Union(k[i - 1], es[i])
                  /\ Unions(es) = k[Len(es)]
  <1> DEFINE Loop(n) == \E k : k = [i \in 0..n |-> IF i = 0 THEN NewParent ELSE Union(k[i - 1], es[i])]
             S == {n \in Nat : Loop(n)}
             g == CHOOSE g : g = [i \in 0..Len(es) |-> IF i = 0 THEN NewParent ELSE Union(g[i - 1], es[i])]
  <1>1. Unions(es) = g[Len(es)]
    BY DEF Unions
  <1>2. 0 \in S
    <2> DEFINE k == [i \in 0..0 |-> NewParent]
    <2>1. k = [i \in 0..0 |-> IF i = 0 THEN NewParent ELSE Union(k[i - 1], es[i])]
      OBVIOUS
    <2> QED BY <2>1
  <1>3. ASSUME NEW n \in Nat, n \in S PROVE n + 1 \in S
    <2>1. PICK k : k = [i \in 0..n |-> IF i = 0 THEN NewParent ELSE Union(k[i - 1], es[i])]
      BY <1>3
    <2>2. k[0] = NewParent /\ \A i \in 1..n : k[i] = Union(k[i - 1], es[i])
      BY <2>1
    <2> DEFINE m == [i \in 0..(n + 1) |-> IF i = n + 1 THEN Union(k[n], es[n + 1]) ELSE k[i]]
    <2>3. m[n + 1] = Union(k[n], es[n + 1]) /\ \A i \in 0..n : m[i] = k[i]
      OBVIOUS
    <2>4. m = [i \in 0..(n + 1) |-> m[i]]
      OBVIOUS
    <2> HIDE DEF m
    <2>5. \A i \in 0..(n + 1) : m[i] = IF i = 0 THEN NewParent ELSE Union(m[i - 1], es[i])
      <3>1. \A i \in 1..n : i - 1 \in 0..n /\ i \in 0..n
        OBVIOUS
      <3>2. \A i \in 1..n : m[i] = Union(m[i - 1], es[i])
        BY <2>2, <2>3, <3>1
      <3>3. (n + 1) - 1 = n /\ n \in 0..n /\ 0 \in 0..n
        OBVIOUS
      <3>4. \A i \in 0..(n + 1) : i = 0 \/ i \in 1..n \/ i = n + 1
        OBVIOUS
      <3> QED BY <2>2, <2>3, <3>2, <3>3, <3>4
    <2>6. m = [i \in 0..(n + 1) |-> IF i = 0 THEN NewParent ELSE Union(m[i - 1], es[i])]
      BY <2>4, <2>5
    <2> QED BY <2>6
  <1>4. \E k : k = [i \in 0..Len(es) |-> IF i = 0 THEN NewParent ELSE Union(k[i - 1], es[i])]
    <2> HIDE DEF S
    <2>1. \A n \in Nat : n \in S
      BY <1>2, <1>3, Induction
    <2> QED BY <2>1 DEF S
  <1>5. g = [i \in 0..Len(es) |-> IF i = 0 THEN NewParent ELSE Union(g[i - 1], es[i])]
    BY <1>4
  <1> HIDE DEF g
  <1>6. g[0] = NewParent /\ \A i \in 1..Len(es) : g[i] = Union(g[i - 1], es[i])
    BY <1>5
  <1> QED BY <1>1, <1>6

\* All edges streamed through union are joined at the end, and only elements of
\* one component are linked.
LEMMA UnionsSound ==
    ASSUME NEW E \in SUBSET (Vertices \X Vertices), NEW es, Len(es) \in Nat,
           \A i \in 1..Len(es) : es[i] \in E
    PROVE  /\ Unions(es) \in Forest
           /\ InComponents(Unions(es), E)
           /\ \A i \in 1..Len(es) : EndsMeet(Unions(es), es[i])
  <1> USE RowsAssumption
  <1>1. PICK k : /\ k[0] = NewParent
                 /\ \A i \in 1..Len(es) : k[i] = Union(k[i - 1], es[i])
                 /\ Unions(es) = k[Len(es)]
    BY UnionsLoop
  <1> DEFINE Good(n) == /\ k[n] \in Forest
                        /\ InComponents(k[n], E)
                        /\ \A i \in 1..n : EndsMeet(k[n], es[i])
             S == {n \in Nat : n <= Len(es) => Good(n)}
  <1>2. 0 \in S
    <2>1. \A x \in Vertices : NewParent[x] = x /\ x <= x
      BY Ordered DEF NewParent
    <2>2. NewParent \in Forest
      BY <2>1 DEF Forest, NewParent
    <2>3. InComponents(NewParent, E)
      BY <2>1, OwnComponent DEF InComponents
    <2> QED BY <1>1, <2>2, <2>3
  <1>3. ASSUME NEW n \in Nat, n \in S PROVE n + 1 \in S
    <2> SUFFICES ASSUME n + 1 <= Len(es) PROVE Good(n + 1)
      OBVIOUS
    <2> DEFINE e == es[n + 1]
    <2>1. n + 1 \in 1..Len(es) /\ (n + 1) - 1 = n /\ n <= Len(es)
      OBVIOUS
    <2>2. e \in E /\ k[n + 1] = Union(k[n], e)
      BY <1>1, <2>1
    <2>3. Good(n)
      BY <1>3, <2>1
    <2>4. e[1] \in Vertices /\ e[2] \in Vertices
      BY <2>2
    <2> HIDE DEF e
    <2>5. /\ k[n + 1] \in Forest
          /\ InComponents(k[n + 1], E)
          /\ EndsMeet(k[n + 1], e)
          /\ \A a, b \in Vertices : Root(k[n])[a] = Root(k[n])[b] => Root(k[n + 1])[a] = Root(k[n + 1])[b]
      <3> DEFINE p == k[n]
      <3>1. p \in Forest /\ InComponents(p, E)
        BY <2>3
      <3> HIDE DEF p
      <3>2. /\ Union(p, e) \in Forest
            /\ InComponents(Union(p, e), E)
            /\ EndsMeet(Union(p, e), e)
            /\ \A a, b \in Vertices : Root(p)[a] = Root(p)[b] => Root(Union(p, e))[a] = Root(Union(p, e))[b]
        BY <2>2, <3>1, UnionStep
      <3>3. k[n + 1] = Union(p, e)
        BY <2>2 DEF p
      <3> QED BY <3>2, <3>3, Zenon DEF p
    <2>6. ASSUME NEW i \in 1..n
          PROVE  EndsMeet(k[n + 1], es[i])
      <3>1. i \in 1..Len(es)
        BY <2>1
      <3>2. es[i] \in E
        BY <3>1
      <3>3. es[i][1] \in Vertices /\ es[i][2] \in Vertices
        BY <3>2
      <3>4. EndsMeet(k[n], es[i])
        BY <2>3
      <3> QED BY <2>5, <3>3, <3>4 DEF EndsMeet
    <2>7. \A i \in 1..(n + 1) : i \in 1..n \/ i = n + 1
      OBVIOUS
    <2> QED BY <2>5, <2>6, <2>7 DEF e
  <1> HIDE DEF S
  <1>4. \A n \in Nat : n \in S
    BY <1>2, <1>3, Induction
  <1>5. Good(Len(es))
    BY <1>4 DEF S
  <1> QED BY <1>1, <1>5

\* The union-find keeps the least row of every component, whatever the order of
\* the edges.
LEMMA UnionFindKeepsLowest ==
    ASSUME NEW E \in SUBSET (Vertices \X Vertices), NEW es, Len(es) \in Nat,
           \A i \in 1..Len(es) : es[i] \in E,
           \A e \in E : \E i \in 1..Len(es) : es[i] = e
    PROVE  KeptByUnionFind(es) = {v \in Vertices : IsLeast(v, Component(v, E))}
  <1> USE RowsAssumption
  <1> DEFINE p == Unions(es)
             f == [x \in Vertices |-> Root(p)[x]]
  <1>1. p \in Forest /\ InComponents(p, E) /\ \A i \in 1..Len(es) : EndsMeet(p, es[i])
    BY UnionsSound
  <1> HIDE DEF p
  <1>2. \A x \in Vertices : f[x] = Root(p)[x]
    OBVIOUS
  <1>3. \A x \in Vertices : f[x] \in Vertices /\ f[x] \in Component(x, E) /\ f[x] <= x
    BY <1>1, RootIsRoot, RootsInComponents
  <1>4. f \in [Vertices -> Vertices]
    BY <1>3
  <1>5. \A e \in E : f[e[1]] = f[e[2]]
    <2> SUFFICES ASSUME NEW e \in E PROVE f[e[1]] = f[e[2]]
      OBVIOUS
    <2>1. e[1] \in Vertices /\ e[2] \in Vertices
      OBVIOUS
    <2>2. EndsMeet(p, e)
      BY <1>1
    <2> QED BY <2>1, <2>2 DEF EndsMeet
  <1> HIDE DEF f
  <1>6. \A v \in Vertices : IsLeast(f[v], Component(v, E))
    BY <1>3, <1>4, <1>5, EqualLabelsAreLeast
  <1>7. \A v \in Vertices : IsLeast(v, Component(v, E)) <=> f[v] = v
    <2> SUFFICES ASSUME NEW v \in Vertices, IsLeast(v, Component(v, E)) PROVE f[v] = v
      BY <1>6
    <2>1. v <= f[v] /\ f[v] <= v /\ f[v] \in Vertices
      BY <1>3 DEF IsLeast
    <2>2. v \in Nat /\ f[v] \in Nat
      BY <2>1, ElementsAreNats
    <2> QED BY <2>1, <2>2
  <1> QED BY <1>2, <1>7 DEF KeptByUnionFind, p

\* An order of the edges has all of them, and nothing else.
LEMMA DeliveriesComplete ==
    ASSUME TypeOK, NEW s \in Deliveries
    PROVE  /\ Len(s) \in Nat
           /\ \A i \in 1..Len(s) : s[i] \in AllEdges
           /\ \A e \in AllEdges : \E i \in 1..Len(s) : s[i] = e
  <1> DEFINE n == Cardinality(AllEdges)
  <1>1. IsFiniteSet(AllEdges)
    <2>1. IsFiniteSet(Vertices \X Vertices)
      BY RowsAssumption, FS_Product
    <2>2. AllEdges \in SUBSET (Vertices \X Vertices)
      BY EdgesAreEdges
    <2> QED BY <2>1, <2>2, FS_Subset
  <1>2. n \in Nat
    BY <1>1, FS_CardinalityType
  <1>3. s \in [1..n -> AllEdges] /\ \A i, j \in 1..n : i # j => s[i] # s[j]
    <2>1. Deliveries = {f \in [1..n -> AllEdges] : \A i, j \in 1..n : i # j => f[i] # f[j]}
      BY DEF Deliveries, SetToSeqs
    <2> HIDE DEF n
    <2> QED BY <2>1
  <1>4. s \in Injection(1..n, AllEdges)
    <2>1. IsInjective(s)
      BY <1>3 DEF IsInjective
    <2> QED BY <1>3, <2>1 DEF Injection
  <1>5. IsFiniteSet(1..n) /\ Cardinality(1..n) = n
    <2>1. Cardinality(1..n) = IF 1 > n THEN 0 ELSE n - 1 + 1
      BY <1>2, FS_Interval
    <2> QED BY <1>2, <2>1, FS_Interval
  <1>6. s \in Surjection(1..n, AllEdges)
    BY <1>1, <1>4, <1>5, FS_Injection
  <1>7. \A e \in AllEdges : \E i \in 1..n : s[i] = e
    BY <1>6 DEF Surjection
  <1> HIDE DEF n
  <1>8. Len(s) = n
    BY <1>2, <1>3
  <1> QED BY <1>2, <1>3, <1>7, <1>8

\* Once the computation is done, its result has the labels that were lowered.
ResultIsLowered ==
    pc = "done" => result = {<<r, label[r]>> : r \in {v \in Vertices : label[v] # v}}

\* That stays so.
LEMMA ResultStays == ResultIsLowered /\ [Next]_vars => ResultIsLowered'
  <1> SUFFICES ASSUME ResultIsLowered, [Next]_vars, pc' = "done"
               PROVE  result' = {<<r, label'[r]>> : r \in {v \in Vertices : label'[v] # v}}
    BY DEF ResultIsLowered
  <1>1. CASE NextPhase
    BY <1>1 DEF NextPhase
  <1>2. CASE EndRound
    BY <1>2 DEF EndRound
  <1>3. CASE Collect
    BY <1>3 DEF Collect
  <1>4. CASE \E s \in Shards : Gather(s) \/ Compute(s) \/ Apply(s)
    BY <1>4 DEF Gather, Compute, Apply
  <1>5. CASE UNCHANGED vars
    BY <1>5 DEF vars, ResultIsLowered
  <1> QED BY <1>1, <1>2, <1>3, <1>4, <1>5 DEF Next, Driver

\* Of every cluster one row survives, the lowest: the converged labels and the
\* union-find, whatever the order of its edges, keep the same rows
\* (dist_fuzzy_dedup with and without cc_workers).
THEOREM SurvivorsCorrect == Spec => []SurvivorsAgree
  <1>1. Spec => []ResultIsLowered
    <2>1. Init => ResultIsLowered
      BY DEF Init, ResultIsLowered
    <2> QED BY <2>1, ResultStays, PTL DEF Spec
  <1>2. TypeOK /\ ConvergedIsComponentMin /\ ResultIsLowered => SurvivorsAgree
    <2> SUFFICES ASSUME TypeOK, ConvergedIsComponentMin, ResultIsLowered, pc = "done", ~changed
                 PROVE  LET lowest == {v \in Vertices : IsLeast(v, Component(v, AllEdges))}
                        IN  /\ KeptByLabels(result) = lowest
                            /\ \A s \in Deliveries : KeptByUnionFind(s) = lowest
      BY DEF SurvivorsAgree
    <2> DEFINE lowest == {v \in Vertices : IsLeast(v, Component(v, AllEdges))}
    <2>1. \A v \in Vertices : label[v] \in Vertices /\ IsLeast(label[v], Component(v, AllEdges))
      BY DEF ConvergedIsComponentMin, Ended, TypeOK, Labels
    <2>2. \A v \in Vertices : IsLeast(v, Component(v, AllEdges)) <=> label[v] = v
      <3> SUFFICES ASSUME NEW v \in Vertices, IsLeast(v, Component(v, AllEdges)) PROVE label[v] = v
        BY <2>1
      <3>1. v <= label[v] /\ label[v] <= v
        BY <2>1 DEF IsLeast
      <3>2. v \in Nat /\ label[v] \in Nat
        BY <2>1, CCAssumption
      <3> QED BY <3>1, <3>2
    <2>3. \A v, m \in Vertices : <<v, m>> \in result <=> m = label[v] /\ label[v] # v
      BY DEF ResultIsLowered
    <2>4. KeptByLabels(result) = {v \in Vertices : label[v] = v}
      BY <2>1, <2>3 DEF KeptByLabels
    <2>5. KeptByLabels(result) = lowest
      BY <2>2, <2>4
    <2>6. AllEdges \in SUBSET (Vertices \X Vertices)
      BY EdgesAreEdges
    <2>7. \A s \in Deliveries : KeptByUnionFind(s) = lowest
      BY <2>6, DeliveriesComplete, UnionFindKeepsLowest
    <2> QED BY <2>5, <2>7
  <1> QED BY <1>1, <1>2, TypeCorrect, ConvergenceCorrect, PTL

-----------------------------------------------------------------------------
(* Taking rows of a table. *)
\* The rows Take joins: one list for each row of the table.
Picks(t, keep) == [i \in DOMAIN t |-> IF i \in keep THEN <<t[i]>> ELSE <<>>]

\* What is taken of no rows.
LEMMA TakeNil == ASSUME NEW keep PROVE Take(<<>>, keep) = <<>>
  <1>1. Picks(<<>>, keep) = <<>>
    BY DEF Picks
  <1> QED BY <1>1, FlattenEmpty DEF Take, Picks, Rows

\* What is taken of one more row.
LEMMA TakeAppend ==
    ASSUME NEW S, NEW t \in Seq(S), NEW x \in S, NEW keep
    PROVE  /\ Take(t, keep) \in Seq(S)
           /\ Take(Append(t, x), keep) =
                IF Len(t) + 1 \in keep THEN Append(Take(t, keep), x) ELSE Take(t, keep)
  <1> DEFINE n == Len(t)
             e == IF n + 1 \in keep THEN <<x>> ELSE <<>>
             y == Append(t, x)
             Q == Seq(S)
             p == Picks(t, keep)
  <1>1. e \in Q /\ \A i \in 1..n : (IF i \in keep THEN <<t[i]>> ELSE <<>>) \in Q
    OBVIOUS
  <1>2. /\ n \in Nat /\ DOMAIN t = 1..n /\ DOMAIN y = 1..(n + 1)
        /\ (\A i \in 1..n : y[i] = t[i]) /\ y[n + 1] = x
    OBVIOUS
  <1>3. p = [i \in 1..n |-> IF i \in keep THEN <<t[i]>> ELSE <<>>]
    BY <1>2 DEF Picks
  <1>4. Picks(y, keep) = [i \in 1..(n + 1) |-> IF i \in keep THEN <<y[i]>> ELSE <<>>]
    BY <1>2 DEF Picks
  <1> HIDE DEF Q
  <1>5. p \in Seq(Q) /\ Len(p) = n
    BY <1>1, <1>2, <1>3
  <1>6. p \in Lists(S)
    BY <1>5, Zenon DEF Lists, Q
  <1>7. Picks(y, keep) = Append(p, e)
    <2>1. \A i \in 1..n : Picks(y, keep)[i] = p[i]
      BY <1>2, <1>3, <1>4
    <2>2. Picks(y, keep)[n + 1] = e
      BY <1>2, <1>4
    <2>3. DOMAIN Picks(y, keep) = 1..(n + 1)
      BY <1>4
    <2>4. Picks(y, keep) = [i \in 1..(n + 1) |-> Picks(y, keep)[i]]
      BY <1>4
    <2> DEFINE a == Picks(y, keep)
    <2> HIDE DEF y, e, p, n, a
    <2>5. a \in Seq(Q) /\ Len(a) = n + 1
      <3>1. \A i \in 1..(n + 1) : i \in 1..n \/ i = n + 1
        BY <1>2
      <3>2. \A i \in 1..n : p[i] \in Q
        BY <1>5
      <3>3. \A i \in 1..(n + 1) : a[i] \in Q
        BY <1>1, <2>1, <2>2, <3>1, <3>2 DEF a
      <3>4. a = [i \in 1..(n + 1) |-> a[i]]
        BY <2>4 DEF a
      <3> QED BY <1>2, <3>3, <3>4
    <2>6. Append(p, e) \in Seq(Q) /\ Len(Append(p, e)) = n + 1 /\ Append(p, e)[n + 1] = e
          /\ \A i \in 1..n : Append(p, e)[i] = p[i]
      BY <1>1, <1>5
    <2>7. \A i \in 1..(n + 1) : a[i] = Append(p, e)[i]
      <3>1. \A i \in 1..(n + 1) : i \in 1..n \/ i = n + 1
        BY <1>2
      <3> QED BY <2>1, <2>2, <2>6, <3>1 DEF a
    <2>8. a = Append(p, e)
      BY <2>5, <2>6, <2>7, SeqEqual
    <2> QED BY <2>8 DEF a
  <1>8. FlattenSeq(p) \in Seq(S)
    BY <1>6, FlattenTyped
  <1>9. FlattenSeq(Append(p, e)) = FlattenSeq(p) \o e
    <2>1. e \in Seq(S)
      BY <1>1 DEF Q
    <2> HIDE DEF e, p
    <2> QED BY <1>6, <2>1, FlattenAppend
  <1>10. Take(t, keep) = FlattenSeq(p) /\ Take(y, keep) = FlattenSeq(Picks(y, keep))
    BY DEF Take, Picks, Rows
  <1> DEFINE f == FlattenSeq(p)
  <1>11. f \o e = IF n + 1 \in keep THEN Append(f, x) ELSE f
    <2>1. f \in Seq(S)
      BY <1>8
    <2> HIDE DEF f
    <2> QED BY <2>1
  <1> QED BY <1>7, <1>8, <1>9, <1>10, <1>11, Zenon

\* What is taken of a sequence.
LEMMA TakeTyped ==
    ASSUME NEW S, NEW t \in Seq(S), NEW keep
    PROVE  Take(t, keep) \in Seq(S)
  <1>1. CASE S = {}
    <2>1. t = <<>>
      BY <1>1, EmptySeq
    <2> QED BY <2>1, TakeNil
  <1>2. CASE S # {}
    BY <1>2, TakeAppend
  <1> QED BY <1>1, <1>2

\* One number more.
LEMMA CountingNext ==
    ASSUME NEW n \in Nat
    PROVE  /\ Counting(n) \in Seq(1..n) /\ Len(Counting(n)) = n
           /\ Counting(n) \in Seq(Nat) /\ Counting(n + 1) = Append(Counting(n), n + 1)
  <1>1. Counting(n) \in Seq(Nat) /\ Len(Counting(n)) = n /\ \A j \in 1..n : Counting(n)[j] = j
    BY DEF Counting
  <1>2. Counting(n) \in Seq(1..n)
    BY DEF Counting
  <1>3. /\ Counting(n + 1) \in Seq(Nat) /\ Len(Counting(n + 1)) = n + 1
        /\ \A j \in 1..(n + 1) : Counting(n + 1)[j] = j
    BY DEF Counting
  <1>4. /\ Append(Counting(n), n + 1) \in Seq(Nat) /\ Len(Append(Counting(n), n + 1)) = n + 1
        /\ \A j \in 1..(n + 1) : Append(Counting(n), n + 1)[j] = j
    BY <1>1
  <1>5. Counting(n + 1) = Append(Counting(n), n + 1)
    BY <1>3, <1>4, SeqEqual
  <1> QED BY <1>1, <1>2, <1>5

\* e lists the numbers in keep up to n, in order, and u the rows of t at them.
Selects(n, keep, t, e, u) ==
    /\ e \in Seq(Nat) /\ Len(e) = Len(u) /\ Len(u) <= n
    /\ \A m \in 1..Len(e) : e[m] \in 1..n /\ e[m] \in keep /\ u[m] = t[e[m]]
    /\ \A l, m \in 1..Len(e) : l < m => e[l] < e[m]
    /\ \A i \in 1..n : i \in keep => \E m \in 1..Len(e) : e[m] = i

\* Take is a selection of rows in their order.
LEMMA TakeSelects ==
    ASSUME NEW S, NEW t \in Seq(S), NEW keep
    PROVE  Selects(Len(t), keep, t, Take(Counting(Len(t)), keep), Take(t, keep))
  <1> DEFINE Good(s) == Selects(Len(s), keep, s, Take(Counting(Len(s)), keep), Take(s, keep))
             P == {s \in Seq(S) : Good(s)}
  <1>1. <<>> \in P
    <2>1. Counting(0) = <<>>
      BY DEF Counting
    <2>2. Len(<<>>) = 0 /\ <<>> \in Seq(S)
      OBVIOUS
    <2>3. Take(<<>>, keep) = <<>>
      BY TakeNil
    <2>4. Selects(0, keep, <<>>, <<>>, <<>>)
      BY DEF Selects
    <2> QED BY <2>1, <2>2, <2>3, <2>4, Zenon
  <1>2. ASSUME NEW s \in Seq(S), NEW x \in S, s \in P PROVE Append(s, x) \in P
    <2> DEFINE n == Len(s)
               e == Take(Counting(n), keep)
               u == Take(s, keep)
               s1 == Append(s, x)
               e1 == Take(Counting(n + 1), keep)
               u1 == Take(s1, keep)
    <2>1. n \in Nat /\ Len(s1) = n + 1 /\ s1 \in Seq(S) /\ s1[n + 1] = x /\ \A i \in 1..n : s1[i] = s[i]
      OBVIOUS
    <2>2. u \in Seq(S) /\ u1 = IF n + 1 \in keep THEN Append(u, x) ELSE u
      BY TakeAppend
    <2>3. e \in Seq(Nat) /\ e1 = IF n + 1 \in keep THEN Append(e, n + 1) ELSE e
      <3> DEFINE c == Counting(n)
                 i == n + 1
      <3>1. c \in Seq(Nat) /\ i \in Nat /\ Len(c) + 1 = i /\ Counting(i) = Append(c, i)
        <4> HIDE DEF n
        <4>1. Counting(n) \in Seq(Nat) /\ Len(Counting(n)) = n /\ Counting(n + 1) = Append(Counting(n), n + 1)
          BY <2>1, CountingNext
        <4> QED BY <2>1, <4>1
      <3>2. e = Take(c, keep) /\ e1 = Take(Counting(i), keep)
        OBVIOUS
      <3> HIDE DEF c, i, e, e1
      <3>3. /\ Take(c, keep) \in Seq(Nat)
            /\ Take(Append(c, i), keep) = IF Len(c) + 1 \in keep THEN Append(Take(c, keep), i) ELSE Take(c, keep)
        <4> DEFINE R == Nat
        <4>1. c \in Seq(R) /\ i \in R
          BY <3>1
        <4> HIDE DEF R
        <4>2. /\ Take(c, keep) \in Seq(R)
              /\ Take(Append(c, i), keep) = IF Len(c) + 1 \in keep THEN Append(Take(c, keep), i) ELSE Take(c, keep)
          BY <4>1, TakeAppend
        <4> QED BY <4>2, Zenon DEF R
      <3>4. e \in Seq(Nat) /\ e1 = IF i \in keep THEN Append(e, i) ELSE e
        BY <3>1, <3>2, <3>3, Zenon
      <3> QED BY <3>4 DEF i
    <2>4. Selects(n, keep, s, e, u)
      BY <1>2
    <2> HIDE DEF n, e, u, s1, e1, u1
    <2>5. Selects(n + 1, keep, s1, e1, u1)
      <3>1. /\ Len(e) = Len(u) /\ Len(u) <= n /\ Len(e) \in Nat /\ Len(u) \in Nat
            /\ \A m \in 1..Len(e) : e[m] \in 1..n /\ e[m] \in keep /\ u[m] = s[e[m]] /\ e[m] \in 1..(n + 1)
                                    /\ u[m] = s1[e[m]]
            /\ \A l, m \in 1..Len(e) : l < m => e[l] < e[m]
            /\ \A i \in 1..n : i \in keep => \E m \in 1..Len(e) : e[m] = i
        <4>1. /\ Len(e) = Len(u) /\ Len(u) <= n
              /\ \A m \in 1..Len(e) : e[m] \in 1..n /\ e[m] \in keep /\ u[m] = s[e[m]]
              /\ \A l, m \in 1..Len(e) : l < m => e[l] < e[m]
              /\ \A i \in 1..n : i \in keep => \E m \in 1..Len(e) : e[m] = i
          BY <2>4 DEF Selects
        <4>2. Len(e) \in Nat /\ Len(u) \in Nat
          BY <2>2, <2>3
        <4>3. \A j \in 1..n : j \in 1..(n + 1) /\ s1[j] = s[j]
          BY <2>1
        <4> QED BY <4>1, <4>2, <4>3
      <3>2. CASE n + 1 \notin keep
        <4>1. e1 = e /\ u1 = u
          BY <2>2, <2>3, <3>2
        <4>2. \A i \in 1..(n + 1) : i \in 1..n \/ i = n + 1
          BY <2>1
        <4>3. \A i \in 1..(n + 1) : i \in keep => \E m \in 1..Len(e) : e[m] = i
          BY <3>1, <3>2, <4>2
        <4>4. Len(u) <= n + 1
          BY <2>1, <3>1
        <4> QED BY <2>3, <3>1, <4>1, <4>3, <4>4 DEF Selects
      <3>3. CASE n + 1 \in keep
        <4>1. e1 = Append(e, n + 1) /\ u1 = Append(u, x)
          BY <2>2, <2>3, <3>3
        <4>2. e1 \in Seq(Nat) /\ Len(e1) = Len(e) + 1 /\ Len(u1) = Len(u) + 1 /\ Len(u1) <= n + 1
          BY <2>1, <2>2, <2>3, <3>1, <4>1
        <4>3. /\ e1[Len(e) + 1] = n + 1 /\ u1[Len(e) + 1] = x
              /\ \A m \in 1..Len(e) : e1[m] = e[m] /\ u1[m] = u[m]
          BY <2>1, <2>2, <2>3, <3>1, <4>1
        <4>4. \A m \in 1..Len(e1) : m \in 1..Len(e) \/ m = Len(e) + 1
          BY <3>1, <4>2
        <4>5. \A m \in 1..Len(e1) : e1[m] \in 1..(n + 1) /\ e1[m] \in keep /\ u1[m] = s1[e1[m]]
          <5>1. n + 1 \in 1..(n + 1)
            BY <2>1
          <5> QED BY <2>1, <3>1, <3>3, <4>3, <4>4, <5>1
        <4>6. \A l, m \in 1..Len(e1) : l < m => e1[l] < e1[m]
          <5> SUFFICES ASSUME NEW l \in 1..Len(e1), NEW m \in 1..Len(e1), l < m PROVE e1[l] < e1[m]
            OBVIOUS
          <5>1. l \in 1..Len(e)
            BY <3>1, <4>2
          <5>2. CASE m \in 1..Len(e)
            BY <3>1, <4>3, <5>1, <5>2
          <5>3. CASE m = Len(e) + 1
            <6>1. e[l] \in 1..n
              BY <3>1, <5>1
            <6>2. e1[l] = e[l] /\ e1[m] = n + 1
              BY <4>3, <5>1, <5>3
            <6> QED BY <2>1, <6>1, <6>2
          <5> QED BY <4>4, <5>2, <5>3
        <4>7. \A i \in 1..(n + 1) : i \in keep => \E m \in 1..Len(e1) : e1[m] = i
          <5>1. \A i \in 1..(n + 1) : i \in 1..n \/ i = n + 1
            BY <2>1
          <5>2. Len(e) + 1 \in 1..Len(e1) /\ \A m \in 1..Len(e) : m \in 1..Len(e1)
            BY <3>1, <4>2
          <5> QED BY <3>1, <4>3, <5>1, <5>2
        <4>8. Len(e1) = Len(u1)
          BY <3>1, <4>2
        <4> QED BY <4>2, <4>5, <4>6, <4>7, <4>8 DEF Selects
      <3> QED BY <3>2, <3>3
    <2>6. Good(s1)
      BY <2>1, <2>5 DEF e1, u1
    <2> QED BY <2>1, <2>6 DEF s1
  <1> HIDE DEF P
  <1>3. \A s \in Seq(S) : s \in P
    BY <1>1, <1>2, SeqInduction
  <1> QED BY <1>3 DEF P

-----------------------------------------------------------------------------
(* The place of a row among those with the same key. *)
\* The elements of A up to i.
Upto(A, i) == {j \in A : j <= i}

\* The count of the elements up to one is at least one, at most all.
LEMMA RankBounds ==
    ASSUME NEW n \in Nat, NEW A \in SUBSET (1..n), NEW i \in Nat
    PROVE  /\ IsFiniteSet(A) /\ Cardinality(A) \in Nat
           /\ IsFiniteSet(Upto(A, i)) /\ Cardinality(Upto(A, i)) \in Nat
           /\ Cardinality(Upto(A, i)) <= Cardinality(A)
           /\ i \in A => Cardinality(Upto(A, i)) >= 1
  <1>1. IsFiniteSet(1..n)
    BY FS_Interval
  <1>2. IsFiniteSet(A) /\ Cardinality(A) \in Nat
    BY <1>1, FS_Subset, FS_CardinalityType
  <1>3. Upto(A, i) \in SUBSET A
    BY DEF Upto
  <1>4. IsFiniteSet(Upto(A, i)) /\ Cardinality(Upto(A, i)) <= Cardinality(A)
    BY <1>2, <1>3, FS_Subset
  <1>5. Cardinality(Upto(A, i)) \in Nat
    BY <1>4, FS_CardinalityType
  <1>6. ASSUME i \in A PROVE Cardinality(Upto(A, i)) # 0
    <2>1. i \in Upto(A, i)
      BY <1>6 DEF Upto
    <2> QED BY <1>4, <2>1, FS_EmptySet
  <1>7. i \in A => Cardinality(Upto(A, i)) >= 1
    BY <1>5, <1>6
  <1> QED BY <1>2, <1>4, <1>5, <1>7

\* No two elements have the same count.
LEMMA RankUnique ==
    ASSUME NEW n \in Nat, NEW A \in SUBSET (1..n), NEW i \in A, NEW j \in A,
           Cardinality(Upto(A, i)) = Cardinality(Upto(A, j))
    PROVE  i = j
  <1>1. ASSUME NEW x \in A, NEW y \in A, x < y PROVE Cardinality(Upto(A, x)) # Cardinality(Upto(A, y))
    <2>0. y \in Nat /\ x \in Nat /\ \A l \in A : l \in Nat
      OBVIOUS
    <2>1. IsFiniteSet(Upto(A, y))
      BY <2>0, RankBounds
    <2>2. Upto(A, x) \in SUBSET Upto(A, y)
      <3>1. \A l \in A : l <= x => l <= y
        BY <1>1, <2>0
      <3> QED BY <3>1 DEF Upto
    <2>3. y \in Upto(A, y) /\ y \notin Upto(A, x)
      BY <1>1, <2>0 DEF Upto
    <2> QED BY <2>1, <2>2, <2>3, FS_Subset
  <1>2. i < j \/ j < i \/ i = j
    OBVIOUS
  <1> QED BY <1>1, <1>2, Zenon

\* Every count up to the number of elements is that of one of them.
LEMMA RankExists ==
    ASSUME NEW n \in Nat, NEW A \in SUBSET (1..n), NEW r \in 1..Cardinality(A), Cardinality(A) \in Nat
    PROVE  \E i \in A : Cardinality(Upto(A, i)) = r
  <1> DEFINE T == {i \in Nat : Cardinality(Upto(A, i)) >= r}
  <1>0. \A j \in A : j \in Nat /\ j >= 1 /\ j <= n
    OBVIOUS
  <1>1. \A i \in Nat : Cardinality(Upto(A, i)) \in Nat /\ IsFiniteSet(Upto(A, i))
    BY RankBounds
  <1>2. n \in T
    <2>1. Upto(A, n) = A
      BY <1>0 DEF Upto
    <2> QED BY <1>1, <2>1
  <1>3. PICK i \in T : \A k \in T : i <= k
    <2>1. T \in SUBSET Nat /\ T # {}
      BY <1>2
    <2> HIDE DEF T
    <2> QED BY <2>1, LeastExists
  <1>4. i \in Nat /\ Cardinality(Upto(A, i)) >= r
    OBVIOUS
  <1>5. i # 0
    <2>1. Upto(A, 0) = {}
      <3>1. \A j \in A : ~(j <= 0)
        BY <1>0
      <3> QED BY <3>1 DEF Upto
    <2>2. Cardinality(Upto(A, 0)) = 0
      BY <2>1, FS_EmptySet
    <2> QED BY <1>4, <2>2
  <1> DEFINE k == i - 1
  <1>6. k \in Nat /\ k < i /\ k + 1 = i
    BY <1>4, <1>5
  <1>7. Cardinality(Upto(A, k)) < r
    <2>1. k \notin T
      BY <1>3, <1>4, <1>6
    <2>2. ~(Cardinality(Upto(A, k)) >= r)
      BY <1>6, <2>1
    <2> HIDE DEF k, T
    <2> QED BY <1>1, <1>6, <2>2
  <1> HIDE DEF k, T
  <1>8. i \in A
    <2>1. SUFFICES ASSUME i \notin A PROVE FALSE
      OBVIOUS
    <2>2. Upto(A, i) = Upto(A, k)
      <3>1. \A j \in A : j <= i <=> j <= k
        BY <1>0, <1>4, <1>6, <2>1
      <3> QED BY <3>1 DEF Upto
    <2> QED BY <1>1, <1>4, <1>6, <1>7, <2>2
  <1>9. Upto(A, i) = Upto(A, k) \cup {i} /\ i \notin Upto(A, k)
    <2>1. \A j \in A : j <= i <=> (j <= k \/ j = i)
      BY <1>0, <1>4, <1>6
    <2>2. ~(i <= k)
      BY <1>4, <1>6
    <2> QED BY <1>8, <2>1, <2>2 DEF Upto
  <1>10. Cardinality(Upto(A, i)) = Cardinality(Upto(A, k)) + 1
    BY <1>1, <1>6, <1>9, FS_AddElement
  <1>11. Cardinality(Upto(A, i)) = r
    BY <1>1, <1>4, <1>6, <1>7, <1>10
  <1> QED BY <1>8, <1>11

\* The places of a key.
PlacesOf(k, n, x) == {i \in 1..n : k[i] = x}

\* The places whose count is beyond the number picked of their key.
Lost(k, h, n, m) ==
    {i \in 1..n : Cardinality(Upto(PlacesOf(k, n, k[i]), i)) > Cardinality(PlacesOf(h, m, k[i]))}

\* Keys of which some are picked: the places whose count is beyond the number
\* picked of their key are as many as the places not picked.
LEMMA Matching ==
    ASSUME NEW n \in Nat, NEW m \in Nat, NEW k, NEW h, NEW e \in [1..m -> 1..n],
           \A j \in 1..m : h[j] = k[e[j]],
           \A i, j \in 1..m : e[i] = e[j] => i = j
    PROVE  Cardinality(Lost(k, h, n, m)) = n - m
  <1> DEFINE A(x) == PlacesOf(k, n, x)
             B(x) == PlacesOf(h, m, x)
             rankA(i) == Cardinality(Upto(A(k[i]), i))
             rankB(j) == Cardinality(Upto(B(h[j]), j))
             Saved == {i \in 1..n : rankA(i) <= Cardinality(B(k[i]))}
             lost == {i \in 1..n : rankA(i) > Cardinality(B(k[i]))}
             f == [j \in 1..m |-> CHOOSE i \in A(h[j]) : Cardinality(Upto(A(h[j]), i)) = rankB(j)]
  <1>1. \A x : A(x) \in SUBSET (1..n) /\ B(x) \in SUBSET (1..m)
    BY DEF PlacesOf
  <1>2. \A x : Cardinality(A(x)) \in Nat /\ Cardinality(B(x)) \in Nat /\ IsFiniteSet(A(x)) /\ IsFiniteSet(B(x))
    BY <1>1, RankBounds
  <1>3. \A x : Cardinality(B(x)) <= Cardinality(A(x))
    <2> SUFFICES ASSUME NEW x PROVE Cardinality(B(x)) <= Cardinality(A(x))
      OBVIOUS
    <2> DEFINE g == [j \in B(x) |-> e[j]]
    <2>1. g \in Injection(B(x), A(x))
      BY DEF Injection, IsInjective, PlacesOf
    <2> QED BY <1>2, <2>1, FS_Injection
  <1>4. \A i \in 1..n : i \in A(k[i]) /\ rankA(i) \in Nat /\ rankA(i) >= 1
    <2> TAKE i \in 1..n
    <2> DEFINE a == A(k[i])
    <2>1. i \in a /\ a \in SUBSET (1..n) /\ i \in Nat
      BY <1>1 DEF PlacesOf
    <2>2. rankA(i) = Cardinality(Upto(a, i))
      OBVIOUS
    <2> HIDE DEF a, rankA
    <2>3. Cardinality(Upto(a, i)) \in Nat /\ (i \in a => Cardinality(Upto(a, i)) >= 1)
      BY <1>1, <2>1, RankBounds
    <2>4. rankA(i) \in Nat /\ rankA(i) >= 1
      BY <2>1, <2>2, <2>3, Zenon
    <2> QED BY <2>1, <2>4 DEF a
  <1>5. \A j \in 1..m : j \in B(h[j]) /\ rankB(j) \in 1..Cardinality(B(h[j]))
    <2> TAKE j \in 1..m
    <2>1. j \in B(h[j])
      BY DEF PlacesOf
    <2>2. rankB(j) \in Nat /\ rankB(j) >= 1 /\ rankB(j) <= Cardinality(B(h[j]))
      <3> DEFINE b == B(h[j])
      <3>1. j \in b /\ b \in SUBSET (1..m) /\ j \in Nat
        BY <1>1, <2>1
      <3>2. rankB(j) = Cardinality(Upto(b, j))
        OBVIOUS
      <3> HIDE DEF b, rankB
      <3>3. Cardinality(Upto(b, j)) \in Nat /\ Cardinality(Upto(b, j)) >= 1
            /\ Cardinality(Upto(b, j)) <= Cardinality(b)
        BY <3>1, RankBounds
      <3>4. rankB(j) \in Nat /\ rankB(j) >= 1 /\ rankB(j) <= Cardinality(b)
        BY <3>2, <3>3
      <3> QED BY <3>4 DEF b
    <2> QED BY <1>2, <2>1, <2>2
  <1>6. \A j \in 1..m : f[j] \in A(h[j]) /\ Cardinality(Upto(A(h[j]), f[j])) = rankB(j)
    <2> TAKE j \in 1..m
    <2> DEFINE x == h[j]
               r == rankB(j)
    <2>1. r \in 1..Cardinality(A(x))
      BY <1>2, <1>3, <1>5
    <2>2. A(x) \in SUBSET (1..n) /\ Cardinality(A(x)) \in Nat
      BY <1>1, <1>2
    <2>3. f[j] = CHOOSE i \in A(x) : Cardinality(Upto(A(x), i)) = r
      OBVIOUS
    <2> HIDE DEF f, r, A
    <2>4. \E i \in A(x) : Cardinality(Upto(A(x), i)) = r
      BY <2>1, <2>2, RankExists
    <2> QED BY <2>3, <2>4, Zenon DEF r
  <1> HIDE DEF f
  <1>7. \A j \in 1..m : f[j] \in 1..n /\ k[f[j]] = h[j] /\ rankA(f[j]) = rankB(j)
    <2> TAKE j \in 1..m
    <2>1. f[j] \in 1..n /\ k[f[j]] = h[j]
      BY <1>6 DEF PlacesOf
    <2> QED BY <1>6, <2>1, Zenon
  <1>8. \A j \in 1..m : f[j] \in Saved
    <2> TAKE j \in 1..m
    <2> DEFINE r == rankB(j)
               c == Cardinality(B(h[j]))
    <2>1. r \in 1..c /\ c \in Nat
      BY <1>2, <1>5
    <2>2. rankA(f[j]) = r /\ Cardinality(B(k[f[j]])) = c /\ f[j] \in 1..n
      BY <1>7
    <2> HIDE DEF r, c, rankA, B
    <2>3. r <= c
      BY <2>1
    <2>4. rankA(f[j]) <= Cardinality(B(k[f[j]]))
      BY <2>2, <2>3, Zenon
    <2> QED BY <2>2, <2>4
  <1>9. \A i, j \in 1..m : f[i] = f[j] => i = j
    <2> SUFFICES ASSUME NEW i \in 1..m, NEW j \in 1..m, f[i] = f[j] PROVE i = j
      OBVIOUS
    <2>1. h[i] = h[j] /\ rankB(i) = rankB(j)
      BY <1>7
    <2>2. i \in B(h[i]) /\ j \in B(h[i]) /\ B(h[i]) \in SUBSET (1..m)
      BY <1>1, <1>5, <2>1
    <2>3. Cardinality(Upto(B(h[i]), i)) = Cardinality(Upto(B(h[i]), j))
      BY <2>1
    <2> HIDE DEF B
    <2> QED BY <2>2, <2>3, RankUnique
  <1>10. \A i \in Saved : \E j \in 1..m : f[j] = i
    <2> SUFFICES ASSUME NEW i \in Saved PROVE \E j \in 1..m : f[j] = i
      OBVIOUS
    <2> DEFINE x == k[i]
               r == rankA(i)
    <2>1. i \in 1..n /\ r \in 1..Cardinality(B(x)) /\ i \in A(x) /\ A(x) \in SUBSET (1..n)
          /\ B(x) \in SUBSET (1..m) /\ Cardinality(B(x)) \in Nat
      <3> DEFINE c == Cardinality(B(x))
      <3>1. i \in 1..n /\ r <= c
        OBVIOUS
      <3>2. r \in Nat /\ r >= 1 /\ i \in A(x)
        BY <1>4, <3>1
      <3>3. c \in Nat /\ B(x) \in SUBSET (1..m) /\ A(x) \in SUBSET (1..n)
        BY <1>1, <1>2
      <3> HIDE DEF r, c
      <3>4. r \in 1..c
        BY <3>1, <3>2, <3>3
      <3> QED BY <3>1, <3>2, <3>3, <3>4 DEF c
    <2>2. PICK j \in B(x) : Cardinality(Upto(B(x), j)) = r
      <3> HIDE DEF r, x, B
      <3> QED BY <2>1, RankExists
    <2>3. j \in 1..m /\ h[j] = x
      BY DEF PlacesOf
    <2>4. f[j] \in A(x) /\ Cardinality(Upto(A(x), f[j])) = r
      BY <1>6, <2>2, <2>3
    <2>5. Cardinality(Upto(A(x), i)) = r
      OBVIOUS
    <2>6. f[j] = i
      <3> HIDE DEF r, x, A, B, Saved
      <3> QED BY <2>1, <2>4, <2>5, RankUnique
    <2> QED BY <2>3, <2>6
  <1>11. f \in [1..m -> Saved]
    <2>1. f = [j \in 1..m |-> f[j]]
      BY DEF f
    <2> QED BY <1>8, <2>1
  <1>12. Cardinality(Saved) = m
    <2>1. f \in Bijection(1..m, Saved)
      <3> HIDE DEF Saved
      <3> QED BY <1>9, <1>10, <1>11 DEF Bijection, Injection, Surjection, IsInjective
    <2>2. ExistsBijection(1..m, Saved)
      BY <2>1 DEF ExistsBijection
    <2>3. IsFiniteSet(1..m) /\ Cardinality(1..m) = m
      BY FS_Interval
    <2> HIDE DEF Saved
    <2> QED BY <2>2, <2>3, FS_Bijection
  <1>13. lost = (1..n) \ Saved /\ Saved \subseteq 1..n
    BY <1>2, <1>4
  <1>14. Cardinality(lost) = n - m
    <2>1. IsFiniteSet(1..n) /\ Cardinality(1..n) = n
      BY FS_Interval
    <2>2. (1..n) \cap Saved = Saved
      BY <1>13
    <2> HIDE DEF Saved, lost
    <2>3. Cardinality((1..n) \ Saved) = Cardinality(1..n) - Cardinality((1..n) \cap Saved)
      BY <2>1, FS_Difference
    <2> QED BY <1>12, <1>13, <2>1, <2>2, <2>3
  <1> QED BY <1>14 DEF Lost

\* Of the elements of a set, as many have a count beyond c as there are more than c.
LEMMA BeyondCount ==
    ASSUME NEW n \in Nat, NEW A \in SUBSET (1..n), NEW c \in Nat, c <= Cardinality(A)
    PROVE  Cardinality({i \in A : Cardinality(Upto(A, i)) > c}) = Cardinality(A) - c
  <1> DEFINE Low == {i \in A : Cardinality(Upto(A, i)) <= c}
             Beyond == {i \in A : Cardinality(Upto(A, i)) > c}
             rank == [i \in Low |-> Cardinality(Upto(A, i))]
  <1>1. /\ IsFiniteSet(A) /\ Cardinality(A) \in Nat
        /\ \A i \in A : Cardinality(Upto(A, i)) \in Nat /\ Cardinality(Upto(A, i)) >= 1
    <2>1. A \subseteq Nat /\ 0 \in Nat
      OBVIOUS
    <2> QED BY <2>1, RankBounds
  <1> DEFINE count(i) == Cardinality(Upto(A, i))
  <1>2. rank \in [Low -> 1..c]
    <2>1. \A i \in A : count(i) \in Nat /\ count(i) >= 1
      BY <1>1
    <2>2. Low = {i \in A : count(i) <= c} /\ rank = [i \in Low |-> count(i)]
      OBVIOUS
    <2> HIDE DEF count, Low, rank
    <2>3. \A i \in Low : count(i) \in 1..c
      BY <2>1, <2>2
    <2> QED BY <2>2, <2>3
  <1>3. \A i, j \in Low : rank[i] = rank[j] => i = j
    <2> SUFFICES ASSUME NEW i \in Low, NEW j \in Low, rank[i] = rank[j] PROVE i = j
      OBVIOUS
    <2>1. i \in A /\ j \in A /\ Cardinality(Upto(A, i)) = Cardinality(Upto(A, j))
      OBVIOUS
    <2> QED BY <2>1, RankUnique
  <1>4. \A q \in 1..c : \E i \in Low : rank[i] = q
    <2> SUFFICES ASSUME NEW q \in 1..c PROVE \E i \in Low : rank[i] = q
      OBVIOUS
    <2>1. q \in 1..Cardinality(A) /\ q <= c
      BY <1>1
    <2>2. PICK i \in A : Cardinality(Upto(A, i)) = q
      BY <1>1, <2>1, RankExists
    <2>3. i \in Low
      BY <2>1, <2>2
    <2> QED BY <2>2, <2>3
  <1>5. Cardinality(Low) = c
    <2>1. rank \in Injection(Low, 1..c) /\ rank \in Surjection(Low, 1..c)
      <3> HIDE DEF rank, Low
      <3> QED BY <1>2, <1>3, <1>4 DEF Injection, Surjection, IsInjective
    <2>2. IsFiniteSet(1..c) /\ Cardinality(1..c) = c
      BY FS_Interval
    <2>3. IsFiniteSet(Low) /\ Cardinality(Low) \in Nat
      <3>1. Low \in SUBSET A
        OBVIOUS
      <3> HIDE DEF Low
      <3> QED BY <1>1, <3>1, FS_Subset, FS_CardinalityType
    <2> HIDE DEF Low, rank
    <2>4. Cardinality(Low) <= c
      BY <2>1, <2>2, FS_Injection
    <2>5. c <= Cardinality(Low)
      BY <2>1, <2>2, <2>3, FS_Surjection
    <2> QED BY <2>3, <2>4, <2>5
  <1>6. Beyond = A \ Low /\ A \cap Low = Low
    <2>1. \A i \in A : count(i) \in Nat
      BY <1>1
    <2>2. Low = {i \in A : count(i) <= c} /\ Beyond = {i \in A : count(i) > c}
      OBVIOUS
    <2> HIDE DEF count, Low, Beyond
    <2>3. \A i \in A : count(i) > c <=> ~(count(i) <= c)
      BY <2>1
    <2> QED BY <2>2, <2>3
  <1> HIDE DEF Low, Beyond
  <1>7. Cardinality(Beyond) = Cardinality(A) - c
    BY <1>1, <1>5, <1>6, FS_Difference
  <1> QED BY <1>7 DEF Beyond

\* What sample_dropped finds missing are as many rows as were not taken, and of
\* every text as many as were not taken of it.
LEMMA DroppedCount ==
    ASSUME NEW S, NEW t \in Seq(S), NEW keep
    PROVE  /\ Cardinality(Dropped(t, Take(t, keep))) = Len(t) - Len(Take(t, keep))
           /\ \A key : Cardinality(Dropped(t, Take(t, keep)) \cap Copies(t, key))
                         = Cardinality(Copies(t, key)) - Cardinality(Copies(Take(t, keep), key))
  <1> DEFINE n == Len(t)
             u == Take(t, keep)
             m == Len(u)
             e == Take(Counting(n), keep)
             k == [i \in 1..n |-> TextKey(t[i])]
             h == [j \in 1..m |-> TextKey(u[j])]
  <1>1. u \in Seq(S) /\ n \in Nat /\ m \in Nat /\ DOMAIN t = 1..n /\ DOMAIN u = 1..m
    <2>1. u \in Seq(S)
      BY TakeTyped
    <2> HIDE DEF u
    <2> QED BY <2>1
  <1>2. Selects(n, keep, t, e, u)
    BY TakeSelects
  <1> HIDE DEF n, u, m, e
  <1>3. Len(e) = m /\ e \in Seq(Nat) /\ (\A j \in 1..m : e[j] \in 1..n /\ u[j] = t[e[j]])
        /\ (\A i, j \in 1..m : i < j => e[i] < e[j])
    BY <1>2 DEF Selects, m
  <1>4. e \in [1..m -> 1..n]
    BY <1>3
  <1>5. \A i, j \in 1..m : e[i] = e[j] => i = j
    <2> SUFFICES ASSUME NEW i \in 1..m, NEW j \in 1..m, e[i] = e[j] PROVE i = j
      OBVIOUS
    <2>1. i < j \/ j < i \/ i = j
      BY <1>1
    <2>2. e[i] \in Nat /\ e[j] \in Nat
      BY <1>3
    <2> QED BY <1>3, <2>1, <2>2
  <1>6. \A j \in 1..m : h[j] = k[e[j]]
    BY <1>3
  <1>7. Dropped(t, u) = Lost(k, h, n, m)
    <2>1. \A i \in 1..n : {j \in 1..i : TextKey(t[j]) = TextKey(t[i])} = Upto(PlacesOf(k, n, k[i]), i)
      BY <1>1 DEF Upto, PlacesOf
    <2>2. \A i \in 1..n : {j \in Rows(u) : TextKey(u[j]) = TextKey(t[i])} = PlacesOf(h, m, k[i])
      BY <1>1 DEF Rows, PlacesOf
    <2>3. Dropped(t, u) = {i \in 1..n : Cardinality({j \in 1..i : TextKey(t[j]) = TextKey(t[i])})
                                > Cardinality({j \in Rows(u) : TextKey(u[j]) = TextKey(t[i])})}
      BY <1>1 DEF Dropped, Rows
    <2> HIDE DEF k, h
    <2> QED BY <2>1, <2>2, <2>3 DEF Lost
  <1> HIDE DEF k, h
  <1>8. Cardinality(Dropped(t, u)) = n - m
    <2>1. n \in Nat /\ m \in Nat
      BY <1>1
    <2>2. Cardinality(Lost(k, h, n, m)) = n - m
      BY <1>4, <1>5, <1>6, <2>1, Matching
    <2> QED BY <1>7, <2>2
  <1>9. ASSUME NEW x
        PROVE  Cardinality(Dropped(t, u) \cap Copies(t, x)) = Cardinality(Copies(t, x)) - Cardinality(Copies(u, x))
    <2> DEFINE A == PlacesOf(k, n, x)
               B == PlacesOf(h, m, x)
               g == [j \in B |-> e[j]]
    <2>1. Copies(t, x) = A /\ Copies(u, x) = B
      BY <1>1 DEF Copies, Rows, PlacesOf, k, h
    <2>2. A \in SUBSET (1..n) /\ B \in SUBSET (1..m)
      BY DEF PlacesOf
    <2>3. g \in Injection(B, A)
      BY <1>4, <1>5, <1>6 DEF Injection, IsInjective, PlacesOf
    <2>4. Dropped(t, u) \cap A = {i \in A : Cardinality(Upto(A, i)) > Cardinality(B)}
      BY <1>7 DEF Lost, PlacesOf
    <2> HIDE DEF A, B, g
    <2>5. n \in Nat /\ m \in Nat /\ 0 \in Nat
      BY <1>1
    <2>6. IsFiniteSet(A) /\ Cardinality(A) \in Nat
      BY <2>2, <2>5, RankBounds
    <2>7. IsFiniteSet(B) /\ Cardinality(B) \in Nat
      BY <2>2, <2>5, RankBounds
    <2>8. Cardinality(B) <= Cardinality(A)
      BY <2>3, <2>6, FS_Injection
    <2>9. Cardinality({i \in A : Cardinality(Upto(A, i)) > Cardinality(B)}) = Cardinality(A) - Cardinality(B)
      BY <2>2, <2>5, <2>7, <2>8, BeyondCount
    <2> QED BY <2>1, <2>4, <2>9
  <1> QED BY <1>8, <1>9 DEF n, m, u

-----------------------------------------------------------------------------
(* What the operators make of a table is a table. *)
\* The lines and the words of a text.
LEMMA TextFacts ==
    ASSUME NEW text \in Text
    PROVE  LinesOf(text) \in Seq(Line) /\ Words(text) \in Line
  <1>1. LinesOf(text) \in Seq(Line)
    BY DEF LinesOf, Text
  <1>2. LinesOf(text) \in Lists(Nat)
    BY <1>1, Zenon DEF Lists, Line
  <1>3. FlattenSeq(LinesOf(text)) \in Seq(Nat)
    BY <1>2, FlattenTyped
  <1> QED BY <1>1, <1>3, Zenon DEF Words, Line

\* The kept lines of a text make a text.
LEMMA LinesTaken ==
    ASSUME NEW text \in Text, NEW keep
    PROVE  (IF Blank(text) THEN text ELSE Take(text, keep)) \in Text
  <1>1. CASE Blank(text)
    BY <1>1
  <1>2. CASE ~Blank(text)
    <2>1. text \in Seq(Line)
      BY <1>2 DEF Blank, Text
    <2>2. Take(text, keep) \in Seq(Line)
      BY <2>1, TakeTyped
    <2> QED BY <1>2, <2>2 DEF Text
  <1> QED BY <1>1, <1>2

\* A document with another text.
LEMMA DocumentText ==
    ASSUME NEW d \in Document, NEW x \in Text
    PROVE  [d EXCEPT !.text = x] \in Document /\ d.text \in Text
  <1> DEFINE E == {NULL} \cup Int
             I == {NULL} \cup Seq({0, 1})
             T == Text
  <1>1. Document = [id : Nat, text : T, emb : E, img : I]
    BY DEF Document
  <1>2. x \in T
    OBVIOUS
  <1> HIDE DEF E, I, T
  <1>3. [d EXCEPT !.text = x] \in Document /\ d.text \in T
    BY <1>1, <1>2
  <1> QED BY <1>3 DEF T

\* A table with other texts.
Retold(t, g) == [i \in Rows(t) |-> [t[i] EXCEPT !.text = g[i]]]

\* A table with other texts is a table.
LEMMA OtherTexts ==
    ASSUME NEW t \in Seq(Document), NEW g, \A i \in 1..Len(t) : g[i] \in Text
    PROVE  Retold(t, g) \in Seq(Document)
  <1>1. Rows(t) = 1..Len(t) /\ Len(t) \in Nat /\ \A i \in 1..Len(t) : t[i] \in Document
    BY DEF Rows
  <1>2. \A i \in 1..Len(t) : [t[i] EXCEPT !.text = g[i]] \in Document
    BY <1>1, DocumentText
  <1> QED BY <1>1, <1>2 DEF Retold

\* The texts of a table.
LEMMA TableTexts ==
    ASSUME NEW t \in Seq(Document)
    PROVE  Rows(t) = 1..Len(t) /\ Len(t) \in Nat /\ \A i \in 1..Len(t) : t[i] \in Document /\ t[i].text \in Text
  <1>1. Rows(t) = 1..Len(t) /\ Len(t) \in Nat /\ \A i \in 1..Len(t) : t[i] \in Document
    BY DEF Rows
  <1>2. \A d \in Document : d.text \in Text
    BY DEF Document
  <1> QED BY <1>1, <1>2

\* The filter of lines keeps documents.
LEMMA C4Typed == ASSUME NEW t \in Seq(Document) PROVE C4Filter(t) \in Seq(Document)
  <1> DEFINE keep(i) == {n \in DOMAIN t[i].text : C4Line(t[i].text[n])}
             g == [i \in Rows(t) |-> IF Blank(t[i].text) THEN t[i].text ELSE Take(t[i].text, keep(i))]
  <1>1. \A i \in 1..Len(t) : g[i] \in Text
    BY TableTexts, LinesTaken
  <1>2. C4Filter(t) = Retold(t, g)
    <2>1. \A i \in Rows(t) : g[i] = IF Blank(t[i].text) THEN t[i].text ELSE Take(t[i].text, keep(i))
      OBVIOUS
    <2>2. C4Filter(t) = [i \in Rows(t) |-> [t[i] EXCEPT !.text = IF Blank(t[i].text) THEN t[i].text ELSE Take(t[i].text, keep(i))]]
      BY Zenon DEF C4Filter, WithText
    <2> HIDE DEF g
    <2> QED BY <2>1, <2>2, Zenon DEF Retold
  <1> HIDE DEF g
  <1> QED BY <1>1, <1>2, OtherTexts

\* Dropping repeated lines keeps documents.
LEMMA LineDedupTyped == ASSUME NEW t \in Seq(Document) PROVE CorpusLineDedup(t) \in Seq(Document)
  <1> DEFINE keep(i) == {n \in DOMAIN t[i].text : ~Repeats(t, t[i].text[n])}
             g == [i \in Rows(t) |-> IF Blank(t[i].text) THEN t[i].text ELSE Take(t[i].text, keep(i))]
  <1>1. \A i \in 1..Len(t) : g[i] \in Text
    BY TableTexts, LinesTaken
  <1>2. CorpusLineDedup(t) = Retold(t, g)
    <2>1. \A i \in Rows(t) : g[i] = IF Blank(t[i].text) THEN t[i].text ELSE Take(t[i].text, keep(i))
      OBVIOUS
    <2>2. CorpusLineDedup(t) = [i \in Rows(t) |-> [t[i] EXCEPT !.text = IF Blank(t[i].text) THEN t[i].text ELSE Take(t[i].text, keep(i))]]
      BY Zenon DEF CorpusLineDedup, WithText
    <2> HIDE DEF g
    <2> QED BY <2>1, <2>2, Zenon DEF Retold
  <1> HIDE DEF g
  <1> QED BY <1>1, <1>2, OtherTexts

\* Dropping repeated spans keeps documents.
LEMMA SubstringTyped == ASSUME NEW t \in Seq(Document) PROVE SubstringDedup(t) \in Seq(Document)
  <1> DEFINE w == [d \in Rows(t) |-> Words(t[d].text)]
             starts(d) == {p \in SpansOf(w[d]) : Repeated(w, d, p)}
             g == [d \in Rows(t) |-> IF Len(w[d]) < Span THEN t[d].text
                                     ELSE OneLine(Uncovered(w[d], starts(d)))]
  <1>1. \A d \in 1..Len(t) : g[d] \in Text
    <2> TAKE d \in 1..Len(t)
    <2>1. w[d] \in Line /\ t[d].text \in Text /\ d \in Rows(t)
      BY TableTexts, TextFacts
    <2>2. Uncovered(w[d], starts(d)) \in Line
      <3> HIDE DEF w, starts
      <3>1. w[d] \in Seq(Nat)
        BY <2>1 DEF Line
      <3>2. \A K : Take(w[d], K) \in Seq(Nat)
        BY <3>1, TakeTyped
      <3> QED BY <3>2 DEF Uncovered, Line
    <2>3. OneLine(Uncovered(w[d], starts(d))) \in Seq(Line)
      <3> DEFINE u == Uncovered(w[d], starts(d))
      <3>1. u \in Line
        BY <2>2
      <3> HIDE DEF u
      <3>2. OneLine(u) \in Seq(Line)
        BY <3>1 DEF OneLine
      <3> QED BY <3>2 DEF u
    <2> QED BY <2>1, <2>3 DEF Text
  <1>2. SubstringDedup(t) = Retold(t, g)
    <2>1. \A d \in Rows(t) : g[d] = IF Len(w[d]) < Span THEN t[d].text
                             ELSE OneLine(Uncovered(w[d], starts(d)))
      OBVIOUS
    <2>2. SubstringDedup(t) = [d \in Rows(t) |-> [t[d] EXCEPT !.text = IF Len(w[d]) < Span THEN t[d].text
                             ELSE OneLine(Uncovered(w[d], starts(d)))]]
      BY Zenon DEF SubstringDedup, WithText
    <2> HIDE DEF g
    <2> QED BY <2>1, <2>2, Zenon DEF Retold
  <1> HIDE DEF g
  <1> QED BY <1>1, <1>2, OtherTexts

\* Chunks are documents.
LEMMA ChunksTyped == ASSUME NEW t \in Seq(Document) PROVE ChunkText(t) \in Seq(Document)
  <1> DEFINE D == Document
             pieces(i) == [n \in DOMAIN LinesOf(t[i].text) |-> t[i]]
             z == [i \in Rows(t) |-> pieces(i)]
             Q == Seq(D)
  <1>1. \A i \in 1..Len(t) : pieces(i) \in Q
    <2> TAKE i \in 1..Len(t)
    <2> DEFINE lines == LinesOf(t[i].text)
               d == t[i]
    <2>1. lines \in Seq(Line) /\ d \in D
      BY TableTexts, TextFacts
    <2> HIDE DEF lines, d, D
    <2>2. DOMAIN lines = 1..Len(lines) /\ Len(lines) \in Nat
      BY <2>1
    <2>3. [n \in 1..Len(lines) |-> d] \in Seq(D)
      BY <2>1, <2>2
    <2> QED BY <2>2, <2>3 DEF lines, d
  <1>2. Rows(t) = 1..Len(t) /\ Len(t) \in Nat
    BY TableTexts
  <1> HIDE DEF pieces, Q, D
  <1>3. z \in Seq(Q)
    BY <1>1, <1>2
  <1>4. z \in Lists(D)
    BY <1>3, Zenon DEF Lists, Q
  <1>5. FlattenSeq(z) \in Seq(D)
    BY <1>4, FlattenTyped
  <1>6. ChunkText(t) = FlattenSeq(z)
    BY DEF ChunkText, pieces
  <1> QED BY <1>5, <1>6 DEF D

\* What an operator that drops rows takes.
LEMMA DropperTakes ==
    ASSUME NEW op \in Droppers, NEW t
    PROVE  \E keep : Applied(op, t) = Take(t, keep)
  <1>1. CASE op = "exact_dedup"
    BY <1>1 DEF Applied
  <1>2. CASE op = "fuzzy_dedup"
    BY <1>2 DEF Applied
  <1>3. CASE op = "semantic_dedup"
    BY <1>3 DEF Applied
  <1>4. CASE op = "image_dedup"
    BY <1>4 DEF Applied
  <1>5. CASE op = "quality_filter"
    BY <1>5 DEF Applied
  <1>6. CASE op = "language_filter"
    BY <1>6 DEF Applied
  <1>7. CASE op = "decontaminate"
    BY <1>7 DEF Applied
  <1> QED BY <1>1, <1>2, <1>3, <1>4, <1>5, <1>6, <1>7 DEF Droppers

\* Every operator makes a table of a table.
LEMMA AppliedTyped ==
    ASSUME NEW op \in STRING, NEW t \in Seq(Document)
    PROVE  Applied(op, t) \in Seq(Document)
  <1>1. CASE op \in Droppers
    <2>1. PICK keep : Applied(op, t) = Take(t, keep)
      BY <1>1, DropperTakes
    <2> QED BY <2>1, TakeTyped
  <1>2. CASE op = "chunk_text"
    BY <1>2, ChunksTyped DEF Applied
  <1>3. CASE op = "c4_line_filter"
    BY <1>3, C4Typed DEF Applied
  <1>4. CASE op = "corpus_line_dedup"
    BY <1>4, LineDedupTyped DEF Applied
  <1>5. CASE op = "substring_dedup"
    BY <1>5, SubstringTyped DEF Applied
  <1>6. CASE op \notin Droppers \cup {"chunk_text", "c4_line_filter", "corpus_line_dedup", "substring_dedup"}
    BY <1>6 DEF Applied, Droppers
  <1> QED BY <1>1, <1>2, <1>3, <1>4, <1>5, <1>6

-----------------------------------------------------------------------------
(* The funnel of a flow. *)
Entries == [op : STRING, rowsIn : Nat, rowsOut : Nat, dropped : Int]

\* The tables of a flow, and a funnel that starts from the corpus and leaves
\* off at the table there is.
FlowInv ==
    /\ table \in Seq(Document) /\ tbl \in Seq(Document) /\ steps \in Seq(STRING)
    /\ funnel \in Seq(Entries)
    /\ \A n \in DOMAIN funnel : funnel[n].rowsIn = IF n = 1 THEN Len(table) ELSE funnel[n - 1].rowsOut
    /\ Len(tbl) = IF funnel = <<>> THEN Len(table) ELSE Last(funnel).rowsOut

\* The invariant of a flow holds when it is built.
LEMMA InitFlow == FlowInit => FlowInv
  <1> SUFFICES ASSUME FlowInit PROVE FlowInv
    OBVIOUS
  <1>1. PICK c \in Cases : table = c.table /\ steps = c.steps
    BY DEF FlowInit
  <1>2. table \in Seq(Document) /\ steps \in Seq(STRING) /\ tbl = table /\ funnel = <<>>
    BY <1>1, CasesAssumption DEF FlowInit
  <1> HIDE DEF Document
  <1> QED BY <1>2 DEF FlowInv

\* An operator's entry goes on where the one before it left off.
LEMMA StepFlow == ASSUME FlowInv, Step PROVE FlowInv'
  <1> DEFINE op == steps[At]
             e == Entry(op, Len(tbl), Len(tbl'))
             k == Len(funnel)
             old == funnel
  <1>1. k \in Nat /\ At = k + 1 /\ At <= Len(steps) /\ op \in STRING
    BY DEF FlowInv, Step, At
  <1>2. tbl' = Applied(op, tbl) /\ funnel' = Append(funnel, e) /\ table' = table /\ steps' = steps
    BY DEF Step
  <1>3. tbl' \in Seq(Document)
    BY <1>1, <1>2, AppliedTyped DEF FlowInv
  <1>4. Len(tbl) \in Nat /\ Len(tbl') \in Nat
    BY <1>3 DEF FlowInv
  <1>5. e \in Entries /\ e.rowsIn = Len(tbl) /\ e.rowsOut = Len(tbl')
    BY <1>1, <1>4 DEF Entries, Entry
  <1> HIDE DEF e, op
  <1>6. /\ funnel' \in Seq(Entries) /\ Len(funnel') = k + 1 /\ funnel'[k + 1] = e /\ funnel' # <<>>
        /\ DOMAIN funnel' = 1..(k + 1) /\ \A n \in 1..k : funnel'[n] = funnel[n]
    BY <1>1, <1>2, <1>5 DEF FlowInv
  <1>7. Last(funnel') = e
    BY <1>6 DEF Last
  <1>8. ASSUME NEW n \in 1..(k + 1)
        PROVE  funnel'[n].rowsIn = IF n = 1 THEN Len(table) ELSE funnel'[n - 1].rowsOut
    <2>1. CASE n \in 1..k
      <3>1. n \in DOMAIN funnel /\ (n # 1 => n - 1 \in 1..k)
        BY <1>1, <2>1 DEF FlowInv
      <3> QED BY <1>6, <2>1, <3>1 DEF FlowInv
    <2>2. CASE n = k + 1
      <3>1. CASE k = 0
        <4>1. funnel = <<>>
          BY <3>1 DEF FlowInv
        <4> QED BY <1>5, <1>6, <2>2, <3>1, <4>1 DEF FlowInv
      <3>2. CASE k # 0
        <4>1. funnel # <<>> /\ Last(funnel) = funnel[k] /\ k \in 1..k /\ n - 1 = k /\ n # 1
          BY <1>1, <2>2, <3>2 DEF Last, FlowInv
        <4>2. Len(tbl) = funnel[k].rowsOut
          BY <4>1 DEF FlowInv
        <4> QED BY <1>5, <1>6, <2>2, <4>1, <4>2
      <3> QED BY <3>1, <3>2
    <2> QED BY <1>1, <2>1, <2>2
  <1> QED BY <1>2, <1>3, <1>5, <1>6, <1>7, <1>8 DEF FlowInv

\* Every step of a flow keeps the invariant.
LEMMA NextFlow == FlowInv /\ [FlowNext]_flowVars => FlowInv'
  <1> SUFFICES ASSUME FlowInv, [FlowNext]_flowVars PROVE FlowInv'
    OBVIOUS
  <1>1. CASE Run
    <2>1. table' = table /\ steps' = steps /\ tbl' = table /\ funnel' = <<>>
      BY <1>1 DEF Run
    <2> QED BY <2>1 DEF FlowInv
  <1>2. CASE Step
    BY <1>2, StepFlow
  <1>3. CASE Raise
    BY <1>3 DEF Raise, FlowInv
  <1>4. CASE Finish
    BY <1>4 DEF Finish, FlowInv
  <1>5. CASE UNCHANGED flowVars
    BY <1>5 DEF flowVars, FlowInv
  <1> QED BY <1>1, <1>2, <1>3, <1>4, <1>5 DEF FlowNext

\* The invariant of a flow.
THEOREM FlowInvariant == FlowSpec => []FlowInv
  <1> QED BY InitFlow, NextFlow, PTL DEF FlowSpec

\* What a run takes out of the steps are arguments of decontaminations it went
\* through: only a later one misses them.
ArgumentInv ==
    /\ runs \in Nat
    /\ popped \subseteq {n \in 1..Len(steps) : steps[n] = "decontaminate"}
    /\ runs = 0 => popped = {} /\ phase = "built"
    /\ runs = 1 => popped \subseteq 1..Len(funnel)
    /\ phase = "raised" => runs > 1 /\ steps[At] = "decontaminate"
    /\ phase = "done" => Len(funnel) = Len(steps)
    /\ phase = "running" => Len(funnel) <= Len(steps)

LEMMA InitArguments == FlowInit => ArgumentInv
  BY DEF FlowInit, ArgumentInv

\* An operator takes at most its own argument.
LEMMA StepArguments == ASSUME FlowInv, ArgumentInv, Step PROVE ArgumentInv'
  <1> DEFINE k == Len(funnel)
             top == Len(steps)
  <1>1. k \in Nat /\ top \in Nat /\ At = k + 1 /\ At <= top
    BY DEF FlowInv, Step, At
  <1>2. /\ phase = "running" /\ phase' = "running" /\ runs' = runs /\ steps' = steps
        /\ popped' = popped \cup LosesArgument
    BY DEF Step
  <1>3. Len(funnel') = k + 1
    BY DEF FlowInv, Step
  <1>4. LosesArgument \subseteq {n \in 1..top : steps[n] = "decontaminate"} /\ LosesArgument \subseteq 1..(k + 1)
    BY <1>1 DEF LosesArgument
  <1>5. popped' \subseteq {n \in 1..top : steps[n] = "decontaminate"}
    BY <1>2, <1>4 DEF ArgumentInv
  <1>6. runs = 1 => popped' \subseteq 1..(k + 1)
    <2>1. runs = 1 => popped \subseteq 1..k
      BY DEF ArgumentInv
    <2>2. 1..k \subseteq 1..(k + 1)
      BY <1>1
    <2> QED BY <1>2, <1>4, <2>1, <2>2
  <1>7. runs # 0
    BY <1>2 DEF ArgumentInv
  <1> HIDE DEF top
  <1>8. k + 1 <= top
    BY <1>1
  <1> HIDE DEF k
  <1> QED BY <1>2, <1>3, <1>5, <1>6, <1>7, <1>8 DEF ArgumentInv, top

LEMMA NextArguments == FlowInv /\ ArgumentInv /\ [FlowNext]_flowVars => ArgumentInv'
  <1> SUFFICES ASSUME FlowInv, ArgumentInv, [FlowNext]_flowVars PROVE ArgumentInv'
    OBVIOUS
  <1>0. Len(funnel) \in Nat /\ Len(steps) \in Nat /\ At = Len(funnel) + 1
    BY DEF FlowInv, At
  <1>1. CASE Run
    <2>1. /\ phase' = "running" /\ funnel' = <<>> /\ runs' = runs + 1 /\ steps' = steps /\ popped' = popped
          /\ runs \in Nat
      BY <1>1 DEF Run, ArgumentInv
    <2>2. runs' = 1 => popped' = {}
      BY <2>1 DEF ArgumentInv
    <2>3. Len(funnel') = 0
      BY <2>1
    <2> QED BY <1>0, <2>1, <2>2, <2>3 DEF ArgumentInv
  <1>2. CASE Step
    BY <1>2, StepArguments
  <1>3. CASE Raise
    <2>1. At \in popped /\ phase' = "raised" /\ phase = "running"
          /\ funnel' = funnel /\ runs' = runs /\ steps' = steps /\ popped' = popped
      BY <1>3 DEF Raise
    <2>2. runs \in Nat /\ runs # 0 /\ runs # 1
      <3>1. At \notin 1..Len(funnel)
        BY <1>0
      <3> QED BY <2>1, <3>1 DEF ArgumentInv
    <2>3. steps[At] = "decontaminate"
      BY <2>1 DEF ArgumentInv
    <2>4. At' = At
      BY <2>1 DEF At
    <2> QED BY <2>1, <2>2, <2>3, <2>4 DEF ArgumentInv
  <1>4. CASE Finish
    BY <1>0, <1>4 DEF Finish, ArgumentInv
  <1>5. CASE UNCHANGED flowVars
    BY <1>5 DEF flowVars, ArgumentInv, At
  <1> QED BY <1>1, <1>2, <1>3, <1>4, <1>5 DEF FlowNext

\* The funnel of a flow starts from the corpus and each operator receives what
\* the one before it left; sample_dropped finds as many rows as an operator
\* that drops rows counts as dropped, of every text as many as it lost; a run
\* goes through every operator, or is a later one that raises at a
\* decontamination.
THEOREM FunnelAlwaysAddsUp == FlowSpec => []FunnelAddsUp
  <1>1. FlowInv /\ ArgumentInv => FunnelAddsUp
    <2> SUFFICES ASSUME FlowInv, ArgumentInv PROVE FunnelAddsUp
      OBVIOUS
    <2>1. ASSUME NEW op \in Droppers PROVE SampleIsRight(Applied(op, tbl))
      <3>1. PICK keep : Applied(op, tbl) = Take(tbl, keep)
        BY DropperTakes
      <3>2. tbl \in Seq(Document)
        BY DEF FlowInv
      <3>3. SampleIsRight(Take(tbl, keep))
        <4> HIDE DEF Document
        <4> QED BY <3>2, DroppedCount DEF SampleIsRight
      <3> QED BY <3>1, <3>3, Zenon
    <2>2. /\ phase = "done" => Len(funnel) = Len(steps)
          /\ phase = "raised" => runs > 1 /\ steps[At] = "decontaminate"
      BY DEF ArgumentInv
    <2> QED BY <2>1, <2>2 DEF FunnelAddsUp, FlowInv
  <1>2. FlowSpec => []ArgumentInv
    BY InitArguments, NextArguments, FlowInvariant, PTL DEF FlowSpec
  <1> QED BY <1>1, <1>2, FlowInvariant, PTL

-----------------------------------------------------------------------------
(* Semantic deduplication. *)
\* The survivors before a row that are near to it, and the row it follows.
NearTo(t, r, i) ==
    {j \in 1..i - 1 : r[j] = j /\ t[j].emb # NULL /\ Angle(t[j].emb, t[i].emb) <= MaxAngle}
Rep(t, r, i) == IF t[i].emb = NULL \/ NearTo(t, r, i) = {} THEN i ELSE Nearest(t, i, NearTo(t, r, i))

\* The representatives are given row by row.
LEMMA RepsLoop ==
    ASSUME NEW t, NEW n \in Nat, Rows(t) = 1..n
    PROVE  /\ SemanticReps(t) = [i \in 1..n |-> SemanticReps(t)[i]]
           /\ \A i \in 1..n : SemanticReps(t)[i] = Rep(t, SemanticReps(t), i)
  <1> DEFINE P(f, l) == f = [i \in 1..l |-> Rep(t, f, i)]
             T == {l \in Nat : \E f : P(f, l)}
             g == CHOOSE f : P(f, n)
  <1>1. SemanticReps(t) = g
    BY DEF SemanticReps, Rep, NearTo
  <1>2. 0 \in T
    <2> DEFINE f == [i \in 1..0 |-> 0]
    <2>1. P(f, 0)
      OBVIOUS
    <2> QED BY <2>1
  <1>3. ASSUME NEW l \in Nat, l \in T PROVE l + 1 \in T
    <2>1. PICK k : k = [i \in 1..l |-> Rep(t, k, i)]
      BY <1>3
    <2> DEFINE f == [i \in 1..(l + 1) |-> IF i = l + 1 THEN Rep(t, k, l + 1) ELSE k[i]]
    <2>2. /\ f[l + 1] = Rep(t, k, l + 1) /\ (\A i \in 1..l : f[i] = k[i])
          /\ f = [i \in 1..(l + 1) |-> f[i]]
      OBVIOUS
    <2>3. \A i \in 1..l : k[i] = Rep(t, k, i)
      BY <2>1
    <2> HIDE DEF f
    <2>4. \A i \in 1..(l + 1) : Rep(t, f, i) = Rep(t, k, i)
      <3> TAKE i \in 1..(l + 1)
      <3>1. \A j \in 1..i - 1 : f[j] = k[j]
        BY <2>2
      <3>2. NearTo(t, f, i) = NearTo(t, k, i)
        BY <3>1 DEF NearTo
      <3> QED BY <3>2, Zenon DEF Rep
    <2>5. \A i \in 1..(l + 1) : f[i] = Rep(t, f, i)
      <3> TAKE i \in 1..(l + 1)
      <3>1. i \in 1..l \/ i = l + 1
        OBVIOUS
      <3> QED BY <2>2, <2>3, <2>4, <3>1
    <2>6. P(f, l + 1)
      <3>1. [i \in 1..(l + 1) |-> f[i]] = [i \in 1..(l + 1) |-> Rep(t, f, i)]
        BY <2>5, Zenon
      <3> QED BY <2>2, <3>1, Zenon
    <2>7. l + 1 \in Nat
      OBVIOUS
    <2> QED BY <2>6, <2>7, Zenon
  <1> HIDE DEF T
  <1>4. \A l \in Nat : l \in T
    BY <1>2, <1>3, Induction
  <1>5. P(g, n)
    <2>1. \E f : P(f, n)
      BY <1>4 DEF T
    <2> HIDE DEF P
    <2> QED BY <2>1, Zenon
  <1> HIDE DEF g
  <1>6. g = [i \in 1..n |-> g[i]] /\ \A i \in 1..n : g[i] = Rep(t, g, i)
    BY <1>5
  <1> QED BY <1>1, <1>6, Zenon

\* The nearest of some rows is one of them.
LEMMA NearestIsNear ==
    ASSUME NEW t, NEW i, NEW near \in SUBSET Nat, near # {},
           t[i].emb \in Int, \A j \in near : t[j].emb \in Int
    PROVE  Nearest(t, i, near) \in near
  <1> DEFINE angle(j) == Angle(t[j].emb, t[i].emb)
             as == {angle(j) : j \in near}
  <1>1. \A j \in near : angle(j) \in Nat
    BY DEF Angle
  <1>2. PICK a \in as : \A b \in as : a <= b
    <2>1. as \in SUBSET Nat /\ as # {}
      BY <1>1
    <2> HIDE DEF as
    <2> QED BY <2>1, LeastExists
  <1> DEFINE js == {j \in near : angle(j) = a}
  <1>3. PICK j \in js : \A k \in js : j <= k
    <2>1. js \in SUBSET Nat /\ js # {}
      OBVIOUS
    <2> HIDE DEF js
    <2> QED BY <2>1, LeastExists
  <1>4. \A k \in near : angle(j) < angle(k) \/ (angle(j) = angle(k) /\ j <= k)
    <2> SUFFICES ASSUME NEW k \in near PROVE angle(j) < angle(k) \/ (angle(j) = angle(k) /\ j <= k)
      OBVIOUS
    <2>1. angle(j) = a /\ a <= angle(k) /\ a \in Nat /\ angle(k) \in Nat /\ (angle(k) = a => j <= k)
      BY <1>1, <1>2, <1>3
    <2> HIDE DEF angle
    <2> QED BY <2>1
  <1>5. j \in near
    OBVIOUS
  <1> HIDE DEF js, as
  <1> QED BY <1>4, <1>5 DEF Nearest

\* Two rows of a table within the threshold of each other.
NearRows(t, i, j) == t[i].emb # NULL /\ t[j].emb # NULL /\ Angle(t[i].emb, t[j].emb) <= MaxAngle

\* A row that is dropped follows a survivor before it that is near to it, and
\* no two survivors are near to each other.
SoundReps(t, r) ==
    /\ DOMAIN r = 1..Len(t)
    /\ \A i \in 1..Len(t) :
          r[i] # i => r[i] \in 1..(i - 1) /\ r[r[i]] = r[i] /\ NearRows(t, r[i], i)
    /\ \A i, j \in 1..Len(t) : i < j /\ r[i] = i /\ r[j] = j => ~NearRows(t, i, j)

\* The representatives are of that kind.
LEMMA RepsSound == ASSUME NEW t \in Seq(Document) PROVE SoundReps(t, SemanticReps(t))
  <1> DEFINE r == SemanticReps(t)
             n == Len(t)
  <1>1. n \in Nat /\ Rows(t) = 1..n /\ \A i \in 1..n : t[i].emb = NULL \/ t[i].emb \in Int
    <2>1. \A d \in Document : d.emb = NULL \/ d.emb \in Int
      BY DEF Document
    <2> QED BY <2>1, TableTexts
  <1> HIDE DEF n
  <1>2. DOMAIN r = 1..n /\ \A i \in 1..n : r[i] = Rep(t, r, i)
    <2>1. r = [i \in 1..n |-> r[i]] /\ \A i \in 1..n : r[i] = Rep(t, r, i)
      BY <1>1, RepsLoop
    <2> QED BY <2>1
  <1> HIDE DEF r
  <1>3. ASSUME NEW i \in 1..n, t[i].emb # NULL, NearTo(t, r, i) # {}
        PROVE  r[i] \in NearTo(t, r, i)
    <2> DEFINE near == NearTo(t, r, i)
    <2>1. near \in SUBSET Nat /\ \A j \in near : j \in 1..n /\ t[j].emb # NULL
      BY <1>1 DEF NearTo
    <2>2. r[i] = Nearest(t, i, near)
      BY <1>2, <1>3 DEF Rep
    <2>3. t[i].emb \in Int /\ near # {} /\ \A j \in near : t[j].emb \in Int
      BY <1>1, <1>3, <2>1
    <2> HIDE DEF near
    <2> QED BY <2>1, <2>2, <2>3, NearestIsNear DEF near
  <1>4. ASSUME NEW i \in 1..n, r[i] # i
        PROVE  r[i] \in 1..(i - 1) /\ r[r[i]] = r[i] /\ NearRows(t, r[i], i)
    <2>1. t[i].emb # NULL /\ NearTo(t, r, i) # {}
      BY <1>2, <1>4 DEF Rep
    <2>2. r[i] \in NearTo(t, r, i)
      BY <1>3, <2>1
    <2> QED BY <2>1, <2>2 DEF NearTo, NearRows
  <1>5. ASSUME NEW i \in 1..n, NEW j \in 1..n, i < j, r[i] = i, r[j] = j
        PROVE  ~NearRows(t, i, j)
    <2> SUFFICES ASSUME NearRows(t, i, j) PROVE FALSE
      OBVIOUS
    <2>1. i \in NearTo(t, r, j) /\ t[j].emb # NULL
      BY <1>1, <1>5 DEF NearTo, NearRows
    <2>2. r[j] \in NearTo(t, r, j)
      BY <1>3, <2>1
    <2> QED BY <1>1, <1>5, <2>2 DEF NearTo
  <1> QED BY <1>2, <1>4, <1>5 DEF r, n, SoundReps

\* Inside of clusters too, a row is dropped for a survivor before it.
LEMMA ClusteredSound ==
    ASSUME NEW t \in Seq(Document), NEW cluster, NEW i \in 1..Len(t),
           ClusteredReps(t, cluster)[i] # i
    PROVE  LET c == ClusteredReps(t, cluster)
           IN  c[i] \in 1..Len(t) /\ c[c[i]] = c[i] /\ c[i] < i /\ NearRows(t, c[i], i)
  <1> DEFINE n == Len(t)
             c == ClusteredReps(t, cluster)
             M(x) == Members(t, cluster, x)
             E(x) == Take(Counting(n), M(x))
             U(x) == Take(t, M(x))
             R(x) == SemanticReps(U(x))
             L(x) == PlaceAmong(E(x), x)
             e == E(i)
             u == U(i)
             r == R(i)
             l == L(i)
             p == r[l]
             x == e[p]
  <1>1. n \in Nat /\ Rows(t) = 1..n
    BY TableTexts
  <1>2. \A y \in 1..n : c[y] = E(y)[R(y)[L(y)]]
    <2> SUFFICES ASSUME NEW y \in 1..n PROVE c[y] = E(y)[R(y)[L(y)]]
      OBVIOUS
    <2>1. c[y] = ClusteredRep(t, Members(t, cluster, y), y)
      BY <1>1 DEF ClusteredReps
    <2>2. ClusteredRep(t, Members(t, cluster, y), y) = E(y)[R(y)[L(y)]]
      BY Zenon DEF ClusteredRep
    <2> QED BY <2>1, <2>2, Zenon
  <1>3. u \in Seq(Document)
    BY TakeTyped
  <1>4. Selects(n, M(i), t, e, u)
    BY TakeSelects
  <1>5. /\ e \in Seq(Nat) /\ Len(e) = Len(u) /\ DOMAIN e = 1..Len(u) /\ Len(u) \in Nat
        /\ \A m \in 1..Len(u) : e[m] \in 1..n /\ e[m] \in M(i) /\ u[m] = t[e[m]]
        /\ \A k, m \in 1..Len(u) : k < m => e[k] < e[m]
        /\ \A y \in 1..n : y \in M(i) => \E m \in 1..Len(u) : e[m] = y
    <2> HIDE DEF e, u, M
    <2> QED BY <1>3, <1>4 DEF Selects
  <1>6. l \in 1..Len(u) /\ e[l] = i
    <2>1. i \in M(i)
      BY <1>1 DEF Members
    <2>2. \E m \in DOMAIN e : e[m] = i
      BY <1>5, <2>1
    <2>3. l = CHOOSE m \in DOMAIN e : e[m] = i
      BY DEF PlaceAmong
    <2> HIDE DEF e, l
    <2> QED BY <1>5, <2>2, <2>3
  <1>7. c[i] = e[p]
    BY <1>2
  <1>8. p # l
    <2> SUFFICES ASSUME p = l PROVE FALSE
      OBVIOUS
    <2> HIDE DEF p, e, l, c
    <2> QED BY <1>6, <1>7 DEF c
  <1>9. p \in 1..(l - 1) /\ r[p] = p /\ NearRows(u, p, l)
    <2>1. \A k \in 1..Len(u) : r[k] # k => r[k] \in 1..(k - 1) /\ r[r[k]] = r[k] /\ NearRows(u, r[k], k)
      <3>1. SoundReps(u, SemanticReps(u))
        <4> HIDE DEF u
        <4> QED BY <1>3, RepsSound
      <3>2. SoundReps(u, r)
        BY <3>1, Zenon
      <3> HIDE DEF u, r
      <3> QED BY <3>2 DEF SoundReps
    <2> HIDE DEF r, l, u
    <2> QED BY <1>6, <1>8, <2>1
  <1>10. p \in 1..Len(u) /\ x \in 1..n /\ x \in M(i) /\ x < i /\ u[p] = t[x] /\ u[l] = t[i]
    <2> HIDE DEF e, u, l, p, M
    <2>1. p \in 1..Len(u) /\ p < l
      BY <1>5, <1>6, <1>9
    <2> QED BY <1>5, <1>6, <2>1
  <1>11. M(x) = M(i)
    BY <1>10 DEF Members
  <1>12. E(x) = e /\ R(x) = r
    BY <1>11, Zenon
  <1>13. L(x) = p
    <2>1. L(x) = CHOOSE m \in DOMAIN e : e[m] = x
      BY <1>12, Zenon DEF PlaceAmong
    <2>2. \A m \in DOMAIN e : e[m] = e[p] => m = p
      <3> HIDE DEF e, u, p, M
      <3> SUFFICES ASSUME NEW m \in DOMAIN e, e[m] = e[p] PROVE m = p
        OBVIOUS
      <3>1. m \in 1..Len(u) /\ p \in 1..Len(u) /\ e[m] \in Nat /\ e[p] \in Nat
        BY <1>5, <1>10
      <3>2. ~(m < p) /\ ~(p < m)
        BY <1>5, <3>1
      <3> QED BY <3>1, <3>2
    <2>3. p \in DOMAIN e
      BY <1>5, <1>10
    <2> HIDE DEF L, e, p
    <2> QED BY <2>1, <2>2, <2>3
  <1>14. c[x] = x
    <2>1. c[x] = E(x)[R(x)[L(x)]]
      BY <1>2, <1>10
    <2> HIDE DEF E, R, L, e, r, p
    <2>2. c[x] = e[r[p]]
      BY <1>12, <1>13, <2>1
    <2> QED BY <1>9, <2>2
  <1>15. NearRows(t, x, i)
    <2> HIDE DEF u, p, l, x
    <2> QED BY <1>9, <1>10 DEF NearRows
  <1>16. c[i] = x
    BY <1>7
  <1> HIDE DEF x, c
  <1> QED BY <1>10, <1>14, <1>15, <1>16 DEF c

\* Semantic deduplication keeps no two rows within the threshold of each other
\* and drops a row only for an earlier survivor within it: no chains. Inside of
\* clusters, whatever they are, the second half holds.
THEOREM SurvivorsAlwaysApart == FlowSpec => []SurvivorsApart
  <1>1. FlowInv => SurvivorsApart
    <2> SUFFICES ASSUME FlowInv PROVE SurvivorsApart
      OBVIOUS
    <2> DEFINE r == SemanticReps(tbl)
               n == Len(tbl)
    <2>1. tbl \in Seq(Document) /\ n \in Nat /\ Rows(tbl) = 1..n
      <3>1. tbl \in Seq(Document)
        BY DEF FlowInv
      <3> QED BY <3>1, TableTexts
    <2>2. /\ DOMAIN r = 1..n
          /\ \A i \in 1..n : r[i] # i => r[i] \in 1..(i - 1) /\ r[r[i]] = r[i] /\ NearRows(tbl, r[i], i)
          /\ \A i, j \in 1..n : i < j /\ r[i] = i /\ r[j] = j => ~NearRows(tbl, i, j)
      <3>1. SoundReps(tbl, SemanticReps(tbl))
        BY <2>1, RepsSound
      <3>2. SoundReps(tbl, r)
        BY <3>1, Zenon
      <3> HIDE DEF r
      <3> QED BY <3>2 DEF SoundReps
    <2>3. \A i, j : NearRows(tbl, i, j) <=> Near(i, j)
      BY DEF NearRows, Near
    <2> HIDE DEF r, n
    <2>4. DropsForSurvivor(r)
      <3>1. \A i \in 1..n : r[i] \in 1..(i - 1) => r[i] < i
        BY <2>1
      <3> QED BY <2>1, <2>2, <2>3, <3>1 DEF DropsForSurvivor
    <2>5. \A e \in Pairs(Kept(r)) : ~Near(e[1], e[2])
      <3> SUFFICES ASSUME NEW e \in Pairs(Kept(r)) PROVE ~Near(e[1], e[2])
        OBVIOUS
      <3>1. e[1] \in Kept(r) /\ e[2] \in Kept(r) /\ e[1] < e[2]
        BY DEF Pairs
      <3>2. e[1] \in 1..n /\ e[2] \in 1..n /\ r[e[1]] = e[1] /\ r[e[2]] = e[2]
        BY <2>2, <3>1 DEF Kept
      <3> QED BY <2>2, <2>3, <3>1, <3>2
    <2>6. ASSUME NEW cluster \in [Rows(tbl) -> {1, 2}]
          PROVE  DropsForSurvivor(ClusteredReps(tbl, cluster))
      <3> DEFINE c == ClusteredReps(tbl, cluster)
      <3>1. \A i \in 1..n : c[i] # i => c[c[i]] = c[i] /\ c[i] < i /\ NearRows(tbl, c[i], i)
        BY <2>1, ClusteredSound DEF n
      <3> HIDE DEF c
      <3>2. DropsForSurvivor(c)
        BY <2>1, <2>3, <3>1 DEF DropsForSurvivor
      <3> QED BY <3>2 DEF c
    <2> QED BY <2>4, <2>5, <2>6, Zenon DEF SurvivorsApart, r
  <1> QED BY <1>1, FlowInvariant, PTL
=============================================================================
