------------------------------- MODULE DistCC -------------------------------
(***************************************************************************)
(* Distributed connected components (python/jude/dist_cc.py): labels are   *)
(* spread over shard actors by rid modulo their number, edges arrive at    *)
(* shards in no particular way, and labels propagate along edges in rounds  *)
(* the driver paces:                                                       *)
(*   gather   each shard's needed labels are read from their owners        *)
(*   compute  each shard proposes, along its edges, the smaller label      *)
(*   apply    each owner takes the least proposal for each of its labels   *)
(* until a round changes nothing or max_rounds are done.                   *)
(*                                                                         *)
(* The actors of one phase run side by side: each is a step of its own.    *)
(* The driver waits for all of them between phases.                        *)
(***************************************************************************)
EXTENDS Components

CONSTANTS NumShards,    \* num_workers
          MaxRounds,    \* max_rounds
          EdgeSets      \* what the shards may be given: functions from shards

Shards == 0..(NumShards - 1)

ASSUME CCAssumption ==
    /\ Vertices \subseteq Nat
    /\ NumShards \in Nat \ {0}
    /\ MaxRounds \in Nat \ {0}
    /\ EdgeSets \subseteq [Shards -> SUBSET (Vertices \X Vertices)]

VARIABLES
    edges,      \* edges[s]: the edges of shard s
    label,      \* the labels of all shards, the rid itself where none is kept
    snapshot,   \* snapshot[s]: the labels gathered for shard s
    messages,   \* messages[s]: the proposals shard s computed
    pc,         \* phase of the round
    left,       \* the shards that still have to take part in the phase
    changed,    \* some label changed in this round
    round,      \* rounds completed
    result      \* the dict returned, as a set of pairs

vars == <<edges, label, snapshot, messages, pc, left, changed, round, result>>

AllEdges == UNION {edges[s] : s \in Shards}

\* Shard s keeps the labels of the rids it owns.
Owner(r) == r % NumShards

MinOf(a, b) == IF a < b THEN a ELSE b

Init ==
    /\ edges \in EdgeSets
    /\ label = [r \in Vertices |-> r]
    /\ snapshot = [s \in Shards |-> [r \in {} |-> 0]]
    /\ messages = [s \in Shards |-> {}]
    /\ pc = "gather"
    /\ left = Shards
    /\ changed = FALSE
    /\ round = 0
    /\ result = {}

\* Plausible defects of the definitions below, for mutation runs.
SmallerEndpoint(snap, e) == MinOf(e[1], e[2])
FirstEndpoint(e) == {e[1]}
ForAnyOfTheShard(r) ==
    {m \in Vertices : \E s \in Shards, q \in Vertices :
        Owner(q) = Owner(r) /\ <<q, m>> \in messages[s]}
SilentWithoutEdges(s) == left' = IF edges[s] = {} THEN left ELSE left \ {s}

\* What an edge proposes to its endpoints, by the labels its shard gathered.
Proposal(snap, e) == MinOf(snap[e[1]], snap[e[2]])

Receivers(e) == {e[1], e[2]}

\* apply takes a proposal that lowers the label.
Lowers(r, m) == m < label[r]

\* A full round changed no label.
RoundChangedNothing == ~changed

OutOfRounds == round + 1 >= MaxRounds

\* The driver has shard s's answer in this phase.
Answered(s) == left' = left \ {s}

\* referenced_rids and labels_for: the labels of the endpoints of the shard's
\* edges, from all owners.
Gather(s) ==
    /\ pc = "gather"
    /\ s \in left
    /\ snapshot' = [snapshot EXCEPT ![s] =
                       [r \in Endpoints(edges[s]) |-> label[r]]]
    /\ Answered(s)
    /\ UNCHANGED <<edges, label, messages, pc, changed, round, result>>

\* compute_messages.
Compute(s) ==
    /\ pc = "compute"
    /\ s \in left
    /\ messages' = [messages EXCEPT ![s] =
          UNION {{<<r, Proposal(snapshot[s], e)>> : r \in Receivers(e)} :
                    e \in edges[s]}]
    /\ Answered(s)
    /\ UNCHANGED <<edges, label, snapshot, pc, changed, round, result>>

\* The proposals that concern rid r, from all shards.
ProposalsFor(r) ==
    {m \in Vertices : \E s \in Shards : <<r, m>> \in messages[s]}

\* apply: one after another, so the least proposal wins.
Apply(s) ==
    /\ pc = "apply"
    /\ s \in left
    /\ LET lowered == {r \in Vertices : Owner(r) = s
                          /\ \E m \in ProposalsFor(r) : Lowers(r, m)}
       IN  /\ label' = [r \in Vertices |->
                 IF r \in lowered
                 THEN CHOOSE m \in ProposalsFor(r) :
                          \A n \in ProposalsFor(r) : m <= n
                 ELSE label[r]]
           /\ changed' = (changed \/ lowered # {})
    /\ Answered(s)
    /\ UNCHANGED <<edges, snapshot, messages, pc, round, result>>

\* The driver goes on when all shards of a phase have answered.
NextPhase ==
    /\ left = {}
    /\ \/ pc = "gather" /\ pc' = "compute"
       \/ pc = "compute" /\ pc' = "apply"
    /\ left' = Shards
    /\ UNCHANGED <<edges, label, snapshot, messages, changed, round, result>>

\* The round ends: another one begins, or the loop is left.
EndRound ==
    /\ pc = "apply"
    /\ left = {}
    /\ round' = round + 1
    /\ IF RoundChangedNothing \/ OutOfRounds
       THEN pc' = "collect" /\ UNCHANGED changed
       ELSE pc' = "gather" /\ changed' = FALSE
    /\ left' = Shards
    /\ UNCHANGED <<edges, label, snapshot, messages, result>>

\* label_map of all shards: only labels that were ever lowered are kept.
Collect ==
    /\ pc = "collect"
    /\ result' = {<<r, label[r]>> : r \in {v \in Vertices : label[v] # v}}
    /\ pc' = "done"
    /\ UNCHANGED <<edges, label, snapshot, messages, left, changed, round>>

Driver == NextPhase \/ EndRound \/ Collect

Next ==
    \/ Driver
    \/ \E s \in Shards : Gather(s) \/ Compute(s) \/ Apply(s)

Spec == Init /\ [][Next]_vars

\* The driver is scheduled and every actor answers.
FairSpec == Spec /\ WF_vars(Next)
------------------------------------------------------------------------------
Labels == [Vertices -> Vertices]

TypeOK ==
    /\ edges \in [Shards -> SUBSET (Vertices \X Vertices)]
    /\ label \in Labels
    /\ snapshot \in [Shards -> UNION {[V -> Vertices] : V \in SUBSET Vertices}]
    /\ messages \in [Shards -> SUBSET (Vertices \X Vertices)]
    /\ pc \in {"gather", "compute", "apply", "collect", "done"}
    /\ left \subseteq Shards
    /\ changed \in BOOLEAN
    /\ round \in 0..MaxRounds
    /\ result \subseteq Vertices \X Vertices

Ended == pc \in {"collect", "done"}

\* Labels travel one edge a round and are never invented: whatever the order in
\* which the shards act, every label names a vertex of the same component that
\* is no larger.
LabelsSound ==
    \A v \in Vertices : label[v] \in Component(v, AllEdges) /\ label[v] <= v

\* "converging to each vertex's component-minimum id" (dist_cc.py): when the
\* loop ends because a round changed nothing, every label is the least vertex
\* of its component.
ConvergedIsComponentMin ==
    Ended /\ ~changed
        => \A v \in Vertices : IsLeast(label[v], Component(v, AllEdges))

\* The vertices within k edges of v.
Within[k \in Nat] ==
    IF k = 0 THEN [v \in Vertices |-> {v}]
    ELSE [v \in Vertices |->
            Within[k - 1][v] \cup
            UNION {Within[k - 1][u] : u \in
                {w \in Vertices : <<v, w>> \in AllEdges \/ <<w, v>> \in AllEdges}}]

\* What the rounds are worth, also when max_rounds cuts the loop short: after k
\* rounds a label is the least vertex within k edges, and max_rounds cuts no
\* computation short whose components have their least vertex within
\* max_rounds - 1 edges of every other.
RoundsSuffice ==
    /\ pc = "gather" \/ Ended
          => \A v \in Vertices : IsLeast(label[v], Within[round][v])
    /\ Ended /\ (\A v \in Vertices :
                    \E m \in Within[MaxRounds - 1][v] :
                        IsLeast(m, Component(v, AllEdges)))
          => ~changed

\* The computation ends and returns.
Terminates == <>(pc = "done")

\* "Returns {rid: component_min_rid} for every rid that appears in an edge"
\* (connected_components). No run checks it: the code leaves out the least rid of
\* every component.
ResultCoversEdges ==
    pc = "done" => \A r \in Endpoints(AllEdges) : \E m \in Vertices : <<r, m>> \in result
=============================================================================
