--------------------------- MODULE ResourceManager ---------------------------
(***************************************************************************)
(* The decisions of jude's resource admission control (src/dist/resource.rs)*)
(* A manager is the record behind the Mutex of the Rust pyclass: its       *)
(* capacity, what live leases use of it, and the count of live leases.     *)
(* Every method of the class is one operator, since each holds the lock    *)
(* from its first read to its last write.                                  *)
(*                                                                         *)
(* Amounts are natural numbers of a unit so small that every f64 is a      *)
(* whole number of it: what the code reserves, compares and divides is      *)
(* exact here, where its sums and quotients round.  cpu and gpu are          *)
(* compared with a slack (1e-9), bytes without one; the quotient of         *)
(* admit_count knows no slack.                                              *)
(***************************************************************************)
EXTENDS Integers, FiniteSets

CONSTANTS
    Dims,       \* resource dimensions: cpu, gpu, memory, object store
    Slack       \* by how much a demand may miss what is available, per dimension

\* What admit_count returns when nothing bounds the number of tasks
\* (usize::MAX); every other answer is a natural number.
Unlimited == -1

Vectors == [Dims -> Nat]

ASSUME SlackAssumption == Slack \in Vectors

Managers == [capacity : Vectors, used : Vectors,
             maxInflight : Nat, inflight : Nat]

\* new: a capacity of 0 leaves a dimension unconstrained (the code stores an
\* infinite capacity there), a maxInflight of 0 means no cap on the count.
NewManager(capacity, maxInflight) ==
    [capacity |-> capacity, used |-> [d \in Dims |-> 0],
     maxInflight |-> maxInflight, inflight |-> 0]

Constrained(m, d) == m.capacity[d] > 0

AtLeastZero(n) == IF n < 0 THEN 0 ELSE n

\* Inner::available. Forced reservations take used past capacity, hence the
\* clamp.
Available(m, d) == AtLeastZero(m.capacity[d] - m.used[d])

FitsWithin(m, demand) ==
    \A d \in Dims : Constrained(m, d) => demand[d] <= Available(m, d) + Slack[d]

\* A defect for mutation runs: the cap lets one task too many in.
AtInflightCap(m) == m.maxInflight > 0 => m.inflight <= m.maxInflight

BelowInflightCap(m) == m.maxInflight > 0 => m.inflight < m.maxInflight

\* The condition under which try_reserve answers True.
CanReserve(m, demand) == BelowInflightCap(m) /\ FitsWithin(m, demand)

\* The state after a granted try_reserve, and after any reserve.
Reserved(m, demand) ==
    [m EXCEPT !.used = [d \in Dims |-> @[d] + demand[d]],
              !.inflight = @ + 1]

\* A defect for mutation runs: a release that forgets the count.
ReleasedKeepingCount(m, demand) ==
    [m EXCEPT !.used = [d \in Dims |-> AtLeastZero(@[d] - demand[d])]]

\* release: one lease goes back; amounts and count are clamped at zero.
Released(m, demand) ==
    [m EXCEPT !.used = [d \in Dims |-> AtLeastZero(@[d] - demand[d])],
              !.inflight = AtLeastZero(@ - 1)]

\* A defect for mutation runs: a wave sized as if nothing were leased.
BoundsOfFullCapacity(m, demand) ==
    {m.capacity[d] \div demand[d] :
        d \in {x \in Dims : demand[x] > 0 /\ Constrained(m, x)}}

\* The bounds on how many more tasks of this demand fit: one for each
\* constrained dimension the demand is positive in, one for the count.
AdmitBounds(m, demand) ==
    {Available(m, d) \div demand[d] :
        d \in {x \in Dims : demand[x] > 0 /\ Constrained(m, x)}}
    \cup IF m.maxInflight > 0 THEN {AtLeastZero(m.maxInflight - m.inflight)}
                              ELSE {}

AdmitCount(m, demand) ==
    LET bounds == AdmitBounds(m, demand)
    IN  IF bounds = {} THEN Unlimited
        ELSE CHOOSE n \in bounds : \A b \in bounds : n <= b
=============================================================================
