----------------------------- MODULE MCAdmission -----------------------------
(***************************************************************************)
(* Two calls of three tasks each on one runner: enough for a call to find  *)
(* the capacity held by the other, to force a reservation, and to abandon  *)
(* leases the other then runs against.                                     *)
(***************************************************************************)
EXTENDS AdmissionDispatch

CONSTANTS c1, c2

MCCalls == {c1, c2}
MCDims == {"gpu", "memory"}

Vector(g, m) == [d \in MCDims |-> IF d = "gpu" THEN g ELSE m]

\* Capacity and demand: gpu bounds, memory bounds, nothing bounds; two tasks
\* fit, one fits, none fits.  A gpu capacity of 5 holds two demands of 2, and
\* the slack a third.
MCSlack == Vector(1, 0)
MCCapacities == {Vector(5, 0), Vector(0, 5), Vector(2, 4)}
MCInflightCaps == {0, 2}
MCDemands == {Vector(2, 0), Vector(2, 2), Vector(7, 1)}
=============================================================================
