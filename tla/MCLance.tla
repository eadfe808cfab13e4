------------------------------ MODULE MCLance ------------------------------
(***************************************************************************)
(* A dataset of at most two rows with two vector columns, the driver and    *)
(* an actor.                                                                *)
(***************************************************************************)
EXTENDS LanceStore

CONSTANTS a1, r1, r2, vec, img
MCActors == {a1}
MCRows == {r1, r2}
MCColumns == {vec, img}
=============================================================================
