----------------------------- MODULE MCObserve ------------------------------
(***************************************************************************)
(* Two threads, three context managers in all, a registry of two records.  *)
(* The pollers share no state with the queries: behaviours start one or    *)
(* the other (Together = FALSE).                                           *)
(***************************************************************************)
EXTENDS Observe
=============================================================================
