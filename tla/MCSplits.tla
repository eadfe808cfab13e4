------------------------------ MODULE MCSplits ------------------------------
(***************************************************************************)
(* Two sources that are packed and one that is broadcast, up to two        *)
(* splits each in batches of up to two, of sizes such that a partition is  *)
(* full by its bytes or by its count, and one split is larger than any     *)
(* target. The target grows up to its cap.                                 *)
(***************************************************************************)
EXTENDS SplitAssigner

MCSources == {"scan", "other", "dim"}
MCReplicated == {"dim"}
MCStrategies == {"single", "hash", "arbitrary"}
=============================================================================
