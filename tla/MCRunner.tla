------------------------------ MODULE MCRunner ------------------------------
(***************************************************************************)
(* Two operations on a pool of two actors, three partitions (so that the   *)
(* first actor gets two tasks, and a window of two is exceeded), one retry, *)
(* an actor that comes back once, and crashes enough to kill an actor and  *)
(* fail one more attempt.                                                  *)
(***************************************************************************)
EXTENDS RayRunner

RetriedAndWrites == {"collect"} \cup Writes
=============================================================================
