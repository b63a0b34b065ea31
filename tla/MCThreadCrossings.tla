-------------------------- MODULE MCThreadCrossings --------------------------
(* ThreadCrossings with the bounds of its .cfg files: the number of threads. *)
EXTENDS ThreadCrossings
=============================================================================
