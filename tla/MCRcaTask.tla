------------------------------ MODULE MCRcaTask ------------------------------
(***************************************************************************)
(* Instances of RcaTask for TLC.  Neither the tasks nor the threads are    *)
(* distinguished by anything, so the safety runs use them symmetrically.   *)
(***************************************************************************)
EXTENDS RcaTask, TLC

CONSTANTS t1, w1, w2   \* a task and threads

Symmetry == Permutations(Tasks) \cup Permutations(Threads)
=============================================================================
