------------------------------- MODULE MCOMAuth -------------------------------
(***************************************************************************)
(* Instances of OMAuth for TLC.                                            *)
(***************************************************************************)
EXTENDS OMAuth, TLC

CONSTANTS w1, w2, w3

Symmetry == Permutations(Threads)
=============================================================================
