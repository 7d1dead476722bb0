------------------------------- MODULE MCFfsEp0 -------------------------------
(* FfsEp0 on small instances.                                              *)
EXTENDS FfsEp0, TLC

Symmetry == Permutations(Threads)
==============================================================================
