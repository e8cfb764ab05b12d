---------------------------- MODULE MCEpollFork ----------------------------
(* Model-checking instance of EpollFork.                                   *)
EXTENDS EpollFork, TLC

Symmetry ==
    Permutations(Proc \ {Root}) \cup Permutations(Obj \ {First}) \cup Permutations(Fd)
=============================================================================
