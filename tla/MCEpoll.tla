------------------------------ MODULE MCEpoll ------------------------------
(* Model-checking instance of Epoll: the constants are interchangeable.    *)
EXTENDS Epoll, TLC

Symmetry ==
    Permutations(Thread) \cup Permutations(Obj) \cup Permutations(Fd)
        \cup Permutations(File)
=============================================================================
