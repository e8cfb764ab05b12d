---------------------------- MODULE MCTlsBuffer ----------------------------
(* Model-checking instance of TlsBuffer.                                   *)
EXTENDS TlsBuffer, TLC

Symmetry == Permutations(Thread) \cup Permutations(Buf) \cup Permutations(Frame)
=============================================================================
