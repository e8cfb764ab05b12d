----------------------------- MODULE Allocator -----------------------------
(***************************************************************************)
(* What an allocator of buffers promises its clients: a client gets a      *)
(* buffer that no other client holds, with room for what it asked for, and *)
(* it and its room stay the client's until the client lets go of it.  The  *)
(* per-thread buffer of the extension implements it (module TlsBuffer).    *)
(***************************************************************************)
EXTENDS Naturals

CONSTANTS Client, Buffer, Size, None

VARIABLES
    holds,  \* the buffer each client holds, None if it holds none
    room    \* the bytes it may use of it

vars == <<holds, room>>

Init == holds = [c \in Client |-> None] /\ room = [c \in Client |-> 0]

Acquire(c, b, size) ==
    /\ holds[c] = None /\ \A d \in Client : holds[d] # b
    /\ holds' = [holds EXCEPT ![c] = b]
    /\ \E capa \in Size : capa >= size /\ room' = [room EXCEPT ![c] = capa]

Release(c) ==
    /\ holds[c] # None
    /\ holds' = [holds EXCEPT ![c] = None]
    /\ room' = [room EXCEPT ![c] = 0]

Next ==
    \E c \in Client :
        Release(c) \/ \E b \in Buffer, size \in Size : Acquire(c, b, size)

Spec == Init /\ [][Next]_vars
=============================================================================
