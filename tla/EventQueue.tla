----------------------------- MODULE EventQueue -----------------------------
(***************************************************************************)
(* What a queue of events promises its consumers, without its buffers:     *)
(* events are numbered as they occur, every one is taken at most once, and *)
(* a consumer that is alone takes them in the order of their numbers.      *)
(* Inotify#take implements it: see module Inotify.                         *)
(***************************************************************************)
EXTENDS Naturals, Sequences

VARIABLES
    pending,  \* the numbers of the events that nobody has taken
    taken,    \* the numbers of the events taken, in that order
    last,     \* the number of the last event
    alone     \* whether there is one consumer

vars == <<pending, taken, last, alone>>

Init == pending = {} /\ taken = <<>> /\ last = 0 /\ alone \in BOOLEAN

Occur ==
    /\ last' = last + 1
    /\ pending' = pending \cup {last + 1}
    /\ UNCHANGED <<taken, alone>>

Take(i) ==
    /\ i \in pending
    /\ alone => \A j \in pending : i <= j
    /\ pending' = pending \ {i}
    /\ taken' = Append(taken, i)
    /\ UNCHANGED <<last, alone>>

\* A consumer that is interrupted drops what it has in its hands.
Drop(S) ==
    /\ S # {}
    /\ pending' = pending \ S
    /\ UNCHANGED <<taken, last, alone>>

Next ==
    \/ Occur
    \/ \E i \in pending : Take(i)
    \/ \E S \in SUBSET pending : Drop(S)

Spec == Init /\ [][Next]_vars
=============================================================================
