--------------------------- MODULE MCWaitTimeout ---------------------------
(* Model-checking instance of WaitTimeout.  Timespecs reach over a second    *)
(* boundary and meet it exactly; a millisecond has ticks on both sides of    *)
(* its middle.                                                               *)
EXTENDS WaitTimeout

MCTimeout == {-1, 0, 1, 2}
MCTimespec ==
    {Nil} \cup {[sec |-> s, nsec |-> n] : s \in 0 .. 1, n \in 0 .. 3}
          \cup {[sec |-> -1, nsec |-> 2]}
=============================================================================
