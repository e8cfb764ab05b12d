----------------------------- MODULE MCEventFD -----------------------------
(* Model-checking instance of EventFD.  Liveness is checked, so there is no *)
(* symmetry reduction.                                                      *)
EXTENDS EventFD, TLC

\* Every type of argument; the Integer is EFD_NONBLOCK | EFD_SEMAPHORE, which
\* TimerFD.new refuses.
MCNewFlags ==
    {NilArg, SymArg("NONBLOCK"), AryArg(<<"NONBLOCK", "CLOEXEC">>),
     AryArg(<<"SEMAPHORE">>), IntArg({0, 11}), IntArg({31}), SymArg("move"), OtherArg}

\* With 2 nanoseconds of 4 grains in a second: stopped; half a second, once;
\* one second, then every half; a time that rounds to zero; one that rounds to
\* a whole second, and a negative one, which the kernel refuses.
MCSetting ==
    {[interval |-> i, value |-> v] : i \in {0, 5}, v \in {-3, 0, 1, 3, 7, 8}}
=============================================================================
