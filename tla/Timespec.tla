------------------------------ MODULE Timespec ------------------------------
(***************************************************************************)
(* Times in seconds as struct timespec (ext/sleepy_penguin/value2timespec.h)*)
(*                                                                         *)
(* A Ruby number of seconds is an integer number of grains, a fraction of  *)
(* a nanosecond, so that the rounding to nanoseconds is visible; NSEC      *)
(* stands for 10^9.                                                        *)
(***************************************************************************)
EXTENDS Integers

CONSTANTS
    NSEC,   \* nanoseconds in a second
    Grains  \* grains in a nanosecond

ASSUME TimespecOK == NSEC \in Nat \ {0} /\ Grains \in Nat \ {0}

Timespec == [sec : Int, nsec : Int]

\* Mutant: the nanoseconds are cut off.
RoundDown(d) == d \div Grains

\* (long)(d * 1e9 + 0.5) for a fraction d >= 0.
Round(d) == (2 * d + Grains) \div (2 * Grains)

\* modf splits towards zero.  A positive fraction that rounds to a whole second
\* is not carried; a negative one is taken from the second before.
value2timespec(num) ==
    LET unit == NSEC * Grains
        size == IF num >= 0 THEN num ELSE -num
        f == IF num >= 0 THEN size \div unit ELSE -(size \div unit)
        nsec == Round(size % unit)
    IN  IF num >= 0 THEN [sec |-> f, nsec |-> nsec]
        ELSE IF nsec > 0 THEN [sec |-> f - 1, nsec |-> NSEC - nsec]
        ELSE [sec |-> f, nsec |-> 0]

\* The kernel's check of a timespec (external).
ValidTimespec(ts) == ts.sec >= 0 /\ ts.nsec \in 0 .. NSEC - 1

ZeroTimespec == [sec |-> 0, nsec |-> 0]

\* A timespec is a time to the nearest nanosecond.
Near(ts, num) ==
    LET diff == (ts.sec * NSEC + ts.nsec) * Grains - num
    IN  2 * diff <= Grains /\ -2 * diff <= Grains
=============================================================================
