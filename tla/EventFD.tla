------------------------------ MODULE EventFD ------------------------------
(***************************************************************************)
(* SleepyPenguin::EventFD (ext/sleepy_penguin/eventfd.c) and TimerFD       *)
(* (timerfd.c): threads of one process use one descriptor that is a        *)
(* counter.  #incr and #value write and read an eventfd(2); a timer counts *)
(* its expirations, which #expirations reads and #settime discards.        *)
(*                                                                         *)
(* write(2), read(2) and the wait after EAGAIN run without the GVL; the    *)
(* code between them is one step.  O_NONBLOCK belongs to the descriptor:   *)
(* one nonblocking call changes what every later call meets.               *)
(*                                                                         *)
(* External parts, modelled from the way this code uses them: the counters *)
(* of eventfd(2) and timerfd_create(2), and Ruby's interrupts of a thread  *)
(* in a blocking region.                                                   *)
(***************************************************************************)
EXTENDS Integers, FiniteSets, Functions, Flags, Timespec

CONSTANTS
    Thread,     \* threads that use the object
    MAX,        \* EventFD::MAX (0xfffffffffffffffe)
    Value,      \* arguments of #incr; MAX + 1 is the largest uint64_t
    Start,      \* initial_value
    NewFlags,   \* flags arguments of EventFD.new and TimerFD.new
    Setting,    \* interval and value arguments of #settime, in grains
    MaxSets,    \* bound: calls of #settime
    MaxKills,   \* bound: calls that are killed while the object is open
    Nil         \* nil, "none"

ASSUME ConstantsOK ==
    /\ IsFiniteSet(Thread)
    /\ MAX \in Nat \ {0}
    /\ Value \subseteq 0 .. MAX + 1
    /\ Start \in 0 .. MAX
    /\ \A arg \in NewFlags : arg.type \in ArgType
    /\ Setting \subseteq [interval : Int, value : Int]
    /\ MaxSets \in Nat /\ MaxKills \in Nat
    /\ Nil \notin {"incr", "value", "done", "EAGAIN", "EINTR", "EINVAL"}

VARIABLES
    kind,       \* which of the two classes the object is of
    flags,      \* the flags it was made with
    counter,    \* kernel: the counter, or the expirations not read yet
    nonblock,   \* kernel: O_NONBLOCK of the descriptor
    semaphore,  \* kernel: EFD_SEMAPHORE of the descriptor
    timer,      \* kernel: the timer's interval and, unless it is stopped, the
                \* time to its next expiration
    sets,       \* number of #settime calls so far
    open,       \* whether the object is open
    call,       \* per thread: the call in progress
    want,       \* auxiliary: the last settings that #settime accepted
    kills,      \* number of calls killed while the object was open
    asked,      \* auxiliary: whether a nonblocking call was made
    owed,       \* auxiliary: initial value, plus what returned #incr calls
                \* added or the timer counted, minus what #value and
                \* #expirations returned and #settime discarded
    lost,       \* auxiliary: what calls that were killed, or got an IOError,
                \* had read and never returned
    untold      \* auxiliary: what such calls had added

born == <<kind, flags, semaphore>>
kernelVars == <<born, counter, nonblock, timer>>
books == <<owed, lost, untold>>
vars == <<kernelVars, sets, open, call, want, kills, asked, books>>

Idle == [pc |-> "idle", op |-> Nil, val |-> 0, nb |-> FALSE, res |-> Nil]

\* A new timer's setting.
Stopped == [interval |-> 0, value |-> 0]

TypeOK ==
    /\ kind \in {"eventfd", "timerfd"} /\ flags \in NewFlags
    /\ counter \in 0 .. MAX
    /\ timer \in [interval : Timespec, value : Timespec]
    /\ want \in Setting \cup {Stopped} /\ sets \in 0 .. MaxSets
    /\ nonblock \in BOOLEAN /\ semaphore \in BOOLEAN /\ open \in BOOLEAN
    /\ asked \in BOOLEAN
    /\ call \in [Thread -> [pc  : {"idle", "enter", "asleep", "back", "wait"},
                            op  : {"incr", "value", Nil},
                            val : 0 .. MAX + 1,
                            nb  : BOOLEAN,
                            res : {"done", "EAGAIN", "EINTR", "EINVAL", Nil}]]
    /\ kills \in 0 .. MaxKills
    /\ owed \in Int /\ lost \in Nat /\ untold \in Nat

\* The constants EFD_* and TFD_*, as bits.
Klass(k) ==
    IF k = "eventfd" THEN [CLOEXEC |-> {19}, NONBLOCK |-> {11}, SEMAPHORE |-> {0}]
                     ELSE [CLOEXEC |-> {19}, NONBLOCK |-> {11}]

\* EventFD.new(Start, flags) or TimerFD.new(clockid, flags), without which
\* there is no object.  eventfd(2) and timerfd_create(2) refuse other bits.
Init ==
    /\ kind \in {"eventfd", "timerfd"} /\ flags \in NewFlags
    /\ LET fl == rb_sp_get_flags(Klass(kind), flags, {19}) IN
        /\ ~fl.raises
        /\ fl.bits \subseteq {0, 11, 19} /\ (0 \in fl.bits => kind = "eventfd")
        /\ nonblock = (11 \in fl.bits) /\ semaphore = (0 \in fl.bits)
    /\ counter = IF kind = "eventfd" THEN Start ELSE 0
    /\ timer = [interval |-> ZeroTimespec, value |-> ZeroTimespec]
    /\ want = Stopped /\ sets = 0
    /\ open = TRUE
    /\ call = [t \in Thread |-> Idle]
    /\ asked = FALSE /\ kills = 0
    /\ owed = counter /\ lost = 0 /\ untold = 0

----------------------------------------------------------------------------
(* #incr, #value and #expirations up to their system call.                 *)

\* Mutant: rb_sp_set_nonblock is not called.
BeginBlocking(t, op, val, nb) ==
    /\ call[t].pc = "idle" /\ open
    /\ call' = [call EXCEPT ![t] = [Idle EXCEPT !.pc = "enter", !.op = op,
                                                !.val = val, !.nb = nb]]
    /\ asked' = (asked \/ nb)
    /\ UNCHANGED <<kernelVars, sets, open, want, kills, books>>

\* A nonblocking call sets O_NONBLOCK for good (rb_sp_set_nonblock).
Begin(t, op, val, nb) ==
    /\ call[t].pc = "idle" /\ open
    /\ nonblock' = (nonblock \/ nb)
    /\ call' = [call EXCEPT ![t] = [Idle EXCEPT !.pc = "enter", !.op = op,
                                                !.val = val, !.nb = nb]]
    /\ asked' = (asked \/ nb)
    /\ UNCHANGED <<born, counter, timer, sets, open, want, kills, books>>

----------------------------------------------------------------------------
(* The system calls (external).                                            *)

\* write(2) does not take the counter past its maximum; read(2) wants a
\* counter above zero.
Possible(c) == IF c.op = "incr" THEN counter + c.val <= MAX ELSE counter > 0

\* What read(2) stores in x.val.
Portion == IF semaphore THEN 1 ELSE counter

Running == timer.value # ZeroTimespec

\* Mutant: the counter may go one past its maximum.
TransferOverflows(t) ==
    /\ call[t].val <= MAX
    /\ IF call[t].op = "incr" THEN counter + call[t].val <= MAX + 1 ELSE counter > 0
    /\ counter' = IF call[t].op = "incr" THEN counter + call[t].val ELSE counter - Portion
    /\ call' = [call EXCEPT ![t] =
                   [@ EXCEPT !.pc = "back", !.res = "done",
                             !.val = IF call[t].op = "incr" THEN call[t].val ELSE Portion]]

\* efd_write or efd_read succeeds.
Transfer(t) ==
    /\ call[t].val <= MAX /\ Possible(call[t])
    /\ counter' = IF call[t].op = "incr" THEN counter + call[t].val ELSE counter - Portion
    /\ call' = [call EXCEPT ![t] =
                   [@ EXCEPT !.pc = "back", !.res = "done",
                             !.val = IF call[t].op = "incr" THEN call[t].val ELSE Portion]]

\* It fails at once, or goes to sleep; O_NONBLOCK set later does not wake a
\* sleeper.
Decline(t) ==
    /\ call[t].pc = "enter"
    /\ call[t].val > MAX \/ ~Possible(call[t])
    /\ call' = [call EXCEPT ![t] =
                   IF call[t].val > MAX \/ nonblock
                   THEN [@ EXCEPT !.pc = "back",
                                  !.res = IF call[t].val > MAX THEN "EINVAL" ELSE "EAGAIN"]
                   ELSE [@ EXCEPT !.pc = "asleep"]]
    /\ UNCHANGED counter

Syscall(t) ==
    /\ call[t].pc \in {"enter", "asleep"}
    /\ Transfer(t) \/ Decline(t)
    /\ UNCHANGED <<born, nonblock, timer, sets, open, want, kills, asked, books>>

\* A signal interrupts a sleeper.
Signal(t) ==
    /\ call[t].pc = "asleep"
    /\ call' = [call EXCEPT ![t] = [@ EXCEPT !.pc = "back", !.res = "EINTR"]]
    /\ UNCHANGED <<kernelVars, sets, open, want, kills, asked, books>>

----------------------------------------------------------------------------
(* #incr, #value and #expirations after their system call.                 *)

Leave(t) == call' = [call EXCEPT ![t] = Idle]

\* The books after call c has transferred its value.
Settled(c) == IF c.op = "incr" THEN owed + c.val ELSE owed - c.val

Returns(c) == c.res = "done" \/ (c.res = "EAGAIN" /\ c.nb)

\* Mutant: a nonblocking call that met EAGAIN reports success.
DeliverAlways(t) ==
    /\ Returns(call[t])
    /\ Leave(t)
    /\ owed' = Settled(call[t])

Deliver(t) ==
    /\ Returns(call[t])
    /\ Leave(t)
    /\ owed' = IF call[t].res = "done" THEN Settled(call[t]) ELSE owed

\* rb_sp_wait and goto retry: after EAGAIN it waits, after EINTR it does not,
\* after any other error it gives up and the method raises.
Retry(t) ==
    /\ open /\ ~Returns(call[t])
    /\ call' = [call EXCEPT ![t] =
                   CASE @.res = "EAGAIN" -> [@ EXCEPT !.pc = "wait", !.res = Nil]
                     [] @.res = "EINTR"  -> [@ EXCEPT !.pc = "enter", !.res = Nil]
                     [] @.res = "EINVAL" -> Idle]
    /\ UNCHANGED owed

Back(t) ==
    /\ call[t].pc = "back"
    /\ Deliver(t) \/ Retry(t)
    /\ UNCHANGED <<kernelVars, sets, open, want, kills, asked, lost, untold>>

\* Mutant: #incr waits until the descriptor is readable.
WakeUpReadable(t) ==
    /\ call[t].pc = "wait" /\ open /\ counter > 0
    /\ call' = [call EXCEPT ![t].pc = "enter"]
    /\ UNCHANGED <<kernelVars, sets, open, want, kills, asked, books>>

\* rb_io_wait_writable, rb_io_wait_readable.  poll(2) calls the descriptor
\* writable as soon as 1 can be added, so an #incr of more may come back,
\* fail with EAGAIN and wait again.
WakeUp(t) ==
    /\ call[t].pc = "wait" /\ open
    /\ IF call[t].op = "incr" THEN counter < MAX ELSE counter > 0
    /\ call' = [call EXCEPT ![t].pc = "enter"]
    /\ UNCHANGED <<kernelVars, sets, open, want, kills, asked, books>>

----------------------------------------------------------------------------
(* The timer.                                                              *)

\* #settime.  timerfd_settime(2) refuses a timespec that is not normalised;
\* otherwise it discards the expirations that nobody has read, and a value of
\* zero stops the timer.  #gettime changes nothing.
settime(a) ==
    LET new == [interval |-> value2timespec(a.interval), value |-> value2timespec(a.value)]
    IN  /\ kind = "timerfd" /\ open /\ sets < MaxSets
        /\ sets' = sets + 1
        /\ IF ValidTimespec(new.interval) /\ ValidTimespec(new.value)
           THEN /\ timer' = new /\ want' = a
                /\ counter' = 0 /\ owed' = owed - counter
           ELSE UNCHANGED <<timer, want, counter, owed>>
        /\ UNCHANGED <<born, nonblock, open, call, kills, asked, lost, untold>>

\* The timer expires (external).
Expire ==
    /\ Running /\ counter < MAX
    /\ counter' = counter + 1 /\ owed' = owed + 1
    /\ timer' = [timer EXCEPT !.value = timer.interval]
    /\ UNCHANGED <<born, nonblock, sets, open, call, kills, asked, want, lost, untold>>

----------------------------------------------------------------------------
(* The rest of the process (external).                                     *)

\* IO#close; threads inside a call get an IOError as they come back.
Close ==
    /\ open /\ open' = FALSE
    /\ UNCHANGED <<kernelVars, sets, call, want, kills, asked, books>>

\* Thread#kill, Thread#raise or that IOError where the blocking region ends.
\* What the system call has done stays done, and nobody is told of it.
Interrupted(t) ==
    LET c == call[t] IN
    /\ c.pc # "idle"
    /\ IF open THEN kills < MaxKills /\ kills' = kills + 1 ELSE UNCHANGED kills
    /\ Leave(t)
    /\ lost' = IF c.res = "done" /\ c.op = "value" THEN lost + c.val ELSE lost
    /\ untold' = IF c.res = "done" /\ c.op = "incr" THEN untold + c.val ELSE untold
    /\ UNCHANGED <<kernelVars, sets, open, want, asked, owed>>

----------------------------------------------------------------------------
Progress(t) == Syscall(t) \/ Back(t) \/ WakeUp(t)

Next ==
    \/ Close \/ Expire
    \/ \E a \in Setting : settime(a)
    \/ \E t \in Thread :
        \/ \E nb \in BOOLEAN :
            \/ kind = "eventfd" /\ \E val \in Value : Begin(t, "incr", val, nb)
            \/ Begin(t, "value", 0, nb)
        \/ Progress(t) \/ Signal(t) \/ Interrupted(t)

Spec == Init /\ [][Next]_vars

\* The kernel and Ruby's scheduler run every thread that can run, and IO#close
\* interrupts the threads that use the descriptor.  Nothing is assumed about
\* how often the application calls or kills, or whether a timer fires.
FairSpec ==
    Spec /\ \A t \in Thread : WF_vars(Progress(t) \/ (~open /\ Interrupted(t)))

----------------------------------------------------------------------------
(* Properties.                                                             *)

\* What the call of a thread has moved and not reported yet.
InFlight(t) ==
    CASE call[t].res # "done" -> 0
      [] call[t].res = "done" /\ call[t].op = "incr"  -> call[t].val
      [] call[t].res = "done" /\ call[t].op = "value" -> -call[t].val

\* No count is invented or reported twice: the counter is the initial value plus
\* all increments reported as done minus all values returned, up to the calls
\* that have moved something and not returned.  A retry after EAGAIN or EINTR
\* repeats only what had no effect.  A count is dropped, or added behind the
\* caller's back, only by a call that ends in Thread#kill, Thread#raise or the
\* IOError of a close after its system call has gone through.
Conserved ==
    /\ counter = owed + untold - lost + FoldFunction(+, 0, [t \in Thread |-> InFlight(t)])
    /\ open /\ kills = 0 => lost = 0 /\ untold = 0

\* The timer runs as #settime was told to, to the nearest nanosecond: seconds
\* and nanoseconds, roundings and negative fractions combine to times that are
\* half a nanosecond off at most, and a zero stays a zero.
AsTold ==
    /\ Running => Near(timer.value, want.value) \/ Near(timer.value, want.interval)
    /\ Near(timer.interval, want.interval)

\* The descriptor is in the mode that the flags of .new ask for, given as an
\* Integer, a Symbol or an Array (:NONBLOCK, :SEMAPHORE), until a nonblocking
\* call; and no call leaves the other mode behind.
ModeKept ==
    LET bits == Named(Klass(kind), flags)
    IN  semaphore = (0 \in bits) /\ nonblock = (asked \/ 11 \in bits)

\* A nonblocking call never sleeps or waits, whatever other threads did to the
\* descriptor before.
NonblockReturns == \A t \in Thread : call[t].nb => call[t].pc \notin {"asleep", "wait"}

\* No lost wakeup: a call that could go through either returns or loses its
\* chance to another call ("this will block until the counter becomes
\* non-zero", "it will block until the counter may be incremented without
\* overflowing"), whichever of read, poll and retry it is in; so does an
\* #expirations once the timer has expired, unless #settime discards that.
Blocked(t) == call[t].pc # "idle" /\ Possible(call[t])
NoLostWakeup == \A t \in Thread : Blocked(t) ~> ~Blocked(t)
=============================================================================
