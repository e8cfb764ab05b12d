---------------------------- MODULE WaitTimeout ----------------------------
(***************************************************************************)
(* The timeouts of Epoll::IO#epoll_wait (ext/sleepy_penguin/epoll.c) and   *)
(* Kqueue::IO#kevent (ext/sleepy_penguin/kqueue.c): a wait that a signal   *)
(* interrupts goes back to the kernel with the time it has left.           *)
(*                                                                         *)
(* A wait shares nothing with other waits but the clock and the            *)
(* descriptor, so one is modelled at a time.  The clock runs on while the  *)
(* thread is in the kernel and while it waits for the GVL; the code        *)
(* between a system call's return and the next one is one step.            *)
(*                                                                         *)
(* External parts, modelled from the way this code uses them: the clock,   *)
(* the kernel's side of epoll_wait(2) and kevent(2), signals, IO#close and *)
(* Thread#kill.                                                            *)
(***************************************************************************)
EXTENDS Integers

CONSTANTS
    MSec,           \* ticks of the clock in a millisecond (1000000)
    NANO_PER_SEC,   \* ticks of the clock in a second (1000000000)
    Timeout,        \* timeouts of #epoll_wait in ms; -1 stands for nil
    Timespec,       \* timeouts of #kevent; Nil stands for nil
    MaxClock,       \* bound: the last instant of a behaviour
    Nil             \* NULL, "none"

\* value2timespec leaves the sign to the seconds; it rounds a fraction just
\* below 1 up to a whole second of nanoseconds.
ASSUME ConstantsOK ==
    /\ MSec \in Nat \ {0} /\ NANO_PER_SEC \in Nat \ {0} /\ MaxClock \in Nat
    /\ Timeout \subseteq Int
    /\ Timespec \subseteq [sec : Int, nsec : 0 .. NANO_PER_SEC] \cup {Nil}
    /\ Nil \notin Int \cup [sec : Int, nsec : Int]
    /\ Nil \notin {"epoll_wait", "kevent", "events", "none", "EINTR", "EINVAL", "raised"}

VARIABLES
    clock,      \* CLOCK_MONOTONIC, in ticks
    ready,      \* kernel: whether the descriptor has an event to report
    open,       \* whether the IO object is open
    call        \* struct ep_per_thread or kq_per_thread, and where its call is

vars == <<clock, ready, open, call>>

\* timeout and ts are what the next system call is given, expire is the local
\* expire_at, due is when the kernel's timer ends.  Auxiliary: deadline is the
\* instant the caller asked for (Nil: never), applied counts how often the
\* kernel was given the change list.  An idle call keeps the last outcome.
Idle ==
    [pc |-> "idle", fn |-> Nil, timeout |-> Nil, ts |-> Nil, expire |-> Nil,
     nchanges |-> 0, nevents |-> 0, due |-> Nil, res |-> Nil,
     deadline |-> Nil, applied |-> 0]

TypeOK ==
    /\ clock \in 0 .. MaxClock
    /\ ready \in BOOLEAN /\ open \in BOOLEAN
    /\ DOMAIN call = DOMAIN Idle
    /\ call.pc \in {"idle", "asleep", "back"}
    /\ call.fn \in {"epoll_wait", "kevent", Nil}
    /\ call.res \in {"events", "none", "EINTR", "EINVAL", "raised", Nil}
    /\ call.nchanges \in 0 .. 1 /\ call.nevents \in 0 .. 1 /\ call.applied \in Nat
    /\ call.ts # Nil => call.ts.sec \in Int /\ call.ts.nsec \in 0 .. NANO_PER_SEC
    /\ call.pc = "asleep" => call.res = Nil /\ call.nevents = 1

Init ==
    /\ clock = 0
    /\ ready = FALSE
    /\ open = TRUE
    /\ call = Idle

----------------------------------------------------------------------------
(* Arithmetic on times.                                                    *)

\* Rounded to the nearest millisecond.
now_ms == (clock + MSec \div 2) \div MSec

clock_gettime == [sec |-> clock \div NANO_PER_SEC, nsec |-> clock % NANO_PER_SEC]

tssub(a, b) ==
    LET nsec == a.nsec - b.nsec
    IN  IF nsec < 0
        THEN [sec |-> a.sec - b.sec - 1, nsec |-> nsec + NANO_PER_SEC]
        ELSE [sec |-> a.sec - b.sec, nsec |-> nsec]

\* expire_at of do_kevent.  A sum of exactly one second is not carried.
tsadd(a, b) ==
    LET nsec == a.nsec + b.nsec
    IN  IF nsec > NANO_PER_SEC
        THEN [sec |-> a.sec + b.sec + 1, nsec |-> nsec - NANO_PER_SEC]
        ELSE [sec |-> a.sec + b.sec, nsec |-> nsec]

\* Mutant: the nanoseconds are compared whatever the seconds are.
LaterNsec(a, b) == a.sec > b.sec \/ a.nsec > b.nsec

\* The two comparisons of kevent_resume_p.
Later(a, b) == a.sec > b.sec \/ (a.sec = b.sec /\ a.nsec > b.nsec)

----------------------------------------------------------------------------
(* The system calls (external).                                            *)

Forever(c) == IF c.fn = "kevent" THEN c.ts = Nil ELSE c.timeout < 0

\* What kevent(2) takes as a timeout.
Valid(ts) == ts.sec >= 0 /\ ts.nsec < NANO_PER_SEC

\* How long the kernel is asked to sleep, in ticks.
Length(c) ==
    IF c.fn = "kevent"
    THEN c.ts.sec * NANO_PER_SEC + c.ts.nsec
    ELSE c.timeout * MSec

\* What the kernel finds without sleeping, Nil when it has to sleep.  A signal
\* interrupts it only when it sleeps, and kevent(2) applies all changes before.
Look(c) ==
    CASE c.nevents = 0 -> "none"
      [] c.nevents # 0 /\ c.fn = "kevent" /\ ~Forever(c) /\ ~Valid(c.ts) -> "EINVAL"
      [] OTHER -> IF ready THEN "events"
                  ELSE IF ~Forever(c) /\ Length(c) = 0 THEN "none" ELSE Nil

\* Call c as the system call has looked at the descriptor.
Enter(c) ==
    [c EXCEPT !.pc  = IF Look(c) = Nil THEN "asleep" ELSE "back",
              !.res = Look(c),
              !.due = IF Look(c) = Nil /\ ~Forever(c) THEN clock + Length(c) ELSE Nil,
              !.applied = @ + c.nchanges]

\* The sleeper is given events, or its timer ends.
Answer ==
    /\ call.pc = "asleep"
    /\ \/ ready /\ call' = [call EXCEPT !.pc = "back", !.res = "events", !.due = Nil]
       \/ /\ ~ready /\ call.due # Nil /\ clock >= call.due
          /\ call' = [call EXCEPT !.pc = "back", !.res = "none", !.due = Nil]
    /\ UNCHANGED <<clock, ready, open>>

Signal ==
    /\ call.pc = "asleep"
    /\ call' = [call EXCEPT !.pc = "back", !.res = "EINTR", !.due = Nil]
    /\ UNCHANGED <<clock, ready, open>>

----------------------------------------------------------------------------
(* The two methods.                                                        *)

\* epwait and real_epwait up to the first epoll_wait(2).
epwait(timeout) ==
    /\ call.pc = "idle" /\ open
    /\ timeout >= 0 => clock + (timeout + 1) * MSec <= MaxClock     \* bound
    /\ call' = Enter([Idle EXCEPT
           !.fn = "epoll_wait", !.timeout = timeout, !.nevents = 1,
           !.expire = IF timeout > 0 THEN now_ms + timeout ELSE 0,
           !.deadline = IF timeout < 0 THEN Nil ELSE clock + timeout * MSec])
    /\ UNCHANGED <<clock, ready, open>>

\* sp_kevent and do_kevent up to the first kevent(2), with or without changes
\* to make (nchanges) and with or without a block to take events (nevents).
sp_kevent(ts, nchanges, nevents) ==
    /\ call.pc = "idle" /\ open
    /\ LET c == [Idle EXCEPT !.fn = "kevent", !.ts = ts, !.nchanges = nchanges,
                             !.nevents = nevents]
           end == IF ts = Nil THEN Nil ELSE clock + Length(c)
       IN  /\ ts # Nil => end < MaxClock                            \* bound
           /\ call' = Enter([c EXCEPT
                  !.expire = IF ts = Nil THEN Nil ELSE tsadd(clock_gettime, ts),
                  !.deadline = end])
    /\ UNCHANGED <<clock, ready, open>>

\* The method ends; res is what its caller gets.
Leave(res) == call' = [Idle EXCEPT !.res = res]

\* epwait_result, kevent_result after a system call that did not fail.
Return ==
    /\ call.res \in {"events", "none"}
    /\ Leave(call.res)

\* Mutant: the wait starts over with its whole timeout.
epoll_resume_whole ==
    /\ call.fn = "epoll_wait" /\ open /\ call.res = "EINTR"
    /\ call' = Enter(call)

\* Mutant: nil is not told from a timeout.
epoll_resume_nil ==
    /\ call.fn = "epoll_wait" /\ open /\ call.res = "EINTR"
    /\ call' = Enter([call EXCEPT !.timeout =
                  IF now_ms > call.expire THEN 0 ELSE call.expire - now_ms])

epoll_resume_p ==
    /\ call.fn = "epoll_wait" /\ open /\ call.res = "EINTR"
    /\ call' = Enter([call EXCEPT !.timeout =
                  CASE call.timeout < 0 -> call.timeout
                    [] call.timeout >= 0 /\ now_ms > call.expire -> 0
                    [] OTHER -> call.expire - now_ms])

\* Mutant: the change list is sent again.
kevent_resume_changes ==
    /\ call.fn = "kevent" /\ open /\ call.res = "EINTR"
    /\ \/ call.ts = Nil /\ call' = Enter(call)
       \/ call.ts # Nil /\ Later(clock_gettime, call.expire) /\ Leave("none")
       \/ /\ call.ts # Nil /\ ~Later(clock_gettime, call.expire)
          /\ call' = Enter([call EXCEPT !.ts = tssub(call.expire, clock_gettime)])

\* Mutant: the descriptor is not looked at again (kq_fd_check).
kevent_resume_closed ==
    /\ call.fn = "kevent" /\ call.res = "EINTR"
    /\ \/ call.ts = Nil /\ call' = Enter([call EXCEPT !.nchanges = 0])
       \/ call.ts # Nil /\ Later(clock_gettime, call.expire) /\ Leave("none")
       \/ /\ call.ts # Nil /\ ~Later(clock_gettime, call.expire)
          /\ call' = Enter([call EXCEPT !.nchanges = 0,
                                        !.ts = tssub(call.expire, clock_gettime)])

\* kevent_resume_p, and kevent_result where it says no after EINTR.
kevent_resume_p ==
    /\ call.fn = "kevent" /\ open /\ call.res = "EINTR"
    /\ \/ call.ts = Nil /\ call' = Enter([call EXCEPT !.nchanges = 0])
       \/ call.ts # Nil /\ Later(clock_gettime, call.expire) /\ Leave("none")
       \/ /\ call.ts # Nil /\ ~Later(clock_gettime, call.expire)
          /\ call' = Enter([call EXCEPT !.nchanges = 0,
                                        !.ts = tssub(call.expire, clock_gettime)])

\* ep_fd_check and kq_fd_check on a closed object, rb_sys_fail on other errors.
Raise ==
    /\ call.res = "EINVAL" \/ (call.res = "EINTR" /\ ~open)
    /\ Leave("raised")

\* The thread has come back from the kernel and holds the GVL.
Back ==
    /\ call.pc = "back"
    /\ Return \/ epoll_resume_p \/ kevent_resume_p \/ Raise
    /\ UNCHANGED <<clock, ready, open>>

----------------------------------------------------------------------------
(* The rest of the system (external).                                      *)

Tick ==
    /\ clock < MaxClock
    /\ clock' = clock + 1
    /\ UNCHANGED <<ready, open, call>>

\* A watched file becomes ready, or another thread takes its events.
Turn ==
    /\ ready' = ~ready
    /\ UNCHANGED <<clock, open, call>>

Close ==
    /\ open
    /\ open' = FALSE
    /\ UNCHANGED <<clock, ready, call>>

\* Thread#kill, or the IOError that IO#close sends to a thread in the kernel.
Interrupted ==
    /\ call.pc # "idle"
    /\ Leave("raised")
    /\ UNCHANGED <<clock, ready, open>>

----------------------------------------------------------------------------
Next ==
    \/ \E timeout \in Timeout : epwait(timeout)
    \/ \E ts \in Timespec, nchanges \in 0 .. 1, nevents \in 0 .. 1 :
           sp_kevent(ts, nchanges, nevents)
    \/ Back \/ Answer \/ Signal
    \/ Tick \/ Turn \/ Close \/ Interrupted

Spec == Init /\ [][Next]_vars

\* Time passes, the kernel answers a sleeper whose timer ended or who has an
\* event, and Ruby runs a thread that came back.  Signals may come as often as
\* they like, and no thread is ever killed.
FairSpec == Spec /\ WF_vars(Tick) /\ WF_vars(Answer) /\ WF_vars(Back)

----------------------------------------------------------------------------
(* Properties.                                                             *)

\* How far now_ms may move the end of a wait: less than a millisecond for
\* epoll_wait.  kevent calculates in the clock's own unit.
Near(t, deadline) ==
    IF call.fn = "kevent" THEN t = deadline ELSE deadline - MSec < t /\ t < deadline + MSec

\* However many signals interrupt a wait, and however long the thread waits for
\* the GVL in between, the timer the kernel is given ends when the caller's
\* timeout does: interruptions neither add up nor shorten it.
DeadlineKept ==
    call.pc = "asleep" =>
        IF call.deadline = Nil THEN call.due = Nil
        ELSE call.due # Nil /\ Near(call.due, call.deadline)

\* A wait returns without events only when its timeout has passed (less the
\* rounding of epoll_wait), and never if it has none: EINTR is not reported as
\* a timeout.
NotEarly ==
    [][(/\ call.pc = "back" /\ call.nevents = 1
        /\ call'.pc = "idle" /\ call'.res = "none")
       => /\ call.deadline # Nil
          /\ clock >= call.deadline \/ Near(clock, call.deadline)]_vars

\* A kevent call gives its change list to the kernel once, however often it
\* goes back to sleep: an EV_ADD or a ONESHOT repeated after EINTR would undo
\* what other threads have changed since.
AppliedOnce == call.applied <= 1

\* A wait does not go back to a descriptor that was closed while it was away:
\* the number may be another file's by then.
ClosedEnds == [][(call.pc = "back" /\ ~open) => call'.pc = "idle" \/ UNCHANGED call]_vars

\* A wait with a timeout ends even in a storm of signals.
WaitEnds == (call.pc # "idle" /\ call.deadline # Nil) ~> (call.pc = "idle")
=============================================================================
