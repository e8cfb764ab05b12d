-------------------------- MODULE WaitTimeoutProofs --------------------------
(***************************************************************************)
(* Theorems about module WaitTimeout: a wait of epoll_wait or kevent ends  *)
(* when its caller asked, whatever interrupts it, for any clock, timeouts  *)
(* and numbers of ticks to a millisecond and a second.                     *)
(***************************************************************************)
EXTENDS WaitTimeout, TLAPS

----------------------------------------------------------------------------
(* Arithmetic.                                                             *)

\* What \div and % are, for the provers.
LEMMA DivMod ==
    ASSUME NEW a \in Int, NEW b \in Nat \ {0}
    PROVE  a \div b \in Int /\ a % b \in 0 .. b - 1 /\ a = (a \div b) * b + (a % b)
OBVIOUS

\* A later second is a second later, at least.
LEMMA SecondsApart ==
    ASSUME NEW a \in Int, NEW c \in Int, NEW b \in Nat \ {0}, a > c
    PROVE  a * b >= c * b + b
<1>1. PICK d \in Nat : a = c + 1 + d
  <2>1. a - c - 1 \in Nat
    OBVIOUS
  <2> QED BY <2>1
<1>2. a * b = c * b + b + d * b
  BY <1>1
<1>3. d * b >= 0 /\ a * b \in Int /\ c * b \in Int /\ d * b \in Int
  OBVIOUS
<1> QED BY <1>2, <1>3

\* Half a millisecond, which now_ms adds before it cuts off.
Half == MSec \div 2

LEMMA HalfMSec == Half \in Nat /\ 2 * Half <= MSec /\ MSec <= 2 * Half + 1
BY ConstantsOK DEF Half

\* now_ms is the clock, less than a half and at most half a millisecond off.
LEMMA NowMs ==
    ASSUME NEW c \in Int
    PROVE  LET now == (c + MSec \div 2) \div MSec
           IN  /\ now \in Int /\ now * MSec \in Int
               /\ now * MSec <= c + Half
               /\ now * MSec >= c + Half - (MSec - 1)
<1>1. c + Half \in Int /\ MSec \in Nat \ {0}
  BY HalfMSec, ConstantsOK
<1>2. (c + Half) \div MSec \in Int /\ (c + Half) % MSec \in 0 .. MSec - 1
      /\ c + Half = ((c + Half) \div MSec) * MSec + ((c + Half) % MSec)
  BY <1>1, DivMod
<1>3. ((c + Half) \div MSec) * MSec \in Int
  BY <1>1, <1>2
<1> QED
  BY <1>1, <1>2, <1>3 DEF Half

Stamp == [sec : Int, nsec : 0 .. NANO_PER_SEC]

\* The ticks of a struct timespec.
Ticks(ts) == ts.sec * NANO_PER_SEC + ts.nsec

LEMMA TicksInt == ASSUME NEW ts \in Stamp PROVE Ticks(ts) \in Int
BY ConstantsOK DEF Stamp, Ticks

\* clock_gettime is the clock, with less than a second of nanoseconds.
LEMMA ClockTicks ==
    ASSUME clock \in Nat
    PROVE  /\ clock_gettime \in Stamp
           /\ clock_gettime.nsec < NANO_PER_SEC
           /\ Ticks(clock_gettime) = clock
<1>1. NANO_PER_SEC \in Nat \ {0}
  BY ConstantsOK
<1>2. /\ clock \div NANO_PER_SEC \in Int /\ clock % NANO_PER_SEC \in 0 .. NANO_PER_SEC - 1
      /\ clock = (clock \div NANO_PER_SEC) * NANO_PER_SEC + (clock % NANO_PER_SEC)
  BY <1>1, DivMod
<1> QED
  BY <1>1, <1>2 DEF clock_gettime, Stamp, Ticks

\* tsadd adds, although it may leave 10^9 nanoseconds.
LEMMA AddTicks ==
    ASSUME NEW a \in Stamp, NEW b \in Stamp, a.nsec < NANO_PER_SEC
    PROVE  tsadd(a, b) \in Stamp /\ Ticks(tsadd(a, b)) = Ticks(a) + Ticks(b)
<1>1. NANO_PER_SEC \in Nat \ {0}
  BY ConstantsOK
<1>2. /\ a.sec \in Int /\ b.sec \in Int /\ a.nsec \in 0 .. NANO_PER_SEC
      /\ b.nsec \in 0 .. NANO_PER_SEC
  BY DEF Stamp
<1>3. /\ (a.sec + b.sec) * NANO_PER_SEC = a.sec * NANO_PER_SEC + b.sec * NANO_PER_SEC
      /\ (a.sec + b.sec + 1) * NANO_PER_SEC
            = a.sec * NANO_PER_SEC + b.sec * NANO_PER_SEC + NANO_PER_SEC
      /\ a.sec * NANO_PER_SEC \in Int /\ b.sec * NANO_PER_SEC \in Int
  BY <1>1, <1>2
<1> QED
  BY <1>1, <1>2, <1>3 DEF tsadd, Stamp, Ticks

\* tssub subtracts, also from 10^9 nanoseconds.
LEMMA SubTicks ==
    ASSUME NEW a \in Stamp, NEW b \in Stamp, b.nsec < NANO_PER_SEC
    PROVE  tssub(a, b) \in Stamp /\ Ticks(tssub(a, b)) = Ticks(a) - Ticks(b)
<1>1. NANO_PER_SEC \in Nat \ {0}
  BY ConstantsOK
<1>2. /\ a.sec \in Int /\ b.sec \in Int /\ a.nsec \in 0 .. NANO_PER_SEC
      /\ b.nsec \in 0 .. NANO_PER_SEC
  BY DEF Stamp
<1>3. /\ (a.sec - b.sec) * NANO_PER_SEC = a.sec * NANO_PER_SEC - b.sec * NANO_PER_SEC
      /\ (a.sec - b.sec - 1) * NANO_PER_SEC
            = a.sec * NANO_PER_SEC - b.sec * NANO_PER_SEC - NANO_PER_SEC
      /\ a.sec * NANO_PER_SEC \in Int /\ b.sec * NANO_PER_SEC \in Int
  BY <1>1, <1>2
<1> QED
  BY <1>1, <1>2, <1>3 DEF tssub, Stamp, Ticks

\* What Later calls later is not earlier.
LEMMA LaterTicks ==
    ASSUME NEW a \in Stamp, NEW b \in Stamp, Later(a, b)
    PROVE  Ticks(a) >= Ticks(b)
<1>1. NANO_PER_SEC \in Nat \ {0}
  BY ConstantsOK
<1>2. /\ a.sec \in Int /\ b.sec \in Int /\ a.nsec \in 0 .. NANO_PER_SEC
      /\ b.nsec \in 0 .. NANO_PER_SEC
      /\ a.sec * NANO_PER_SEC \in Int /\ b.sec * NANO_PER_SEC \in Int
  BY <1>1 DEF Stamp
<1>3. CASE a.sec > b.sec
  <2>1. a.sec * NANO_PER_SEC >= b.sec * NANO_PER_SEC + NANO_PER_SEC
    BY <1>1, <1>2, <1>3, SecondsApart
  <2> QED BY <1>1, <1>2, <2>1 DEF Ticks
<1>4. CASE a.sec = b.sec /\ a.nsec > b.nsec
  BY <1>1, <1>2, <1>4 DEF Ticks
<1> QED BY <1>3, <1>4 DEF Later

----------------------------------------------------------------------------
(* The inductive invariant.                                                *)

CallType ==
    [pc       : {"idle", "asleep", "back"},
     fn       : {"epoll_wait", "kevent", Nil},
     timeout  : Int \cup {Nil},
     ts       : Stamp \cup {Nil},
     expire   : Int \cup Stamp \cup {Nil},
     nchanges : 0 .. 1,
     nevents  : 0 .. 1,
     due      : Int \cup {Nil},
     res      : {"events", "none", "EINTR", "EINVAL", "raised", Nil},
     deadline : Int \cup {Nil},
     applied  : 0 .. 1]

\* The time is not over: a sleeper, or one that a signal woke.
Unfinished(c) == c.pc = "asleep" \/ c.res = "EINTR"

\* An epoll_wait has a deadline unless its timeout is negative, and while it is
\* unfinished its expire_at is the deadline, rounded once.
EpollCall(c) ==
    c.fn = "epoll_wait" =>
        /\ c.timeout \in Int /\ c.nevents = 1 /\ c.nchanges = 0
        /\ (c.deadline = Nil) <=> (c.timeout < 0)
        /\ c.deadline # Nil /\ Unfinished(c) =>
              /\ c.expire \in Int
              /\ c.expire * MSec <= c.deadline + Half
              /\ c.expire * MSec >= c.deadline + Half - (MSec - 1)

\* A kevent has a deadline unless its timespec is Nil, and its expire_at is the
\* deadline exactly, if not in the usual form.
KeventCall(c) ==
    c.fn = "kevent" =>
        /\ (c.deadline = Nil) <=> (c.ts = Nil)
        /\ c.ts # Nil => c.expire \in Stamp /\ Ticks(c.expire) = c.deadline

\* Where the call is.
Placed(c) ==
    /\ c.pc = "idle" => c.fn = Nil
    /\ c.pc = "asleep" => c.fn # Nil /\ c.res = Nil /\ c.nevents = 1
    /\ c.pc = "back" => c.fn # Nil /\ c.res # Nil

\* The timer of the kernel ends with the caller's timeout, up to a rounding.
TimerSet(c) ==
    c.pc = "asleep" =>
        IF c.deadline = Nil THEN c.due = Nil
        ELSE /\ c.due \in Int
             /\ c.fn = "kevent" => c.due = c.deadline
             /\ c.fn = "epoll_wait" => c.deadline - MSec < c.due /\ c.due < c.deadline + MSec

\* Whether the deadline has come, up to a rounding.
Reached(c, now) ==
    /\ c.deadline # Nil
    /\ c.fn = "kevent" => now >= c.deadline
    /\ c.fn = "epoll_wait" => now > c.deadline - MSec

\* A call that comes back without events has waited.
Waited(c, now) == c.pc = "back" /\ c.res = "none" /\ c.nevents = 1 => Reached(c, now)

CallOK(c, now) ==
    /\ c \in CallType /\ Placed(c) /\ EpollCall(c) /\ KeventCall(c) /\ TimerSet(c)
    /\ Waited(c, now)

TimeInv ==
    /\ clock \in 0 .. MaxClock /\ ready \in BOOLEAN /\ open \in BOOLEAN
    /\ CallOK(call, clock)

----------------------------------------------------------------------------
(* What a system call makes of a call.                                     *)

\* A call before a system call: its timeout or timespec is the time that is left
\* to its deadline, less the roundings, and 0 if none is left.
Prepared(c, now) ==
    /\ c \in CallType /\ c.fn # Nil /\ c.applied + c.nchanges <= 1
    /\ c.fn = "epoll_wait" =>
          /\ c.timeout \in Int /\ c.nevents = 1 /\ c.nchanges = 0
          /\ (c.deadline = Nil) <=> (c.timeout < 0)
          /\ c.deadline # Nil => now + c.timeout * MSec > c.deadline - MSec
          /\ c.deadline # Nil /\ c.timeout # 0 =>
                /\ now + c.timeout * MSec < c.deadline + MSec
                /\ c.expire \in Int
                /\ c.expire * MSec <= c.deadline + Half
                /\ c.expire * MSec >= c.deadline + Half - (MSec - 1)
    /\ KeventCall(c)
    /\ c.fn = "kevent" /\ c.ts # Nil => now + Ticks(c.ts) = c.deadline

LEMMA LookType ==
    ASSUME NEW c
    PROVE  Look(c) \in {"events", "none", "EINVAL", Nil}
BY DEF Look

LEMMA LookSleeps ==
    ASSUME NEW c \in CallType, Look(c) = Nil
    PROVE  c.nevents = 1 /\ ~(~Forever(c) /\ Length(c) = 0)
BY ConstantsOK DEF Look, CallType

LEMMA LookNone ==
    ASSUME NEW c \in CallType, Look(c) = "none"
    PROVE  c.nevents = 0 \/ (~Forever(c) /\ Length(c) = 0)
BY ConstantsOK DEF Look, CallType

LEMMA EnterOK ==
    ASSUME NEW c, Prepared(c, clock), clock \in Nat
    PROVE  CallOK(Enter(c), clock)
<1> DEFINE e == Enter(c)
<1>1. c \in CallType /\ c.fn \in {"epoll_wait", "kevent"}
  BY DEF Prepared, CallType
<1>2. MSec \in Nat \ {0} /\ NANO_PER_SEC \in Nat \ {0} /\ Nil \notin Int \cup Stamp
  BY ConstantsOK DEF Stamp
<1>3. ~Forever(c) => c.deadline \in Int /\ Length(c) \in Int /\ clock + Length(c) \in Int
  <2>1. CASE c.fn = "kevent"
    BY <1>1, <1>2, <2>1, TicksInt DEF Forever, Length, Prepared, KeventCall, CallType, Ticks
  <2>2. CASE c.fn = "epoll_wait"
    BY <1>1, <1>2, <2>2 DEF Forever, Length, Prepared, CallType
  <2> QED BY <1>1, <2>1, <2>2
<1>4. Forever(c) <=> c.deadline = Nil
  BY <1>1, ConstantsOK DEF Forever, Prepared, KeventCall
<1>5. /\ e.fn = c.fn /\ e.timeout = c.timeout /\ e.ts = c.ts /\ e.expire = c.expire
      /\ e.nchanges = c.nchanges /\ e.nevents = c.nevents /\ e.deadline = c.deadline
      /\ e.pc = (IF Look(c) = Nil THEN "asleep" ELSE "back") /\ e.res = Look(c)
      /\ e.due = (IF Look(c) = Nil /\ ~Forever(c) THEN clock + Length(c) ELSE Nil)
      /\ e.applied = c.applied + c.nchanges
  BY <1>1 DEF Enter, CallType
<1>6. e \in CallType
  <2>1. c.applied + c.nchanges \in 0 .. 1
    BY <1>1 DEF Prepared, CallType
  <2>2. e.due \in Int \cup {Nil} /\ e.res \in {"events", "none", "EINTR", "EINVAL", "raised", Nil}
    BY <1>3, <1>5, LookType
  <2>3. e.pc \in {"idle", "asleep", "back"}
    BY <1>5
  <2> QED
    BY <1>1, <1>5, <2>1, <2>2, <2>3 DEF Enter, CallType
<1>7. Placed(e)
  BY <1>1, <1>2, <1>5, LookSleeps, ConstantsOK DEF Placed
<1>8. EpollCall(e)
  <2> SUFFICES ASSUME c.fn = "epoll_wait" PROVE EpollCall(e)
    BY <1>5 DEF EpollCall
  <2>1. e.res # "EINTR"
    BY <1>5, LookType, ConstantsOK
  <2>2. Look(c) = Nil /\ c.deadline # Nil => c.timeout # 0
    BY <1>1, <1>2, <1>4, LookSleeps DEF Length
  <2> QED
    BY <1>1, <1>5, <2>1, <2>2 DEF EpollCall, Unfinished, Prepared
<1>9. KeventCall(e)
  BY <1>5 DEF KeventCall, Prepared
<1>10. TimerSet(e)
  <2> SUFFICES ASSUME Look(c) = Nil, c.deadline # Nil PROVE TimerSet(e)
    BY <1>4, <1>5 DEF TimerSet
  <2>1. e.due = clock + Length(c) /\ e.due \in Int
    BY <1>3, <1>4, <1>5
  <2>2. CASE c.fn = "kevent"
    BY <1>3, <1>4, <1>5, <2>1, <2>2 DEF TimerSet, Length, Prepared, Ticks, KeventCall
  <2>3. CASE c.fn = "epoll_wait"
    <3>1. c.timeout # 0
      BY <1>1, <1>2, <1>4, <2>3, LookSleeps DEF Length
    <3> QED
      BY <1>3, <1>4, <1>5, <2>1, <2>3, <3>1 DEF TimerSet, Length, Prepared
  <2> QED BY <1>1, <2>2, <2>3
<1>11. Waited(e, clock)
  <2> SUFFICES ASSUME Look(c) = "none", c.nevents = 1 PROVE Reached(e, clock)
    BY <1>5 DEF Waited
  <2>1. ~Forever(c) /\ Length(c) = 0
    BY <1>1, LookNone
  <2>2. CASE c.fn = "kevent"
    BY <1>3, <1>4, <1>5, <2>1, <2>2 DEF Reached, Length, Prepared, Ticks, KeventCall
  <2>3. CASE c.fn = "epoll_wait"
    BY <1>2, <1>3, <1>4, <1>5, <2>1, <2>3 DEF Reached, Length, Prepared
  <2> QED BY <1>1, <2>2, <2>3
<1> QED
  BY <1>6, <1>7, <1>8, <1>9, <1>10, <1>11 DEF CallOK

\* After a system call the call is asleep or back.
LEMMA EntersKernel == ASSUME NEW c, "pc" \in DOMAIN c PROVE Enter(c).pc # "idle"
BY DEF Enter

LEMMA IdleType == Idle \in CallType
BY ConstantsOK DEF Idle, CallType

LEMMA LeaveOK ==
    ASSUME NEW res \in {"events", "none", "EINTR", "EINVAL", "raised", Nil}, NEW now
    PROVE  CallOK([Idle EXCEPT !.res = res], now)
BY ConstantsOK
   DEF CallOK, CallType, Idle, Placed, EpollCall, KeventCall, TimerSet, Waited

----------------------------------------------------------------------------
(* The steps.                                                              *)

LEMMA InitInv == Init => TimeInv
<1>1. Idle = [Idle EXCEPT !.res = Nil]
  BY DEF Idle
<1>2. CallOK(Idle, 0)
  BY <1>1, LeaveOK
<1>3. 0 \in 0 .. MaxClock
  BY ConstantsOK
<1> QED BY <1>2, <1>3 DEF Init, TimeInv

LEMMA EpwaitInv ==
    ASSUME TimeInv, NEW timeout \in Timeout, epwait(timeout)
    PROVE  TimeInv'
<1> DEFINE exp == IF timeout > 0 THEN now_ms + timeout ELSE 0
           end == IF timeout < 0 THEN Nil ELSE clock + timeout * MSec
           c == [Idle EXCEPT !.fn = "epoll_wait", !.timeout = timeout, !.nevents = 1,
                             !.expire = exp, !.deadline = end]
<1>1. timeout \in Int /\ MSec \in Nat \ {0} /\ Nil \notin Int /\ clock \in Nat
  BY ConstantsOK DEF TimeInv
<1>2. timeout * MSec \in Int
  BY <1>1
<1>3. /\ now_ms \in Int /\ now_ms * MSec \in Int /\ now_ms * MSec <= clock + Half
      /\ now_ms * MSec >= clock + Half - (MSec - 1)
  BY <1>1, NowMs DEF now_ms
<1>4. (now_ms + timeout) * MSec = now_ms * MSec + timeout * MSec
  BY <1>1, <1>3
<1>5. c \in CallType
  <2>1. exp \in Int
    BY <1>1, <1>3
  <2>2. end \in Int \cup {Nil}
    BY <1>1, <1>2
  <2> HIDE DEF exp, end
  <2> DEFINE c1 == [Idle EXCEPT !.fn = "epoll_wait", !.timeout = timeout]
             c2 == [c1 EXCEPT !.nevents = 1, !.expire = exp]
  <2>3. c1 \in CallType
    BY <1>1, IdleType DEF CallType
  <2> HIDE DEF c1
  <2>4. c2 \in CallType
    <3>1. 1 \in 0 .. 1 /\ exp \in Int \cup Stamp \cup {Nil}
      BY <2>1
    <3> QED BY ONLY <2>3, <3>1 DEF CallType
  <2> HIDE DEF c2
  <2>5. [c2 EXCEPT !.deadline = end] \in CallType
    BY <2>2, <2>4 DEF CallType
  <2> QED BY <2>5 DEF c1, c2
<1>6. Prepared(c, clock)
  <2>1. /\ c.fn = "epoll_wait" /\ c.timeout = timeout /\ c.nevents = 1 /\ c.nchanges = 0
        /\ c.applied = 0
        /\ c.expire = (IF timeout > 0 THEN now_ms + timeout ELSE 0)
        /\ c.deadline = (IF timeout < 0 THEN Nil ELSE clock + timeout * MSec)
    BY DEF Idle
  <2>2. Half \in Nat
    BY HalfMSec
  <2> HIDE DEF c
  <2>3. KeventCall(c)
    BY <2>1 DEF KeventCall
  <2>4. CASE timeout < 0
    BY <1>1, <1>5, <2>1, <2>3, <2>4, ConstantsOK DEF Prepared
  <2>5. CASE timeout >= 0
    <3>1. c.deadline = clock + timeout * MSec /\ c.deadline # Nil /\ c.deadline \in Int
      BY <1>1, <1>2, <2>1, <2>5
    <3>2. timeout # 0 => c.expire = now_ms + timeout /\ c.expire * MSec = now_ms * MSec + timeout * MSec
      BY <1>1, <1>3, <1>4, <2>1, <2>5
    <3>3. timeout # 0 =>
             /\ clock + timeout * MSec < c.deadline + MSec
             /\ c.expire \in Int
             /\ c.expire * MSec <= c.deadline + Half
             /\ c.expire * MSec >= c.deadline + Half - (MSec - 1)
      BY <1>1, <1>2, <1>3, <2>2, <3>1, <3>2
    <3>4. clock + timeout * MSec > c.deadline - MSec
      BY <1>1, <1>2, <3>1
    <3> QED
      BY <1>1, <1>5, <2>1, <2>3, <2>5, <3>1, <3>3, <3>4, ConstantsOK DEF Prepared
  <2> QED BY <1>1, <2>4, <2>5
<1>7. CallOK(call', clock)
  BY <1>1, <1>6, EnterOK DEF epwait
<1> QED
  BY <1>7 DEF TimeInv, epwait

LEMMA KeventInv ==
    ASSUME TimeInv, NEW ts \in Timespec, NEW nchanges \in 0 .. 1, NEW nevents \in 0 .. 1,
           sp_kevent(ts, nchanges, nevents)
    PROVE  TimeInv'
<1> DEFINE b == [Idle EXCEPT !.fn = "kevent", !.ts = ts, !.nchanges = nchanges,
                             !.nevents = nevents]
           end == IF ts = Nil THEN Nil ELSE clock + Length(b)
           exp == IF ts = Nil THEN Nil ELSE tsadd(clock_gettime, ts)
           c == [b EXCEPT !.expire = exp, !.deadline = end]
<1>1. ts \in Stamp \cup {Nil} /\ clock \in Nat /\ Nil \notin Int \cup Stamp
  BY ConstantsOK DEF TimeInv, Stamp
<1>2. ts # Nil => Length(b) = Ticks(ts) /\ Ticks(ts) \in Int
  BY <1>1, TicksInt DEF Length, Ticks, Idle
<1>3. ts # Nil => /\ tsadd(clock_gettime, ts) \in Stamp
                  /\ Ticks(tsadd(clock_gettime, ts)) = clock + Ticks(ts)
  BY <1>1, ClockTicks, AddTicks
<1>4. /\ c.fn = "kevent" /\ c.ts = ts /\ c.nchanges = nchanges /\ c.applied = 0
      /\ c.expire = (IF ts = Nil THEN Nil ELSE tsadd(clock_gettime, ts))
      /\ c.deadline = end
  BY DEF Idle
<1>5. c \in CallType
  <2>1. exp \in Stamp \cup {Nil}
    BY <1>3
  <2>2. end \in Int \cup {Nil}
    BY <1>1, <1>2
  <2> HIDE DEF end, exp
  <2> DEFINE b1 == [Idle EXCEPT !.fn = "kevent", !.ts = ts]
  <2>3. b1 \in CallType
    BY <1>1, IdleType DEF CallType
  <2> HIDE DEF b1
  <2>4. [b1 EXCEPT !.nchanges = nchanges, !.nevents = nevents] \in CallType
    BY <2>3 DEF CallType
  <2>5. b \in CallType
    BY <2>4 DEF b1
  <2> HIDE DEF b
  <2> QED BY <2>1, <2>2, <2>5 DEF CallType
<1>6. Prepared(c, clock)
  <2>1. ts # Nil => end = clock + Ticks(ts) /\ end # Nil
    BY <1>1, <1>2
  <2>2. ts = Nil => end = Nil
    OBVIOUS
  <2> HIDE DEF b, end, c
  <2>3. KeventCall(c)
    BY <1>1, <1>3, <1>4, <2>1, <2>2 DEF KeventCall
  <2>4. c.applied + c.nchanges <= 1
    BY <1>4
  <2> QED
    BY <1>4, <1>5, <2>1, <2>2, <2>3, <2>4, ConstantsOK DEF Prepared
<1>7. CallOK(call', clock)
  BY <1>1, <1>6, EnterOK DEF sp_kevent
<1> QED
  BY <1>7 DEF TimeInv, sp_kevent

LEMMA EpollResumeInv ==
    ASSUME TimeInv, call.pc = "back", epoll_resume_p
    PROVE  CallOK(call', clock)
<1> DEFINE left == CASE call.timeout < 0 -> call.timeout
                     [] call.timeout >= 0 /\ now_ms > call.expire -> 0
                     [] OTHER -> call.expire - now_ms
           c == [call EXCEPT !.timeout = left]
<1>1. /\ call \in CallType /\ clock \in Nat /\ MSec \in Nat \ {0} /\ Nil \notin Int
      /\ call.fn = "epoll_wait" /\ call.res = "EINTR" /\ EpollCall(call)
  BY ConstantsOK DEF TimeInv, CallOK, epoll_resume_p
<1>2. /\ now_ms \in Int /\ now_ms * MSec \in Int /\ now_ms * MSec <= clock + Half
      /\ now_ms * MSec >= clock + Half - (MSec - 1)
  BY <1>1, NowMs DEF now_ms
<1>3. Half \in Nat /\ 2 * Half <= MSec /\ MSec <= 2 * Half + 1
  BY HalfMSec
<1>4. /\ c.fn = "epoll_wait" /\ c.timeout = left /\ c.nevents = 1 /\ c.nchanges = 0
      /\ c.applied = call.applied /\ c.expire = call.expire /\ c.deadline = call.deadline
  BY <1>1 DEF CallType, EpollCall
<1>5. Prepared(c, clock)
  <2>1. CASE call.timeout < 0
    BY <1>1, <1>4, <2>1, ConstantsOK DEF Prepared, EpollCall, KeventCall, CallType
  <2>2. CASE call.timeout >= 0
    <3>1. /\ call.deadline \in Int /\ call.expire \in Int /\ call.expire * MSec \in Int
          /\ call.expire * MSec <= call.deadline + Half
          /\ call.expire * MSec >= call.deadline + Half - (MSec - 1)
      BY <1>1, <2>2 DEF EpollCall, Unfinished, CallType
    <3>2. CASE now_ms > call.expire
      <4>1. now_ms * MSec >= call.expire * MSec + MSec
        BY <1>1, <1>2, <3>1, <3>2, SecondsApart
      <4>2. left = 0
        BY <1>1, <2>2, <3>2 DEF CallType, EpollCall
      <4>3. clock + 0 * MSec > call.deadline - MSec
        BY <1>1, <1>2, <1>3, <3>1, <4>1
      <4>4. c \in CallType /\ c.applied + c.nchanges <= 1
        BY <1>1, <1>4, <4>2 DEF CallType
      <4> HIDE DEF left, c
      <4> QED
        BY <1>1, <1>4, <3>1, <4>2, <4>3, <4>4, ConstantsOK DEF Prepared, KeventCall
    <3>3. CASE ~(now_ms > call.expire)
      <4>1. left = call.expire - now_ms
        <5>1. call.timeout \in Int
          BY <1>1 DEF EpollCall
        <5>2. ~(call.timeout < 0) /\ ~(call.timeout >= 0 /\ now_ms > call.expire)
          BY <2>2, <3>3, <5>1
        <5> QED BY ONLY <5>2
      <4>2. left \in Nat /\ left * MSec = call.expire * MSec - now_ms * MSec
        BY <1>1, <1>2, <3>1, <3>3, <4>1
      <4> HIDE DEF left
      <4>3. left * MSec \in Int
        BY <1>1, <4>2
      <4>4. /\ clock + left * MSec > call.deadline - MSec
            /\ clock + left * MSec < call.deadline + MSec
        BY <1>1, <1>2, <1>3, <3>1, <4>2, <4>3
      <4>5. c \in CallType /\ c.applied + c.nchanges <= 1
        BY <1>1, <1>4, <4>2 DEF CallType
      <4> HIDE DEF c
      <4> QED
        BY <1>1, <1>4, <3>1, <4>2, <4>4, <4>5, ConstantsOK DEF Prepared, KeventCall
    <3> QED BY <3>2, <3>3
  <2> QED BY <1>1, <2>1, <2>2 DEF EpollCall
<1> QED
  BY <1>1, <1>5, EnterOK DEF epoll_resume_p

LEMMA KeventResumeInv ==
    ASSUME TimeInv, call.pc = "back", kevent_resume_p
    PROVE  CallOK(call', clock)
<1>1. /\ call \in CallType /\ clock \in Nat /\ Nil \notin Int \cup Stamp
      /\ call.fn = "kevent" /\ call.res = "EINTR" /\ KeventCall(call)
  BY ConstantsOK DEF TimeInv, CallOK, kevent_resume_p, Stamp
<1>2. CASE call.ts = Nil /\ call' = Enter([call EXCEPT !.nchanges = 0])
  <2> DEFINE c == [call EXCEPT !.nchanges = 0]
  <2>1. /\ c.fn = "kevent" /\ c.ts = Nil /\ c.nchanges = 0 /\ c.applied = call.applied
        /\ c.expire = call.expire /\ c.deadline = call.deadline
    BY <1>1, <1>2 DEF CallType
  <2>2. c \in CallType /\ c.applied + c.nchanges <= 1
    BY <1>1, <2>1 DEF CallType
  <2>3. Prepared(c, clock)
    <3> HIDE DEF c
    <3> QED BY <1>1, <1>2, <2>1, <2>2, ConstantsOK DEF Prepared, KeventCall
  <2> QED BY <1>1, <1>2, <2>3, EnterOK
<1>3. CASE Leave("none")
  BY <1>3, LeaveOK DEF Leave
<1>4. CASE /\ call.ts # Nil
           /\ call' = Enter([call EXCEPT !.nchanges = 0,
                                         !.ts = tssub(call.expire, clock_gettime)])
  <2> DEFINE ts == tssub(call.expire, clock_gettime)
             c == [call EXCEPT !.nchanges = 0, !.ts = ts]
  <2>1. call.expire \in Stamp /\ Ticks(call.expire) = call.deadline /\ call.deadline \in Int
    BY <1>1, <1>4 DEF KeventCall, CallType
  <2>2. ts \in Stamp /\ Ticks(ts) = call.deadline - clock
    BY <1>1, <2>1, ClockTicks, SubTicks
  <2>3. /\ c.fn = "kevent" /\ c.ts = ts /\ c.nchanges = 0 /\ c.applied = call.applied
        /\ c.expire = call.expire /\ c.deadline = call.deadline
    BY <1>1 DEF CallType
  <2> HIDE DEF ts
  <2>4. c \in CallType
    <3>1. 0 \in 0 .. 1 /\ ts \in Stamp \cup {Nil}
      BY <2>2
    <3> QED BY ONLY <1>1, <3>1 DEF CallType
  <2> HIDE DEF c
  <2>5. Prepared(c, clock)
    BY <1>1, <1>4, <2>1, <2>2, <2>3, <2>4, ConstantsOK DEF Prepared, KeventCall, CallType
  <2> QED BY <1>1, <1>4, <2>5, EnterOK DEF c, ts
<1> QED
  BY <1>2, <1>3, <1>4 DEF kevent_resume_p

LEMMA BackInv ==
    ASSUME TimeInv, Back
    PROVE  TimeInv'
<1>1. call.pc = "back" /\ UNCHANGED <<clock, ready, open>>
  BY DEF Back
<1>2. CallOK(call', clock)
  <2>1. CASE Return
    BY <2>1, LeaveOK DEF Return, Leave
  <2>2. CASE epoll_resume_p
    BY <1>1, <2>2, EpollResumeInv
  <2>3. CASE kevent_resume_p
    BY <1>1, <2>3, KeventResumeInv
  <2>4. CASE Raise
    BY <2>4, LeaveOK DEF Raise, Leave
  <2> QED BY <2>1, <2>2, <2>3, <2>4 DEF Back
<1> QED BY <1>1, <1>2 DEF TimeInv

LEMMA AnswerInv ==
    ASSUME TimeInv, Answer
    PROVE  TimeInv'
<1>1. /\ call \in CallType /\ Placed(call) /\ EpollCall(call) /\ KeventCall(call)
      /\ TimerSet(call) /\ call.pc = "asleep" /\ clock \in Nat /\ MSec \in Nat \ {0}
  BY ConstantsOK DEF TimeInv, CallOK, Answer
<1>2. PICK res \in {"events", "none"} :
          /\ call' = [call EXCEPT !.pc = "back", !.res = res, !.due = Nil]
          /\ res = "none" => call.due # Nil /\ clock >= call.due
  BY DEF Answer
<1>3. /\ call'.pc = "back" /\ call'.res = res /\ call'.fn = call.fn
      /\ call'.timeout = call.timeout /\ call'.ts = call.ts /\ call'.expire = call.expire
      /\ call'.nevents = call.nevents /\ call'.nchanges = call.nchanges
      /\ call'.deadline = call.deadline
  BY <1>1, <1>2 DEF CallType
<1>4. call' \in CallType
  BY <1>1, <1>2 DEF CallType
<1>5. Placed(call') /\ EpollCall(call') /\ KeventCall(call') /\ TimerSet(call')
  BY <1>1, <1>3, ConstantsOK DEF Placed, EpollCall, KeventCall, TimerSet, Unfinished
<1>6. Waited(call', clock)
  BY <1>1, <1>2, <1>3 DEF Waited, Reached, TimerSet, CallType
<1> QED BY <1>4, <1>5, <1>6 DEF TimeInv, CallOK, Answer

LEMMA SignalInv ==
    ASSUME TimeInv, Signal
    PROVE  TimeInv'
<1>1. /\ call \in CallType /\ Placed(call) /\ EpollCall(call) /\ KeventCall(call)
      /\ call.pc = "asleep" /\ call' = [call EXCEPT !.pc = "back", !.res = "EINTR", !.due = Nil]
  BY DEF TimeInv, CallOK, Signal
<1>2. /\ call'.pc = "back" /\ call'.res = "EINTR" /\ call'.fn = call.fn
      /\ call'.timeout = call.timeout /\ call'.ts = call.ts /\ call'.expire = call.expire
      /\ call'.nevents = call.nevents /\ call'.nchanges = call.nchanges
      /\ call'.deadline = call.deadline
  BY <1>1 DEF CallType
<1>3. call' \in CallType
  BY <1>1 DEF CallType
<1>4. /\ Placed(call') /\ EpollCall(call') /\ KeventCall(call') /\ TimerSet(call')
      /\ Waited(call', clock)
  BY <1>1, <1>2, ConstantsOK
     DEF Placed, EpollCall, KeventCall, TimerSet, Unfinished, Waited
<1> QED BY <1>3, <1>4 DEF TimeInv, CallOK, Signal

LEMMA TickInv ==
    ASSUME TimeInv, Tick
    PROVE  TimeInv'
<1>1. /\ call \in CallType /\ Waited(call, clock) /\ clock \in Int
      /\ clock' = clock + 1 /\ clock' \in 0 .. MaxClock /\ MSec \in Int /\ Nil \notin Int
  BY ConstantsOK DEF TimeInv, CallOK, Tick
<1>2. Waited(call, clock')
  <2> SUFFICES ASSUME Reached(call, clock) PROVE Reached(call, clock')
    BY <1>1 DEF Waited
  <2>1. call.deadline \in Int
    BY <1>1 DEF Reached, CallType
  <2> QED BY <1>1, <2>1 DEF Reached
<1> QED BY <1>1, <1>2 DEF TimeInv, CallOK, Tick

LEMMA NextInv == TimeInv /\ [Next]_vars => TimeInv'
<1> SUFFICES ASSUME TimeInv, [Next]_vars PROVE TimeInv'
  OBVIOUS
<1>1. ASSUME NEW timeout \in Timeout, epwait(timeout) PROVE TimeInv'
  BY <1>1, EpwaitInv
<1>2. ASSUME NEW ts \in Timespec, NEW nchanges \in 0 .. 1, NEW nevents \in 0 .. 1,
             sp_kevent(ts, nchanges, nevents)
      PROVE  TimeInv'
  BY <1>2, KeventInv
<1>3. CASE Turn
  BY <1>3 DEF TimeInv, Turn
<1>4. CASE Close
  BY <1>4 DEF TimeInv, Close
<1>5. CASE Interrupted
  BY <1>5, LeaveOK DEF TimeInv, Interrupted, Leave
<1>6. CASE UNCHANGED vars
  BY <1>6 DEF TimeInv, vars
<1> QED
  BY <1>1, <1>2, <1>3, <1>4, <1>5, <1>6, BackInv, AnswerInv, SignalInv, TickInv DEF Next

LEMMA Invariance == Spec => []TimeInv
<1> QED BY InitInv, NextInv, PTL DEF Spec

----------------------------------------------------------------------------
(* Theorems.                                                               *)

\* The variables stay in their types, for any clock and any timeouts.
THEOREM TypeCorrect == Spec => []TypeOK
<1>1. TimeInv => TypeOK
  <2> SUFFICES ASSUME TimeInv PROVE TypeOK
    OBVIOUS
  <2>1. call \in CallType /\ Placed(call)
    BY DEF TimeInv, CallOK
  <2>2. DOMAIN call = DOMAIN Idle
    BY <2>1 DEF CallType, Idle
  <2>3. call.ts # Nil => call.ts.sec \in Int /\ call.ts.nsec \in 0 .. NANO_PER_SEC
    BY <2>1 DEF CallType, Stamp
  <2>4. /\ call.pc \in {"idle", "asleep", "back"} /\ call.fn \in {"epoll_wait", "kevent", Nil}
        /\ call.res \in {"events", "none", "EINTR", "EINVAL", "raised", Nil}
        /\ call.nchanges \in 0 .. 1 /\ call.nevents \in 0 .. 1 /\ call.applied \in Nat
    BY <2>1 DEF CallType
  <2> QED BY <2>1, <2>2, <2>3, <2>4 DEF TypeOK, TimeInv, Placed
<1> QED BY <1>1, Invariance, PTL

\* Whatever signals interrupt a wait and however late the thread gets the GVL
\* back, the timer of epoll_wait(2) ends less than a millisecond from the
\* caller's deadline, and that of kevent(2) at the deadline.
THEOREM DeadlinesKept == Spec => []DeadlineKept
<1>1. TimeInv => DeadlineKept
  BY ConstantsOK DEF TimeInv, CallOK, CallType, Placed, TimerSet, DeadlineKept, Near
<1> QED BY <1>1, Invariance, PTL

\* kevent(2) is given the change list at most once in a call.
THEOREM ChangesOnce == Spec => []AppliedOnce
<1>1. TimeInv => AppliedOnce
  BY DEF TimeInv, CallOK, CallType, AppliedOnce
<1> QED BY <1>1, Invariance, PTL

\* No wait returns without events before its deadline, less the rounding, and
\* one without a deadline never does.
THEOREM NeverEarly == Spec => NotEarly
<1>1. ASSUME TimeInv, [Next]_vars, call.pc = "back", call.nevents = 1,
             call'.pc = "idle", call'.res = "none"
      PROVE  /\ call.deadline # Nil
             /\ clock >= call.deadline \/ Near(clock, call.deadline)
  <2>1. /\ call \in CallType /\ Placed(call) /\ Waited(call, clock) /\ KeventCall(call)
        /\ clock \in Nat /\ MSec \in Nat \ {0} /\ Nil \notin Int \cup Stamp
    BY <1>1, ConstantsOK DEF TimeInv, CallOK, Stamp
  <2>2. Reached(call, clock) =>
           /\ call.deadline # Nil
           /\ clock >= call.deadline \/ Near(clock, call.deadline)
    BY <1>1, <2>1 DEF Reached, Near, Placed, CallType
  <2>3. CASE Return
    <3>1. call' = [Idle EXCEPT !.res = call.res]
      BY <2>3 DEF Return, Leave
    <3>2. call.res = "none"
      BY <1>1, <3>1 DEF Idle
    <3> QED BY <1>1, <2>1, <2>2, <3>2 DEF Waited
  <2>4. CASE epoll_resume_p
    <3>1. PICK t : call' = Enter([call EXCEPT !.timeout = t])
      BY <2>4 DEF epoll_resume_p
    <3>2. "pc" \in DOMAIN [call EXCEPT !.timeout = t]
      BY <2>1 DEF CallType
    <3> QED BY <1>1, <3>1, <3>2, EntersKernel
  <2>5. CASE kevent_resume_p
    <3>1. call.ts # Nil /\ Later(clock_gettime, call.expire)
      <4>1. ASSUME NEW t PROVE /\ "pc" \in DOMAIN [call EXCEPT !.nchanges = 0, !.ts = t]
                               /\ "pc" \in DOMAIN [call EXCEPT !.nchanges = 0]
        BY <2>1 DEF CallType
      <4>2. ASSUME NEW t PROVE /\ call' # Enter([call EXCEPT !.nchanges = 0, !.ts = t])
                               /\ call' # Enter([call EXCEPT !.nchanges = 0])
        BY <1>1, <4>1, EntersKernel
      <4> QED BY <2>5, <4>2 DEF kevent_resume_p
    <3>2. Reached(call, clock)
      <4>1. call.fn = "kevent" /\ call.expire \in Stamp /\ Ticks(call.expire) = call.deadline
        BY <2>1, <2>5, <3>1 DEF KeventCall, kevent_resume_p
      <4>2. clock >= call.deadline
        BY <2>1, <3>1, <4>1, ClockTicks, LaterTicks
      <4> QED BY <2>1, <3>1, <4>1, <4>2 DEF Reached, KeventCall
    <3> QED BY <2>2, <3>2
  <2>6. CASE Raise \/ Interrupted
    BY <1>1, <2>6 DEF Raise, Interrupted, Leave, Idle
  <2>7. ~UNCHANGED call
    BY <1>1
  <2>8. Back \/ Interrupted
    BY <1>1, <2>7 DEF Next, vars, epwait, sp_kevent, Answer, Signal, Tick, Turn, Close
  <2> QED BY <2>3, <2>4, <2>5, <2>6, <2>8 DEF Back
<1> QED BY <1>1, Invariance, PTL DEF Spec, NotEarly

\* A wait that comes back to a closed descriptor ends: it raises, or returns what
\* it has, and does not enter the kernel again.
THEOREM ClosedWaitsEnd == Spec => ClosedEnds
<1>1. ASSUME [Next]_vars, call.pc = "back", ~open
      PROVE  call'.pc = "idle" \/ UNCHANGED call
  <2>1. CASE Back
    BY <1>1, <2>1
       DEF Back, Return, Raise, Leave, Idle, epoll_resume_p, kevent_resume_p
  <2>2. CASE Interrupted
    BY <2>2 DEF Interrupted, Leave, Idle
  <2> QED
    BY <1>1, <2>1, <2>2
       DEF Next, vars, epwait, sp_kevent, Answer, Signal, Tick, Turn, Close
<1> QED BY <1>1, PTL DEF Spec, ClosedEnds
=============================================================================
