--------------------------- MODULE EventFDProofs ---------------------------
(***************************************************************************)
(* Proofs about EventFD, for any number of threads and any maximum.        *)
(***************************************************************************)
EXTENDS EventFD, FiniteSetTheorems, WellFoundedInduction, TLAPS

\* A nonblocking call in progress has set O_NONBLOCK, and nothing clears it.
FlagKept == \A t \in Thread : call[t].nb => nonblock

\* A call that is back from its system call knows how that ended.
Answered == \A t \in Thread : call[t].pc = "back" => call[t].res # Nil

WaitInv == TypeOK /\ FlagKept /\ Answered /\ NonblockReturns

Call == [pc  : {"idle", "enter", "asleep", "back", "wait"},
         op  : {"incr", "value", Nil},
         val : 0 .. MAX + 1,
         nb  : BOOLEAN,
         res : {"done", "EAGAIN", "EINTR", "EINVAL", Nil}]

\* The type invariant but for the calls.
Others ==
    /\ kind \in {"eventfd", "timerfd"} /\ flags \in NewFlags
    /\ counter \in 0 .. MAX
    /\ timer \in [interval : Timespec, value : Timespec]
    /\ want \in Setting \cup {Stopped} /\ sets \in 0 .. MaxSets
    /\ nonblock \in BOOLEAN /\ semaphore \in BOOLEAN /\ open \in BOOLEAN
    /\ asked \in BOOLEAN
    /\ kills \in 0 .. MaxKills
    /\ owed \in Int /\ lost \in Nat /\ untold \in Nat

LEMMA TypeSplit == TypeOK <=> Others /\ call \in [Thread -> Call]
BY DEF TypeOK, Others, Call

LEMMA IdleTyped == Idle \in Call /\ Idle.nb = FALSE /\ Idle.pc = "idle"
BY ConstantsOK DEF Idle, Call

\* Thread t goes on with call c.
LEMMA CallStep ==
    ASSUME WaitInv, NEW t \in Thread, NEW c \in Call,
           call' = [call EXCEPT ![t] = c],
           Others', nonblock => nonblock',
           c.nb => nonblock' /\ c.pc \notin {"asleep", "wait"},
           c.pc = "back" => c.res # Nil
    PROVE  WaitInv'
<1>1. call \in [Thread -> Call]
  BY TypeSplit DEF WaitInv
<1>2. \A s \in Thread : call'[s] = IF s = t THEN c ELSE call[s]
  BY <1>1
<1>3. call' \in [Thread -> Call]
  BY <1>1
<1>4. TypeOK'
  <2>1. TypeOK' <=> Others' /\ call' \in [Thread -> Call]
    BY DEF TypeOK, Others, Call
  <2> QED BY <1>3, <2>1
<1>5. FlagKept' /\ Answered' /\ NonblockReturns'
  BY <1>2 DEF WaitInv, FlagKept, Answered, NonblockReturns
<1> QED BY <1>4, <1>5 DEF WaitInv

LEMMA WaitInit == Init => WaitInv
<1> SUFFICES ASSUME Init PROVE WaitInv
  OBVIOUS
<1>1. ZeroTimespec \in Timespec
  BY DEF ZeroTimespec, Timespec
<1>2. kind \in {"eventfd", "timerfd"} /\ flags \in NewFlags
  BY DEF Init
<1>3. nonblock \in BOOLEAN /\ semaphore \in BOOLEAN
  BY DEF Init
<1>4. counter \in 0 .. MAX /\ owed \in Int
  BY ConstantsOK DEF Init
<1>5. Others
  <2>1. timer = [interval |-> ZeroTimespec, value |-> ZeroTimespec]
    BY DEF Init
  <2>2. /\ want = Stopped /\ sets = 0 /\ open = TRUE /\ asked = FALSE
        /\ kills = 0 /\ lost = 0 /\ untold = 0
    BY DEF Init
  <2>3. sets \in 0 .. MaxSets /\ kills \in 0 .. MaxKills
    BY <2>2, ConstantsOK
  <2>4. timer \in [interval : Timespec, value : Timespec]
    BY <1>1, <2>1
  <2> QED BY <1>2, <1>3, <1>4, <2>2, <2>3, <2>4 DEF Others
<1>6. call = [t \in Thread |-> Idle]
  BY DEF Init
<1>7. TypeOK
  BY <1>5, <1>6, IdleTyped, TypeSplit
<1> QED BY <1>6, <1>7, IdleTyped DEF WaitInv, FlagKept, Answered, NonblockReturns

\* A step that leaves the calls alone.
LEMMA QuietStep ==
    ASSUME WaitInv, UNCHANGED <<call, nonblock>>, Others'
    PROVE  WaitInv'
<1>1. TypeOK' <=> Others' /\ call' \in [Thread -> Call]
  BY DEF TypeOK, Others, Call
<1>2. call \in [Thread -> Call]
  BY TypeSplit DEF WaitInv
<1> QED BY <1>1, <1>2 DEF WaitInv, FlagKept, Answered, NonblockReturns

LEMMA ConversionTyped == \A num \in Int : value2timespec(num) \in [sec : Int, nsec : Int]
BY TimespecOK DEF value2timespec, Round

LEMMA WaitNext == WaitInv /\ [Next]_vars => WaitInv'
<1> SUFFICES ASSUME WaitInv, Next PROVE WaitInv'
  <2>1. ASSUME WaitInv, UNCHANGED vars PROVE WaitInv'
    <3>0. Others
      BY <2>1, TypeSplit DEF WaitInv
    <3>1. UNCHANGED <<kind, flags, semaphore, counter, nonblock, timer, sets, open, call,
                      want, kills, asked, owed, lost, untold>>
      BY <2>1 DEF vars, kernelVars, born, books
    <3>2. Others'
      BY <3>0, <3>1, Zenon DEF Others
    <3> QED BY <2>1, <3>1, <3>2, QuietStep
  <2> QED BY <2>1
<1>0. /\ Others /\ counter \in 0 .. MAX /\ owed \in Int /\ MAX \in Nat
      /\ nonblock \in BOOLEAN
      /\ \A t \in Thread :
          /\ call[t] \in Call
          /\ call[t].nb => nonblock /\ call[t].pc \notin {"asleep", "wait"}
          /\ call[t].pc = "back" => call[t].res # Nil
      /\ Nil \notin {"done", "EAGAIN", "EINTR", "EINVAL"}
  BY ConstantsOK, TypeSplit DEF WaitInv, Others, FlagKept, Answered, NonblockReturns
<1>1. CASE Close
  <2>1. Others' /\ UNCHANGED <<call, nonblock>>
    BY <1>0, <1>1 DEF Close, kernelVars, born, books, Others
  <2> QED BY <2>1, QuietStep
<1>9. ASSUME NEW a \in Setting, settime(a)
      PROVE  WaitInv'
  <2> DEFINE new == [interval |-> value2timespec(a.interval), value |-> value2timespec(a.value)]
  <2>1. a.interval \in Int /\ a.value \in Int
    BY ConstantsOK
  <2>2. new \in [interval : Timespec, value : Timespec]
    BY <2>1, ConversionTyped DEF Timespec
  <2>3. /\ sets' \in 0 .. MaxSets
        /\ \/ timer' = new /\ want' = a /\ counter' = 0 /\ owed' = owed - counter
           \/ UNCHANGED <<timer, want, counter, owed>>
        /\ UNCHANGED <<born, nonblock, open, call, kills, asked, lost, untold>>
    <3>1. sets \in 0 .. MaxSets /\ MaxSets \in Nat
      BY <1>0, ConstantsOK DEF Others
    <3> QED BY <1>9, <3>1 DEF settime
  <2> HIDE DEF new
  <2>4. counter' \in 0 .. MAX /\ owed' \in Int
    BY <1>0, <2>3
  <2>5. Others'
    BY <1>0, <2>2, <2>3, <2>4 DEF Others, born
  <2> QED BY <2>3, <2>5, QuietStep
<1>10. CASE Expire
  <2>1. timer \in [interval : Timespec, value : Timespec]
    BY <1>0 DEF Others
  <2>2. [timer EXCEPT !.value = timer.interval] \in [interval : Timespec, value : Timespec]
    BY <2>1
  <2>3. counter' \in 0 .. MAX /\ owed' \in Int
    BY <1>0, <1>10 DEF Expire
  <2>4. Others'
    BY <1>0, <1>10, <2>2, <2>3 DEF Expire, Others, born
  <2> QED BY <1>10, <2>4, QuietStep DEF Expire
<1>2. ASSUME NEW t \in Thread, NEW op \in {"incr", "value"}, NEW val \in 0 .. MAX + 1,
             NEW nb \in BOOLEAN, Begin(t, op, val, nb)
      PROVE  WaitInv'
  <2> DEFINE c == [Idle EXCEPT !.pc = "enter", !.op = op, !.val = val, !.nb = nb]
  <2>1. c \in Call /\ c.nb = nb /\ c.pc = "enter"
    BY IdleTyped DEF Call
  <2>2. /\ call' = [call EXCEPT ![t] = c] /\ nonblock' = (nonblock \/ nb)
        /\ UNCHANGED <<born, counter, timer, sets, open, want, kills, books>>
        /\ asked' = (asked \/ nb)
    BY <1>2 DEF Begin
  <2>3. Others' /\ (nonblock => nonblock') /\ (nb => nonblock')
    <3>1. nonblock \in BOOLEAN /\ asked \in BOOLEAN
      BY <1>0 DEF Others
    <3>2. nonblock' \in BOOLEAN /\ asked' \in BOOLEAN
      BY <2>2, <3>1, Zenon
    <3> QED BY <1>0, <2>2, <3>2 DEF Others, born, books
  <2> HIDE DEF c
  <2> QED BY <2>1, <2>2, <2>3, CallStep
<1>3. ASSUME NEW t \in Thread, Syscall(t)
      PROVE  WaitInv'
  <2>0. UNCHANGED <<born, nonblock, timer, sets, open, want, kills, asked, books>>
    BY <1>3 DEF Syscall
  <2>9. counter' \in 0 .. MAX => Others'
    BY <1>0, <2>0 DEF Others, born, books
  <2>1. CASE Transfer(t)
    <3> DEFINE v == IF call[t].op = "incr" THEN call[t].val ELSE Portion
               c == [call[t] EXCEPT !.pc = "back", !.res = "done", !.val = v]
    <3>0. call[t].val \in 0 .. MAX + 1 /\ Portion \in 0 .. MAX
          /\ (counter > 0 => counter - Portion \in 0 .. MAX)
      <4>1. call[t].val \in 0 .. MAX + 1
        BY <1>0 DEF Call
      <4>2. semaphore => Portion = 1
        BY DEF Portion
      <4>3. ~semaphore => Portion = counter
        BY DEF Portion
      <4>4. MAX >= 1
        BY ConstantsOK
      <4> QED BY <1>0, <4>1, <4>2, <4>3, <4>4
    <3>1. counter' \in 0 .. MAX /\ v \in 0 .. MAX + 1
      <4>1. CASE call[t].op = "incr"
        BY <1>0, <2>1, <3>0, <4>1 DEF Transfer, Possible
      <4>2. CASE call[t].op # "incr"
        BY <1>0, <2>1, <3>0, <4>2 DEF Transfer, Possible
      <4> QED BY <4>1, <4>2
    <3>2. c \in Call /\ c.nb = call[t].nb /\ c.pc = "back" /\ c.res # Nil
      BY <1>0, <3>1 DEF Call
    <3>3. call' = [call EXCEPT ![t] = c]
      BY <2>1 DEF Transfer
    <3> HIDE DEF c
    <3> QED BY <1>0, <2>0, <2>9, <3>1, <3>2, <3>3, CallStep
  <2>2. CASE Decline(t)
    <3>0. UNCHANGED counter
      BY <2>2 DEF Decline
    <3>1. CASE call[t].val > MAX \/ nonblock
      <4> DEFINE e == IF call[t].val > MAX THEN "EINVAL" ELSE "EAGAIN"
                 c == [call[t] EXCEPT !.pc = "back", !.res = e]
      <4>1. c \in Call /\ c.nb = call[t].nb /\ c.pc = "back" /\ c.res # Nil
        BY <1>0 DEF Call
      <4>2. call' = [call EXCEPT ![t] = c]
        BY <2>2, <3>1 DEF Decline
      <4> HIDE DEF c
      <4> QED BY <1>0, <2>0, <2>9, <3>0, <4>1, <4>2, CallStep
    <3>2. CASE ~(call[t].val > MAX \/ nonblock)
      <4> DEFINE c == [call[t] EXCEPT !.pc = "asleep"]
      <4>1. c \in Call /\ c.nb = call[t].nb /\ ~c.nb /\ c.pc = "asleep"
        BY <1>0, <3>2 DEF Call
      <4>2. call' = [call EXCEPT ![t] = c]
        BY <2>2, <3>2 DEF Decline
      <4> HIDE DEF c
      <4> QED BY <1>0, <2>0, <2>9, <3>0, <4>1, <4>2, CallStep
    <3> QED BY <3>1, <3>2
  <2> QED BY <1>3, <2>1, <2>2 DEF Syscall
<1>4. ASSUME NEW t \in Thread, Signal(t)
      PROVE  WaitInv'
  <2> DEFINE c == [call[t] EXCEPT !.pc = "back", !.res = "EINTR"]
  <2>1. c \in Call /\ c.nb = call[t].nb /\ c.pc = "back" /\ c.res # Nil
    BY <1>0 DEF Call
  <2>2. call' = [call EXCEPT ![t] = c] /\ Others' /\ UNCHANGED nonblock
    BY <1>0, <1>4 DEF Signal, kernelVars, born, books, Others
  <2> HIDE DEF c
  <2> QED BY <1>0, <2>1, <2>2, CallStep
<1>5. ASSUME NEW t \in Thread, Deliver(t),
             UNCHANGED <<kernelVars, sets, open, want, kills, asked, lost, untold>>
      PROVE  WaitInv'
  <2>1. call' = [call EXCEPT ![t] = Idle] /\ owed' \in Int
    BY <1>0, <1>5 DEF Deliver, Leave, Settled, Call
  <2>2. Others' /\ UNCHANGED nonblock
    BY <1>0, <1>5, <2>1 DEF kernelVars, born, Others
  <2> QED BY <2>1, <2>2, IdleTyped, CallStep
<1>11. ASSUME NEW t \in Thread, Interrupted(t)
       PROVE  WaitInv'
  <2>0. /\ kills \in 0 .. MaxKills /\ lost \in Nat /\ untold \in Nat /\ MaxKills \in Nat
        /\ call[t].val \in Nat
    BY <1>0, ConstantsOK DEF Others, Call
  <2>1. /\ call' = [call EXCEPT ![t] = Idle]
        /\ UNCHANGED <<kernelVars, sets, open, want, asked, owed>>
    BY <1>11 DEF Interrupted, Leave
  <2>2. kills' \in 0 .. MaxKills
    BY <1>11, <2>0 DEF Interrupted
  <2>3. lost' \in Nat /\ untold' \in Nat
    BY <1>11, <2>0 DEF Interrupted
  <2>4. Others' /\ UNCHANGED nonblock
    BY <1>0, <2>1, <2>2, <2>3 DEF kernelVars, born, Others
  <2> QED BY <2>1, <2>4, IdleTyped, CallStep
<1>6. ASSUME NEW t \in Thread, call[t].pc = "back", Retry(t),
             UNCHANGED <<kernelVars, sets, open, want, kills, asked, lost, untold>>
      PROVE  WaitInv'
  <2> DEFINE w == [call[t] EXCEPT !.pc = "wait", !.res = Nil]
             e == [call[t] EXCEPT !.pc = "enter", !.res = Nil]
  <2>0. ~Returns(call[t]) /\ Others' /\ UNCHANGED nonblock
    BY <1>0, <1>6 DEF Retry, kernelVars, born, Others
  <2>1. CASE call[t].res = "EAGAIN"
    <3>1. call' = [call EXCEPT ![t] = w]
      BY <1>6, <2>1 DEF Retry
    <3>2. w \in Call /\ w.nb = call[t].nb /\ ~w.nb /\ w.pc = "wait"
      BY <1>0, <2>0, <2>1 DEF Call, Returns
    <3> HIDE DEF w
    <3> QED BY <1>0, <2>0, <3>1, <3>2, CallStep
  <2>2. CASE call[t].res = "EINTR"
    <3>1. call' = [call EXCEPT ![t] = e]
      BY <1>6, <2>2 DEF Retry
    <3>2. e \in Call /\ e.nb = call[t].nb /\ e.pc = "enter"
      BY <1>0 DEF Call
    <3> HIDE DEF e
    <3> QED BY <1>0, <2>0, <3>1, <3>2, CallStep
  <2>3. CASE call[t].res = "EINVAL"
    <3>1. call' = [call EXCEPT ![t] = Idle]
      BY <1>6, <2>3 DEF Retry
    <3> QED BY <1>0, <2>0, <3>1, IdleTyped, CallStep
  <2> QED BY <1>0, <1>6, <2>0, <2>1, <2>2, <2>3 DEF Retry, Returns, Call
<1>7. ASSUME NEW t \in Thread, WakeUp(t)
      PROVE  WaitInv'
  <2> DEFINE c == [call[t] EXCEPT !.pc = "enter"]
  <2>1. c \in Call /\ c.nb = call[t].nb /\ c.pc = "enter"
    BY <1>0 DEF Call
  <2>2. call' = [call EXCEPT ![t] = c] /\ Others' /\ UNCHANGED nonblock
    BY <1>0, <1>7 DEF WakeUp, kernelVars, born, books, Others
  <2> HIDE DEF c
  <2> QED BY <1>0, <2>1, <2>2, CallStep
<1>8. ASSUME NEW t \in Thread, Back(t)
      PROVE  WaitInv'
  BY <1>5, <1>6, <1>8 DEF Back
<1> QED BY <1>1, <1>2, <1>3, <1>4, <1>7, <1>8, <1>9, <1>10, <1>11, ConstantsOK DEF Next, Progress

\* The type invariant: in particular the counter stays within 0 .. MAX.
THEOREM TypeCorrect == Spec => []TypeOK
<1>1. WaitInv => TypeOK
  BY DEF WaitInv
<1> QED BY <1>1, WaitInit, WaitNext, PTL DEF Spec

\* A nonblocking #incr, #value or #expirations never sleeps and never waits for the
\* descriptor, whatever other threads do to it.
THEOREM NonblockingCallsReturn == Spec => []NonblockReturns
<1>1. WaitInv => NonblockReturns
  BY DEF WaitInv
<1> QED BY <1>1, WaitInit, WaitNext, PTL DEF Spec

----------------------------------------------------------------------------
(* The mode of the descriptor.                                             *)

\* Flags that are accepted are the named bits, apart from the default.
LEMMA FlagBits ==
    ASSUME NEW klass, NEW arg, arg.type \in ArgType,
           ~rb_sp_get_flags(klass, arg, {19}).raises
    PROVE  \A b \in {0, 11} : b \in rb_sp_get_flags(klass, arg, {19}).bits <=> b \in Named(klass, arg)
<1> DEFINE fl == rb_sp_get_flags(klass, arg, {19})
<1>a. \A S : Bits(S).bits = S /\ Bits(S).raises = FALSE /\ Raise.raises = TRUE
  BY DEF Bits, Raise
<1>b. \A S : ~ToC(S, 31).raises => ToC(S, 31).bits = S
  BY <1>a DEF ToC
<1>c. \A name : ~ConstGet(klass, name, 31).raises => ConstGet(klass, name, 31).bits = klass[name]
  BY <1>a, <1>b DEF ConstGet
<1>1. CASE arg.type = "nil"
  <2>1. fl = Bits({19}) /\ Named(klass, arg) = {}
    BY <1>1 DEF rb_sp_get_flags, GetFlags, Named
  <2> QED BY <1>a, <2>1
<1>2. CASE arg.type = "integer"
  <2>1. fl = ToC(arg.bits, 31) /\ Named(klass, arg) = arg.bits
    BY <1>2 DEF rb_sp_get_flags, GetFlags, Named
  <2> QED BY <1>b, <2>1
<1>3. CASE arg.type = "symbol"
  <2>1. fl = ConstGet(klass, arg.name, 31) /\ Named(klass, arg) = klass[arg.name]
    BY <1>3 DEF rb_sp_get_flags, GetFlags, Named
  <2> QED BY <1>c, <2>1
<1>4. CASE arg.type = "array"
  <2> DEFINE names == arg.names
             got == {ConstGet(klass, names[i], 31) : i \in DOMAIN names}
  <2>1. /\ fl = FromArray(klass, names, 31)
        /\ Named(klass, arg) = UNION {klass[names[i]] : i \in DOMAIN names}
    BY <1>4 DEF rb_sp_get_flags, GetFlags, Named
  <2>2. (\A r \in got : ~r.raises) /\ fl.bits = UNION {r.bits : r \in got}
    BY <1>a, <2>1 DEF FromArray
  <2> HIDE DEF fl, names
  <2>3. \A i \in DOMAIN names : ConstGet(klass, names[i], 31).bits = klass[names[i]]
    BY <1>c, <2>2
  <2>4. \A b : b \in fl.bits <=> \E i \in DOMAIN names : b \in klass[names[i]]
    BY <2>2, <2>3
  <2>5. \A b : b \in Named(klass, arg) <=> \E i \in DOMAIN names : b \in klass[names[i]]
    BY <2>1
  <2> QED BY <2>4, <2>5 DEF fl
<1>5. CASE arg.type = "other"
  <2>1. fl = Raise
    BY <1>5 DEF rb_sp_get_flags, GetFlags
  <2> QED BY <1>a, <2>1
<1> QED BY <1>1, <1>2, <1>3, <1>4, <1>5 DEF ArgType

LEMMA ModeInit == Init => ModeKept
<1> SUFFICES ASSUME Init PROVE ModeKept
  OBVIOUS
<1> DEFINE fl == rb_sp_get_flags(Klass(kind), flags, {19})
<1>1. /\ ~fl.raises /\ flags \in NewFlags /\ asked = FALSE
      /\ nonblock = (11 \in fl.bits) /\ semaphore = (0 \in fl.bits)
  BY DEF Init
<1>2. flags.type \in ArgType
  BY <1>1, ConstantsOK
<1>3. \A b \in {0, 11} : b \in fl.bits <=> b \in Named(Klass(kind), flags)
  BY <1>1, <1>2, FlagBits
<1> HIDE DEF fl
<1> QED BY <1>1, <1>3 DEF ModeKept

LEMMA ModeNext == WaitInv /\ ModeKept /\ [Next]_vars => ModeKept'
<1> SUFFICES ASSUME TypeOK, ModeKept, [Next]_vars PROVE ModeKept'
  BY DEF WaitInv
<1>0. nonblock \in BOOLEAN /\ asked \in BOOLEAN
  BY DEF TypeOK
<1>1. CASE UNCHANGED <<born, nonblock, asked>>
  BY <1>1 DEF ModeKept, born
<1>2. ASSUME NEW t \in Thread, NEW op, NEW val, NEW nb \in BOOLEAN, Begin(t, op, val, nb)
      PROVE  ModeKept'
  <2>1. nonblock' = (nonblock \/ nb) /\ asked' = (asked \/ nb) /\ UNCHANGED born
    BY <1>2 DEF Begin
  <2> QED BY <1>0, <2>1, Zenon DEF ModeKept, born
<1>3. CASE UNCHANGED vars
  BY <1>1, <1>3 DEF vars, kernelVars
<1>4. CASE Close \/ Expire \/ \E a \in Setting : settime(a)
  BY <1>1, <1>4 DEF Close, Expire, settime, kernelVars
<1>5. ASSUME NEW t \in Thread, Progress(t) \/ Signal(t) \/ Interrupted(t)
      PROVE  ModeKept'
  BY <1>1, <1>5 DEF Progress, Syscall, Back, WakeUp, Signal, Interrupted, kernelVars
<1> QED BY <1>2, <1>3, <1>4, <1>5 DEF Next

\* The descriptor stays in the mode that the flags of .new name, whichever type
\* of argument they are, and O_NONBLOCK is set by nonblocking calls only.
THEOREM ModeIsKept == Spec => []ModeKept
BY WaitInit, WaitNext, ModeInit, ModeNext, PTL DEF Spec

----------------------------------------------------------------------------
(* The timer.                                                              *)

\* What \div and % are, for the provers.
LEMMA DivMod ==
    ASSUME NEW a \in Int, NEW b \in Nat \ {0}
    PROVE  a \div b \in Int /\ a % b \in 0 .. b - 1 /\ a = (a \div b) * b + (a % b)
OBVIOUS

\* Adding a half and cutting off is half a nanosecond off at most.
LEMMA RoundNear ==
    ASSUME NEW d \in Nat
    PROVE  /\ Round(d) \in Int /\ Round(d) * Grains \in Int
           /\ 2 * (Round(d) * Grains - d) <= Grains
           /\ -2 * (Round(d) * Grains - d) <= Grains
<1> DEFINE a == 2 * d + Grains
           r == Round(d)
<1>0. a \in Int /\ 2 * Grains \in Nat \ {0} /\ Grains \in Nat \ {0}
  BY TimespecOK
<1>1. r \in Int /\ a % (2 * Grains) \in 0 .. 2 * Grains - 1
      /\ a = r * (2 * Grains) + (a % (2 * Grains))
  BY <1>0, DivMod DEF Round
<1> DEFINE m == a % (2 * Grains)
<1>2. m \in Int /\ 0 <= m /\ m <= 2 * Grains - 1
  BY <1>0, <1>1
<1>3. r * (2 * Grains) = 2 * (r * Grains) /\ r * Grains \in Int
  BY <1>0, <1>1
<1>4. 2 * d + Grains = 2 * (r * Grains) + m
  BY <1>1, <1>3
<1> HIDE DEF r, m
<1>5. 2 * (r * Grains - d) <= Grains /\ -2 * (r * Grains - d) <= Grains
  <2> DEFINE k == r * Grains
  <2>1. k \in Int /\ 2 * d + Grains = 2 * k + m
    BY <1>3, <1>4
  <2> HIDE DEF k
  <2>2. 2 * (k - d) <= Grains /\ -2 * (k - d) <= Grains
    BY <1>0, <1>2, <2>1
  <2> QED BY <2>2 DEF k
<1> QED BY <1>1, <1>3, <1>5 DEF r

\* value2timespec gives the nearest nanosecond, before and after zero.
LEMMA ConversionNear == ASSUME NEW num \in Int PROVE Near(value2timespec(num), num)
<1> DEFINE unit == NSEC * Grains
           size == IF num >= 0 THEN num ELSE -num
           q == size \div unit
           d == size % unit
           n == Round(d)
<1>0. NSEC \in Nat \ {0} /\ Grains \in Nat \ {0} /\ unit \in Nat \ {0} /\ size \in Nat
  BY TimespecOK
<1>1. q \in Int /\ d \in Nat /\ size = q * unit + d
  <2> HIDE DEF unit, size
  <2>1. size \in Int
    BY <1>0
  <2>2. q \in Int /\ d \in 0 .. unit - 1 /\ size = q * unit + d
    BY <1>0, <2>1, DivMod
  <2> QED BY <1>0, <2>2
<1>2. n \in Int /\ n * Grains \in Int /\ 2 * (n * Grains - d) <= Grains
      /\ -2 * (n * Grains - d) <= Grains
  BY <1>1, RoundNear
<1>3. CASE num >= 0
  <2>1. value2timespec(num) = [sec |-> q, nsec |-> n]
    BY <1>3 DEF value2timespec
  <2>2. size = num
    BY <1>3
  <2> HIDE DEF q, d, n, size
  <2>3. (q * NSEC + n) * Grains = q * unit + n * Grains
    BY <1>0, <1>1, <1>2
  <2>4. q * unit \in Int
    BY <1>0, <1>1
  <2> HIDE DEF unit
  <2>5. (q * NSEC + n) * Grains - num = n * Grains - d
    BY <1>1, <1>2, <2>2, <2>3, <2>4
  <2> QED BY <1>2, <2>1, <2>5 DEF Near
<1>4. CASE num < 0
  <2>1. value2timespec(num) = IF n > 0 THEN [sec |-> -q - 1, nsec |-> NSEC - n]
                                       ELSE [sec |-> -q, nsec |-> 0]
    BY <1>4 DEF value2timespec
  <2>2. size = -num
    BY <1>4
  <2>a. n >= 0
    <3>1. 2 * d + Grains \in Nat /\ 2 * Grains \in Nat \ {0}
      BY <1>0, <1>1
    <3> QED BY <3>1 DEF Round
  <2> HIDE DEF q, d, n, size
  <2>3. /\ ((-q - 1) * NSEC + (NSEC - n)) * Grains = -(q * unit) - n * Grains
        /\ n = 0 => ((-q) * NSEC + 0) * Grains = -(q * unit) - n * Grains
    BY <1>0, <1>1, <1>2
  <2>4. q * unit \in Int
    BY <1>0, <1>1
  <2> HIDE DEF unit
  <2>5. /\ ((-q - 1) * NSEC + (NSEC - n)) * Grains - num = -(n * Grains - d)
        /\ n = 0 => ((-q) * NSEC + 0) * Grains - num = -(n * Grains - d)
    BY <1>1, <1>2, <2>2, <2>3, <2>4
  <2>6. 2 * (-(n * Grains - d)) <= Grains /\ -2 * (-(n * Grains - d)) <= Grains
    BY <1>1, <1>2
  <2>7. CASE n > 0
    BY <2>1, <2>5, <2>6, <2>7 DEF Near
  <2>8. CASE n = 0
    BY <2>1, <2>5, <2>6, <2>8 DEF Near
  <2> QED BY <1>2, <2>a, <2>7, <2>8
<1> QED BY <1>3, <1>4

LEMMA ToldInit == Init => AsTold
<1>1. Near(ZeroTimespec, 0)
  BY TimespecOK DEF Near, ZeroTimespec
<1> QED BY <1>1 DEF Init, AsTold, Stopped, Running

LEMMA ToldNext == AsTold /\ [Next]_vars => AsTold'
<1> SUFFICES ASSUME AsTold, [Next]_vars PROVE AsTold'
  OBVIOUS
<1>1. CASE UNCHANGED <<timer, want>>
  BY <1>1 DEF AsTold, Running
<1>2. ASSUME NEW a \in Setting, settime(a) PROVE AsTold'
  <2> DEFINE new == [interval |-> value2timespec(a.interval), value |-> value2timespec(a.value)]
  <2>1. UNCHANGED <<timer, want>> \/ (timer' = new /\ want' = a)
    BY <1>2 DEF settime
  <2>2. Near(new.interval, a.interval) /\ Near(new.value, a.value)
    BY ConstantsOK, ConversionNear
  <2> HIDE DEF new
  <2> QED BY <1>1, <2>1, <2>2 DEF AsTold, Running
<1>3. CASE Expire
  <2>1. timer' = [timer EXCEPT !.value = timer.interval] /\ want' = want
    BY <1>3 DEF Expire
  <2> QED BY <2>1 DEF AsTold, Running
<1>4. CASE UNCHANGED vars
  BY <1>1, <1>4 DEF vars, kernelVars
<1>5. CASE Close
  BY <1>1, <1>5 DEF Close, kernelVars
<1>6. ASSUME NEW t \in Thread, NEW op, NEW val, NEW nb, Begin(t, op, val, nb)
      PROVE  AsTold'
  BY <1>1, <1>6 DEF Begin
<1>7. ASSUME NEW t \in Thread, Progress(t) \/ Signal(t) \/ Interrupted(t)
      PROVE  AsTold'
  BY <1>1, <1>7 DEF Progress, Syscall, Back, WakeUp, Signal, Interrupted, kernelVars
<1> QED BY <1>2, <1>3, <1>4, <1>5, <1>6, <1>7 DEF Next

\* The timer runs as #settime was told, to the nearest nanosecond, for every
\* number of seconds, however it is rounded and whichever sign it has.
THEOREM TimerAsTold == Spec => []AsTold
BY ToldInit, ToldNext, PTL DEF Spec

----------------------------------------------------------------------------
(* Sums over the threads.                                                  *)

\* A set of naturals has a least element.
LEMMA Least ==
    ASSUME NEW S, S \subseteq Nat, S # {}
    PROVE  \E x \in S : \A y \in S : x <= y
<1> DEFINE R == {ss \in Nat \X Nat : ss[1] < ss[2]}
<1>1. IsWellFoundedOn(R, Nat)
  BY NatLessThanWellFounded DEF OpToRel
<1>2. \A x, y \in Nat : y < x => <<y, x>> \in R
  OBVIOUS
<1>3. PICK x \in S : \A y \in S : <<y, x>> \notin R
  <2> HIDE DEF R
  <2> QED BY <1>1, WFMin
<1>4. ASSUME NEW y \in S PROVE x <= y
  <2> HIDE DEF R
  <2>1. x \in Nat /\ y \in Nat /\ ~(y < x)
    BY <1>2, <1>3
  <2> QED BY <2>1
<1> QED BY <1>4

\* Induction, for a set of naturals.
LEMMA SetInduction ==
    ASSUME NEW S, 0 \in S, \A n \in Nat : n \in S => n + 1 \in S
    PROVE  Nat \subseteq S
<1> SUFFICES ASSUME Nat \ S # {} PROVE FALSE
  OBVIOUS
<1>1. PICK x \in Nat \ S : \A y \in Nat \ S : x <= y
  BY Least
<1>2. x - 1 \in Nat /\ (x - 1) + 1 = x
  BY <1>1
<1> QED BY <1>1, <1>2

\* The subsets of T with at most n elements.
Small(T, n) == {s \in SUBSET T : Cardinality(s) <= n}

Pick(s) == CHOOSE x \in s : TRUE

\* The sum of f over each set in D, an element at a time.
IsSum(g, f, D) ==
    g = [s \in D |-> IF s = {} THEN 0 ELSE f[Pick(s)] + g[s \ {Pick(s)}]]

\* What is left of a set without the picked element.
LEMMA Smaller ==
    ASSUME NEW T, IsFiniteSet(T), NEW n \in Nat, NEW s \in Small(T, n + 1), s # {}
    PROVE  Pick(s) \in s /\ s \ {Pick(s)} \in Small(T, n)
<1>1. Pick(s) \in s
  BY DEF Pick
<1>2. IsFiniteSet(s) /\ s \ {Pick(s)} \in SUBSET T /\ Cardinality(s) <= n + 1
  BY FS_Subset DEF Small
<1>3. Cardinality(s \ {Pick(s)}) = Cardinality(s) - 1 /\ Cardinality(s) \in Nat
  BY <1>1, <1>2, FS_RemoveElement, FS_CardinalityType
<1> QED BY <1>1, <1>2, <1>3 DEF Small

LEMMA NoSmaller == ASSUME NEW T, IsFiniteSet(T) PROVE Small(T, 0) = {{}}
<1>1. ASSUME NEW s \in Small(T, 0) PROVE s = {}
  <2>1. IsFiniteSet(s) /\ Cardinality(s) <= 0
    BY FS_Subset DEF Small
  <2> QED BY <2>1, FS_CardinalityType, FS_EmptySet
<1>2. {} \in Small(T, 0)
  BY FS_EmptySet DEF Small
<1> QED BY <1>1, <1>2

\* The recursion of the fold has a solution.
LEMMA SumExists ==
    ASSUME NEW T, IsFiniteSet(T), NEW f
    PROVE  \E g : IsSum(g, f, SUBSET T)
<1> DEFINE S == {n \in Nat : \E g : IsSum(g, f, Small(T, n))}
<1>1. 0 \in S
  <2> DEFINE h == [s \in {{}} |-> 0]
  <2>1. IsSum(h, f, {{}})
    BY DEF IsSum
  <2> QED BY <2>1, NoSmaller
<1>2. ASSUME NEW n \in Nat, n \in S PROVE n + 1 \in S
  <2>1. PICK g : IsSum(g, f, Small(T, n))
    BY <1>2
  <2> DEFINE h == [s \in Small(T, n + 1) |->
                     IF s = {} THEN 0 ELSE f[Pick(s)] + g[s \ {Pick(s)}]]
  <2>2. ASSUME NEW s \in Small(T, n) PROVE g[s] = h[s]
    <3>1. s \in Small(T, n + 1)
      <4>1. IsFiniteSet(s) /\ Cardinality(s) <= n
        BY FS_Subset DEF Small
      <4>2. Cardinality(s) \in Nat
        BY <4>1, FS_CardinalityType
      <4> QED BY <4>1, <4>2 DEF Small
    <3> QED BY <2>1, <3>1 DEF IsSum
  <2>3. \A s \in Small(T, n + 1) : s # {} => g[s \ {Pick(s)}] = h[s \ {Pick(s)}]
    BY <2>2, Smaller
  <2>4. IsSum(h, f, Small(T, n + 1))
    BY <2>3 DEF IsSum
  <2>5. n + 1 \in Nat
    OBVIOUS
  <2> HIDE DEF h
  <2> QED BY <2>4, <2>5
<1>3. Cardinality(T) \in S
  <2> HIDE DEF S
  <2> QED BY <1>1, <1>2, SetInduction, FS_CardinalityType
<1>4. Small(T, Cardinality(T)) = SUBSET T
  BY FS_Subset DEF Small
<1> QED BY <1>3, <1>4

LEMMA FoldIsSum ==
    ASSUME NEW T, IsFiniteSet(T), NEW f, DOMAIN f = T
    PROVE  \E g : IsSum(g, f, SUBSET T) /\ FoldFunction(+, 0, f) = g[T]
<1> DEFINE g == CHOOSE iter : iter = [s \in SUBSET T |->
                     IF s = {} THEN 0 ELSE f[Pick(s)] + iter[s \ {Pick(s)}]]
<1>1. IsSum(g, f, SUBSET T)
  <2> DEFINE F(h) == [s \in SUBSET T |-> IF s = {} THEN 0 ELSE f[Pick(s)] + h[s \ {Pick(s)}]]
  <2>1. \A h : IsSum(h, f, SUBSET T) <=> h = F(h)
    BY DEF IsSum
  <2>2. \E h : h = F(h)
    BY <2>1, SumExists
  <2>3. g = CHOOSE h : h = F(h)
    OBVIOUS
  <2> HIDE DEF F, g
  <2>4. g = F(g)
    BY <2>2, <2>3
  <2> QED BY <2>1, <2>4
<1>2. FoldFunction(+, 0, f) = g[T]
  BY DEF FoldFunction, FoldFunctionOnSet, MapThenFoldSet, Pick
<1> QED BY <1>1, <1>2

Sum(f) == FoldFunction(+, 0, f)

\* A sum of integers changes by as much as one of them does.
LEMMA FoldUpdate ==
    ASSUME NEW T, IsFiniteSet(T), NEW f \in [T -> Int], NEW g \in [T -> Int], NEW t \in T,
           \A u \in T \ {t} : g[u] = f[u]
    PROVE  /\ Sum(f) \in Int
           /\ Sum(g) = Sum(f) + (g[t] - f[t])
<1> DEFINE D(s) == IF t \in s THEN g[t] - f[t] ELSE 0
<1>1. PICK p : IsSum(p, f, SUBSET T) /\ Sum(f) = p[T]
  BY FoldIsSum DEF Sum
<1>2. PICK q : IsSum(q, g, SUBSET T) /\ Sum(g) = q[T]
  BY FoldIsSum DEF Sum
<1> DEFINE S == {n \in Nat : \A s \in Small(T, n) : p[s] \in Int /\ q[s] = p[s] + D(s)}
<1>a. \A n \in Nat : \A s \in Small(T, n) : s \in SUBSET T
  BY DEF Small
<1>b. \A s \in SUBSET T : /\ p[s] = IF s = {} THEN 0 ELSE f[Pick(s)] + p[s \ {Pick(s)}]
                          /\ q[s] = IF s = {} THEN 0 ELSE g[Pick(s)] + q[s \ {Pick(s)}]
  BY <1>1, <1>2 DEF IsSum
<1>c. g[t] - f[t] \in Int /\ \A s : D(s) \in Int
  OBVIOUS
<1>d. p[{}] \in Int /\ q[{}] = p[{}] + D({})
  <2>1. p[{}] = 0 /\ q[{}] = 0 /\ D({}) = 0
    BY <1>b
  <2> HIDE DEF D
  <2> QED BY <2>1
<1>3. 0 \in S
  <2>1. \A s \in Small(T, 0) : s = {}
    BY NoSmaller
  <2> HIDE DEF D
  <2> QED BY <1>d, <2>1
<1>4. ASSUME NEW n \in Nat, n \in S PROVE n + 1 \in S
  <2>0. n + 1 \in Nat
    OBVIOUS
  <2> SUFFICES ASSUME NEW s \in Small(T, n + 1) PROVE p[s] \in Int /\ q[s] = p[s] + D(s)
    BY <2>0
  <2>1. CASE s = {}
    <3> HIDE DEF D
    <3> QED BY <1>d, <2>1
  <2>2. CASE s # {}
    <3> DEFINE x == Pick(s)
               r == s \ {x}
    <3>1. x \in s /\ r \in Small(T, n) /\ s \in SUBSET T
      BY <1>a, <2>0, <2>2, Smaller
    <3>2. p[s] = f[x] + p[r] /\ q[s] = g[x] + q[r]
      BY <1>b, <2>2, <3>1
    <3>3. p[r] \in Int /\ q[r] = p[r] + D(r) /\ x \in T /\ f[x] \in Int /\ g[x] \in Int
      BY <1>4, <3>1
    <3> HIDE DEF x
    <3>4. CASE x = t
      <4>1. D(r) = 0 /\ D(s) = g[t] - f[t]
        BY <3>1, <3>4
      <4> HIDE DEF D, r
      <4> QED BY <3>2, <3>3, <3>4, <4>1
    <3>5. CASE x # t
      <4>1. D(r) = D(s) /\ g[x] = f[x]
        BY <3>1, <3>3, <3>5
      <4> HIDE DEF D, r
      <4> QED BY <1>c, <3>2, <3>3, <3>5, <4>1
    <3> QED BY <3>4, <3>5
  <2> QED BY <2>1, <2>2
<1>5. Cardinality(T) \in S
  <2> HIDE DEF S
  <2> QED BY <1>3, <1>4, SetInduction, FS_CardinalityType
<1>6. T \in Small(T, Cardinality(T))
  BY FS_CardinalityType DEF Small
<1>7. p[T] \in Int /\ q[T] = p[T] + (g[t] - f[t])
  BY <1>5, <1>6
<1> QED BY <1>1, <1>2, <1>7

LEMMA FoldZero ==
    ASSUME NEW T, IsFiniteSet(T)
    PROVE  Sum([t \in T |-> 0]) = 0
<1> DEFINE f == [t \in T |-> 0]
<1>1. PICK p : IsSum(p, f, SUBSET T) /\ Sum(f) = p[T]
  BY FoldIsSum DEF Sum
<1> DEFINE S == {n \in Nat : \A s \in Small(T, n) : p[s] = 0}
<1>a. \A n \in Nat : \A s \in Small(T, n) : s \in SUBSET T
  BY DEF Small
<1>b. \A s \in SUBSET T : p[s] = IF s = {} THEN 0 ELSE f[Pick(s)] + p[s \ {Pick(s)}]
  BY <1>1 DEF IsSum
<1>2. 0 \in S
  BY <1>b, NoSmaller
<1>3. ASSUME NEW n \in Nat, n \in S PROVE n + 1 \in S
  <2>0. n + 1 \in Nat
    OBVIOUS
  <2>1. ASSUME NEW s \in Small(T, n + 1), s # {} PROVE p[s] = 0
    <3>1. Pick(s) \in s /\ s \ {Pick(s)} \in Small(T, n) /\ s \in SUBSET T
      BY <1>a, <2>0, <2>1, Smaller
    <3>2. f[Pick(s)] = 0 /\ p[s \ {Pick(s)}] = 0
      BY <1>3, <3>1
    <3> QED BY <1>b, <2>1, <3>1, <3>2
  <2>2. p[{}] = 0
    BY <1>b
  <2> QED BY <2>0, <2>1, <2>2
<1>4. Cardinality(T) \in S
  <2> HIDE DEF S
  <2> QED BY <1>2, <1>3, SetInduction, FS_CardinalityType
<1>5. T \in Small(T, Cardinality(T))
  BY FS_CardinalityType DEF Small
<1> QED BY <1>1, <1>4, <1>5

LEMMA FoldInt == ASSUME NEW T, IsFiniteSet(T), NEW f \in [T -> Int] PROVE Sum(f) \in Int
<1>1. CASE T = {}
  <2>1. f = [t \in T |-> 0]
    BY <1>1
  <2> QED BY <2>1, FoldZero
<1>2. ASSUME NEW t \in T PROVE Sum(f) \in Int
  BY FoldUpdate
<1> QED BY <1>1, <1>2

----------------------------------------------------------------------------
(* The count.                                                              *)

\* A call knows what it does, and has a value to report only between the system
\* call that moved it and its return.
Reporting(c) ==
    /\ c.pc # "idle" => c.op \in {"incr", "value"}
    /\ c.res = "done" => c.pc = "back"

ReportInv == \A t \in Thread : Reporting(call[t])

\* InFlight, of a call.
Moved(c) ==
    CASE c.res # "done" -> 0
      [] c.res = "done" /\ c.op = "incr"  -> c.val
      [] c.res = "done" /\ c.op = "value" -> -c.val

LEMMA MovedInt == ASSUME NEW c \in Call, Reporting(c) PROVE Moved(c) \in Int
<1>1. c.val \in Int
  BY ConstantsOK DEF Call
<1> QED BY <1>1 DEF Moved, Reporting

LEMMA MovedIs == /\ \A t \in Thread : InFlight(t) = Moved(call[t])
                 /\ \A t \in Thread : InFlight(t)' = Moved(call'[t])
BY DEF InFlight, Moved

\* What the counter would hold if no call were in progress.
Balance == owed + untold - lost

\* The two halves of Conserved.
Counted == counter = Balance + FoldFunction(+, 0, [t \in Thread |-> InFlight(t)])
Spared == open /\ kills = 0 => lost = 0 /\ untold = 0

LEMMA Halves == Conserved <=> Counted /\ Spared
BY DEF Conserved, Counted, Spared, Balance

\* The books, with a first-order sum.
LEMMA CountedIs ==
    /\ Counted <=> counter = Balance + Sum([t \in Thread |-> Moved(call[t])])
    /\ Counted' <=> counter' = Balance' + Sum([t \in Thread |-> Moved(call'[t])])
<1>1. /\ [t \in Thread |-> InFlight(t)] = [t \in Thread |-> Moved(call[t])]
      /\ [t \in Thread |-> InFlight(t)]' = [t \in Thread |-> Moved(call'[t])]
  BY MovedIs
<1>2. Counted <=> counter = Balance + Sum([t \in Thread |-> InFlight(t)])
  BY DEF Counted, Sum
<1>3. Counted' <=> counter' = Balance' + Sum([t \in Thread |-> InFlight(t)]')
  BY DEF Counted, Sum, FoldFunction, FoldFunctionOnSet, MapThenFoldSet
<1> QED BY <1>1, <1>2, <1>3

\* What happens to the books when thread t goes on with call c.
LEMMA CountStep ==
    ASSUME call \in [Thread -> Call], ReportInv, Counted, Balance \in Int, counter \in Int,
           NEW t \in Thread, NEW c \in Call, Reporting(c), call' = [call EXCEPT ![t] = c],
           Balance' \in Int, counter' \in Int,
           counter' - Balance' = (counter - Balance) + (Moved(c) - Moved(call[t]))
    PROVE  ReportInv' /\ Counted'
<1> DEFINE f == [u \in Thread |-> Moved(call[u])]
           g == [u \in Thread |-> Moved(call'[u])]
<1>1. \A u \in Thread : call'[u] = IF u = t THEN c ELSE call[u]
  OBVIOUS
<1>2. \A u \in Thread : Reporting(call'[u]) /\ call'[u] \in Call
  BY <1>1 DEF ReportInv
<1>3. f \in [Thread -> Int]
  BY MovedInt DEF ReportInv
<1>4. g \in [Thread -> Int]
  BY <1>2, MovedInt
<1>5. g[t] = Moved(c) /\ f[t] = Moved(call[t]) /\ \A u \in Thread \ {t} : g[u] = f[u]
  BY <1>1
<1>a. IsFiniteSet(Thread)
  BY ConstantsOK
<1>b. f[t] \in Int /\ g[t] \in Int
  BY <1>3, <1>4
<1>6. (Counted <=> counter = Balance + Sum(f)) /\ (Counted' <=> counter' = Balance' + Sum(g))
  BY CountedIs
<1> HIDE DEF f, g
<1>7. Sum(f) \in Int /\ Sum(g) = Sum(f) + (g[t] - f[t])
  BY <1>3, <1>4, <1>5, <1>a, FoldUpdate
<1>8. counter = Balance + Sum(f)
  BY <1>6
<1>9. counter' = Balance' + Sum(g)
  BY <1>5, <1>7, <1>8, <1>b
<1>10. ReportInv'
  BY <1>2 DEF ReportInv, Reporting
<1> QED BY <1>6, <1>9, <1>10

LEMMA CountInit == Init => ReportInv /\ Counted
<1> SUFFICES ASSUME Init PROVE ReportInv /\ Counted
  OBVIOUS
<1>1. call = [t \in Thread |-> Idle] /\ Balance = counter /\ counter \in Int
  BY ConstantsOK DEF Init, Balance
<1>2. Idle.res # "done" /\ Idle.pc = "idle" /\ Moved(Idle) = 0
  BY ConstantsOK DEF Idle, Moved
<1>3. [t \in Thread |-> Moved(call[t])] = [t \in Thread |-> 0]
  BY <1>1, <1>2
<1>4. Sum([t \in Thread |-> Moved(call[t])]) = 0
  BY <1>3, FoldZero, ConstantsOK
<1>5. Counted
  BY <1>1, <1>4, CountedIs
<1> QED BY <1>1, <1>2, <1>5 DEF ReportInv, Reporting

\* A step that leaves the calls alone.
LEMMA CountQuiet ==
    ASSUME call \in [Thread -> Call], ReportInv, Counted, UNCHANGED call, Balance \in Int, counter \in Int,
           Balance' \in Int, counter' \in Int, counter' - Balance' = counter - Balance
    PROVE  ReportInv' /\ Counted'
<1>1. ReportInv'
  BY DEF ReportInv, Reporting
<1> DEFINE f == [t \in Thread |-> Moved(call[t])]
<1>2. Sum(f) \in Int
  <2>1. f \in [Thread -> Int]
    BY MovedInt DEF ReportInv
  <2> HIDE DEF f
  <2> QED BY <2>1, FoldInt, ConstantsOK
<1>3. (Counted <=> counter = Balance + Sum(f)) /\ (Counted' <=> counter' = Balance' + Sum(f))
  BY CountedIs
<1> HIDE DEF f
<1> QED BY <1>1, <1>2, <1>3

LEMMA CountNext == WaitInv /\ WaitInv' /\ ReportInv /\ Counted /\ [Next]_vars => ReportInv' /\ Counted'
<1> SUFFICES ASSUME WaitInv, WaitInv', ReportInv, Counted, [Next]_vars
             PROVE  ReportInv' /\ Counted'
  OBVIOUS
<1>z. owed \in Int /\ lost \in Int /\ untold \in Int
  BY DEF WaitInv, TypeOK
<1>0. /\ call \in [Thread -> Call] /\ Balance \in Int /\ counter \in Int
      /\ Balance' \in Int /\ counter' \in Int
  <2>1. Others /\ call \in [Thread -> Call]
    BY TypeSplit DEF WaitInv
  <2>2. TypeOK'
    BY DEF WaitInv
  <2>3. /\ owed' \in Int /\ lost' \in Int /\ untold' \in Int
        /\ counter' \in 0 .. MAX
    BY <2>2 DEF TypeOK
  <2>4. Balance \in Int
    BY <2>1 DEF Others, Balance
  <2>5. Balance' \in Int
    BY <2>3 DEF Balance
  <2> QED BY <2>1, <2>3, <2>4, <2>5, ConstantsOK DEF Others
<1>a. \A t \in Thread : /\ call[t] \in Call /\ Reporting(call[t])
                        /\ Moved(call[t]) \in Int /\ call[t].val \in Int
  BY <1>0, MovedInt, ConstantsOK DEF ReportInv, Call
<1>b. Idle \in Call /\ Reporting(Idle) /\ Moved(Idle) = 0
  BY IdleTyped, ConstantsOK DEF Reporting, Moved, Idle
<1>c. \A c : c.res # "done" => Moved(c) = 0
  BY DEF Moved
\* A call that moves nothing.
<1>d. ASSUME NEW t \in Thread, NEW c \in Call, Reporting(c), c.res # "done",
             call[t].res # "done", call' = [call EXCEPT ![t] = c],
             UNCHANGED <<counter, Balance>>
      PROVE  ReportInv' /\ Counted'
  <2>1. Moved(c) = 0 /\ Moved(call[t]) = 0
    BY <1>c, <1>d
  <2>2. counter' - Balance' = (counter - Balance) + (Moved(c) - Moved(call[t]))
    BY <1>0, <1>d, <2>1
  <2> QED BY <1>0, <1>d, <2>2, CountStep
\* A call that ends and enters what it has moved in the books.
<1>e. ASSUME NEW t \in Thread, call' = [call EXCEPT ![t] = Idle], counter' = counter,
             Balance' = Balance + Moved(call[t])
      PROVE  ReportInv' /\ Counted'
  <2>1. counter' - Balance' = (counter - Balance) + (Moved(Idle) - Moved(call[t]))
    BY <1>0, <1>a, <1>b, <1>e
  <2> QED BY <1>0, <1>b, <1>e, <2>1, CountStep
\* What a call has moved, by what it did.
<1>f. ASSUME NEW t \in Thread, call[t].pc # "idle"
      PROVE  /\ call[t].op \in {"incr", "value"}
             /\ call[t].res # "done" => Moved(call[t]) = 0
             /\ call[t].res = "done" /\ call[t].op = "incr" => Moved(call[t]) = call[t].val
             /\ call[t].res = "done" /\ call[t].op = "value" => Moved(call[t]) = -call[t].val
  <2>1. call[t].op \in {"incr", "value"}
    BY <1>a, <1>f DEF Reporting
  <2> QED BY <2>1 DEF Moved
<1>g. UNCHANGED books => Balance' = Balance
  BY DEF Balance, books
<1>1. CASE UNCHANGED <<call, counter, Balance>>
  BY <1>0, <1>1, CountQuiet
<1>2. CASE UNCHANGED vars
  BY <1>1, <1>2, <1>g DEF vars, kernelVars
<1>3. CASE Close
  BY <1>1, <1>3, <1>g DEF Close, kernelVars
<1>4. CASE Expire
  <2>1. UNCHANGED call /\ counter' - Balance' = counter - Balance
    BY <1>0, <1>4, <1>z DEF Expire, Balance
  <2> QED BY <1>0, <2>1, CountQuiet
<1>5. ASSUME NEW a \in Setting, settime(a)
      PROVE  ReportInv' /\ Counted'
  <2>1. UNCHANGED call /\ (UNCHANGED <<counter, Balance>> \/ (counter' = 0 /\ Balance' = Balance - counter))
    BY <1>5, <1>z, <1>0 DEF settime, Balance
  <2>2. CASE UNCHANGED <<counter, Balance>>
    BY <1>1, <2>1, <2>2
  <2>3. CASE counter' = 0 /\ Balance' = Balance - counter
    <3>1. counter' - Balance' = counter - Balance
      BY <1>0, <2>3
    <3> QED BY <1>0, <2>1, <3>1, CountQuiet
  <2> QED BY <2>1, <2>2, <2>3
<1>6. ASSUME NEW t \in Thread, NEW op \in {"incr", "value"}, NEW val \in 0 .. MAX + 1,
             NEW nb \in BOOLEAN, Begin(t, op, val, nb)
      PROVE  ReportInv' /\ Counted'
  <2> DEFINE c == [Idle EXCEPT !.pc = "enter", !.op = op, !.val = val, !.nb = nb]
  <2>1. c \in Call /\ c.op = op /\ c.pc = "enter" /\ c.res = Nil
    <3>1. Idle.res = Nil
      BY DEF Idle
    <3> QED BY <3>1, IdleTyped DEF Call
  <2>2. /\ call' = [call EXCEPT ![t] = c] /\ UNCHANGED <<counter, Balance>>
        /\ call[t].pc = "idle"
    BY <1>6, <1>g DEF Begin
  <2> HIDE DEF c
  <2>3. Reporting(c) /\ c.res # "done" /\ call[t].res # "done"
    BY <1>a, <2>1, <2>2, ConstantsOK DEF Reporting
  <2> QED BY <1>d, <2>1, <2>2, <2>3
<1>7. ASSUME NEW t \in Thread, Syscall(t)
      PROVE  ReportInv' /\ Counted'
  <2>0. call[t].pc \in {"enter", "asleep"} /\ Balance' = Balance
    BY <1>7, <1>g DEF Syscall
  <2>1. call[t].res # "done" /\ call[t].op \in {"incr", "value"} /\ Moved(call[t]) = 0
    BY <1>a, <1>c, <2>0 DEF Reporting
  <2>2. CASE Transfer(t)
    <3> DEFINE v == IF call[t].op = "incr" THEN call[t].val ELSE Portion
               c == [call[t] EXCEPT !.pc = "back", !.res = "done", !.val = v]
    <3>1. call' = [call EXCEPT ![t] = c]
      BY <2>2 DEF Transfer
    <3>2. c.op = call[t].op /\ c.pc = "back" /\ c.res = "done" /\ c.val = v
      BY <1>a DEF Call
    <3>3. c \in Call
      <4>1. TypeOK'
        BY DEF WaitInv
      <4>2. call' \in [Thread -> Call]
        BY <4>1 DEF TypeOK, Call
      <4> HIDE DEF c
      <4>3. call'[t] = c
        BY <1>0, <3>1
      <4> QED BY <4>2, <4>3
    <3>a. call[t].op = "incr" => v = call[t].val /\ counter' = counter + call[t].val
      BY <2>2 DEF Transfer
    <3>b. call[t].op # "incr" => v = Portion /\ counter' = counter - Portion
      BY <2>2 DEF Transfer
    <3> HIDE DEF c, v
    <3>4. Reporting(c) /\ v \in Int
      BY <2>1, <3>2, <3>3, ConstantsOK DEF Reporting, Call
    <3>5. CASE call[t].op = "incr"
      <4>1. Moved(c) = v
        BY <3>2, <3>5 DEF Moved
      <4>2. counter' - Balance' = (counter - Balance) + (Moved(c) - Moved(call[t]))
        <5>1. counter' = counter + v
          BY <3>5, <3>a
        <5> QED BY <1>0, <2>0, <2>1, <3>4, <4>1, <5>1
      <4> QED BY <1>0, <3>1, <3>3, <3>4, <4>2, CountStep
    <3>6. CASE call[t].op = "value"
      <4>1. Moved(c) = -v
        BY <3>2, <3>6 DEF Moved
      <4>2. counter' - Balance' = (counter - Balance) + (Moved(c) - Moved(call[t]))
        BY <1>0, <2>0, <2>1, <3>4, <3>6, <3>b, <4>1
      <4> QED BY <1>0, <3>1, <3>3, <3>4, <4>2, CountStep
    <3> QED BY <2>1, <3>5, <3>6
  <2>3. CASE Decline(t)
    <3> DEFINE e == IF call[t].val > MAX THEN "EINVAL" ELSE "EAGAIN"
               c == [call[t] EXCEPT !.pc = "back", !.res = e]
               s == [call[t] EXCEPT !.pc = "asleep"]
    <3>1. counter' = counter /\ (call' = [call EXCEPT ![t] = c] \/ call' = [call EXCEPT ![t] = s])
      BY <2>3 DEF Decline
    <3>2. /\ c \in Call /\ c.op = call[t].op /\ c.res # "done"
          /\ s \in Call /\ s.op = call[t].op /\ s.res = call[t].res
      BY <1>a DEF Call
    <3> HIDE DEF c, s
    <3>3. Reporting(c) /\ Reporting(s)
      BY <2>1, <3>2 DEF Reporting
    <3> QED BY <1>d, <2>0, <2>1, <3>1, <3>2, <3>3
  <2> QED BY <1>7, <2>2, <2>3 DEF Syscall
<1>8. ASSUME NEW t \in Thread, Signal(t)
      PROVE  ReportInv' /\ Counted'
  <2> DEFINE c == [call[t] EXCEPT !.pc = "back", !.res = "EINTR"]
  <2>1. c \in Call /\ c.op = call[t].op /\ c.res # "done" /\ c.pc = "back"
    BY <1>a DEF Call
  <2>2. call' = [call EXCEPT ![t] = c] /\ call[t].pc = "asleep" /\ UNCHANGED <<counter, Balance>>
    BY <1>8, <1>g DEF Signal, kernelVars
  <2> HIDE DEF c
  <2>3. Reporting(c) /\ call[t].res # "done"
    BY <1>a, <2>1, <2>2 DEF Reporting
  <2> QED BY <1>d, <2>1, <2>2, <2>3
<1>9. ASSUME NEW t \in Thread, Back(t)
      PROVE  ReportInv' /\ Counted'
  <2>0. call[t].pc = "back" /\ counter' = counter
    BY <1>9 DEF Back, kernelVars
  <2>a. UNCHANGED <<lost, untold>>
    BY <1>9 DEF Back
  <2>1. CASE Deliver(t)
    <3>1. owed' = owed + Moved(call[t])
      BY <1>a, <1>f, <1>z, <2>0, <2>1 DEF Deliver, Settled
    <3>2. Balance' = Balance + Moved(call[t])
      BY <1>a, <1>z, <2>a, <3>1 DEF Balance
    <3> QED BY <1>e, <2>0, <2>1, <3>2 DEF Deliver, Leave
  <2>2. CASE Retry(t)
    <3> DEFINE w == [call[t] EXCEPT !.pc = "wait", !.res = Nil]
               e == [call[t] EXCEPT !.pc = "enter", !.res = Nil]
    <3>1. call[t].res \in {"EAGAIN", "EINTR", "EINVAL"} /\ Balance' = Balance
      <4>0. Balance' = Balance
        BY <1>z, <2>2, <2>a DEF Retry, Balance
      <4>1. call[t].res \in {"done", "EAGAIN", "EINTR", "EINVAL", Nil} /\ call[t].res # Nil
        BY <1>a, <2>0 DEF WaitInv, Answered, Call
      <4> QED BY <2>2, <4>0, <4>1 DEF Retry, Returns
    <3>2. \/ call' = [call EXCEPT ![t] = w] \/ call' = [call EXCEPT ![t] = e]
          \/ call' = [call EXCEPT ![t] = Idle]
      BY <2>2, <3>1 DEF Retry
    <3>3. /\ w \in Call /\ w.op = call[t].op /\ w.res = Nil
          /\ e \in Call /\ e.op = call[t].op /\ e.res = Nil
      BY <1>a DEF Call
    <3> HIDE DEF w, e
    <3>4. Reporting(w) /\ Reporting(e) /\ Nil # "done" /\ Idle.res = Nil
      BY <1>a, <2>0, <3>3, ConstantsOK DEF Reporting, Idle
    <3> QED BY <1>b, <1>d, <2>0, <3>1, <3>2, <3>3, <3>4
  <2> QED BY <1>9, <2>1, <2>2 DEF Back
<1>10. ASSUME NEW t \in Thread, WakeUp(t)
       PROVE  ReportInv' /\ Counted'
  <2> DEFINE c == [call[t] EXCEPT !.pc = "enter"]
  <2>1. c \in Call /\ c.op = call[t].op /\ c.res = call[t].res
    BY <1>a DEF Call
  <2>2. call' = [call EXCEPT ![t] = c] /\ call[t].pc = "wait" /\ UNCHANGED <<counter, Balance>>
    BY <1>10, <1>g DEF WakeUp, kernelVars
  <2> HIDE DEF c
  <2>3. Reporting(c) /\ call[t].res # "done"
    BY <1>a, <2>1, <2>2 DEF Reporting
  <2> QED BY <1>d, <2>1, <2>2, <2>3
<1>11. ASSUME NEW t \in Thread, Interrupted(t)
       PROVE  ReportInv' /\ Counted'
  <2>0. /\ call' = [call EXCEPT ![t] = Idle] /\ counter' = counter /\ owed' = owed
        /\ call[t].pc # "idle"
    BY <1>11 DEF Interrupted, Leave, kernelVars
  <2>1. untold' - lost' = untold - lost + Moved(call[t])
    <3>1. CASE call[t].res # "done"
      BY <1>11, <1>f, <1>z, <2>0, <3>1 DEF Interrupted
    <3>2. CASE call[t].res = "done" /\ call[t].op = "incr"
      BY <1>11, <1>a, <1>f, <1>z, <2>0, <3>2 DEF Interrupted
    <3>3. CASE call[t].res = "done" /\ call[t].op = "value"
      BY <1>11, <1>a, <1>f, <1>z, <2>0, <3>3 DEF Interrupted
    <3> QED BY <1>f, <2>0, <3>1, <3>2, <3>3
  <2>2. lost' \in Int /\ untold' \in Int
    BY DEF WaitInv, TypeOK
  <2>3. Balance' = Balance + Moved(call[t])
    BY <1>a, <1>z, <2>0, <2>1, <2>2 DEF Balance
  <2> QED BY <1>e, <2>0, <2>3
<1> QED BY <1>2, <1>3, <1>4, <1>5, <1>6, <1>7, <1>8, <1>9, <1>10, <1>11, ConstantsOK DEF Next, Progress

\* Nothing is lost before a call is killed or the object is closed.
LEMMA SparedNext == WaitInv /\ Spared /\ [Next]_vars => Spared'
<1> SUFFICES ASSUME WaitInv, Spared, [Next]_vars PROVE Spared'
  OBVIOUS
<1>0. kills \in Nat
  BY ConstantsOK DEF WaitInv, TypeOK
<1>1. CASE UNCHANGED <<open, kills, lost, untold>>
  BY <1>1 DEF Spared
<1>2. CASE UNCHANGED vars
  BY <1>1, <1>2 DEF vars, books
<1>3. CASE Close
  BY <1>3 DEF Close, Spared
<1>4. CASE Expire \/ \E a \in Setting : settime(a)
  BY <1>1, <1>4 DEF Expire, settime
<1>5. ASSUME NEW t \in Thread, NEW op, NEW val, NEW nb, Begin(t, op, val, nb)
      PROVE  Spared'
  BY <1>1, <1>5 DEF Begin, books
<1>6. ASSUME NEW t \in Thread, Progress(t) \/ Signal(t)
      PROVE  Spared'
  BY <1>1, <1>6 DEF Progress, Syscall, Back, WakeUp, Signal, books
<1>7. ASSUME NEW t \in Thread, Interrupted(t)
      PROVE  Spared'
  <2>1. UNCHANGED open /\ (open => kills' = kills + 1)
    BY <1>7 DEF Interrupted
  <2> QED BY <1>0, <2>1 DEF Spared
<1> QED BY <1>2, <1>3, <1>4, <1>5, <1>6, <1>7 DEF Next

\* For any number of threads, no count is invented or reported twice, and a count
\* is dropped, or added behind the caller's back, only by a call that is killed or
\* meets a close after its system call has gone through.  A retry after EAGAIN or
\* EINTR and a #settime keep the books balanced.
THEOREM CountConserved == Spec => []Conserved
<1> DEFINE Inv == WaitInv /\ ReportInv /\ Counted /\ Spared
<1>1. Init => Inv
  <2>1. Init => Spared
    BY DEF Init, Spared
  <2> QED BY <2>1, WaitInit, CountInit
<1>2. Inv /\ [Next]_vars => Inv'
  BY WaitNext, CountNext, SparedNext
<1>3. Inv => Conserved
  BY Halves
<1> QED BY <1>1, <1>2, <1>3, PTL DEF Spec
=============================================================================
