----------------------------- MODULE CopyProofs -----------------------------
(***************************************************************************)
(* Proofs about Copy: what a call reports is what it did (Reported), a     *)
(* number is never used after it was looked up again (FreshNumber), and    *)
(* calls without an offset divide the source among them (Divided), for     *)
(* every number of threads, sizes, lengths, offsets and flags arguments.   *)
(*                                                                         *)
(* Divided needs, for each build of sendfile, what is in the hands of the  *)
(* calls in progress: nothing for Linux, whose system call moves bytes and *)
(* position together; for the emulation the bytes that were read and not   *)
(* yet written; for BSD the bytes written before the second lseek.         *)
(***************************************************************************)
EXTENDS Copy, FiniteSetTheorems, TLAPS

(* The inductive invariant.                                                *)

\* A call in progress: it has no result, it has written nothing before the
\* system call copies, and it does not wait only if its caller said so.  A number
\* leads to another file only once the destination is closed, and unless it was
\* given as such, only if that was after the last look.
CallOK(c) ==
    /\ c.phase # "done" => c.tag = "none" /\ (c.nonblock => c.named)
    /\ c.phase \in {"look", "enter", "write", "in"} => c.sent = 0
    /\ c.phase = "seek" => conf.build = "bsd" /\ c.sent # 0
    /\ c.phase = "write" => Emulated
    /\ Emulated /\ c.phase \in {"write", "in"} => c.got # 0
    /\ c.stray => ~open
    /\ ~open /\ c.phase \in {"enter", "write"} => conf.int \/ c.raced = "early"

\* Reported, for one call; and BSD's position is not before where a call in
\* progress reads.
Answered(c) ==
    /\ c.phase = "done" =>
        /\ c.tag = "bytes" => c.n = c.sent
        /\ c.tag \in {"nil", "EOFError"} \/ (c.tag = "bytes" /\ c.n = 0) =>
              c.sent = 0 /\ (c.len = 0 \/ (ended /\ Start(c) >= avail))
        /\ c.tag \in {":EAGAIN", "Errno::EAGAIN", ":wait_writable"} =>
              c.sent = 0 /\ (c.named \/ c.stray)
        /\ c.tag = "raised" /\ c.raced = "no" => c.sent = 0
    /\ conf.build = "bsd" /\ c.phase \in {"in", "seek"} => c.from <= Start(c)

\* FreshNumber, for one call.
Straight(c) == c.stray => conf.int \/ c.raced = "early"

CallInv ==
    /\ conf.from = "file" => ended
    /\ \A t \in Thread : CallOK(call[t]) /\ Answered(call[t]) /\ Straight(call[t])

\* Linux: a byte was written once if it is before the position, and never
\* otherwise.
LinuxInv ==
    \A b \in 1..Size : wrote[b] = IF b <= pos /\ conf.method # "tee" THEN 1 ELSE 0

\* The emulation: a byte that an emulated call has read and not written.
InHand(c, b) ==
    c.phase \in {"write", "in"} /\ c.off = Nil /\ c.from < b /\ b <= c.from + c.got

EmulatedInv ==
    /\ \A b \in 1..Size : wrote[b] \in {0, 1} /\ (wrote[b] = 1 => b <= pos)
    /\ \A t \in Thread, b \in 1..Size : InHand(call[t], b) => b <= pos /\ wrote[b] = 0
    /\ \A t, u \in Thread, b \in 1..Size :
          InHand(call[t], b) /\ InHand(call[u], b) => t = u
    /\ ~short => \A b \in 1..Size :
          b <= pos => wrote[b] = 1 \/ \E t \in Thread : InHand(call[t], b)

\* BSD: a byte that a call has written before its second lseek.
Ahead(c, b) == c.phase = "seek" /\ c.off = Nil /\ b <= c.from + c.sent

BsdInv ==
    ~overlap =>
      /\ \A t, u \in Thread :
            Busy(t) /\ Busy(u) /\ call[t].off = Nil /\ call[u].off = Nil => t = u
      /\ \A t \in Thread :
            call[t].phase \in {"in", "seek"} /\ call[t].off = Nil => call[t].from = pos
      /\ \A b \in 1..Size : wrote[b] =
            IF b <= pos \/ \E t \in Thread : Ahead(call[t], b) THEN 1 ELSE 0

SourceInv ==
    /\ conf.build = "linux" => LinuxInv
    /\ Emulated => EmulatedInv
    /\ conf.build = "bsd" => BsdInv

CopyInv == TypeOK /\ CallInv /\ SourceInv

----------------------------------------------------------------------------
(* The operators.                                                          *)

\* What Min of two and of three integers bounds.
LEMMA MinOfTwo ==
    ASSUME NEW a \in Int, NEW b \in Int
    PROVE  Min({a, b}) \in {a, b} /\ Min({a, b}) <= a /\ Min({a, b}) <= b
<1> DEFINE m == IF a <= b THEN a ELSE b
<1>1. m \in {a, b} /\ \A y \in {a, b} : m <= y
  OBVIOUS
<1>2. QED
  BY <1>1 DEF Min

LEMMA MinOfThree ==
    ASSUME NEW a \in Int, NEW b \in Int, NEW c \in Int
    PROVE  /\ Min({a, b, c}) \in {a, b, c}
           /\ Min({a, b, c}) <= a /\ Min({a, b, c}) <= b /\ Min({a, b, c}) <= c
<1> DEFINE m == IF a <= b /\ a <= c THEN a ELSE IF b <= c THEN b ELSE c
<1>1. m \in {a, b, c} /\ \A y \in {a, b, c} : m <= y
  OBVIOUS
<1>2. QED
  BY <1>1 DEF Min

\* The flags of splice and tee: a conversion that does not raise gives the bits
\* that the caller named.
LEMMA FlagsAsNamed ==
    ASSUME NEW flags, ~__map_splice_flags(FlagMap, flags).raises
    PROVE  __map_splice_flags(FlagMap, flags).bits = Named(FlagMap, flags)
<1>1. CASE flags.type = "integer"
  BY <1>1 DEF __map_splice_flags, Named, ToC, Bits, Raise
<1>2. CASE flags.type = "symbol"
  BY <1>2 DEF __map_splice_flags, Named, ToC, Bits, Raise
<1>3. CASE flags.type = "array"
  <2> DEFINE got == {ConstGet(FlagMap, flags.names[i], 32) : i \in DOMAIN flags.names}
  <2>1. /\ \A r \in got : ~r.raises
        /\ __map_splice_flags(FlagMap, flags).bits = UNION {r.bits : r \in got}
    BY <1>3 DEF __map_splice_flags, FromArray, Bits, Raise
  <2>2. \A i \in DOMAIN flags.names :
            ConstGet(FlagMap, flags.names[i], 32).bits = FlagMap[flags.names[i]]
    <3> SUFFICES ASSUME NEW i \in DOMAIN flags.names
                 PROVE  ConstGet(FlagMap, flags.names[i], 32).bits = FlagMap[flags.names[i]]
      OBVIOUS
    <3>1. ~ConstGet(FlagMap, flags.names[i], 32).raises
      BY <2>1
    <3>2. QED
      BY <3>1 DEF ConstGet, ToC, Bits, Raise
  <2>3. UNION {r.bits : r \in got} =
            UNION {FlagMap[flags.names[i]] : i \in DOMAIN flags.names}
    BY <2>2
  <2>4. QED
    BY <1>3, <2>1, <2>3 DEF Named
<1>4. CASE flags.type \notin {"integer", "symbol", "array"}
  BY <1>4 DEF __map_splice_flags, Raise
<1>5. QED
  BY <1>1, <1>2, <1>3, <1>4

\* The result of a call: a record of the type, and the fields that a property
\* is about.
LEMMA DoneIs ==
    ASSUME NEW c \in CallType, NEW tag \in Tag, NEW n \in Nat
    PROVE  /\ Done(c, tag, n) \in CallType
           /\ Done(c, tag, n).phase = "done" /\ Done(c, tag, n).off = c.off
           /\ Done(c, tag, n).named = c.named /\ Done(c, tag, n).sent = c.sent
           /\ Done(c, tag, n).raced = c.raced /\ Done(c, tag, n).stray = c.stray
           /\ Done(c, tag, n).len = c.len
           /\ Done(c, tag, n).tag = tag /\ Done(c, tag, n).n = n
<1>1. Done(c, tag, n).phase = "done" /\ Done(c, tag, n).off = c.off
  BY DEF Done, Fresh
<1>2. Done(c, tag, n).named = c.named /\ Done(c, tag, n).len = c.len
  BY DEF Done, Fresh
<1>3. Done(c, tag, n).sent = c.sent /\ Done(c, tag, n).raced = c.raced
  BY DEF Done, Fresh
<1>4. Done(c, tag, n).tag = tag /\ Done(c, tag, n).n = n
  BY DEF Done, Fresh
<1>5. Done(c, tag, n).stray = c.stray
  BY DEF Done, Fresh
<1>6. /\ c.off \in Offset \cup {Nil} /\ c.named \in BOOLEAN /\ c.sent \in Nat
      /\ c.raced \in {"no", "early", "late"} /\ c.stray \in BOOLEAN
      /\ c.len \in Length \cup {0}
  BY DEF CallType
<1>7. Fresh \in CallType
  BY DEF Fresh, CallType, Tag
<1>8. Done(c, tag, n) \in CallType
  BY <1>6, <1>7 DEF Done, CallType
<1>9. QED
  BY <1>1, <1>2, <1>3, <1>4, <1>5, <1>8

\* __map_exc: EAGAIN stays EAGAIN, the end of the source stays its end.
LEMMA MapExcIs ==
    ASSUME NEW c
    PROVE  /\ __map_exc(c, "nil") \in {"nil", "EOFError"}
           /\ __map_exc(c, ":EAGAIN") \in {":EAGAIN", "Errno::EAGAIN"}
  BY DEF __map_exc
----------------------------------------------------------------------------
(* What every step needs.                                                  *)

\* A call's answer stays true: the position only moves on, and a source that has
\* ended gets no more bytes.
LEMMA AnswersLast ==
    ASSUME NEW c \in CallType, Answered(c), TypeOK, TypeOK', conf' = conf, pos' >= pos,
           ended => ended' /\ avail' = avail
    PROVE  Answered(c)'
<1>1. /\ pos \in Int /\ pos' \in Int /\ avail \in Int /\ avail' \in Int
      /\ c.from \in Int
  BY DEF TypeOK, CallType
<1>2. c.off = Nil \/ c.off \in Int
  <2>1. c.off \in Offset \cup {Nil}
    BY DEF CallType
  <2>2. Offset \subseteq Int
    BY ConstantsOK
  <2>3. QED
    BY ONLY <2>1, <2>2, Zenon
<1>3. Start(c) \in Int /\ Start(c)' \in Int /\ Start(c)' >= Start(c)
  BY <1>1, <1>2 DEF Start
<1>4. ended /\ Start(c) >= avail => ended' /\ Start(c)' >= avail'
  BY <1>1, <1>3
<1>5. c.from <= Start(c) => c.from <= Start(c)'
  BY <1>1, <1>3
<1>6. QED
  BY <1>4, <1>5 DEF Answered

\* A step that changes the call of one thread keeps what is said of each call if
\* the new record satisfies it.
LEMMA OneCall ==
    ASSUME CopyInv, NEW t \in Thread, NEW r \in CallType,
           call' = [call EXCEPT ![t] = r],
           TypeOK', conf' = conf, open' = open, pos' >= pos,
           ended' = ended, avail' = avail,
           CallOK(r), Answered(r)', Straight(r)
    PROVE  CallInv'
<1> SUFFICES ASSUME NEW u \in Thread
             PROVE  (CallOK(call[u]) /\ Answered(call[u]) /\ Straight(call[u]))'
  BY DEF CallInv, CopyInv
<1>1. call \in [Thread -> CallType]
  BY DEF CopyInv, TypeOK
<1>2. CASE u = t
  <2>1. call'[u] = r
    BY <1>1, <1>2
  <2>2. QED
    BY <2>1 DEF CallOK, Answered, Straight, Emulated, Start
<1>3. CASE u # t
  <2>1. call'[u] = call[u]
    BY <1>1, <1>3
  <2>2. PICK c \in CallType : c = call[u]
    BY <1>1
  <2>3. CallOK(c) /\ Answered(c) /\ Straight(c)
    BY <2>2 DEF CopyInv, CallInv
  <2>4. Answered(c)'
    BY <2>3, AnswersLast DEF CopyInv
  <2>5. CallOK(c)' /\ Straight(c)'
    BY <2>3 DEF CallOK, Straight, Emulated
  <2>6. call'[u] = c
    BY <2>1, <2>2
  <2>7. QED
    BY <2>4, <2>5, <2>6 DEF CallOK, Answered, Straight, Start
<1>4. QED
  BY <1>2, <1>3

\* The builds and what they go with.
LEMMA Builds ==
    ASSUME TypeOK
    PROVE  /\ conf.build \in {"linux", "bsd", "emulated"}
           /\ conf.build # "linux" => conf.method = "sendfile" /\ conf.from = "file"
  BY ConstantsOK DEF TypeOK, Confs

\* What a call that is over, or has nothing in hand, leaves behind.
Settled(r, c) ==
    /\ r \in CallType /\ r.phase \in {"done", "look"} /\ r.off = c.off
    /\ CallOK(r) /\ Straight(r)

\* A result that says nothing about bytes.
LEMMA DoneKeeps ==
    ASSUME TypeOK, NEW c \in CallType, CallOK(c), Straight(c),
           c.phase \in {"look", "enter", "write", "in"},
           NEW tag \in Tag, tag \notin {"bytes", "nil", "EOFError"},
           tag \in {":EAGAIN", "Errno::EAGAIN", ":wait_writable"} => c.nonblock \/ c.stray
    PROVE  Settled(Done(c, tag, 0), c) /\ Answered(Done(c, tag, 0))'
<1> DEFINE r == Done(c, tag, 0)
<1>1. /\ r \in CallType /\ r.phase = "done" /\ r.off = c.off /\ r.named = c.named
      /\ r.sent = c.sent /\ r.raced = c.raced /\ r.stray = c.stray /\ r.tag = tag
      /\ r.n = 0
  BY DoneIs
<1> HIDE DEF r
<1>2. Settled(r, c) /\ Answered(r)'
  BY <1>1 DEF Settled, CallOK, Answered, Straight
<1>3. QED
  BY <1>2 DEF r

\* Returned: the bytes that were sent or, at the end of the source, nothing.
LEMMA ReturnedKeeps ==
    ASSUME TypeOK, NEW c \in CallType, NEW n \in Nat, n = c.sent, Straight(c),
           c.stray => ~open,
           n = 0 => c.len = 0 \/ (ended /\ Start(c) >= avail)'
    PROVE  \E r : r = Returned(c, n) /\ r.phase = "done" /\ Settled(r, c) /\ Answered(r)'
<1>0. "raised" \in Tag /\ "bytes" \in Tag /\ __map_exc(c, "nil") \in Tag /\ 0 \in Nat
  BY MapExcIs DEF Tag
<1>1. CASE Closed(c)
  <2> DEFINE r == Done(c, "raised", 0)
  <2>1. Returned(c, n) = r
    BY <1>1 DEF Returned
  <2>2. /\ r \in CallType /\ r.phase = "done" /\ r.off = c.off
        /\ r.raced = c.raced /\ r.stray = c.stray /\ r.tag = "raised"
    BY <1>0, DoneIs
  <2>3. c.raced # "no"
    BY <1>1 DEF Closed
  <2> HIDE DEF r
  <2>4. Settled(r, c) /\ Answered(r)'
    BY <2>2, <2>3 DEF Settled, CallOK, Answered, Straight
  <2>5. QED
    BY <2>1, <2>2, <2>4
<1>2. CASE ~Closed(c) /\ n = 0 /\ conf.method \in {"splice", "tee"}
  <2> DEFINE r == Done(c, __map_exc(c, "nil"), 0)
  <2>1. Returned(c, n) = r
    BY <1>2 DEF Returned
  <2>2. /\ r \in CallType /\ r.phase = "done" /\ r.off = c.off /\ r.len = c.len
        /\ r.sent = c.sent /\ r.raced = c.raced /\ r.stray = c.stray
        /\ r.tag = __map_exc(c, "nil")
    BY <1>0, DoneIs
  <2>3. r.tag \in {"nil", "EOFError"}
    BY <2>2, MapExcIs
  <2> HIDE DEF r
  <2>4. Settled(r, c) /\ Answered(r)'
    BY <1>2, <2>2, <2>3 DEF Settled, CallOK, Answered, Straight, Start
  <2>5. QED
    BY <2>1, <2>2, <2>4
<1>3. CASE ~Closed(c) /\ ~(n = 0 /\ conf.method \in {"splice", "tee"})
  <2> DEFINE r == Done(c, "bytes", n)
  <2>1. Returned(c, n) = r
    BY <1>3 DEF Returned
  <2>2. /\ r \in CallType /\ r.phase = "done" /\ r.off = c.off /\ r.len = c.len
        /\ r.sent = c.sent /\ r.raced = c.raced /\ r.stray = c.stray
        /\ r.tag = "bytes" /\ r.n = n
    BY <1>0, DoneIs
  <2> HIDE DEF r
  <2>3. Settled(r, c) /\ Answered(r)'
    BY <2>2 DEF Settled, CallOK, Answered, Straight, Start
  <2>4. QED
    BY <2>1, <2>2, <2>3
<1>4. QED
  BY <1>1, <1>2, <1>3

\* A kill takes a result away.
LEMMA BackKeeps ==
    ASSUME NEW c \in CallType, NEW r, Settled(r, c), Answered(r)', NEW q \in Back(r)
    PROVE  Settled(q, c) /\ Answered(q)' /\ (r.phase = "done" => q.phase = "done")
<1>1. CASE q = r
  BY <1>1
<1>2. CASE q = Done(r, "killed", 0)
  <2>1. "killed" \in Tag /\ 0 \in Nat /\ r \in CallType
    BY DEF Tag, Settled
  <2>2. /\ q \in CallType /\ q.phase = "done" /\ q.off = r.off /\ q.raced = r.raced
        /\ q.stray = r.stray /\ q.tag = "killed"
    BY <1>2, <2>1, DoneIs
  <2>3. QED
    BY <2>2 DEF Settled, CallOK, Answered, Straight
<1>3. QED
  BY <1>1, <1>2 DEF Back

\* A call that raises before it has written.
LEMMA RaisedKeeps ==
    ASSUME TypeOK, NEW c \in CallType, CallOK(c), Straight(c),
           c.phase \in {"look", "enter", "write", "in"}, NEW tag \in {"raised", "killed"}
    PROVE  Settled(Done(c, tag, 0), c) /\ Answered(Done(c, tag, 0))'
<1>1. tag \in Tag /\ tag \notin {"bytes", "nil", "EOFError"}
      /\ tag \notin {":EAGAIN", "Errno::EAGAIN", ":wait_writable"}
  BY DEF Tag
<1>2. QED
  BY <1>1, DoneKeeps

\* EAGAIN.
LEMMA AgainKeeps ==
    ASSUME TypeOK, NEW c \in CallType, CallOK(c), Straight(c), c.phase = "in",
           c.nonblock \/ c.stray
    PROVE  \E r : r = Again(c) /\ Settled(r, c) /\ Answered(r)'
<1>1. PICK tag : /\ tag \in {"raised", ":wait_writable", ":EAGAIN", "Errno::EAGAIN"}
                 /\ Again(c) = Done(c, tag, 0)
  BY MapExcIs DEF Again
<1>2. tag \in Tag /\ tag \notin {"bytes", "nil", "EOFError"}
  BY <1>1 DEF Tag
<1>3. QED
  BY <1>1, <1>2, DoneKeeps

\* A call that starts again.
LEMMA AgainFromLook ==
    ASSUME TypeOK, NEW c \in CallType, CallOK(c), Straight(c), c.phase = "in",
           NEW b \in BOOLEAN
    PROVE  LET r == [c EXCEPT !.phase = "look", !.retried = b]
               q == [c EXCEPT !.phase = "look"]
           IN  Settled(r, c) /\ Answered(r)' /\ Settled(q, c) /\ Answered(q)'
<1> DEFINE r == [c EXCEPT !.phase = "look", !.retried = b]
           q == [c EXCEPT !.phase = "look"]
<1>1. r \in CallType /\ q \in CallType
  BY DEF CallType
<1>2. /\ r.phase = "look" /\ r.off = c.off /\ r.tag = c.tag /\ r.sent = c.sent
      /\ r.named = c.named /\ r.nonblock = c.nonblock /\ r.stray = c.stray
      /\ r.raced = c.raced
  BY DEF CallType
<1>3. /\ q.phase = "look" /\ q.off = c.off /\ q.tag = c.tag /\ q.sent = c.sent
      /\ q.named = c.named /\ q.nonblock = c.nonblock /\ q.stray = c.stray
      /\ q.raced = c.raced
  BY DEF CallType
<1> HIDE DEF r, q
<1>4. Settled(r, c) /\ Answered(r)'
  BY <1>1, <1>2 DEF Settled, CallOK, Answered, Straight
<1>5. Settled(q, c) /\ Answered(q)'
  BY <1>1, <1>3 DEF Settled, CallOK, Answered, Straight
<1>6. QED
  BY <1>4, <1>5 DEF r, q

\* EINTR, and ENOMEM or ENOBUFS.
LEMMA RetriesKeep ==
    ASSUME TypeOK, NEW c \in CallType, CallOK(c), Straight(c), c.phase = "in"
    PROVE  /\ \E r : r = Interrupted(c) /\ Settled(r, c) /\ Answered(r)'
           /\ \E r : r = NoMemory(c) /\ Settled(r, c) /\ Answered(r)'
<1>1. Settled(Done(c, "raised", 0), c) /\ Answered(Done(c, "raised", 0))'
  BY RaisedKeeps
<1>2. /\ Settled([c EXCEPT !.phase = "look"], c) /\ Answered([c EXCEPT !.phase = "look"])'
      /\ Settled([c EXCEPT !.phase = "look", !.retried = TRUE], c)
      /\ Answered([c EXCEPT !.phase = "look", !.retried = TRUE])'
  BY AgainFromLook
<1>3. Interrupted(c) \in {Done(c, "raised", 0), [c EXCEPT !.phase = "look"]}
  BY DEF Interrupted
<1>4. NoMemory(c) \in {Done(c, "raised", 0), [c EXCEPT !.phase = "look", !.retried = TRUE]}
  BY DEF NoMemory
<1>5. QED
  BY <1>1, <1>2, <1>3, <1>4

\* A call in progress that is over, or goes back, without copying: what it had
\* in hand is lost, which short records.
LEMMA SettlingKeepsSource ==
    ASSUME CopyInv, NEW t \in Thread, NEW r \in CallType,
           call' = [call EXCEPT ![t] = r],
           call[t].phase \in {"look", "enter", "write", "in"},
           r.phase \in {"done", "look"}, r.off = call[t].off,
           conf' = conf, pos' = pos, wrote' = wrote, overlap' = overlap,
           ~short' => ~short, Wasted(call[t]) => short'
    PROVE  SourceInv'
<1>1. call \in [Thread -> CallType]
  BY DEF CopyInv, TypeOK
<1>2. call'[t] = r /\ \A u \in Thread \ {t} : call'[u] = call[u]
  BY <1>1
<1>3. conf.build = "linux" /\ LinuxInv => LinuxInv'
  BY DEF LinuxInv
<1>4. ASSUME Emulated, EmulatedInv
      PROVE  EmulatedInv'
  <2>1. \A u \in Thread, b \in 1..Size : InHand(call'[u], b) => u # t /\ InHand(call[u], b)
    BY <1>2 DEF InHand
  <2>2. \A u \in Thread, b \in 1..Size :
            u # t => (InHand(call'[u], b) <=> InHand(call[u], b))
    BY <1>2 DEF InHand
  <2>3. ~short' => \A b \in 1..Size : ~InHand(call[t], b)
    BY <1>4 DEF InHand, Wasted
  <2>4. \A b \in 1..Size : wrote'[b] \in {0, 1} /\ (wrote'[b] = 1 => b <= pos')
    BY <1>4 DEF EmulatedInv
  <2>5. \A u \in Thread, b \in 1..Size : InHand(call'[u], b) => b <= pos' /\ wrote'[b] = 0
    BY <1>4, <2>1 DEF EmulatedInv
  <2>6. \A u, v \in Thread, b \in 1..Size :
            InHand(call'[u], b) /\ InHand(call'[v], b) => u = v
    BY <1>4, <2>1 DEF EmulatedInv
  <2>7. ~short' => \A b \in 1..Size :
            b <= pos' => wrote'[b] = 1 \/ \E u \in Thread : InHand(call'[u], b)
    BY <1>4, <2>2, <2>3 DEF EmulatedInv
  <2>8. QED
    BY <2>4, <2>5, <2>6, <2>7 DEF EmulatedInv, InHand
<1>5. ASSUME BsdInv
      PROVE  BsdInv'
  <2> SUFFICES ASSUME ~overlap
               PROVE  BsdInv'
    BY DEF BsdInv
  <2>1. \A u \in Thread, b \in 1..Size : Ahead(call'[u], b) <=> Ahead(call[u], b)
    BY <1>2 DEF Ahead
  <2>2. \A u \in Thread : Busy(u)' /\ call'[u].off = Nil => Busy(u) /\ call[u].off = Nil
    BY <1>2 DEF Busy
  <2>3. \A u, v \in Thread :
            (Busy(u) /\ Busy(v) /\ call[u].off = Nil /\ call[v].off = Nil)' => u = v
    BY <1>5, <2>2 DEF BsdInv
  <2>4. \A u \in Thread :
            call'[u].phase \in {"in", "seek"} /\ call'[u].off = Nil => call'[u].from = pos'
    BY <1>2, <1>5 DEF BsdInv
  <2>5. \A b \in 1..Size : wrote'[b] =
            IF b <= pos' \/ \E u \in Thread : Ahead(call'[u], b) THEN 1 ELSE 0
    BY <1>5, <2>1 DEF BsdInv
  <2>6. QED
    BY <2>3, <2>4, <2>5 DEF BsdInv, Ahead
<1>6. QED
  BY <1>3, <1>4, <1>5 DEF CopyInv, SourceInv, Emulated

\* Two records that agree on the fields below mean the same for the source.
LEMMA SameForSource ==
    ASSUME CopyInv, conf' = conf, pos' = pos, wrote' = wrote, overlap' = overlap,
           short' = short,
           \A u \in Thread : /\ call'[u].phase = call[u].phase
                             /\ call'[u].off = call[u].off
                             /\ call'[u].from = call[u].from
                             /\ call'[u].got = call[u].got
                             /\ call'[u].sent = call[u].sent
    PROVE  SourceInv'
<1>1. conf.build = "linux" /\ LinuxInv => LinuxInv'
  BY DEF LinuxInv
<1>2. EmulatedInv => EmulatedInv'
  <2>1. \A u \in Thread, b \in 1..Size : InHand(call'[u], b) <=> InHand(call[u], b)
    BY DEF InHand
  <2>2. QED
    BY <2>1 DEF EmulatedInv, InHand
<1>3. BsdInv => BsdInv'
  <2>1. \A u \in Thread, b \in 1..Size : Ahead(call'[u], b) <=> Ahead(call[u], b)
    BY DEF Ahead
  <2>2. QED
    BY <2>1 DEF BsdInv, Ahead, Busy
<1>4. QED
  BY <1>1, <1>2, <1>3 DEF CopyInv, SourceInv, Emulated
----------------------------------------------------------------------------
(* The steps of a call.                                                    *)

\* The length of a call is a number.
LEMMA LenIs ==
    ASSUME NEW c \in CallType
    PROVE  c.len \in Nat
<1>1. c.len \in Length \cup {0}
  BY DEF CallType
<1>2. Length \cup {0} \subseteq Nat
  BY ConstantsOK
<1>3. QED
  BY ONLY <1>1, <1>2, Zenon

\* Where a call starts is a number.
LEMMA StartIs ==
    ASSUME TypeOK, NEW c \in CallType
    PROVE  Start(c) \in Nat /\ (c.off = Nil => Start(c) = pos)
<1>1. c.off \in Offset \cup {Nil}
  BY DEF CallType
<1>2. QED
  BY <1>1, ConstantsOK DEF TypeOK, Start

\* The parts of TypeOK that a step of a call leaves alone.
LEMMA TypeOfOne ==
    ASSUME TypeOK, NEW t \in Thread, NEW r \in CallType, call' = [call EXCEPT ![t] = r],
           UNCHANGED <<conf, avail, ended, open, reused, calls>>,
           pos' \in Nat, fill' \in 0..Space,
           wrote' \in [1..Size -> Nat], overlap' \in BOOLEAN, short' \in BOOLEAN
    PROVE  TypeOK'
<1>1. call' \in [Thread -> CallType]
  BY DEF TypeOK
<1>2. QED
  BY <1>1 DEF TypeOK

\* A step of a call that copies nothing and settles it.
LEMMA SettlingKeeps ==
    ASSUME CopyInv, NEW t \in Thread, NEW r, Settled(r, call[t]), Answered(r)',
           call' = [call EXCEPT ![t] = r],
           call[t].phase \in {"look", "enter", "write", "in"},
           UNCHANGED <<conf, source, sink, calls, history>>,
           short' \in BOOLEAN, ~short' => ~short, Wasted(call[t]) => short'
    PROVE  CopyInv'
<1>1. /\ r \in CallType /\ r.phase \in {"done", "look"} /\ r.off = call[t].off
      /\ CallOK(r) /\ Straight(r)
  BY DEF Settled
<1>2. /\ conf' = conf /\ pos' = pos /\ avail' = avail /\ ended' = ended /\ fill' = fill
      /\ open' = open /\ reused' = reused /\ calls' = calls /\ wrote' = wrote
      /\ overlap' = overlap
  BY DEF source, sink, history
<1>3. TypeOK
  BY DEF CopyInv
<1>4. /\ pos' \in Nat /\ pos' >= pos /\ fill' \in 0..Space
      /\ wrote' \in [1..Size -> Nat] /\ overlap' \in BOOLEAN
  BY <1>2, <1>3 DEF TypeOK
<1>5. TypeOK'
  BY <1>1, <1>2, <1>3, <1>4, TypeOfOne
<1>6. CallInv'
  BY <1>1, <1>2, <1>4, <1>5, OneCall
<1>7. SourceInv'
  BY <1>1, <1>2, SettlingKeepsSource
<1>8. QED
  BY <1>5, <1>6, <1>7 DEF CopyInv

LEMMA CallFacts ==
    ASSUME CopyInv, NEW t \in Thread
    PROVE  /\ TypeOK /\ call[t] \in CallType
           /\ CallOK(call[t]) /\ Answered(call[t]) /\ Straight(call[t])
  BY DEF CopyInv, CallInv, TypeOK

\* A call that fails, or has nothing to copy, and may be killed as it comes back.
LEMMA ComesBack ==
    ASSUME CopyInv, NEW t \in Thread, NEW c, c = call[t],
           c.phase \in {"look", "enter", "write", "in"},
           NEW r, Settled(r, c), Answered(r)',
           \E q \in Back(r) : call' = [call EXCEPT ![t] = q],
           (short' = short /\ ~Wasted(c)) \/ short' = (short \/ Wasted(c)),
           UNCHANGED <<conf, source, sink, calls, history>>
    PROVE  CopyInv'
<1>1. TypeOK /\ c \in CallType
  BY CallFacts
<1>2. PICK q \in Back(r) : call' = [call EXCEPT ![t] = q]
  OBVIOUS
<1>3. Settled(q, call[t]) /\ Answered(q)'
  BY <1>1, BackKeeps
<1>4. short' \in BOOLEAN /\ (~short' => ~short) /\ (Wasted(call[t]) => short')
  <2>1. short \in BOOLEAN /\ Wasted(c) \in BOOLEAN
    BY <1>1 DEF TypeOK, Wasted
  <2>2. QED
    BY <2>1
<1>5. call[t].phase \in {"look", "enter", "write", "in"}
  OBVIOUS
<1>6. UNCHANGED <<conf, source, sink, calls, history>>
  OBVIOUS
<1>7. QED
  BY ONLY CopyInv, t \in Thread, <1>2, <1>3, <1>4, <1>5, <1>6, SettlingKeeps

LEMMA LookKeeps ==
    ASSUME CopyInv, NEW t \in Thread, Look(t)
    PROVE  CopyInv'
<1>0. PICK c : c = call[t]
  OBVIOUS
<1> DEFINE e == [c EXCEPT !.phase = "enter", !.raced = "no"]
<1>1. /\ TypeOK /\ c \in CallType /\ CallOK(c) /\ Straight(c)
      /\ call \in [Thread -> CallType]
  BY <1>0, CallFacts DEF TypeOK
<1>2. /\ c.phase = "look"
      /\ call' = [call EXCEPT ![t] = IF open \/ conf.int THEN e ELSE Done(c, "raised", 0)]
  BY <1>0 DEF Look
<1>3. /\ conf' = conf /\ pos' = pos /\ avail' = avail /\ ended' = ended /\ fill' = fill
      /\ open' = open /\ reused' = reused /\ calls' = calls /\ wrote' = wrote
      /\ overlap' = overlap /\ short' = short
  BY DEF Look, source, sink, history
<1>4. CASE open \/ conf.int
  <2>1. /\ e \in CallType /\ e.phase = "enter" /\ e.raced = "no" /\ e.off = c.off
        /\ e.tag = c.tag /\ e.sent = c.sent /\ e.stray = c.stray
        /\ e.from = c.from /\ e.got = c.got
    BY <1>1 DEF CallType
  <2>2. e.named = c.named /\ e.nonblock = c.nonblock
    BY <1>1 DEF CallType
  <2>3. CallOK(e) /\ Straight(e) /\ Answered(e)'
    BY <1>1, <1>2, <1>4, <2>1, <2>2 DEF CallOK, Straight, Answered
  <2>4. call' = [call EXCEPT ![t] = e]
    BY <1>2, <1>4
  <2> HIDE DEF e
  <2>5. /\ pos' \in Nat /\ pos' >= pos /\ fill' \in 0..Space
        /\ wrote' \in [1..Size -> Nat] /\ overlap' \in BOOLEAN /\ short' \in BOOLEAN
    BY <1>1, <1>3 DEF TypeOK
  <2>6. TypeOK'
    BY <1>1, <1>3, <2>1, <2>4, <2>5, TypeOfOne
  <2>7. CallInv'
    BY <1>3, <2>1, <2>3, <2>4, <2>5, <2>6, OneCall
  <2>8. SourceInv'
    <3>1. call'[t] = e /\ \A u \in Thread \ {t} : call'[u] = call[u]
      BY <1>1, <2>4
    <3>2. conf.build = "linux" /\ LinuxInv => LinuxInv'
      BY <1>3 DEF LinuxInv
    <3>3. EmulatedInv => EmulatedInv'
      <4>1. \A u \in Thread, b \in 1..Size : InHand(call'[u], b) <=> InHand(call[u], b)
        BY <1>0, <1>2, <2>1, <3>1 DEF InHand
      <4>2. QED
        BY <1>3, <4>1 DEF EmulatedInv, InHand
    <3>4. BsdInv => BsdInv'
      <4>1. \A u \in Thread, b \in 1..Size : Ahead(call'[u], b) <=> Ahead(call[u], b)
        BY <1>0, <1>2, <2>1, <3>1 DEF Ahead
      <4>2. \A u \in Thread : /\ call'[u].off = call[u].off
                              /\ Busy(u)' <=> Busy(u)
        BY <1>0, <1>2, <2>1, <3>1 DEF Busy
      <4>3. \A u \in Thread : call'[u].phase \in {"in", "seek"} =>
                call[u].phase \in {"in", "seek"} /\ call'[u].from = call[u].from
        BY <1>0, <1>2, <2>1, <3>1
      <4>4. QED
        BY <1>3, <4>1, <4>2, <4>3 DEF BsdInv, Ahead, Busy
    <3>5. QED
      BY <1>3, <3>2, <3>3, <3>4 DEF CopyInv, SourceInv, Emulated
  <2>9. QED
    BY <2>6, <2>7, <2>8 DEF CopyInv
<1>5. CASE ~(open \/ conf.int)
  <2>1. PICK r : r = Done(c, "raised", 0) /\ Settled(r, c) /\ Answered(r)'
    BY <1>1, <1>2, RaisedKeeps
  <2>2. \E q \in Back(r) : call' = [call EXCEPT ![t] = q]
    BY <1>2, <1>5, <2>1 DEF Back
  <2>3. (short' = short /\ ~Wasted(c)) \/ short' = (short \/ Wasted(c))
    BY <1>2, <1>3 DEF Wasted
  <2>4. UNCHANGED <<conf, source, sink, calls, history>>
    BY <1>3 DEF source, sink, history
  <2>5. c.phase \in {"look", "enter", "write", "in"}
    BY <1>2
  <2>6. QED
    BY ONLY CopyInv, t \in Thread, <1>0, <2>1, <2>2, <2>3, <2>4, <2>5, ComesBack
<1>6. QED
  BY <1>4, <1>5

LEMMA NothingKeeps ==
    ASSUME CopyInv, NEW t \in Thread, Nothing(t)
    PROVE  CopyInv'
<1>0. PICK c : c = call[t]
  OBVIOUS
<1>1. TypeOK /\ c \in CallType /\ CallOK(c) /\ Straight(c)
  BY <1>0, CallFacts
<1>2. /\ c.phase = "enter" /\ conf.build = "linux" /\ c.len = 0
      /\ \E q \in Back(Returned(c, 0)) : call' = [call EXCEPT ![t] = q]
  BY <1>0 DEF Nothing, Empty
<1>3. c.sent = 0 /\ (c.stray => ~open) /\ 0 \in Nat
  BY <1>1, <1>2 DEF CallOK
<1>4. PICK r : r = Returned(c, 0) /\ Settled(r, c) /\ Answered(r)'
  BY <1>1, <1>2, <1>3, ReturnedKeeps
<1>5. UNCHANGED <<conf, source, sink, calls, history>> /\ short' = short
  BY DEF Nothing
<1>6. (short' = short /\ ~Wasted(c)) \/ short' = (short \/ Wasted(c))
  BY <1>2, <1>5 DEF Wasted
<1>7. c.phase \in {"look", "enter", "write", "in"}
  BY <1>2
<1>8. \E q \in Back(r) : call' = [call EXCEPT ![t] = q]
  BY <1>2, <1>4
<1>9. QED
  BY ONLY CopyInv, t \in Thread, <1>0, <1>4, <1>5, <1>6, <1>7, <1>8, ComesBack

LEMMA BadNumberKeeps ==
    ASSUME CopyInv, NEW t \in Thread, BadNumber(t)
    PROVE  CopyInv'
<1>0. PICK c : c = call[t]
  OBVIOUS
<1>1. TypeOK /\ c \in CallType /\ CallOK(c) /\ Straight(c)
  BY <1>0, CallFacts
<1>2. c.phase \in {"look", "enter", "write", "in"}
  BY <1>0 DEF BadNumber, Resolves
<1>3. PICK r : r = Done(c, "raised", 0) /\ Settled(r, c) /\ Answered(r)'
  BY <1>1, <1>2, RaisedKeeps
<1>4. \E q \in Back(r) : call' = [call EXCEPT ![t] = q]
  BY <1>0, <1>3 DEF BadNumber
<1>5. (short' = short /\ ~Wasted(c)) \/ short' = (short \/ Wasted(c))
  BY <1>0 DEF BadNumber
<1>6. UNCHANGED <<conf, source, sink, calls, history>>
  BY DEF BadNumber
<1>7. QED
  BY ONLY CopyInv, t \in Thread, <1>0, <1>2, <1>3, <1>4, <1>5, <1>6, ComesBack

LEMMA EndsKeeps ==
    ASSUME CopyInv, NEW t \in Thread, Ends(t)
    PROVE  CopyInv'
<1>0. PICK c : c = call[t]
  OBVIOUS
<1>1. TypeOK /\ c \in CallType /\ CallOK(c) /\ Straight(c) /\ Answered(c)
  BY <1>0, CallFacts
<1>2. /\ c.phase = "in" /\ There(c) = 0 /\ ended
      /\ \E q \in Back(Returned(c, 0)) : call' = [call EXCEPT ![t] = q]
  BY <1>0 DEF Ends
<1>3. c.sent = 0 /\ (c.stray => ~open) /\ 0 \in Nat /\ ~Emulated
  BY <1>1, <1>2 DEF CallOK, There
<1>4. UNCHANGED <<conf, source, sink, calls, history>> /\ short' = short
  BY DEF Ends
<1>5. (ended /\ Start(c) >= avail)'
  <2>1. pos' = pos /\ avail' = avail /\ ended' = ended
    BY <1>4 DEF source
  <2>2. Start(c) \in Int /\ avail \in Int /\ c.from \in Int
    <3>1. Start(c) \in Nat
      BY <1>1, StartIs
    <3>2. QED
      BY <1>1, <3>1 DEF TypeOK, CallType
  <2>3. From(c) = Start(c) \/ (conf.build = "bsd" /\ From(c) = c.from)
    BY <1>1, <1>3, Builds DEF From, Emulated
  <2>4. From(c) <= Start(c) /\ From(c) \in Int
    BY <1>1, <1>2, <2>2, <2>3 DEF Answered
  <2>5. From(c) >= avail
    BY <1>2, <1>3, <2>2, <2>4 DEF There
  <2>6. Start(c) >= avail
    BY <2>2, <2>4, <2>5
  <2>7. QED
    BY <1>2, <2>1, <2>6 DEF Start
<1>6. PICK r : r = Returned(c, 0) /\ Settled(r, c) /\ Answered(r)'
  BY <1>1, <1>3, <1>5, ReturnedKeeps
<1>7. (short' = short /\ ~Wasted(c)) \/ short' = (short \/ Wasted(c))
  BY <1>3, <1>4 DEF Wasted
<1>8. c.phase \in {"look", "enter", "write", "in"}
  BY <1>2
<1>9. \E q \in Back(r) : call' = [call EXCEPT ![t] = q]
  BY <1>2, <1>6
<1>10. QED
  BY ONLY CopyInv, t \in Thread, <1>0, <1>4, <1>6, <1>7, <1>8, <1>9, ComesBack

\* EAGAIN, EINTR and the other errors.
LEMMA ErrorKeeps ==
    ASSUME CopyInv, NEW t \in Thread, NEW c, c = call[t], c.phase = "in", NEW r,
           \/ r = Again(c) /\ (c.nonblock \/ c.stray)
           \/ r \in {Interrupted(c), NoMemory(c), Done(c, "raised", 0)},
           Error(t, r)
    PROVE  CopyInv'
<1>1. TypeOK /\ c \in CallType /\ CallOK(c) /\ Straight(c)
  BY CallFacts
<1>2. Settled(r, c) /\ Answered(r)'
  <2>1. r = Again(c) /\ (c.nonblock \/ c.stray) => Settled(r, c) /\ Answered(r)'
    BY <1>1, AgainKeeps
  <2>2. r = Interrupted(c) \/ r = NoMemory(c) => Settled(r, c) /\ Answered(r)'
    BY <1>1, RetriesKeep
  <2>3. r = Done(c, "raised", 0) => Settled(r, c) /\ Answered(r)'
    BY <1>1, RaisedKeeps
  <2>4. QED
    BY <2>1, <2>2, <2>3
<1>3. \E q \in Back(r) : call' = [call EXCEPT ![t] = q]
  BY DEF Error
<1>4. (short' = short /\ ~Wasted(c)) \/ short' = (short \/ Wasted(c))
  BY DEF Error
<1>5. UNCHANGED <<conf, source, sink, calls, history>>
  BY DEF Error
<1>6. c = call[t] /\ c.phase \in {"look", "enter", "write", "in"}
  OBVIOUS
<1>7. QED
  BY ONLY CopyInv, t \in Thread, <1>2, <1>3, <1>4, <1>5, <1>6, ComesBack

LEMMA FailsKeeps ==
    ASSUME CopyInv, NEW t \in Thread, WouldBlock(t) \/ Signalled(t) \/ Fails(t)
    PROVE  CopyInv'
<1>0. PICK c : c = call[t]
  OBVIOUS
<1>1. TypeOK /\ c \in CallType /\ CallOK(c) /\ Straight(c)
  BY <1>0, CallFacts
<1>2. CASE \E r : /\ c.phase = "in" /\ Error(t, r)
                  /\ \/ r = Again(c) /\ (c.nonblock \/ c.stray)
                     \/ r \in {Interrupted(c), NoMemory(c), Done(c, "raised", 0)}
  BY <1>0, <1>2, ErrorKeeps
<1>3. CASE /\ c.phase = "enter"
           /\ call' = [call EXCEPT ![t] = Done(c, "killed", 0)]
           /\ UNCHANGED <<conf, source, sink, calls, history, short>>
  <2>1. PICK r : r = Done(c, "killed", 0) /\ Settled(r, c) /\ Answered(r)'
    BY <1>1, <1>3, RaisedKeeps
  <2>2. \E q \in Back(r) : call' = [call EXCEPT ![t] = q]
    BY <1>3, <2>1 DEF Back
  <2>3. (short' = short /\ ~Wasted(c)) \/ short' = (short \/ Wasted(c))
    BY <1>3 DEF Wasted
  <2>4. /\ UNCHANGED <<conf, source, sink, calls, history>>
        /\ c.phase \in {"look", "enter", "write", "in"}
    BY <1>3
  <2>5. QED
    BY ONLY CopyInv, t \in Thread, <1>0, <2>1, <2>2, <2>3, <2>4, ComesBack
<1>4. QED
  BY <1>0, <1>2, <1>3 DEF WouldBlock, Signalled, Fails

\* A call whose number the kernel has resolved, to copy from f on, and an emulated
\* one that has read g bytes there.
Entered(c, f, b) == [c EXCEPT !.phase = "in", !.from = f, !.stray = b]
HasRead(c, f, g) == [c EXCEPT !.phase = "write", !.from = f, !.got = g]

LEMMA EnteredIs ==
    ASSUME TypeOK, NEW c \in CallType, NEW f \in Nat, NEW b \in BOOLEAN
    PROVE  \E r : /\ r = Entered(c, f, b)
                  /\ r \in CallType /\ r.phase = "in" /\ r.off = c.off /\ r.tag = c.tag
                  /\ r.sent = c.sent /\ r.raced = c.raced /\ r.from = f /\ r.got = c.got
                  /\ r.stray = b /\ (c.nonblock => c.named) = (r.nonblock => r.named)
<1>1. PICK r : r = Entered(c, f, b)
  OBVIOUS
<1>2. r \in CallType
  BY <1>1 DEF CallType, Entered
<1>3. /\ r.phase = "in" /\ r.off = c.off /\ r.tag = c.tag /\ r.sent = c.sent
      /\ r.raced = c.raced /\ r.from = f /\ r.got = c.got /\ r.stray = b
  BY <1>1 DEF CallType, Entered
<1>4. r.named = c.named /\ r.nonblock = c.nonblock
  BY <1>1 DEF CallType, Entered
<1>5. QED
  BY <1>1, <1>2, <1>3, <1>4

LEMMA HasReadIs ==
    ASSUME TypeOK, NEW c \in CallType, CallOK(c), Straight(c), c.phase = "enter",
           Emulated, NEW f \in Nat, NEW g \in Nat \ {0}
    PROVE  \E r : /\ r = HasRead(c, f, g)
                  /\ r \in CallType /\ r.phase = "write" /\ r.off = c.off
                  /\ r.from = f /\ r.got = g
                  /\ CallOK(r) /\ Straight(r) /\ Answered(r)'
<1>1. PICK r : r = HasRead(c, f, g)
  OBVIOUS
<1>2. r \in CallType
  BY <1>1 DEF CallType, HasRead
<1>3. /\ r.phase = "write" /\ r.off = c.off /\ r.tag = c.tag /\ r.sent = c.sent
      /\ r.raced = c.raced /\ r.from = f /\ r.got = g /\ r.stray = c.stray
  BY <1>1 DEF CallType, HasRead
<1>4. r.named = c.named /\ r.nonblock = c.nonblock
  BY <1>1 DEF CallType, HasRead
<1>5. CallOK(r) /\ Straight(r) /\ Answered(r)'
  BY <1>3, <1>4 DEF CallOK, Straight, Answered
<1>6. QED
  BY <1>1, <1>2, <1>3, <1>5

LEMMA EnterKeeps ==
    ASSUME CopyInv, NEW t \in Thread, Enter(t)
    PROVE  CopyInv'
<1>0. PICK c : c = call[t]
  OBVIOUS
<1>1. TypeOK /\ c \in CallType /\ CallOK(c) /\ Straight(c)
  BY <1>0, CallFacts
<1>2. /\ conf' = conf /\ pos' = pos /\ avail' = avail /\ ended' = ended /\ fill' = fill
      /\ open' = open /\ reused' = reused /\ calls' = calls /\ wrote' = wrote
      /\ overlap' = overlap /\ short' = short
  BY DEF Enter, source, sink, history
<1>3. PICK f \in Nat : /\ f = IF conf.build = "bsd" THEN Start(c) ELSE c.from
                       /\ conf.build = "bsd" /\ c.off = Nil => f = pos
  <2>1. Start(c) \in Nat /\ (c.off = Nil => Start(c) = pos)
    BY <1>1, StartIs
  <2>2. c.from \in Nat
    BY <1>1 DEF CallType
  <2>3. QED
    BY <2>1, <2>2
<1>4. PICK b \in BOOLEAN : b = ~open
  BY <1>1 DEF TypeOK
<1>5. /\ call \in [Thread -> CallType]
      /\ c.phase \in {"enter", "write"} /\ (Emulated => c.phase = "write")
      /\ call' = [call EXCEPT ![t] = Entered(c, f, b)]
  BY <1>0, <1>1, <1>3, <1>4 DEF Enter, Resolves, Entered, TypeOK
<1>6. PICK r : /\ r = Entered(c, f, b)
               /\ r \in CallType /\ r.phase = "in" /\ r.off = c.off /\ r.tag = c.tag
               /\ r.sent = c.sent /\ r.raced = c.raced /\ r.from = f /\ r.got = c.got
               /\ r.stray = b /\ (c.nonblock => c.named) = (r.nonblock => r.named)
  BY <1>1, EnteredIs
<1>7. call' = [call EXCEPT ![t] = r]
  BY <1>5, <1>6
<1>8. CallOK(r) /\ Straight(r)
  BY <1>1, <1>4, <1>5, <1>6 DEF CallOK, Straight
<1>9. Answered(r)'
  <2>1. conf.build = "bsd" => f = Start(r)'
    BY <1>2, <1>3, <1>6 DEF Start
  <2>2. QED
    BY <1>2, <1>6, <2>1 DEF Answered
<1>10. /\ pos' \in Nat /\ pos' >= pos /\ fill' \in 0..Space
       /\ wrote' \in [1..Size -> Nat] /\ overlap' \in BOOLEAN /\ short' \in BOOLEAN
  BY <1>1, <1>2 DEF TypeOK
<1>11. TypeOK'
  BY <1>1, <1>2, <1>6, <1>7, <1>10, TypeOfOne
<1>12. CallInv'
  BY <1>2, <1>6, <1>7, <1>8, <1>9, <1>10, <1>11, OneCall
<1>13. SourceInv'
  <2>1. call'[t] = r /\ \A u \in Thread \ {t} : call'[u] = call[u]
    BY <1>5, <1>7
  <2>2. conf.build = "linux" /\ LinuxInv => LinuxInv'
    BY <1>2 DEF LinuxInv
  \* What an emulated call has in hand it keeps.
  <2>3. Emulated /\ EmulatedInv => EmulatedInv'
    <3>1. Emulated => \A u \in Thread, d \in 1..Size :
              InHand(call'[u], d) <=> InHand(call[u], d)
      <4>1. Emulated => r.from = c.from /\ c.phase = "write"
        BY <1>3, <1>5, <1>6 DEF Emulated
      <4>2. QED
        BY <1>0, <1>6, <2>1, <4>1 DEF InHand
    <3>2. QED
      BY <1>2, <3>1 DEF EmulatedInv, InHand
  <2>4. ASSUME BsdInv, ~overlap, conf.build = "bsd"
        PROVE  BsdInv'
    <3>1. \A u \in Thread, d \in 1..Size : Ahead(call'[u], d) <=> Ahead(call[u], d)
      BY <1>0, <1>5, <1>6, <2>1 DEF Ahead
    <3>2. \A u \in Thread : Busy(u)' /\ call'[u].off = Nil => Busy(u) /\ call[u].off = Nil
      BY <1>0, <1>5, <1>6, <2>1 DEF Busy
    <3>3. \A u, v \in Thread :
              (Busy(u) /\ Busy(v) /\ call[u].off = Nil /\ call[v].off = Nil)' => u = v
      BY <2>4, <3>2 DEF BsdInv
    <3>4. \A u \in Thread :
              call'[u].phase \in {"in", "seek"} /\ call'[u].off = Nil => call'[u].from = pos'
      <4>1. r.off = Nil => r.from = pos
        BY <1>3, <1>6, <2>4
      <4>2. \A u \in Thread :
                call[u].phase \in {"in", "seek"} /\ call[u].off = Nil => call[u].from = pos
        BY <2>4 DEF BsdInv
      <4>3. QED
        BY <1>2, <2>1, <4>1, <4>2
    <3>5. \A d \in 1..Size : wrote'[d] =
              IF d <= pos' \/ \E u \in Thread : Ahead(call'[u], d) THEN 1 ELSE 0
      BY <1>2, <2>4, <3>1 DEF BsdInv
    <3>6. QED
      BY <3>3, <3>4, <3>5 DEF BsdInv, Ahead
  <2>5. conf.build = "bsd" /\ BsdInv => BsdInv'
    BY <1>2, <2>4 DEF BsdInv
  <2>6. QED
    BY <1>2, <2>2, <2>3, <2>5 DEF CopyInv, SourceInv, Emulated
<1>14. QED
  BY <1>11, <1>12, <1>13 DEF CopyInv

LEMMA ReadKeeps ==
    ASSUME CopyInv, NEW t \in Thread, Read(t)
    PROVE  CopyInv'
<1>0. PICK c : c = call[t]
  OBVIOUS
<1>1. /\ TypeOK /\ c \in CallType /\ CallOK(c) /\ Straight(c) /\ c.len \in Nat
      /\ call \in [Thread -> CallType]
  BY <1>0, CallFacts, LenIs DEF TypeOK
<1>2. PICK f \in Nat : f = Start(c) /\ (c.off = Nil => f = pos)
  BY <1>1, StartIs
<1>3. PICK g : g = Min({c.len, IF f < avail THEN avail - f ELSE 0})
  OBVIOUS
<1>4. g \in Nat /\ (g = 0 => c.len = 0 \/ f >= avail)
  <2>1. PICK d : d = IF f < avail THEN avail - f ELSE 0
    OBVIOUS
  <2>2. d \in Nat /\ (d = 0 => f >= avail)
    BY <1>1, <2>1 DEF TypeOK
  <2>3. Min({c.len, d}) \in {c.len, d}
    <3>1. c.len \in Int /\ d \in Int
      BY <1>1, <2>2
    <3>2. QED
      BY ONLY <3>1, MinOfTwo
  <2>4. QED
    BY <1>1, <1>3, <2>1, <2>2, <2>3
<1>5. /\ c.phase = "enter" /\ Emulated
      /\ pos' = (IF c.off = Nil THEN pos + g ELSE pos)
      /\ \E q \in IF g = 0 THEN Back(Returned(c, 0)) ELSE {HasRead(c, f, g)} :
            call' = [call EXCEPT ![t] = q]
  BY <1>0, <1>2, <1>3 DEF Read, HasRead
<1>6. /\ conf' = conf /\ avail' = avail /\ ended' = ended /\ fill' = fill
      /\ open' = open /\ reused' = reused /\ calls' = calls /\ wrote' = wrote
      /\ overlap' = overlap /\ short' = short
  BY DEF Read, sink, history
<1>7. /\ pos' \in Nat /\ pos' >= pos /\ fill' \in 0..Space
      /\ wrote' \in [1..Size -> Nat] /\ overlap' \in BOOLEAN /\ short' \in BOOLEAN
  BY <1>1, <1>4, <1>5, <1>6 DEF TypeOK
<1>8. CASE g = 0
  <2>1. pos' = pos
    BY <1>1, <1>5, <1>8 DEF TypeOK
  <2>2. c.sent = 0 /\ (c.stray => ~open) /\ 0 \in Nat
    BY <1>1, <1>5 DEF CallOK
  <2>3. c.len = 0 \/ (ended /\ Start(c) >= avail)'
    <3>1. ended
      BY <1>1, <1>5, Builds DEF Emulated, CopyInv, CallInv
    <3>2. Start(c)' = f
      BY <1>2, <2>1 DEF Start
    <3>3. QED
      BY <1>4, <1>6, <1>8, <3>1, <3>2
  <2>4. PICK r : r = Returned(c, 0) /\ Settled(r, c) /\ Answered(r)'
    BY <1>1, <2>2, <2>3, ReturnedKeeps
  <2>5. \E q \in Back(r) : call' = [call EXCEPT ![t] = q]
    BY <1>5, <1>8, <2>4
  <2>6. UNCHANGED <<conf, source, sink, calls, history>>
    BY <1>6, <2>1 DEF source, sink, history
  <2>7. (short' = short /\ ~Wasted(c)) \/ short' = (short \/ Wasted(c))
    BY <1>5, <1>6 DEF Wasted
  <2>8. c.phase \in {"look", "enter", "write", "in"}
    BY <1>5
  <2>9. QED
    BY ONLY CopyInv, t \in Thread, <1>0, <2>4, <2>5, <2>6, <2>7, <2>8, ComesBack
<1>9. CASE g # 0
  <2>2. PICK r : /\ r = HasRead(c, f, g)
                 /\ r \in CallType /\ r.phase = "write" /\ r.off = c.off
                 /\ r.from = f /\ r.got = g
                 /\ CallOK(r) /\ Straight(r) /\ Answered(r)'
    BY <1>1, <1>4, <1>5, <1>9, HasReadIs
  <2>3. call' = [call EXCEPT ![t] = r]
    BY <1>5, <1>9, <2>2
  <2>4. TypeOK'
    BY <1>1, <1>6, <1>7, <2>2, <2>3, TypeOfOne
  <2>5. CallInv'
    BY <1>6, <1>7, <2>2, <2>3, <2>4, OneCall
  <2>6. EmulatedInv
    BY <1>5 DEF CopyInv, SourceInv
  <2>7. call'[t] = r /\ \A u \in Thread \ {t} : call'[u] = call[u]
    BY <1>1, <2>3
  \* What the call has in hand is what the position has just passed.
  <2>8. \A b \in 1..Size : InHand(r, b) <=> c.off = Nil /\ pos < b /\ b <= pos'
    BY <1>1, <1>2, <1>4, <1>5, <2>2 DEF InHand, TypeOK
  <2>9. \A b \in 1..Size : ~InHand(call[t], b)
    BY <1>0, <1>5 DEF InHand
  <2>10. \A u \in Thread \ {t}, b \in 1..Size : InHand(call'[u], b) <=> InHand(call[u], b)
    BY <2>7
  <2>11. \A b \in 1..Size : wrote'[b] \in {0, 1} /\ (wrote'[b] = 1 => b <= pos')
    BY <1>1, <1>6, <1>7, <2>6 DEF EmulatedInv, TypeOK
  <2>12. \A u \in Thread, b \in 1..Size : InHand(call'[u], b) => b <= pos' /\ wrote'[b] = 0
    <3>1. \A b \in 1..Size : InHand(r, b) => b <= pos' /\ wrote'[b] = 0
      BY <1>1, <1>6, <2>6, <2>8 DEF EmulatedInv, TypeOK
    <3>2. \A u \in Thread, b \in 1..Size : InHand(call[u], b) => b <= pos' /\ wrote'[b] = 0
      BY <1>1, <1>6, <1>7, <2>6 DEF EmulatedInv, TypeOK
    <3>3. QED
      BY <2>7, <2>10, <3>1, <3>2
  <2>13. \A u, v \in Thread, b \in 1..Size :
            InHand(call'[u], b) /\ InHand(call'[v], b) => u = v
    <3>1. \A u \in Thread, b \in 1..Size : InHand(call[u], b) => ~InHand(r, b)
      BY <1>1, <2>6, <2>8 DEF EmulatedInv, TypeOK
    <3>2. QED
      BY <2>6, <2>7, <2>10, <3>1 DEF EmulatedInv
  <2>14. ~short' => \A b \in 1..Size :
            b <= pos' => wrote'[b] = 1 \/ \E u \in Thread : InHand(call'[u], b)
    <3> SUFFICES ASSUME ~short, NEW b \in 1..Size, b <= pos', wrote[b] # 1
                 PROVE  \E u \in Thread : InHand(call'[u], b)
      BY <1>6
    <3>1. CASE b <= pos
      BY <2>6, <2>9, <2>10, <3>1 DEF EmulatedInv
    <3>2. CASE ~(b <= pos)
      BY <1>1, <1>5, <2>7, <2>8, <3>2 DEF TypeOK
    <3>3. QED
      BY <3>1, <3>2
  <2>15. EmulatedInv'
    BY <2>11, <2>12, <2>13, <2>14 DEF EmulatedInv, InHand
  <2>16. SourceInv'
    BY <1>5, <1>6, <2>15 DEF SourceInv, Emulated
  <2>17. QED
    BY <2>4, <2>5, <2>16 DEF CopyInv
<1>10. QED
  BY <1>8, <1>9

\* A call that has copied k bytes, and one of BSD's on its way to the second lseek.
Sent(c, k) == [c EXCEPT !.sent = k]
Seeking(c, k) == [c EXCEPT !.phase = "seek", !.sent = k]

LEMMA SentIs ==
    ASSUME NEW c \in CallType, NEW k \in Nat
    PROVE  /\ Sent(c, k) \in CallType /\ Sent(c, k).sent = k /\ Sent(c, k).off = c.off
           /\ Sent(c, k).raced = c.raced /\ Sent(c, k).stray = c.stray
           /\ Seeking(c, k) \in CallType /\ Seeking(c, k).phase = "seek"
           /\ Seeking(c, k).sent = k /\ Seeking(c, k).off = c.off
           /\ Seeking(c, k).from = c.from /\ Seeking(c, k).raced = c.raced
           /\ Seeking(c, k).stray = c.stray /\ Seeking(c, k).tag = c.tag
           /\ (c.nonblock => c.named) => (Seeking(c, k).nonblock => Seeking(c, k).named)
<1>1. Sent(c, k) \in CallType /\ Sent(c, k).sent = k /\ Sent(c, k).off = c.off
  BY DEF Sent, CallType
<1>2. Sent(c, k).raced = c.raced /\ Sent(c, k).stray = c.stray
  BY DEF Sent, CallType
<1>3. Seeking(c, k) \in CallType
  BY DEF Seeking, CallType
<1>4. /\ Seeking(c, k).phase = "seek" /\ Seeking(c, k).sent = k
      /\ Seeking(c, k).off = c.off /\ Seeking(c, k).from = c.from
      /\ Seeking(c, k).raced = c.raced /\ Seeking(c, k).tag = c.tag
  BY DEF Seeking, CallType
<1>5. Seeking(c, k).stray = c.stray
  BY DEF Seeking, CallType
<1>6. Seeking(c, k).nonblock = c.nonblock /\ Seeking(c, k).named = c.named
  BY DEF Seeking, CallType
<1>7. QED
  BY <1>1, <1>2, <1>3, <1>4, <1>5, <1>6

\* What the system call copies.
LEMMA TransferIs ==
    ASSUME CopyInv, NEW t \in Thread, Transfer(t), NEW c, c = call[t]
    PROVE  \E k \in Nat :
             /\ k >= 1 /\ k <= There(c)
             /\ \E q \in IF conf.build = "bsd" THEN {Seeking(c, k)}
                          ELSE Back(Returned(Sent(c, k), k)) :
                   call' = [call EXCEPT ![t] = q]
             /\ pos' = (IF conf.build = "linux" /\ conf.method # "tee" /\ c.off = Nil
                        THEN pos + k ELSE pos)
             /\ wrote' = [b \in 1..Size |->
                   IF b \in From(c) + 1..From(c) + k /\ c.off = Nil /\ conf.method # "tee"
                   THEN wrote[b] + 1 ELSE wrote[b]]
             /\ fill' \in 0..Space
             /\ short' = (short \/ (Wasted(c) /\ k < c.got))
<1>1. TypeOK /\ c \in CallType
  BY CallFacts
<1>2. c.len \in Int /\ c.got \in Nat /\ c.from \in Nat /\ Start(c) \in Nat
  BY <1>1, LenIs, StartIs DEF CallType
<1>3. avail \in Int /\ fill \in 0..Space /\ Size \in Nat /\ Space \in Nat
  BY <1>1, ConstantsOK DEF TypeOK
<1>4. From(c) \in Nat /\ There(c) \in Int /\ RoomFor(c) \in Int
  BY <1>2, <1>3 DEF From, There, RoomFor
<1>5. Asked(c) \in Int
  BY <1>2, <1>4 DEF Asked
<1>6. PICK k \in 1..Min({Asked(c), There(c), RoomFor(c)}) :
        /\ \E q \in IF conf.build = "bsd" THEN {Seeking(c, k)}
                     ELSE Back(Returned(Sent(c, k), k)) :
              call' = [call EXCEPT ![t] = q]
        /\ pos' = (IF conf.build = "linux" /\ conf.method # "tee" /\ c.off = Nil
                   THEN pos + k ELSE pos)
        /\ wrote' = [b \in 1..Size |->
              IF b \in From(c) + 1..From(c) + k /\ c.off = Nil /\ conf.method # "tee"
              THEN wrote[b] + 1 ELSE wrote[b]]
        /\ fill' = (IF conf.method = "cfr" \/ c.stray THEN fill ELSE fill + k)
        /\ short' = (short \/ (Wasted(c) /\ k < c.got))
  BY DEF Transfer, Seeking, Sent
<1>7. PICK m : m = Min({Asked(c), There(c), RoomFor(c)})
  OBVIOUS
<1>8. m \in Int /\ m <= There(c) /\ m <= RoomFor(c)
  BY ONLY <1>4, <1>5, <1>7, MinOfThree
<1>9. k \in Nat /\ k >= 1 /\ k <= There(c) /\ k <= RoomFor(c)
  BY <1>4, <1>7, <1>8
<1>10. fill' \in 0..Space
  BY <1>3, <1>6, <1>9 DEF RoomFor
<1>11. QED
  BY <1>6, <1>9, <1>10

\* Linux copies what is at the position, and moves it past that.
LEMMA TransferLinux ==
    ASSUME TypeOK, LinuxInv, NEW c \in CallType, NEW k \in Nat, conf' = conf,
           conf.build = "linux",
           pos' = (IF conf.build = "linux" /\ conf.method # "tee" /\ c.off = Nil
                   THEN pos + k ELSE pos),
           wrote' = [b \in 1..Size |->
              IF b \in From(c) + 1..From(c) + k /\ c.off = Nil /\ conf.method # "tee"
              THEN wrote[b] + 1 ELSE wrote[b]]
    PROVE  LinuxInv'
<1> SUFFICES ASSUME NEW b \in 1..Size
             PROVE  wrote'[b] = IF b <= pos' /\ conf.method # "tee" THEN 1 ELSE 0
  BY DEF LinuxInv
<1>1. /\ pos \in Nat /\ b \in Nat
      /\ wrote[b] = IF b <= pos /\ conf.method # "tee" THEN 1 ELSE 0
  BY ConstantsOK DEF TypeOK, LinuxInv
<1>2. CASE c.off = Nil /\ conf.method # "tee"
  <2>1. From(c) = pos
    BY <1>2, StartIs DEF From
  <2>2. wrote'[b] = IF b \in pos + 1..pos + k THEN wrote[b] + 1 ELSE wrote[b]
    BY <1>2, <2>1
  <2>3. pos' = pos + k
    BY <1>2
  <2>4. QED
    BY <1>1, <1>2, <2>2, <2>3
<1>3. CASE ~(c.off = Nil /\ conf.method # "tee")
  BY <1>1, <1>3
<1>4. QED
  BY <1>2, <1>3

\* An emulated call writes from what it has in hand.
LEMMA TransferEmulated ==
    ASSUME TypeOK, EmulatedInv, Emulated, NEW t \in Thread, NEW c \in CallType, c = call[t],
           c.phase = "in", NEW k \in Nat, k <= c.got, pos' = pos,
           NEW r, call' = [call EXCEPT ![t] = r], r.phase = "done",
           wrote' = [b \in 1..Size |->
              IF b \in From(c) + 1..From(c) + k /\ c.off = Nil /\ conf.method # "tee"
              THEN wrote[b] + 1 ELSE wrote[b]],
           short' = (short \/ (Wasted(c) /\ k < c.got))
    PROVE  EmulatedInv'
<1>1. call'[t] = r /\ \A u \in Thread \ {t} : call'[u] = call[u]
  BY DEF TypeOK
<1>2. c.from \in Nat /\ c.got \in Nat /\ pos \in Nat /\ From(c) = c.from
      /\ conf.method # "tee"
  BY Builds DEF CallType, TypeOK, From, Emulated
<1>3. \A b \in 1..Size : b \in Nat
  OBVIOUS
<1> DEFINE New(b) == c.off = Nil /\ c.from < b /\ b <= c.from + k
<1>4. \A b \in 1..Size : wrote'[b] = IF New(b) THEN wrote[b] + 1 ELSE wrote[b]
  BY <1>2, <1>3
<1>5. \A b \in 1..Size : New(b) => InHand(call[t], b)
  BY <1>2, <1>3 DEF InHand
<1>6. ~short' => \A b \in 1..Size : InHand(call[t], b) => New(b)
  <2>1. ~short' /\ c.off = Nil => ~(k < c.got)
    BY DEF Wasted
  <2>2. ~short' /\ c.off = Nil => k = c.got
    BY <1>2, <2>1
  <2>3. QED
    BY <2>2 DEF InHand
<1>7. \A u \in Thread, b \in 1..Size : InHand(call'[u], b) => u # t /\ InHand(call[u], b)
  BY <1>1 DEF InHand
<1>8. \A u \in Thread, b \in 1..Size : u # t => (InHand(call'[u], b) <=> InHand(call[u], b))
  BY <1>1
<1> HIDE DEF New
<1>9. \A b \in 1..Size : wrote'[b] \in {0, 1} /\ (wrote'[b] = 1 => b <= pos')
  BY <1>4, <1>5 DEF EmulatedInv
<1>10. \A u \in Thread, b \in 1..Size : InHand(call'[u], b) => b <= pos' /\ wrote'[b] = 0
  BY <1>4, <1>5, <1>7 DEF EmulatedInv
<1>11. \A u, v \in Thread, b \in 1..Size :
          InHand(call'[u], b) /\ InHand(call'[v], b) => u = v
  BY <1>7 DEF EmulatedInv
<1>12. ~short' => \A b \in 1..Size :
          b <= pos' => wrote'[b] = 1 \/ \E u \in Thread : InHand(call'[u], b)
  <2> SUFFICES ASSUME ~short', NEW b \in 1..Size, b <= pos
               PROVE  wrote'[b] = 1 \/ \E u \in Thread : InHand(call'[u], b)
    OBVIOUS
  <2>1. ~short
    OBVIOUS
  <2>2. wrote[b] = 1 \/ \E u \in Thread : InHand(call[u], b)
    BY <2>1 DEF EmulatedInv
  <2>3. CASE New(b)
    BY <1>4, <1>5, <2>3 DEF EmulatedInv
  <2>4. CASE ~New(b)
    BY <1>4, <1>6, <1>8, <2>2, <2>4
  <2>5. QED
    BY <2>3, <2>4
<1>13. QED
  BY <1>9, <1>10, <1>11, <1>12 DEF EmulatedInv, InHand

\* BSD copies from where the call found the position, which nobody has moved.
LEMMA TransferBsd ==
    ASSUME TypeOK, BsdInv, conf.build = "bsd", NEW t \in Thread, NEW c \in CallType,
           c = call[t], c.phase = "in", NEW k \in Nat, pos' = pos, overlap' = overlap,
           NEW r, call' = [call EXCEPT ![t] = r], r.phase = "seek", r.off = c.off,
           r.from = c.from, r.sent = k,
           wrote' = [b \in 1..Size |->
              IF b \in From(c) + 1..From(c) + k /\ c.off = Nil /\ conf.method # "tee"
              THEN wrote[b] + 1 ELSE wrote[b]]
    PROVE  BsdInv'
<1> SUFFICES ASSUME ~overlap
             PROVE  BsdInv'
  BY DEF BsdInv
<1>1. call'[t] = r /\ \A u \in Thread \ {t} : call'[u] = call[u]
  BY DEF TypeOK
<1>2. /\ c.from \in Nat /\ pos \in Nat /\ From(c) = c.from /\ conf.method # "tee"
      /\ \A b \in 1..Size : b \in Nat
  BY Builds DEF CallType, TypeOK, From
<1>3. \A u \in Thread : Busy(u)' /\ call'[u].off = Nil => Busy(u) /\ call[u].off = Nil
  BY <1>1 DEF Busy
<1>4. \A u, v \in Thread :
          (Busy(u) /\ Busy(v) /\ call[u].off = Nil /\ call[v].off = Nil)' => u = v
  BY <1>3 DEF BsdInv
<1>5. c.off = Nil => c.from = pos
  BY DEF BsdInv
<1>6. \A u \in Thread :
          call'[u].phase \in {"in", "seek"} /\ call'[u].off = Nil => call'[u].from = pos'
  <2>1. r.off = Nil => r.from = pos
    BY <1>5
  <2>2. \A u \in Thread :
            call[u].phase \in {"in", "seek"} /\ call[u].off = Nil => call[u].from = pos
    BY DEF BsdInv
  <2>3. QED
    BY <1>1, <2>1, <2>2
<1>7. ASSUME NEW b \in 1..Size
      PROVE  wrote'[b] = IF b <= pos' \/ \E u \in Thread : Ahead(call'[u], b) THEN 1 ELSE 0
  <2>1. wrote[b] = IF b <= pos \/ \E u \in Thread : Ahead(call[u], b) THEN 1 ELSE 0
    BY DEF BsdInv
  <2>2. \A u \in Thread \ {t} : Ahead(call'[u], b) <=> Ahead(call[u], b)
    BY <1>1
  <2>3. ~Ahead(call[t], b)
    BY DEF Ahead
  <2>4. CASE c.off = Nil
    <3>1. \A u \in Thread \ {t} : ~Ahead(call[u], b)
      BY <2>4 DEF BsdInv, Busy, Ahead
    <3>2. Ahead(call'[t], b) <=> b <= pos + k
      BY <1>1, <1>5, <2>4 DEF Ahead
    <3>3. wrote'[b] = IF b \in pos + 1..pos + k THEN wrote[b] + 1 ELSE wrote[b]
      BY <1>2, <1>5, <2>4
    <3>4. wrote[b] = IF b <= pos THEN 1 ELSE 0
      BY <2>1, <2>3, <3>1
    <3>5. (\E u \in Thread : Ahead(call'[u], b)) <=> b <= pos + k
      BY <2>2, <3>1, <3>2
    <3>6. QED
      BY <1>2, <3>3, <3>4, <3>5
  <2>5. CASE c.off # Nil
    <3>1. ~Ahead(call'[t], b)
      BY <1>1, <2>5 DEF Ahead
    <3>2. wrote'[b] = wrote[b]
      BY <2>5
    <3>3. QED
      BY <2>1, <2>2, <2>3, <3>1, <3>2
  <2>6. QED
    BY <2>4, <2>5
<1>8. QED
  BY <1>4, <1>6, <1>7 DEF BsdInv, Ahead

LEMMA TransferKeeps ==
    ASSUME CopyInv, NEW t \in Thread, Transfer(t)
    PROVE  CopyInv'
<1>0. PICK c : c = call[t]
  OBVIOUS
<1>1. TypeOK /\ c \in CallType /\ CallOK(c) /\ Straight(c) /\ Answered(c)
  BY <1>0, CallFacts
<1>2. c.phase = "in" /\ There(c) > 0
  BY <1>0 DEF Transfer
<1>3. PICK k \in Nat :
        /\ k >= 1 /\ k <= There(c)
        /\ \E q \in IF conf.build = "bsd" THEN {Seeking(c, k)}
                     ELSE Back(Returned(Sent(c, k), k)) :
              call' = [call EXCEPT ![t] = q]
        /\ pos' = (IF conf.build = "linux" /\ conf.method # "tee" /\ c.off = Nil
                   THEN pos + k ELSE pos)
        /\ wrote' = [b \in 1..Size |->
              IF b \in From(c) + 1..From(c) + k /\ c.off = Nil /\ conf.method # "tee"
              THEN wrote[b] + 1 ELSE wrote[b]]
        /\ fill' \in 0..Space
        /\ short' = (short \/ (Wasted(c) /\ k < c.got))
  BY <1>0, TransferIs
<1>4. /\ conf' = conf /\ avail' = avail /\ ended' = ended /\ open' = open
      /\ reused' = reused /\ calls' = calls /\ overlap' = overlap
  BY DEF Transfer
<1>5. /\ pos' \in Nat /\ pos' >= pos
      /\ wrote' \in [1..Size -> Nat] /\ overlap' \in BOOLEAN
  BY <1>1, <1>3, <1>4 DEF TypeOK
<1>6. short' \in BOOLEAN
  BY <1>3
<1>7. PICK r : /\ call' = [call EXCEPT ![t] = r] /\ r \in CallType
               /\ CallOK(r) /\ Straight(r) /\ Answered(r)'
               /\ conf.build # "bsd" => r.phase = "done"
               /\ conf.build = "bsd" => /\ r.phase = "seek" /\ r.off = c.off
                                        /\ r.from = c.from /\ r.sent = k
  <2>0. k # 0
    BY <1>3
  <2>1. CASE conf.build = "bsd"
    <3>1. PICK r : r = Seeking(c, k)
      OBVIOUS
    <3>2. /\ r \in CallType /\ r.phase = "seek" /\ r.off = c.off /\ r.from = c.from
          /\ r.sent = k /\ r.raced = c.raced /\ r.tag = c.tag /\ r.stray = c.stray
          /\ (c.nonblock => c.named) => (r.nonblock => r.named)
      BY <1>1, <3>1, SentIs
    <3>3. CallOK(r) /\ Straight(r)
      BY <1>1, <1>2, <2>0, <2>1, <3>2 DEF CallOK, Straight
    <3>4. Answered(r)'
      <4>1. pos' = pos
        BY <1>3, <2>1
      <4>2. c.from <= Start(c)
        BY <1>1, <1>2, <2>1 DEF Answered
      <4>3. r.from <= Start(r)'
        BY <3>2, <4>1, <4>2 DEF Start
      <4>4. QED
        BY <3>2, <4>3 DEF Answered
    <3>5. call' = [call EXCEPT ![t] = r]
      BY <1>3, <2>1, <3>1
    <3>6. QED
      BY <2>1, <3>2, <3>3, <3>4, <3>5
  <2>2. CASE conf.build # "bsd"
    <3>1. PICK d : d = Sent(c, k)
      OBVIOUS
    <3>2. /\ d \in CallType /\ k = d.sent /\ d.off = c.off /\ d.raced = c.raced
          /\ d.stray = c.stray
      BY <1>1, <3>1, SentIs
    <3>3. Straight(d) /\ (d.stray => ~open)
      BY <1>1, <3>2 DEF Straight, CallOK
    <3>4. PICK r : /\ r = Returned(d, k) /\ r.phase = "done"
                   /\ Settled(r, d) /\ Answered(r)'
      BY <1>1, <2>0, <3>2, <3>3, ReturnedKeeps
    <3>5. PICK q \in Back(r) : call' = [call EXCEPT ![t] = q]
      BY <1>3, <2>2, <3>1, <3>4
    <3>6. Settled(q, d) /\ Answered(q)' /\ q.phase = "done"
      BY <3>2, <3>4, BackKeeps
    <3>7. QED
      BY <2>2, <3>5, <3>6 DEF Settled
  <2>3. QED
    BY <2>1, <2>2
<1>8. TypeOK'
  BY <1>1, <1>3, <1>4, <1>5, <1>6, <1>7, TypeOfOne
<1>9. CallInv'
  BY <1>4, <1>5, <1>7, <1>8, OneCall
<1>10. SourceInv'
  <2>1. CASE conf.build = "linux"
    <3>1. LinuxInv
      BY <2>1 DEF CopyInv, SourceInv
    <3>2. LinuxInv'
      BY <1>1, <1>3, <1>4, <2>1, <3>1, TransferLinux
    <3>3. QED
      BY <1>4, <2>1, <3>2 DEF SourceInv, Emulated
  <2>2. CASE Emulated
    <3>1. EmulatedInv /\ conf.build = "emulated"
      BY <2>2 DEF CopyInv, SourceInv, Emulated
    <3>2. k <= c.got /\ pos' = pos /\ r.phase = "done"
      BY <1>3, <1>7, <2>2, <3>1 DEF There
    <3>3. /\ c \in CallType /\ c = call[t] /\ c.phase = "in" /\ TypeOK
          /\ call' = [call EXCEPT ![t] = r]
          /\ short' = (short \/ (Wasted(c) /\ k < c.got))
      BY <1>0, <1>1, <1>2, <1>3, <1>7
    <3>4. wrote' = [b \in 1..Size |->
              IF b \in From(c) + 1..From(c) + k /\ c.off = Nil /\ conf.method # "tee"
              THEN wrote[b] + 1 ELSE wrote[b]]
      BY <1>3
    <3>5. EmulatedInv'
      BY ONLY t \in Thread, k \in Nat, <2>2, <3>1, <3>2, <3>3, <3>4, TransferEmulated
    <3>6. QED
      BY <1>4, <3>1, <3>5 DEF SourceInv, Emulated
  <2>3. CASE conf.build = "bsd"
    <3>1. BsdInv /\ pos' = pos
      BY <1>3, <2>3 DEF CopyInv, SourceInv
    <3>2. /\ c \in CallType /\ c = call[t] /\ c.phase = "in" /\ TypeOK
          /\ overlap' = overlap /\ call' = [call EXCEPT ![t] = r]
          /\ r.phase = "seek" /\ r.off = c.off /\ r.from = c.from /\ r.sent = k
      BY <1>0, <1>1, <1>2, <1>4, <1>7, <2>3
    <3>3. wrote' = [b \in 1..Size |->
              IF b \in From(c) + 1..From(c) + k /\ c.off = Nil /\ conf.method # "tee"
              THEN wrote[b] + 1 ELSE wrote[b]]
      BY <1>3
    <3>4. BsdInv'
      BY ONLY t \in Thread, k \in Nat, <2>3, <3>1, <3>2, <3>3, TransferBsd
    <3>5. QED
      BY <1>4, <2>3, <3>4 DEF SourceInv, Emulated
  <2>4. QED
    BY <1>1, <2>1, <2>2, <2>3, Builds DEF Emulated
<1>11. QED
  BY <1>8, <1>9, <1>10 DEF CopyInv

LEMMA SeekKeeps ==
    ASSUME CopyInv, NEW t \in Thread, Seek(t)
    PROVE  CopyInv'
<1>0. PICK c : c = call[t]
  OBVIOUS
<1>1. TypeOK /\ c \in CallType /\ CallOK(c) /\ Straight(c)
  BY <1>0, CallFacts
<1>2. /\ c.phase = "seek"
      /\ pos' = (IF c.off = Nil THEN pos + c.sent ELSE pos)
      /\ \E q \in Back(Returned(c, c.sent)) : call' = [call EXCEPT ![t] = q]
  BY <1>0 DEF Seek
<1>3. /\ conf.build = "bsd" /\ conf.method = "sendfile" /\ c.sent \in Nat
      /\ c.sent # 0 /\ (c.stray => ~open)
  BY <1>1, <1>2, Builds DEF CallOK, CallType
<1>4. /\ conf' = conf /\ avail' = avail /\ ended' = ended /\ fill' = fill
      /\ open' = open /\ reused' = reused /\ calls' = calls /\ wrote' = wrote
      /\ overlap' = overlap /\ short' = short
  BY DEF Seek, sink, history
<1>5. /\ pos' \in Nat /\ pos' >= pos /\ fill' \in 0..Space
      /\ wrote' \in [1..Size -> Nat] /\ overlap' \in BOOLEAN /\ short' \in BOOLEAN
  BY <1>1, <1>2, <1>3, <1>4 DEF TypeOK
<1>6. PICK r : r.phase = "done" /\ Settled(r, c) /\ Answered(r)'
               /\ call' = [call EXCEPT ![t] = r]
  <2>1. PICK d : d = Returned(c, c.sent) /\ d.phase = "done" /\ Settled(d, c) /\ Answered(d)'
    BY <1>1, <1>3, ReturnedKeeps
  <2>2. PICK q \in Back(d) : call' = [call EXCEPT ![t] = q]
    BY <1>2, <2>1
  <2>3. Settled(q, c) /\ Answered(q)' /\ q.phase = "done"
    BY <1>1, <2>1, BackKeeps
  <2>4. QED
    BY <2>2, <2>3
<1>7. /\ call' = [call EXCEPT ![t] = r] /\ r \in CallType
      /\ CallOK(r) /\ Straight(r)
  BY <1>6 DEF Settled
<1>8. TypeOK'
  BY <1>1, <1>4, <1>5, <1>7, TypeOfOne
<1>9. CallInv'
  BY <1>4, <1>5, <1>6, <1>7, <1>8, OneCall
<1>10. BsdInv'
  <2> SUFFICES ASSUME ~overlap
               PROVE  BsdInv'
    BY <1>4 DEF BsdInv
  <2>0. BsdInv
    BY <1>3 DEF CopyInv, SourceInv
  <2>1. call'[t] = r /\ \A u \in Thread \ {t} : call'[u] = call[u]
    BY <1>1, <1>7 DEF TypeOK
  <2>2. \A u \in Thread : Busy(u)' /\ call'[u].off = Nil => Busy(u) /\ call[u].off = Nil
    BY <1>6, <2>1 DEF Busy
  <2>3. \A u, v \in Thread :
            (Busy(u) /\ Busy(v) /\ call[u].off = Nil /\ call[v].off = Nil)' => u = v
    BY <2>0, <2>2 DEF BsdInv
  <2>4. c.off = Nil => c.from = pos
    BY <1>0, <1>2, <2>0 DEF BsdInv
  <2>5. \A u \in Thread :
            call'[u].phase \in {"in", "seek"} /\ call'[u].off = Nil => call'[u].from = pos'
    <3>1. \A u \in Thread :
              call[u].phase \in {"in", "seek"} /\ call[u].off = Nil => call[u].from = pos
      BY <2>0 DEF BsdInv
    <3>2. ASSUME NEW u \in Thread \ {t}, call[u].phase \in {"in", "seek"},
                 call[u].off = Nil
          PROVE  c.off # Nil
      BY <1>0, <1>2, <2>0, <3>2 DEF BsdInv, Busy
    <3>3. QED
      BY <1>2, <1>6, <2>1, <3>1, <3>2
  <2>6. ASSUME NEW b \in 1..Size
        PROVE  wrote'[b] = IF b <= pos' \/ \E u \in Thread : Ahead(call'[u], b) THEN 1 ELSE 0
    <3>1. wrote[b] = IF b <= pos \/ \E u \in Thread : Ahead(call[u], b) THEN 1 ELSE 0
      BY <2>0 DEF BsdInv
    <3>2. \A u \in Thread \ {t} : Ahead(call'[u], b) <=> Ahead(call[u], b)
      BY <2>1
    <3>3. ~Ahead(call'[t], b)
      BY <1>6, <2>1 DEF Ahead
    <3>4. CASE c.off = Nil
      <4>1. \A u \in Thread \ {t} : ~Ahead(call[u], b)
        BY <1>0, <1>2, <2>0, <3>4 DEF BsdInv, Busy, Ahead
      <4>2. Ahead(call[t], b) <=> b <= pos'
        BY <1>0, <1>2, <2>4, <3>4 DEF Ahead
      <4>3. b <= pos => b <= pos'
        BY <1>1, <1>5 DEF TypeOK
      <4>4. QED
        BY <1>4, <3>1, <3>2, <3>3, <4>1, <4>2, <4>3
    <3>5. CASE c.off # Nil
      <4>1. ~Ahead(call[t], b)
        BY <1>0, <3>5 DEF Ahead
      <4>2. QED
        BY <1>2, <1>4, <3>1, <3>2, <3>3, <3>5, <4>1
    <3>6. QED
      BY <3>4, <3>5
  <2>7. QED
    BY <2>3, <2>5, <2>6 DEF BsdInv, Ahead
<1>11. SourceInv'
  BY <1>3, <1>4, <1>10 DEF SourceInv, Emulated
<1>12. QED
  BY <1>8, <1>9, <1>11 DEF CopyInv
----------------------------------------------------------------------------
(* New calls, the peers and other threads.                                 *)

\* The record of a new call.
Called(len, off, e, nb, nm) ==
    [Fresh EXCEPT !.phase = "look", !.len = len, !.off = off, !.exception = e,
                  !.nonblock = nb, !.named = nm]

LEMMA CalledIs ==
    ASSUME NEW len \in Length, NEW off \in Offset \cup {Nil}, NEW e \in BOOLEAN,
           NEW nb \in BOOLEAN, NEW nm \in BOOLEAN
    PROVE  LET r == Called(len, off, e, nb, nm) IN
           /\ r \in CallType /\ r.phase = "look" /\ r.off = off /\ r.sent = 0
           /\ r.tag = "none" /\ r.nonblock = nb /\ r.named = nm /\ ~r.stray
<1> DEFINE r == Called(len, off, e, nb, nm)
<1>1. Fresh \in CallType
  BY DEF Fresh, CallType, Tag
<1>2. r \in CallType
  BY <1>1 DEF Called, CallType
<1>3. r.phase = "look" /\ r.off = off
  BY DEF Called, Fresh
<1>4. r.sent = 0 /\ r.tag = "none"
  BY DEF Called, Fresh
<1>5. r.nonblock = nb /\ r.named = nm /\ ~r.stray
  BY DEF Called, Fresh
<1>6. QED
  BY <1>2, <1>3, <1>4, <1>5

LEMMA CallKeeps ==
    ASSUME CopyInv, NEW t \in Thread, NEW len \in Length, NEW off \in Offset \cup {Nil},
           NEW f, NEW e \in BOOLEAN, Call(t, len, off, f, e)
    PROVE  CopyInv'
<1>1. TypeOK /\ call \in [Thread -> CallType]
  BY DEF CopyInv, TypeOK
<1>2. PICK nb \in BOOLEAN, nm \in BOOLEAN :
        /\ nb => nm
        /\ call' = [call EXCEPT ![t] = Called(len, off, e, nb, nm)]
  <2> DEFINE fl == __map_splice_flags(FlagMap, f)
             nb == 1 \in fl.bits \/ conf.nb
             nm == 1 \in Named(FlagMap, f) \/ conf.nb
  <2>1. nb \in BOOLEAN /\ nm \in BOOLEAN
    OBVIOUS
  <2>2. ~fl.raises
    BY DEF Call
  <2>3. fl.bits = Named(FlagMap, f)
    BY <2>2, FlagsAsNamed
  <2>4. nb => nm
    BY <2>3
  <2>5. call' = [call EXCEPT ![t] = Called(len, off, e, nb, nm)]
    BY DEF Call, Called
  <2> HIDE DEF nb, nm
  <2>6. QED
    BY <2>1, <2>4, <2>5
<1>3. PICK r : r = Called(len, off, e, nb, nm)
  OBVIOUS
<1>4. /\ r \in CallType /\ r.phase = "look" /\ r.off = off /\ r.sent = 0
      /\ r.tag = "none" /\ r.nonblock = nb /\ r.named = nm /\ ~r.stray
  BY <1>3, CalledIs
<1>5. call' = [call EXCEPT ![t] = r]
  BY <1>2, <1>3
<1>6. CallOK(r) /\ Straight(r) /\ Answered(r)'
  BY <1>2, <1>4 DEF CallOK, Straight, Answered
<1>7. /\ conf' = conf /\ pos' = pos /\ avail' = avail /\ ended' = ended /\ fill' = fill
      /\ open' = open /\ reused' = reused /\ wrote' = wrote
      /\ short' = short
  BY DEF Call, source, sink
<1>8. TypeOK'
  <2>1. call' \in [Thread -> CallType]
    BY <1>1, <1>4, <1>5
  <2>2. calls' \in 0..MaxCalls
    BY <1>1, ConstantsOK DEF Call, TypeOK
  <2>3. overlap' \in BOOLEAN
    BY DEF Call
  <2>4. QED
    BY <1>1, <1>7, <2>1, <2>2, <2>3 DEF TypeOK
<1>9. CallInv'
  <2>1. pos' >= pos
    BY <1>1, <1>7 DEF TypeOK
  <2>2. QED
    BY <1>4, <1>5, <1>6, <1>7, <1>8, <2>1, OneCall
<1>10. SourceInv'
  <2>0. call[t].phase = "done"
    BY DEF Call, Busy
  <2>1. call'[t] = r /\ \A u \in Thread \ {t} : call'[u] = call[u]
    BY <1>1, <1>5
  <2>2. conf.build = "linux" /\ LinuxInv => LinuxInv'
    BY <1>7 DEF LinuxInv
  <2>3. EmulatedInv => EmulatedInv'
    <3>1. \A u \in Thread, b \in 1..Size : InHand(call'[u], b) <=> InHand(call[u], b)
      BY <1>4, <2>0, <2>1 DEF InHand
    <3>2. QED
      BY <1>7, <3>1 DEF EmulatedInv, InHand
  <2>4. BsdInv => BsdInv'
    <3> SUFFICES ASSUME BsdInv, ~overlap'
                 PROVE  BsdInv'
      BY DEF BsdInv
    <3>1. ~overlap /\ (off = Nil => ~\E u \in Thread \ {t} : Busy(u) /\ call[u].off = Nil)
      BY DEF Call
    <3>2. \A u \in Thread, b \in 1..Size : Ahead(call'[u], b) <=> Ahead(call[u], b)
      BY <1>4, <2>0, <2>1 DEF Ahead
    <3>3. \A u \in Thread \ {t} :
              Busy(u)' /\ call'[u].off = Nil => Busy(u) /\ call[u].off = Nil /\ off # Nil
      BY <2>1, <3>1 DEF Busy
    <3>4. call'[t].off = off
      BY <1>4, <2>1
    <3>5. \A u, v \in Thread :
              (Busy(u) /\ Busy(v) /\ call[u].off = Nil /\ call[v].off = Nil)' => u = v
      BY <3>1, <3>3, <3>4 DEF BsdInv
    <3>6. \A u \in Thread :
              call'[u].phase \in {"in", "seek"} /\ call'[u].off = Nil => call'[u].from = pos'
      BY <1>4, <1>7, <2>1, <3>1 DEF BsdInv
    <3>7. \A b \in 1..Size : wrote'[b] =
              IF b <= pos' \/ \E u \in Thread : Ahead(call'[u], b) THEN 1 ELSE 0
      BY <1>7, <3>1, <3>2 DEF BsdInv
    <3>8. QED
      BY <3>5, <3>6, <3>7 DEF BsdInv, Ahead
  <2>5. QED
    BY <1>7, <2>2, <2>3, <2>4 DEF CopyInv, SourceInv, Emulated
<1>11. QED
  BY <1>8, <1>9, <1>10 DEF CopyInv

\* Steps of the peers: no call changes.
LEMMA PeersKeep ==
    ASSUME CopyInv, Feed \/ Drain \/ Reuse \/ UNCHANGED vars
    PROVE  CopyInv'
<1>1. /\ conf' = conf /\ pos' = pos /\ open' = open /\ call' = call /\ calls' = calls
      /\ wrote' = wrote /\ overlap' = overlap /\ short' = short
  BY DEF Feed, Drain, Reuse, vars, source, sink, history
<1>2. ended => ended' /\ avail' = avail
  BY DEF Feed, Drain, Reuse, vars, source
<1>3. TypeOK
  BY DEF CopyInv
<1>4. TypeOK'
  <2>0. /\ Size \in Nat /\ Space \in Nat /\ avail \in 0..Size /\ fill \in 0..Space
        /\ ended \in BOOLEAN /\ reused \in BOOLEAN
    BY <1>3, ConstantsOK DEF TypeOK
  <2>1. avail' \in 0..Size /\ fill' \in 0..Space
    <3>1. avail' = avail \/ (avail < Size /\ avail' = avail + 1)
      BY DEF Feed, Drain, Reuse, vars, source
    <3>2. fill' = fill \/ (fill > 0 /\ fill' = fill - 1)
      BY DEF Feed, Drain, Reuse, vars, sink
    <3>3. QED
      BY <2>0, <3>1, <3>2
  <2>2. ended' \in BOOLEAN /\ reused' \in BOOLEAN
    <3>1. ended' = ended \/ ended' = TRUE
      BY DEF Feed, Drain, Reuse, vars, source
    <3>2. reused' = reused \/ reused' = TRUE
      BY DEF Feed, Drain, Reuse, vars, sink
    <3>3. QED
      BY <2>0, <3>1, <3>2
  <2>3. QED
    BY <1>1, <1>3, <2>1, <2>2 DEF TypeOK
<1>5. CallInv'
  <2>1. conf'.from = "file" => ended'
    BY <1>1, <1>2 DEF CopyInv, CallInv
  <2>2. ASSUME NEW u \in Thread
        PROVE  (CallOK(call[u]) /\ Answered(call[u]) /\ Straight(call[u]))'
    <3>1. PICK c : c = call[u]
      OBVIOUS
    <3>2. c \in CallType /\ CallOK(c) /\ Answered(c) /\ Straight(c)
      BY <3>1, CallFacts
    <3>3. pos' >= pos
      BY <1>1, <1>3 DEF TypeOK
    <3>4. Answered(c)'
      BY <1>1, <1>2, <1>3, <1>4, <3>2, <3>3, AnswersLast
    <3>5. CallOK(c)' /\ Straight(c)'
      BY <1>1, <3>2 DEF CallOK, Straight, Emulated
    <3>6. call'[u] = c
      BY <1>1, <3>1
    <3>7. QED
      BY <3>4, <3>5, <3>6 DEF CallOK, Answered, Straight, Start
  <2>3. QED
    BY <2>1, <2>2 DEF CallInv
<1>6. SourceInv'
  BY <1>1, SameForSource
<1>7. QED
  BY <1>4, <1>5, <1>6 DEF CopyInv

\* A close of dst marks the calls that have looked its number up.
LEMMA CloseKeeps ==
    ASSUME CopyInv, Close
    PROVE  CopyInv'
<1>1. TypeOK /\ call \in [Thread -> CallType]
  BY DEF CopyInv, TypeOK
<1>2. /\ open /\ open' = FALSE
      /\ conf' = conf /\ pos' = pos /\ avail' = avail /\ ended' = ended /\ fill' = fill
      /\ reused' = reused /\ calls' = calls /\ wrote' = wrote
      /\ overlap' = overlap /\ short' = short
  BY DEF Close, source, history
<1>3. ASSUME NEW u \in Thread
      PROVE  /\ call'[u] \in CallType
             /\ call'[u].phase = call[u].phase /\ call'[u].off = call[u].off
             /\ call'[u].from = call[u].from /\ call'[u].got = call[u].got
             /\ call'[u].sent = call[u].sent
             /\ (CallOK(call[u]) /\ Answered(call[u]) /\ Straight(call[u]))'
  <2>1. PICK c : c = call[u]
    OBVIOUS
  <2>2. c \in CallType /\ CallOK(c) /\ Answered(c) /\ Straight(c)
    BY <2>1, CallFacts
  <2>3. PICK r : r = CASE c.phase \in {"enter", "write"} -> [c EXCEPT !.raced = "early"]
                       [] c.phase \in {"in", "seek"} -> [c EXCEPT !.raced = "late"]
                       [] OTHER -> c
    OBVIOUS
  <2>4. call'[u] = r
    BY <2>1, <2>3 DEF Close
  <2>5. r \in CallType
    BY <2>2, <2>3 DEF CallType
  <2>6. /\ r.phase = c.phase /\ r.off = c.off /\ r.from = c.from /\ r.got = c.got
        /\ r.sent = c.sent /\ r.tag = c.tag /\ r.n = c.n /\ r.stray = c.stray
        /\ r.len = c.len
    BY <2>2, <2>3 DEF CallType
  <2>7. r.named = c.named /\ r.nonblock = c.nonblock
    BY <2>2, <2>3 DEF CallType
  <2>8. (CallOK(call[u]) /\ Answered(call[u]) /\ Straight(call[u]))'
    <3>1. /\ c.phase \in {"enter", "write"} => r.raced = "early"
          /\ c.phase = "done" => r.raced = c.raced
      BY <2>2, <2>3 DEF CallType
    <3>2. CallOK(r)' /\ Straight(r)'
      BY <1>2, <2>2, <2>6, <2>7, <3>1 DEF CallOK, Straight, Emulated
    <3>3. Answered(r)'
      BY <1>2, <2>2, <2>6, <2>7, <3>1 DEF Answered, Start
    <3>4. QED
      BY <2>4, <3>2, <3>3 DEF CallOK, Answered, Straight, Start
  <2>9. QED
    BY <2>1, <2>4, <2>5, <2>6, <2>8
<1>4. CallInv'
  BY <1>2, <1>3 DEF CallInv, CopyInv
<1>5. TypeOK'
  <2>1. call' \in [Thread -> CallType]
    BY <1>3 DEF Close
  <2>2. QED
    BY <1>1, <1>2, <2>1 DEF TypeOK
<1>6. SourceInv'
  BY <1>2, <1>3, SameForSource
<1>7. QED
  BY <1>4, <1>5, <1>6 DEF CopyInv

----------------------------------------------------------------------------
(* The theorems.                                                           *)

LEMMA InitHolds == Init => CopyInv
<1> SUFFICES ASSUME Init
             PROVE  CopyInv
  OBVIOUS
<1>1. Fresh \in CallType
  BY DEF Fresh, CallType, Tag
<1>2. TypeOK
  <2>1. /\ conf \in Conf /\ pos \in Nat /\ avail \in 0..Size /\ fill \in 0..Space
        /\ calls \in 0..MaxCalls /\ wrote \in [1..Size -> Nat]
    BY ConstantsOK DEF Init
  <2>2. ended \in BOOLEAN /\ open \in BOOLEAN /\ reused \in BOOLEAN
    BY DEF Init
  <2>3. overlap \in BOOLEAN /\ short \in BOOLEAN /\ call \in [Thread -> CallType]
    BY <1>1 DEF Init
  <2>4. QED
    BY <2>1, <2>2, <2>3 DEF TypeOK
<1>3. \A t \in Thread : call[t] = Fresh
  BY DEF Init
<1>4. Fresh.phase = "done" /\ Fresh.tag = "none" /\ Fresh.stray = FALSE
  BY DEF Fresh
<1>5. CallInv
  BY <1>3, <1>4 DEF Init, CallInv, CallOK, Answered, Straight
<1>6. LinuxInv /\ EmulatedInv /\ BsdInv
  BY <1>3, <1>4 DEF Init, LinuxInv, EmulatedInv, BsdInv, InHand, Ahead, Busy
<1>7. QED
  BY <1>2, <1>5, <1>6 DEF CopyInv, SourceInv

LEMMA NextKeeps == CopyInv /\ [Next]_vars => CopyInv'
<1> SUFFICES ASSUME CopyInv, [Next]_vars
             PROVE  CopyInv'
  OBVIOUS
<1>1. ASSUME NEW t \in Thread, Progress(t) \/ Signalled(t) \/ Fails(t)
      PROVE  CopyInv'
  BY <1>1, LookKeeps, NothingKeeps, ReadKeeps, EnterKeeps, BadNumberKeeps, TransferKeeps,
     EndsKeeps, FailsKeeps, SeekKeeps DEF Progress
<1>2. ASSUME NEW t \in Thread, NEW len \in Length, NEW off \in Offset \cup {Nil},
             NEW k \in Keywords, Call(t, len, off, k.flags, k.exception)
      PROVE  CopyInv'
  <2>1. k.exception \in BOOLEAN
    BY ConstantsOK
  <2>2. QED
    BY <1>2, <2>1, CallKeeps
<1>3. CASE Feed \/ Drain \/ Reuse \/ UNCHANGED vars
  BY <1>3, PeersKeep
<1>4. CASE Close
  BY <1>4, CloseKeeps
<1>5. QED
  BY <1>1, <1>2, <1>3, <1>4 DEF Next

LEMMA Inductive == Spec => []CopyInv
  BY InitHolds, NextKeeps, PTL DEF Spec

\* The state of the copying methods keeps its type: positions and counts never
\* go below zero and the destination never holds more than it has room for.
THEOREM TypeCorrect == Spec => []TypeOK
<1>1. CopyInv => TypeOK
  BY DEF CopyInv
<1>2. QED
  BY <1>1, Inductive, PTL

\* What splice, tee, copy_file_range and sendfile return or raise is what they
\* did, whatever signals, ENOMEM, short copies and closes come between.
THEOREM CallsReport == Spec => []Reported
<1>1. CopyInv => Reported
  BY DEF CopyInv, CallInv, Answered, Reported, Busy
<1>2. QED
  BY <1>1, Inductive, PTL

\* A number looked up by check_fileno and rb_sp_fileno leads astray only if the
\* destination is closed after the look.
THEOREM NumbersAreFresh == Spec => []FreshNumber
<1>1. CopyInv => FreshNumber
  BY DEF CopyInv, CallInv, Straight, FreshNumber
<1>2. QED
  BY <1>1, Inductive, PTL

\* Calls without an offset divide the source, in each build of sendfile.
THEOREM SourceIsDivided == Spec => []Divided
<1>1. CopyInv => Divided
  <2> SUFFICES ASSUME CopyInv
               PROVE  Divided
    OBVIOUS
  <2>1. TypeOK /\ SourceInv
    BY DEF CopyInv
  <2>2. CASE conf.build = "linux"
    BY <2>1, <2>2 DEF SourceInv, LinuxInv, Divided
  <2>3. CASE Emulated
    <3>1. conf.method # "tee" /\ EmulatedInv /\ conf.build = "emulated"
      BY <2>1, <2>3, Builds DEF SourceInv, Emulated
    <3>2. \A b \in 1..Size : wrote[b] <= 1
      BY <3>1 DEF EmulatedInv
    <3>3. ASSUME \A t \in Thread : ~Busy(t), ~short, NEW b \in 1..Size
          PROVE  wrote[b] = IF b <= pos THEN 1 ELSE 0
      <4>1. \A t \in Thread : ~InHand(call[t], b)
        BY <3>3 DEF Busy, InHand
      <4>2. QED
        BY <3>1, <3>3, <4>1 DEF EmulatedInv
    <3>4. QED
      BY <3>1, <3>2, <3>3 DEF Divided
  <2>4. CASE conf.build = "bsd"
    <3>1. conf.method # "tee" /\ BsdInv
      BY <2>1, <2>4, Builds DEF SourceInv
    <3>2. ASSUME \A t \in Thread : ~Busy(t), ~overlap, NEW b \in 1..Size
          PROVE  wrote[b] = IF b <= pos THEN 1 ELSE 0
      <4>1. \A t \in Thread : ~Ahead(call[t], b)
        BY <3>2 DEF Busy, Ahead
      <4>2. QED
        BY <3>1, <3>2, <4>1 DEF BsdInv
    <3>3. QED
      BY <2>4, <3>1, <3>2 DEF Divided
  <2>5. QED
    BY <2>1, <2>2, <2>3, <2>4, Builds DEF Emulated
<1>2. QED
  BY <1>1, Inductive, PTL
=============================================================================
