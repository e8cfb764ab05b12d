--------------------------- MODULE InotifyProofs ---------------------------
(***************************************************************************)
(* Theorems about module Inotify: an event is in one place, and events of  *)
(* one read(2) keep their order, for any number of threads, events, sizes  *)
(* of events and buffers; and #take implements a queue of events.          *)
(***************************************************************************)
EXTENDS Inotify, Integers, FiniteSetTheorems, WellFoundedInduction, TLAPS

----------------------------------------------------------------------------
(* Sequences of events.                                                    *)

\* Ids grow along the sequence.
Increasing(s) == \A i, j \in 1 .. Len(s) : i < j => s[i].id < s[j].id

LEMMA IdsType == ASSUME NEW s \in Seq(Event) PROVE Ids(s) \subseteq Id
<1>1. ASSUME NEW i \in 1 .. Len(s) PROVE s[i].id \in Id
  <2>1. s[i] \in Event
    OBVIOUS
  <2> QED BY <2>1 DEF Event
<1> QED BY <1>1 DEF Ids

LEMMA IdsConcat ==
    ASSUME NEW s \in Seq(Event), NEW t \in Seq(Event)
    PROVE  Ids(s \o t) = Ids(s) \cup Ids(t)
<1>1. /\ Len(s \o t) = Len(s) + Len(t) /\ Len(s) \in Nat /\ Len(t) \in Nat
      /\ \A i \in 1 .. Len(s) : (s \o t)[i] = s[i]
      /\ \A i \in 1 .. Len(t) : (s \o t)[Len(s) + i] = t[i]
  OBVIOUS
<1>2. \A i \in 1 .. Len(s) : i \in 1 .. Len(s \o t)
  BY <1>1
<1>3. \A i \in 1 .. Len(t) : Len(s) + i \in 1 .. Len(s \o t)
  BY <1>1
<1>4. \A i \in 1 .. Len(s \o t) : i \in 1 .. Len(s) \/ \E j \in 1 .. Len(t) : i = Len(s) + j
  <2> SUFFICES ASSUME NEW i \in 1 .. Len(s \o t), i \notin 1 .. Len(s)
               PROVE  i - Len(s) \in 1 .. Len(t) /\ i = Len(s) + (i - Len(s))
    OBVIOUS
  <2> QED BY <1>1
<1>5. ASSUME NEW x \in Ids(s \o t) PROVE x \in Ids(s) \cup Ids(t)
  BY <1>1, <1>4 DEF Ids
<1>6. ASSUME NEW x \in Ids(s) \cup Ids(t) PROVE x \in Ids(s \o t)
  BY <1>1, <1>2, <1>3 DEF Ids
<1> QED BY <1>5, <1>6

LEMMA DistinctConcat ==
    ASSUME NEW s \in Seq(Event), NEW t \in Seq(Event), Distinct(s), Distinct(t),
           Ids(s) \cap Ids(t) = {}
    PROVE  Distinct(s \o t)
<1>1. /\ Len(s \o t) = Len(s) + Len(t) /\ Len(s) \in Nat /\ Len(t) \in Nat
      /\ \A i \in 1 .. Len(s) : (s \o t)[i] = s[i]
      /\ \A i \in 1 .. Len(t) : (s \o t)[Len(s) + i] = t[i]
  OBVIOUS
<1>2. \A i \in 1 .. Len(s \o t) : i \in 1 .. Len(s) \/ \E j \in 1 .. Len(t) : i = Len(s) + j
  <2> SUFFICES ASSUME NEW i \in 1 .. Len(s \o t), i \notin 1 .. Len(s)
               PROVE  i - Len(s) \in 1 .. Len(t) /\ i = Len(s) + (i - Len(s))
    OBVIOUS
  <2> QED BY <1>1
<1>3. \A i \in 1 .. Len(s), j \in 1 .. Len(t) : s[i].id # t[j].id
  BY DEF Ids
<1>4. ASSUME NEW i \in 1 .. Len(s \o t), NEW j \in 1 .. Len(s \o t),
             (s \o t)[i].id = (s \o t)[j].id
      PROVE  i = j
  <2>1. CASE i \in 1 .. Len(s) /\ j \in 1 .. Len(s)
    BY <1>1, <1>4, <2>1 DEF Distinct
  <2>2. CASE i \in 1 .. Len(s) /\ j \notin 1 .. Len(s)
    BY <1>1, <1>2, <1>3, <1>4, <2>2
  <2>3. CASE i \notin 1 .. Len(s) /\ j \in 1 .. Len(s)
    BY <1>1, <1>2, <1>3, <1>4, <2>3
  <2>4. CASE i \notin 1 .. Len(s) /\ j \notin 1 .. Len(s)
    <3>1. PICK x \in 1 .. Len(t) : i = Len(s) + x
      BY <1>2, <2>4
    <3>2. PICK y \in 1 .. Len(t) : j = Len(s) + y
      BY <1>2, <2>4
    <3>3. t[x].id = t[y].id
      BY <1>1, <1>4, <3>1, <3>2
    <3> QED BY <3>1, <3>2, <3>3 DEF Distinct
  <2> QED BY <2>1, <2>2, <2>3, <2>4
<1> QED BY <1>4 DEF Distinct

LEMMA IdsAppend ==
    ASSUME NEW s \in Seq(Event), NEW e \in Event
    PROVE  Ids(Append(s, e)) = Ids(s) \cup {e.id}
BY DEF Ids

LEMMA DistinctAppend ==
    ASSUME NEW s \in Seq(Event), NEW e \in Event, Distinct(s), e.id \notin Ids(s)
    PROVE  Distinct(Append(s, e))
BY DEF Ids, Distinct

\* The first event and the rest.
LEMMA HeadTail ==
    ASSUME NEW s \in Seq(Event), s # <<>>
    PROVE  /\ Head(s) \in Event /\ Tail(s) \in Seq(Event)
           /\ Ids(s) = {Head(s).id} \cup Ids(Tail(s))
           /\ Distinct(s) => Distinct(Tail(s)) /\ Head(s).id \notin Ids(Tail(s))
<1>1. /\ Len(s) \in Nat \ {0} /\ Head(s) = s[1] /\ Len(Tail(s)) = Len(s) - 1
      /\ \A i \in 1 .. Len(s) - 1 : Tail(s)[i] = s[i + 1]
  OBVIOUS
<1>2. Head(s) \in Event /\ Tail(s) \in Seq(Event)
  OBVIOUS
<1>3. \A i \in 1 .. Len(s) : i = 1 \/ (i - 1 \in 1 .. Len(s) - 1 /\ i = (i - 1) + 1)
  BY <1>1
<1>4. \A i \in 1 .. Len(s) - 1 : i + 1 \in 1 .. Len(s) /\ i + 1 # 1
  BY <1>1
<1>5. Ids(s) = {Head(s).id} \cup Ids(Tail(s))
  <2>1. ASSUME NEW i \in 1 .. Len(s) PROVE s[i].id \in {Head(s).id} \cup Ids(Tail(s))
    <3>1. CASE i = 1
      BY <1>1, <3>1
    <3>2. CASE i # 1
      <4>1. i - 1 \in 1 .. Len(Tail(s)) /\ Tail(s)[i - 1] = s[i]
        BY <1>1, <1>3, <3>2
      <4> QED BY <4>1 DEF Ids
    <3> QED BY <3>1, <3>2
  <2>2. ASSUME NEW i \in 1 .. Len(s) - 1 PROVE Tail(s)[i].id \in Ids(s)
    BY <1>1, <1>4 DEF Ids
  <2>3. Head(s).id \in Ids(s)
    BY <1>1 DEF Ids
  <2>4. Ids(s) \subseteq {Head(s).id} \cup Ids(Tail(s))
    BY <2>1 DEF Ids
  <2>5. Ids(Tail(s)) \subseteq Ids(s)
    BY <1>1, <2>2 DEF Ids
  <2> QED BY <2>3, <2>4, <2>5
<1>6. ASSUME Distinct(s) PROVE Distinct(Tail(s)) /\ Head(s).id \notin Ids(Tail(s))
  <2>1. \A i, j \in 1 .. Len(s) - 1 : s[i + 1].id = s[j + 1].id => i + 1 = j + 1
    BY <1>4, <1>6 DEF Distinct
  <2>2. Distinct(Tail(s))
    BY <1>1, <2>1 DEF Distinct
  <2>3. \A i \in 1 .. Len(s) - 1 : s[1].id # s[i + 1].id
    BY <1>1, <1>4, <1>6 DEF Distinct
  <2>4. Head(s).id \notin Ids(Tail(s))
    BY <1>1, <2>3 DEF Ids
  <2> QED BY <2>2, <2>4
<1> QED BY <1>2, <1>5, <1>6

\* The first n events and the others.
LEMMA SplitAt ==
    ASSUME NEW s \in Seq(Event), NEW n \in 0 .. Len(s)
    PROVE  LET a == SubSeq(s, 1, n)
               b == SubSeq(s, n + 1, Len(s))
           IN  /\ a \in Seq(Event) /\ b \in Seq(Event)
               /\ Len(a) = n /\ Len(b) = Len(s) - n
               /\ \A i \in 1 .. n : a[i] = s[i]
               /\ \A i \in 1 .. Len(s) - n : b[i] = s[n + i]
               /\ Ids(s) = Ids(a) \cup Ids(b)
<1> DEFINE a == SubSeq(s, 1, n)
           b == SubSeq(s, n + 1, Len(s))
<1>1. Len(s) \in Nat /\ n \in Nat /\ n <= Len(s)
  OBVIOUS
<1>2. a \in Seq(Event) /\ Len(a) = n /\ \A i \in 1 .. n : a[i] = s[i]
  BY <1>1
<1>3. b \in Seq(Event) /\ Len(b) = Len(s) - n /\ \A i \in 1 .. Len(s) - n : b[i] = s[n + i]
  BY <1>1
<1> HIDE DEF a, b
<1>4. Ids(s) \subseteq Ids(a) \cup Ids(b)
  <2> SUFFICES ASSUME NEW i \in 1 .. Len(s) PROVE s[i].id \in Ids(a) \cup Ids(b)
    BY DEF Ids
  <2>1. CASE i <= n
    BY <1>1, <1>2, <2>1 DEF Ids
  <2>2. CASE i > n
    <3>1. i - n \in 1 .. Len(b) /\ b[i - n] = s[i]
      BY <1>1, <1>3, <2>2
    <3> QED BY <3>1 DEF Ids
  <2> QED BY <1>1, <2>1, <2>2
<1>5. Ids(a) \cup Ids(b) \subseteq Ids(s)
  <2>1. \A i \in 1 .. n : i \in 1 .. Len(s)
    BY <1>1
  <2>2. \A i \in 1 .. Len(s) - n : n + i \in 1 .. Len(s)
    BY <1>1
  <2>3. Ids(a) \subseteq Ids(s)
    BY <1>2, <2>1 DEF Ids
  <2>4. Ids(b) \subseteq Ids(s)
    BY <1>3, <2>2 DEF Ids
  <2> QED BY <2>3, <2>4
<1> QED BY <1>2, <1>3, <1>4, <1>5 DEF a, b

LEMMA EmptySeq == ASSUME NEW s \in Seq(Event) PROVE s = <<>> <=> Len(s) = 0
OBVIOUS

LEMMA NoIds == Ids(<<>>) = {} /\ Distinct(<<>>) /\ Increasing(<<>>)
BY DEF Ids, Distinct, Increasing

----------------------------------------------------------------------------
(* read(2) finds how many whole events fit.                                *)

\* A set of naturals has a least element.
LEMMA Least ==
    ASSUME NEW S, S \subseteq Nat, S # {}
    PROVE  \E x \in S : \A y \in S : x <= y
<1> DEFINE R == {ss \in Nat \X Nat : ss[1] < ss[2]}
<1>1. IsWellFoundedOn(R, Nat)
  BY NatLessThanWellFounded DEF OpToRel
<1>2. \A x, y \in Nat : y < x => <<y, x>> \in R
  OBVIOUS
<1>3. PICK x \in S : \A y \in S : <<y, x>> \notin R
  <2> HIDE DEF R
  <2> QED BY <1>1, WFMin
<1>4. ASSUME NEW y \in S PROVE x <= y
  <2> HIDE DEF R
  <2>1. x \in Nat /\ y \in Nat /\ ~(y < x)
    BY <1>2, <1>3
  <2> QED BY <2>1
<1> QED BY <1>4

\* Induction, for a set of naturals.
LEMMA SetInduction ==
    ASSUME NEW S, 0 \in S, \A n \in Nat : n \in S => n + 1 \in S
    PROVE  Nat \subseteq S
<1> SUFFICES ASSUME Nat \ S # {} PROVE FALSE
  OBVIOUS
<1>1. PICK x \in Nat \ S : \A y \in Nat \ S : x <= y
  BY Least
<1>2. x - 1 \in Nat /\ (x - 1) + 1 = x
  BY <1>1
<1> QED BY <1>1, <1>2

\* What the definition of Bytes says, which is recursive.
LEMMA BytesDef ==
    /\ Bytes[0] = 0
    /\ \A n \in 1 .. MaxEvent : Bytes[n] = Bytes[n - 1] + queue[n].len
<1> DEFINE F(g, m) == [n \in 0 .. m |-> IF n = 0 THEN 0 ELSE g[n - 1] + queue[n].len]
           S == {m \in Nat : \E g : g = F(g, m)}
<1>1. 0 \in S
  <2> DEFINE h == [n \in 0 .. 0 |-> 0]
  <2>1. h = F(h, 0)
    OBVIOUS
  <2> QED BY <2>1
<1>2. ASSUME NEW m \in Nat, m \in S PROVE m + 1 \in S
  <2>1. PICK g : g = F(g, m)
    BY <1>2
  <2> DEFINE h == [n \in 0 .. m + 1 |-> IF n = m + 1 THEN g[m] + queue[m + 1].len ELSE g[n]]
  <2>2. h = F(h, m + 1)
    BY <2>1
  <2>3. m + 1 \in Nat
    OBVIOUS
  <2> HIDE DEF h
  <2> QED BY <2>2, <2>3
<1>3. MaxEvent \in S
  <2> HIDE DEF S
  <2> QED BY <1>1, <1>2, SetInduction, ConstantsOK
<1>4. \E g : g = F(g, MaxEvent)
  BY <1>3
<1>5. Bytes = F(Bytes, MaxEvent)
  BY <1>4 DEF Bytes
<1>6. 0 \in 0 .. MaxEvent /\ \A n \in 1 .. MaxEvent : n \in 0 .. MaxEvent /\ n # 0
  BY ConstantsOK
<1> QED BY <1>5, <1>6

\* Some number of events is the largest that fits.
LEMMA WholeFits ==
    ASSUME queue \in Seq(Event), Len(queue) <= MaxEvent, NEW size \in Nat
    PROVE  Whole(size) \in 0 .. Len(queue)
<1>1. MaxEvent \in Nat /\ Len(queue) \in Nat
  BY ConstantsOK
<1>2. \A n \in Nat : n <= Len(queue) => Bytes[n] \in Nat
  <2> DEFINE S == {n \in Nat : n <= Len(queue) => Bytes[n] \in Nat}
  <2>1. 0 \in S
    BY BytesDef
  <2>2. ASSUME NEW n \in Nat, n \in S PROVE n + 1 \in S
    <3> SUFFICES ASSUME n + 1 <= Len(queue) PROVE Bytes[n + 1] \in Nat
      OBVIOUS
    <3>1. n + 1 \in 1 .. MaxEvent /\ n + 1 \in 1 .. Len(queue) /\ (n + 1) - 1 = n
      BY <1>1
    <3>2. Bytes[n + 1] = Bytes[n] + queue[n + 1].len
      BY <3>1, BytesDef
    <3>3. queue[n + 1].len \in Nat
      <4>1. queue[n + 1] \in Event
        BY <3>1
      <4> QED BY <4>1, ConstantsOK DEF Event
    <3>4. Bytes[n] \in Nat
      BY <1>1, <2>2, <3>1
    <3> QED BY <3>2, <3>3, <3>4
  <2> HIDE DEF S
  <2>3. Nat \subseteq S
    BY <2>1, <2>2, SetInduction
  <2> QED BY <2>3 DEF S
<1> DEFINE Fits(n) == Bytes[n] <= size /\ (n < Len(queue) => Bytes[n + 1] > size)
<1>3. \E n \in 0 .. Len(queue) : Fits(n)
  <2> SUFFICES ASSUME \A n \in 0 .. Len(queue) : ~Fits(n) PROVE FALSE
    OBVIOUS
  <2> DEFINE S == {n \in Nat : n <= Len(queue) => Bytes[n] <= size}
  <2>1. 0 \in S
    BY BytesDef
  <2>2. ASSUME NEW n \in Nat, n \in S PROVE n + 1 \in S
    BY <1>1, <1>2, <2>2
  <2>3. Len(queue) \in S
    <3> HIDE DEF S
    <3> QED BY <1>1, <2>1, <2>2, SetInduction
  <2>4. Fits(Len(queue))
    BY <1>1, <2>3
  <2> QED BY <1>1, <2>4
<1> QED BY <1>3 DEF Whole

\* The event without a name has a length.
LEMMA NoNameLength == NoName \in Length
<1>1. \E l \in Length : \A m \in Length : l <= m
  BY Least, ConstantsOK
<1> QED BY <1>1 DEF NoName

\* A mask fits an unsigned int.
LEMMA MaskBits ==
    ASSUME NEW flags \in Masks
    PROVE  rb_sp_get_uflags(Klass, flags).bits \subseteq 0 .. 31
<1>1. flags.type \in ArgType
  BY ConstantsOK
<1>2. \A bits : ToC(bits, 32).bits \subseteq 0 .. 31
  BY DEF ToC, Bits, Raise
<1>3. \A name : ConstGet(Klass, name, 32).bits \subseteq 0 .. 31
  BY <1>2 DEF ConstGet, Raise
<1>4. \A names : FromArray(Klass, names, 32).bits \subseteq 0 .. 31
  BY <1>3 DEF FromArray, Bits, Raise
<1> QED BY <1>1, <1>2, <1>3, <1>4 DEF rb_sp_get_uflags, GetFlags, ArgType, Bits, Raise

----------------------------------------------------------------------------
(* Types, the kernel's queue and the batches.                              *)

CallType == [pc : {"idle", "read", "asleep", "back", "wait"}, nb : BOOLEAN, size : Nat,
             res : Result, batch : Seq(Event)]

\* The number of events that have left the queue.
Gone == emitted - Len(queue)

\* The queue holds the youngest events, in their order.
QueueOK ==
    /\ Gone \in Nat
    /\ \A i \in 1 .. Len(queue) : queue[i].id = Gone + i

\* A #take carries events between the read(2) that returned them and their
\* delivery, and at no other time.
Carries(c) == c.batch # <<>> <=> c.pc = "back" /\ c.res = "events"

TypeInv == TypeOK /\ QueueOK /\ \A t \in Thread : Carries(call[t])

LEMMA IdleType == Idle \in CallType /\ Carries(Idle) /\ Idle.batch = <<>> /\ Idle.pc = "idle"
BY DEF Idle, CallType, Result, Carries

\* The fields of a call after read(2), and after its pc and res are set.
LEMMA CallFields ==
    ASSUME NEW c \in CallType, NEW pc \in {"idle", "read", "asleep", "back", "wait"},
           NEW res \in Result, NEW batch \in Seq(Event)
    PROVE  /\ [c EXCEPT !.pc = pc] \in CallType
           /\ [c EXCEPT !.pc = pc].batch = c.batch /\ [c EXCEPT !.pc = pc].pc = pc
           /\ [c EXCEPT !.pc = pc, !.res = res] \in CallType
           /\ [c EXCEPT !.pc = pc, !.res = res].batch = c.batch
           /\ [c EXCEPT !.pc = pc, !.res = res].pc = pc
           /\ [c EXCEPT !.pc = pc, !.res = res, !.batch = batch] \in CallType
           /\ [c EXCEPT !.pc = pc, !.res = res, !.batch = batch].batch = batch
           /\ [c EXCEPT !.pc = pc, !.res = res, !.batch = batch].pc = pc
           /\ [c EXCEPT !.pc = pc, !.res = res, !.batch = batch].res = res
BY DEF CallType

\* One thread's call changes.
LEMMA CallStep ==
    ASSUME TypeInv, NEW t \in Thread, NEW c \in CallType, Carries(c),
           call' = [call EXCEPT ![t] = c]
    PROVE  /\ call' \in [Thread -> CallType] /\ \A u \in Thread : Carries(call'[u])
           /\ call'[t] = c /\ \A u \in Thread \ {t} : call'[u] = call[u]
BY DEF TypeInv, TypeOK, CallType

\* An event is added to the queue.
LEMMA QueuedOK ==
    ASSUME TypeInv, NEW len \in Length, Queued(len)
    PROVE  /\ queue' \in Seq(Event) /\ emitted' \in 0 .. MaxEvent /\ QueueOK'
           /\ Gone' = Gone
<1>1. /\ emitted \in Nat /\ MaxEvent \in Nat /\ queue \in Seq(Event) /\ Len(queue) \in Nat
      /\ emitted < MaxEvent /\ emitted' = emitted + 1
      /\ queue' = Append(queue, [id |-> emitted + 1, len |-> len])
  BY ConstantsOK DEF TypeInv, TypeOK, Queued
<1>2. [id |-> emitted + 1, len |-> len] \in Event
  BY <1>1 DEF Event, Id
<1>3. /\ queue' \in Seq(Event) /\ Len(queue') = Len(queue) + 1
      /\ \A i \in 1 .. Len(queue) : queue'[i] = queue[i]
      /\ queue'[Len(queue) + 1].id = emitted + 1
  BY <1>1, <1>2
<1>4. Gone' = Gone
  BY <1>1, <1>3 DEF Gone
<1>5. \A i \in 1 .. Len(queue') : queue'[i].id = Gone + i
  <2>1. ASSUME NEW i \in 1 .. Len(queue) PROVE queue'[i].id = Gone + i
    BY <1>3 DEF TypeInv, QueueOK
  <2>2. emitted + 1 = Gone + (Len(queue) + 1)
    BY <1>1 DEF Gone
  <2>3. \A i \in 1 .. Len(queue') : i \in 1 .. Len(queue) \/ i = Len(queue) + 1
    BY <1>1, <1>3
  <2> QED BY <1>3, <2>1, <2>2, <2>3
<1> QED BY <1>1, <1>3, <1>4, <1>5 DEF TypeInv, QueueOK

\* read(2) takes the first events of the queue.
LEMMA ReadSomeOK ==
    ASSUME TypeInv, NEW t \in Thread, ReadSome(t), call[t].pc \in {"read", "asleep"},
           UNCHANGED emitted
    PROVE  \E n \in 0 .. Len(queue) :
              /\ queue' = SubSeq(queue, n + 1, Len(queue)) /\ queue' \in Seq(Event)
              /\ QueueOK' /\ Gone' = Gone + n
              /\ call' \in [Thread -> CallType] /\ \A u \in Thread : Carries(call'[u])
              /\ call[t].batch = <<>>
              /\ call'[t].batch = SubSeq(queue, 1, n) /\ call'[t].pc = "back"
              /\ \A u \in Thread \ {t} : call'[u] = call[u]
              /\ readOf' = [i \in Id |-> IF \E j \in 1 .. n : queue[j].id = i
                                         THEN queue[1].id ELSE readOf[i]]
              /\ readOf' \in [Id -> Id \cup {Nil}]
<1>1. /\ queue \in Seq(Event) /\ emitted \in 0 .. MaxEvent /\ Gone \in Nat /\ MaxEvent \in Nat
      /\ call \in [Thread -> CallType] /\ readOf \in [Id -> Id \cup {Nil}]
      /\ \A i \in 1 .. Len(queue) : queue[i].id = Gone + i
  BY ConstantsOK DEF TypeInv, TypeOK, QueueOK, CallType
<1>2. Len(queue) \in Nat /\ Len(queue) <= MaxEvent
  BY <1>1 DEF Gone
<1>3. call[t] \in CallType /\ call[t].size \in Nat
  BY <1>1 DEF CallType
<1> DEFINE n == Whole(call[t].size)
           res == IF n = 0 THEN "EINVAL" ELSE "events"
           b == SubSeq(queue, 1, n)
           c == [call[t] EXCEPT !.pc = "back", !.res = res, !.batch = b]
<1>4. n \in 0 .. Len(queue)
  BY <1>1, <1>2, <1>3, WholeFits
<1>5. /\ queue # <<>> /\ queue' = SubSeq(queue, n + 1, Len(queue))
      /\ call' = [call EXCEPT ![t] = c]
      /\ readOf' = [i \in Id |-> IF \E j \in 1 .. n : queue[j].id = i
                                 THEN queue[1].id ELSE readOf[i]]
  BY DEF ReadSome, ReadReturns
<1> HIDE DEF n
<1>6. /\ b \in Seq(Event) /\ Len(b) = n
      /\ queue' \in Seq(Event) /\ Len(queue') = Len(queue) - n
      /\ \A i \in 1 .. Len(queue) - n : queue'[i] = queue[n + i]
  BY <1>1, <1>4, <1>5, SplitAt
<1>7. res \in Result /\ (res = "events" <=> n # 0)
  BY DEF Result
<1> HIDE DEF res, b
<1>8. b # <<>> <=> n # 0
  BY <1>6, EmptySeq
<1>9. c \in CallType /\ c.batch = b /\ c.pc = "back" /\ c.res = res
  BY <1>3, <1>6, <1>7 DEF CallType
<1> HIDE DEF c
<1>10. Carries(c)
  BY <1>7, <1>8, <1>9 DEF Carries
<1>11. Gone' = Gone + n /\ Gone + n \in Nat
  BY <1>1, <1>2, <1>4, <1>6 DEF Gone
<1>12. ASSUME NEW i \in 1 .. Len(queue') PROVE queue'[i].id = (Gone + n) + i
  <2>1. n + i \in 1 .. Len(queue) /\ i \in 1 .. Len(queue) - n /\ n \in Nat /\ i \in Nat
    BY <1>2, <1>4, <1>6
  <2>2. queue'[i].id = Gone + (n + i)
    BY <1>1, <1>6, <2>1
  <2> QED BY <1>1, <2>1, <2>2
<1>13. QueueOK'
  BY <1>11, <1>12 DEF QueueOK
<1>14. call[t].batch = <<>>
  BY DEF TypeInv, Carries
<1>15. queue[1].id \in Id
  <2>1. 1 \in 1 .. Len(queue)
    BY <1>1, <1>2, <1>5, EmptySeq
  <2>2. queue[1] \in Event
    BY <1>1, <2>1
  <2> QED BY <2>2 DEF Event
<1>16. readOf' \in [Id -> Id \cup {Nil}]
  BY <1>1, <1>5, <1>15
<1> QED BY <1>4, <1>5, <1>6, <1>9, <1>10, <1>11, <1>13, <1>14, <1>16, CallStep DEF b

----------------------------------------------------------------------------
(* What a step does to the events, whichever action it is.                 *)

\* A thread enters #take when @inotify_tmp is empty, if it uses the object.
Entered ==
    /\ UNCHANGED users
    /\ \A t \in Thread :
        call'[t].pc # "idle" => call[t].pc # "idle" \/ (t \in users /\ tmp = <<>>)

\* Only the batch of thread t changes.
Rest(t) == \A u \in Thread \ {t} : call'[u].batch = call[u].batch

NoneMove ==
    /\ UNCHANGED <<queue, emitted, tmp, delivered, lost, readOf>>
    /\ \A t \in Thread : call'[t].batch = call[t].batch

OneEmitted ==
    /\ \E len \in Length : Queued(len)
    /\ UNCHANGED <<tmp, delivered, lost, readOf>>
    /\ \A t \in Thread : call'[t].batch = call[t].batch

SomeRead(t, n) ==
    /\ queue' = SubSeq(queue, n + 1, Len(queue))
    /\ call[t].batch = <<>> /\ call'[t].batch = SubSeq(queue, 1, n) /\ Rest(t)
    /\ Gone' = Gone + n
    /\ readOf' = [i \in Id |-> IF \E j \in 1 .. n : queue[j].id = i
                               THEN queue[1].id ELSE readOf[i]]
    /\ UNCHANGED <<emitted, tmp, delivered, lost>>

OneShifted(t) ==
    /\ t \in users /\ call[t].pc = "idle"
    /\ tmp # <<>> /\ delivered' = Append(delivered, Head(tmp)) /\ tmp' = Tail(tmp)
    /\ \A u \in Thread : call'[u].batch = call[u].batch
    /\ UNCHANGED <<queue, emitted, lost, readOf>>

BatchReturned(t) ==
    /\ call[t].batch # <<>> /\ call[t].pc = "back" /\ call'[t].pc = "idle"
    /\ delivered' = Append(delivered, Head(call[t].batch))
    /\ tmp' = tmp \o Tail(call[t].batch)
    /\ call'[t].batch = <<>> /\ Rest(t)
    /\ UNCHANGED <<queue, emitted, lost, readOf>>

BatchLost(t) ==
    /\ lost' = lost \cup {call[t].batch[i] : i \in 1 .. Len(call[t].batch)}
    /\ call'[t].batch = <<>> /\ Rest(t)
    /\ UNCHANGED <<queue, emitted, tmp, delivered, readOf>>

Moves ==
    \/ NoneMove
    \/ OneEmitted
    \/ \E t \in Thread : \/ \E n \in 0 .. Len(queue) : SomeRead(t, n)
                         \/ OneShifted(t)
                         \/ BatchReturned(t)
                         \/ BatchLost(t)

Progress == TypeInv' /\ Entered /\ Moves

\* A step that changes thread t's call and nothing else but its buffer and
\* O_NONBLOCK.
LEMMA QuietStep ==
    ASSUME TypeInv, NEW t \in Thread, NEW c \in CallType, Carries(c),
           call' = [call EXCEPT ![t] = c], c.batch = call[t].batch,
           c.pc = "idle" \/ call[t].pc # "idle" \/ (t \in users /\ tmp = <<>>),
           nonblock' \in BOOLEAN, cached' \in [Thread -> Capacity \cup {0, Nil}],
           UNCHANGED <<queue, emitted, users, watch, kills, open, tmp, delivered, lost, readOf>>
    PROVE  Progress
<1>1. /\ call' \in [Thread -> CallType] /\ \A u \in Thread : Carries(call'[u])
      /\ call'[t] = c /\ \A u \in Thread \ {t} : call'[u] = call[u]
  BY CallStep
<1>2. TypeInv'
  BY <1>1 DEF TypeInv, TypeOK, CallType, QueueOK, Gone
<1>3. \A u \in Thread : call'[u].batch = call[u].batch
  BY <1>1
<1>4. \A u \in Thread :
        call'[u].pc # "idle" => call[u].pc # "idle" \/ (u \in users /\ tmp = <<>>)
  BY <1>1
<1> QED BY <1>2, <1>3, <1>4 DEF Progress, Moves, NoneMove, Entered

LEMMA EmitMoves ==
    ASSUME TypeInv, NEW len \in Length, Queued(len), watch' \subseteq 0 .. 31,
           UNCHANGED <<nonblock, users, kills, open, tmp, call, cached, delivered, lost, readOf>>
    PROVE  Progress
<1>1. queue' \in Seq(Event) /\ emitted' \in 0 .. MaxEvent /\ QueueOK'
  BY QueuedOK
<1>2. TypeInv'
  BY <1>1 DEF TypeInv, TypeOK
<1>3. OneEmitted
  BY DEF OneEmitted
<1>4. Entered
  BY DEF Entered
<1> QED BY <1>2, <1>3, <1>4 DEF Progress, Moves

LEMMA ReadMoves ==
    ASSUME TypeInv, NEW t \in Thread, Read(t)
    PROVE  Progress
<1>0. /\ call \in [Thread -> CallType] /\ call[t] \in CallType /\ Carries(call[t])
      /\ nonblock \in BOOLEAN /\ cached \in [Thread -> Capacity \cup {0, Nil}]
      /\ call[t].pc \in {"read", "asleep"}
      /\ UNCHANGED <<nonblock, emitted, users, watch, kills, open, tmp, cached, delivered, lost>>
  BY DEF TypeInv, TypeOK, CallType, Read
<1>1. CASE ReadSome(t)
  <2>1. PICK n \in 0 .. Len(queue) :
              /\ queue' = SubSeq(queue, n + 1, Len(queue)) /\ queue' \in Seq(Event)
              /\ QueueOK' /\ Gone' = Gone + n
              /\ call' \in [Thread -> CallType] /\ \A u \in Thread : Carries(call'[u])
              /\ call[t].batch = <<>>
              /\ call'[t].batch = SubSeq(queue, 1, n) /\ call'[t].pc = "back"
              /\ \A u \in Thread \ {t} : call'[u] = call[u]
              /\ readOf' = [i \in Id |-> IF \E j \in 1 .. n : queue[j].id = i
                                         THEN queue[1].id ELSE readOf[i]]
              /\ readOf' \in [Id -> Id \cup {Nil}]
    BY <1>0, <1>1, ReadSomeOK
  <2>2. TypeInv'
    BY <1>0, <2>1 DEF TypeInv, TypeOK, CallType
  <2>3. SomeRead(t, n)
    BY <1>0, <2>1 DEF SomeRead, Rest
  <2>4. \A u \in Thread : call'[u].pc # "idle" => call[u].pc # "idle"
    BY <1>0, <2>1
  <2>5. Entered
    BY <1>0, <2>4 DEF Entered
  <2> QED BY <2>2, <2>3, <2>5 DEF Progress, Moves
<1>2. CASE ReadNone(t)
  <2>1. call[t].batch = <<>> /\ UNCHANGED <<queue, readOf>>
    BY <1>0, <1>2 DEF Carries, ReadNone
  <2>2. CASE call' = [call EXCEPT ![t].pc = "asleep"]
    <3> DEFINE c == [call[t] EXCEPT !.pc = "asleep"]
    <3>1. call' = [call EXCEPT ![t] = c] /\ c \in CallType /\ c.batch = <<>> /\ Carries(c)
      BY <1>0, <2>1, <2>2 DEF CallType, Carries
    <3> QED BY <1>0, <2>1, <3>1, QuietStep
  <2>3. CASE ReadReturns(t, "EAGAIN", <<>>)
    <3> DEFINE c == [call[t] EXCEPT !.pc = "back", !.res = "EAGAIN", !.batch = <<>>]
    <3>1. call' = [call EXCEPT ![t] = c]
      BY <2>3 DEF ReadReturns
    <3>2. c \in CallType /\ c.batch = <<>> /\ Carries(c)
      BY <1>0 DEF CallType, Carries, Result
    <3> HIDE DEF c
    <3> QED BY <1>0, <2>1, <3>1, <3>2, QuietStep
  <2> QED BY <1>2, <2>2, <2>3 DEF ReadNone
<1> QED BY <1>1, <1>2 DEF Read

LEMMA BackMoves ==
    ASSUME TypeInv, NEW t \in Thread, Back(t)
    PROVE  Progress
<1>0. /\ call \in [Thread -> CallType] /\ call[t] \in CallType /\ Carries(call[t])
      /\ nonblock \in BOOLEAN /\ cached \in [Thread -> Capacity \cup {0, Nil}]
      /\ call[t].pc = "back"
      /\ UNCHANGED <<queue, nonblock, emitted, users, watch, kills, open, cached, lost, readOf>>
  BY DEF TypeInv, TypeOK, CallType, Back, kernelVars
<1>1. CASE ReturnEvents(t)
  <2>1. /\ call[t].batch # <<>> /\ call[t].batch \in Seq(Event)
        /\ call' = [call EXCEPT ![t] = Idle]
        /\ delivered' = Append(delivered, Head(call[t].batch))
        /\ tmp' = tmp \o Tail(call[t].batch)
    BY <1>0, <1>1 DEF ReturnEvents, Carries, CallType
  <2>2. /\ call' \in [Thread -> CallType] /\ \A u \in Thread : Carries(call'[u])
        /\ call'[t] = Idle /\ \A u \in Thread \ {t} : call'[u] = call[u]
    BY <2>1, IdleType, CallStep
  <2>3. Head(call[t].batch) \in Event /\ Tail(call[t].batch) \in Seq(Event)
    BY <2>1, HeadTail
  <2>4. delivered' \in Seq(Event) /\ tmp' \in Seq(Event)
    BY <2>1, <2>3 DEF TypeInv, TypeOK
  <2>5. TypeInv'
    BY <1>0, <2>2, <2>4 DEF TypeInv, TypeOK, CallType, QueueOK, Gone
  <2>6. BatchReturned(t)
    BY <1>0, <2>1, <2>2, IdleType DEF BatchReturned, Rest
  <2>7. \A u \in Thread : call'[u].pc # "idle" => call[u].pc # "idle"
    BY <1>0, <2>2
  <2>8. Entered
    BY <1>0, <2>7 DEF Entered
  <2> QED BY <2>5, <2>6, <2>8 DEF Progress, Moves
<1>2. CASE ResizeBuffer(t) \/ ReadAgain(t)
  <2>1. call[t].res # "events" /\ call[t].batch = <<>> /\ UNCHANGED <<tmp, delivered>>
    BY <1>0, <1>2 DEF ResizeBuffer, ReadAgain, Carries
  <2>2. \E pc \in {"read", "wait"} :
           call' = [call EXCEPT ![t] = Idle]
              \/ call' = [call EXCEPT ![t] = [call[t] EXCEPT !.pc = pc, !.res = Nil]]
    <3>1. CASE ResizeBuffer(t)
      BY <3>1 DEF ResizeBuffer
    <3>2. CASE ReadAgain(t)
      BY <3>2 DEF ReadAgain
    <3> QED BY <1>2, <3>1, <3>2
  <2>3. PICK pc \in {"read", "wait"} :
           call' = [call EXCEPT ![t] = Idle]
              \/ call' = [call EXCEPT ![t] = [call[t] EXCEPT !.pc = pc, !.res = Nil]]
    BY <2>2
  <2>4. CASE call' = [call EXCEPT ![t] = Idle]
    BY <1>0, <2>1, <2>4, IdleType, QuietStep
  <2>5. CASE call' = [call EXCEPT ![t] = [call[t] EXCEPT !.pc = pc, !.res = Nil]]
    <3> DEFINE c == [call[t] EXCEPT !.pc = pc, !.res = Nil]
    <3>1. c \in CallType /\ c.batch = <<>> /\ Carries(c)
      BY <1>0, <2>1 DEF CallType, Carries, Result
    <3> HIDE DEF c
    <3> QED BY <1>0, <2>1, <2>5, <3>1, QuietStep DEF c
  <2> QED BY <2>3, <2>4, <2>5
<1> QED BY <1>1, <1>2 DEF Back

LEMMA TakeMoves ==
    ASSUME TypeInv, NEW t \in Thread, Take(t)
    PROVE  Progress
<1>0. /\ call \in [Thread -> CallType] /\ call[t] \in CallType /\ Carries(call[t])
      /\ nonblock \in BOOLEAN /\ cached \in [Thread -> Capacity \cup {0, Nil}]
      /\ tmp \in Seq(Event) /\ delivered \in Seq(Event) /\ t \in users
  BY DEF TypeInv, TypeOK, CallType, Take
<1>1. CASE TakeBuffered(t)
  <2>1. /\ tmp # <<>> /\ call[t].pc = "idle"
        /\ delivered' = Append(delivered, Head(tmp)) /\ tmp' = Tail(tmp)
        /\ UNCHANGED <<queue, nonblock, emitted, users, watch>>
        /\ UNCHANGED <<kills, open, call, cached, lost, readOf>>
    BY <1>1 DEF TakeBuffered, kernelVars
  <2>2. delivered' \in Seq(Event) /\ tmp' \in Seq(Event)
    BY <1>0, <2>1, HeadTail
  <2>3. TypeInv'
    BY <2>1, <2>2 DEF TypeInv, TypeOK, QueueOK, Gone
  <2>4. OneShifted(t) /\ Entered
    BY <1>0, <2>1 DEF OneShifted, Entered
  <2> QED BY <2>3, <2>4 DEF Progress, Moves
<1>2. ASSUME NEW nb \in BOOLEAN, TakeStart(t, nb)
      PROVE  Progress
  <2> DEFINE c == [Idle EXCEPT !.pc = "read", !.nb = nb, !.size = BufferSize(t)]
  <2>1. BufferSize(t) \in Nat
    <3>1. cached[t] \in Capacity \cup {0, Nil}
      BY <1>0
    <3>2. Capacity \subseteq Nat /\ 0 \in Nat
      BY ConstantsOK
    <3>3. Room \in Nat
      BY ConstantsOK
    <3>4. cached[t] # Nil => cached[t] \in Nat
      BY ONLY <3>1, <3>2
    <3> QED BY <3>3, <3>4 DEF BufferSize
  <2>2. c \in CallType /\ c.batch = <<>> /\ c.pc = "read"
    BY <2>1, IdleType DEF CallType
  <2>3. /\ call[t].pc = "idle" /\ tmp = <<>> /\ nonblock' = (nonblock \/ nb)
        /\ call' = [call EXCEPT ![t] = c] /\ cached' = [cached EXCEPT ![t] = Nil]
        /\ UNCHANGED <<queue, emitted, users, watch, kills, open, tmp, delivered, lost, readOf>>
    BY <1>2 DEF TakeStart
  <2> HIDE DEF c
  <2>4. Carries(c) /\ call[t].batch = <<>>
    BY <1>0, <2>2, <2>3 DEF Carries
  <2>5. nonblock' \in BOOLEAN
    BY <1>0, <2>3
  <2>6. cached' \in [Thread -> Capacity \cup {0, Nil}]
    BY <1>0, <2>3
  <2> QED BY <1>0, <2>2, <2>3, <2>4, <2>5, <2>6, QuietStep
<1> QED BY <1>1, <1>2 DEF Take

LEMMA InterruptMoves ==
    ASSUME TypeInv, NEW t \in Thread, Interrupted(t)
    PROVE  Progress
<1>0. /\ call' = [call EXCEPT ![t] = Idle] /\ kills \in Nat /\ MaxKills \in Nat
      /\ lost' = lost \cup {call[t].batch[i] : i \in 1 .. Len(call[t].batch)}
      /\ UNCHANGED <<queue, nonblock, emitted, users, watch>>
      /\ UNCHANGED <<open, tmp, cached, delivered, readOf>>
  BY ConstantsOK DEF TypeInv, TypeOK, Interrupted, kernelVars
<1>1. /\ call' \in [Thread -> CallType] /\ \A u \in Thread : Carries(call'[u])
      /\ call'[t] = Idle /\ \A u \in Thread \ {t} : call'[u] = call[u]
  BY <1>0, IdleType, CallStep
<1>2. kills' \in 0 .. MaxKills
  BY <1>0 DEF TypeInv, TypeOK, Interrupted
<1>3. lost' \subseteq Event
  <2>1. call[t].batch \in Seq(Event) /\ lost \subseteq Event
    BY DEF TypeInv, TypeOK
  <2> QED BY <1>0, <2>1
<1>4. TypeInv'
  BY <1>0, <1>1, <1>2, <1>3 DEF TypeInv, TypeOK, CallType, QueueOK, Gone
<1>5. BatchLost(t)
  BY <1>0, <1>1, IdleType DEF BatchLost, Rest
<1>6. Entered
  BY <1>0, <1>1, IdleType DEF Entered
<1> QED BY <1>4, <1>5, <1>6 DEF Progress, Moves

LEMMA TypeInit == Init => TypeInv
<1> SUFFICES ASSUME Init PROVE TypeInv
  OBVIOUS
<1>1. call = [t \in Thread |-> Idle] /\ queue = <<>> /\ emitted = 0
  BY DEF Init
<1>2. call \in [Thread -> CallType] /\ \A t \in Thread : Carries(call[t])
  BY <1>1, IdleType
<1>3. 0 \in 0 .. MaxEvent /\ 0 \in 0 .. MaxKills
  BY ConstantsOK
<1>4. /\ queue \in Seq(Event) /\ tmp \in Seq(Event) /\ delivered \in Seq(Event)
      /\ watch \subseteq 0 .. 31 /\ lost \subseteq Event /\ users \subseteq Thread
      /\ cached \in [Thread -> Capacity \cup {0, Nil}] /\ readOf \in [Id -> Id \cup {Nil}]
      /\ open \in BOOLEAN
  BY DEF Init
<1>5. nonblock \in BOOLEAN
  BY DEF Init
<1>6. TypeOK
  BY <1>2, <1>3, <1>4, <1>5 DEF TypeOK, CallType, Init
<1>7. QueueOK
  BY <1>1 DEF QueueOK, Gone
<1> QED BY <1>2, <1>6, <1>7 DEF TypeInv

\* Every step keeps the types and is one of the moves.
LEMMA Step == ASSUME TypeInv, [Next]_vars PROVE Progress
<1>0. /\ call \in [Thread -> CallType] /\ \A t \in Thread : Carries(call[t])
      /\ nonblock \in BOOLEAN /\ cached \in [Thread -> Capacity \cup {0, Nil}]
  BY DEF TypeInv, TypeOK, CallType
<1>1. ASSUME NEW len \in Length, Emit(len) PROVE Progress
  BY <1>1, EmitMoves DEF Emit, TypeInv, TypeOK
<1>2. CASE rm_watch
  BY <1>2, EmitMoves, NoNameLength DEF rm_watch
<1>3. ASSUME NEW flags \in Masks, add_watch(flags) PROVE Progress
  <2>1. watch' \subseteq 0 .. 31
    BY <1>3, MaskBits DEF add_watch
  <2>2. UNCHANGED <<queue, nonblock, emitted, users, kills, open, tmp, call, cached,
                    delivered, lost, readOf>>
    BY <1>3 DEF add_watch
  <2>3. TypeInv'
    BY <2>1, <2>2 DEF TypeInv, TypeOK, QueueOK, Gone
  <2>4. NoneMove /\ Entered
    BY <2>2 DEF NoneMove, Entered
  <2> QED BY <2>3, <2>4 DEF Progress, Moves
<1>4. CASE Close
  <2>1. open' = FALSE /\ UNCHANGED <<queue, nonblock, emitted, users, watch>>
        /\ UNCHANGED <<kills, tmp, call, cached, delivered, lost, readOf>>
    BY <1>4 DEF Close, kernelVars
  <2>2. TypeInv'
    BY <2>1 DEF TypeInv, TypeOK, QueueOK, Gone
  <2>3. NoneMove /\ Entered
    BY <2>1 DEF NoneMove, Entered
  <2> QED BY <2>2, <2>3 DEF Progress, Moves
<1>5. ASSUME NEW t \in Thread, NEW capa \in Capacity, OtherUse(t, capa) PROVE Progress
  <2>1. cached' = [cached EXCEPT ![t] = capa] /\ UNCHANGED <<queue, nonblock, emitted, users, watch>>
        /\ UNCHANGED <<kills, open, tmp, call, delivered, lost, readOf>>
    BY <1>5 DEF OtherUse, kernelVars
  <2>2. TypeInv'
    BY <2>1 DEF TypeInv, TypeOK, QueueOK, Gone
  <2>3. NoneMove /\ Entered
    BY <2>1 DEF NoneMove, Entered
  <2> QED BY <2>2, <2>3 DEF Progress, Moves
<1>6. ASSUME NEW t \in Thread, WakeUp(t) PROVE Progress
  <2> DEFINE c == [call[t] EXCEPT !.pc = "read"]
  <2>1. call' = [call EXCEPT ![t] = c] /\ call[t].pc = "wait"
        /\ UNCHANGED <<queue, nonblock, emitted, users, watch>>
        /\ UNCHANGED <<kills, open, tmp, cached, delivered, lost, readOf>>
    BY <1>6, <1>0 DEF WakeUp, kernelVars
  <2>2. c \in CallType /\ c.batch = call[t].batch /\ Carries(c)
    BY <1>0, <2>1 DEF CallType, Carries
  <2> HIDE DEF c
  <2> QED BY <1>0, <2>1, <2>2, QuietStep
<1>7. ASSUME NEW t \in Thread, Signal(t) PROVE Progress
  <2> DEFINE c == [call[t] EXCEPT !.pc = "back", !.res = "EINTR", !.batch = <<>>]
  <2>1. call' = [call EXCEPT ![t] = c] /\ call[t].pc = "asleep"
        /\ UNCHANGED <<queue, nonblock, emitted, users, watch>>
        /\ UNCHANGED <<kills, open, tmp, cached, delivered, lost, readOf>>
    BY <1>7 DEF Signal, ReadReturns, kernelVars
  <2>2. c \in CallType /\ c.batch = call[t].batch /\ Carries(c)
    BY <1>0, <2>1 DEF CallType, Carries, Result
  <2> HIDE DEF c
  <2> QED BY <1>0, <2>1, <2>2, QuietStep
<1>8. CASE UNCHANGED vars
  <2>1. UNCHANGED <<queue, nonblock, emitted, users, watch>>
        /\ UNCHANGED <<kills, open, tmp, call, cached, delivered, lost, readOf>>
    BY <1>8 DEF vars, kernelVars
  <2>2. TypeInv'
    BY <2>1 DEF TypeInv, TypeOK, QueueOK, Gone
  <2>3. NoneMove /\ Entered
    BY <2>1 DEF NoneMove, Entered
  <2> QED BY <2>2, <2>3 DEF Progress, Moves
<1> QED
  BY <1>1, <1>2, <1>3, <1>4, <1>5, <1>6, <1>7, <1>8,
     TakeMoves, ReadMoves, BackMoves, InterruptMoves DEF Next

\* The variables stay in their types: read(2) never takes more than the queue
\* has, and every call holds a buffer of some size.
THEOREM TypeCorrect == Spec => []TypeOK
<1>1. TypeInv => TypeOK
  BY DEF TypeInv
<1>2. TypeInv /\ [Next]_vars => TypeInv'
  BY Step DEF Progress
<1> QED BY <1>1, <1>2, TypeInit, PTL DEF Spec

----------------------------------------------------------------------------
(* Every event is in one place.                                            *)

LostIds == {e.id : e \in lost}
Carried == [t \in Thread |-> Ids(call[t].batch)]

\* The events that have left the queue are divided among those returned (D),
\* buffered (T), lost (L) and carried by each thread (B).
Parts(D, T, L, B, G) ==
    /\ \A i \in D : i \notin T /\ i \notin L /\ \A t \in Thread : i \notin B[t]
    /\ \A i \in T : i \notin L /\ \A t \in Thread : i \notin B[t]
    /\ \A i \in L : \A t \in Thread : i \notin B[t]
    /\ \A t, u \in Thread : t # u => \A i \in B[t] : i \notin B[u]
    /\ \A i \in D \cup T \cup L : i \in 1 .. G
    /\ \A t \in Thread : \A i \in B[t] : i \in 1 .. G
    /\ \A i \in 1 .. G : i \in D \/ i \in T \/ i \in L \/ \E t \in Thread : i \in B[t]

Once ==
    /\ Parts(Ids(delivered), Ids(tmp), LostIds, Carried, Gone)
    /\ Distinct(delivered) /\ Distinct(tmp)
    /\ \A t \in Thread : Increasing(call[t].batch)

LEMMA IncreasingDistinct ==
    ASSUME NEW s \in Seq(Event), Increasing(s)
    PROVE  Distinct(s)
<1>1. ASSUME NEW i \in 1 .. Len(s) PROVE s[i].id \in Int
  <2>1. s[i] \in Event
    OBVIOUS
  <2> QED BY <2>1 DEF Event, Id
<1>2. ASSUME NEW i \in 1 .. Len(s), NEW j \in 1 .. Len(s), s[i].id = s[j].id
      PROVE  i = j
  <2>1. ~(i < j) /\ ~(j < i)
    BY <1>1, <1>2 DEF Increasing
  <2> QED BY <2>1
<1> QED BY <1>2 DEF Distinct

LEMMA IncreasingTail ==
    ASSUME NEW s \in Seq(Event), s # <<>>, Increasing(s)
    PROVE  Increasing(Tail(s)) /\ \A i \in Ids(Tail(s)) : Head(s).id < i
<1>1. /\ Len(s) \in Nat \ {0} /\ Head(s) = s[1] /\ Len(Tail(s)) = Len(s) - 1
      /\ \A i \in 1 .. Len(s) - 1 : Tail(s)[i] = s[i + 1]
  OBVIOUS
<1>2. \A i \in 1 .. Len(s) - 1 : i + 1 \in 1 .. Len(s) /\ 1 \in 1 .. Len(s) /\ 1 < i + 1
  BY <1>1
<1>3. Increasing(Tail(s))
  BY <1>1, <1>2 DEF Increasing
<1>4. \A i \in 1 .. Len(s) - 1 : s[1].id < s[i + 1].id
  BY <1>2 DEF Increasing
<1>5. \A i \in Ids(Tail(s)) : Head(s).id < i
  BY <1>1, <1>4 DEF Ids
<1> QED BY <1>3, <1>5

\* The ids of the first n events of the queue.
LEMMA FirstIds ==
    ASSUME TypeInv, NEW n \in 0 .. Len(queue)
    PROVE  /\ SubSeq(queue, 1, n) \in Seq(Event)
           /\ Ids(SubSeq(queue, 1, n)) = (Gone + 1) .. (Gone + n)
           /\ Increasing(SubSeq(queue, 1, n))
           /\ n # 0 => queue[1].id = Gone + 1
           /\ \A i \in Id : (\E j \in 1 .. n : queue[j].id = i) <=> i \in (Gone + 1) .. (Gone + n)
<1> DEFINE a == SubSeq(queue, 1, n)
<1>1. /\ queue \in Seq(Event) /\ Gone \in Nat /\ n \in Nat /\ Len(queue) \in Nat
      /\ \A i \in 1 .. Len(queue) : queue[i].id = Gone + i
  BY DEF TypeInv, TypeOK, QueueOK
<1>2. a \in Seq(Event) /\ Len(a) = n /\ \A i \in 1 .. n : a[i] = queue[i]
  BY <1>1, SplitAt
<1>3. \A i \in 1 .. n : i \in 1 .. Len(queue) /\ queue[i].id = Gone + i
  BY <1>1
<1> HIDE DEF a
<1>4. \A i \in 1 .. n : a[i].id = Gone + i
  BY <1>2, <1>3
<1>5. Increasing(a)
  BY <1>1, <1>2, <1>4 DEF Increasing
<1>6. \A i \in (Gone + 1) .. (Gone + n) : i - Gone \in 1 .. n /\ Gone + (i - Gone) = i
  BY <1>1
<1>7. \A i \in 1 .. n : Gone + i \in (Gone + 1) .. (Gone + n)
  BY <1>1
<1>8. Ids(a) \subseteq (Gone + 1) .. (Gone + n)
  BY <1>2, <1>4, <1>7 DEF Ids
<1>9. (Gone + 1) .. (Gone + n) \subseteq Ids(a)
  BY <1>2, <1>4, <1>6 DEF Ids
<1>10. \A i \in Id : (\E j \in 1 .. n : queue[j].id = i) <=> i \in (Gone + 1) .. (Gone + n)
  BY <1>3, <1>6, <1>7
<1>11. n # 0 => queue[1].id = Gone + 1
  BY <1>1, <1>3
<1> QED BY <1>2, <1>5, <1>8, <1>9, <1>10, <1>11 DEF a

LEMMA OnceStep == ASSUME TypeInv, Once, Progress PROVE Once'
<1>0. /\ delivered \in Seq(Event) /\ tmp \in Seq(Event) /\ Gone \in Nat
      /\ \A t \in Thread : call[t].batch \in Seq(Event)
      /\ Distinct(delivered) /\ Distinct(tmp) /\ \A t \in Thread : Increasing(call[t].batch)
      /\ Parts(Ids(delivered), Ids(tmp), LostIds, Carried, Gone)
  BY DEF TypeInv, TypeOK, QueueOK, Once
<1>1. CASE NoneMove \/ OneEmitted
  <2>1. /\ UNCHANGED <<tmp, delivered, lost>> /\ \A t \in Thread : call'[t].batch = call[t].batch
    BY <1>1 DEF NoneMove, OneEmitted
  <2>2. Gone' = Gone
    <3>1. CASE NoneMove
      BY <3>1 DEF NoneMove, Gone
    <3>2. CASE OneEmitted
      BY <3>2, QueuedOK DEF OneEmitted
    <3> QED BY <1>1, <3>1, <3>2
  <2>3. Carried' = Carried /\ LostIds' = LostIds /\ Ids(tmp)' = Ids(tmp)
        /\ Ids(delivered)' = Ids(delivered)
    BY <2>1 DEF Carried, LostIds
  <2> QED BY <1>0, <2>1, <2>2, <2>3 DEF Once
<1>2. ASSUME NEW t \in Thread, NEW n \in 0 .. Len(queue), SomeRead(t, n) PROVE Once'
  <2> DEFINE new == (Gone + 1) .. (Gone + n)
  <2>1. /\ call[t].batch = <<>> /\ call'[t].batch = SubSeq(queue, 1, n) /\ Rest(t)
        /\ Gone' = Gone + n /\ UNCHANGED <<tmp, delivered, lost>>
    BY <1>2 DEF SomeRead
  <2>2. Ids(SubSeq(queue, 1, n)) = new /\ Increasing(SubSeq(queue, 1, n))
    BY FirstIds
  <2>3. Carried[t] = {} /\ Carried' = [Carried EXCEPT ![t] = new]
    BY <2>1, <2>2, NoIds DEF Carried, Rest
  <2>4. \A i \in new : i \notin 1 .. Gone /\ i \in 1 .. Gone + n
    BY <1>0
  <2>5. \A i \in 1 .. Gone + n : i \in 1 .. Gone \/ i \in new
    BY <1>0
  <2>6. \A i \in 1 .. Gone : i \in 1 .. Gone + n
    BY <1>0
  <2> HIDE DEF new
  <2>7. \A u \in Thread : Carried'[u] = IF u = t THEN new ELSE Carried[u]
    BY <2>3 DEF Carried
  <2>8. Parts(Ids(delivered), Ids(tmp), LostIds, Carried', Gone + n)
    <3> HIDE DEF Carried, LostIds
    <3>1. Carried' \in [Thread -> {Carried'[u] : u \in Thread}]
      BY DEF Carried
    <3> QED BY <1>0, <2>3, <2>4, <2>5, <2>6, <2>7 DEF Parts
  <2>9. \A u \in Thread : Increasing(call'[u].batch)
    BY <1>0, <2>1, <2>2 DEF Rest
  <2>10. LostIds' = LostIds
    BY <2>1 DEF LostIds
  <2> QED BY <1>0, <2>1, <2>8, <2>9, <2>10 DEF Once
<1>3. ASSUME NEW t \in Thread, OneShifted(t) PROVE Once'
  <2>1. /\ tmp # <<>> /\ delivered' = Append(delivered, Head(tmp)) /\ tmp' = Tail(tmp)
        /\ \A u \in Thread : call'[u].batch = call[u].batch
        /\ UNCHANGED <<queue, emitted, lost>>
    BY <1>3 DEF OneShifted
  <2>2. /\ Head(tmp) \in Event /\ Ids(tmp) = {Head(tmp).id} \cup Ids(tmp')
        /\ Distinct(tmp') /\ Head(tmp).id \notin Ids(tmp')
    BY <1>0, <2>1, HeadTail
  <2>3. Ids(delivered') = Ids(delivered) \cup {Head(tmp).id}
    BY <1>0, <2>1, <2>2, IdsAppend
  <2>4. Distinct(delivered')
    BY <1>0, <2>1, <2>2, DistinctAppend DEF Parts
  <2>5. Carried' = Carried /\ LostIds' = LostIds /\ Gone' = Gone
    BY <2>1 DEF Carried, LostIds, Gone
  <2>6. Parts(Ids(delivered'), Ids(tmp'), LostIds, Carried, Gone)
    <3> HIDE DEF Carried, LostIds
    <3> QED BY <1>0, <2>2, <2>3 DEF Parts
  <2> QED BY <1>0, <2>1, <2>2, <2>4, <2>5, <2>6 DEF Once
<1>4. ASSUME NEW t \in Thread, BatchReturned(t) PROVE Once'
  <2> DEFINE b == call[t].batch
  <2>1. /\ b # <<>> /\ delivered' = Append(delivered, Head(b)) /\ tmp' = tmp \o Tail(b)
        /\ call'[t].batch = <<>> /\ Rest(t) /\ UNCHANGED <<queue, emitted, lost>>
    BY <1>4 DEF BatchReturned
  <2>2. b \in Seq(Event) /\ Increasing(b) /\ Distinct(b)
    BY <1>0, IncreasingDistinct
  <2> HIDE DEF b
  <2>3. /\ Head(b) \in Event /\ Tail(b) \in Seq(Event)
        /\ Ids(b) = {Head(b).id} \cup Ids(Tail(b))
        /\ Distinct(Tail(b)) /\ Head(b).id \notin Ids(Tail(b))
    BY <2>1, <2>2, HeadTail
  <2>4. Ids(delivered') = Ids(delivered) \cup {Head(b).id} /\ Ids(tmp') = Ids(tmp) \cup Ids(Tail(b))
    BY <1>0, <2>1, <2>3, IdsAppend, IdsConcat
  <2>5. /\ Carried[t] = Ids(b) /\ Carried' = [Carried EXCEPT ![t] = {}]
        /\ LostIds' = LostIds /\ Gone' = Gone
    BY <2>1, NoIds DEF Carried, LostIds, Gone, Rest, b
  <2>6. \A u \in Thread : Carried'[u] = IF u = t THEN {} ELSE Carried[u]
    BY <2>5 DEF Carried
  <2>7. \A i \in Ids(b) : i \notin Ids(delivered) /\ i \notin Ids(tmp)
    BY <1>0, <2>5 DEF Parts
  <2>8. Distinct(delivered') /\ Distinct(tmp')
    BY <1>0, <2>1, <2>3, <2>7, DistinctAppend, DistinctConcat
  <2>9. Parts(Ids(delivered'), Ids(tmp'), LostIds, Carried', Gone)
    <3> HIDE DEF Carried, LostIds
    <3> QED BY <1>0, <2>3, <2>4, <2>5, <2>6 DEF Parts
  <2>10. \A u \in Thread : Increasing(call'[u].batch)
    BY <1>0, <2>1, NoIds DEF Rest
  <2> QED BY <2>5, <2>8, <2>9, <2>10 DEF Once
<1>5. ASSUME NEW t \in Thread, BatchLost(t) PROVE Once'
  <2>1. /\ lost' = lost \cup {call[t].batch[i] : i \in 1 .. Len(call[t].batch)}
        /\ call'[t].batch = <<>> /\ Rest(t) /\ UNCHANGED <<queue, emitted, tmp, delivered>>
    BY <1>5 DEF BatchLost
  <2>2. /\ LostIds' = LostIds \cup Carried[t] /\ Gone' = Gone
        /\ Carried' = [Carried EXCEPT ![t] = {}]
    <3>1. Carried[t] = {call[t].batch[i].id : i \in 1 .. Len(call[t].batch)}
      BY DEF Carried, Ids
    <3>2. LostIds' = LostIds \cup Carried[t]
      <4>1. ASSUME NEW i \in LostIds' PROVE i \in LostIds \cup Carried[t]
        BY <2>1, <3>1 DEF LostIds
      <4>2. ASSUME NEW i \in LostIds \cup Carried[t] PROVE i \in LostIds'
        BY <2>1, <3>1 DEF LostIds
      <4> QED BY <4>1, <4>2
    <3>3. Carried' = [Carried EXCEPT ![t] = {}]
      BY <2>1, NoIds DEF Carried, Rest
    <3> QED BY <2>1, <3>2, <3>3 DEF Gone
  <2>3. \A u \in Thread : Carried'[u] = IF u = t THEN {} ELSE Carried[u]
    BY <2>2 DEF Carried
  <2>4. Parts(Ids(delivered), Ids(tmp), LostIds', Carried', Gone)
    <3> HIDE DEF Carried, LostIds
    <3> QED BY <1>0, <2>2, <2>3 DEF Parts
  <2>5. \A u \in Thread : Increasing(call'[u].batch)
    BY <1>0, <2>1, NoIds DEF Rest
  <2> QED BY <1>0, <2>1, <2>2, <2>4, <2>5 DEF Once
<1> QED BY <1>1, <1>2, <1>3, <1>4, <1>5 DEF Progress, Moves

LEMMA OnceInit == Init => Once
<1> SUFFICES ASSUME Init PROVE Once
  OBVIOUS
<1>1. /\ Ids(delivered) = {} /\ Ids(tmp) = {} /\ Distinct(delivered) /\ Distinct(tmp)
      /\ LostIds = {} /\ Gone = 0
  <2>1. delivered = <<>> /\ tmp = <<>> /\ lost = {} /\ Len(queue) = 0 /\ emitted = 0
    BY DEF Init
  <2>2. LostIds = {}
    BY <2>1, Zenon DEF LostIds
  <2>3. Gone = 0
    BY <2>1 DEF Gone
  <2> QED BY <2>1, <2>2, <2>3, NoIds
<1>2. \A t \in Thread : call[t].batch = <<>>
  BY DEF Init, Idle
<1>3. \A t \in Thread : Carried[t] = {} /\ Increasing(call[t].batch)
  BY <1>2, NoIds DEF Carried
<1>4. 1 .. 0 = {}
  OBVIOUS
<1> HIDE DEF Carried, LostIds
<1> QED BY <1>1, <1>3, <1>4 DEF Once, Parts

\* Every event is in the kernel, in the hands of one #take, in @inotify_tmp,
\* returned once or dropped by an interrupt, for any number of threads, buffers
\* and events.
THEOREM EventsOnce == Spec => []ExactlyOnce
<1>1. ASSUME TypeInv, Once PROVE ExactlyOnce
  <2> DEFINE line == delivered \o tmp \o queue
             D == Ids(delivered)
             T == Ids(tmp)
             K == Ids(queue)
  <2>0. /\ delivered \in Seq(Event) /\ tmp \in Seq(Event) /\ queue \in Seq(Event)
        /\ Distinct(delivered) /\ Distinct(tmp) /\ Parts(D, T, LostIds, Carried, Gone)
        /\ \A t \in Thread : call[t].batch \in Seq(Event) /\ Increasing(call[t].batch)
        /\ Gone \in Nat /\ Len(queue) \in Nat /\ emitted = Gone + Len(queue)
    BY <1>1 DEF TypeInv, TypeOK, QueueOK, Once, Gone
  <2>1. K = (Gone + 1) .. emitted /\ Distinct(queue)
    <3>1. Len(queue) \in 0 .. Len(queue)
      BY <2>0
    <3>2. SubSeq(queue, 1, Len(queue)) = queue
      BY <2>0
    <3> QED BY <1>1, <2>0, <3>1, <3>2, FirstIds, IncreasingDistinct
  <2>2. \A i \in K : i \notin 1 .. Gone
    BY <2>0, <2>1
  <2>3. 1 .. emitted = (1 .. Gone) \cup K
    BY <2>0, <2>1
  <2> HIDE DEF K
  <2>4. Ids(line) = D \cup T \cup K /\ Distinct(line)
    <3>1. delivered \o tmp \in Seq(Event) /\ Ids(delivered \o tmp) = D \cup T
      BY <2>0, IdsConcat
    <3>2. Distinct(delivered \o tmp)
      BY <2>0, DistinctConcat DEF Parts
    <3>3. (D \cup T) \cap K = {}
      BY <2>0, <2>2 DEF Parts
    <3> QED BY <2>0, <2>1, <3>1, <3>2, <3>3, IdsConcat, DistinctConcat DEF K
  <2> HIDE DEF line, D, T
  <2>5. \A t \in Thread : Carried[t] = Ids(call[t].batch) /\ Distinct(call[t].batch)
    BY <2>0, IncreasingDistinct DEF Carried
  <2>6. UNION ({K, T, D, LostIds} \cup {Ids(call[t].batch) : t \in Thread}) = 1 .. emitted
    <3> DEFINE all == UNION ({K, T, D, LostIds} \cup {Ids(call[t].batch) : t \in Thread})
    <3> HIDE DEF LostIds
    <3>1. ASSUME NEW i \in all PROVE i \in 1 .. emitted
      <4>1. i \in K \/ i \in T \/ i \in D \/ i \in LostIds \/ \E t \in Thread : i \in Carried[t]
        BY <2>5, <3>1
      <4> QED BY <2>0, <2>3, <4>1 DEF Parts
    <3>2. ASSUME NEW i \in 1 .. emitted PROVE i \in all
      <4>1. i \in K \/ i \in T \/ i \in D \/ i \in LostIds \/ \E t \in Thread : i \in Carried[t]
        BY <2>0, <2>3, <3>2 DEF Parts
      <4> QED BY <2>5, <4>1
    <3> QED BY <3>1, <3>2
  <2>7. \A e \in lost : e.id \notin Ids(line)
    <3>1. \A e \in lost : e.id \in LostIds
      BY DEF LostIds
    <3>2. \A i \in LostIds : i \notin D /\ i \notin T /\ i \notin K
      BY <2>0, <2>2 DEF Parts
    <3> QED BY <2>4, <3>1, <3>2
  <2>8. \A t \in Thread : Ids(call[t].batch) \cap (Ids(line) \cup LostIds) = {}
    BY <2>0, <2>2, <2>4, <2>5 DEF Parts
  <2>9. \A t \in Thread : \A u \in Thread \ {t} : Ids(call[t].batch) \cap Ids(call[u].batch) = {}
    BY <2>0, <2>5 DEF Parts
  <2> QED BY <2>4, <2>5, <2>6, <2>7, <2>8, <2>9 DEF ExactlyOnce, line, D, T, K, LostIds
<1>2. TypeInv /\ Once /\ [Next]_vars => TypeInv' /\ Once'
  BY Step, OnceStep DEF Progress
<1> QED BY <1>1, <1>2, TypeInit, OnceInit, PTL DEF Spec

----------------------------------------------------------------------------
(* The events of one read(2) keep their order.                             *)

\* Events of one read are in the order of their ids.
Sorted(s, r) ==
    \A i, j \in 1 .. Len(s) : i < j /\ r[s[i].id] = r[s[j].id] => s[i].id < s[j].id

\* Events of S come before those of T that the same read returned.
Before(S, T, r) == \A i \in S, j \in T : r[i] = r[j] => i < j

\* An event belongs to a read once it has left the queue, and the read that
\* returned the events a thread carries returned no others.
Reads ==
    /\ \A i \in Id : readOf[i] # Nil => i <= Gone /\ readOf[i] <= Gone
    /\ \A i \in Id : readOf[i] = Nil => i > Gone
    /\ \A t \in Thread : \A i \in Ids(call[t].batch) :
          \A j \in Id : readOf[j] = readOf[i] => j \in Ids(call[t].batch)
    /\ Sorted(delivered, readOf) /\ Sorted(tmp, readOf)
    /\ Before(Ids(delivered), Ids(tmp), readOf)

LEMMA SortedConcat ==
    ASSUME NEW s \in Seq(Event), NEW t \in Seq(Event), NEW r,
           Sorted(s, r), Sorted(t, r), Before(Ids(s), Ids(t), r)
    PROVE  Sorted(s \o t, r)
<1>1. /\ Len(s \o t) = Len(s) + Len(t) /\ Len(s) \in Nat /\ Len(t) \in Nat
      /\ \A i \in 1 .. Len(s) : (s \o t)[i] = s[i]
      /\ \A i \in 1 .. Len(t) : (s \o t)[Len(s) + i] = t[i]
  OBVIOUS
<1>2. ASSUME NEW i \in 1 .. Len(s \o t), i \notin 1 .. Len(s)
      PROVE  \E j \in 1 .. Len(t) : i = Len(s) + j
  <2>1. i - Len(s) \in 1 .. Len(t) /\ i = Len(s) + (i - Len(s))
    BY <1>1, <1>2
  <2> QED BY <2>1
<1>3. ASSUME NEW i \in 1 .. Len(s \o t), NEW j \in 1 .. Len(s \o t), i < j,
             r[(s \o t)[i].id] = r[(s \o t)[j].id]
      PROVE  (s \o t)[i].id < (s \o t)[j].id
  <2>1. CASE i \in 1 .. Len(s) /\ j \in 1 .. Len(s)
    BY <1>1, <1>3, <2>1 DEF Sorted
  <2>2. CASE i \in 1 .. Len(s) /\ j \notin 1 .. Len(s)
    <3>1. PICK y \in 1 .. Len(t) : j = Len(s) + y
      BY <1>2, <2>2
    <3>2. (s \o t)[i] = s[i] /\ (s \o t)[j] = t[y]
      BY <1>1, <2>2, <3>1
    <3>3. s[i].id \in Ids(s) /\ t[y].id \in Ids(t)
      BY <2>2 DEF Ids
    <3> QED BY <1>3, <3>2, <3>3 DEF Before
  <2>3. CASE i \notin 1 .. Len(s)
    <3>1. j \notin 1 .. Len(s)
      BY <1>1, <1>3, <2>3
    <3>2. PICK x \in 1 .. Len(t) : i = Len(s) + x
      BY <1>2, <2>3
    <3>3. PICK y \in 1 .. Len(t) : j = Len(s) + y
      BY <1>2, <3>1
    <3>4. (s \o t)[i] = t[x] /\ (s \o t)[j] = t[y] /\ x < y
      BY <1>1, <1>3, <3>2, <3>3
    <3> QED BY <1>3, <3>4 DEF Sorted
  <2> QED BY <2>1, <2>2, <2>3
<1> QED BY <1>3 DEF Sorted

LEMMA SortedAppend ==
    ASSUME NEW s \in Seq(Event), NEW e \in Event, NEW r,
           Sorted(s, r), Before(Ids(s), {e.id}, r)
    PROVE  Sorted(Append(s, e), r)
<1>1. /\ Len(Append(s, e)) = Len(s) + 1 /\ Len(s) \in Nat
      /\ \A i \in 1 .. Len(s) : Append(s, e)[i] = s[i]
      /\ Append(s, e)[Len(s) + 1] = e
  OBVIOUS
<1>2. \A i \in 1 .. Len(s) : r[s[i].id] = r[e.id] => s[i].id < e.id
  BY DEF Before, Ids
<1>3. ASSUME NEW i \in 1 .. Len(s) + 1, NEW j \in 1 .. Len(s) + 1, i < j
      PROVE  i \in 1 .. Len(s) /\ (j \in 1 .. Len(s) \/ j = Len(s) + 1)
  BY <1>1, <1>3
<1> HIDE DEF Before
<1> QED BY <1>1, <1>2, <1>3 DEF Sorted

LEMMA SortedTail ==
    ASSUME NEW s \in Seq(Event), s # <<>>, NEW r, Sorted(s, r)
    PROVE  Sorted(Tail(s), r) /\ Before({Head(s).id}, Ids(Tail(s)), r)
<1>1. /\ Len(s) \in Nat \ {0} /\ Head(s) = s[1] /\ Len(Tail(s)) = Len(s) - 1
      /\ \A i \in 1 .. Len(s) - 1 : Tail(s)[i] = s[i + 1]
  OBVIOUS
<1>2. \A i \in 1 .. Len(s) - 1 : i + 1 \in 1 .. Len(s) /\ 1 \in 1 .. Len(s) /\ 1 < i + 1
  BY <1>1
<1>3. Sorted(Tail(s), r)
  BY <1>1, <1>2 DEF Sorted
<1>4. \A i \in 1 .. Len(s) - 1 : r[s[1].id] = r[s[i + 1].id] => s[1].id < s[i + 1].id
  BY <1>2 DEF Sorted
<1>5. Before({Head(s).id}, Ids(Tail(s)), r)
  BY <1>1, <1>4 DEF Ids, Before
<1> QED BY <1>3, <1>5

\* Sorted only asks for the reads of the events in the sequence.
LEMMA SortedSame ==
    ASSUME NEW s \in Seq(Event), NEW q, NEW r, \A i \in Ids(s) : q[i] = r[i], Sorted(s, q)
    PROVE  Sorted(s, r)
<1>1. \A i \in 1 .. Len(s) : q[s[i].id] = r[s[i].id]
  BY DEF Ids
<1> QED BY <1>1 DEF Sorted

LEMMA IncreasingSorted == ASSUME NEW s, NEW r, Increasing(s) PROVE Sorted(s, r)
BY DEF Increasing, Sorted

LEMMA ReadsStep == ASSUME TypeInv, Once, Reads, Progress PROVE Reads'
<1> DEFINE D == Ids(delivered)
           T == Ids(tmp)
<1>0. /\ delivered \in Seq(Event) /\ tmp \in Seq(Event) /\ Gone \in Nat /\ MaxEvent \in Nat
      /\ Gone <= MaxEvent /\ readOf \in [Id -> Id \cup {Nil}] /\ Nil \notin Nat
      /\ \A t \in Thread : call[t].batch \in Seq(Event) /\ Increasing(call[t].batch)
      /\ Parts(D, T, LostIds, Carried, Gone)
      /\ Sorted(delivered, readOf) /\ Sorted(tmp, readOf) /\ Before(D, T, readOf)
  BY ConstantsOK DEF TypeInv, TypeOK, QueueOK, Once, Reads, Gone
<1>a. \A i \in 1 .. Gone : i \in Id
  BY <1>0 DEF Id
<1>b. /\ \A i \in D \cup T : i \in 1 .. Gone /\ i \in Id
      /\ \A t \in Thread : \A i \in Ids(call[t].batch) : i \in 1 .. Gone /\ i \in Id
  <2>1. \A t \in Thread : Carried[t] = Ids(call[t].batch)
    BY DEF Carried
  <2> QED BY <1>0, <1>a, <2>1 DEF Parts
<1>1. CASE NoneMove \/ OneEmitted
  <2>1. UNCHANGED <<tmp, delivered, readOf>> /\ \A t \in Thread : call'[t].batch = call[t].batch
    BY <1>1 DEF NoneMove, OneEmitted
  <2>2. Gone' = Gone
    <3>1. CASE NoneMove
      BY <3>1 DEF NoneMove, Gone
    <3>2. CASE OneEmitted
      BY <3>2, QueuedOK DEF OneEmitted
    <3> QED BY <1>1, <3>1, <3>2
  <2> QED BY <2>1, <2>2 DEF Reads
<1>2. ASSUME NEW t \in Thread, NEW n \in 0 .. Len(queue), SomeRead(t, n) PROVE Reads'
  <2> DEFINE new == (Gone + 1) .. (Gone + n)
  <2>1. /\ call'[t].batch = SubSeq(queue, 1, n) /\ Rest(t)
        /\ Gone' = Gone + n /\ UNCHANGED <<tmp, delivered>>
        /\ readOf' = [i \in Id |-> IF \E j \in 1 .. n : queue[j].id = i
                                   THEN queue[1].id ELSE readOf[i]]
    BY <1>2 DEF SomeRead
  <2>2. /\ Ids(call'[t].batch) = new /\ (n # 0 => queue[1].id = Gone + 1)
        /\ \A i \in Id : (\E j \in 1 .. n : queue[j].id = i) <=> i \in new
    BY <2>1, FirstIds
  <2>3. n \in Nat /\ (\A i \in new : n # 0 /\ i > Gone /\ i <= Gone + n)
        /\ (\A i \in Id : i > Gone /\ i <= Gone + n => i \in new)
        /\ Gone + 1 \in Nat
    BY <1>0 DEF Id
  <2> HIDE DEF new
  <2>4. \A i \in Id : readOf'[i] = IF i \in new THEN Gone + 1 ELSE readOf[i]
    BY <2>1, <2>2, <2>3
  <2>5. \A i \in 1 .. Gone : i \notin new /\ readOf'[i] = readOf[i]
    BY <1>0, <1>a, <2>3, <2>4
  <2>6. \A i \in Id : readOf[i] \in Nat \cup {Nil} /\ i \in Nat
    BY <1>0 DEF Id
  <2>7. ASSUME NEW i \in Id, readOf'[i] # Nil PROVE i <= Gone + n /\ readOf'[i] <= Gone + n
    <3>1. CASE i \in new
      BY <1>0, <2>3, <2>4, <3>1
    <3>2. CASE i \notin new
      <4>1. readOf'[i] = readOf[i] /\ i <= Gone /\ readOf[i] <= Gone /\ readOf[i] \in Nat
        BY <2>4, <2>6, <2>7, <3>2 DEF Reads
      <4> QED BY <1>0, <2>3, <2>6, <4>1
    <3> QED BY <3>1, <3>2
  <2>8. ASSUME NEW i \in Id, readOf'[i] = Nil PROVE i > Gone + n
    <3>1. i \notin new /\ readOf[i] = Nil
      BY <1>0, <2>3, <2>4, <2>8
    <3>2. i > Gone /\ i \in Nat
      BY <2>6, <3>1 DEF Reads
    <3> QED BY <1>0, <2>3, <3>1, <3>2
  <2>9. ASSUME NEW j \in Id, j \notin new PROVE readOf'[j] # Gone + 1
    <3> SUFFICES ASSUME readOf[j] = Gone + 1 PROVE FALSE
      BY <2>4, <2>9
    <3>1. readOf[j] # Nil /\ readOf[j] <= Gone
      BY <1>0, <2>3 DEF Reads
    <3> QED BY <1>0, <3>1
  <2>10. ASSUME NEW u \in Thread, NEW i \in Ids(call'[u].batch), NEW j \in Id,
                readOf'[j] = readOf'[i]
         PROVE  j \in Ids(call'[u].batch)
    <3>1. CASE u = t
      <4>1. i \in new /\ i \in Id
        <5>1. call'[t].batch \in Seq(Event)
          BY <2>1, FirstIds
        <5>2. i \in Id
          BY <2>10, <3>1, <5>1, IdsType
        <5> QED BY <2>2, <2>10, <3>1, <5>2
      <4>2. readOf'[j] = Gone + 1
        BY <2>4, <2>10, <4>1
      <4> QED BY <2>2, <2>9, <3>1, <4>2
    <3>2. CASE u # t
      <4>1. call'[u].batch = call[u].batch /\ i \in 1 .. Gone /\ i \in Id
        BY <1>b, <2>1, <2>10, <3>2 DEF Rest
      <4>2. i \notin new /\ readOf'[i] = readOf[i] /\ readOf'[i] # Gone + 1
        BY <2>5, <2>9, <4>1
      <4>3. j \notin new /\ readOf[j] = readOf[i]
        BY <2>4, <2>10, <4>2
      <4> QED BY <2>10, <4>1, <4>3 DEF Reads
    <3> QED BY <3>1, <3>2
  <2>11. Sorted(delivered, readOf') /\ Sorted(tmp, readOf') /\ Before(D, T, readOf')
    <3>1. \A i \in D \cup T : readOf'[i] = readOf[i]
      BY <1>b, <2>5
    <3>2. Sorted(delivered, readOf') /\ Sorted(tmp, readOf')
      BY <1>0, <3>1, SortedSame
    <3> QED BY <1>0, <3>1, <3>2 DEF Before
  <2>12. UNCHANGED <<D, T>>
    BY <2>1
  <2> QED BY <2>1, <2>7, <2>8, <2>10, <2>11, <2>12 DEF Reads
<1>3. ASSUME NEW t \in Thread, OneShifted(t) PROVE Reads'
  <2>1. /\ tmp # <<>> /\ delivered' = Append(delivered, Head(tmp)) /\ tmp' = Tail(tmp)
        /\ \A u \in Thread : call'[u].batch = call[u].batch
        /\ UNCHANGED <<queue, emitted, readOf>>
    BY <1>3 DEF OneShifted
  <2>2. Head(tmp) \in Event /\ T = {Head(tmp).id} \cup Ids(tmp')
    BY <1>0, <2>1, HeadTail
  <2>3. Ids(delivered') = D \cup {Head(tmp).id}
    BY <1>0, <2>1, <2>2, IdsAppend
  <2>4. Sorted(tmp', readOf) /\ Before({Head(tmp).id}, Ids(tmp'), readOf)
    BY <1>0, <2>1, SortedTail
  <2>5. Sorted(delivered', readOf)
    BY <1>0, <2>1, <2>2, SortedAppend DEF Before
  <2>6. Before(Ids(delivered'), Ids(tmp'), readOf)
    BY <1>0, <2>2, <2>3, <2>4 DEF Before
  <2>7. Gone' = Gone
    BY <2>1 DEF Gone
  <2> QED BY <2>1, <2>4, <2>5, <2>6, <2>7 DEF Reads
<1>4. ASSUME NEW t \in Thread, BatchReturned(t) PROVE Reads'
  <2> DEFINE b == call[t].batch
  <2>1. /\ b # <<>> /\ delivered' = Append(delivered, Head(b)) /\ tmp' = tmp \o Tail(b)
        /\ call'[t].batch = <<>> /\ Rest(t) /\ UNCHANGED <<queue, emitted, readOf>>
    BY <1>4 DEF BatchReturned
  <2>2. b \in Seq(Event) /\ Increasing(b)
    BY <1>0
  <2>3. \A i \in Ids(b), j \in D \cup T : readOf[i] # readOf[j]
    <3>1. \A i \in Ids(b) : i \notin D /\ i \notin T
      BY <1>0 DEF Parts, Carried
    <3> QED BY <1>b, <3>1 DEF Reads
  <2>4. \A u \in Thread : \A i \in Ids(call'[u].batch) :
          \A j \in Id : readOf[j] = readOf[i] => j \in Ids(call'[u].batch)
    <3>1. \A u \in Thread \ {t} : call'[u].batch = call[u].batch
      BY <2>1 DEF Rest
    <3>2. Ids(call'[t].batch) = {}
      BY <2>1, NoIds
    <3> QED BY <3>1, <3>2 DEF Reads
  <2> HIDE DEF b
  <2>5. /\ Head(b) \in Event /\ Tail(b) \in Seq(Event)
        /\ Ids(b) = {Head(b).id} \cup Ids(Tail(b))
    BY <2>1, <2>2, HeadTail
  <2>6. Increasing(Tail(b)) /\ \A i \in Ids(Tail(b)) : Head(b).id < i
    BY <2>1, <2>2, IncreasingTail
  <2>7. Ids(delivered') = D \cup {Head(b).id} /\ Ids(tmp') = T \cup Ids(Tail(b))
    BY <1>0, <2>1, <2>5, IdsAppend, IdsConcat
  <2>8. Sorted(delivered', readOf)
    BY <1>0, <2>1, <2>3, <2>5, SortedAppend DEF Before
  <2>9. Sorted(tmp', readOf)
    <3>1. Sorted(Tail(b), readOf) /\ Before(T, Ids(Tail(b)), readOf)
      BY <2>3, <2>5, <2>6, IncreasingSorted DEF Before
    <3> QED BY <1>0, <2>1, <2>5, <3>1, SortedConcat
  <2>10. Before(Ids(delivered'), Ids(tmp'), readOf)
    BY <1>0, <2>3, <2>5, <2>6, <2>7 DEF Before
  <2>11. Gone' = Gone
    BY <2>1 DEF Gone
  <2> QED BY <2>1, <2>4, <2>8, <2>9, <2>10, <2>11 DEF Reads
<1>5. ASSUME NEW t \in Thread, BatchLost(t) PROVE Reads'
  <2>1. /\ call'[t].batch = <<>> /\ Rest(t)
        /\ UNCHANGED <<queue, emitted, tmp, delivered, readOf>>
    BY <1>5 DEF BatchLost
  <2>2. \A u \in Thread : \A i \in Ids(call'[u].batch) :
          \A j \in Id : readOf[j] = readOf[i] => j \in Ids(call'[u].batch)
    <3>1. \A u \in Thread \ {t} : call'[u].batch = call[u].batch
      BY <2>1 DEF Rest
    <3>2. Ids(call'[t].batch) = {}
      BY <2>1, NoIds
    <3> QED BY <3>1, <3>2 DEF Reads
  <2>3. Gone' = Gone
    BY <2>1 DEF Gone
  <2> QED BY <2>1, <2>2, <2>3 DEF Reads
<1> QED BY <1>1, <1>2, <1>3, <1>4, <1>5 DEF Progress, Moves

LEMMA ReadsInit == Init => Reads
<1> SUFFICES ASSUME Init PROVE Reads
  OBVIOUS
<1>1. /\ delivered = <<>> /\ tmp = <<>> /\ Len(queue) = 0 /\ emitted = 0
      /\ readOf = [i \in Id |-> Nil]
  BY DEF Init
<1>2. Gone = 0
  BY <1>1 DEF Gone
<1>3. \A t \in Thread : Ids(call[t].batch) = {}
  BY NoIds DEF Init, Idle
<1>4. \A i \in Id : readOf[i] = Nil /\ i > 0
  BY <1>1 DEF Id
<1>5. Ids(delivered) = {} /\ Sorted(delivered, readOf) /\ Sorted(tmp, readOf)
  BY <1>1, NoIds, IncreasingSorted
<1> QED BY <1>2, <1>3, <1>4, <1>5 DEF Reads, Before

\* The events that one read(2) returned reach the callers of #take in the
\* kernel's order, however many threads read, push and shift.
THEOREM ReadsInOrder == Spec => []ReadOrder
<1>1. ASSUME TypeInv, Reads PROVE ReadOrder
  BY <1>1, SortedConcat DEF TypeInv, TypeOK, Reads, ReadOrder, Sorted
<1>2. TypeInv /\ Once /\ Reads /\ [Next]_vars => TypeInv' /\ Once' /\ Reads'
  BY Step, OnceStep, ReadsStep DEF Progress
<1> QED BY <1>1, <1>2, TypeInit, OnceInit, ReadsInit, PTL DEF Spec

----------------------------------------------------------------------------
(* #take implements a queue.                                               *)

\* A thread that does not use the object is never in #take, and one that uses it
\* alone only reads when @inotify_tmp is empty, which is then in order.
Alone ==
    /\ \A t \in Thread : call[t].pc # "idle" => t \in users
    /\ Single => /\ Increasing(tmp)
                 /\ \A t \in Thread : call[t].pc # "idle" => tmp = <<>>

LEMMA OneUser ==
    ASSUME TypeInv, Single
    PROVE  \E w \in Thread : users = {w}
<1>1. IsFiniteSet(users) /\ users \subseteq Thread
  BY ConstantsOK, FS_Subset DEF TypeInv, TypeOK
<1> QED BY <1>1, FS_Singleton DEF Single

LEMMA AloneStep == ASSUME TypeInv, Once, Alone, Progress PROVE Alone'
<1>1. /\ tmp \in Seq(Event) /\ users' = users /\ Single' = Single
      /\ \A t \in Thread : call[t].batch \in Seq(Event) /\ Increasing(call[t].batch)
      /\ \A t \in Thread :
            call'[t].pc # "idle" => call[t].pc # "idle" \/ (t \in users /\ tmp = <<>>)
  BY DEF TypeInv, TypeOK, Once, Progress, Entered, Single
<1>2. \A t \in Thread : call'[t].pc # "idle" => t \in users'
  BY <1>1 DEF Alone
<1> SUFFICES ASSUME Single
             PROVE  Increasing(tmp') /\ \A t \in Thread : call'[t].pc # "idle" => tmp' = <<>>
  BY <1>1, <1>2 DEF Alone
<1>3. PICK w \in Thread : users = {w}
  BY OneUser
<1>4. CASE UNCHANGED tmp
  BY <1>1, <1>4 DEF Alone
<1>5. ASSUME NEW t \in Thread, OneShifted(t)
      PROVE  Increasing(tmp') /\ \A u \in Thread : call'[u].pc # "idle" => tmp' = <<>>
  <2>1. tmp # <<>> /\ tmp' = Tail(tmp) /\ call[t].pc = "idle" /\ t \in users
    BY <1>5 DEF OneShifted
  <2>2. Increasing(tmp')
    BY <1>1, <2>1, IncreasingTail DEF Alone
  <2>3. \A u \in Thread : call'[u].pc = "idle"
    BY <1>1, <1>3, <2>1 DEF Alone
  <2> QED BY <2>2, <2>3
<1>6. ASSUME NEW t \in Thread, BatchReturned(t)
      PROVE  Increasing(tmp') /\ \A u \in Thread : call'[u].pc # "idle" => tmp' = <<>>
  <2>1. /\ call[t].pc = "back" /\ call'[t].pc = "idle" /\ call[t].batch # <<>>
        /\ tmp' = tmp \o Tail(call[t].batch)
    BY <1>6 DEF BatchReturned
  <2>2. t \in users /\ tmp = <<>>
    BY <2>1 DEF Alone
  <2>3. Tail(call[t].batch) \in Seq(Event) /\ Increasing(Tail(call[t].batch))
    BY <1>1, <2>1, HeadTail, IncreasingTail
  <2>4. tmp' = Tail(call[t].batch)
    BY <2>1, <2>2, <2>3
  <2>5. \A u \in Thread : call'[u].pc = "idle"
    BY <1>1, <1>2, <1>3, <2>1, <2>2
  <2> QED BY <2>3, <2>4, <2>5
<1> QED
  BY <1>4, <1>5, <1>6 DEF Progress, Moves, NoneMove, OneEmitted, SomeRead, BatchLost

LEMMA AloneInit == Init => Alone
<1> SUFFICES ASSUME Init PROVE Alone
  OBVIOUS
<1>1. tmp = <<>> /\ \A t \in Thread : call[t].pc = "idle"
  BY DEF Init, Idle
<1> QED BY <1>1, NoIds DEF Alone

\* What is outstanding, in terms of its parts.
LEMMA OutstandingIs ==
    /\ \A i : i \in Outstanding <=> \/ i \in Ids(queue) \/ i \in Ids(tmp)
                                    \/ \E t \in Thread : i \in Carried[t]
    /\ \A i : i \in Outstanding' <=> \/ i \in Ids(queue') \/ i \in Ids(tmp')
                                     \/ \E t \in Thread : i \in Carried'[t]
<1>1. \A t \in Thread : Carried[t] = Ids(call[t].batch) /\ Carried'[t] = Ids(call'[t].batch)
  BY DEF Carried
<1> QED BY <1>1 DEF Outstanding

\* The ids in the queue are the youngest.
LEMMA QueueIds ==
    ASSUME TypeInv
    PROVE  Ids(queue) = (Gone + 1) .. emitted
<1>1. queue \in Seq(Event) /\ Len(queue) \in 0 .. Len(queue) /\ emitted = Gone + Len(queue)
  BY DEF TypeInv, TypeOK, Gone
<1>2. SubSeq(queue, 1, Len(queue)) = queue
  BY <1>1
<1> QED BY <1>1, <1>2, FirstIds

\* An event that leaves is taken in the sense of the queue.
LEMMA TakesOne ==
    ASSUME delivered \in Seq(Event), NEW e \in Event, delivered' = Append(delivered, e),
           UNCHANGED <<emitted, users>>,
           e.id \in Outstanding, \A i : i \in Outstanding' <=> i \in Outstanding /\ i # e.id,
           Single => \A j \in Outstanding : e.id <= j
    PROVE  Q!Next
<1>1. Taken' = Append(Taken, e.id)
  <2>1. /\ Len(delivered') = Len(delivered) + 1 /\ Len(delivered) \in Nat
        /\ \A i \in 1 .. Len(delivered) : delivered'[i] = delivered[i]
        /\ delivered'[Len(delivered) + 1] = e
    OBVIOUS
  <2>2. Taken \in Seq(Id)
    <3>1. \A i \in 1 .. Len(delivered) : delivered[i].id \in Id
      <4>1. \A i \in 1 .. Len(delivered) : delivered[i] \in Event
        OBVIOUS
      <4> QED BY <4>1 DEF Event
    <3> QED BY <3>1 DEF Taken
  <2>3. Len(Taken) = Len(delivered)
    BY DEF Taken
  <2>4. DOMAIN Append(Taken, e.id) = 1 .. Len(delivered) + 1
    BY <2>2, <2>3
  <2>5. \A i \in 1 .. Len(delivered) + 1 : Append(Taken, e.id)[i] = delivered'[i].id
    BY <2>1, <2>2, <2>3 DEF Taken
  <2>6. Taken' = [i \in 1 .. Len(delivered) + 1 |-> delivered'[i].id]
    BY <2>1 DEF Taken
  <2> QED BY <2>2, <2>4, <2>5, <2>6
<1>2. Outstanding' = Outstanding \ {e.id}
  OBVIOUS
<1>3. Single' = Single
  BY DEF Single
<1> HIDE DEF Outstanding, Taken, Single
<1> QED BY <1>1, <1>2, <1>3 DEF Q!Next, Q!Take

LEMMA QueueStep ==
    ASSUME TypeInv, Once, Alone, Progress
    PROVE  [Q!Next]_(Q!vars)
<1>0. /\ delivered \in Seq(Event) /\ tmp \in Seq(Event) /\ queue \in Seq(Event)
      /\ Gone \in Nat /\ emitted \in Nat /\ TypeInv'
      /\ \A t \in Thread : call[t].batch \in Seq(Event) /\ Increasing(call[t].batch)
      /\ Parts(Ids(delivered), Ids(tmp), LostIds, Carried, Gone)
      /\ users' = users
  BY DEF TypeInv, TypeOK, QueueOK, Once, Progress, Entered
<1>a. \A t \in Thread : Carried[t] = Ids(call[t].batch) /\ Carried'[t] = Ids(call'[t].batch)
  BY DEF Carried
<1>b. \A i \in Ids(queue) : i > Gone /\ i \in Nat
  BY <1>0, QueueIds
<1>c. /\ \A i \in Ids(tmp) : i <= Gone /\ i \in Nat
      /\ \A t \in Thread : \A i \in Carried[t] : i <= Gone /\ i \in Nat
  BY <1>0 DEF Parts
<1>d. Single' = Single
  BY <1>0 DEF Single
<1>1. CASE NoneMove
  <2>1. Outstanding' = Outstanding /\ Taken' = Taken /\ emitted' = emitted
    BY <1>1 DEF NoneMove, Outstanding, Taken
  <2> QED BY <1>d, <2>1 DEF Q!vars
<1>2. CASE OneEmitted
  <2>1. /\ queue' = Append(queue, queue'[Len(queue')]) /\ queue' \in Seq(Event)
        /\ emitted' = emitted + 1 /\ queue'[Len(queue')].id = emitted + 1
        /\ queue'[Len(queue')] \in Event
    <3>1. PICK len \in Length : Queued(len)
      BY <1>2 DEF OneEmitted
    <3> DEFINE e == [id |-> emitted + 1, len |-> len]
    <3>2. e \in Event /\ e.id = emitted + 1
      BY <1>0, <3>1, ConstantsOK DEF Event, Id, Queued
    <3>3. queue' = Append(queue, e) /\ emitted' = emitted + 1
      BY <3>1 DEF Queued
    <3> HIDE DEF e
    <3>4. queue' \in Seq(Event) /\ queue'[Len(queue')] = e
      BY <1>0, <3>2, <3>3
    <3> QED BY <3>2, <3>3, <3>4
  <2>2. Ids(queue') = Ids(queue) \cup {emitted + 1}
    BY <1>0, <2>1, IdsAppend
  <2>3. UNCHANGED <<tmp, delivered>> /\ \A t \in Thread : call'[t].batch = call[t].batch
    BY <1>2 DEF OneEmitted
  <2>4. Outstanding' = Outstanding \cup {emitted + 1}
    BY <1>a, <2>2, <2>3, OutstandingIs
  <2>5. Taken' = Taken
    BY <2>3 DEF Taken
  <2> HIDE DEF Outstanding, Taken, Single
  <2> QED BY <1>d, <2>1, <2>4, <2>5 DEF Q!Next, Q!Occur
<1>3. ASSUME NEW t \in Thread, NEW n \in 0 .. Len(queue), SomeRead(t, n)
      PROVE  UNCHANGED Q!vars
  <2>1. /\ call[t].batch = <<>> /\ call'[t].batch = SubSeq(queue, 1, n) /\ Rest(t)
        /\ queue' = SubSeq(queue, n + 1, Len(queue)) /\ UNCHANGED <<emitted, tmp, delivered>>
    BY <1>3 DEF SomeRead
  <2>2. Ids(queue) = Ids(call'[t].batch) \cup Ids(queue') /\ Ids(call[t].batch) = {}
    BY <1>0, <2>1, SplitAt, NoIds
  <2>3. Outstanding' = Outstanding
    <3>1. \A u \in Thread \ {t} : Carried'[u] = Carried[u]
      BY <1>a, <2>1 DEF Rest
    <3>2. Ids(tmp') = Ids(tmp)
      BY <2>1
    <3>3. Carried[t] = {} /\ Ids(queue) = Carried'[t] \cup Ids(queue')
      BY <1>a, <2>2
    <3> HIDE DEF Outstanding, Carried
    <3>4. \A i : i \in Outstanding' <=> i \in Outstanding
      BY <3>1, <3>2, <3>3, OutstandingIs
    <3> QED BY <3>4
  <2>4. Taken' = Taken
    BY <2>1 DEF Taken
  <2> QED BY <1>d, <2>1, <2>3, <2>4 DEF Q!vars
<1>4. ASSUME NEW t \in Thread, OneShifted(t) PROVE Q!Next
  <2> DEFINE h == Head(tmp)
  <2>1. /\ tmp # <<>> /\ delivered' = Append(delivered, h) /\ tmp' = Tail(tmp)
        /\ \A u \in Thread : call'[u].batch = call[u].batch
        /\ UNCHANGED <<queue, emitted>> /\ call[t].pc = "idle" /\ t \in users
    BY <1>4 DEF OneShifted
  <2>2. h \in Event /\ Ids(tmp) = {h.id} \cup Ids(tmp') /\ h.id \notin Ids(tmp')
    BY <1>0, <2>1, HeadTail DEF Once
  <2>3. \A u \in Thread : Carried'[u] = Carried[u]
    BY <1>a, <2>1
  <2>4. h.id \notin Ids(queue) /\ \A u \in Thread : h.id \notin Carried[u]
    BY <1>0, <1>b, <1>c, <2>2 DEF Parts
  <2>5. h.id \in Outstanding
    BY <2>2, OutstandingIs
  <2>6. \A i : i \in Outstanding' <=> i \in Outstanding /\ i # h.id
    <3>1. Ids(queue') = Ids(queue)
      BY <2>1
    <3> HIDE DEF Outstanding, Carried, h
    <3> QED BY <2>2, <2>3, <2>4, <3>1, OutstandingIs
  <2>7. ASSUME Single, NEW j \in Outstanding PROVE h.id <= j
    <3>1. PICK w \in Thread : users = {w}
      BY <2>7, OneUser
    <3>2. \A u \in Thread : call[u].pc = "idle"
      BY <2>1, <3>1 DEF Alone
    <3>3. \A u \in Thread : Carried[u] = {}
      BY <1>a, <3>2, NoIds DEF TypeInv, Carries
    <3>4. h.id <= Gone /\ h.id \in Nat
      BY <1>c, <2>2
    <3>5. CASE j \in Ids(queue)
      BY <1>0, <1>b, <3>4, <3>5
    <3>6. CASE j \in Ids(tmp)
      <4>1. \A i \in Ids(tmp') : h.id < i
        BY <1>0, <2>1, <2>7, IncreasingTail DEF Alone
      <4> QED BY <1>c, <2>2, <3>6, <4>1
    <3> QED BY <2>7, <3>3, <3>5, <3>6, OutstandingIs
  <2> HIDE DEF h
  <2> QED BY <1>0, <2>1, <2>2, <2>5, <2>6, <2>7, TakesOne
<1>5. ASSUME NEW t \in Thread, BatchReturned(t) PROVE Q!Next
  <2> DEFINE b == call[t].batch
             h == Head(b)
  <2>1. /\ b # <<>> /\ delivered' = Append(delivered, h) /\ tmp' = tmp \o Tail(b)
        /\ call'[t].batch = <<>> /\ Rest(t) /\ UNCHANGED <<queue, emitted>>
        /\ call[t].pc = "back"
    BY <1>5 DEF BatchReturned
  <2>2. b \in Seq(Event) /\ Increasing(b) /\ Distinct(b) /\ Carried[t] = Ids(b)
    BY <1>0, <1>a, IncreasingDistinct
  <2>3. /\ h \in Event /\ Tail(b) \in Seq(Event) /\ Ids(b) = {h.id} \cup Ids(Tail(b))
        /\ h.id \notin Ids(Tail(b))
    BY <2>1, <2>2, HeadTail
  <2>4. Carried'[t] = {} /\ \A u \in Thread \ {t} : Carried'[u] = Carried[u]
    BY <1>a, <2>1, NoIds DEF Rest
  <2>5. Ids(tmp') = Ids(tmp) \cup Ids(Tail(b)) /\ Ids(queue') = Ids(queue)
    BY <1>0, <2>1, <2>3, IdsConcat
  <2>6. /\ h.id \notin Ids(queue) /\ h.id \notin Ids(tmp)
        /\ \A u \in Thread \ {t} : h.id \notin Carried[u]
    BY <1>0, <1>b, <1>c, <2>2, <2>3 DEF Parts
  <2>7. h.id \in Outstanding
    BY <2>2, <2>3, OutstandingIs
  <2>8. \A i : i \in Outstanding' <=> i \in Outstanding /\ i # h.id
    <3> HIDE DEF Outstanding, Carried, h, b
    <3> QED BY <2>2, <2>3, <2>4, <2>5, <2>6, OutstandingIs
  <2>9. ASSUME Single, NEW j \in Outstanding PROVE h.id <= j
    <3>1. PICK w \in Thread : users = {w}
      BY <2>9, OneUser
    <3>2. t \in users /\ tmp = <<>> /\ \A u \in Thread \ {t} : call[u].pc = "idle"
      BY <2>1, <2>9, <3>1 DEF Alone
    <3>3. Ids(tmp) = {} /\ \A u \in Thread \ {t} : Carried[u] = {}
      BY <1>a, <3>2, NoIds DEF TypeInv, Carries
    <3>4. h.id <= Gone /\ h.id \in Nat
      BY <1>c, <2>2, <2>3
    <3>5. CASE j \in Ids(queue)
      BY <1>0, <1>b, <3>4, <3>5
    <3>6. CASE j \in Carried[t]
      <4>1. \A i \in Ids(Tail(b)) : h.id < i
        BY <2>1, <2>2, IncreasingTail
      <4>2. j \in Nat
        BY <1>c, <3>6
      <4> QED BY <2>2, <2>3, <3>4, <3>6, <4>1, <4>2
    <3> QED BY <2>9, <3>3, <3>5, <3>6, OutstandingIs
  <2> HIDE DEF h, b
  <2> QED BY <1>0, <2>1, <2>3, <2>7, <2>8, <2>9, TakesOne
<1>6. ASSUME NEW t \in Thread, BatchLost(t) PROVE [Q!Next]_(Q!vars)
  <2>1. /\ call'[t].batch = <<>> /\ Rest(t) /\ UNCHANGED <<queue, emitted, tmp, delivered>>
    BY <1>6 DEF BatchLost
  <2>2. Carried'[t] = {} /\ \A u \in Thread \ {t} : Carried'[u] = Carried[u]
    BY <1>a, <2>1, NoIds DEF Rest
  <2>3. \A i \in Carried[t] : /\ i \in Outstanding /\ i \notin Ids(queue) /\ i \notin Ids(tmp)
                              /\ \A u \in Thread \ {t} : i \notin Carried[u]
    BY <1>0, <1>b, <1>c, OutstandingIs DEF Parts
  <2>4. Outstanding' = Outstanding \ Carried[t]
    <3>1. Ids(queue') = Ids(queue) /\ Ids(tmp') = Ids(tmp)
      BY <2>1
    <3> HIDE DEF Outstanding, Carried
    <3>2. \A i : i \in Outstanding' <=> i \in Outstanding /\ i \notin Carried[t]
      BY <2>2, <2>3, <3>1, OutstandingIs
    <3> QED BY <3>2
  <2>5. Taken' = Taken
    BY <2>1 DEF Taken
  <2> HIDE DEF Outstanding, Taken, Single, Carried
  <2>6. CASE Carried[t] = {}
    BY <1>d, <2>1, <2>4, <2>5, <2>6 DEF Q!vars
  <2>7. CASE Carried[t] # {}
    <3>1. Carried[t] \in SUBSET Outstanding
      BY <2>3
    <3> QED BY <1>d, <2>1, <2>4, <2>5, <2>7, <3>1 DEF Q!Next, Q!Drop
  <2> QED BY <2>6, <2>7
<1> QED BY <1>1, <1>2, <1>3, <1>4, <1>5, <1>6 DEF Progress, Moves

\* Inotify#take, with its reads into buffers of any size, its waits, resizes and
\* interrupts, implements the queue: each event is handed out once, and to a
\* thread that is alone in the kernel's order.
THEOREM QueueImplemented == Spec => ImplementsQueue
<1>1. Init => Q!Init
  <2> SUFFICES ASSUME Init PROVE Q!Init
    OBVIOUS
  <2>1. /\ queue = <<>> /\ tmp = <<>> /\ delivered = <<>> /\ emitted = 0
        /\ \A t \in Thread : call[t].batch = <<>>
    BY DEF Init, Idle
  <2>2. \A t \in Thread : Carried[t] = {}
    BY <2>1, NoIds DEF Carried
  <2>3. Outstanding = {}
    <3>1. Ids(queue) = {} /\ Ids(tmp) = {}
      BY <2>1, NoIds
    <3> HIDE DEF Outstanding, Carried
    <3> QED BY <2>2, <3>1, OutstandingIs
  <2>4. Taken = <<>>
    BY <2>1 DEF Taken
  <2>5. Single \in BOOLEAN
    BY DEF Single
  <2> QED BY <2>1, <2>3, <2>4, <2>5 DEF Q!Init
<1>2. TypeInv /\ Once /\ Alone /\ [Next]_vars => TypeInv' /\ Once' /\ Alone'
  BY Step, OnceStep, AloneStep DEF Progress
<1>3. TypeInv /\ Once /\ Alone /\ [Next]_vars => [Q!Next]_(Q!vars)
  BY Step, QueueStep
<1> QED
  BY <1>1, <1>2, <1>3, TypeInit, OnceInit, AloneInit, PTL DEF Spec, ImplementsQueue, Q!Spec
=============================================================================
