-------------------------- MODULE TlsBufferProofs --------------------------
(***************************************************************************)
(* Proofs about TlsBuffer, for any number of threads, nested calls and     *)
(* buffers and for all sizes.                                              *)
(***************************************************************************)
EXTENDS TlsBuffer, TLAPS

\* The types of the program's own state.
Typed ==
    /\ heap \in [Buf -> Block \cup {Nil}]
    /\ key \in [Thread -> Buf \cup {Nil}]
    /\ frame \in [Frame -> Use \cup {Nil}]

\* The invariant, for a heap h and the calls in X.  It is stated this way
\* because rb_sp_puttlsbuf and rb_sp_gettlsbuf follow each other inside
\* resize_internal_buffer: in between the call itself owns no buffer.
KeysApart == \A s, t \in Thread : key[s] # Nil /\ key[s] = key[t] => s = t

KeyTyped(h) ==
    \A t \in Thread : key[t] # Nil /\ h[key[t]] # Nil => h[key[t]].type # "MALLOCED"

Owns(h, x) ==
    LET u == frame[x] IN
    /\ h[u.buf] # Nil
    /\ h[u.buf].capa >= u.size
    /\ h[u.buf].type # "READY"
    /\ h[u.buf].type = "INUSE" => key[u.thread] = u.buf

Apart(X) ==
    \A x, y \in X : frame[x] # Nil /\ frame[y] # Nil /\ frame[x].buf = frame[y].buf => x = y

Good(h, X) ==
    /\ h \in [Buf -> Block \cup {Nil}]
    /\ KeysApart
    /\ KeyTyped(h)
    /\ \A x \in X : frame[x] # Nil => Owns(h, x)
    /\ Apart(X)

Inv == Typed /\ Good(heap, Frame)

AllKeys(h) == \A t \in Thread : key[t] # Nil => h[key[t]] # Nil

LEMMA InvInit == Init => Inv
BY DEF Init, Inv, Typed, Good, KeysApart, KeyTyped, Apart

\* A record is neither Nil nor anything but what it was built from.
LEMMA BlockFacts ==
    ASSUME NEW ty \in Type, NEW size \in Size
    PROVE  LET k == [type |-> ty, capa |-> size]
           IN  k \in Block /\ k # Nil /\ k.type = ty /\ k.capa = size
<1>1. [type |-> ty, capa |-> size] \in Block
  BY DEF Block
<1> QED BY <1>1, ConstantsOK

LEMMA AllocFacts ==
    ASSUME NEW h \in [Buf -> Block \cup {Nil}], NEW b \in Buf,
           NEW ty \in Type, NEW size \in Size
    PROVE  LET g == Alloc(h, b, ty, size)
           IN  /\ g \in [Buf -> Block \cup {Nil}]
               /\ g[b] # Nil /\ g[b].type = ty /\ g[b].capa = size
               /\ \A c \in Buf \ {b} : g[c] = h[c]
BY BlockFacts DEF Alloc

LEMMA UseFacts ==
    ASSUME NEW t \in Thread, NEW b \in Buf, NEW size \in Size, NEW c \in Callers
    PROVE  LET u == [thread |-> t, buf |-> b, size |-> size, caller |-> c]
           IN  u \in Use /\ u # Nil /\ u.thread = t /\ u.buf = b /\ u.size = size
<1>1. [thread |-> t, buf |-> b, size |-> size, caller |-> c] \in Use
  BY DEF Use
<1> QED BY <1>1, ConstantsOK

\* rb_sp_puttlsbuf leaves every other call its buffer and every key valid.
LEMMA PutGood ==
    ASSUME Inv, NEW x \in Frame, frame[x] # Nil
    PROVE  /\ Good(Put(frame[x].buf), Frame \ {x})
           /\ AllKeys(heap) => AllKeys(Put(frame[x].buf))
<1> DEFINE b == frame[x].buf
<1>0. /\ b \in Buf /\ frame[x].thread \in Thread /\ heap \in [Buf -> Block \cup {Nil}]
      /\ heap[b] \in Block /\ Owns(heap, x)
      /\ \A y \in Frame : frame[y] # Nil => frame[y].buf \in Buf /\ frame[y].thread \in Thread
  BY DEF Inv, Typed, Use, Good, Owns
<1>1. \A y \in Frame \ {x} : frame[y] # Nil => frame[y].buf # b
  BY DEF Inv, Good, Apart
<1>2. CASE heap[b].type = "INUSE"
  <2>1. /\ heap[b].capa \in Size
        /\ Put(b) = Alloc(heap, b, "READY", heap[b].capa)
    BY <1>0, <1>2 DEF Put, Block
  <2>2. /\ Put(b) \in [Buf -> Block \cup {Nil}]
        /\ Put(b)[b] # Nil /\ Put(b)[b].type = "READY"
        /\ \A c \in Buf \ {b} : Put(b)[c] = heap[c]
    BY <1>0, <2>1, AllocFacts DEF Type
  <2>3. \A y \in Frame \ {x} : frame[y] # Nil => Owns(Put(b), y)
    BY <1>0, <1>1, <2>2 DEF Inv, Good, Owns
  <2>4. KeyTyped(Put(b)) /\ (AllKeys(heap) => AllKeys(Put(b)))
    BY <1>0, <2>2 DEF Inv, Good, Typed, KeyTyped, AllKeys
  <2> QED BY <2>2, <2>3, <2>4 DEF Inv, Good, Apart
<1>3. CASE heap[b].type # "INUSE"
  <2>1. heap[b].type = "MALLOCED"
    BY <1>0, <1>3 DEF Owns, Block, Type
  <2>2. /\ Put(b) \in [Buf -> Block \cup {Nil}]
        /\ Put(b)[b] = Nil
        /\ \A c \in Buf \ {b} : Put(b)[c] = heap[c]
    BY <1>0, <1>3 DEF Put
  <2>3. \A t \in Thread : key[t] # b
    BY <1>0, <2>1, ConstantsOK DEF Inv, Good, KeyTyped
  <2>4. \A y \in Frame \ {x} : frame[y] # Nil => Owns(Put(b), y)
    BY <1>0, <1>1, <2>2 DEF Inv, Good, Owns
  <2>5. KeyTyped(Put(b)) /\ (AllKeys(heap) => AllKeys(Put(b)))
    BY <2>2, <2>3 DEF Inv, Good, Typed, KeyTyped, AllKeys
  <2> QED BY <2>2, <2>4, <2>5 DEF Inv, Good, Apart
<1> QED BY <1>2, <1>3

\* What rb_sp_gettlsbuf, called in heap h, leaves: buffer b for the thread,
\* and nothing lost for the calls in Y.
Gives(h, t, b, size, Y) ==
    /\ heap' \in [Buf -> Block \cup {Nil}] /\ key' \in [Thread -> Buf \cup {Nil}]
    /\ heap'[b] # Nil /\ heap'[b].capa >= size /\ heap'[b].type # "READY"
    /\ heap'[b].type = "INUSE" => key'[t] = b
    /\ \A s \in Thread : key'[s] # Nil =>
          heap'[key'[s]] # Nil /\ heap'[key'[s]].type # "MALLOCED"
    /\ \A r, s \in Thread : key'[s] # Nil /\ key'[r] = key'[s] => r = s
    /\ \A y \in Y : frame[y] # Nil =>
          /\ frame[y].buf # b
          /\ heap'[frame[y].buf] = h[frame[y].buf]
          /\ h[frame[y].buf].type = "INUSE" => key'[frame[y].thread] = key[frame[y].thread]

\* rb_sp_gettlsbuf gives a call a buffer of its own.
LEMMA GetGives ==
    ASSUME Typed, NEW h, NEW t \in Thread, NEW x \in Frame, NEW b \in Buf,
           NEW size \in Size,
           Good(h, Frame \ {x}), AllKeys(h), Get(h, t, b, size)
    PROVE  Gives(h, t, b, size, Frame \ {x})
<1> DEFINE Y == Frame \ {x}
<1>0. /\ h \in [Buf -> Block \cup {Nil}] /\ size \in Nat
      /\ key \in [Thread -> Buf \cup {Nil}]
      /\ \A y \in Frame : frame[y] # Nil => frame[y].buf \in Buf /\ frame[y].thread \in Thread
  BY ConstantsOK DEF Good, Typed, Use
<1>2. \A y \in Y : frame[y] # Nil => Owns(h, y)
  BY DEF Good
<1>1. CASE GetNested(h, t, b, size)
  <2>1. /\ heap' \in [Buf -> Block \cup {Nil}]
        /\ heap'[b] # Nil /\ heap'[b].type = "MALLOCED" /\ heap'[b].capa = size
        /\ \A d \in Buf \ {b} : heap'[d] = h[d]
    BY <1>0, <1>1, AllocFacts DEF GetNested, Type
  <2>2. key' = key /\ h[b] = Nil
    BY <1>1 DEF GetNested
  <2>3. \A s \in Thread : key[s] # Nil => key[s] # b
    BY <2>2 DEF AllKeys
  <2>4. \A y \in Y : frame[y] # Nil => frame[y].buf # b
    BY <1>2, <2>2 DEF Owns
  <2> QED BY <1>0, <2>1, <2>2, <2>3, <2>4 DEF Good, KeysApart, KeyTyped, AllKeys, Gives
<1>3. CASE GetCached(h, t, b, size)
  <2>0. /\ key' = key /\ b = key[t] /\ h[b] \in Block
        /\ h[b].type = "READY" /\ h[b].capa >= size /\ h[b].capa \in Size
    BY <1>0, <1>3 DEF GetCached, Fits, AllKeys, Block
  <2>1. /\ heap' \in [Buf -> Block \cup {Nil}]
        /\ heap'[b] # Nil /\ heap'[b].type = "INUSE" /\ heap'[b].capa = h[b].capa
        /\ \A d \in Buf \ {b} : heap'[d] = h[d]
    BY <1>0, <1>3, <2>0, AllocFacts DEF GetCached, Type
  <2>2. \A y \in Y : frame[y] # Nil => frame[y].buf # b
    BY <1>2, <2>0 DEF Owns
  <2>3. \A s \in Thread : key[s] # Nil => heap'[key[s]] # Nil /\ heap'[key[s]].type # "MALLOCED"
    BY <1>0, <2>1 DEF Good, KeyTyped, AllKeys
  <2> QED BY <1>0, <2>0, <2>1, <2>2, <2>3 DEF Good, KeysApart, Gives
<1>4. CASE GetGrown(h, t, b, size)
  <2> DEFINE f == Freed(h, t)
  <2>0. /\ f \in [Buf -> Block \cup {Nil}]
        /\ \A d \in Buf : f[d] = IF d = key[t] THEN Nil ELSE h[d]
        /\ f[b] = Nil /\ Small(h, t, size)
        /\ key' = [key EXCEPT ![t] = b]
    BY <1>0, <1>4 DEF GetGrown, Freed
  <2>1. /\ heap' \in [Buf -> Block \cup {Nil}]
        /\ heap'[b] # Nil /\ heap'[b].type = "INUSE" /\ heap'[b].capa = size
        /\ \A d \in Buf \ {b} : heap'[d] = f[d]
    BY <1>0, <1>4, <2>0, AllocFacts DEF GetGrown, Type
  <2>2. \A s \in Thread \ {t} : key[s] # Nil => key[s] # b /\ f[key[s]] = h[key[s]]
    BY <1>0, <2>0 DEF Good, KeysApart, AllKeys
  <2>3. \A y \in Y : frame[y] # Nil => frame[y].buf # key[t] /\ frame[y].buf # b
    BY <1>0, <1>2, <2>0, ConstantsOK DEF Owns, Small
  <2>4. key' \in [Thread -> Buf \cup {Nil}] /\ key'[t] = b
    BY <1>0, <2>0
  <2>5. \A s \in Thread \ {t} : key'[s] = key[s]
    BY <1>0, <2>0
  <2>6. \A s \in Thread : key'[s] # Nil => heap'[key'[s]] # Nil /\ heap'[key'[s]].type # "MALLOCED"
    BY <1>0, <2>1, <2>2, <2>4, <2>5 DEF Good, KeyTyped, AllKeys
  <2>7. \A r, s \in Thread : key'[s] # Nil /\ key'[r] = key'[s] => r = s
    BY <2>2, <2>4, <2>5 DEF Good, KeysApart
  <2>8. \A y \in Y : frame[y] # Nil =>
            /\ heap'[frame[y].buf] = h[frame[y].buf]
            /\ h[frame[y].buf].type = "INUSE" => key'[frame[y].thread] = key[frame[y].thread]
    BY <1>0, <1>2, <2>0, <2>1, <2>3, <2>5 DEF Owns
  <2> QED BY <1>0, <2>1, <2>3, <2>4, <2>6, <2>7, <2>8 DEF Gives
<1> QED BY <1>1, <1>3, <1>4 DEF Get

\* The call goes on with it.
LEMMA GetGood ==
    ASSUME Typed, NEW h, NEW t \in Thread, NEW x \in Frame, NEW b \in Buf,
           NEW size \in Size, NEW c \in Callers,
           Good(h, Frame \ {x}), Gives(h, t, b, size, Frame \ {x}),
           frame' = [frame EXCEPT ![x] = [thread |-> t, buf |-> b, size |-> size,
                                          caller |-> c]]
    PROVE  Inv' /\ AllKeys(heap)'
<1> DEFINE Y == Frame \ {x}
<1>1. /\ frame' \in [Frame -> Use \cup {Nil}]
      /\ frame'[x] # Nil /\ frame'[x].thread = t /\ frame'[x].buf = b /\ frame'[x].size = size
      /\ \A y \in Y : frame'[y] = frame[y]
  BY UseFacts DEF Typed
<1>2. Typed'
  BY <1>1 DEF Gives, Typed
<1>3. KeysApart' /\ KeyTyped(heap)' /\ AllKeys(heap)'
  BY DEF Gives, KeysApart, KeyTyped, AllKeys
<1>4. ASSUME NEW y \in Frame, frame'[y] # Nil
      PROVE  Owns(heap, y)'
  <2>1. CASE y = x
    BY <1>1, <2>1 DEF Gives, Owns
  <2>2. CASE y # x
    <3>1. frame'[y] = frame[y] /\ Owns(h, y) /\ heap'[frame[y].buf] = h[frame[y].buf]
      BY <1>1, <1>4, <2>2 DEF Gives, Good
    <3> QED BY <1>4, <2>2, <3>1 DEF Gives, Owns
  <2> QED BY <2>1, <2>2
<1>5. Apart(Frame)'
  BY <1>1 DEF Gives, Good, Apart
<1> QED BY <1>2, <1>3, <1>4, <1>5 DEF Inv, Good, Typed

\* The call raises and leaves it behind.
LEMMA AbandonGood ==
    ASSUME Typed, NEW h, NEW t \in Thread, NEW x \in Frame, NEW b \in Buf,
           NEW size \in Size,
           Good(h, Frame \ {x}), Gives(h, t, b, size, Frame \ {x}),
           frame' = [frame EXCEPT ![x] = Nil]
    PROVE  Inv' /\ AllKeys(heap)'
<1>1. frame'[x] = Nil /\ \A y \in Frame \ {x} : frame'[y] = frame[y]
  BY DEF Typed
<1>2. Typed'
  BY DEF Gives, Typed
<1>3. KeysApart' /\ KeyTyped(heap)' /\ AllKeys(heap)'
  BY DEF Gives, KeysApart, KeyTyped, AllKeys
<1>4. ASSUME NEW y \in Frame, frame'[y] # Nil
      PROVE  Owns(heap, y)'
  <2>1. frame'[y] = frame[y] /\ Owns(h, y) /\ heap'[frame[y].buf] = h[frame[y].buf] /\ y # x
    BY <1>1, <1>4 DEF Gives, Good
  <2> QED BY <1>4, <2>1 DEF Gives, Owns
<1>5. Apart(Frame)'
  BY <1>1 DEF Good, Apart
<1> QED BY <1>2, <1>3, <1>4, <1>5 DEF Inv, Good, Typed

\* A failed rb_sp_gettlsbuf takes no buffer away from a call.
LEMMA FailGood ==
    ASSUME Typed, NEW h, NEW X \in SUBSET Frame, NEW t \in Thread, NEW size \in Size,
           Good(h, X), AllKeys(h), GetFails(h, t, size)
    PROVE  Good(heap', X) /\ UNCHANGED key
<1>0. /\ h \in [Buf -> Block \cup {Nil}]
      /\ key \in [Thread -> Buf \cup {Nil}]
      /\ \A y \in Frame : frame[y] # Nil => frame[y].buf \in Buf
      /\ UNCHANGED key
  BY DEF Good, Typed, Use, GetFails
<1>1. CASE Busy(h, t)
  BY <1>0, <1>1 DEF GetFails
<1>2. CASE ~Busy(h, t)
  <2>1. heap' = Freed(h, t) /\ Small(h, t, size)
    BY <1>2 DEF GetFails
  <2>2. /\ heap' \in [Buf -> Block \cup {Nil}]
        /\ \A d \in Buf : heap'[d] = IF d = key[t] THEN Nil ELSE h[d]
    BY <1>0, <2>1 DEF Freed
  <2>3. \A y \in X : frame[y] # Nil => frame[y].buf # key[t]
    BY <1>0, <2>1, ConstantsOK DEF Good, Owns, Small
  <2>4. \A y \in X : frame[y] # Nil => Owns(h, y) /\ heap'[frame[y].buf] = h[frame[y].buf]
    BY <1>0, <2>2, <2>3 DEF Good
  <2>5. \A y \in X : frame[y] # Nil => Owns(heap', y)
    BY <2>4 DEF Owns
  <2>6. KeyTyped(heap')
    BY <1>0, <2>2 DEF Good, KeyTyped
  <2> QED BY <1>0, <2>2, <2>5, <2>6 DEF Good
<1> QED BY <1>1, <1>2

\* A call ends and the rest is in order.
LEMMA DropGood ==
    ASSUME Typed, NEW x \in Frame, Good(heap', Frame \ {x}), UNCHANGED key,
           frame' = [frame EXCEPT ![x] = Nil]
    PROVE  Inv'
<1>1. frame'[x] = Nil /\ \A y \in Frame \ {x} : frame'[y] = frame[y]
  BY DEF Typed
<1>2. Typed'
  BY DEF Typed, Good
<1>3. \A y \in Frame : frame'[y] # Nil => Owns(heap, y)'
  BY <1>1 DEF Good, Owns
<1>4. KeysApart' /\ KeyTyped(heap)' /\ Apart(Frame)'
  BY <1>1 DEF Good, KeysApart, KeyTyped, Apart
<1> QED BY <1>2, <1>3, <1>4 DEF Inv, Good, Typed

LEMMA InvStep ==
    ASSUME Inv, [Next]_vars
    PROVE  Inv' /\ (KeySafe => KeySafe')
<1> SUFFICES ASSUME Next PROVE Inv' /\ (failed' \/ KeyValid')
  <2>1. CASE UNCHANGED vars
    BY <2>1 DEF vars, Inv, Typed, Good, KeysApart, KeyTyped, Owns, Apart, KeyValid, KeySafe
  <2> QED BY <2>1 DEF KeySafe
<1>0. KeyValid /\ AllKeys(heap) /\ Typed /\ Good(heap, Frame)
      /\ \A x \in Frame : Good(heap, Frame \ {x})
  BY DEF Next, KeyValid, AllKeys, Inv, Good, Apart
<1>1. ASSUME NEW t \in Thread, NEW x \in Frame, NEW b \in Buf, NEW size \in Size,
             NEW c \in Callers, Begin(t, x, b, size, c)
      PROVE  Inv' /\ KeyValid'
  <2>1. Gives(heap, t, b, size, Frame \ {x})
    BY <1>0, <1>1, GetGives DEF Begin
  <2> QED BY <1>0, <1>1, <2>1, GetGood DEF Begin, KeyValid, AllKeys
<1>2. ASSUME NEW t \in Thread, NEW size \in Size, BeginFails(t, size)
      PROVE  Inv' /\ failed'
  <2>1. Good(heap', Frame) /\ UNCHANGED <<key, frame>> /\ failed'
    BY <1>0, <1>2, FailGood DEF BeginFails, GetFails
  <2>2. Typed'
    BY <1>0, <2>1 DEF Typed, Good
  <2> QED BY <2>1, <2>2 DEF Inv, Good, KeysApart, KeyTyped, Owns, Apart
<1>3. ASSUME NEW x \in Frame, End(x)
      PROVE  Inv' /\ KeyValid'
  <2>1. Good(heap', Frame \ {x}) /\ AllKeys(heap')
    BY <1>0, <1>3, PutGood DEF End
  <2> QED BY <1>0, <1>3, <2>1, DropGood DEF End, KeyValid, AllKeys
<1>4. ASSUME NEW x \in Frame, EndKept(x)
      PROVE  Inv' /\ KeyValid'
  <2>1. UNCHANGED <<heap, key>> /\ Good(heap', Frame \ {x})
    BY <1>0, <1>4 DEF EndKept
  <2> QED BY <1>0, <1>4, <2>1, DropGood DEF EndKept, KeyValid
<1>5. ASSUME NEW x \in Frame, NEW b \in Buf, NEW size \in Size, Resize(x, b, size)
      PROVE  Inv' /\ KeyValid'
  <2>1. frame[x] # Nil /\ frame[x].thread \in Thread
    BY <1>0, <1>5 DEF Resize, Typed, Use
  <2>2. Good(Put(frame[x].buf), Frame \ {x}) /\ AllKeys(Put(frame[x].buf))
    BY <1>0, <2>1, PutGood
  <2>3. Gives(Put(frame[x].buf), frame[x].thread, b, size, Frame \ {x})
    BY <1>0, <1>5, <2>1, <2>2, GetGives DEF Resize
  <2> QED BY <1>0, <1>5, <2>1, <2>2, <2>3, AbandonGood DEF Resize, KeyValid, AllKeys
<1>6. ASSUME NEW x \in Frame, NEW size \in Size, ResizeFails(x, size)
      PROVE  Inv' /\ failed'
  <2>1. frame[x] # Nil /\ frame[x].thread \in Thread /\ failed'
    BY <1>0, <1>6 DEF ResizeFails, GetFails, Typed, Use
  <2>2. Good(Put(frame[x].buf), Frame \ {x}) /\ AllKeys(Put(frame[x].buf))
    BY <1>0, <2>1, PutGood
  <2>3. Good(heap', Frame \ {x}) /\ UNCHANGED key
    BY <1>0, <1>6, <2>1, <2>2, FailGood DEF ResizeFails
  <2> QED BY <1>0, <1>6, <2>1, <2>3, DropGood DEF ResizeFails
<1>7. ASSUME NEW t \in Thread, ThreadExit(t)
      PROVE  Inv' /\ KeyValid'
  <2>0. /\ heap \in [Buf -> Block \cup {Nil}] /\ key \in [Thread -> Buf \cup {Nil}]
        /\ \A y \in Frame : frame[y] # Nil => frame[y].buf \in Buf /\ frame[y].thread \in Thread
    BY <1>0 DEF Typed, Use
  <2>1. /\ heap' \in [Buf -> Block \cup {Nil}]
        /\ \A d \in Buf : heap'[d] = IF d = key[t] THEN Nil ELSE heap[d]
        /\ key' = [key EXCEPT ![t] = Nil] /\ key[t] # Nil /\ UNCHANGED frame
    BY <1>7, <2>0 DEF ThreadExit, Freed
  <2>2. ASSUME NEW y \in Frame, frame[y] # Nil
        PROVE  frame[y].buf # key[t] /\ frame[y].thread # t
    <3>1. frame[y].thread # t /\ Owns(heap, y) /\ heap[frame[y].buf].type \in Type
      BY <1>0, <1>7, <2>0, <2>2 DEF ThreadExit, FramesOf, Good, Owns, Block
    <3> QED BY <1>0, <2>0, <2>1, <2>2, <3>1 DEF Owns, Good, KeysApart, KeyTyped, Type
  <2>3. \A y \in Frame : frame'[y] # Nil => Owns(heap, y)'
    <3> SUFFICES ASSUME NEW y \in Frame, frame[y] # Nil PROVE Owns(heap, y)'
      BY <2>1
    <3>1. /\ Owns(heap, y) /\ frame'[y] = frame[y]
          /\ heap'[frame[y].buf] = heap[frame[y].buf]
          /\ key'[frame[y].thread] = key[frame[y].thread]
      BY <1>0, <2>0, <2>1, <2>2 DEF Good
    <3> QED BY <3>1 DEF Owns
  <2>4. KeysApart' /\ KeyTyped(heap)' /\ KeyValid'
    BY <1>0, <2>0, <2>1 DEF Good, KeysApart, KeyTyped, KeyValid
  <2>5. Typed' /\ Apart(Frame)'
    BY <1>0, <2>0, <2>1 DEF Typed, Good, Apart
  <2> QED BY <2>1, <2>3, <2>4, <2>5 DEF Inv, Good
<1> QED BY <1>1, <1>2, <1>3, <1>4, <1>5, <1>6, <1>7 DEF Next, Step

LEMMA InvSafe == Inv => Exclusive /\ Assertions
<1> SUFFICES ASSUME Inv PROVE Exclusive /\ Assertions
  OBVIOUS
<1>1. Exclusive
  BY DEF Inv, Good, Owns, Apart, Exclusive
<1>2. Assertions
  BY DEF Inv, Good, Owns, KeyTyped, Assertions
<1> QED BY <1>1, <1>2

\* Calls never share a buffer and never write past the one they have, however
\* waits nest, fibers interleave and allocations fail.
THEOREM BuffersExclusive == Spec => []Exclusive
<1>1. Inv /\ [Next]_vars => Inv'
  BY InvStep
<1> QED BY <1>1, InvInit, InvSafe, PTL DEF Spec

\* No assertion of init.c ever fails.
THEOREM AssertionsHold == Spec => []Assertions
<1>1. Inv /\ [Next]_vars => Inv'
  BY InvStep
<1> QED BY <1>1, InvInit, InvSafe, PTL DEF Spec

\* Every variable keeps its type.
THEOREM TypeCorrect == Spec => []TypeOK
<1> DEFINE I == Inv /\ failed \in BOOLEAN /\ kept \subseteq Buf
<1>1. ASSUME I, [Next]_vars
      PROVE  I'
  <2>1. \A x \in Frame : frame[x] # Nil => frame[x].buf \in Buf
    BY <1>1 DEF Inv, Typed, Use
  <2>2. failed' \in BOOLEAN /\ kept' \subseteq Buf
    BY <1>1, <2>1 DEF Next, Step, Begin, BeginFails, End, EndKept, Resize, ResizeFails,
                      GetFails, ThreadExit, vars
  <2> QED BY <1>1, <2>2, InvStep
<1>2. Init => I
  BY InvInit DEF Init
<1>3. I => TypeOK
  BY DEF Inv, Typed, TypeOK
<1> QED BY <1>1, <1>2, <1>3, PTL DEF Spec

\* As long as no allocation fails, a thread's key points to allocated memory.
THEOREM KeysValid == Spec => []KeySafe
<1>1. Inv /\ KeySafe /\ [Next]_vars => (Inv /\ KeySafe)'
  BY InvStep
<1>2. Init => Inv /\ KeySafe
  BY InvInit DEF Init, KeySafe, KeyValid
<1> QED BY <1>1, <1>2, PTL DEF Spec

----------------------------------------------------------------------------
(* Leaks.                                                                  *)

\* What NoLeak says of a buffer.
Accounted(d) ==
    \/ \E x \in Frame : frame[x] # Nil /\ frame[x].buf = d
    \/ heap[d].type = "READY" /\ \E t \in Thread : key[t] = d
    \/ d \in kept

\* rb_sp_puttlsbuf leaves the buffer free, or ready behind its thread's key.
LEMMA PutFacts ==
    ASSUME Inv, NEW x \in Frame, frame[x] # Nil
    PROVE  LET b == frame[x].buf
               h == Put(b)
           IN  /\ h \in [Buf -> Block \cup {Nil}] /\ b \in Buf /\ frame[x].thread \in Thread
               /\ \A d \in Buf \ {b} : h[d] = heap[d]
               /\ h[b] # Nil => h[b].type = "READY" /\ key[frame[x].thread] = b
<1> DEFINE b == frame[x].buf
<1>1. /\ b \in Buf /\ frame[x].thread \in Thread /\ heap \in [Buf -> Block \cup {Nil}]
      /\ heap[b] \in Block /\ Owns(heap, x)
  BY DEF Inv, Typed, Use, Good, Owns
<1>2. CASE heap[b].type = "INUSE"
  <2>1. /\ heap[b].capa \in Size
        /\ Put(b) = Alloc(heap, b, "READY", heap[b].capa)
    BY <1>1, <1>2 DEF Put, Block
  <2> QED BY <1>1, <1>2, <2>1, AllocFacts DEF Type, Owns
<1>3. CASE heap[b].type # "INUSE"
  BY <1>1, <1>3 DEF Put
<1> QED BY <1>1, <1>2, <1>3

\* rb_sp_gettlsbuf changes or frees no buffer but the one it returns and an
\* idle one it replaces.
LEMMA GetKeeps ==
    ASSUME Typed, NEW h \in [Buf -> Block \cup {Nil}], NEW t \in Thread, NEW b \in Buf,
           NEW size \in Size, Get(h, t, b, size), NEW d \in Buf, d # b, heap'[d] # Nil
    PROVE  heap'[d] = h[d] /\ \A s \in Thread : key[s] = d => key'[s] = d
<1>1. CASE GetNested(h, t, b, size) \/ GetCached(h, t, b, size)
  BY <1>1 DEF GetNested, GetCached, Alloc
<1>2. CASE GetGrown(h, t, b, size)
  <2>1. heap'[d] = Freed(h, t)[d]
    BY <1>2 DEF GetGrown, Alloc, Freed
  <2>2. d # key[t] /\ heap'[d] = h[d]
    BY <2>1 DEF Freed
  <2> QED BY <1>2, <2>2 DEF GetGrown, Typed
<1> QED BY <1>1, <1>2 DEF Get

LEMMA NoLeakStep ==
    ASSUME Inv, NoLeak, [Next]_vars
    PROVE  NoLeak'
<1> SUFFICES ASSUME Next, NEW d \in Buf, heap'[d] # Nil PROVE Accounted(d)'
  BY DEF vars, NoLeak, Accounted
<1>0. /\ Typed /\ heap \in [Buf -> Block \cup {Nil}]
      /\ key \in [Thread -> Buf \cup {Nil}] /\ frame \in [Frame -> Use \cup {Nil}]
      /\ heap[d] # Nil => Accounted(d)
  BY DEF Inv, Typed, NoLeak, Accounted
<1>1. ASSUME NEW t \in Thread, NEW x \in Frame, NEW b \in Buf, NEW size \in Size,
             NEW c \in Callers, Begin(t, x, b, size, c)
      PROVE  Accounted(d)'
  <2>1. /\ frame'[x] # Nil /\ frame'[x].buf = b /\ kept' = kept
        /\ \A y \in Frame : frame[y] # Nil => frame'[y] = frame[y]
    BY <1>0, <1>1, UseFacts DEF Begin
  <2>2. d # b => heap'[d] = heap[d] /\ \A s \in Thread : key[s] = d => key'[s] = d
    BY <1>0, <1>1, GetKeeps DEF Begin
  <2> QED BY <1>0, <2>1, <2>2 DEF Accounted
<1>2. ASSUME NEW t \in Thread, NEW size \in Size, BeginFails(t, size)
      PROVE  Accounted(d)'
  <2>1. heap'[d] = heap[d] /\ UNCHANGED <<key, frame, kept>>
    BY <1>0, <1>2 DEF BeginFails, GetFails, Freed
  <2> QED BY <1>0, <2>1 DEF Accounted
<1>3. ASSUME NEW x \in Frame, End(x)
      PROVE  Accounted(d)'
  <2>1. /\ frame[x] # Nil /\ heap' = Put(frame[x].buf) /\ UNCHANGED <<key, kept>>
        /\ \A y \in Frame \ {x} : frame'[y] = frame[y]
    BY <1>0, <1>3 DEF End
  <2>2. CASE d = frame[x].buf
    BY <2>1, <2>2, PutFacts DEF Accounted
  <2>3. CASE d # frame[x].buf
    BY <1>0, <2>1, <2>3, PutFacts DEF Accounted
  <2> QED BY <2>2, <2>3
<1>4. ASSUME NEW x \in Frame, EndKept(x)
      PROVE  Accounted(d)'
  <2>1. /\ UNCHANGED <<heap, key>> /\ kept' = kept \cup {frame[x].buf}
        /\ \A y \in Frame \ {x} : frame'[y] = frame[y]
    BY <1>0, <1>4 DEF EndKept
  <2> QED BY <1>0, <2>1 DEF Accounted
<1>5. ASSUME NEW x \in Frame, NEW b \in Buf, NEW size \in Size, Resize(x, b, size)
      PROVE  Accounted(d)'
  <2> DEFINE h == Put(frame[x].buf)
  <2>1. /\ frame[x] # Nil /\ Get(h, frame[x].thread, b, size) /\ kept' = kept \cup {b}
        /\ \A y \in Frame \ {x} : frame'[y] = frame[y]
    BY <1>0, <1>5 DEF Resize
  <2>2. d # b => heap'[d] = h[d] /\ \A s \in Thread : key[s] = d => key'[s] = d
    BY <1>0, <2>1, PutFacts, GetKeeps
  <2>3. CASE d = b
    BY <2>1, <2>3 DEF Accounted
  <2>4. CASE d # b /\ d = frame[x].buf
    BY <2>1, <2>2, <2>4, PutFacts DEF Accounted
  <2>5. CASE d # b /\ d # frame[x].buf
    BY <1>0, <2>1, <2>2, <2>5, PutFacts DEF Accounted
  <2> QED BY <2>3, <2>4, <2>5
<1>6. ASSUME NEW x \in Frame, NEW size \in Size, ResizeFails(x, size)
      PROVE  Accounted(d)'
  <2> DEFINE h == Put(frame[x].buf)
  <2>1. /\ frame[x] # Nil /\ GetFails(h, frame[x].thread, size)
        /\ \A y \in Frame \ {x} : frame'[y] = frame[y]
    BY <1>0, <1>6 DEF ResizeFails
  <2>2. heap'[d] = h[d] /\ UNCHANGED <<key, kept>>
    BY <1>0, <2>1 DEF GetFails, Freed
  <2>3. CASE d = frame[x].buf
    BY <2>1, <2>2, <2>3, PutFacts DEF Accounted
  <2>4. CASE d # frame[x].buf
    BY <1>0, <2>1, <2>2, <2>4, PutFacts DEF Accounted
  <2> QED BY <2>3, <2>4
<1>7. ASSUME NEW t \in Thread, ThreadExit(t)
      PROVE  Accounted(d)'
  <2>1. /\ heap'[d] = heap[d] /\ d # key[t] /\ UNCHANGED frame
        /\ kept' = kept \ {key[t]} /\ \A s \in Thread : s # t => key'[s] = key[s]
    BY <1>0, <1>7 DEF ThreadExit, Freed
  <2> QED BY <1>0, <2>1 DEF Accounted
<1> QED BY <1>1, <1>2, <1>3, <1>4, <1>5, <1>6, <1>7 DEF Next, Step

\* Whatever nests, fails, grows or ends, the only buffers that are lost are the
\* ones sp_kevent and take leave behind.
THEOREM OnlyKeptLeaks == Spec => []NoLeak
<1>1. Inv /\ NoLeak /\ [Next]_vars => (Inv /\ NoLeak)'
  BY InvStep, NoLeakStep
<1>2. Init => Inv /\ NoLeak
  BY InvInit DEF Init, NoLeak
<1> QED BY <1>1, <1>2, PTL DEF Spec

\* Epoll#wait, nested and interrupted in any way, leaks no buffer at all: with
\* no other caller nothing is ever left behind.
THEOREM WaitLeaksNothing ==
    ASSUME Callers \subseteq {"epoll_wait"}
    PROVE  Spec => [](NoLeak /\ kept = {})
<1>1. Inv /\ kept = {} /\ [Next]_vars => (kept = {})'
  <2> SUFFICES ASSUME Inv, kept = {}, Next PROVE kept' = {}
    BY DEF vars
  <2>1. \A x \in Frame : frame[x] # Nil => frame[x].caller = "epoll_wait"
    BY DEF Inv, Typed, Use
  <2>2. ~ \E x \in Frame : \/ EndKept(x)
                           \/ \E b \in Buf, size \in Size : Resize(x, b, size)
    BY <2>1 DEF EndKept, Resize
  <2> QED BY <2>2 DEF Next, Step, Begin, BeginFails, End, ResizeFails, GetFails, ThreadExit
<1>2. Inv /\ [Next]_vars => Inv'
  BY InvStep
<1>3. Init => Inv /\ kept = {}
  BY InvInit DEF Init
<1> QED BY <1>1, <1>2, <1>3, OnlyKeptLeaks, PTL DEF Spec

----------------------------------------------------------------------------
(* The allocator.                                                          *)

\* The refinement mapping gives functions of the calls.
LEMMA Mapped ==
    /\ Holds = [x \in Frame |-> Holds[x]] /\ Holds' = [x \in Frame |-> Holds'[x]]
    /\ Room = [x \in Frame |-> Room[x]] /\ Room' = [x \in Frame |-> Room'[x]]
BY DEF Holds, Room

\* A call that goes on with its buffer untouched holds what it held.
LEMMA HoldsOn ==
    ASSUME NEW y \in Frame, frame'[y] = frame[y],
           frame[y] # Nil => heap'[frame[y].buf] = heap[frame[y].buf]
    PROVE  Holds'[y] = Holds[y] /\ Room'[y] = Room[y]
BY DEF Holds, Room

\* When call x ends and the others go on, x releases.
LEMMA Releases ==
    ASSUME Typed, NEW x \in Frame, frame[x] # Nil, frame' = [frame EXCEPT ![x] = Nil],
           \A y \in Frame \ {x} :
               frame[y] # Nil => heap'[frame[y].buf] = heap[frame[y].buf]
    PROVE  A!Release(x)
<1>1. frame'[x] = Nil /\ \A y \in Frame \ {x} : frame'[y] = frame[y]
  BY DEF Typed
<1>2. Holds[x] # Nil
  BY ConstantsOK DEF Holds, Typed, Use
<1>3. Holds'[x] = Nil /\ Room'[x] = 0
  BY <1>1 DEF Holds, Room
<1>4. \A y \in Frame \ {x} : Holds'[y] = Holds[y] /\ Room'[y] = Room[y]
  BY <1>1, HoldsOn
<1>5. Holds' = [Holds EXCEPT ![x] = Nil]
  BY <1>3, <1>4, Mapped
<1>6. Room' = [Room EXCEPT ![x] = 0]
  BY <1>3, <1>4, Mapped
<1> QED BY <1>2, <1>5, <1>6 DEF A!Release

\* When no call begins or ends and all buffers in use survive, nothing shows.
LEMMA Unseen ==
    ASSUME UNCHANGED frame,
           \A y \in Frame : frame[y] # Nil => heap'[frame[y].buf] = heap[frame[y].buf]
    PROVE  UNCHANGED A!vars
<1>1. \A y \in Frame : Holds'[y] = Holds[y] /\ Room'[y] = Room[y]
  BY HoldsOn
<1> QED BY <1>1, Mapped DEF A!vars

LEMMA AllocatorStep ==
    ASSUME Inv, Inv', [Next]_vars
    PROVE  [A!Next]_(A!vars)
<1> SUFFICES ASSUME Next PROVE [A!Next]_(A!vars)
  BY Unseen DEF vars
<1>0. /\ Typed /\ heap \in [Buf -> Block \cup {Nil}]
      /\ key \in [Thread -> Buf \cup {Nil}] /\ frame \in [Frame -> Use \cup {Nil}]
      /\ \A y \in Frame : frame[y] # Nil => frame[y].buf \in Buf
      /\ \A y \in Frame : frame'[y] # Nil => Owns(heap, y)'
      /\ Apart(Frame) /\ Apart(Frame)'
  BY DEF Inv, Typed, Use, Good
<1>1. ASSUME NEW t \in Thread, NEW x \in Frame, NEW b \in Buf, NEW size \in Size,
             NEW c \in Callers, Begin(t, x, b, size, c)
      PROVE  A!Acquire(x, b, size)
  <2>1. /\ frame[x] = Nil /\ Get(heap, t, b, size)
        /\ frame'[x] # Nil /\ frame'[x].buf = b /\ frame'[x].size = size
        /\ \A y \in Frame \ {x} : frame'[y] = frame[y]
    BY <1>0, <1>1, UseFacts DEF Begin
  <2>2. \A y \in Frame \ {x} : frame[y] # Nil => frame[y].buf # b
    BY <1>0, <2>1 DEF Apart
  <2>3. \A y \in Frame \ {x} : frame[y] # Nil => heap'[frame[y].buf] = heap[frame[y].buf]
    BY <1>0, <2>1, <2>2, GetKeeps DEF Owns
  <2>4. \A y \in Frame \ {x} : Holds'[y] = Holds[y] /\ Room'[y] = Room[y]
    BY <2>1, <2>3, HoldsOn
  <2>5. heap'[b] # Nil /\ heap'[b].capa >= size /\ heap'[b].capa \in Size
    <3>1. heap'[b] # Nil /\ heap'[b].capa >= size
      BY <1>0, <2>1 DEF Owns
    <3> QED BY <3>1 DEF Inv, Typed, Block
  <2>6. Holds'[x] = b /\ Room'[x] = heap'[b].capa
    BY <2>1, <2>5 DEF Holds, Room
  <2>7. Holds' = [Holds EXCEPT ![x] = b] /\ Room' = [Room EXCEPT ![x] = heap'[b].capa]
    BY <2>4, <2>6, Mapped
  <2>8. Holds[x] = Nil /\ \A y \in Frame : Holds[y] # b
    BY <2>1, <2>2, ConstantsOK DEF Holds
  <2> QED BY <2>5, <2>7, <2>8 DEF A!Acquire
<1>2. ASSUME NEW t \in Thread, NEW size \in Size, BeginFails(t, size)
      PROVE  UNCHANGED A!vars
  <2>1. UNCHANGED frame /\ \A d \in Buf : heap'[d] # Nil => heap'[d] = heap[d]
    BY <1>0, <1>2 DEF BeginFails, GetFails, Freed
  <2> QED BY <1>0, <2>1, Unseen DEF Owns
<1>3. ASSUME NEW x \in Frame, End(x)
      PROVE  A!Release(x)
  <2>1. frame[x] # Nil /\ heap' = Put(frame[x].buf) /\ frame' = [frame EXCEPT ![x] = Nil]
    BY <1>3 DEF End
  <2>2. \A y \in Frame \ {x} : frame[y] # Nil => heap'[frame[y].buf] = heap[frame[y].buf]
    BY <1>0, <2>1, PutFacts DEF Apart
  <2> QED BY <1>0, <2>1, <2>2, Releases
<1>4. ASSUME NEW x \in Frame, EndKept(x)
      PROVE  A!Release(x)
  BY <1>0, <1>4, Releases DEF EndKept
<1>5. ASSUME NEW x \in Frame, NEW b \in Buf, NEW size \in Size, Resize(x, b, size)
      PROVE  A!Release(x)
  <2>1. /\ frame[x] # Nil /\ frame[x].thread \in Thread
        /\ Get(Put(frame[x].buf), frame[x].thread, b, size)
        /\ frame' = [frame EXCEPT ![x] = Nil]
    BY <1>0, <1>5 DEF Resize, Use
  <2>2. Good(Put(frame[x].buf), Frame \ {x}) /\ AllKeys(Put(frame[x].buf))
    BY <2>1, PutGood DEF Next, KeyValid, AllKeys
  <2>3. Gives(Put(frame[x].buf), frame[x].thread, b, size, Frame \ {x})
    BY <1>0, <2>1, <2>2, GetGives
  <2>4. \A y \in Frame \ {x} : frame[y] # Nil => heap'[frame[y].buf] = heap[frame[y].buf]
    BY <1>0, <2>1, <2>3, PutFacts DEF Gives, Apart
  <2> QED BY <1>0, <2>1, <2>4, Releases
<1>6. ASSUME NEW x \in Frame, NEW size \in Size, ResizeFails(x, size)
      PROVE  A!Release(x)
  <2>1. /\ frame[x] # Nil /\ GetFails(Put(frame[x].buf), frame[x].thread, size)
        /\ frame' = [frame EXCEPT ![x] = Nil]
    BY <1>6 DEF ResizeFails
  <2>2. \A d \in Buf : heap'[d] # Nil => heap'[d] = Put(frame[x].buf)[d]
    BY <2>1, PutFacts DEF GetFails, Freed
  <2>3. \A y \in Frame \ {x} : frame[y] # Nil => heap'[frame[y].buf] = heap[frame[y].buf]
    <3> SUFFICES ASSUME NEW y \in Frame \ {x}, frame[y] # Nil
                 PROVE  heap'[frame[y].buf] = heap[frame[y].buf]
      OBVIOUS
    <3>1. frame[y].buf \in Buf \ {frame[x].buf} /\ frame'[y] = frame[y]
      BY <1>0, <2>1 DEF Apart
    <3>2. heap'[frame[y].buf] # Nil
      BY <1>0, <3>1 DEF Owns
    <3> QED BY <2>1, <2>2, <3>1, <3>2, PutFacts
  <2> QED BY <1>0, <2>1, <2>3, Releases
<1>7. ASSUME NEW t \in Thread, ThreadExit(t)
      PROVE  UNCHANGED A!vars
  <2>1. UNCHANGED frame /\ \A d \in Buf : heap'[d] # Nil => heap'[d] = heap[d]
    BY <1>0, <1>7 DEF ThreadExit, Freed
  <2> QED BY <1>0, <2>1, Unseen DEF Owns
<1> QED BY <1>1, <1>2, <1>3, <1>4, <1>5, <1>6, <1>7 DEF Next, Step, A!Next

\* The cache of buffers behind the pthread key, with its one-off buffers,
\* reallocations and failures, implements the allocator: a call's buffer is its
\* own and keeps its room until the call gives it back.
THEOREM ImplementsAllocatorSpec == Spec => ImplementsAllocator
<1>1. Init => A!Init
  BY DEF Init, A!Init, Holds, Room
<1>2. Inv /\ [Next]_vars => Inv'
  BY InvStep
<1>3. Inv /\ Inv' /\ [Next]_vars => [A!Next]_(A!vars)
  BY AllocatorStep
<1> QED BY <1>1, <1>2, <1>3, InvInit, PTL DEF Spec, ImplementsAllocator, A!Spec
=============================================================================
