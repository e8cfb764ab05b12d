----------------------------- MODULE TlsBuffer -----------------------------
(***************************************************************************)
(* The per-thread buffer of the extension (ext/sleepy_penguin/init.c:      *)
(* rb_sp_gettlsbuf and rb_sp_puttlsbuf) and the calls that use it:         *)
(* Epoll::IO#epoll_wait, Kqueue::IO#kevent and Inotify#take.               *)
(*                                                                         *)
(* A thread has one cached buffer behind a pthread key.  Calls nest: the   *)
(* block of a #wait may wait again, and with fibers the calls of a thread  *)
(* end in any order.  A call that finds the cached buffer in use gets a    *)
(* malloc'ed one that is freed at its end.  The functions run with the GVL *)
(* held, so each of them is one step.                                      *)
(***************************************************************************)
EXTENDS Naturals, FiniteSets

CONSTANTS
    Thread,    \* native threads
    Buf,       \* addresses of struct rb_sp_tlsbuf
    Frame,     \* activations of the calling methods
    Size,      \* sizes asked for
    Callers,   \* the methods in use: "epoll_wait", "kevent", "take"
    Nil        \* NULL, "none"

Type == {"INUSE", "READY", "MALLOCED"}
Block == [type : Type, capa : Size]
Use == [thread : Thread, buf : Buf, size : Size, caller : Callers]

ASSUME ConstantsOK ==
    /\ Nil \notin Thread \cup Buf \cup Frame \cup Block \cup Use
    /\ Size \subseteq Nat
    /\ Callers \subseteq {"epoll_wait", "kevent", "take"}

VARIABLES
    heap,    \* the allocated buffers; Nil where nothing is allocated
    key,     \* pthread_getspecific(rb_sp_key) of each thread
    frame,   \* the calls in progress and the buffer each one uses
    failed,  \* auxiliary: whether an allocation has failed
    kept     \* auxiliary: buffers whose call ended without giving them back

vars == <<heap, key, frame, failed, kept>>

TypeOK ==
    /\ heap \in [Buf -> Block \cup {Nil}]
    /\ key \in [Thread -> Buf \cup {Nil}]
    /\ frame \in [Frame -> Use \cup {Nil}]
    /\ failed \in BOOLEAN /\ kept \subseteq Buf

Init ==
    /\ heap = [b \in Buf |-> Nil]
    /\ key = [t \in Thread |-> Nil]
    /\ frame = [x \in Frame |-> Nil]
    /\ failed = FALSE /\ kept = {}

FramesOf(t) == {x \in Frame : frame[x] # Nil /\ frame[x].thread = t}

----------------------------------------------------------------------------
(* rb_sp_gettlsbuf by thread t, which finds the heap h.                    *)

\* The cached buffer is in use.
Busy(h, t) == key[t] # Nil /\ h[key[t]].type # "READY"

\* It is there, idle and large enough.
Fits(h, t, size) ==
    key[t] # Nil /\ h[key[t]].type = "READY" /\ h[key[t]].capa >= size

\* There is none, or it is idle and too small.
Small(h, t, size) ==
    \/ key[t] = Nil
    \/ key[t] # Nil /\ h[key[t]].type = "READY" /\ h[key[t]].capa < size

\* The buffer behind the key of t is freed; free(NULL) is a no-op.
Freed(h, t) == [b \in Buf |-> IF b = key[t] THEN Nil ELSE h[b]]

\* Mutant: alloc_tlsbuf does not record the capacity.
AllocNoCapa(h, b, type, size) == [h EXCEPT ![b] = [type |-> type, capa |-> 0]]

\* alloc_tlsbuf(size) returns b, an address that is free in h.
Alloc(h, b, type, size) == [h EXCEPT ![b] = [type |-> type, capa |-> size]]

\* Mutant: a nested call caches its one-off buffer.
GetNestedCached(h, t, b, size) ==
    /\ Busy(h, t) /\ h[b] = Nil
    /\ heap' = Alloc(h, b, "MALLOCED", size)
    /\ key' = [key EXCEPT ![t] = b]

GetNested(h, t, b, size) ==
    /\ Busy(h, t) /\ h[b] = Nil
    /\ heap' = Alloc(h, b, "MALLOCED", size)
    /\ UNCHANGED key

\* Mutant: the cached buffer is not marked as in use.
GetCachedUnmarked(h, t, b, size) ==
    /\ Fits(h, t, size) /\ b = key[t]
    /\ UNCHANGED key
    /\ heap' = h

GetCached(h, t, b, size) ==
    /\ Fits(h, t, size) /\ b = key[t]
    /\ heap' = Alloc(h, b, "INUSE", h[b].capa)
    /\ UNCHANGED key

\* Mutant: pthread_setspecific is left out for a buffer that replaces another.
GetGrownUnset(h, t, b, size) ==
    /\ Small(h, t, size) /\ Freed(h, t)[b] = Nil
    /\ heap' = Alloc(Freed(h, t), b, "INUSE", size)
    /\ key' = [key EXCEPT ![t] = IF @ = Nil THEN b ELSE @]

GetGrown(h, t, b, size) ==
    /\ Small(h, t, size) /\ Freed(h, t)[b] = Nil
    /\ heap' = Alloc(Freed(h, t), b, "INUSE", size)
    /\ key' = [key EXCEPT ![t] = b]

\* The outcomes in which thread t gets buffer b.
Get(h, t, b, size) ==
    \/ GetNested(h, t, b, size)
    \/ GetCached(h, t, b, size)
    \/ GetGrown(h, t, b, size)

\* alloc_tlsbuf raises NoMemoryError (size >= UINT32_MAX or posix_memalign),
\* or pthread_setspecific fails; the old buffer is already freed by then and
\* the key is left as it is.
GetFails(h, t, size) ==
    /\ Busy(h, t) \/ Small(h, t, size)
    /\ heap' = IF Busy(h, t) THEN h ELSE Freed(h, t)
    /\ failed' = TRUE
    /\ UNCHANGED <<key, kept>>

----------------------------------------------------------------------------
(* rb_sp_puttlsbuf: the heap after buffer b is given back.                 *)

\* Mutant: a one-off buffer is not freed.
PutKeeps(b) ==
    IF heap[b].type = "INUSE" THEN Alloc(heap, b, "READY", heap[b].capa) ELSE heap

Put(b) ==
    IF heap[b].type = "INUSE"
    THEN Alloc(heap, b, "READY", heap[b].capa)
    ELSE [heap EXCEPT ![b] = Nil]

----------------------------------------------------------------------------
(* The callers.                                                            *)

\* epwait, sp_kevent and do_take ask for a buffer.
Begin(t, x, b, size, caller) ==
    /\ frame[x] = Nil
    /\ Get(heap, t, b, size)
    /\ frame' = [frame EXCEPT ![x] = [thread |-> t, buf |-> b, size |-> size,
                                      caller |-> caller]]
    /\ UNCHANGED <<failed, kept>>

BeginFails(t, size) == GetFails(heap, t, size) /\ UNCHANGED frame

\* rb_ensure returns the buffer however the call ends: a normal return, an
\* exception or a break in the block, Thread#kill.
End(x) ==
    /\ frame[x] # Nil /\ frame[x].caller \in {"epoll_wait", "kevent"}
    /\ heap' = Put(frame[x].buf)
    /\ frame' = [frame EXCEPT ![x] = Nil]
    /\ UNCHANGED <<key, failed, kept>>

\* Two ways out keep the buffer.  sp_kevent looks up the descriptor of a
\* closed kqueue (IOError) after kpt_get and outside of rb_ensure.  take
\* evaluates args.buf, still NULL, as the argument of its ensure function,
\* which returns at once.
EndKept(x) ==
    /\ frame[x] # Nil /\ frame[x].caller \in {"kevent", "take"}
    /\ frame' = [frame EXCEPT ![x] = Nil]
    /\ kept' = kept \cup {frame[x].buf}
    /\ UNCHANGED <<heap, key, failed>>

\* resize_internal_buffer: put, then get with the size FIONREAD gave, which
\* another reader may have made smaller.  With that size positive the
\* function goes on to its final rb_raise, and take keeps the new buffer.
Resize(x, b, size) ==
    /\ frame[x] # Nil /\ frame[x].caller = "take"
    /\ Get(Put(frame[x].buf), frame[x].thread, b, size)
    /\ frame' = [frame EXCEPT ![x] = Nil]
    /\ kept' = kept \cup {b}
    /\ UNCHANGED failed

ResizeFails(x, size) ==
    /\ frame[x] # Nil /\ frame[x].caller = "take"
    /\ GetFails(Put(frame[x].buf), frame[x].thread, size)
    /\ frame' = [frame EXCEPT ![x] = Nil]

\* A thread ends: its frames are gone, the key's destructor is free.
ThreadExit(t) ==
    /\ FramesOf(t) = {} /\ key[t] # Nil
    /\ heap' = Freed(heap, t)
    /\ key' = [key EXCEPT ![t] = Nil]
    /\ kept' = kept \ {key[t]}
    /\ UNCHANGED <<frame, failed>>

\* No thread's key points to freed memory.
KeyValid == \A t \in Thread : key[t] # Nil => heap[key[t]] # Nil

Step ==
    \/ \E t \in Thread, x \in Frame, b \in Buf, size \in Size, c \in Callers :
          Begin(t, x, b, size, c)
    \/ \E t \in Thread, size \in Size : BeginFails(t, size)
    \/ \E x \in Frame : End(x) \/ EndKept(x)
    \/ \E x \in Frame, b \in Buf, size \in Size : Resize(x, b, size)
    \/ \E x \in Frame, size \in Size : ResizeFails(x, size)
    \/ \E t \in Thread : ThreadExit(t)

\* What the code does once a key dangles is undefined: the model stops there.
Next == KeyValid /\ Step

Spec == Init /\ [][Next]_vars

----------------------------------------------------------------------------
(* Properties.                                                             *)

\* Exclusive use: every call in progress works in an allocated buffer that is
\* large enough for what it asked for and that no other call works in, also
\* when waits nest, fibers interleave and other calls return or lose theirs
\* ("it is possible to nest #wait calls within the same thread").
Exclusive ==
    \A x \in Frame : frame[x] # Nil =>
        /\ heap[frame[x].buf] # Nil
        /\ heap[frame[x].buf].capa >= frame[x].size
        /\ \A y \in Frame \ {x} : frame[y] # Nil => frame[y].buf # frame[x].buf

\* The assertions of rb_sp_gettlsbuf and rb_sp_puttlsbuf: a key never points
\* to a malloc'ed one-off buffer; a buffer given back is not READY, and if it
\* is INUSE it is the cached one of the thread that gives it back.
Assertions ==
    /\ \A t \in Thread : key[t] # Nil /\ heap[key[t]] # Nil =>
          heap[key[t]].type # "MALLOCED"
    /\ \A x \in Frame : frame[x] # Nil /\ heap[frame[x].buf] # Nil =>
          /\ heap[frame[x].buf].type # "READY"
          /\ heap[frame[x].buf].type = "INUSE" => key[frame[x].thread] = frame[x].buf

\* The key of a thread never points to freed memory, to be read by the next
\* rb_sp_gettlsbuf or freed again by the key's destructor, unless an allocation
\* has failed.
KeySafe == failed \/ KeyValid

\* Nothing leaks but what kevent and take keep: any other allocated buffer is
\* used by a call, or cached by a thread and ready for reuse.  Nesting, failed
\* allocations, resizes and the end of a thread lose none.
NoLeak ==
    \A b \in Buf : heap[b] # Nil =>
        \/ \E x \in Frame : frame[x] # Nil /\ frame[x].buf = b
        \/ heap[b].type = "READY" /\ \E t \in Thread : key[t] = b
        \/ b \in kept

\* With the cached buffers, keys and reallocations hidden, rb_sp_gettlsbuf and
\* rb_sp_puttlsbuf are an allocator: whoever asks gets a buffer that nobody
\* else works in, and it stays as large until the call gives it back, whatever
\* nested calls, other threads and failed allocations do meanwhile.
Holds == [x \in Frame |-> IF frame[x] = Nil THEN Nil ELSE frame[x].buf]
Room ==
    [x \in Frame |->
        IF frame[x] = Nil \/ heap[frame[x].buf] = Nil
        THEN 0 ELSE heap[frame[x].buf].capa]
A == INSTANCE Allocator WITH
        Client <- Frame, Buffer <- Buf, None <- Nil, holds <- Holds, room <- Room
ImplementsAllocator == A!Spec
=============================================================================
