------------------------------ MODULE Inotify ------------------------------
(***************************************************************************)
(* SleepyPenguin::Inotify (ext/sleepy_penguin/inotify.c): threads of one   *)
(* process take events from one Inotify object.                            *)
(*                                                                         *)
(* read(2) returns as many whole events as fit into the buffer.  #take     *)
(* returns the first of them and keeps the rest in @inotify_tmp for the    *)
(* calls that follow.  read(2) and the wait for readability run without    *)
(* the GVL; the code between them is one step.                             *)
(*                                                                         *)
(* External parts, modelled from the way this code uses them: the event    *)
(* queue of inotify(7), Ruby's interrupts of a thread in a blocking region,*)
(* and the other users of the thread's buffer (module TlsBuffer).          *)
(***************************************************************************)
EXTENDS Naturals, Sequences, FiniteSets, Flags

CONSTANTS
    Thread,     \* threads that may call #take
    NewFlags,   \* flags arguments of Inotify.new
    Masks,      \* flags arguments of #add_watch
    MaxEvent,   \* bound: the events of all watches
    Length,     \* values of event_len(e)
    Room,       \* the buffer #take asks for (128 bytes)
    Limit,      \* the largest buffer that is resized (0x10000 bytes)
    Capacity,   \* buffers other calls of the thread may have left cached
    MaxKills,   \* bound: how often a thread is killed inside #take
    MayClose,   \* whether the object is closed
    Nil         \* none, NULL

Id == 1 .. MaxEvent
Event == [id : Id, len : Length]
Result == {"events", "EAGAIN", "EINVAL", "EINTR", Nil}

ASSUME ConstantsOK ==
    /\ MaxEvent \in Nat
    /\ IsFiniteSet(Thread)
    /\ \A flags \in NewFlags \cup Masks : flags.type \in ArgType
    /\ Length \subseteq Nat \ {0} /\ Length # {}
    /\ Room \in Nat \ {0} /\ Limit \in Nat
    /\ Capacity \subseteq Nat \ {0}
    /\ MaxKills \in Nat /\ MayClose \in BOOLEAN
    /\ Nil \notin Nat

VARIABLES
    queue,      \* kernel: the events not read yet
    nonblock,   \* kernel: O_NONBLOCK of the descriptor
    open,       \* whether the Inotify object is open
    users,      \* the threads that call #take
    watch,      \* kernel: the mask of the watch, empty if there is none
    tmp,        \* @inotify_tmp
    call,       \* per thread: the #take in progress
    cached,     \* per thread: capacity of the idle cached buffer, 0 if there
                \* is none, Nil once it is in use
    kills,      \* number of kills so far
    emitted,    \* auxiliary: number of events generated so far
    delivered,  \* auxiliary: the events #take has returned, in order
    lost,       \* auxiliary: events dropped by an interrupted #take
    readOf      \* auxiliary: the first event of the read that returned an event

kernelVars == <<queue, nonblock, emitted, users, watch>>
vars == <<kernelVars, kills, open, tmp, call, cached, delivered, lost, readOf>>

Idle == [pc |-> "idle", nb |-> FALSE, size |-> 0, res |-> Nil, batch |-> <<>>]

TypeOK ==
    /\ queue \in Seq(Event) /\ tmp \in Seq(Event) /\ delivered \in Seq(Event)
    /\ nonblock \in BOOLEAN /\ open \in BOOLEAN /\ users \subseteq Thread
    /\ watch \subseteq 0 .. 31
    /\ call \in [Thread -> [pc    : {"idle", "read", "asleep", "back", "wait"},
                            nb    : BOOLEAN,
                            size  : Nat,
                            res   : Result,
                            batch : Seq(Event)]]
    /\ cached \in [Thread -> Capacity \cup {0, Nil}]
    /\ emitted \in 0 .. MaxEvent /\ kills \in 0 .. MaxKills
    /\ lost \subseteq Event
    /\ readOf \in [Id -> Id \cup {Nil}]

\* Constants of the class, as bits.
Klass == [CLOEXEC |-> {19}, NONBLOCK |-> {11}, MOVED_FROM |-> {6}, MOVED_TO |-> {7},
          ONLYDIR |-> {24}]

\* Inotify.new, and an empty @inotify_tmp.
Init ==
    /\ queue = <<>> /\ tmp = <<>> /\ delivered = <<>>
    /\ \E flags \in NewFlags :
        LET fl == rb_sp_get_flags(Klass, flags, {19})
        IN  ~fl.raises /\ fl.bits \subseteq {11, 19} /\ nonblock = (11 \in fl.bits)
    /\ watch = {}
    /\ open = TRUE
    /\ users \in SUBSET Thread \ {{}}
    /\ call = [t \in Thread |-> Idle]
    /\ cached = [t \in Thread |-> 0]
    /\ emitted = 0 /\ kills = 0
    /\ lost = {}
    /\ readOf = [i \in Id |-> Nil]

----------------------------------------------------------------------------
(* The kernel and the rest of the process (external).                      *)

\* One more event in the queue.
Queued(len) ==
    /\ emitted < MaxEvent
    /\ emitted' = emitted + 1
    /\ queue' = Append(queue, [id |-> emitted + 1, len |-> len])

\* event_len of an event without a name.
NoName == CHOOSE l \in Length : \A m \in Length : l <= m

\* The file system generates an event for the watch.
Emit(len) ==
    /\ watch # {} /\ Queued(len)
    /\ UNCHANGED <<nonblock, users, watch, kills, open, tmp, call, cached, delivered, lost, readOf>>

\* The total event_len of the first n events of the queue.
Bytes[n \in 0 .. MaxEvent] == IF n = 0 THEN 0 ELSE Bytes[n - 1] + queue[n].len

\* How many events a read into size bytes returns.
Whole(size) ==
    CHOOSE n \in 0 .. Len(queue) :
        /\ Bytes[n] <= size
        /\ n < Len(queue) => Bytes[n + 1] > size

\* Another method of the thread (Epoll#wait, Kqueue#kevent) has used the
\* thread's buffer and given it back.
OtherUse(t, capa) ==
    /\ call[t].pc = "idle"
    /\ cached[t] # Nil /\ cached[t] < capa
    /\ cached' = [cached EXCEPT ![t] = capa]
    /\ UNCHANGED <<kernelVars, kills, open, tmp, call, delivered, lost, readOf>>

\* IO#close; the threads inside #take get an IOError as they come back.
Close ==
    /\ MayClose /\ open
    /\ open' = FALSE
    /\ UNCHANGED <<kernelVars, kills, tmp, call, cached, delivered, lost, readOf>>

\* Thread#kill, Thread#raise or the IOError of a closed object leaves #take
\* where the blocking region ends, with what was read dropped.
Interrupted(t) ==
    /\ call[t].pc # "idle"
    /\ IF open THEN kills < MaxKills /\ kills' = kills + 1 ELSE UNCHANGED kills
    /\ lost' = lost \cup {call[t].batch[i] : i \in 1 .. Len(call[t].batch)}
    /\ call' = [call EXCEPT ![t] = Idle]
    /\ UNCHANGED <<kernelVars, open, tmp, cached, delivered, readOf>>

----------------------------------------------------------------------------
(* Inotify#add_watch and #rm_watch, on one path.                           *)

\* inotify_add_watch(2) refuses an empty mask and replaces an earlier one.
add_watch(flags) ==
    LET mask == rb_sp_get_uflags(Klass, flags)
    IN  /\ open /\ ~mask.raises /\ mask.bits \cap {6, 7} # {}
        /\ watch' = mask.bits
        /\ UNCHANGED <<queue, nonblock, emitted, users, kills, open, tmp, call, cached, delivered, lost, readOf>>

\* inotify_rm_watch(2) queues IN_IGNORED.
rm_watch ==
    /\ open /\ watch # {}
    /\ watch' = {} /\ Queued(NoName)
    /\ UNCHANGED <<nonblock, users, kills, open, tmp, call, cached, delivered, lost, readOf>>

----------------------------------------------------------------------------
(* Inotify#take.                                                           *)

\* Mutant: rb_ary_pop for rb_ary_shift.
TakeBufferedPop(t) ==
    /\ call[t].pc = "idle" /\ tmp # <<>>
    /\ delivered' = Append(delivered, tmp[Len(tmp)])
    /\ tmp' = SubSeq(tmp, 1, Len(tmp) - 1)
    /\ UNCHANGED <<kernelVars, kills, open, call, cached, lost, readOf>>

\* Events of an earlier read come first, from a closed object too.
TakeBuffered(t) ==
    /\ call[t].pc = "idle" /\ tmp # <<>>
    /\ delivered' = Append(delivered, Head(tmp))
    /\ tmp' = Tail(tmp)
    /\ UNCHANGED <<kernelVars, kills, open, call, cached, lost, readOf>>

\* rb_sp_gettlsbuf(&args->size): an idle cached buffer that is large enough is
\* used in full.  #take never gives its buffer back, so from then on the
\* thread's cached buffer is in use.
BufferSize(t) ==
    IF cached[t] # Nil /\ cached[t] >= Room THEN cached[t] ELSE Room

\* The call up to read(2); nonblock sets O_NONBLOCK for good.
TakeStart(t, nb) ==
    /\ call[t].pc = "idle" /\ tmp = <<>> /\ open
    /\ nonblock' = (nonblock \/ nb)
    /\ call' = [call EXCEPT ![t] = [Idle EXCEPT !.pc = "read", !.nb = nb,
                                                !.size = BufferSize(t)]]
    /\ cached' = [cached EXCEPT ![t] = Nil]
    /\ UNCHANGED <<queue, emitted, users, watch, kills, open, tmp, delivered, lost, readOf>>

\* read(2) ends.
ReadReturns(t, res, batch) ==
    call' = [call EXCEPT ![t] = [@ EXCEPT !.pc = "back", !.res = res,
                                          !.batch = batch]]

\* With events in the queue, read(2) takes the whole ones that fit, at least
\* one, or fails (0 before Linux 2.6.21 is handled like EINVAL).
ReadSome(t) ==
    LET n == Whole(call[t].size) IN
    /\ queue # <<>>
    /\ queue' = SubSeq(queue, n + 1, Len(queue))
    /\ ReadReturns(t, IF n = 0 THEN "EINVAL" ELSE "events", SubSeq(queue, 1, n))
    /\ readOf' = [i \in Id |-> IF \E j \in 1 .. n : queue[j].id = i
                               THEN queue[1].id ELSE readOf[i]]

\* Without events it fails at once or goes to sleep; O_NONBLOCK set later
\* does not wake a sleeper.
ReadNone(t) ==
    /\ queue = <<>> /\ call[t].pc = "read"
    /\ IF nonblock THEN ReadReturns(t, "EAGAIN", <<>>)
                   ELSE call' = [call EXCEPT ![t].pc = "asleep"]
    /\ UNCHANGED <<queue, readOf>>

Read(t) ==
    /\ call[t].pc \in {"read", "asleep"}
    /\ ReadSome(t) \/ ReadNone(t)
    /\ UNCHANGED <<nonblock, emitted, users, watch, kills, open, tmp, cached, delivered, lost>>

\* A signal interrupts the sleeper.
Signal(t) ==
    /\ call[t].pc = "asleep"
    /\ ReadReturns(t, "EINTR", <<>>)
    /\ UNCHANGED <<kernelVars, kills, open, tmp, cached, delivered, lost, readOf>>

\* Mutant: the rest of the batch is pushed as one element.
ReturnEventsNested(t) ==
    /\ call[t].res = "events"
    /\ delivered' = Append(delivered, Head(call[t].batch))
    /\ tmp' = Append(tmp, Tail(call[t].batch))
    /\ call' = [call EXCEPT ![t] = Idle]

\* Mutant: the first event is returned and pushed.
ReturnEventsTwice(t) ==
    /\ call[t].res = "events"
    /\ delivered' = Append(delivered, Head(call[t].batch))
    /\ tmp' = tmp \o call[t].batch
    /\ call' = [call EXCEPT ![t] = Idle]

\* Mutant: the last event of the batch is the result.
ReturnEventsLast(t) ==
    LET n == Len(call[t].batch) IN
    /\ call[t].res = "events"
    /\ delivered' = Append(delivered, call[t].batch[n])
    /\ tmp' = tmp \o SubSeq(call[t].batch, 1, n - 1)
    /\ call' = [call EXCEPT ![t] = Idle]

\* Mutant: the rest of the batch is dropped.
ReturnEventsFirst(t) ==
    /\ call[t].res = "events"
    /\ delivered' = Append(delivered, Head(call[t].batch))
    /\ UNCHANGED tmp
    /\ call' = [call EXCEPT ![t] = Idle]

\* The first event is the result, the others are kept for later calls.
ReturnEvents(t) ==
    /\ call[t].res = "events"
    /\ delivered' = Append(delivered, Head(call[t].batch))
    /\ tmp' = tmp \o Tail(call[t].batch)
    /\ call' = [call EXCEPT ![t] = Idle]

\* resize_internal_buffer.  It only returns, to read again, when another
\* thread has emptied the queue; with a positive FIONREAD it gets a buffer of
\* that size and still ends in its final rb_raise.
ResizeBuffer(t) ==
    /\ open /\ call[t].res = "EINVAL"
    /\ call' = [call EXCEPT ![t] =
                   IF call[t].size <= Limit /\ queue = <<>>
                   THEN [@ EXCEPT !.pc = "read", !.res = Nil]
                   ELSE Idle]
    /\ UNCHANGED <<tmp, delivered>>

\* EAGAIN: nil for a nonblocking call, else rb_sp_wait; EINTR: read again.
ReadAgain(t) ==
    /\ open /\ call[t].res \in {"EAGAIN", "EINTR"}
    /\ call' = [call EXCEPT ![t] =
                   CASE call[t].res = "EAGAIN" /\ call[t].nb  -> Idle
                     [] call[t].res = "EAGAIN" /\ ~call[t].nb ->
                            [@ EXCEPT !.pc = "wait", !.res = Nil]
                     [] call[t].res = "EINTR" -> [@ EXCEPT !.pc = "read", !.res = Nil]]
    /\ UNCHANGED <<tmp, delivered>>

\* The rest of the loop body of do_take, with the GVL.  On a closed object
\* every path but the first raises (Interrupted).
Back(t) ==
    /\ call[t].pc = "back"
    /\ ReturnEvents(t) \/ ResizeBuffer(t) \/ ReadAgain(t)
    /\ UNCHANGED <<kernelVars, kills, open, cached, lost, readOf>>

\* rb_io_wait_readable returns.
WakeUp(t) ==
    /\ call[t].pc = "wait" /\ open /\ queue # <<>>
    /\ call' = [call EXCEPT ![t].pc = "read"]
    /\ UNCHANGED <<kernelVars, kills, open, tmp, cached, delivered, lost, readOf>>

----------------------------------------------------------------------------
Take(t) ==
    t \in users /\ (TakeBuffered(t) \/ \E nb \in BOOLEAN : TakeStart(t, nb))

Next ==
    \/ \E len \in Length : Emit(len)
    \/ \E flags \in Masks : add_watch(flags)
    \/ rm_watch
    \/ Close
    \/ \E t \in Thread :
        \/ \E capa \in Capacity : OtherUse(t, capa)
        \/ Take(t) \/ Read(t) \/ Back(t) \/ WakeUp(t)
        \/ Signal(t) \/ Interrupted(t)

Spec == Init /\ [][Next]_vars

\* Inotify#each calls #take forever; the kernel and Ruby's scheduler let
\* every thread that can run do so.
FairSpec ==
    /\ Spec
    /\ \A t \in Thread :
        WF_vars(Take(t)) /\ WF_vars(Read(t)) /\ WF_vars(Back(t)) /\ WF_vars(WakeUp(t))

----------------------------------------------------------------------------
(* Properties.                                                             *)

\* The ids of the events in a sequence.
Ids(s) == {s[i].id : i \in 1 .. Len(s)}
Distinct(s) == \A i, j \in 1 .. Len(s) : s[i].id = s[j].id => i = j

\* Every event is somewhere, once: whatever the interleaving of several
\* threads' reads with their pushes to and shifts from @inotify_tmp, an event
\* is waiting in the kernel, carried by one #take, buffered, returned by one
\* #take, or dropped by an interrupt, and never two of these.
ExactlyOnce ==
    LET places == {Ids(queue), Ids(tmp), Ids(delivered), {e.id : e \in lost}}
                    \cup {Ids(call[t].batch) : t \in Thread}
        line == delivered \o tmp \o queue
    IN  /\ Distinct(line)
        /\ UNION places = 1 .. emitted
        /\ \A e \in lost : e.id \notin Ids(line)
        /\ \A t \in Thread :
            /\ Distinct(call[t].batch)
            /\ Ids(call[t].batch) \cap (Ids(line) \cup {e.id : e \in lost}) = {}
            /\ \A u \in Thread \ {t} : Ids(call[t].batch) \cap Ids(call[u].batch) = {}

\* Events that one read(2) returned are returned by #take in the kernel's
\* order (a MOVED_FROM before its MOVED_TO), also when other threads push and
\* shift in between.
ReadOrder ==
    LET line == delivered \o tmp IN
    \A i, j \in 1 .. Len(line) :
        i < j /\ readOf[line[i].id] = readOf[line[j].id] => line[i].id < line[j].id

\* The events nobody has returned or dropped: in the kernel, in the batch of a
\* #take, or in @inotify_tmp.
Outstanding == Ids(queue) \cup Ids(tmp) \cup UNION {Ids(call[t].batch) : t \in Thread}

\* The ids of the events that #take has returned, and whether one thread uses
\* the object.
Taken == [i \in 1 .. Len(delivered) |-> delivered[i].id]
Single == Cardinality(users) = 1

\* Inotify#take is a queue of events: with its batches, resizes, waits and
\* interrupts hidden, it hands out each event once and, to a consumer that is
\* alone, in the kernel's order.
Q == INSTANCE EventQueue WITH
        pending <- Outstanding,
        taken   <- Taken,
        last    <- emitted,
        alone   <- Single
ImplementsQueue == Q!Spec

\* Inotify#each ("Yields each Inotify::Event received in a blocking fashion"):
\* every event is returned by some #take in the end.
EachYields == \A i \in Id : i <= emitted ~> i \in Ids(delivered)

\* The same for what fits the buffer, and with interrupts: an event in the
\* queue with no event before it that is longer than the buffer is returned by
\* some #take, dropped by an interrupted one, or the object is closed.
Reachable(i) ==
    \E k \in 1 .. Len(queue) :
        queue[k].id = i /\ \A j \in 1 .. k : queue[j].len <= Room
ShortYielded ==
    \A i \in Id :
        Reachable(i) ~> i \in Ids(delivered) \cup {e.id : e \in lost} \/ ~open
=============================================================================
