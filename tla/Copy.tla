-------------------------------- MODULE Copy --------------------------------
(***************************************************************************)
(* SleepyPenguin.splice, .tee, .copy_file_range and .linux_sendfile        *)
(* (ext/sleepy_penguin/splice.c, cfr.c, sendfile.c and their wrappers      *)
(* under lib/): threads of a process copy from one source to one           *)
(* destination.                                                            *)
(*                                                                         *)
(* The bytes of the source are numbered; pos is its shared file position   *)
(* or, for a pipe, what has left it.  A call looks up the two descriptors  *)
(* with the GVL, copies without it, and looks at the result: it may be     *)
(* interrupted, refused, partly done or killed anywhere.  sendfile comes   *)
(* in three builds: Linux's, one on top of BSD's and one on top of read    *)
(* and write.                                                              *)
(***************************************************************************)
EXTENDS Integers, FiniteSetsExt, Flags

CONSTANTS
    Thread,     \* threads
    Size,       \* bytes of the source
    Space,      \* bytes the destination (a pipe or a socket) can hold
    Length,     \* len arguments
    Offset,     \* off_in and offset arguments
    Keywords,   \* flags and exception arguments of splice and tee
    Conf,       \* what the threads use
    MaxCalls,   \* bound: calls
    Nil         \* nil, "none"

\* What the threads use: the method, the build of sendfile, the source, whether
\* the destination is given as an Integer, and O_NONBLOCK of the socket that
\* sendfile writes to.
Confs ==
    [method : {"splice", "tee"}, build : {"linux"}, from : {"pipe"}, int : BOOLEAN,
     nb : {FALSE}] \cup
    [method : {"splice", "cfr"}, build : {"linux"}, from : {"file"}, int : BOOLEAN,
     nb : {FALSE}] \cup
    [method : {"sendfile"}, build : {"linux", "bsd", "emulated"}, from : {"file"},
     int : BOOLEAN, nb : BOOLEAN]

ASSUME ConstantsOK ==
    /\ Size \in Nat \ {0} /\ Space \in Nat \ {0}
    /\ Length \subseteq Nat /\ Offset \subseteq Nat
    /\ \A k \in Keywords : k.exception \in BOOLEAN
    /\ Conf \subseteq Confs
    /\ MaxCalls \in Nat
    /\ Nil \notin Nat

Tag == {"none", "bytes", "nil", "EOFError", ":EAGAIN", "Errno::EAGAIN",
        ":wait_writable", "raised", "killed"}

VARIABLES
    conf,     \* a member of Conf, which does not change
    pos,      \* source: the bytes that calls without an offset have consumed
    avail,    \* source: the bytes that are there; all of them, in a file
    ended,    \* source: no more will come
    fill,     \* destination: bytes in it
    open,     \* whether the IO object of the destination is open
    reused,   \* whether its number belongs to another file by now
    call,     \* per thread: the call in progress, or the last one
    calls,    \* number of calls so far
    wrote,    \* auxiliary: how often calls without an offset wrote each byte, to
              \* the destination or the file that got its number
    overlap,  \* auxiliary: whether two of them were ever in progress at once
    short     \* auxiliary: whether an emulated one read more than it wrote

vars == <<conf, pos, avail, ended, fill, open, reused, call, calls,
          wrote, overlap, short>>

CallType ==
    [phase : {"done", "look", "enter", "write", "in", "seek"},
     len : Length \cup {0}, off : Offset \cup {Nil},
     nonblock : BOOLEAN, named : BOOLEAN, exception : BOOLEAN, retried : BOOLEAN,
     from : Nat, got : Nat,  \* where a call reads, and what it has read
     sent : Nat,             \* what it has written
     raced : {"no", "early", "late"},  \* whether dst was closed since the last
                             \* look, before or after the kernel resolved its number
     stray : BOOLEAN,        \* whether the number led to another file
     tag : Tag, n : Nat]     \* the result

TypeOK ==
    /\ conf \in Conf
    /\ pos \in Nat /\ avail \in 0..Size /\ ended \in BOOLEAN
    /\ fill \in 0..Space
    /\ open \in BOOLEAN /\ reused \in BOOLEAN
    /\ call \in [Thread -> CallType]
    /\ calls \in 0..MaxCalls
    /\ wrote \in [1..Size -> Nat] /\ overlap \in BOOLEAN /\ short \in BOOLEAN

Fresh == [phase |-> "done", len |-> 0, off |-> Nil, nonblock |-> FALSE, named |-> FALSE,
          exception |-> TRUE, retried |-> FALSE, from |-> 0, got |-> 0, sent |-> 0,
          raced |-> "no", stray |-> FALSE, tag |-> "none", n |-> 0]

Init ==
    /\ conf \in Conf
    /\ pos = 0
    /\ avail = IF conf.from = "file" THEN Size ELSE 0
    /\ ended = (conf.from = "file")
    /\ fill = 0 /\ open = TRUE /\ reused = FALSE
    /\ call = [t \in Thread |-> Fresh] /\ calls = 0
    /\ wrote = [b \in 1..Size |-> 0] /\ overlap = FALSE /\ short = FALSE

source == <<pos, avail, ended>>
sink == <<fill, open, reused>>
history == <<wrote, overlap>>

----------------------------------------------------------------------------
(* Calls and results.                                                      *)

\* F_MOVE, F_NONBLOCK and F_MORE, as bits.
FlagMap == [move |-> {0}, nonblock |-> {1}, more |-> {2}]

Busy(t) == call[t].phase # "done"

\* A call with its arguments converted.  A flags argument that does not convert
\* raises and has no effect.
Call(t, len, off, flags, exception) ==
    LET fl == __map_splice_flags(FlagMap, flags)
    IN  /\ ~Busy(t) /\ calls < MaxCalls
        /\ off # Nil => conf.from = "file"
        /\ conf.method \notin {"splice", "tee"} => exception /\ flags = IntArg({})
        /\ ~fl.raises
        /\ call' = [call EXCEPT ![t] = [Fresh EXCEPT
              !.phase = "look", !.len = len, !.off = off, !.exception = exception,
              !.nonblock = (1 \in fl.bits \/ conf.nb),
              !.named = (1 \in Named(FlagMap, flags) \/ conf.nb)]]
        /\ calls' = calls + 1
        /\ overlap' = (overlap \/ (off = Nil /\
              \E u \in Thread \ {t} : Busy(u) /\ call[u].off = Nil))
        /\ UNCHANGED <<conf, source, sink, wrote, short>>

Done(c, tag, n) ==
    [Fresh EXCEPT !.len = c.len, !.off = c.off, !.named = c.named, !.sent = c.sent,
                  !.raced = c.raced, !.stray = c.stray, !.tag = tag, !.n = n]

\* __map_exc: what splice and tee do with the result of __splice and __tee.
__map_exc(c, tag) ==
    CASE c.exception /\ tag = ":EAGAIN" -> "Errno::EAGAIN"
      [] c.exception /\ tag = "nil" -> "EOFError"
      [] OTHER -> tag

\* rb_sp_fd_region gives sendfile an IOError if dst was closed meanwhile;
\* splice, tee and copy_file_range run in IO_RUN, which does not.
Closed(c) == conf.method = "sendfile" /\ c.raced # "no"

\* Mutant: the number of bytes asked for is returned.
ReturnedLen(c, n) ==
    IF Closed(c) THEN Done(c, "raised", 0)
    ELSE IF n = 0 /\ conf.method \in {"splice", "tee"} THEN Done(c, __map_exc(c, "nil"), 0)
    ELSE Done(c, "bytes", IF n = 0 THEN 0 ELSE c.len)

\* The system call returned n >= 0.
Returned(c, n) ==
    IF Closed(c) THEN Done(c, "raised", 0)
    ELSE IF n = 0 /\ conf.method \in {"splice", "tee"} THEN Done(c, __map_exc(c, "nil"), 0)
    ELSE Done(c, "bytes", n)

\* EAGAIN.
Again(c) ==
    IF Closed(c) THEN Done(c, "raised", 0)
    ELSE IF conf.method = "sendfile" THEN Done(c, ":wait_writable", 0)
    ELSE IF conf.method = "cfr" THEN Done(c, "raised", 0)
    ELSE Done(c, __map_exc(c, ":EAGAIN"), 0)

\* Mutant: the number is not looked up again.
InterruptedReenters(c) ==
    IF conf.method = "sendfile" THEN Done(c, "raised", 0) ELSE [c EXCEPT !.phase = "enter"]

\* EINTR: sendfile raises, the others start again.
Interrupted(c) ==
    IF conf.method = "sendfile" THEN Done(c, "raised", 0) ELSE [c EXCEPT !.phase = "look"]

\* Mutant: retried is not set.
NoMemoryForever(c) ==
    IF conf.method = "sendfile" /\ ~Closed(c) /\ ~c.retried
    THEN [c EXCEPT !.phase = "look"] ELSE Done(c, "raised", 0)

\* ENOMEM or ENOBUFS: sendfile collects garbage and tries once more.
NoMemory(c) ==
    IF conf.method = "sendfile" /\ ~Closed(c) /\ ~c.retried
    THEN [c EXCEPT !.phase = "look", !.retried = TRUE] ELSE Done(c, "raised", 0)

\* Where IO_RUN or rb_sp_fd_region ends, Thread#kill, Thread#raise or a trap
\* handler that raises may take the result away.
Back(c) == {c, Done(c, "killed", 0)}

----------------------------------------------------------------------------
(* The system calls.                                                       *)

Emulated == conf.build = "emulated"
Start(c) == IF c.off = Nil THEN pos ELSE c.off

\* check_fileno and rb_sp_fileno, which raises IOError for a closed IO and takes
\* an Integer as it is.
Look(t) ==
    /\ call[t].phase = "look"
    /\ call' = [call EXCEPT ![t] =
          IF open \/ conf.int THEN [@ EXCEPT !.phase = "enter", !.raced = "no"]
          ELSE Done(@, "raised", 0)]
    /\ UNCHANGED <<conf, source, sink, calls, history, short>>

\* Linux: a copy of no bytes is 0; splice and tee do not even look at the numbers.
Empty(c) == conf.build = "linux" /\ c.len = 0
Nothing(t) ==
    LET c == call[t] IN
    /\ c.phase = "enter" /\ Empty(c)
    /\ open \/ reused \/ conf.method \in {"splice", "tee"}
    /\ \E res \in Back(Returned(c, 0)) : call' = [call EXCEPT ![t] = res]
    /\ UNCHANGED <<conf, source, sink, calls, history, short>>

\* Mutant: read(2) is used also when an offset is given.
ReadMoves(t) ==
    LET c == call[t]
        r == Min({c.len, IF Start(c) < avail THEN avail - Start(c) ELSE 0, Size - pos})
    IN  /\ c.phase = "enter" /\ Emulated
        /\ pos' = pos + r
        /\ \E res \in IF r = 0 THEN Back(Returned(c, 0))
                       ELSE {[c EXCEPT !.phase = "write", !.from = Start(c), !.got = r]} :
              call' = [call EXCEPT ![t] = res]
        /\ UNCHANGED <<conf, avail, ended, sink, calls, history, short>>

\* pread_sendfile: read(2), or pread(2) when an offset is given.
Read(t) ==
    LET c == call[t]
        r == Min({c.len, IF Start(c) < avail THEN avail - Start(c) ELSE 0})
    IN  /\ c.phase = "enter" /\ Emulated
        /\ pos' = IF c.off = Nil THEN pos + r ELSE pos
        /\ \E res \in IF r = 0 THEN Back(Returned(c, 0))
                       ELSE {[c EXCEPT !.phase = "write", !.from = Start(c), !.got = r]} :
              call' = [call EXCEPT ![t] = res]
        /\ UNCHANGED <<conf, avail, ended, sink, calls, history, short>>

\* The kernel resolves the number of the destination, for the emulation in
\* write(2).  It may belong to another file by now.
Resolves(c) == c.phase = (IF Emulated THEN "write" ELSE "enter") /\ ~Empty(c)

Enter(t) ==
    LET c == call[t] IN
    /\ Resolves(c)
    /\ open \/ reused
    /\ call' = [call EXCEPT ![t] = [c EXCEPT
          !.phase = "in", !.stray = ~open,
          !.from = IF conf.build = "bsd" THEN Start(c) ELSE c.from]]
    /\ UNCHANGED <<conf, source, sink, calls, history, short>>

\* What an emulated call has read without an offset and does not write is lost.
Wasted(c) == Emulated /\ c.off = Nil /\ c.phase \in {"write", "in"}

\* EBADF.
BadNumber(t) ==
    LET c == call[t] IN
    /\ Resolves(c) \/ (c.phase = "enter" /\ Empty(c) /\ conf.method \notin {"splice", "tee"})
    /\ ~open /\ ~reused
    /\ \E res \in Back(Done(c, "raised", 0)) : call' = [call EXCEPT ![t] = res]
    /\ short' = (short \/ Wasted(c))
    /\ UNCHANGED <<conf, source, sink, calls, history>>

\* What is there to copy, how much of it is wanted and the room for it.  Linux
\* takes the file position when it copies, BSD's caller before; a length of 0 is
\* no limit to BSD.
From(c) == IF conf.build = "linux" THEN Start(c) ELSE c.from
There(c) ==
    IF Emulated THEN c.got ELSE IF From(c) < avail THEN avail - From(c) ELSE 0
Asked(c) == IF c.len = 0 THEN There(c) ELSE c.len
RoomFor(c) == IF conf.method = "cfr" \/ c.stray THEN Size ELSE Space - fill
Blocks(c) == (There(c) = 0 /\ ~ended) \/ (There(c) > 0 /\ RoomFor(c) = 0)

Transfer(t) ==
    LET c == call[t] IN
    /\ c.phase = "in" /\ There(c) > 0
    /\ \E k \in 1..Min({Asked(c), There(c), RoomFor(c)}) :
        /\ \E res \in IF conf.build = "bsd" THEN {[c EXCEPT !.phase = "seek", !.sent = k]}
                       ELSE Back(Returned([c EXCEPT !.sent = k], k)) :
              call' = [call EXCEPT ![t] = res]
        /\ pos' = IF conf.build = "linux" /\ conf.method # "tee" /\ c.off = Nil
                  THEN pos + k ELSE pos
        /\ wrote' = [b \in 1..Size |->
              IF b \in From(c) + 1..From(c) + k /\ c.off = Nil /\ conf.method # "tee"
              THEN wrote[b] + 1 ELSE wrote[b]]
        /\ fill' = IF conf.method = "cfr" \/ c.stray THEN fill ELSE fill + k
        /\ short' = (short \/ (Wasted(c) /\ k < c.got))
    /\ UNCHANGED <<conf, avail, ended, open, reused, calls, overlap>>

\* The end of the source.
Ends(t) ==
    LET c == call[t] IN
    /\ c.phase = "in" /\ There(c) = 0 /\ ended
    /\ \E res \in Back(Returned(c, 0)) : call' = [call EXCEPT ![t] = res]
    /\ UNCHANGED <<conf, source, sink, calls, history, short>>

\* An error r where call c of thread t comes back.
Error(t, r) ==
    /\ \E res \in Back(r) : call' = [call EXCEPT ![t] = res]
    /\ short' = (short \/ Wasted(call[t]))
    /\ UNCHANGED <<conf, source, sink, calls, history>>

\* EAGAIN; the file that a stray call writes to may be in any mode.
WouldBlock(t) ==
    LET c == call[t] IN
    /\ c.phase = "in"
    /\ (Blocks(c) /\ c.nonblock) \/ c.stray
    /\ Error(t, Again(c))

\* EINTR: a signal, or IO#close under a sendfile.
Signalled(t) == call[t].phase = "in" /\ Error(t, Interrupted(call[t]))

\* ENOMEM or ENOBUFS, another error, or a kill before the system call.
Fails(t) ==
    LET c == call[t] IN
    \/ c.phase = "in" /\ \E r \in {NoMemory(c), Done(c, "raised", 0)} : Error(t, r)
    \/ /\ c.phase = "enter"
       /\ call' = [call EXCEPT ![t] = Done(c, "killed", 0)]
       /\ UNCHANGED <<conf, source, sink, calls, history, short>>

\* BSD: the second lseek(2).
Seek(t) ==
    LET c == call[t] IN
    /\ c.phase = "seek"
    /\ pos' = IF c.off = Nil THEN pos + c.sent ELSE pos
    /\ \E res \in Back(Returned(c, c.sent)) : call' = [call EXCEPT ![t] = res]
    /\ UNCHANGED <<conf, avail, ended, sink, calls, history, short>>

----------------------------------------------------------------------------
(* The peers and other threads (external).                                 *)

Feed ==
    /\ ~ended
    /\ \/ avail < Size /\ avail' = avail + 1 /\ UNCHANGED ended
       \/ ended' = TRUE /\ UNCHANGED avail
    /\ UNCHANGED <<conf, pos, sink, call, calls, history, short>>

Drain ==
    /\ fill > 0 /\ fill' = fill - 1
    /\ UNCHANGED <<conf, source, open, reused, call, calls, history, short>>

\* IO#close of the destination; its number is free.
Close ==
    /\ open /\ open' = FALSE
    /\ call' = [t \in Thread |->
          CASE call[t].phase \in {"enter", "write"} -> [call[t] EXCEPT !.raced = "early"]
            [] call[t].phase \in {"in", "seek"} -> [call[t] EXCEPT !.raced = "late"]
            [] OTHER -> call[t]]
    /\ UNCHANGED <<conf, source, fill, reused, calls, history, short>>

Reuse ==
    /\ ~open /\ ~reused /\ reused' = TRUE
    /\ UNCHANGED <<conf, source, fill, open, call, calls, history, short>>

----------------------------------------------------------------------------
Progress(t) ==
    \/ Look(t) \/ Nothing(t) \/ Read(t) \/ Enter(t) \/ BadNumber(t)
    \/ Transfer(t) \/ Ends(t) \/ WouldBlock(t) \/ Seek(t)

Next ==
    \/ \E t \in Thread :
        \/ Progress(t) \/ Signalled(t) \/ Fails(t)
        \/ \E len \in Length, off \in Offset \cup {Nil}, k \in Keywords :
              Call(t, len, off, k.flags, k.exception)
    \/ Feed \/ Drain \/ Close \/ Reuse

Spec == Init /\ [][Next]_vars

\* A thread in a call goes on as far as it can.  The peers owe nothing, and
\* signals, errors and kills may come or not.
FairSpec == Spec /\ \A t \in Thread : WF_vars(Progress(t))

----------------------------------------------------------------------------
(* Properties.                                                             *)

\* A call tells the truth about what it did, through interrupts, partial copies
\* and the retry after ENOMEM: a number is what it wrote; nil, EOFError and 0
\* mean that the source has ended where the call reads, or that no bytes were
\* asked for; :EAGAIN and :wait_writable that nothing was written, and that the
\* caller asked not to wait or wrote to another file; an exception of the method,
\* unless dst was closed under the call, that nothing was written.  A call that
\* is killed tells nothing.
Reported ==
    \A t \in Thread : LET c == call[t] IN
        ~Busy(t) =>
            /\ c.tag = "bytes" => c.n = c.sent
            /\ c.tag \in {"nil", "EOFError"} \/ (c.tag = "bytes" /\ c.n = 0) =>
                  c.sent = 0 /\ (c.len = 0 \/ (ended /\ Start(c) >= avail))
            /\ c.tag \in {":EAGAIN", "Errno::EAGAIN", ":wait_writable"} =>
                  c.sent = 0 /\ (c.named \/ c.stray)
            /\ c.tag = "raised" /\ c.raced = "no" => c.sent = 0

\* Calls without an offset divide the source among them: when none is in
\* progress, each byte before the shared position was written exactly once, to
\* the destination or to the file that got its number, and no other, so calls
\* with an offset do not move it ("the file offsets of each file description will
\* not be moved").  BSD's lseek, sendfile, lseek keeps this only while such calls
\* do not overlap, the emulation only while write(2) takes all that was read; but
\* other than BSD's it never writes a byte twice.
Divided ==
    /\ (/\ \A t \in Thread : ~Busy(t)
        /\ conf.build = "bsd" => ~overlap
        /\ ~short)
       => \A b \in 1..Size :
             wrote[b] = IF b <= pos /\ conf.method # "tee" THEN 1 ELSE 0
    /\ conf.build # "bsd" => \A b \in 1..Size : wrote[b] <= 1

\* A call never copies to another file that got the number of a destination
\* closed before its last look: the loops look the numbers up each time.  Only
\* a close between that look and the system call that uses the number (for the
\* emulation, write(2) after read(2)) can lead it astray, or an Integer, which
\* nothing checks.
FreshNumber ==
    \A t \in Thread : call[t].stray => conf.int \/ call[t].raced = "early"

\* A call that asks not to wait ends, whatever its peers do and although ENOMEM
\* makes it try again, if signals interrupt it finitely often (each EINTR starts
\* splice, tee and copy_file_range again) and its number has not led it to
\* another file.
NonblockEnds ==
    \A t \in Thread :
        <>[][~Signalled(t)]_vars =>
            (Busy(t) /\ call[t].named ~> ~Busy(t) \/ call[t].stray)
=============================================================================
