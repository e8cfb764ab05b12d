------------------------------- MODULE Epoll -------------------------------
(***************************************************************************)
(* The high-level SleepyPenguin::Epoll class (lib/sleepy_penguin/epoll.rb) *)
(* used by several threads of one process, on top of the low-level         *)
(* Epoll::IO wrapper (ext/sleepy_penguin/epoll.c).                         *)
(*                                                                         *)
(* The kernel stores a raw VALUE (a pointer to a Ruby object) with every   *)
(* watched descriptor, so the class keeps @marks, an Array that keeps the  *)
(* watched objects reachable, and @events, a cache of the watched masks.   *)
(* Both are guarded by @mtx.  epoll_wait(2) runs without the mutex and     *)
(* without the GVL; it is covered by a snapshot of @marks.                 *)
(*                                                                         *)
(* External parts, modelled from the way this code uses them: the          *)
(* descriptor table, the interest list of epoll(7), Ruby's IO objects and  *)
(* garbage collector, and the application that owns the IO objects.        *)
(***************************************************************************)
EXTENDS Naturals, FiniteSets, Functions

CONSTANTS
    Thread,     \* threads of the process
    Obj,        \* Ruby IO objects (their VALUEs)
    Fd,         \* descriptor numbers
    File,       \* open file descriptions
    Mask,       \* event masks an application passes in
    OneShot,    \* the masks that have the ONESHOT bit
    MaxEvents,  \* the maxevents argument of #wait
    Calls,      \* the methods that the application calls
    UserOps,    \* what the application also does: "dup", "alias", "reopen"
    Nil         \* nil, NULL, "none"

Watch == [obj : Obj, ev : Mask, armed : BOOLEAN]
Event == [obj : Obj, ev : Mask]

ASSUME ConstantsOK ==
    /\ Nil \notin Thread \cup Obj \cup Fd \cup File \cup Mask \cup Watch
    /\ OneShot \subseteq Mask
    /\ MaxEvents \in Nat \ {0}
    /\ Calls \subseteq {"add", "del", "delete", "mod", "set", "wait", "close"}
    /\ UserOps \subseteq {"dup", "alias", "reopen"}

VARIABLES
    fdtab,   \* kernel: the file description behind each descriptor number
    kern,    \* kernel: the interest list, keyed by descriptor AND file
    fdOf,    \* Ruby: the descriptor number in each IO object, Nil if closed
    life,    \* Ruby: "unborn", "live" or "freed" (collected)
    held,    \* objects the application itself references
    open,    \* ~ @io.closed?
    marks,   \* @marks
    events,  \* @events
    mtx,     \* owner of @mtx
    op,      \* per thread: the add/del/delete/mod/set call in progress
    wait,    \* per thread: the #wait call in progress
    late     \* auxiliary: objects registered since the thread's snapshot

kernelVars == <<fdtab, kern>>
rubyVars   == <<fdOf, life, held>>
cacheVars  == <<marks, events>>
vars == <<kernelVars, rubyVars, open, cacheVars, mtx, op, wait, late>>

OpName == {"add", "del", "delete", "mod", "set"}

CallState == [pc   : {"idle", "lock", "retry", "commit"},
              name : OpName \cup {Nil},
              obj  : Obj \cup {Nil},
              fd   : Fd \cup {Nil},
              ev   : Mask \cup {Nil},
              cmd  : {"ADD", "MOD", "DEL", Nil}]
WaitState == [pc       : {"idle", "enter", "sleep", "copied", "block"},
              snapshot : SUBSET Obj,
              ready    : SUBSET Event]

IdleOp == [pc |-> "idle", name |-> Nil, obj |-> Nil, fd |-> Nil, ev |-> Nil,
           cmd |-> Nil]
IdleWait == [pc |-> "idle", snapshot |-> {}, ready |-> {}]

TypeOK ==
    /\ fdtab \in [Fd -> File \cup {Nil}]
    /\ kern \in [Fd \X File -> Watch \cup {Nil}]
    /\ fdOf \in [Obj -> Fd \cup {Nil}]
    /\ life \in [Obj -> {"unborn", "live", "freed"}]
    /\ held \subseteq Obj
    /\ open \in BOOLEAN
    /\ marks \in [Fd -> Obj \cup {Nil}]
    /\ events \in [Fd -> Mask \cup {Nil}]
    /\ mtx \in Thread \cup {Nil}
    /\ op \in [Thread -> CallState]
    /\ wait \in [Thread -> WaitState]
    /\ late \in [Thread -> SUBSET Obj]

\* Epoll.new: a fresh epoll descriptor, empty @events and @marks.
Init ==
    /\ fdtab = [fd \in Fd |-> Nil]
    /\ kern = [k \in Fd \X File |-> Nil]
    /\ fdOf = [o \in Obj |-> Nil]
    /\ life = [o \in Obj |-> "unborn"]
    /\ held = {}
    /\ open = TRUE
    /\ marks = [fd \in Fd |-> Nil]
    /\ events = [fd \in Fd |-> Nil]
    /\ mtx = Nil
    /\ op = [t \in Thread |-> IdleOp]
    /\ wait = [t \in Thread |-> IdleWait]
    /\ late = [t \in Thread |-> {}]

----------------------------------------------------------------------------
(* Read-only methods: what they return in the current state.               *)

\* Epoll#io_for, #events_for and #include? of a descriptor number.
IoFor(fd) == marks[fd]
EventsFor(fd) == events[fd]
Include(fd) == marks[fd] # Nil

----------------------------------------------------------------------------
(* The application and the kernel's descriptor table (external).           *)

\* A thread runs application code outside #wait and inside #wait's block.
InApplication(t) == op[t].pc = "idle" /\ wait[t].pc \in {"idle", "block"}

FreshFile(f) == f \notin Range(fdtab)

\* The interest list once descriptor fd no longer refers to its file: epoll
\* forgets a file only when the last descriptor that refers to it is gone.
KernWithout(fd) ==
    IF \E other \in Fd \ {fd} : fdtab[other] = fdtab[fd]
    THEN kern
    ELSE [k \in Fd \X File |-> IF k[2] = fdtab[fd] THEN Nil ELSE kern[k]]

\* close(2) of the descriptor in IO object o.
CloseFd(o) ==
    /\ fdtab' = [fdtab EXCEPT ![fdOf[o]] = Nil]
    /\ kern' = KernWithout(fdOf[o])
    /\ fdOf' = [fdOf EXCEPT ![o] = Nil]

\* A new IO object o on descriptor fd.
NewObject(o, fd) ==
    /\ life[o] = "unborn"
    /\ life' = [life EXCEPT ![o] = "live"]
    /\ fdOf' = [fdOf EXCEPT ![o] = fd]
    /\ held' = held \cup {o}
    /\ UNCHANGED <<kern, open, cacheVars, mtx, op, wait, late>>

AppOpen(o, fd, f) ==
    /\ fdtab[fd] = Nil
    /\ FreshFile(f)
    /\ fdtab' = [fdtab EXCEPT ![fd] = f]
    /\ NewObject(o, fd)

\* IO#dup: a second descriptor for the same open file description.
AppDup(o, src, fd) ==
    /\ "dup" \in UserOps
    /\ src \in held /\ fdOf[src] # Nil
    /\ fdtab[fdOf[src]] # Nil
    /\ fdtab[fd] = Nil
    /\ fdtab' = [fdtab EXCEPT ![fd] = fdtab[fdOf[src]]]
    /\ NewObject(o, fd)

\* A second object on the same descriptor number: IO.for_fd, or an object
\* that proxies for an IO with its to_io method.
AppAlias(o, fd) ==
    /\ "alias" \in UserOps
    /\ fdtab[fd] # Nil
    /\ UNCHANGED fdtab
    /\ NewObject(o, fd)

\* IO#reopen on another path: the same number, another open file.
AppReopen(o, f) ==
    /\ "reopen" \in UserOps
    /\ o \in held /\ fdOf[o] # Nil
    /\ FreshFile(f)
    /\ fdtab' = [fdtab EXCEPT ![fdOf[o]] = f]
    /\ kern' = KernWithout(fdOf[o])
    /\ UNCHANGED <<rubyVars, open, cacheVars, mtx, op, wait, late>>

AppClose(o) ==
    /\ o \in held /\ fdOf[o] # Nil
    /\ CloseFd(o)
    /\ UNCHANGED <<life, held, open, cacheVars, mtx, op, wait, late>>

\* The application drops its last reference to o.
AppDrop(o) ==
    /\ o \in held
    /\ held' = held \ {o}
    /\ UNCHANGED <<kernelVars, fdOf, life, open, cacheVars, mtx, op, wait, late>>

\* What Ruby's garbage collector can reach.  struct epoll_event arrays live
\* in malloc'ed memory (init.c) that it does not scan.
Roots ==
    held \cup {marks[fd] : fd \in Fd} \cup {op[t].obj : t \in Thread}
         \cup UNION {wait[t].snapshot : t \in Thread}

\* The collector frees an unreachable object; the finalizer of an IO closes
\* its descriptor, that of a proxy or of an IO without autoclose does not.
Collect(o) ==
    /\ life[o] = "live" /\ o \notin Roots
    /\ life' = [life EXCEPT ![o] = "freed"]
    /\ \/ fdOf[o] # Nil /\ CloseFd(o)
       \/ /\ fdOf[o] = Nil \/ "alias" \in UserOps
          /\ fdOf' = [fdOf EXCEPT ![o] = Nil]
          /\ UNCHANGED kernelVars
    /\ UNCHANGED <<held, open, cacheVars, mtx, op, wait, late>>

----------------------------------------------------------------------------
(* epoll_ctl(2) as Epoll::IO#epoll_ctl calls it.                           *)

\* The outcomes of epoll_ctl(cmd, o): both IO arguments are resolved to
\* descriptors first (IOError on a closed one), then the kernel looks up
\* the pair of descriptor number and file.
CtlResults(cmd, o) ==
    LET fd == fdOf[o]
        registered == kern[<<fd, fdtab[fd]>>] # Nil
    IN  CASE ~open \/ fd = Nil              -> {"IOError"}
          [] open /\ fd # Nil /\ fdtab[fd] = Nil -> {"EBADF"}
          [] OTHER -> IF cmd = "ADD"
                      THEN IF registered THEN {"EEXIST"} ELSE {"OK", "ENOMEM"}
                      ELSE IF registered THEN {"OK"} ELSE {"ENOENT"}

\* Mutant: pack_event_data stores the descriptor instead of the VALUE.
KernAfterPacksFd(cmd, o, ev) ==
    [kern EXCEPT ![<<fdOf[o], fdtab[fdOf[o]]>>] =
        IF cmd = "DEL" THEN Nil ELSE [obj |-> fdOf[o], ev |-> ev, armed |-> TRUE]]

\* The interest list after a successful epoll_ctl; the VALUE of the object
\* is stored in event.data.ptr (pack_event_data).
KernAfter(cmd, o, ev) ==
    [kern EXCEPT ![<<fdOf[o], fdtab[fdOf[o]]>>] =
        IF cmd = "DEL" THEN Nil ELSE [obj |-> o, ev |-> ev, armed |-> TRUE]]

----------------------------------------------------------------------------
(* Epoll#add, #del, #delete, #mod and #set.                                *)

\* The call: io.to_io.fileno runs before the mutex is taken and raises
\* IOError on a closed io, which leaves everything as it was.
Call(t, name, o, ev) ==
    /\ InApplication(t)
    /\ o \in held /\ fdOf[o] # Nil
    /\ op' = [op EXCEPT ![t] = [pc |-> "lock", name |-> name, obj |-> o,
                                fd |-> fdOf[o], ev |-> ev, cmd |-> Nil]]
    /\ UNCHANGED <<kernelVars, rubyVars, open, cacheVars, mtx, wait, late>>

\* Mutant: #set trusts a cached ONESHOT mask.
SkipsSyscallOneShot(c) ==
    \/ /\ c.name = "delete"
       /\ IF marks[c.fd] = Nil THEN TRUE ELSE fdOf[marks[c.fd]] = Nil
    \/ /\ c.name = "set"
       /\ marks[c.fd] = c.obj
       /\ events[c.fd] = c.ev

\* The early returns under the mutex: #delete of an io that is not marked
\* or whose mark is a closed IO, #set of the very object and mask that the
\* cache says are watched already.  The comparison in #set is with the
\* object itself (==) and never trusts a cached ONESHOT mask.
SkipsSyscall(c) ==
    \/ /\ c.name = "delete"
       /\ IF marks[c.fd] = Nil THEN TRUE ELSE fdOf[marks[c.fd]] = Nil
    \/ /\ c.name = "set"
       /\ marks[c.fd] = c.obj
       /\ events[c.fd] \notin OneShot
       /\ events[c.fd] = c.ev

\* The first epoll_ctl command of the call; #set picks it from the cache.
FirstCmd(c) ==
    CASE c.name = "add"               -> "ADD"
      [] c.name \in {"del", "delete"} -> "DEL"
      [] c.name = "mod"               -> "MOD"
      [] c.name = "set" -> IF marks[c.fd] = c.obj THEN "MOD" ELSE "ADD"

\* For a mutant: the call ends and leaves the mutex locked.
FinishLocked(t) ==
    /\ mtx' = t
    /\ op' = [op EXCEPT ![t] = IdleOp]

\* The call ends, by a return or by a raise; synchronize releases @mtx.
Finish(t) ==
    /\ mtx' = Nil
    /\ op' = [op EXCEPT ![t] = IdleOp]

\* Only #set rescues a wrong guess of its cache: mod -> add, add -> mod.
Rescued(c, cmd, res) ==
    /\ c.name = "set" /\ c.pc = "lock"
    /\ \/ cmd = "MOD" /\ res = "ENOENT"
       \/ cmd = "ADD" /\ res = "EEXIST"

\* epoll_ctl succeeded; the mutex stays taken until the cache follows.
\* (late records, for every thread in #wait, what its snapshot misses.)
Registered(t, cmd) ==
    LET o == op[t].obj IN
    /\ mtx' = t
    /\ kern' = KernAfter(cmd, o, op[t].ev)
    /\ op' = [op EXCEPT ![t] = [@ EXCEPT !.pc = "commit", !.cmd = cmd]]
    /\ late' = [w \in Thread |->
                   IF /\ cmd # "DEL" /\ o \notin wait[w].snapshot
                      /\ wait[w].pc \in {"enter", "sleep"}
                   THEN late[w] \cup {o} ELSE late[w]]

\* Mutant: an exception out of a rescue of #set leaves the mutex locked.
RefusedLocked(t, cmd, res) ==
    /\ IF Rescued(op[t], cmd, res)
       THEN /\ mtx' = t
            /\ op' = [op EXCEPT ![t] = [@ EXCEPT !.pc = "retry",
                           !.cmd = IF cmd = "MOD" THEN "ADD" ELSE "MOD"]]
       ELSE IF op[t].pc = "retry" THEN FinishLocked(t) ELSE Finish(t)
    /\ UNCHANGED <<kern, late>>

\* epoll_ctl failed: the exception leaves the method, which releases the
\* mutex (#delete turns ENOENT and EBADF into nil), unless #set rescues it.
Refused(t, cmd, res) ==
    /\ IF Rescued(op[t], cmd, res)
       THEN /\ mtx' = t
            /\ op' = [op EXCEPT ![t] = [@ EXCEPT !.pc = "retry",
                           !.cmd = IF cmd = "MOD" THEN "ADD" ELSE "MOD"]]
       ELSE Finish(t)
    /\ UNCHANGED <<kern, late>>

\* One epoll_ctl under @mtx.
Ctl(t, cmd) ==
    /\ \E res \in CtlResults(cmd, op[t].obj) :
        \/ res = "OK" /\ Registered(t, cmd)
        \/ res # "OK" /\ Refused(t, cmd, res)
    /\ UNCHANGED <<fdtab, rubyVars, open, cacheVars, wait>>

\* @mtx.synchronize: take the mutex and return without a system call.
Skip(t) ==
    /\ op[t].pc = "lock" /\ mtx = Nil
    /\ SkipsSyscall(op[t])
    /\ Finish(t)
    /\ UNCHANGED <<kernelVars, rubyVars, open, cacheVars, wait, late>>

\* @mtx.synchronize: take the mutex and run through the first epoll_ctl.
Lock(t) ==
    /\ op[t].pc = "lock" /\ mtx = Nil
    /\ ~SkipsSyscall(op[t])
    /\ Ctl(t, FirstCmd(op[t]))

\* The second epoll_ctl of #set, after the warning.
Retry(t) ==
    /\ op[t].pc = "retry"
    /\ Ctl(t, op[t].cmd)

\* Mutant: #mod keeps the object that is marked ("may be a different object
\* with same fd/file").
CommitModKeepsMark(t) ==
    LET c == op[t] IN
    /\ c.pc = "commit"
    /\ marks' = [marks EXCEPT ![c.fd] = IF c.cmd = "MOD" THEN @ ELSE
                                        IF c.cmd = "DEL" THEN Nil ELSE c.obj]
    /\ events' = [events EXCEPT ![c.fd] = IF c.cmd = "DEL" THEN Nil ELSE c.ev]
    /\ Finish(t)
    /\ UNCHANGED <<kernelVars, rubyVars, open, wait, late>>

\* Mutant: #del leaves the object in @marks.
CommitDelKeepsMark(t) ==
    LET c == op[t] IN
    /\ c.pc = "commit"
    /\ marks' = [marks EXCEPT ![c.fd] = c.obj]
    /\ events' = [events EXCEPT ![c.fd] = IF c.cmd = "DEL" THEN Nil ELSE c.ev]
    /\ Finish(t)
    /\ UNCHANGED <<kernelVars, rubyVars, open, wait, late>>

\* The cache follows the kernel, then the mutex is released.  (#set does not
\* assign @marks[fd] after a first MOD; the entry holds the object already.)
Commit(t) ==
    LET c == op[t] IN
    /\ c.pc = "commit"
    /\ marks' = [marks EXCEPT ![c.fd] = IF c.cmd = "DEL" THEN Nil ELSE c.obj]
    /\ events' = [events EXCEPT ![c.fd] = IF c.cmd = "DEL" THEN Nil ELSE c.ev]
    /\ Finish(t)
    /\ UNCHANGED <<kernelVars, rubyVars, open, wait, late>>

\* Epoll#close; @io.close does not touch @marks and @events.  The interest
\* list stays: a sleeping thread or a copy (Epoll#dup) may still refer to it.
Close(t) ==
    /\ InApplication(t) /\ mtx = Nil /\ open
    /\ open' = FALSE
    /\ UNCHANGED <<kernelVars, rubyVars, cacheVars, mtx, op, wait, late>>

----------------------------------------------------------------------------
(* Epoll#wait.                                                             *)

\* Mutant: no snapshot is kept while the thread waits.
SnapshotNone(t) ==
    /\ op[t].pc = "idle" /\ wait[t].pc = "idle" /\ mtx = Nil
    /\ wait' = [wait EXCEPT ![t] = [pc |-> "enter", ready |-> {}, snapshot |-> {}]]
    /\ late' = [late EXCEPT ![t] = {}]
    /\ UNCHANGED <<kernelVars, rubyVars, open, cacheVars, mtx, op>>

\* The snapshot of @marks, taken under @mtx.
Snapshot(t) ==
    /\ op[t].pc = "idle" /\ wait[t].pc = "idle" /\ mtx = Nil
    /\ wait' = [wait EXCEPT ![t] = [pc |-> "enter", ready |-> {},
                                    snapshot |-> Range(marks) \ {Nil}]]
    /\ late' = [late EXCEPT ![t] = {}]
    /\ UNCHANGED <<kernelVars, rubyVars, open, cacheVars, mtx, op>>

\* @io.epoll_wait resolves the epoll descriptor (IOError on a closed one)
\* and enters the system call.
Sleep(t) ==
    /\ wait[t].pc = "enter" /\ open
    /\ wait' = [wait EXCEPT ![t].pc = "sleep"]
    /\ UNCHANGED <<kernelVars, rubyVars, open, cacheVars, mtx, op, late>>

\* epoll_wait(2) copies up to maxevents ready events out, without the GVL
\* and without @mtx; a ONESHOT watch is disarmed.  Which armed watches are
\* ready is the environment's choice.  A thread that already sleeps in the
\* system call keeps the kernel object alive across Epoll#close.
Harvest(t) ==
    /\ wait[t].pc = "sleep"
    /\ \E K \in SUBSET {k \in Fd \X File : kern[k] # Nil} :
        /\ Cardinality(K) \in 1 .. MaxEvents
        /\ \A k \in K : kern[k].armed
        /\ wait' = [wait EXCEPT ![t] = [@ EXCEPT !.pc = "copied",
                      !.ready = {[obj |-> kern[k].obj, ev |-> kern[k].ev] : k \in K}]]
        /\ kern' = [k \in Fd \X File |->
                       IF k \in K THEN [kern[k] EXCEPT !.armed = kern[k].ev \notin OneShot]
                                  ELSE kern[k]]
    /\ UNCHANGED <<fdtab, rubyVars, open, cacheVars, mtx, op, late>>

\* epwait_result yields one event; the block receives the object.
Yield(t) ==
    /\ wait[t].pc \in {"copied", "block"} /\ op[t].pc = "idle"
    /\ \E e \in wait[t].ready :
        /\ wait' = [wait EXCEPT ![t] = [@ EXCEPT !.pc = "block",
                                            !.ready = wait[t].ready \ {e}]]
        /\ held' = held \cup {e.obj}
    /\ UNCHANGED <<kernelVars, fdOf, life, open, cacheVars, mtx, op, late>>

\* #wait ends: no event before the timeout, every event yielded, a break
\* or raise out of the block, Thread#kill, or IOError on a closed Epoll.
\* The ensure clause clears the snapshot.
LeaveWait(t) ==
    /\ wait[t].pc # "idle" /\ op[t].pc = "idle"
    /\ wait' = [wait EXCEPT ![t] = IdleWait]
    /\ late' = [late EXCEPT ![t] = {}]
    /\ UNCHANGED <<kernelVars, rubyVars, open, cacheVars, mtx, op>>

----------------------------------------------------------------------------
AppStep ==
    \/ \E o \in Obj, fd \in Fd, f \in File : AppOpen(o, fd, f)
    \/ \E o, src \in Obj, fd \in Fd : AppDup(o, src, fd)
    \/ \E o \in Obj, fd \in Fd : AppAlias(o, fd)
    \/ \E o \in Obj, f \in File : AppReopen(o, f)
    \/ \E o \in Obj : AppClose(o) \/ AppDrop(o) \/ Collect(o)

OpStep(t) == Skip(t) \/ Lock(t) \/ Retry(t) \/ Commit(t)

WaitStep(t) == Sleep(t) \/ Harvest(t) \/ Yield(t) \/ LeaveWait(t)

Next ==
    \/ AppStep
    \/ \E t \in Thread :
        \/ \E name \in Calls \cap {"add", "mod", "set"}, o \in Obj, ev \in Mask : Call(t, name, o, ev)
        \/ \E name \in Calls \cap {"del", "delete"}, o \in Obj : Call(t, name, o, Nil)
        \/ OpStep(t)
        \/ "close" \in Calls /\ Close(t)
        \/ "wait" \in Calls /\ Snapshot(t)
        \/ WaitStep(t)

Spec == Init /\ [][Next]_vars

\* Ruby's timer thread gives every runnable thread a time slice, and a Mutex
\* wakes its waiters in the order in which they came.
FairSpec == Spec /\ \A t \in Thread : SF_vars(OpStep(t))

----------------------------------------------------------------------------
(* Properties.                                                             *)

\* GC-safety of the interest list (epoll.c: "It provides fork and GC-safety
\* for Ruby objects stored within the IO object"): no VALUE stored in the
\* kernel is that of a collected object.  It rests on @marks covering every
\* registration that any interleaving of add/mod/set/del/close leaves.
WatchedLive ==
    \A k \in Fd \X File : kern[k] # Nil => life[kern[k].obj] = "live"

\* GC-safety of events in flight (epoll.rb, #wait: "we keep a snapshot of
\* @marks around in case another thread closes the io while it is being
\* transferred to userspace"): an event that epoll_wait has copied out and
\* the thread has not yielded yet names a live object, unless that object was
\* registered after the thread took its snapshot.
InFlightCovered ==
    \A t \in Thread : \A e \in wait[t].ready :
        life[e.obj] = "live" \/ e.obj \in late[t]

\* Coherence of the cache that #set, #delete, #io_for and #events_for trust:
\* while no call holds the mutex, the object marked for an open descriptor
\* is the one the kernel watches, with the cached mask.
CacheCoherent ==
    (mtx = Nil /\ open) =>
        \A fd \in Fd :
            /\ Include(fd)
            /\ fdOf[IoFor(fd)] = fd
            => LET w == kern[<<fd, fdtab[fd]>>]
               IN  w # Nil /\ w.obj = IoFor(fd) /\ w.ev = EventsFor(fd)

\* The steps in which #set returns 0: the end of the method after one or two
\* system calls, and the cached early return.
SetReturns(t) ==
    /\ op[t].name = "set"
    /\ Commit(t) \/ Skip(t)

\* Whatever path #set takes (cached early return, MOD, ADD, either rescue),
\* when it returns 0 the kernel watches that object for that mask, unless
\* another thread has closed it meanwhile; and an early return leaves no
\* fired, disarmed ONESHOT watch behind.
SetMeansWatched ==
    [][\A t \in Thread : SetReturns(t) =>
         \/ fdOf[op[t].obj] = Nil
         \/ LET w == kern[<<op[t].fd, fdtab[op[t].fd]>>]
            IN  /\ w # Nil /\ w.obj = op[t].obj /\ w.ev = op[t].ev
                /\ op[t].pc = "lock" => w.armed]_vars

\* Every call ends, whichever way: no return, raise or early return leaves @mtx
\* taken, and neither rescue of #set does, even if its second epoll_ctl fails
\* because another thread has closed or reopened the io meanwhile.
CallsEnd == \A t \in Thread : op[t].pc # "idle" ~> op[t].pc = "idle"
=============================================================================
