----------------------------- MODULE EpollFork -----------------------------
(***************************************************************************)
(* SleepyPenguin::Epoll across fork(2) (lib/sleepy_penguin/epoll.rb:       *)
(* initialize, __ep_check, __ep_reinit, initialize_copy, close).           *)
(*                                                                         *)
(* A family of Epoll objects is one object and its copies (#dup, #clone).  *)
(* They share @mtx, @events, @marks and @copies; each has its own @io and  *)
(* @pid.  A child process inherits the memory and the descriptors of its   *)
(* parent, and through a descriptor it would change the parent's interest  *)
(* list.  Every method but #close and #closed? therefore starts with       *)
(* __ep_check, which replaces the inherited epoll descriptors.             *)
(*                                                                         *)
(* All methods run under @mtx, so each one is one step.  Module Epoll      *)
(* models their interleaving within a process; here an interest list is    *)
(* the set of its descriptors.                                             *)
(***************************************************************************)
EXTENDS Naturals, FiniteSets

CONSTANTS
    Proc,    \* processes
    Root,    \* the process that calls Epoll.new
    Obj,     \* Epoll objects of the family
    First,   \* the object that Epoll.new returns
    Fd,      \* descriptors to watch
    MayFail, \* whether Epoll::IO.new may fail (EMFILE, ENFILE, ENOMEM)
    Nil      \* nil, "none"

\* An Epoll::IO, named after the process and object it was created in and for:
\* by Epoll::IO.new, by initialize_copy, or by the last lines of __ep_check.
Io == [proc : Proc, obj : Obj, by : {"new", "copy", "check"}]

\* An epoll instance of the kernel, named after the Epoll::IO.new behind it.
Inst == [proc : Proc, obj : Obj]

ASSUME ConstantsOK ==
    /\ Root \in Proc /\ First \in Obj /\ IsFiniteSet(Obj)
    /\ MayFail \in BOOLEAN
    /\ Nil \notin Proc \cup Obj \cup Io \cup Inst

VARIABLES
    alive,    \* the running processes
    mem,      \* per process: its Ruby objects and open descriptors
    watched,  \* kernel: the descriptors in each interest list
    touched   \* auxiliary: the processes that have changed an interest list

vars == <<alive, mem, watched, touched>>

Memory == [io     : [Obj -> Io \cup {Nil}],    \* @io; Nil if there is no object
           pid    : [Obj -> Proc \cup {Nil}],  \* @pid
           file   : [Io -> Inst \cup {Nil}],   \* the open Epoll::IO objects
           copies : [Io -> Obj \cup {Nil}],    \* @copies
           marks  : SUBSET Fd,                 \* @marks and @events
           closed : SUBSET Obj,                \* auxiliary: #close was called
           reset  : SUBSET Proc]               \* auxiliary: processes of this line
                                               \* of descent that re-initialized

TypeOK ==
    /\ alive \subseteq Proc
    /\ mem \in [Proc -> Memory]
    /\ watched \in [Inst -> SUBSET Fd]
    /\ touched \in [Inst -> SUBSET Proc]

NewIo(p, o) == [proc |-> p, obj |-> o, by |-> "new"]
CopyIo(p, o) == [proc |-> p, obj |-> o, by |-> "copy"]
CheckIo(p, o) == [proc |-> p, obj |-> o, by |-> "check"]

\* Epoll.new in process Root.
Init ==
    /\ alive = {Root}
    /\ LET io == NewIo(Root, First)
           inst == [proc |-> Root, obj |-> First]
       IN  mem = [p \in Proc |->
              [io     |-> [o \in Obj |-> IF o = First THEN io ELSE Nil],
               pid    |-> [o \in Obj |-> IF o = First THEN Root ELSE Nil],
               file   |-> [i \in Io |-> IF i = io THEN inst ELSE Nil],
               copies |-> [i \in Io |-> IF i = io THEN First ELSE Nil],
               marks  |-> {},
               closed |-> {},
               reset  |-> {}]]
    /\ watched = [i \in Inst |-> {}]
    /\ touched = [i \in Inst |-> {}]

----------------------------------------------------------------------------
(* __ep_check of object o in process p, applied to its memory m.           *)

Exists(m, o) == m.io[o] # Nil
IsOpen(m, o) == IF m.io[o] = Nil THEN FALSE ELSE m.file[m.io[o]] # Nil

Stale(m, p, o) == m.pid[o] # p /\ IsOpen(m, o)

\* Mutant: @marks and @events are not cleared.
ReinitKeepsMarks(m, p, o) ==
    LET objects == {m.copies[i] : i \in Io} \ {Nil}
    IN  [m EXCEPT
          !.io[o] = NewIo(p, o),
          !.pid[o] = p,
          !.file = [i \in Io |->
              IF i = NewIo(p, o) \/ \E x \in objects : i = CheckIo(p, x)
              THEN [proc |-> p, obj |-> o]
              ELSE IF m.copies[i] # Nil THEN Nil
              ELSE m.file[i]],
          !.copies = [i \in Io |->
              IF \E x \in objects : i = CheckIo(p, x) THEN i.obj ELSE Nil],
          !.reset = @ \cup {p}]

\* Mutant: @copies is neither closed nor cleared.
ReinitKeepsCopies(m, p, o) ==
    LET objects == {m.copies[i] : i \in Io} \ {Nil}
        dup(i) == \E x \in objects : i = CheckIo(p, x)
    IN  [m EXCEPT
          !.io[o] = NewIo(p, o),
          !.pid[o] = p,
          !.file = [i \in Io |->
              IF i = NewIo(p, o) \/ dup(i) THEN [proc |-> p, obj |-> o] ELSE m.file[i]],
          !.copies = [i \in Io |-> IF dup(i) THEN i.obj ELSE m.copies[i]],
          !.marks = {},
          !.reset = @ \cup {p}]

\* Every Epoll::IO in @copies is closed, a new one is created, and @copies
\* gets a duplicate of it for every object it held.
Reinit(m, p, o) ==
    LET inst == [proc |-> p, obj |-> o]
        objects == {m.copies[i] : i \in Io} \ {Nil}
    IN  [m EXCEPT
          !.io[o] = NewIo(p, o),
          !.pid[o] = p,
          !.file = [i \in Io |->
              IF i = NewIo(p, o) \/ \E x \in objects : i = CheckIo(p, x) THEN inst
              ELSE IF m.copies[i] # Nil THEN Nil
              ELSE m.file[i]],
          !.copies = [i \in Io |->
              IF \E x \in objects : i = CheckIo(p, x) THEN i.obj ELSE Nil],
          !.marks = {},
          !.reset = @ \cup {p}]

\* Mutant: no check for a fork.
CheckNot(m, p, o) == m

Check(m, p, o) == IF Stale(m, p, o) THEN Reinit(m, p, o) ELSE m

----------------------------------------------------------------------------
(* The methods.                                                            *)

\* #to_io, #wait, #io_for, #events_for, #include?: __ep_check and no change.
Look(p, o) ==
    /\ p \in alive /\ Exists(mem[p], o)
    /\ mem' = [mem EXCEPT ![p] = Check(mem[p], p, o)]
    /\ UNCHANGED <<alive, watched, touched>>

\* A method of a stale object whose Epoll::IO.new fails, after a garbage
\* collection and a second try: @copies is closed and empty by then, @marks and
\* @events are cleared, @io and @pid are as before.
CheckFails(p, o) ==
    LET m == mem[p]
    IN  /\ MayFail
        /\ p \in alive /\ Stale(m, p, o)
        /\ mem' = [mem EXCEPT ![p] = [m EXCEPT
              !.file = [i \in Io |-> IF m.copies[i] # Nil THEN Nil ELSE m.file[i]],
              !.copies = [i \in Io |-> Nil],
              !.marks = {}]]
        /\ UNCHANGED <<alive, watched, touched>>

\* #add, #mod and #set (on) or #del and #delete (off) that succeed.  On a
\* closed @io they raise IOError after __ep_check, which is Look.
Change(p, o, fd, on) ==
    LET m == Check(mem[p], p, o)
        inst == m.file[m.io[o]]
    IN  /\ p \in alive /\ IsOpen(m, o)
        /\ mem' = [mem EXCEPT ![p] =
              [m EXCEPT !.marks = IF on THEN m.marks \cup {fd} ELSE m.marks \ {fd}]]
        /\ watched' = [watched EXCEPT ![inst] = IF on THEN @ \cup {fd} ELSE @ \ {fd}]
        /\ touched' = [touched EXCEPT ![inst] = @ \cup {p}]
        /\ UNCHANGED alive

\* Mutant: @copies maps the new Epoll::IO to itself.
DupMapsIo(p, o, n) ==
    LET born == [mem[p] EXCEPT !.io[n] = mem[p].io[o], !.pid[n] = mem[p].pid[o]]
        m == Check(born, p, n)
    IN  /\ p \in alive /\ Exists(mem[p], o) /\ ~Exists(mem[p], n)
        /\ IsOpen(m, n)
        /\ mem' = [mem EXCEPT ![p] = [m EXCEPT !.io[n] = CopyIo(p, n),
                             !.file[CopyIo(p, n)] = m.file[m.io[n]],
                             !.copies[CopyIo(p, n)] = CopyIo(p, n)]]
        /\ UNCHANGED <<alive, watched, touched>>

\* Mutant: the copy keeps the @io of the original.
DupShares(p, o, n) ==
    LET born == [mem[p] EXCEPT !.io[n] = mem[p].io[o], !.pid[n] = mem[p].pid[o]]
    IN  /\ p \in alive /\ Exists(mem[p], o) /\ ~Exists(mem[p], n)
        /\ mem' = [mem EXCEPT ![p] = Check(born, p, n)]
        /\ UNCHANGED <<alive, watched, touched>>

\* initialize_copy, in the new object n, whose @io and @pid are those of o.
Dup(p, o, n) ==
    LET born == [mem[p] EXCEPT !.io[n] = mem[p].io[o], !.pid[n] = mem[p].pid[o]]
        m == Check(born, p, n)
    IN  /\ p \in alive /\ Exists(mem[p], o) /\ ~Exists(mem[p], n)
        /\ mem' = [mem EXCEPT ![p] =
              IF IsOpen(m, n)
              THEN [m EXCEPT !.io[n] = CopyIo(p, n),
                             !.file[CopyIo(p, n)] = m.file[m.io[n]],
                             !.copies[CopyIo(p, n)] = n]
              ELSE [m EXCEPT !.closed = IF o \in @ THEN @ \cup {n} ELSE @]]
        /\ UNCHANGED <<alive, watched, touched>>

\* #close: no __ep_check.  IO#close raises IOError on a closed @io.
Close(p, o) ==
    LET io == mem[p].io[o]
    IN  /\ p \in alive /\ IsOpen(mem[p], o)
        /\ mem' = [mem EXCEPT ![p].copies[io] = Nil,
                              ![p].file[io] = Nil,
                              ![p].closed = @ \cup {o}]
        /\ UNCHANGED <<alive, watched, touched>>

----------------------------------------------------------------------------
(* The operating system and the garbage collector (external).              *)

\* fork(2) copies the memory and shares the epoll instances.
Fork(p, c) ==
    /\ p \in alive /\ c \in Proc \ alive
    /\ alive' = alive \cup {c}
    /\ mem' = [mem EXCEPT ![c] = mem[p]]
    /\ UNCHANGED <<watched, touched>>

\* An open Epoll::IO that nothing refers to is collected and closed.
Garbage(m, io) == m.copies[io] = Nil /\ \A o \in Obj : m.io[o] # io

Collect(p, io) ==
    /\ p \in alive /\ mem[p].file[io] # Nil /\ Garbage(mem[p], io)
    /\ mem' = [mem EXCEPT ![p].file[io] = Nil]
    /\ UNCHANGED <<alive, watched, touched>>

----------------------------------------------------------------------------
Next ==
    \E p \in Proc :
        \/ \E c \in Proc : Fork(p, c)
        \/ \E io \in Io : Collect(p, io)
        \/ \E o \in Obj :
            \/ Look(p, o) \/ CheckFails(p, o)
            \/ \E fd \in Fd, on \in BOOLEAN : Change(p, o, fd, on)
            \/ \E n \in Obj : Dup(p, o, n)
            \/ Close(p, o)

Spec == Init /\ [][Next]_vars

----------------------------------------------------------------------------
(* Properties.                                                             *)

\* Fork-safety (README: "High-level Epoll interface is fork-safe"): a process
\* only ever changes the interest list of an epoll instance it created itself,
\* whichever object of the family it uses first, copies, closes and forks
\* again.
Isolated == \A i \in Inst : touched[i] \subseteq {i.proc}

\* No ancestor of p has re-initialized the family.  Without this premise the two
\* properties below fail: the @io that __ep_reinit creates is not in @copies
\* (only its duplicates are), so a grandchild's first re-initialization leaves
\* it open, and the object that still holds it re-initializes once more, over
\* the interest list and the descriptors of the objects already in use.
FirstFork(p) == mem[p].reset \subseteq {p}

\* The shared @marks describe the interest list of every open object that has
\* been checked in its process: __ep_reinit empties them exactly when the
\* interest list is new.
MarksMatch ==
    \A p \in alive, o \in Obj :
        FirstFork(p) /\ IsOpen(mem[p], o) /\ mem[p].pid[o] = p =>
            mem[p].marks = watched[mem[p].file[mem[p].io[o]]]

\* An object that a process has created or used stays open there until #close,
\* whatever happens to the other copies.
UsedStaysOpen ==
    \A p \in alive, o \in Obj :
        FirstFork(p) /\ mem[p].pid[o] = p /\ o \notin mem[p].closed =>
            IsOpen(mem[p], o)

\* Descriptors do not pile up: a family keeps at most two epoll descriptors open
\* per object in a process, however often its ancestors forked and re-
\* initialized.  (The second one is the duplicate that __ep_check leaves in
\* @copies: no #close deletes it.)
DescriptorBound ==
    \A p \in alive :
        Cardinality({i \in Io : mem[p].file[i] # Nil /\ ~Garbage(mem[p], i)})
            <= 2 * Cardinality({o \in Obj : Exists(mem[p], o)})

\* Usability after fork ("auto-reinitialize the Epoll object after forking"):
\* an object that nobody has closed in this process, and that was open when it
\* was forked, is open.
UsableAfterFork ==
    \A p \in alive, o \in Obj :
        Exists(mem[p], o) /\ o \notin mem[p].closed => IsOpen(mem[p], o)
=============================================================================
