----------------------------- MODULE KqueueFork -----------------------------
(***************************************************************************)
(* SleepyPenguin::Kqueue across fork(2) (lib/sleepy_penguin/kqueue.rb and  *)
(* the parts of ext/sleepy_penguin/kqueue.c that it calls).                *)
(*                                                                         *)
(* A kqueue descriptor does not survive fork(2): in the child its number   *)
(* is free and soon belongs to another file, while the Ruby IO object of   *)
(* the parent still names it and would close it when it is collected.      *)
(* __kq_check disowns such objects and opens a new kqueue.                 *)
(*                                                                         *)
(* Processes share nothing here, so the model follows one line of          *)
(* descent: Fork goes on as the child.  A family is one Kqueue object and  *)
(* its copies; its methods run under the family's mutex and each is a step.*)
(***************************************************************************)
EXTENDS Naturals, SequencesExt, FiniteSets

CONSTANTS
    Obj,          \* Kqueue objects of the family
    First,        \* the object that Kqueue.new returns
    MaxGen,       \* bound: forks in the line of descent
    MaxIo,        \* bound: Kqueue::IO objects not yet collected
    MaxNum,       \* bound: descriptor numbers
    MaxFiles,     \* bound: files the application has open
    MaxFails,     \* bound: failing kqueue(2) and dup(2)
    Filter,       \* what can be registered
    ChangeLists,  \* change lists passed to #kevent
    File,         \* an open file of the application
    Nil           \* nil, "none"

Gen == 0..MaxGen
Io == 1..MaxIo
Num == 1..MaxNum
Queue == 1..MaxNum

\* A Kqueue::IO: its number (Nil once it is closed) and IO#autoclose?.
IoObject == [num : Num \cup {Nil}, auto : BOOLEAN]
Change == [filter : Filter, on : BOOLEAN, form : {"Struct", "Array"}]

ASSUME ConstantsOK ==
    /\ First \in Obj
    /\ MaxGen \in Nat /\ MaxIo \in Nat \ {0} /\ MaxNum \in Nat \ {0} /\ MaxFiles \in Nat /\ MaxFails \in Nat
    /\ ChangeLists \subseteq Seq(Change)
    /\ Nil \notin Nat \cup IoObject \cup {File} /\ File \notin Nat

VARIABLES
    gen,    \* $$, as the number of forks so far
    mem,    \* the Ruby objects and the descriptor table of the process
    regs,   \* kernel: what is registered in each kqueue
    files,  \* application: the numbers it has open files behind
    told,   \* auxiliary: what the users of each kqueue have registered
    inits,  \* auxiliary: re-initializations begun in this process (0, 1, 2 or more)
    orphans, \* auxiliary: numbers of its own kqueues that the process disowned
    fails,  \* auxiliary: system calls that have failed
    before, \* auxiliary: whether an earlier child process has begun one
    rash    \* auxiliary: whether #close was called on an inherited IO

vars == <<gen, mem, regs, files, told, inits, orphans, fails, before, rash>>

Memory ==
    [io     : [Obj -> Io \cup {Nil}],            \* @io; Nil if there is no object
     pid    : [Obj -> Gen \cup {Nil}],           \* @pid
     ios    : [Io -> IoObject \cup {Nil}],       \* Kqueue::IO objects
     copies : Seq([io : Io, obj : Obj]),         \* @copies, in insertion order
     table  : [Num -> Queue \cup {File, Nil}],   \* the descriptor table
     given  : [Obj -> Queue \cup {Nil}],         \* auxiliary: the kqueue @io was opened on
     closed : SUBSET Obj]                        \* auxiliary: #close was called

TypeOK ==
    /\ gen \in Gen
    /\ DOMAIN mem = {"io", "pid", "ios", "copies", "table", "given", "closed"}
    /\ mem.io \in [Obj -> Io \cup {Nil}] /\ mem.pid \in [Obj -> Gen \cup {Nil}]
    /\ mem.ios \in [Io -> IoObject \cup {Nil}]
    /\ mem.copies \in Seq([io : Io, obj : Obj])
    /\ mem.table \in [Num -> Queue \cup {File, Nil}]
    /\ mem.given \in [Obj -> Queue \cup {Nil}] /\ mem.closed \subseteq Obj
    /\ regs \in [Queue -> SUBSET Filter] /\ told \in [Queue -> SUBSET Filter]
    /\ files \subseteq Num /\ inits \in 0..2 /\ orphans \subseteq Num
    /\ fails \in 0..MaxFails /\ before \in BOOLEAN /\ rash \in BOOLEAN

\* Kqueue.new: @io and its entry in @copies.
Init ==
    /\ gen = 0
    /\ mem = [io     |-> [o \in Obj |-> IF o = First THEN 1 ELSE Nil],
              pid    |-> [o \in Obj |-> IF o = First THEN 0 ELSE Nil],
              ios    |-> [i \in Io |-> IF i = 1 THEN [num |-> 1, auto |-> TRUE] ELSE Nil],
              copies |-> <<[io |-> 1, obj |-> First]>>,
              table  |-> [n \in Num |-> IF n = 1 THEN 1 ELSE Nil],
              given  |-> [o \in Obj |-> IF o = First THEN 1 ELSE Nil],
              closed |-> {}]
    /\ regs = [q \in Queue |-> {}] /\ told = [q \in Queue |-> {}]
    /\ files = {} /\ inits = 0 /\ orphans = {} /\ fails = 0 /\ before = FALSE /\ rash = FALSE

\* Nothing refers to Kqueue::IO i.
Garbage(m, i) ==
    /\ \A o \in Obj : m.io[o] # i
    /\ \A j \in DOMAIN m.copies : m.copies[j].io # i

\* Garbage whose collection would close nothing is dropped at once.
Settled(m) ==
    [m EXCEPT !.ios = [i \in Io |->
        IF m.ios[i] = Nil \/ ~Garbage(m, i) \/ (m.ios[i].auto /\ m.ios[i].num # Nil)
        THEN m.ios[i] ELSE Nil]]

Exists(m, o) == m.io[o] # Nil
IsOpen(m, o) == m.io[o] # Nil /\ m.ios[m.io[o]].num # Nil

----------------------------------------------------------------------------
(* Descriptors and objects.                                                *)

\* The members of S in ascending order: the kernel takes the lowest number.
Nth(S, k) == CHOOSE n \in S : Cardinality({x \in S : x < n}) = k

FreeNum(m) == {n \in Num : m.table[n] = Nil}
FreeIo(m) == {i \in Io : m.ios[i] = Nil}
NewQueue(m) == Nth({q \in Queue : \A n \in Num : m.table[n] # q}, 0)

\* k descriptors more on kqueue q and a Kqueue::IO for each of them.
Opened(m, q, k) ==
    LET at(S, e) == CHOOSE j \in 0..(k - 1) : Nth(S, j) = e
        nums == {Nth(FreeNum(m), j) : j \in 0..(k - 1)}
        ids == {Nth(FreeIo(m), j) : j \in 0..(k - 1)}
    IN  [m EXCEPT
          !.table = [n \in Num |-> IF n \in nums THEN q ELSE @[n]],
          !.ios = [i \in Io |->
              IF i \in ids
              THEN [num |-> Nth(FreeNum(m), at(FreeIo(m), i)), auto |-> TRUE] ELSE @[i]]]

Room(m, k) == Cardinality(FreeNum(m)) >= k /\ Cardinality(FreeIo(m)) >= k

----------------------------------------------------------------------------
(* __kq_check of object o, applied to the memory m of the process.         *)

Stale(m, o) == m.pid[o] # gen /\ IsOpen(m, o)

\* Mutant: IO#autoclose is left on.
DisownNone(m) == [m EXCEPT !.copies = <<>>]

\* The Kqueue::IO objects in @copies will not close their numbers, and @copies
\* is emptied.
Disown(m) ==
    LET disowned == {m.copies[j].io : j \in DOMAIN m.copies}
    IN  [m EXCEPT
          !.ios = [i \in Io |->
              IF i \in disowned THEN [@[i] EXCEPT !.auto = FALSE] ELSE @[i]],
          !.copies = <<>>]

\* Mutant: @copies is disowned once the new duplicates are in it.
ReinitDisownsNew(m, o, k) ==
    LET d == Settled(Disown(m))
        q == NewQueue(d)
        new == [d EXCEPT !.io[o] = Nth(FreeIo(d), 0), !.given[o] = q,
                         !.copies = [j \in 1..k |->
                            [io |-> Nth(FreeIo(d), j), obj |-> m.copies[j].obj]],
                         !.pid[o] = IF k = Len(m.copies) THEN gen ELSE @]
    IN  [Disown(Opened(new, q, k + 1)) EXCEPT !.copies = new.copies]

\* __kq_reinit, then k duplicates of the new @io, one for each object that was
\* in @copies.  @pid is set if none is missing.
Reinit(m, o, k) ==
    LET d == Settled(Disown(m))
        q == NewQueue(d)
        new == [d EXCEPT !.io[o] = Nth(FreeIo(d), 0), !.given[o] = q,
                         !.copies = [j \in 1..k |->
                            [io |-> Nth(FreeIo(d), j), obj |-> m.copies[j].obj]],
                         !.pid[o] = IF k = Len(m.copies) THEN gen ELSE @]
    IN  Opened(new, q, k + 1)

\* What __kq_check can leave: the memory, whether it returned or raised, and
\* the kqueue it opened.  kqueue(2), after a garbage collection and a second
\* try, and each dup(2) may fail (EMFILE, ENFILE, ENOMEM).
Check(m, o) ==
    IF ~Stale(m, o) THEN {[m |-> m, ok |-> TRUE, queue |-> Nil]}
    ELSE {[m |-> Settled(Disown(m)), ok |-> FALSE, queue |-> Nil]} \cup
         {[m |-> Settled(Reinit(m, o, k)), ok |-> k = Len(m.copies), queue |-> NewQueue(m)] :
            k \in {j \in 0..Len(m.copies) : Room(Settled(Disown(m)), j + 1)}}

\* Registrations end with the last descriptor of their kqueue.
Live(set, m) == [q \in Queue |-> IF \E n \in Num : m.table[n] = q THEN set[q] ELSE {}]

\* A method goes on from outcome r: a new kqueue has nothing registered.
Emptied(set, r) == IF r.queue = Nil THEN set ELSE [set EXCEPT ![r.queue] = {}]

\* Numbers of kqueues whose Kqueue::IO is in @copies.
InCopies(m) ==
    {n \in Num : m.table[n] \in Queue /\ \E j \in DOMAIN m.copies : m.ios[m.copies[j].io].num = n}

Checked(r, failed) ==
    /\ failed => fails < MaxFails
    /\ fails' = IF failed THEN fails + 1 ELSE fails
    /\ IF r.ok /\ r.queue = Nil THEN UNCHANGED <<inits, orphans>>
       ELSE /\ inits' = IF inits = 2 THEN 2 ELSE inits + 1
            /\ orphans' = orphans \cup InCopies(mem)
    /\ UNCHANGED <<gen, files, before, rash>>

----------------------------------------------------------------------------
(* The methods.                                                            *)

\* #to_io.
to_io(o) ==
    /\ Exists(mem, o)
    /\ \E r \in Check(mem, o) :
        /\ mem' = r.m /\ regs' = Emptied(regs, r) /\ told' = Emptied(told, r)
        /\ Checked(r, ~r.ok)

\* changelist_prepare: what of a change list reaches kevent(2).  unpack_event
\* takes a Struct; for an Array its switch goes on to the TypeError, and nothing
\* is sent.
changelist_prepare(list) ==
    IF \E j \in DOMAIN list : list[j].form = "Array" THEN <<>> ELSE list

\* kevent(2) applies the changes in order.
Applied(set, list) ==
    {f \in Filter :
        LET about == {j \in DOMAIN list : list[j].filter = f}
        IN  IF about = {} THEN f \in set
            ELSE list[Nth(about, Cardinality(about) - 1)].on}

\* #kevent with a change list, on an @io that is open: if __kq_check raises or
\* @io is closed (IOError), it is to_io.  Behind a number that is not a kqueue
\* nothing is registered (EBADF).
kevent(o, list) ==
    \E r \in Check(mem, o) :
        LET q == r.m.table[r.m.ios[r.m.io[o]].num]
            asked == IF \A j \in DOMAIN list : list[j].form = "Struct" THEN list ELSE <<>>
        IN  /\ r.ok /\ IsOpen(r.m, o)
            /\ mem' = r.m
            /\ regs' = IF q \in Queue
                       THEN [Emptied(regs, r) EXCEPT ![q] = Applied(@, changelist_prepare(list))]
                       ELSE Emptied(regs, r)
            /\ told' = [Emptied(told, r) EXCEPT ![r.m.given[o]] = Applied(@, asked)]
            /\ Checked(r, ~r.ok)

\* Mutant: the copy keeps the @io of the original.
DupShares(o, n) ==
    /\ Exists(mem, o) /\ ~Exists(mem, n)
    /\ LET born == [mem EXCEPT !.io[n] = mem.io[o], !.pid[n] = mem.pid[o],
                               !.given[n] = mem.given[o],
                               !.closed = IF o \in @ THEN @ \cup {n} ELSE @]
       IN  \E r \in Check(born, n) :
            /\ mem' = r.m /\ regs' = Emptied(regs, r) /\ told' = Emptied(told, r)
            /\ Checked(r, ~r.ok)

\* initialize_copy in the new object n, which starts with the @io and @pid of o.
\* If __kq_check or IO#dup raises, nobody gets to see n.
initialize_copy(o, n) ==
    /\ Exists(mem, o) /\ ~Exists(mem, n)
    /\ LET born == [mem EXCEPT !.io[n] = mem.io[o], !.pid[n] = mem.pid[o],
                               !.given[n] = mem.given[o],
                               !.closed = IF o \in @ THEN @ \cup {n} ELSE @]
           unseen(m) == [m EXCEPT !.io[n] = Nil, !.pid[n] = Nil, !.given[n] = Nil]
       IN  \E r \in Check(born, n) :
            /\ \/ ~r.ok /\ mem' = Settled(unseen(r.m)) /\ Checked(r, TRUE)
               \/ r.ok /\ ~IsOpen(r.m, n) /\ mem' = r.m /\ Checked(r, FALSE)
               \/ r.ok /\ IsOpen(r.m, n) /\ mem' = Settled(unseen(r.m)) /\ Checked(r, TRUE)
               \/ /\ r.ok /\ IsOpen(r.m, n) /\ Room(r.m, 1)
                  /\ LET io == Nth(FreeIo(r.m), 0)
                         q == r.m.table[r.m.ios[r.m.io[n]].num]
                     IN  /\ q # Nil
                         /\ mem' = [Opened(r.m, q, 1) EXCEPT
                               !.io[n] = io, !.copies = Append(@, [io |-> io, obj |-> n])]
                  /\ Checked(r, FALSE)
            /\ regs' = Emptied(regs, r) /\ told' = Emptied(told, r)

\* close(2) of number n, by IO#close or by the finalizer of an IO that owns it.
CloseNum(m, io) ==
    IF io.auto /\ io.num # Nil THEN [m EXCEPT !.table[io.num] = Nil] ELSE m

\* Hash#delete of Kqueue::IO i.
Deleted(copies, i) ==
    IF \E j \in DOMAIN copies : copies[j].io = i
    THEN RemoveAt(copies, CHOOSE j \in DOMAIN copies : copies[j].io = i) ELSE copies

\* #close: no __kq_check.  IO#close does not close(2) a disowned number.
close(o) ==
    /\ IsOpen(mem, o)
    /\ LET io == mem.ios[mem.io[o]]
       IN  /\ mem' = [CloseNum(mem, io) EXCEPT
                        !.copies = Deleted(@, mem.io[o]),
                        !.ios[mem.io[o]].num = Nil,
                        !.closed = @ \cup {o}]
           /\ rash' = (rash \/ (mem.pid[o] # gen /\ io.auto))
    /\ regs' = Live(regs, mem') /\ told' = Live(told, mem')
    /\ UNCHANGED <<gen, files, inits, orphans, fails, before>>

----------------------------------------------------------------------------
(* The operating system, the collector and the application (external).     *)

\* The child has the objects of its parent, and its files, but no kqueue.
Fork ==
    /\ gen < MaxGen /\ gen' = gen + 1
    /\ mem' = [mem EXCEPT !.table = [n \in Num |-> IF @[n] = File THEN File ELSE Nil]]
    /\ before' = (before \/ inits > 0) /\ inits' = 0 /\ orphans' = {}
    /\ regs' = [q \in Queue |-> {}] /\ told' = [q \in Queue |-> {}]
    /\ UNCHANGED <<files, fails, rash>>

\* A Kqueue::IO that nothing refers to is collected; if it is open and owns its
\* number, the finalizer closes it.
Collect(i) ==
    /\ mem.ios[i] # Nil /\ Garbage(mem, i)
    /\ mem' = [CloseNum(mem, mem.ios[i]) EXCEPT !.ios[i] = Nil]
    /\ regs' = Live(regs, mem') /\ told' = Live(told, mem')
    /\ UNCHANGED <<gen, files, inits, orphans, fails, before, rash>>

AppOpen ==
    /\ FreeNum(mem) # {} /\ Cardinality(files) < MaxFiles
    /\ LET n == Nth(FreeNum(mem), 0)
       IN  mem' = [mem EXCEPT !.table[n] = File] /\ files' = files \cup {n}
    /\ UNCHANGED <<gen, regs, told, inits, orphans, fails, before, rash>>

AppClose(n) ==
    /\ n \in files
    /\ mem' = [mem EXCEPT !.table[n] = Nil] /\ files' = files \ {n}
    /\ UNCHANGED <<gen, regs, told, inits, orphans, fails, before, rash>>

----------------------------------------------------------------------------
Next ==
    \/ \E o \in Obj :
        \/ to_io(o)
        \/ \E list \in ChangeLists : kevent(o, list)
        \/ \E n \in Obj : initialize_copy(o, n)
        \/ close(o)
    \/ Fork
    \/ \E i \in Io : Collect(i)
    \/ AppOpen
    \/ \E n \in Num : AppClose(n)

Spec == Init /\ [][Next]_vars

----------------------------------------------------------------------------
(* Properties.                                                             *)

\* Where the code protects the process: @io and @copies hold no descriptor that
\* an earlier child opened (after a second fork the @io of __kq_check is in
\* nobody's @copies, so it is never disowned), and nobody has called #close,
\* which does not check, on an inherited descriptor.
Protected == ~before /\ ~rash

\* "This provides fork-safety": an object that was created or used in this
\* process and not closed reaches the kqueue it was given, and what is
\* registered there is what its users registered, whichever copies are re-
\* initialized, closed or collected and however their numbers are reused.
Attached ==
    Protected => \A o \in Obj :
        mem.pid[o] = gen /\ o \notin mem.closed =>
            /\ IsOpen(mem, o)
            /\ mem.table[mem.ios[mem.io[o]].num] = mem.given[o]
            /\ regs[mem.given[o]] = told[mem.given[o]]

\* No file of the application is closed because its number was once that of a
\* kqueue of the parent.
FilesSafe == Protected => \A n \in files : mem.table[n] = File

\* Every kqueue descriptor will be closed by a Kqueue::IO that owns it, and the
\* first re-initialization in a process leaks nothing, whichever of its system
\* calls fails.  What can leak is a duplicate that an attempt left in @copies and
\* a later one disowned: that of another object, or a retry by the same one after
\* dup(2) failed half-way.
NoLeak ==
    Protected =>
        /\ \A n \in Num : mem.table[n] \in Queue =>
              \/ \E i \in Io : mem.ios[i] # Nil /\ mem.ios[i].auto /\ mem.ios[i].num = n
              \/ n \in orphans
        /\ inits <= 1 => orphans = {}
=============================================================================
