-------------------------- MODULE EpollForkProofs --------------------------
(***************************************************************************)
(* Proofs about EpollFork, for any number of processes, generations of     *)
(* children, copies and descriptors.                                       *)
(***************************************************************************)
EXTENDS EpollFork, FiniteSetTheorems, TLAPS

\* An object that memory m says belongs to process p is closed or refers to an
\* epoll instance that p created.
Good(m, p) ==
    \A o \in Obj : m.pid[o] = p /\ IsOpen(m, o) => m.file[m.io[o]].proc = p

\* A pid in a memory is that of a process that has been started.
Born(m) == \A o \in Obj : m.pid[o] # Nil => m.pid[o] \in alive

ForkInv ==
    /\ TypeOK
    /\ \A p \in alive : Good(mem[p], p) /\ Born(mem[p])
    /\ Isolated

LEMMA IoFacts ==
    ASSUME NEW p \in Proc, NEW o \in Obj
    PROVE  /\ NewIo(p, o) \in Io /\ CopyIo(p, o) \in Io /\ CheckIo(p, o) \in Io
           /\ NewIo(p, o) # Nil /\ CopyIo(p, o) # Nil
           /\ [proc |-> p, obj |-> o] \in Inst
           /\ [proc |-> p, obj |-> o] # Nil
<1>1. NewIo(p, o) \in Io /\ CopyIo(p, o) \in Io /\ CheckIo(p, o) \in Io
  BY DEF NewIo, CopyIo, CheckIo, Io
<1>2. [proc |-> p, obj |-> o] \in Inst
  BY DEF Inst
<1> QED BY <1>1, <1>2, ConstantsOK

\* What __ep_reinit does to the fields of a memory.
LEMMA ReinitFacts ==
    ASSUME NEW m \in Memory, NEW p \in Proc, NEW o \in Obj
    PROVE  LET r == Reinit(m, p, o) IN
           /\ r \in Memory
           /\ r.pid = [m.pid EXCEPT ![o] = p]
           /\ r.io = [m.io EXCEPT ![o] = NewIo(p, o)]
           /\ r.file[NewIo(p, o)] = [proc |-> p, obj |-> o]
           /\ \A i \in Io : r.file[i] \in {[proc |-> p, obj |-> o], Nil, m.file[i]}
           /\ r.marks = {} /\ r.closed = m.closed /\ r.reset = m.reset \cup {p}
           /\ \A i \in Io : i.proc # p =>
                 r.file[i] = IF m.copies[i] # Nil THEN Nil ELSE m.file[i]
           /\ \A i \in Io : r.copies[i] # Nil =>
                 /\ i = CheckIo(p, r.copies[i])
                 /\ \E j \in Io : m.copies[j] = r.copies[i]
<1> DEFINE inst == [proc |-> p, obj |-> o]
           objects == {m.copies[i] : i \in Io} \ {Nil}
           file == [i \in Io |->
              IF i = NewIo(p, o) \/ \E x \in objects : i = CheckIo(p, x) THEN inst
              ELSE IF m.copies[i] # Nil THEN Nil
              ELSE m.file[i]]
           copies == [i \in Io |->
              IF \E x \in objects : i = CheckIo(p, x) THEN i.obj ELSE Nil]
<1>0. /\ m.io \in [Obj -> Io \cup {Nil}] /\ m.pid \in [Obj -> Proc \cup {Nil}]
      /\ m.file \in [Io -> Inst \cup {Nil}] /\ m.copies \in [Io -> Obj \cup {Nil}]
      /\ m.marks \subseteq Fd /\ m.closed \subseteq Obj /\ m.reset \subseteq Proc
  BY DEF Memory
<1>a. Reinit(m, p, o) = [m EXCEPT !.io[o] = NewIo(p, o), !.pid[o] = p, !.file = file,
                                  !.copies = copies, !.marks = {}, !.reset = @ \cup {p}]
  BY DEF Reinit
<1> HIDE DEF file, copies
<1>1. Reinit(m, p, o) = [io     |-> [m.io EXCEPT ![o] = NewIo(p, o)],
                         pid    |-> [m.pid EXCEPT ![o] = p],
                         file   |-> file,
                         copies |-> copies,
                         marks  |-> {},
                         closed |-> m.closed,
                         reset  |-> m.reset \cup {p}]
  BY <1>a DEF Memory
<1>2. file \in [Io -> Inst \cup {Nil}]
  BY <1>0, IoFacts DEF file
<1>3. copies \in [Io -> Obj \cup {Nil}]
  BY DEF Io, copies
<1>4. [m.io EXCEPT ![o] = NewIo(p, o)] \in [Obj -> Io \cup {Nil}]
  BY <1>0, IoFacts
<1>5. [m.pid EXCEPT ![o] = p] \in [Obj -> Proc \cup {Nil}]
  BY <1>0
<1>6. Reinit(m, p, o) \in Memory
  BY <1>0, <1>1, <1>2, <1>3, <1>4, <1>5 DEF Memory
<1>7. /\ Reinit(m, p, o).pid = [m.pid EXCEPT ![o] = p]
      /\ Reinit(m, p, o).io = [m.io EXCEPT ![o] = NewIo(p, o)]
      /\ Reinit(m, p, o).file = file /\ Reinit(m, p, o).copies = copies
      /\ Reinit(m, p, o).marks = {} /\ Reinit(m, p, o).closed = m.closed
      /\ Reinit(m, p, o).reset = m.reset \cup {p}
  BY <1>1
<1>8. file[NewIo(p, o)] = inst /\ \A i \in Io : file[i] \in {inst, Nil, m.file[i]}
  BY <1>0, IoFacts DEF file
<1>9. ASSUME NEW i \in Io, i.proc # p
      PROVE  file[i] = IF m.copies[i] # Nil THEN Nil ELSE m.file[i]
  BY <1>9 DEF file, NewIo, CheckIo
<1>10. ASSUME NEW i \in Io, copies[i] # Nil
       PROVE  i = CheckIo(p, copies[i]) /\ \E j \in Io : m.copies[j] = copies[i]
  <2>1. PICK x \in objects : i = CheckIo(p, x)
    BY <1>10 DEF copies
  <2>2. copies[i] = x
    BY <2>1 DEF copies, CheckIo
  <2> QED BY <2>1, <2>2
<1> HIDE DEF inst
<1> QED BY <1>6, <1>7, <1>8, <1>9, <1>10 DEF inst

\* __ep_check leaves an open object that belongs to this process.
LEMMA CheckFacts ==
    ASSUME NEW m \in Memory, NEW p \in Proc, NEW o \in Obj, Good(m, p)
    PROVE  LET r == Check(m, p, o) IN
           /\ r \in Memory /\ Good(r, p)
           /\ IsOpen(r, o) => r.pid[o] = p
           /\ \A x \in Obj : r.pid[x] \in {m.pid[x], p}
<1>0. /\ m.io \in [Obj -> Io \cup {Nil}] /\ m.pid \in [Obj -> Proc \cup {Nil}]
      /\ m.file \in [Io -> Inst \cup {Nil}]
  BY DEF Memory
<1>1. CASE ~Stale(m, p, o)
  BY <1>0, <1>1 DEF Check, Stale
<1>2. CASE Stale(m, p, o)
  <2> DEFINE r == Reinit(m, p, o)
             inst == [proc |-> p, obj |-> o]
  <2>1. /\ r \in Memory
        /\ r.pid = [m.pid EXCEPT ![o] = p]
        /\ r.io = [m.io EXCEPT ![o] = NewIo(p, o)]
        /\ r.file[NewIo(p, o)] = inst
        /\ \A i \in Io : r.file[i] \in {inst, Nil, m.file[i]}
    BY ReinitFacts
  <2>2. inst.proc = p /\ Check(m, p, o) = r
    BY <1>2 DEF Check
  <2> HIDE DEF r, inst
  <2>3. \A x \in Obj : r.pid[x] = IF x = o THEN p ELSE m.pid[x]
    BY <1>0, <2>1
  <2>4. ASSUME NEW x \in Obj, r.pid[x] = p, IsOpen(r, x)
        PROVE  r.file[r.io[x]].proc = p
    <3>1. CASE x = o
      BY <1>0, <2>1, <2>2, <3>1
    <3>2. CASE x # o
      <4>1. r.io[x] = m.io[x] /\ m.pid[x] = p /\ m.io[x] \in Io /\ r.file[m.io[x]] # Nil
        BY <1>0, <2>1, <2>3, <2>4, <3>2 DEF IsOpen
      <4>2. CASE r.file[m.io[x]] = inst
        BY <2>2, <4>1, <4>2
      <4>3. CASE r.file[m.io[x]] = m.file[m.io[x]]
        BY <4>1, <4>3, ConstantsOK DEF Good, IsOpen
      <4> QED BY <2>1, <4>1, <4>2, <4>3
    <3> QED BY <3>1, <3>2
  <2> QED BY <2>1, <2>2, <2>3, <2>4 DEF Good
<1> QED BY <1>1, <1>2

LEMMA ForkInit == Init => ForkInv
<1> SUFFICES ASSUME Init PROVE ForkInv
  OBVIOUS
<1> DEFINE io == NewIo(Root, First)
           inst == [proc |-> Root, obj |-> First]
           m == [io     |-> [o \in Obj |-> IF o = First THEN io ELSE Nil],
                 pid    |-> [o \in Obj |-> IF o = First THEN Root ELSE Nil],
                 file   |-> [i \in Io |-> IF i = io THEN inst ELSE Nil],
                 copies |-> [i \in Io |-> IF i = io THEN First ELSE Nil],
                 marks  |-> {},
                 closed |-> {},
                 reset  |-> {}]
<1>1. io \in Io /\ io # Nil /\ inst \in Inst /\ inst.proc = Root /\ Root \in Proc /\ First \in Obj
  BY ConstantsOK, IoFacts
<1>2. mem = [p \in Proc |-> m] /\ alive = {Root}
      /\ watched = [i \in Inst |-> {}] /\ touched = [i \in Inst |-> {}]
  BY DEF Init
<1>a. /\ m.io = [o \in Obj |-> IF o = First THEN io ELSE Nil]
      /\ m.pid = [o \in Obj |-> IF o = First THEN Root ELSE Nil]
      /\ m.file = [i \in Io |-> IF i = io THEN inst ELSE Nil]
  OBVIOUS
<1>3. m \in Memory
  BY <1>1 DEF Memory
<1> HIDE DEF m, inst, io
<1>4. Good(m, Root) /\ Born(m)
  BY <1>1, <1>2, <1>a, ConstantsOK DEF Good, Born, IsOpen
<1>5. TypeOK
  BY <1>1, <1>2, <1>3 DEF TypeOK
<1>6. mem[Root] = m
  BY <1>1, <1>2
<1> QED BY <1>2, <1>4, <1>5, <1>6 DEF ForkInv, Isolated

\* Process p goes on with memory m and changes no interest list.
LEMMA MemStep ==
    ASSUME ForkInv, NEW p \in alive, NEW m \in Memory, Good(m, p), Born(m),
           mem' = [mem EXCEPT ![p] = m], UNCHANGED <<alive, watched, touched>>
    PROVE  ForkInv'
<1>1. p \in Proc /\ mem \in [Proc -> Memory] /\ alive \subseteq Proc
  BY DEF ForkInv, TypeOK
<1>2. TypeOK'
  BY <1>1 DEF ForkInv, TypeOK
<1>3. \A q \in alive : mem'[q] = IF q = p THEN m ELSE mem[q]
  BY <1>1
<1>4. \A q \in alive : Good(mem'[q], q) /\ Born(mem'[q])
  BY <1>3 DEF ForkInv
<1> QED BY <1>2, <1>4 DEF ForkInv, Isolated, Good, IsOpen, Born

LEMMA ForkNext == ForkInv /\ [Next]_vars => ForkInv'
<1> SUFFICES ASSUME ForkInv, Next PROVE ForkInv'
  <2>1. CASE UNCHANGED vars
    BY <2>1 DEF vars, ForkInv, TypeOK, Isolated, Born, Good, IsOpen
  <2> QED BY <2>1
<1>0. /\ mem \in [Proc -> Memory] /\ alive \subseteq Proc
      /\ \A p \in alive : mem[p] \in Memory /\ Good(mem[p], p) /\ Born(mem[p])
  BY DEF ForkInv, TypeOK
<1>1. ASSUME NEW p \in Proc, NEW o \in Obj, Look(p, o)
      PROVE  ForkInv'
  <2>1. p \in alive /\ Check(mem[p], p, o) \in Memory /\ Good(Check(mem[p], p, o), p)
    BY <1>0, <1>1, CheckFacts DEF Look
  <2>2. Born(Check(mem[p], p, o))
    BY <1>0, <1>1, <2>1, CheckFacts DEF Look, Born
  <2> QED BY <1>1, <2>1, <2>2, MemStep DEF Look
<1>2. ASSUME NEW p \in Proc, NEW o \in Obj, CheckFails(p, o)
      PROVE  ForkInv'
  <2> DEFINE m == mem[p]
             file == [i \in Io |-> IF m.copies[i] # Nil THEN Nil ELSE m.file[i]]
             copies == [i \in Io |-> Nil]
             r == [m EXCEPT !.file = file, !.copies = copies, !.marks = {}]
  <2>1. p \in alive /\ m \in Memory /\ Good(m, p) /\ Born(m)
    BY <1>0, <1>2 DEF CheckFails
  <2>2. r \in Memory /\ r.io = m.io /\ r.pid = m.pid /\ r.file = file
    BY <2>1 DEF Memory
  <2>3. \A i \in Io : file[i] # Nil => file[i] = m.file[i]
    OBVIOUS
  <2>4. mem' = [mem EXCEPT ![p] = r] /\ UNCHANGED <<alive, watched, touched>>
    BY <1>2 DEF CheckFails
  <2>5. \A x \in Obj : m.io[x] \in Io \cup {Nil}
    BY <2>1 DEF Memory
  <2> HIDE DEF r, file, m
  <2>6. Good(r, p) /\ Born(r)
    BY <2>1, <2>2, <2>3, <2>5 DEF Good, Born, IsOpen
  <2> QED BY <2>1, <2>2, <2>4, <2>6, MemStep
<1>3. ASSUME NEW p \in Proc, NEW o \in Obj, NEW fd \in Fd, NEW on \in BOOLEAN,
             Change(p, o, fd, on)
      PROVE  ForkInv'
  <2> DEFINE m == Check(mem[p], p, o)
             inst == m.file[m.io[o]]
             marks == IF on THEN m.marks \cup {fd} ELSE m.marks \ {fd}
             r == [m EXCEPT !.marks = marks]
  <2>1. /\ p \in alive /\ m \in Memory /\ Good(m, p) /\ IsOpen(m, o) /\ m.pid[o] = p
        /\ \A x \in Obj : m.pid[x] \in {mem[p].pid[x], p}
    BY <1>0, <1>3, CheckFacts DEF Change
  <2>2. Born(m)
    BY <1>0, <2>1 DEF Born
  <2>3. inst \in Inst /\ inst.proc = p
    BY <2>1 DEF Good, IsOpen, Memory
  <2>4. /\ mem' = [mem EXCEPT ![p] = r]
        /\ watched' = [watched EXCEPT ![inst] = IF on THEN @ \cup {fd} ELSE @ \ {fd}]
        /\ touched' = [touched EXCEPT ![inst] = @ \cup {p}]
        /\ UNCHANGED alive
    BY <1>3 DEF Change
  <2> HIDE DEF m, inst
  <2>5. r \in Memory /\ r.io = m.io /\ r.pid = m.pid /\ r.file = m.file
    BY <2>1 DEF Memory
  <2> HIDE DEF r
  <2>6. Good(r, p) /\ Born(r)
    BY <2>1, <2>2, <2>5 DEF Good, Born, IsOpen
  <2>7. TypeOK'
    BY <1>0, <2>1, <2>3, <2>4, <2>5 DEF ForkInv, TypeOK
  <2>8. Isolated'
    BY <2>3, <2>4 DEF ForkInv, TypeOK, Isolated
  <2>9. \A q \in alive : mem'[q] = IF q = p THEN r ELSE mem[q]
    BY <1>0, <2>4
  <2>10. \A q \in alive : Good(mem'[q], q) /\ Born(mem'[q])
    BY <1>0, <2>6, <2>9
  <2> QED BY <2>4, <2>7, <2>8, <2>10 DEF ForkInv, Good, Born, IsOpen
<1>4. ASSUME NEW p \in Proc, NEW o \in Obj, NEW n \in Obj, Dup(p, o, n)
      PROVE  ForkInv'
  <2> DEFINE born == [mem[p] EXCEPT !.io[n] = mem[p].io[o], !.pid[n] = mem[p].pid[o]]
             m == Check(born, p, n)
             opened == [m EXCEPT !.io[n] = CopyIo(p, n),
                                 !.file[CopyIo(p, n)] = m.file[m.io[n]],
                                 !.copies[CopyIo(p, n)] = n]
             shut == [m EXCEPT !.closed = IF o \in @ THEN @ \cup {n} ELSE @]
  <2>0. p \in alive /\ mem[p] \in Memory /\ Good(mem[p], p) /\ Born(mem[p])
    BY <1>0, <1>4 DEF Dup
  <2>1. /\ born \in Memory
        /\ born.io = [mem[p].io EXCEPT ![n] = mem[p].io[o]]
        /\ born.pid = [mem[p].pid EXCEPT ![n] = mem[p].pid[o]]
        /\ born.file = mem[p].file
    BY <2>0 DEF Memory
  <2>2. mem' = [mem EXCEPT ![p] = IF IsOpen(m, n) THEN opened ELSE shut]
        /\ UNCHANGED <<alive, watched, touched>>
    BY <1>4 DEF Dup
  <2> HIDE DEF born
  <2>3. Good(born, p) /\ Born(born)
    BY <2>0, <2>1 DEF Good, Born, IsOpen, Memory
  <2>4. /\ m \in Memory /\ Good(m, p) /\ (IsOpen(m, n) => m.pid[n] = p)
        /\ \A x \in Obj : m.pid[x] \in {born.pid[x], p}
    BY <2>1, <2>3, CheckFacts
  <2>5. Born(m)
    BY <2>0, <2>3, <2>4 DEF Born
  <2> HIDE DEF m
  <2>6. CASE IsOpen(m, n)
    <3>0. m.io[n] \in Io /\ m.file[m.io[n]] \in Inst /\ m.file[m.io[n]].proc = p
          /\ CopyIo(p, n) \in Io
      BY <2>4, <2>6, IoFacts DEF Memory, IsOpen, Good
    <3>1. /\ opened \in Memory
          /\ opened.io = [m.io EXCEPT ![n] = CopyIo(p, n)]
          /\ opened.pid = m.pid
          /\ opened.file = [m.file EXCEPT ![CopyIo(p, n)] = m.file[m.io[n]]]
      BY <2>4, <3>0 DEF Memory
    <3> HIDE DEF opened
    <3>2. ASSUME NEW x \in Obj, opened.pid[x] = p, IsOpen(opened, x)
          PROVE  opened.file[opened.io[x]].proc = p
      <4>0. m.io \in [Obj -> Io \cup {Nil}] /\ m.file \in [Io -> Inst \cup {Nil}]
        BY <2>4 DEF Memory
      <4>1. CASE opened.io[x] = CopyIo(p, n)
        BY <3>0, <3>1, <4>0, <4>1
      <4>2. CASE opened.io[x] # CopyIo(p, n)
        <5>1. opened.io[x] = m.io[x] /\ m.io[x] \in Io /\ opened.file[m.io[x]] = m.file[m.io[x]]
          BY <3>0, <3>1, <3>2, <4>0, <4>2 DEF IsOpen
        <5> QED BY <2>4, <3>1, <3>2, <5>1 DEF Good, IsOpen
      <4> QED BY <4>1, <4>2
    <3>3. Good(opened, p) /\ Born(opened)
      BY <2>5, <3>1, <3>2 DEF Good, Born
    <3> QED BY <2>0, <2>2, <2>6, <3>1, <3>3, MemStep
  <2>7. CASE ~IsOpen(m, n)
    <3>1. shut \in Memory /\ shut.io = m.io /\ shut.pid = m.pid /\ shut.file = m.file
      BY <2>4 DEF Memory
    <3> HIDE DEF shut
    <3>2. Good(shut, p) /\ Born(shut)
      BY <2>4, <2>5, <3>1 DEF Good, Born, IsOpen
    <3> QED BY <2>0, <2>2, <2>7, <3>1, <3>2, MemStep
  <2> QED BY <2>6, <2>7
<1>5. ASSUME NEW p \in Proc, NEW o \in Obj, Close(p, o)
      PROVE  ForkInv'
  <2> DEFINE io == mem[p].io[o]
             r == [mem[p] EXCEPT !.copies[io] = Nil, !.file[io] = Nil,
                                 !.closed = @ \cup {o}]
  <2>0. p \in alive /\ mem[p] \in Memory /\ Good(mem[p], p) /\ Born(mem[p]) /\ io \in Io
    BY <1>0, <1>5 DEF Close, IsOpen, Memory
  <2>1. mem' = [mem EXCEPT ![p] = r] /\ UNCHANGED <<alive, watched, touched>>
    BY <1>0, <1>5 DEF Close
  <2>2. /\ r \in Memory /\ r.io = mem[p].io /\ r.pid = mem[p].pid
        /\ r.file = [mem[p].file EXCEPT ![io] = Nil]
    BY <2>0 DEF Memory
  <2>3. mem[p].file \in [Io -> Inst \cup {Nil}] /\ mem[p].io \in [Obj -> Io \cup {Nil}]
    BY <2>0 DEF Memory
  <2> HIDE DEF r
  <2>4. Good(r, p) /\ Born(r)
    BY <2>0, <2>2, <2>3 DEF Good, Born, IsOpen
  <2> QED BY <2>0, <2>1, <2>2, <2>4, MemStep
<1>6. ASSUME NEW p \in Proc, NEW c \in Proc, Fork(p, c)
      PROVE  ForkInv'
  <2>1. /\ p \in alive /\ c \notin alive /\ alive' = alive \cup {c}
        /\ mem' = [mem EXCEPT ![c] = mem[p]] /\ UNCHANGED <<watched, touched>>
    BY <1>6 DEF Fork
  <2>2. TypeOK'
    BY <1>0, <2>1 DEF ForkInv, TypeOK
  <2>3. \A q \in alive' : mem'[q] = IF q = c THEN mem[p] ELSE mem[q]
    BY <1>0, <2>1
  <2>4. \A o \in Obj : mem[p].pid[o] # c
    BY <1>0, <2>1, ConstantsOK DEF Born
  <2>5. \A q \in alive' : Good(mem'[q], q)
    BY <1>0, <2>1, <2>3, <2>4 DEF Good
  <2>6. \A q \in alive' : \A o \in Obj : mem'[q].pid[o] # Nil => mem'[q].pid[o] \in alive'
    BY <1>0, <2>1, <2>3 DEF Born
  <2> QED BY <2>1, <2>2, <2>5, <2>6 DEF ForkInv, Isolated, Good, IsOpen, Born
<1>7. ASSUME NEW p \in Proc, NEW io \in Io, Collect(p, io)
      PROVE  ForkInv'
  <2> DEFINE r == [mem[p] EXCEPT !.file[io] = Nil]
  <2>0. p \in alive /\ mem[p] \in Memory /\ Good(mem[p], p) /\ Born(mem[p])
    BY <1>0, <1>7 DEF Collect
  <2>1. mem' = [mem EXCEPT ![p] = r] /\ UNCHANGED <<alive, watched, touched>>
    BY <1>0, <1>7 DEF Collect
  <2>2. /\ r \in Memory /\ r.io = mem[p].io /\ r.pid = mem[p].pid
        /\ r.file = [mem[p].file EXCEPT ![io] = Nil]
    BY <2>0 DEF Memory
  <2>3. mem[p].file \in [Io -> Inst \cup {Nil}] /\ mem[p].io \in [Obj -> Io \cup {Nil}]
    BY <2>0 DEF Memory
  <2> HIDE DEF r
  <2>4. Good(r, p) /\ Born(r)
    BY <2>0, <2>2, <2>3 DEF Good, Born, IsOpen
  <2> QED BY <2>0, <2>1, <2>2, <2>4, MemStep
<1> QED BY <1>1, <1>2, <1>3, <1>4, <1>5, <1>6, <1>7 DEF Next

\* A process never changes an interest list of its parent, child or sibling,
\* for families of any size and generations of any depth.
THEOREM ForkSafe == Spec => []Isolated
<1>1. ForkInv => Isolated
  BY DEF ForkInv
<1> QED BY <1>1, ForkInit, ForkNext, PTL DEF Spec

----------------------------------------------------------------------------
(* What a family keeps in the process that created it and in a child that  *)
(* re-initialized it, as long as no ancestor has.                          *)

\* Process p has epoll instances of its own: it called Epoll.new or has been
\* through __ep_reinit.
Started(m, p) == p = Root \/ p \in m.reset

\* The objects of memory m and the Epoll::IO objects they hold were created by
\* the processes in live.  A process that has not re-initialized owns none.
Owned(m, p, live) ==
    /\ m.reset \subseteq live
    /\ \A x \in Obj : m.pid[x] # Nil => m.pid[x] \in live
    /\ \A x \in Obj : m.pid[x] = p => Started(m, p)
    /\ \A x \in Obj : m.io[x] # Nil =>
          /\ m.io[x].proc \in live /\ m.io[x].by # "check"
          /\ m.io[x].proc = p => Started(m, p)
          /\ m.io[x].by = "copy" => Exists(m, m.io[x].obj)

\* Before the first re-initialization of a line of descent every open object is
\* in @copies, where the first __ep_reinit finds and closes it.
Listed(m) == m.reset = {} => \A x \in Obj : IsOpen(m, x) => m.copies[m.io[x]] # Nil

\* A process that re-initialized at most once, and whose ancestors did not: only
\* the objects it has used are open, each with an Epoll::IO of its own, all on
\* one epoll instance, and that is the one @marks describes.
Single(m, p) ==
    /\ \A x \in Obj : IsOpen(m, x) => m.pid[x] = p
    /\ \A x \in Obj : m.pid[x] = p /\ x \notin m.closed => IsOpen(m, x)
    /\ \A x, y \in Obj : IsOpen(m, x) /\ m.io[x] = m.io[y] => x = y

Serves(m, p, r, w) ==
    /\ m.marks = w[[proc |-> p, obj |-> r]]
    /\ \A x \in Obj : IsOpen(m, x) => m.file[m.io[x]] = [proc |-> p, obj |-> r]

Family(m, p, w) ==
    m.reset \subseteq {p} /\ Started(m, p) =>
        Single(m, p) /\ \E r \in Obj : Serves(m, p, r, w)

\* The interest lists of a process are empty until it has an instance.
Unborn == \A i \in Inst : watched[i] # {} =>
              i.proc \in alive /\ Started(mem[i.proc], i.proc)

LineInv ==
    /\ Root \in alive
    /\ \A p \in alive : /\ Owned(mem[p], p, alive) /\ Listed(mem[p])
                        /\ Family(mem[p], p, watched)
    /\ Unborn

\* @copies maps one Epoll::IO to each object, and only to objects of the family.
OneCopy(m) ==
    \A i \in Io : m.copies[i] # Nil =>
        /\ Exists(m, m.copies[i])
        /\ \A j \in Io : m.copies[j] = m.copies[i] => j = i
CopyInv == \A p \in alive : OneCopy(mem[p])

LEMMA Typed ==
    ASSUME NEW m \in Memory
    PROVE  /\ m.io \in [Obj -> Io \cup {Nil}] /\ m.pid \in [Obj -> Proc \cup {Nil}]
           /\ m.file \in [Io -> Inst \cup {Nil}] /\ m.copies \in [Io -> Obj \cup {Nil}]
           /\ m.marks \subseteq Fd /\ m.closed \subseteq Obj /\ m.reset \subseteq Proc
           /\ Nil \notin Obj /\ Nil \notin Io /\ Nil \notin Inst /\ Nil \notin Proc
BY ConstantsOK DEF Memory

\* What the lemmas below say of one memory.
Sane(m, p, live) == Owned(m, p, live) /\ Listed(m) /\ OneCopy(m)

\* __ep_reinit: the first of a line of descent leaves one object open.
LEMMA ReinitLine ==
    ASSUME NEW m \in Memory, NEW live \in SUBSET Proc, NEW p \in live, NEW o \in Obj,
           Sane(m, p, live), Exists(m, o),
           m.reset \subseteq {p} => ~Started(m, p),
           NEW w, ~Started(m, p) => \A x \in Obj : w[[proc |-> p, obj |-> x]] = {}
    PROVE  LET r == Reinit(m, p, o) IN
           Sane(r, p, live) /\ Family(r, p, w) /\ m.reset \subseteq r.reset
<1> DEFINE r == Reinit(m, p, o)
           inst == [proc |-> p, obj |-> o]
<1>0. p \in Proc
  OBVIOUS
<1>1. /\ r \in Memory
      /\ r.pid = [m.pid EXCEPT ![o] = p]
      /\ r.io = [m.io EXCEPT ![o] = NewIo(p, o)]
      /\ r.file[NewIo(p, o)] = inst
      /\ r.marks = {} /\ r.closed = m.closed /\ r.reset = m.reset \cup {p}
      /\ \A i \in Io : i.proc # p =>
            r.file[i] = IF m.copies[i] # Nil THEN Nil ELSE m.file[i]
      /\ \A i \in Io : r.copies[i] # Nil =>
            i = CheckIo(p, r.copies[i]) /\ \E j \in Io : m.copies[j] = r.copies[i]
  BY <1>0, ReinitFacts
<1>2. /\ NewIo(p, o) \in Io /\ NewIo(p, o) # Nil /\ inst # Nil
      /\ NewIo(p, o).proc = p /\ NewIo(p, o).by = "new"
  BY <1>0, IoFacts DEF NewIo
<1> HIDE DEF r, inst
<1>3. /\ \A x \in Obj : r.pid[x] = IF x = o THEN p ELSE m.pid[x]
      /\ \A x \in Obj : r.io[x] = IF x = o THEN NewIo(p, o) ELSE m.io[x]
  BY <1>1, Typed
<1>4. \A x \in Obj : Exists(m, x) => Exists(r, x)
  BY <1>2, <1>3 DEF Exists
<1>5. Started(r, p)
  BY <1>1 DEF Started
<1>6. Owned(r, p, live)
  <2>1. r.reset \subseteq live /\ \A x \in Obj : r.pid[x] # Nil => r.pid[x] \in live
    BY <1>1, <1>3 DEF Sane, Owned
  <2>2. ASSUME NEW x \in Obj, r.io[x] # Nil
        PROVE  /\ r.io[x].proc \in live /\ r.io[x].by # "check"
               /\ r.io[x].by = "copy" => Exists(r, r.io[x].obj)
    <3>1. CASE x = o
      BY <1>2, <1>3, <3>1
    <3>2. CASE x # o
      <4>1. r.io[x] = m.io[x] /\ m.io[x] \in Io
        BY <1>3, <2>2, <3>2, Typed
      <4>2. m.io[x].obj \in Obj
        BY <4>1 DEF Io
      <4> QED BY <1>4, <2>2, <4>1, <4>2 DEF Sane, Owned
    <3> QED BY <3>1, <3>2
  <2> QED BY <1>5, <2>1, <2>2 DEF Owned
<1>7. Listed(r)
  BY <1>1 DEF Listed
<1>8. OneCopy(r)
  BY <1>1, <1>4, Typed DEF Sane, OneCopy
<1>9. ASSUME r.reset \subseteq {p}
      PROVE  Single(r, p) /\ \E k \in Obj : Serves(r, p, k, w)
  <2>1. ~Started(m, p) /\ m.reset = {}
    BY <1>1, <1>9 DEF Started
  <2>2. ASSUME NEW x \in Obj, x # o
        PROVE  ~IsOpen(r, x) /\ r.io[x] # NewIo(p, o) /\ r.pid[x] # p
    <3>1. r.io[x] = m.io[x] /\ r.pid[x] = m.pid[x] /\ m.pid[x] # p
      BY <1>3, <2>1, <2>2 DEF Sane, Owned
    <3>2. CASE m.io[x] = Nil
      BY <1>2, <3>1, <3>2 DEF IsOpen
    <3>3. CASE m.io[x] # Nil
      <4>1. m.io[x] \in Io /\ m.io[x].proc # p
        BY <2>1, <3>3, Typed DEF Sane, Owned
      <4>2. r.file[m.io[x]] = Nil
        BY <1>1, <2>1, <3>3, <4>1 DEF Sane, Listed, IsOpen
      <4> QED BY <1>2, <3>1, <4>1, <4>2 DEF IsOpen
    <3> QED BY <3>2, <3>3
  <2>3. IsOpen(r, o) /\ r.pid[o] = p /\ r.io[o] = NewIo(p, o)
    BY <1>1, <1>2, <1>3 DEF IsOpen
  <2>4. Single(r, p)
    BY <2>2, <2>3 DEF Single
  <2>5. Serves(r, p, o, w)
    BY <1>1, <2>1, <2>2, <2>3 DEF Serves, inst
  <2> QED BY <2>4, <2>5
<1> QED BY <1>1, <1>6, <1>7, <1>8, <1>9 DEF Sane, Family, r

\* __ep_check at the head of a method.
LEMMA CheckLine ==
    ASSUME NEW m \in Memory, NEW live \in SUBSET Proc, NEW p \in live, NEW o \in Obj,
           Sane(m, p, live), NEW w, Family(m, p, w), Exists(m, o),
           ~Started(m, p) => \A x \in Obj : w[[proc |-> p, obj |-> x]] = {}
    PROVE  LET r == Check(m, p, o) IN
           /\ Sane(r, p, live) /\ Family(r, p, w)
           /\ m.reset \subseteq r.reset
<1>1. CASE ~Stale(m, p, o)
  BY <1>1 DEF Check
<1>2. CASE Stale(m, p, o)
  <2>1. m.reset \subseteq {p} => ~Started(m, p)
    BY <1>2 DEF Family, Single, Stale
  <2> QED BY <1>2, <2>1, ReinitLine DEF Check
<1> QED BY <1>1, <1>2

\* The part of a family that #dup has not reached yet: n, whose @io is still
\* that of the original, is left out.
SingleBut(m, p, n) ==
    /\ \A x \in Obj : IsOpen(m, x) => m.pid[x] = p
    /\ \A x \in Obj \ {n} : m.pid[x] = p /\ x \notin m.closed => IsOpen(m, x)
    /\ \A x, y \in Obj \ {n} : IsOpen(m, x) /\ m.io[x] = m.io[y] => x = y

\* The end of initialize_copy: n gets a duplicate of its own.
Copied(m, p, n) ==
    [m EXCEPT !.io[n] = CopyIo(p, n),
              !.file[CopyIo(p, n)] = m.file[m.io[n]],
              !.copies[CopyIo(p, n)] = n]

LEMMA CopyLine ==
    ASSUME NEW m \in Memory, NEW live \in SUBSET Proc, NEW p \in live, NEW n \in Obj,
           Sane(m, p, live), IsOpen(m, n), m.pid[n] = p,
           \A i \in Io : m.copies[i] # n,
           \A x \in Obj \ {n} : m.io[x] # CopyIo(p, n),
           NEW w,
           m.reset \subseteq {p} => SingleBut(m, p, n) /\ \E k \in Obj : Serves(m, p, k, w)
    PROVE  LET r == Copied(m, p, n) IN
           Sane(r, p, live) /\ Family(r, p, w) /\ r.reset = m.reset
<1> DEFINE c == CopyIo(p, n)
           r == [m EXCEPT !.io[n] = c, !.file[c] = m.file[m.io[n]], !.copies[c] = n]
<1>a. c \in Io /\ c # Nil
  BY IoFacts
<1>b. c.proc = p /\ c.by = "copy" /\ c.obj = n
  BY DEF CopyIo
<1>c. m.io[n] \in Io /\ m.file[m.io[n]] # Nil /\ m.file[m.io[n]] \in Inst
  BY Typed DEF IsOpen
<1>0. /\ c \in Io /\ c # Nil /\ c.proc = p /\ c.by = "copy" /\ c.obj = n
      /\ m.io[n] \in Io /\ m.file[m.io[n]] # Nil /\ m.file[m.io[n]] \in Inst
  BY <1>a, <1>b, <1>c
<1> HIDE DEF c
<1>1. /\ r.io = [m.io EXCEPT ![n] = c] /\ r.pid = m.pid
      /\ r.file = [m.file EXCEPT ![c] = m.file[m.io[n]]]
      /\ r.copies = [m.copies EXCEPT ![c] = n]
      /\ r.marks = m.marks /\ r.closed = m.closed /\ r.reset = m.reset
  BY DEF Memory
<1> HIDE DEF r
<1>2. /\ \A x \in Obj : r.io[x] = IF x = n THEN c ELSE m.io[x]
      /\ \A i \in Io : r.file[i] = IF i = c THEN m.file[m.io[n]] ELSE m.file[i]
      /\ \A i \in Io : r.copies[i] = IF i = c THEN n ELSE m.copies[i]
  BY <1>0, <1>1, Typed
<1>3. \A x \in Obj : Exists(m, x) => Exists(r, x)
  BY <1>0, <1>2 DEF Exists
<1>4. Exists(r, n) /\ Started(m, p) /\ (Started(r, p) <=> Started(m, p))
  BY <1>0, <1>1, <1>2 DEF Exists, Sane, Owned, Started
<1>5. \A x \in Obj \ {n} : r.io[x] = m.io[x] /\ (IsOpen(r, x) <=> IsOpen(m, x)) /\ r.io[x] # c
                           /\ (IsOpen(m, x) => r.file[r.io[x]] = m.file[m.io[x]])
  BY <1>0, <1>2, Typed DEF IsOpen, c
<1>6. IsOpen(r, n) /\ r.io[n] = c /\ r.file[c] = m.file[m.io[n]]
  BY <1>0, <1>2 DEF IsOpen
<1>7. Owned(r, p, live)
  <2>1. /\ r.reset \subseteq live /\ \A x \in Obj : r.pid[x] # Nil => r.pid[x] \in live
    BY <1>1 DEF Sane, Owned
  <2>2. ASSUME NEW x \in Obj, r.io[x] # Nil
        PROVE  /\ r.io[x].proc \in live /\ r.io[x].by # "check"
               /\ r.io[x].by = "copy" => Exists(r, r.io[x].obj)
    <3>1. CASE x = n
      BY <1>0, <1>2, <1>4, <3>1
    <3>2. CASE x # n
      <4>1. r.io[x] = m.io[x] /\ m.io[x] \in Io
        BY <1>2, <2>2, <3>2, Typed
      <4>2. m.io[x].obj \in Obj
        BY <4>1 DEF Io
      <4> QED BY <1>3, <2>2, <4>1, <4>2 DEF Sane, Owned
    <3> QED BY <3>1, <3>2
  <2> QED BY <1>4, <2>1, <2>2 DEF Owned
<1>8. Listed(r)
  BY <1>0, <1>1, <1>2, <1>5, <1>6, Typed DEF Sane, Listed, IsOpen
<1>9. OneCopy(r)
  BY <1>0, <1>2, <1>3, <1>4, Typed DEF Sane, OneCopy
<1>10. Family(r, p, w)
  <2> SUFFICES ASSUME m.reset \subseteq {p}
               PROVE  Single(r, p) /\ \E k \in Obj : Serves(r, p, k, w)
    BY <1>1 DEF Family
  <2>1. Single(r, p)
    BY <1>1, <1>5, <1>6 DEF Single, SingleBut
  <2>2. PICK k \in Obj : Serves(m, p, k, w)
    OBVIOUS
  <2>3. Serves(r, p, k, w)
    BY <1>1, <1>5, <1>6, <2>2 DEF Serves
  <2> QED BY <2>1, <2>3
<1> QED BY <1>1, <1>7, <1>8, <1>9, <1>10 DEF Sane, Copied, r, c

\* Only one process changes its memory, and no interest list changes.
LEMMA LineStep ==
    ASSUME TypeOK, LineInv, CopyInv, NEW p \in alive, NEW m \in Memory,
           Sane(m, p, alive), Family(m, p, watched), mem[p].reset \subseteq m.reset,
           mem' = [mem EXCEPT ![p] = m], UNCHANGED <<alive, watched>>
    PROVE  LineInv' /\ CopyInv'
<1>1. \A q \in alive : mem'[q] = IF q = p THEN m ELSE mem[q]
  BY DEF TypeOK
<1>2. \A q \in alive : /\ Owned(mem'[q], q, alive) /\ Listed(mem'[q])
                       /\ Family(mem'[q], q, watched) /\ OneCopy(mem'[q])
  BY <1>1 DEF LineInv, CopyInv, Sane
<1>3. \A q \in alive : Started(mem[q], q) => Started(mem'[q], q)
  BY <1>1 DEF Started
<1>4. \A i \in Inst : watched'[i] # {} => i.proc \in alive' /\ Started(mem'[i.proc], i.proc)
  BY <1>3 DEF LineInv, Unborn
<1>5. LineInv'
  <2>1. \A q \in alive' : Owned(mem[q], q, alive)'
    BY <1>2 DEF Owned, Started, Exists
  <2>2. \A q \in alive' : Listed(mem[q])'
    BY <1>2 DEF Listed, IsOpen
  <2>3. \A q \in alive' : Family(mem[q], q, watched)'
    BY <1>2 DEF Family, Single, Serves, Started, IsOpen
  <2>4. Unborn'
    BY <1>4 DEF Unborn, Started
  <2> QED BY <2>1, <2>2, <2>3, <2>4 DEF LineInv
<1>6. CopyInv'
  BY <1>2 DEF CopyInv, OneCopy, Exists
<1> QED BY <1>5, <1>6

LEMMA LineInit == Init => LineInv /\ CopyInv
<1> SUFFICES ASSUME Init PROVE LineInv /\ CopyInv
  OBVIOUS
<1> DEFINE io == NewIo(Root, First)
           inst == [proc |-> Root, obj |-> First]
           m == mem[Root]
<1>1. io \in Io /\ io # Nil /\ inst \in Inst /\ inst # Nil /\ Root \in Proc /\ First \in Obj
  BY ConstantsOK, IoFacts
<1>2. io.proc = Root /\ io.by = "new" /\ io.obj = First
  BY DEF NewIo
<1>3. /\ alive = {Root}
      /\ \A o \in Obj : m.io[o] = IF o = First THEN io ELSE Nil
      /\ \A o \in Obj : m.pid[o] = IF o = First THEN Root ELSE Nil
      /\ \A i \in Io : m.file[i] = IF i = io THEN inst ELSE Nil
      /\ \A i \in Io : m.copies[i] = IF i = io THEN First ELSE Nil
      /\ m.marks = {} /\ m.closed = {} /\ m.reset = {}
      /\ \A i \in Inst : watched[i] = {}
  BY <1>1 DEF Init
<1> HIDE DEF io, inst, m
<1>4. Owned(m, Root, {Root}) /\ Listed(m)
  BY <1>1, <1>2, <1>3, ConstantsOK DEF Owned, Listed, Started, Exists, IsOpen
<1>5. Single(m, Root) /\ Serves(m, Root, First, watched)
  BY <1>1, <1>2, <1>3, ConstantsOK DEF Single, Serves, IsOpen, inst
<1>6. OneCopy(m)
  BY <1>1, <1>3, ConstantsOK DEF OneCopy, Exists
<1> QED BY <1>1, <1>3, <1>4, <1>5, <1>6 DEF LineInv, CopyInv, Family, Unborn, m

LEMMA LineNext == ForkInv /\ ForkInv' /\ LineInv /\ CopyInv /\ [Next]_vars => LineInv' /\ CopyInv'
<1> SUFFICES ASSUME ForkInv, ForkInv', LineInv, CopyInv, Next PROVE LineInv' /\ CopyInv'
  <2>1. ASSUME UNCHANGED vars, LineInv, CopyInv PROVE LineInv' /\ CopyInv'
    BY <2>1 DEF vars, LineInv, CopyInv, OneCopy, Owned, Listed, Family, Single, Serves,
                Started, IsOpen, Exists, Unborn
  <2> QED BY <2>1
<1>0. /\ mem \in [Proc -> Memory] /\ alive \in SUBSET Proc /\ TypeOK /\ TypeOK'
      /\ \A p \in alive : /\ mem[p] \in Memory /\ Sane(mem[p], p, alive) /\ Good(mem[p], p)
                          /\ Family(mem[p], p, watched)
  BY DEF ForkInv, TypeOK, LineInv, CopyInv, Sane
<1>a. ASSUME NEW p \in alive, ~Started(mem[p], p)
      PROVE  \A x \in Obj : watched[[proc |-> p, obj |-> x]] = {}
  <2> SUFFICES ASSUME NEW x \in Obj PROVE watched[[proc |-> p, obj |-> x]] = {}
    OBVIOUS
  <2>1. [proc |-> p, obj |-> x] \in Inst /\ [proc |-> p, obj |-> x].proc = p
    BY <1>0 DEF Inst
  <2> QED BY <1>a, <2>1 DEF LineInv, Unborn
<1>1. ASSUME NEW p \in Proc, NEW o \in Obj, Look(p, o)
      PROVE  LineInv' /\ CopyInv'
  <2> DEFINE r == Check(mem[p], p, o)
  <2>1. /\ p \in alive /\ Exists(mem[p], o) /\ mem' = [mem EXCEPT ![p] = r]
        /\ UNCHANGED <<alive, watched>>
    BY <1>1 DEF Look
  <2>2. r \in Memory
    BY <1>0, <2>1, CheckFacts
  <2>3. Sane(r, p, alive) /\ Family(r, p, watched) /\ mem[p].reset \subseteq r.reset
    BY <1>0, <1>a, <2>1, CheckLine
  <2> HIDE DEF r
  <2> QED BY <1>0, <2>1, <2>2, <2>3, LineStep
<1>2. ASSUME NEW p \in Proc, NEW o \in Obj, CheckFails(p, o)
      PROVE  LineInv' /\ CopyInv'
  <2> DEFINE m == mem[p]
             file == [i \in Io |-> IF m.copies[i] # Nil THEN Nil ELSE m.file[i]]
             copies == [i \in Io |-> Nil]
             r == [m EXCEPT !.file = file, !.copies = copies, !.marks = {}]
  <2>1. p \in alive /\ m \in Memory /\ Sane(m, p, alive) /\ Family(m, p, watched) /\ Stale(m, p, o)
    BY <1>0, <1>2 DEF CheckFails
  <2>2. mem' = [mem EXCEPT ![p] = r] /\ UNCHANGED <<alive, watched>>
    BY <1>2 DEF CheckFails
  <2>3. /\ r \in Memory /\ r.io = m.io /\ r.pid = m.pid /\ r.file = file /\ r.copies = copies
        /\ r.reset = m.reset
    BY <2>1 DEF Memory
  <2>4. /\ \A i \in Io : file[i] = IF m.copies[i] # Nil THEN Nil ELSE m.file[i]
        /\ \A i \in Io : copies[i] = Nil
    OBVIOUS
  <2> HIDE DEF r, file, copies, m
  <2>5. ~(m.reset \subseteq {p} /\ Started(m, p))
    BY <2>1 DEF Family, Single, Stale
  <2>6. Family(r, p, watched)
    BY <2>3, <2>5 DEF Family, Started
  <2>7. OneCopy(r)
    BY <2>3, <2>4 DEF OneCopy
  <2>8. Listed(r)
    BY <2>1, <2>3, <2>4, Typed DEF Sane, Listed, IsOpen
  <2>9. Owned(r, p, alive)
    BY <2>1, <2>3 DEF Sane, Owned, Started, Exists
  <2> QED BY <1>0, <2>1, <2>2, <2>3, <2>6, <2>7, <2>8, <2>9, LineStep DEF Sane, m
<1>3. ASSUME NEW p \in Proc, NEW o \in Obj, NEW fd \in Fd, NEW on \in BOOLEAN,
             Change(p, o, fd, on)
      PROVE  LineInv' /\ CopyInv'
  <2> DEFINE m == Check(mem[p], p, o)
             inst == m.file[m.io[o]]
             marks == IF on THEN m.marks \cup {fd} ELSE m.marks \ {fd}
             r == [m EXCEPT !.marks = marks]
             upd == [watched EXCEPT ![inst] = IF on THEN @ \cup {fd} ELSE @ \ {fd}]
  <2>1. p \in alive /\ IsOpen(m, o) /\ mem' = [mem EXCEPT ![p] = r] /\ watched' = upd
        /\ alive' = alive
    BY <1>3 DEF Change
  <2>2. Exists(mem[p], o)
    BY <2>1 DEF Check, Stale, IsOpen, Exists
  <2>3. m \in Memory /\ Good(m, p) /\ m.pid[o] = p
    BY <1>0, <2>1, CheckFacts
  <2>4. Sane(m, p, alive) /\ Family(m, p, watched) /\ mem[p].reset \subseteq m.reset
    BY <1>0, <1>a, <2>1, <2>2, CheckLine
  <2> HIDE DEF m
  <2>5. inst \in Inst /\ inst.proc = p
    BY <2>1, <2>3, Typed DEF Good, IsOpen
  <2>6. /\ r.io = m.io /\ r.pid = m.pid /\ r.file = m.file /\ r.copies = m.copies
        /\ r.closed = m.closed /\ r.reset = m.reset /\ r.marks = marks
    BY <2>3 DEF Memory
  <2>7. /\ upd[inst] = IF on THEN watched[inst] \cup {fd} ELSE watched[inst] \ {fd}
        /\ \A i \in Inst : i.proc # p => upd[i] = watched[i]
        /\ \A i \in Inst : upd[i] # {} => i = inst \/ watched[i] # {}
    BY <1>0, <2>5 DEF TypeOK
  <2> HIDE DEF r, upd, inst
  <2>8. Sane(r, p, alive) /\ Started(r, p)
    BY <2>3, <2>4, <2>6 DEF Sane, Owned, Listed, OneCopy, Started, Exists, IsOpen
  <2>9. \A x \in Obj : /\ IsOpen(r, x) <=> IsOpen(m, x)
                       /\ r.file[r.io[x]] = m.file[m.io[x]]
    BY <2>6 DEF IsOpen
  <2>10. Family(r, p, upd)
    <3> SUFFICES ASSUME m.reset \subseteq {p}
                 PROVE  Single(r, p) /\ \E k \in Obj : Serves(r, p, k, upd)
      BY <2>6 DEF Family
    <3>1. Single(m, p) /\ \E k \in Obj : Serves(m, p, k, watched)
      BY <2>3, <2>4 DEF Family, Sane, Owned
    <3>2. Single(r, p)
      BY <2>6, <2>9, <3>1 DEF Single
    <3>3. PICK k \in Obj : Serves(m, p, k, watched)
      BY <3>1
    <3>4. inst = [proc |-> p, obj |-> k] /\ m.marks = watched[inst]
      BY <2>1, <3>3 DEF Serves, inst
    <3>5. r.marks = upd[inst]
      BY <2>6, <2>7, <3>4
    <3>6. Serves(r, p, k, upd)
      BY <2>9, <3>3, <3>4, <3>5 DEF Serves
    <3> QED BY <3>2, <3>6
  <2>11. ASSUME NEW q \in alive, q # p PROVE Family(mem[q], q, upd)
    <3>1. \A k \in Obj : upd[[proc |-> q, obj |-> k]] = watched[[proc |-> q, obj |-> k]]
      <4> SUFFICES ASSUME NEW k \in Obj
                   PROVE  upd[[proc |-> q, obj |-> k]] = watched[[proc |-> q, obj |-> k]]
        OBVIOUS
      <4>1. [proc |-> q, obj |-> k] \in Inst /\ [proc |-> q, obj |-> k].proc = q
        BY <1>0 DEF Inst
      <4> QED BY <2>7, <2>11, <4>1
    <3> QED BY <1>0, <3>1 DEF Family, Serves
  <2>12. \A q \in alive : mem'[q] = IF q = p THEN r ELSE mem[q]
    BY <1>0, <2>1
  <2>13. \A q \in alive : Sane(mem'[q], q, alive) /\ Family(mem'[q], q, upd)
    BY <1>0, <2>8, <2>10, <2>11, <2>12
  <2>14. \A q \in alive : Started(mem[q], q) => Started(mem'[q], q)
    BY <2>8, <2>12
  <2>15. \A i \in Inst : upd[i] # {} => i.proc \in alive /\ Started(mem'[i.proc], i.proc)
    BY <2>1, <2>5, <2>7, <2>8, <2>12, <2>14 DEF LineInv, Unborn
  <2>16. \A q \in alive' : Owned(mem[q], q, alive)' /\ Listed(mem[q])'
    BY <2>1, <2>13 DEF Sane, Owned, Started, Exists, Listed, IsOpen
  <2>17. \A q \in alive' : Family(mem[q], q, watched)'
    BY <2>1, <2>13 DEF Family, Single, Serves, Started, IsOpen
  <2>18. Unborn'
    BY <2>1, <2>15 DEF Unborn, Started
  <2>19. CopyInv'
    BY <2>1, <2>13 DEF CopyInv, Sane, OneCopy, Exists
  <2> QED BY <2>1, <2>16, <2>17, <2>18, <2>19 DEF LineInv
<1>4. ASSUME NEW p \in Proc, NEW o \in Obj, NEW n \in Obj, Dup(p, o, n)
      PROVE  LineInv' /\ CopyInv'
  <2> DEFINE old == mem[p]
             born == [old EXCEPT !.io[n] = old.io[o], !.pid[n] = old.pid[o]]
             m == Check(born, p, n)
             opened == Copied(m, p, n)
             shut == [m EXCEPT !.closed = IF o \in @ THEN @ \cup {n} ELSE @]
  <2>0. /\ p \in alive /\ old \in Memory /\ Sane(old, p, alive) /\ Good(old, p)
        /\ Family(old, p, watched) /\ Exists(old, o) /\ ~Exists(old, n)
    BY <1>0, <1>4 DEF Dup
  <2>a. mem' = [mem EXCEPT ![p] = IF IsOpen(m, n) THEN opened ELSE shut]
        /\ UNCHANGED <<alive, watched>>
    BY <1>4 DEF Dup, Copied
  <2>b. mem'[p] \in Memory
    BY <1>0, <2>0, <2>a DEF TypeOK
  <2>c. mem'[p] = IF IsOpen(m, n) THEN opened ELSE shut
    BY <1>0, <2>0, <2>a
  <2>d. ~Started(old, p) => \A x \in Obj : watched[[proc |-> p, obj |-> x]] = {}
    BY <1>a, <2>0
  <2>1. /\ born \in Memory /\ born.file = old.file /\ born.copies = old.copies
        /\ born.marks = old.marks /\ born.closed = old.closed /\ born.reset = old.reset
        /\ born.io = [old.io EXCEPT ![n] = old.io[o]]
        /\ born.pid = [old.pid EXCEPT ![n] = old.pid[o]]
    BY <2>0 DEF Memory
  <2> HIDE DEF born, old
  <2>2. /\ \A x \in Obj : born.io[x] = IF x = n THEN old.io[o] ELSE old.io[x]
        /\ \A x \in Obj : born.pid[x] = IF x = n THEN old.pid[o] ELSE old.pid[x]
        /\ \A x \in Obj : Exists(old, x) => Exists(born, x)
        /\ Exists(born, n) /\ (Started(born, p) <=> Started(old, p)) /\ o # n
    BY <2>0, <2>1, Typed DEF Exists, Started
  <2>3. /\ \A i \in Io : old.copies[i] # n
        /\ \A x \in Obj \ {n} : old.io[x] # CopyIo(p, n)
    <3>1. CopyIo(p, n).by = "copy" /\ CopyIo(p, n).obj = n /\ CopyIo(p, n) # Nil
      BY IoFacts DEF CopyIo
    <3> QED BY <2>0, <3>1, Typed DEF Sane, OneCopy, Owned
  <2>4. /\ \A x \in Obj \ {n} : /\ IsOpen(born, x) <=> IsOpen(old, x)
                                /\ born.file[born.io[x]] = old.file[old.io[x]]
        /\ IsOpen(born, n) <=> IsOpen(old, o)
        /\ born.file[born.io[n]] = old.file[old.io[o]]
    BY <2>1, <2>2 DEF IsOpen
  <2>5. Sane(born, p, alive)
    <3>1. OneCopy(born)
      BY <2>0, <2>1, <2>2, Typed DEF Sane, OneCopy
    <3>2. Listed(born)
      BY <2>0, <2>1, <2>2, <2>4 DEF Sane, Listed
    <3>3. ASSUME NEW x \in Obj, born.io[x] # Nil
          PROVE  /\ born.io[x].proc \in alive /\ born.io[x].by # "check"
                 /\ born.io[x].proc = p => Started(born, p)
                 /\ born.io[x].by = "copy" => Exists(born, born.io[x].obj)
      <4>1. PICK y \in Obj : born.io[x] = old.io[y]
        BY <2>2
      <4>2. born.io[x].obj \in Obj
        BY <2>0, <3>3, <4>1, Typed DEF Io
      <4> QED BY <2>0, <2>2, <3>3, <4>1, <4>2 DEF Sane, Owned
    <3>4. Owned(born, p, alive)
      BY <2>0, <2>1, <2>2, <3>3 DEF Sane, Owned
    <3> QED BY <3>1, <3>2, <3>4 DEF Sane
  <2>6. Good(born, p)
    BY <2>0, <2>2, <2>4 DEF Good
  <2>7. m \in Memory /\ (IsOpen(m, n) => m.pid[n] = p)
    BY <2>1, <2>6, CheckFacts
  <2>8. ASSUME old.reset \subseteq {p}, Started(old, p)
        PROVE  ~Stale(born, p, n)
    BY <2>0, <2>2, <2>4, <2>8 DEF Family, Single, Stale
  <2>9. CASE Stale(born, p, n)
    <3>1. m = Reinit(born, p, n)
      BY <2>9 DEF Check
    <3>2. /\ m.pid = [born.pid EXCEPT ![n] = p]
          /\ m.io = [born.io EXCEPT ![n] = NewIo(p, n)]
          /\ m.file[NewIo(p, n)] = [proc |-> p, obj |-> n]
          /\ \A i \in Io : m.copies[i] # Nil =>
                i = CheckIo(p, m.copies[i]) /\ \E j \in Io : born.copies[j] = m.copies[i]
      BY <2>1, <3>1, ReinitFacts
    <3>3. Sane(m, p, alive) /\ Family(m, p, watched) /\ born.reset \subseteq m.reset
      <4>1. /\ born \in Memory /\ alive \in SUBSET Proc /\ p \in alive
            /\ Sane(born, p, alive) /\ Exists(born, n)
        BY <1>0, <2>0, <2>1, <2>2, <2>5
      <4>2. born.reset \subseteq {p} => ~Started(born, p)
        BY <2>1, <2>2, <2>8, <2>9
      <4>3. ~Started(born, p) => \A x \in Obj : watched[[proc |-> p, obj |-> x]] = {}
        BY <2>2, <2>d
      <4> HIDE DEF m
      <4> QED BY ONLY <3>1, <4>1, <4>2, <4>3, ReinitLine, n \in Obj
    <3>4. NewIo(p, n) # Nil /\ [proc |-> p, obj |-> n] # Nil
      BY IoFacts
    <3> HIDE DEF m
    <3>5. m.io[n] = NewIo(p, n) /\ \A x \in Obj \ {n} : m.io[x] = old.io[x]
      BY <2>1, <2>2, <3>2, Typed
    <3>6. IsOpen(m, n)
      BY <3>2, <3>4, <3>5 DEF IsOpen
    <3>7. \A i \in Io : m.copies[i] # n
      BY <2>1, <2>3, <3>2, Typed
    <3>8. \A x \in Obj \ {n} : m.io[x] # CopyIo(p, n)
      BY <2>3, <3>5
    <3>9. m.reset \subseteq {p} => SingleBut(m, p, n) /\ \E k \in Obj : Serves(m, p, k, watched)
      BY <2>7, <3>3, <3>6 DEF Family, Single, SingleBut, Sane, Owned
    <3>10. Sane(opened, p, alive) /\ Family(opened, p, watched) /\ opened.reset = m.reset
      <4>1. m \in Memory /\ alive \in SUBSET Proc /\ p \in alive /\ m.pid[n] = p
        BY <1>0, <2>0, <2>7, <3>6
      <4> QED BY ONLY <3>3, <3>6, <3>7, <3>8, <3>9, <4>1, CopyLine, n \in Obj
    <3>11. mem'[p] = opened /\ mem' = [mem EXCEPT ![p] = opened]
      BY <2>a, <2>c, <3>6
    <3> HIDE DEF opened
    <3> QED BY <1>0, <2>0, <2>1, <2>a, <2>b, <3>3, <3>10, <3>11, LineStep DEF old
  <2>10. CASE ~Stale(born, p, n) /\ IsOpen(born, n)
    <3>1. m = born
      BY <2>10 DEF Check
    <3>2. born.pid[n] = p
      BY <2>7, <2>10, <3>1
    <3>3. ASSUME born.reset \subseteq {p}
          PROVE  SingleBut(born, p, n) /\ \E k \in Obj : Serves(born, p, k, watched)
      <4>1. Started(old, p)
        BY <2>2, <2>5, <3>2 DEF Sane, Owned
      <4>2. Single(old, p) /\ \E k \in Obj : Serves(old, p, k, watched)
        BY <2>0, <2>1, <3>3, <4>1 DEF Family
      <4>3. SingleBut(born, p, n)
        BY <2>1, <2>2, <2>4, <3>2, <4>2 DEF Single, SingleBut
      <4>4. PICK k \in Obj : Serves(old, p, k, watched)
        BY <4>2
      <4>5. Serves(born, p, k, watched)
        BY <2>1, <2>4, <4>4 DEF Serves
      <4> QED BY <4>3, <4>5
    <3> HIDE DEF m
    <3>4. \A x \in Obj \ {n} : born.io[x] # CopyIo(p, n)
      BY <2>2, <2>3
    <3>5. \A i \in Io : born.copies[i] # n
      BY <2>1, <2>3
    <3>6. /\ Sane(m, p, alive) /\ IsOpen(m, n) /\ m.pid[n] = p
          /\ \A x \in Obj \ {n} : m.io[x] # CopyIo(p, n)
          /\ \A i \in Io : m.copies[i] # n
          /\ m.reset \subseteq {p} => SingleBut(m, p, n) /\ \E k \in Obj : Serves(m, p, k, watched)
      BY <2>5, <2>10, <3>1, <3>2, <3>3, <3>4, <3>5
    <3>10. Sane(opened, p, alive) /\ Family(opened, p, watched) /\ opened.reset = m.reset
      <4>1. m \in Memory /\ alive \in SUBSET Proc /\ p \in alive
        BY <1>0, <2>0, <2>7
      <4> QED BY ONLY <3>6, <4>1, CopyLine, n \in Obj
    <3>11. mem'[p] = opened /\ mem' = [mem EXCEPT ![p] = opened]
      BY <2>a, <2>c, <3>6
    <3> HIDE DEF opened
    <3> QED BY <1>0, <2>0, <2>1, <2>a, <2>b, <3>1, <3>10, <3>11, LineStep DEF old
  <2>11. CASE ~Stale(born, p, n) /\ ~IsOpen(born, n)
    <3>1. m = born
      BY <2>11 DEF Check
    <3> HIDE DEF m
    <3>2. mem' = [mem EXCEPT ![p] = shut] /\ mem'[p] = shut
      BY <2>11, <2>a, <2>c, <3>1
    <3>3. /\ shut.io = born.io /\ shut.pid = born.pid /\ shut.file = born.file
          /\ shut.copies = born.copies /\ shut.marks = born.marks /\ shut.reset = born.reset
          /\ shut.closed = IF o \in old.closed THEN old.closed \cup {n} ELSE old.closed
      BY <2>1, <2>7, <3>1 DEF Memory
    <3> HIDE DEF shut
    <3>4. \A x \in Obj : /\ IsOpen(shut, x) <=> IsOpen(born, x)
                         /\ shut.file[shut.io[x]] = born.file[born.io[x]]
      BY <3>3 DEF IsOpen
    <3>5. Sane(shut, p, alive) /\ (Started(shut, p) <=> Started(old, p))
      BY <2>2, <2>5, <3>3, <3>4 DEF Sane, Owned, Listed, OneCopy, Started, Exists
    <3>6. ASSUME Single(old, p) PROVE Single(shut, p)
      <4>1. \A x \in Obj : IsOpen(shut, x) => x # n /\ IsOpen(old, x)
        BY <2>4, <2>11, <3>4
      <4>2. ~IsOpen(old, o)
        BY <2>4, <2>11
      <4>3. \A x \in Obj : shut.pid[x] = p /\ x \notin shut.closed => IsOpen(shut, x)
        BY <2>2, <2>4, <3>3, <3>4, <3>6, <4>2 DEF Single
      <4>4. \A x, y \in Obj : IsOpen(shut, x) /\ shut.io[x] = shut.io[y] => x = y
        BY <2>2, <3>3, <3>6, <4>1, <4>2 DEF Single
      <4>5. \A x \in Obj : IsOpen(shut, x) => shut.pid[x] = p
        BY <2>2, <3>3, <3>6, <4>1 DEF Single
      <4> QED BY <4>3, <4>4, <4>5 DEF Single
    <3>7. \A k \in Obj : Serves(old, p, k, watched) => Serves(shut, p, k, watched)
      BY <2>1, <2>4, <2>11, <3>3, <3>4 DEF Serves
    <3>8. Family(shut, p, watched)
      BY <2>0, <2>1, <3>3, <3>5, <3>6, <3>7 DEF Family
    <3> QED BY <1>0, <2>0, <2>1, <2>a, <2>b, <3>2, <3>3, <3>5, <3>8, LineStep DEF old
  <2> QED BY <2>9, <2>10, <2>11
<1>5. ASSUME NEW p \in Proc, NEW o \in Obj, Close(p, o)
      PROVE  LineInv' /\ CopyInv'
  <2> DEFINE m == mem[p]
             io == m.io[o]
             r == [m EXCEPT !.copies[io] = Nil, !.file[io] = Nil, !.closed = @ \cup {o}]
  <2>0. /\ p \in alive /\ m \in Memory /\ Sane(m, p, alive) /\ Family(m, p, watched)
        /\ IsOpen(m, o)
    BY <1>0, <1>5 DEF Close
  <2>a. io \in Io /\ m.copies \in [Io -> Obj \cup {Nil}] /\ m.file \in [Io -> Inst \cup {Nil}]
    BY <2>0, Typed DEF IsOpen
  <2>1. mem' = [mem EXCEPT ![p] = r] /\ UNCHANGED <<alive, watched>>
    BY <1>0, <1>5 DEF Close
  <2>2. /\ r \in Memory /\ r.io = m.io /\ r.pid = m.pid /\ r.marks = m.marks
        /\ r.file = [m.file EXCEPT ![io] = Nil] /\ r.reset = m.reset
        /\ r.copies = [m.copies EXCEPT ![io] = Nil] /\ r.closed = m.closed \cup {o}
    BY <2>0, <2>a DEF Memory
  <2> HIDE DEF r
  <2>3. /\ \A i \in Io : r.file[i] = IF i = io THEN Nil ELSE m.file[i]
        /\ \A i \in Io : r.copies[i] = IF i = io THEN Nil ELSE m.copies[i]
    BY <2>a, <2>2
  <2>4. \A x \in Obj : /\ IsOpen(r, x) <=> IsOpen(m, x) /\ m.io[x] # io
                       /\ IsOpen(r, x) => r.file[r.io[x]] = m.file[m.io[x]]
    BY <2>0, <2>2, <2>3, Typed DEF IsOpen
  <2> HIDE DEF m
  <2>5. OneCopy(r)
    BY <2>0, <2>2, <2>3 DEF Sane, OneCopy, Exists
  <2>6. Listed(r)
    BY <2>0, <2>2, <2>3, <2>4, Typed DEF Sane, Listed, IsOpen
  <2>7. Owned(r, p, alive)
    BY <2>0, <2>2 DEF Sane, Owned, Started, Exists
  <2>8. Single(m, p) => Single(r, p)
    BY <2>0, <2>2, <2>4 DEF Single
  <2>9. \A k \in Obj : Serves(m, p, k, watched) => Serves(r, p, k, watched)
    BY <2>2, <2>4 DEF Serves
  <2>10. Family(r, p, watched)
    BY <2>0, <2>2, <2>8, <2>9 DEF Family, Started
  <2> QED BY <1>0, <2>0, <2>1, <2>2, <2>5, <2>6, <2>7, <2>10, LineStep DEF Sane, m
<1>6. ASSUME NEW p \in Proc, NEW c \in Proc, Fork(p, c)
      PROVE  LineInv' /\ CopyInv'
  <2>1. /\ p \in alive /\ c \notin alive /\ alive' = alive \cup {c}
        /\ mem' = [mem EXCEPT ![c] = mem[p]] /\ watched' = watched
    BY <1>6 DEF Fork
  <2>2. \A q \in alive' : mem'[q] = IF q = c THEN mem[p] ELSE mem[q]
    BY <1>0, <2>1
  <2>3. ~Started(mem[p], c)
    BY <1>0, <2>1 DEF Sane, Owned, Started, LineInv
  <2>4. Sane(mem[p], c, alive \cup {c}) /\ Family(mem[p], c, watched)
    <3>1. Family(mem[p], c, watched) /\ Listed(mem[p]) /\ OneCopy(mem[p])
      BY <1>0, <2>1, <2>3 DEF Family, Sane
    <3>2. Owned(mem[p], c, alive \cup {c})
      <4>1. Owned(mem[p], p, alive) /\ Nil \notin Proc
        BY <1>0, <2>1, ConstantsOK DEF Sane
      <4> QED BY <2>1, <4>1, ConstantsOK DEF Owned
    <3> QED BY <3>1, <3>2 DEF Sane
  <2>5. \A q \in alive : Sane(mem[q], q, alive \cup {c}) /\ Family(mem[q], q, watched)
    BY <1>0 DEF Sane, Owned
  <2>6. \A q \in alive' : Sane(mem'[q], q, alive') /\ Family(mem'[q], q, watched)
    BY <2>1, <2>2, <2>4, <2>5
  <2>7. \A q \in alive' : Owned(mem[q], q, alive)' /\ Listed(mem[q])'
    BY <2>6 DEF Sane, Owned, Started, Exists, Listed, IsOpen
  <2>8. \A q \in alive' : Family(mem[q], q, watched)'
    BY <2>1, <2>6 DEF Family, Single, Serves, Started, IsOpen
  <2>9. Unborn' /\ Root \in alive'
    BY <2>1, <2>2 DEF LineInv, Unborn, Started
  <2>10. CopyInv'
    BY <2>6 DEF CopyInv, Sane, OneCopy, Exists
  <2> QED BY <2>7, <2>8, <2>9, <2>10 DEF LineInv
<1>7. ASSUME NEW p \in Proc, NEW io \in Io, Collect(p, io)
      PROVE  LineInv' /\ CopyInv'
  <2> DEFINE m == mem[p]
             r == [m EXCEPT !.file[io] = Nil]
  <2>0. /\ p \in alive /\ m \in Memory /\ Sane(m, p, alive) /\ Family(m, p, watched)
        /\ \A x \in Obj : m.io[x] # io
    BY <1>0, <1>7 DEF Collect, Garbage
  <2>1. mem' = [mem EXCEPT ![p] = r] /\ UNCHANGED <<alive, watched>>
    BY <1>0, <1>7 DEF Collect
  <2>2. /\ r \in Memory /\ r.io = m.io /\ r.pid = m.pid /\ r.marks = m.marks
        /\ r.file = [m.file EXCEPT ![io] = Nil] /\ r.reset = m.reset
        /\ r.copies = m.copies /\ r.closed = m.closed
    BY <2>0 DEF Memory
  <2> HIDE DEF r
  <2>3. \A i \in Io : r.file[i] = IF i = io THEN Nil ELSE m.file[i]
    BY <2>0, <2>2, Typed
  <2>4. \A x \in Obj : /\ IsOpen(r, x) <=> IsOpen(m, x)
                       /\ IsOpen(r, x) => r.file[r.io[x]] = m.file[m.io[x]]
    BY <2>0, <2>2, <2>3, Typed DEF IsOpen
  <2> HIDE DEF m
  <2>5. Sane(r, p, alive)
    BY <2>0, <2>2, <2>4 DEF Sane, Listed, Owned, Started, Exists, OneCopy
  <2>6. Family(r, p, watched)
    BY <2>0, <2>2, <2>4 DEF Family, Started, Single, Serves
  <2> QED BY <1>0, <2>0, <2>1, <2>2, <2>5, <2>6, LineStep DEF m
<1> QED BY <1>1, <1>2, <1>3, <1>4, <1>5, <1>6, <1>7 DEF Next

FullInv == ForkInv /\ LineInv /\ CopyInv

LEMMA FullInvariant == Spec => []FullInv
<1>1. Init => FullInv
  BY ForkInit, LineInit DEF FullInv
<1>2. FullInv /\ [Next]_vars => FullInv'
  BY ForkNext, LineNext DEF FullInv
<1> QED BY <1>1, <1>2, PTL DEF Spec

\* The memories, interest lists and process sets keep their types.
THEOREM TypeCorrect == Spec => []TypeOK
<1>1. ForkInv => TypeOK
  BY DEF ForkInv
<1> QED BY <1>1, ForkInit, ForkNext, PTL DEF Spec

\* An object that a process has created or used stays open there until #close,
\* however the other copies are checked, closed, copied, collected and forked:
\* only the first __ep_reinit of a line of descent closes other objects' @io,
\* and it runs before any of them belongs to the process.
THEOREM UsedObjectsOpen == Spec => []UsedStaysOpen
<1>1. FullInv => UsedStaysOpen
  BY DEF FullInv, LineInv, Owned, Family, Single, UsedStaysOpen, FirstFork
<1> QED BY <1>1, FullInvariant, PTL

\* @marks, shared by all copies, is the interest list behind every open object
\* that belongs to its process: __ep_reinit empties it exactly when the epoll
\* instance is new, and no other process changes that instance.
THEOREM MarksDescribe == Spec => []MarksMatch
<1>1. ASSUME FullInv PROVE MarksMatch
  <2> SUFFICES ASSUME NEW p \in alive, NEW o \in Obj, FirstFork(p), IsOpen(mem[p], o),
                      mem[p].pid[o] = p
               PROVE  mem[p].marks = watched[mem[p].file[mem[p].io[o]]]
    BY DEF MarksMatch
  <2>1. \E r \in Obj : Serves(mem[p], p, r, watched)
    BY <1>1 DEF FullInv, LineInv, Owned, Family, FirstFork
  <2> QED BY <2>1 DEF Serves
<1> QED BY <1>1, FullInvariant, PTL

\* At most two descriptors per object: one in its @io and one in @copies.
LEMMA TwoEach ==
    ASSUME NEW m \in Memory, OneCopy(m)
    PROVE  Cardinality({i \in Io : m.file[i] # Nil /\ ~Garbage(m, i)})
             <= 2 * Cardinality({o \in Obj : Exists(m, o)})
<1> DEFINE E == {o \in Obj : Exists(m, o)}
           A == {m.io[o] : o \in E}
           B == {i \in Io : m.copies[i] # Nil}
           S == {i \in Io : m.file[i] # Nil /\ ~Garbage(m, i)}
           f == [o \in E |-> m.io[o]]
           g == [i \in B |-> m.copies[i]]
<1> SUFFICES Cardinality(S) <= 2 * Cardinality(E)
  BY Zenon
<1>1. IsFiniteSet(E) /\ Cardinality(E) \in Nat
  BY ConstantsOK, FS_Subset, FS_CardinalityType
<1>2. IsFiniteSet(A) /\ Cardinality(A) <= Cardinality(E) /\ Cardinality(A) \in Nat
  <2>1. f \in Surjection(E, A)
    BY DEF Surjection
  <2> QED BY <1>1, <2>1, FS_Surjection, FS_CardinalityType
<1>3. IsFiniteSet(B) /\ Cardinality(B) <= Cardinality(E) /\ Cardinality(B) \in Nat
  <2>1. \A i \in B : m.copies[i] \in E
    BY Typed DEF OneCopy
  <2>2. \A i, j \in B : m.copies[i] = m.copies[j] => i = j
    BY DEF OneCopy
  <2> HIDE DEF B, E
  <2>3. g \in [B -> E] /\ \A i, j \in B : g[i] = g[j] => i = j
    BY <2>1, <2>2
  <2>4. g \in Injection(B, E)
    BY <2>3 DEF Injection, IsInjective
  <2> QED BY <1>1, <2>4, FS_Injection, FS_CardinalityType
<1>4. S \subseteq A \cup B
  <2> SUFFICES ASSUME NEW i \in Io, ~Garbage(m, i) PROVE i \in A \cup B
    OBVIOUS
  <2>1. CASE m.copies[i] # Nil
    BY <2>1
  <2>2. CASE m.copies[i] = Nil
    <3>1. PICK o \in Obj : m.io[o] = i
      BY <2>2 DEF Garbage
    <3>2. o \in E
      BY <3>1, ConstantsOK DEF Exists
    <3> QED BY <3>1, <3>2
  <2> QED BY <2>1, <2>2
<1> HIDE DEF A, B, S, E
<1>5. IsFiniteSet(A \cup B) /\ Cardinality(A \cup B) <= Cardinality(A) + Cardinality(B)
  <2>1. A \cap B \in SUBSET A
    OBVIOUS
  <2>2. IsFiniteSet(A \cap B) /\ Cardinality(A \cap B) \in Nat
    BY <1>2, <2>1, FS_Subset, FS_CardinalityType
  <2>3. /\ IsFiniteSet(A \cup B)
        /\ Cardinality(A \cup B) = Cardinality(A) + Cardinality(B) - Cardinality(A \cap B)
    BY <1>2, <1>3, FS_Union
  <2> QED BY <1>2, <1>3, <2>2, <2>3
<1>6. Cardinality(S) <= Cardinality(A \cup B) /\ Cardinality(S) \in Nat /\ Cardinality(A \cup B) \in Nat
  BY <1>4, <1>5, FS_Subset, FS_CardinalityType
<1> QED BY <1>1, <1>2, <1>3, <1>5, <1>6

\* Descriptors do not pile up, in any process of any generation and even when
\* re-initializations fail: __ep_reinit replaces @copies by one duplicate per
\* object, and what neither @copies nor an object holds is left to the garbage
\* collector.
THEOREM DescriptorsBounded == Spec => []DescriptorBound
<1>1. FullInv => DescriptorBound
  BY TwoEach DEF FullInv, ForkInv, TypeOK, CopyInv, DescriptorBound
<1> QED BY <1>1, FullInvariant, PTL
=============================================================================
