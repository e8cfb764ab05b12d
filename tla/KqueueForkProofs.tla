-------------------------- MODULE KqueueForkProofs --------------------------
(***************************************************************************)
(* Proofs about KqueueFork: objects in use reach their kqueue (Attached),  *)
(* files of the application stay open (FilesSafe) and kqueue descriptors   *)
(* have an owner (NoLeak), for any number of objects, numbers and failures *)
(* and any change lists.                                                   *)
(*                                                                         *)
(* The invariant tells the process that has inherited its Kqueue::IO       *)
(* objects and not yet run __kq_check from one whose open Kqueue::IO       *)
(* objects are its own.  In the first one they are all in @copies, so that *)
(* the first __kq_check disowns every one of them; in the second one, what *)
(* a finalizer or #close closes is the number of a kqueue.                 *)
(***************************************************************************)
EXTENDS KqueueFork, SequenceTheorems, FiniteSetTheorems, WellFoundedInduction, TLAPS

(* The inductive invariant, for the memory m of generation g.              *)

\* Kqueue::IO i is open, and would close its number.
Holds(m, i) == m.ios[i] # Nil /\ m.ios[i].num # Nil
Owns(m, i) == Holds(m, i) /\ m.ios[i].auto

Listed(m, i) == \E j \in DOMAIN m.copies : m.copies[j].io = i

\* It is open and will be closed by this process, or is used in it.
Mine(m, g, i) == Holds(m, i) /\ (m.ios[i].auto \/ \E o \in Obj : m.pid[o] = g /\ m.io[o] = i)

\* References are to Kqueue::IO objects that are there.
RefInv(m) ==
    /\ \A o \in Obj : m.io[o] # Nil => m.ios[m.io[o]] # Nil
    /\ \A j \in DOMAIN m.copies : m.ios[m.copies[j].io] # Nil

\* No two objects of S have the same open Kqueue::IO.
Distinct(m, S) == \A o, p \in S : IsOpen(m, o) /\ m.io[o] = m.io[p] => o = p

\* @pid is that of this process or of one before it.
PidInv(m, g) ==
    \A o \in Obj : /\ m.pid[o] # Nil => m.pid[o] <= g
                   /\ m.io[o] # Nil => m.pid[o] # Nil

\* An object that was used here reaches its kqueue unless it was closed.
UsedInv(m, g) ==
    \A o \in Obj : m.pid[o] = g =>
        /\ IsOpen(m, o) => m.table[m.ios[m.io[o]].num] = m.given[o]
        /\ ~IsOpen(m, o) => o \in m.closed

\* The numbers of the Kqueue::IO objects of this process are of kqueues, and each
\* has its own.
OwnInv(m, g) ==
    /\ \A i \in Io : Mine(m, g, i) => m.table[m.ios[i].num] \in Queue
    /\ \A i, j \in Io :
          Mine(m, g, i) /\ Mine(m, g, j) /\ m.ios[i].num = m.ios[j].num => i = j

\* Before the first __kq_check of a child there is no kqueue, and nothing has
\* been used.
InheritedInv(m, g) ==
    /\ \A o \in Obj : m.pid[o] # g
    /\ \A n \in Num : m.table[n] \notin Queue

\* A kqueue descriptor has an owner or is in X, the descriptors given up.
OwnedInv(m, X) ==
    \A n \in Num : m.table[n] \in Queue => n \in X \/ \E i \in Io : Owns(m, i) /\ m.ios[i].num = n

\* What holds of a memory, after k re-initializations that have
\* given up the descriptors X, even while #dup has not
\* given the copy its own Kqueue::IO, and what holds between methods.
BaseInv(m, g, k, X) ==
    /\ m \in Memory
    /\ RefInv(m) /\ PidInv(m, g) /\ UsedInv(m, g)
    /\ IF g > 0 /\ k = 0 THEN InheritedInv(m, g) ELSE OwnInv(m, g)
    /\ k = 0 => \A i \in Io : Owns(m, i) => Listed(m, i)
    /\ OwnedInv(m, X) /\ (k <= 1 => X = {})

MemInv(m, g, k, X) == BaseInv(m, g, k, X) /\ Distinct(m, Obj)

\* The state of a protected process.
SafeInv ==
    /\ gen \in Gen /\ inits \in 0..2 /\ (gen = 0 => inits = 0)
    /\ MemInv(mem, gen, inits, orphans)
    /\ files \subseteq Num /\ \A n \in files : mem.table[n] = File
    /\ regs = told

KqInv == Protected => SafeInv

----------------------------------------------------------------------------
(* Numbers in ascending order.                                             *)

\* A set of naturals has a least member.
LEMMA Least ==
    ASSUME NEW S, S \subseteq Nat, S # {}
    PROVE  \E x \in S : \A y \in S : x <= y
<1> DEFINE R == {ss \in Nat \X Nat : ss[1] < ss[2]}
<1>1. IsWellFoundedOn(R, Nat)
  BY NatLessThanWellFounded DEF OpToRel
<1>2. \A x, y \in Nat : y < x => <<y, x>> \in R
  OBVIOUS
<1> HIDE DEF R
<1>3. PICK x \in S : \A y \in S : <<y, x>> \notin R
  BY <1>1, WFMin
<1>4. \A y \in S : x <= y
  <2> SUFFICES ASSUME NEW y \in S
               PROVE  x <= y
    OBVIOUS
  <2>1. x \in Nat /\ y \in Nat /\ ~(y < x)
    BY <1>2, <1>3
  <2>2. QED
    BY <2>1
<1>5. QED
  BY <1>4

\* The members of S below n.
Below(S, n) == {x \in S : x < n}

LEMMA BelowFinite ==
    ASSUME NEW S, IsFiniteSet(S), NEW n
    PROVE  IsFiniteSet(Below(S, n)) /\ Cardinality(Below(S, n)) \in Nat
<1>1. Below(S, n) \in SUBSET S
  BY DEF Below
<1>2. IsFiniteSet(Below(S, n))
  BY <1>1, FS_Subset
<1>3. QED
  BY <1>2, FS_CardinalityType

\* A finite set of naturals has a k-th member, if it is large enough: below the
\* first number with more than k members below it, there is one more than below
\* its predecessor.
LEMMA NthExists ==
    ASSUME NEW S, S \subseteq Nat, IsFiniteSet(S), NEW top \in Nat, \A x \in S : x < top,
           NEW k \in Nat, k < Cardinality(S)
    PROVE  \E n \in S : Cardinality({x \in S : x < n}) = k
<1> DEFINE Over == {n \in Nat : Cardinality(Below(S, n)) > k}
<1>1. top \in Over
  <2>1. Below(S, top) = S
    BY DEF Below
  <2>2. Cardinality(S) \in Nat
    BY FS_CardinalityType
  <2>3. QED
    BY <2>1, <2>2
<1>2. PICK m \in Over : \A y \in Over : m <= y
  <2>1. Over \subseteq Nat /\ Over # {}
    BY <1>1
  <2> HIDE DEF Over
  <2>2. QED
    BY <2>1, Least
<1>3. m \in Nat /\ Cardinality(Below(S, m)) > k
  BY <1>2
<1>4. m # 0
  <2>1. \A x \in Nat : ~(x < 0)
    OBVIOUS
  <2>2. Below(S, 0) = {}
    BY <2>1 DEF Below
  <2>3. QED
    BY <1>3, <2>2, FS_EmptySet
<1>5. m - 1 \in Nat /\ m - 1 \notin Over
  BY <1>2, <1>3, <1>4
<1>6. Cardinality(Below(S, m - 1)) \in Nat /\ Cardinality(Below(S, m - 1)) <= k
  BY <1>5, BelowFinite
<1>b. \A x \in S : x < m <=> x < m - 1 \/ x = m - 1
  <2> SUFFICES ASSUME NEW x \in S
               PROVE  x < m <=> x < m - 1 \/ x = m - 1
    OBVIOUS
  <2>1. x \in Nat
    OBVIOUS
  <2>2. QED
    BY <1>3, <2>1
<1>7. m - 1 \in S
  <2> SUFFICES ASSUME m - 1 \notin S
               PROVE  FALSE
    OBVIOUS
  <2>1. Below(S, m) = Below(S, m - 1)
    BY <1>b DEF Below
  <2>2. QED
    BY <1>3, <1>6, <2>1
<1>8. Cardinality(Below(S, m)) = Cardinality(Below(S, m - 1)) + 1
  <2>0. ~(m - 1 < m - 1)
    BY <1>3
  <2>1. Below(S, m) = Below(S, m - 1) \cup {m - 1} /\ m - 1 \notin Below(S, m - 1)
    BY <1>b, <1>7, <2>0, Zenon DEF Below
  <2>2. IsFiniteSet(Below(S, m - 1))
    BY BelowFinite
  <2>3. QED
    BY <2>1, <2>2, FS_AddElement
<1>9. Cardinality(Below(S, m - 1)) = k
  BY <1>3, <1>6, <1>8
<1>10. QED
  BY <1>7, <1>9 DEF Below

\* The k-th members of a set of numbers up to max.
LEMMA NthIs ==
    ASSUME NEW max \in Nat, NEW S, S \subseteq 1..max, NEW k \in Nat, k < Cardinality(S)
    PROVE  Nth(S, k) \in S /\ Cardinality({x \in S : x < Nth(S, k)}) = k
<1>1. S \in SUBSET (1..max) /\ 1 \in Int /\ max \in Int
  OBVIOUS
<1>2. IsFiniteSet(S)
  <2>1. IsFiniteSet(1..max)
    BY <1>1, FS_Interval
  <2>2. QED
    BY <1>1, <2>1, FS_Subset
<1>3. S \subseteq Nat /\ max + 1 \in Nat /\ \A x \in S : x < max + 1
  OBVIOUS
<1>4. \E n \in S : Cardinality({x \in S : x < n}) = k
  BY <1>2, <1>3, NthExists
<1>5. QED
  BY <1>4 DEF Nth

\* Different places are different members.
LEMMA NthDiffer ==
    ASSUME NEW max \in Nat, NEW S, S \subseteq 1..max, NEW j \in Nat, NEW k \in Nat,
           j < Cardinality(S), k < Cardinality(S), Nth(S, j) = Nth(S, k)
    PROVE  j = k
<1>1. Cardinality({x \in S : x < Nth(S, j)}) = j /\ Cardinality({x \in S : x < Nth(S, k)}) = k
  BY NthIs
<1>2. QED
  BY <1>1

\* With a free number there is a kqueue number that is not in use.
LEMMA NewQueueIs ==
    ASSUME NEW m \in Memory, FreeNum(m) # {}
    PROVE  NewQueue(m) \in Queue /\ \A n \in Num : m.table[n] # NewQueue(m)
<1> DEFINE S == {q \in Queue : \A n \in Num : m.table[n] # q}
           T == {n \in Num : m.table[n] \in Queue}
<1>1. MaxNum \in Nat /\ 1 \in Int /\ MaxNum \in Int /\ MaxNum # 0
  BY ConstantsOK
<1>2. IsFiniteSet(Num) /\ Cardinality(Num) = MaxNum /\ IsFiniteSet(Queue) /\ Cardinality(Queue) = MaxNum
  BY <1>1, FS_Interval DEF Num, Queue
<1>3. S # {}
  <2> SUFFICES ASSUME S = {}
               PROVE  FALSE
    OBVIOUS
  <2>1. PICK n \in Num : m.table[n] = Nil
    BY DEF FreeNum
  <2>2. Nil \notin Queue
    BY ConstantsOK DEF Queue
  <2>3. T \in SUBSET (Num \ {n})
    BY <2>1, <2>2
  <2>4. IsFiniteSet(Num \ {n}) /\ Cardinality(Num \ {n}) = MaxNum - 1
    BY <1>2, <2>1, FS_RemoveElement
  <2>5. IsFiniteSet(T) /\ Cardinality(T) <= MaxNum - 1
    BY <2>3, <2>4, FS_Subset
  <2>6. [t \in T |-> m.table[t]] \in Surjection(T, Queue)
    <3>1. \A q \in Queue : \E t \in T : m.table[t] = q
      OBVIOUS
    <3>2. [t \in T |-> m.table[t]] \in [T -> Queue]
      OBVIOUS
    <3> HIDE DEF T
    <3>3. QED
      BY <3>1, <3>2 DEF Surjection
  <2>7. Cardinality(Queue) <= Cardinality(T)
    BY <2>5, <2>6, FS_Surjection
  <2>8. Cardinality(T) \in Nat
    BY <2>5, FS_CardinalityType
  <2>9. QED
    BY <1>1, <1>2, <2>5, <2>7, <2>8
<1>4. 0 < Cardinality(S)
  <2>1. S \in SUBSET Queue
    OBVIOUS
  <2>2. IsFiniteSet(S)
    BY <1>2, <2>1, FS_Subset
  <2>3. Cardinality(S) \in Nat /\ Cardinality(S) # 0
    BY <1>3, <2>2, FS_CardinalityType, FS_EmptySet
  <2>4. QED
    BY <2>3
<1>5. NewQueue(m) = Nth(S, 0)
  BY DEF NewQueue
<1>6. S \subseteq 1..MaxNum /\ 0 \in Nat
  BY DEF Queue
<1>7. Nth(S, 0) \in S
  BY <1>1, <1>4, <1>6, NthIs
<1>8. QED
  BY <1>5, <1>7

----------------------------------------------------------------------------
(* What the operators on memories change.                                  *)

\* A Kqueue::IO number and its record.
LEMMA Types ==
    /\ Nil \notin Io /\ Nil \notin Num /\ Nil \notin Queue /\ Nil # File
    /\ File \notin Queue /\ Nil \notin IoObject /\ Nil \notin Gen
    /\ \A x \in IoObject : /\ x.num \in Num \cup {Nil} /\ x.auto \in BOOLEAN
                           /\ [x EXCEPT !.auto = FALSE] \in IoObject
                           /\ [x EXCEPT !.auto = FALSE].num = x.num
                           /\ [x EXCEPT !.auto = FALSE].auto = FALSE
                           /\ [x EXCEPT !.num = Nil] \in IoObject
                           /\ [x EXCEPT !.num = Nil].num = Nil
<1>1. /\ Nil \notin Io /\ Nil \notin Num /\ Nil \notin Queue /\ Nil # File
      /\ File \notin Queue /\ Nil \notin IoObject /\ Nil \notin Gen
  BY ConstantsOK DEF Io, Num, Queue, Gen
<1>2. ASSUME NEW x \in IoObject
      PROVE  /\ x.num \in Num \cup {Nil} /\ x.auto \in BOOLEAN
             /\ [x EXCEPT !.auto = FALSE] \in IoObject
             /\ [x EXCEPT !.auto = FALSE].num = x.num
             /\ [x EXCEPT !.auto = FALSE].auto = FALSE
             /\ [x EXCEPT !.num = Nil] \in IoObject
             /\ [x EXCEPT !.num = Nil].num = Nil
  BY DEF IoObject
<1>3. QED
  BY <1>1, <1>2

\* The fields of a memory.
Fields(m) ==
    /\ m.io \in [Obj -> Io \cup {Nil}] /\ m.pid \in [Obj -> Gen \cup {Nil}]
    /\ m.ios \in [Io -> IoObject \cup {Nil}]
    /\ m.copies \in Seq([io : Io, obj : Obj])
    /\ m.table \in [Num -> Queue \cup {File, Nil}]
    /\ m.given \in [Obj -> Queue \cup {Nil}] /\ m.closed \subseteq Obj

LEMMA FieldsOf ==
    ASSUME NEW m \in Memory
    PROVE  Fields(m)
BY DEF Fields, Memory

LEMMA CopyOf ==
    ASSUME NEW m \in Memory, NEW j \in DOMAIN m.copies
    PROVE  m.copies[j] \in [io : Io, obj : Obj] /\ m.copies[j].io \in Io /\ m.copies[j].obj \in Obj
<1>1. m.copies \in Seq([io : Io, obj : Obj])
  BY FieldsOf DEF Fields
<1>2. DOMAIN m.copies = 1..Len(m.copies)
  BY <1>1, LenProperties
<1>3. m.copies[j] \in [io : Io, obj : Obj]
  BY <1>1, <1>2, ElementOfSeq
<1>4. QED
  BY <1>3

\* Disown: every Kqueue::IO in @copies loses its number, and nothing else.
LEMMA DisownIs ==
    ASSUME NEW m \in Memory, RefInv(m), NEW d, d = Disown(m)
    PROVE  /\ d \in Memory
           /\ d.io = m.io /\ d.pid = m.pid /\ d.table = m.table
           /\ d.given = m.given /\ d.closed = m.closed /\ d.copies = <<>>
           /\ \A i \in Io : /\ (d.ios[i] = Nil) <=> (m.ios[i] = Nil)
                            /\ d.ios[i] # Nil => d.ios[i].num = m.ios[i].num
                            /\ Listed(m, i) => ~d.ios[i].auto
                            /\ ~Listed(m, i) => d.ios[i] = m.ios[i]
<1> DEFINE ios == [i \in Io |-> IF Listed(m, i) THEN [m.ios[i] EXCEPT !.auto = FALSE] ELSE m.ios[i]]
<1>1. \A i \in Io : i \in {m.copies[j].io : j \in DOMAIN m.copies} <=> Listed(m, i)
  BY DEF Listed
<1>2. ios = [i \in Io |-> IF i \in {m.copies[j].io : j \in DOMAIN m.copies}
                          THEN [m.ios[i] EXCEPT !.auto = FALSE] ELSE m.ios[i]]
  BY <1>1
<1>3. d = [m EXCEPT !.ios = ios, !.copies = <<>>]
  BY <1>2 DEF Disown
<1>4. \A i \in Io : m.ios[i] \in IoObject \cup {Nil} /\ (Listed(m, i) => m.ios[i] # Nil)
  BY FieldsOf DEF RefInv, Listed, Fields
<1>5. ios \in [Io -> IoObject \cup {Nil}]
  BY <1>4, Types
<1>6. \A i \in Io : ios[i] = IF Listed(m, i) THEN [m.ios[i] EXCEPT !.auto = FALSE] ELSE m.ios[i]
  OBVIOUS
<1> HIDE DEF ios
<1>7. <<>> \in Seq([io : Io, obj : Obj])
  OBVIOUS
<1>8. /\ d \in Memory
      /\ d.io = m.io /\ d.pid = m.pid /\ d.table = m.table
      /\ d.given = m.given /\ d.closed = m.closed /\ d.copies = <<>> /\ d.ios = ios
  BY <1>3, <1>5, <1>7 DEF Memory
<1>9. ASSUME NEW i \in Io
      PROVE  /\ (ios[i] = Nil) <=> (m.ios[i] = Nil)
             /\ ios[i] # Nil => ios[i].num = m.ios[i].num
             /\ Listed(m, i) => ~ios[i].auto
             /\ ~Listed(m, i) => ios[i] = m.ios[i]
  <2>1. CASE Listed(m, i)
    <3>1. ios[i] = [m.ios[i] EXCEPT !.auto = FALSE] /\ m.ios[i] \in IoObject
      BY <1>4, <1>6, <2>1
    <3>2. ios[i] \in IoObject /\ ios[i].num = m.ios[i].num /\ ios[i].auto = FALSE
      BY <3>1, Types
    <3>3. m.ios[i] # Nil /\ ios[i] # Nil
      BY <3>1, <3>2, Types
    <3>4. QED
      BY <2>1, <3>2, <3>3
  <2>2. CASE ~Listed(m, i)
    BY <1>6, <2>2
  <2>3. QED
    BY <2>1, <2>2
<1>10. QED
  BY <1>8, <1>9

\* Settled: Kqueue::IO objects that are garbage and own nothing are gone.
LEMMA SettledIs ==
    ASSUME NEW m \in Memory, NEW s, s = Settled(m)
    PROVE  /\ s \in Memory
           /\ s.io = m.io /\ s.pid = m.pid /\ s.table = m.table
           /\ s.given = m.given /\ s.closed = m.closed /\ s.copies = m.copies
           /\ \A i \in Io : s.ios[i] = m.ios[i] \/ (s.ios[i] = Nil /\ Garbage(m, i) /\ ~Owns(m, i))
<1> DEFINE ios == [i \in Io |->
              IF m.ios[i] = Nil \/ ~Garbage(m, i) \/ (m.ios[i].auto /\ m.ios[i].num # Nil)
              THEN m.ios[i] ELSE Nil]
<1>1. s = [m EXCEPT !.ios = ios]
  BY DEF Settled
<1>2. m.ios \in [Io -> IoObject \cup {Nil}]
  BY FieldsOf DEF Fields
<1>3. ios \in [Io -> IoObject \cup {Nil}]
  BY <1>2
<1>4. \A i \in Io : ios[i] = m.ios[i] \/ (ios[i] = Nil /\ Garbage(m, i) /\ ~Owns(m, i))
  BY DEF Owns, Holds
<1> HIDE DEF ios
<1>5. /\ s \in Memory
      /\ s.io = m.io /\ s.pid = m.pid /\ s.table = m.table
      /\ s.given = m.given /\ s.closed = m.closed /\ s.copies = m.copies /\ s.ios = ios
  BY <1>1, <1>3 DEF Memory
<1>6. QED
  BY <1>4, <1>5

\* The numbers and the Kqueue::IO objects that Opened takes.
Nums(m, k) == {Nth(FreeNum(m), j) : j \in 0..(k - 1)}
Ids(m, k) == {Nth(FreeIo(m), j) : j \in 0..(k - 1)}

\* The first k members of a large enough set.
LEMMA FirstOf ==
    ASSUME NEW max \in Nat, NEW S, S \subseteq 1..max, NEW k \in Nat, Cardinality(S) >= k,
           NEW j \in 0..(k - 1)
    PROVE  j \in Nat /\ j < Cardinality(S) /\ Nth(S, j) \in S
<1>1. IsFiniteSet(S)
  <2>1. IsFiniteSet(1..max) /\ S \in SUBSET (1..max)
    BY FS_Interval
  <2>2. QED
    BY <2>1, FS_Subset
<1>2. Cardinality(S) \in Nat
  BY <1>1, FS_CardinalityType
<1>3. j \in Nat /\ j < Cardinality(S)
  BY <1>2
<1>4. QED
  BY <1>3, NthIs

\* Opened: k free numbers lead to q, each with a Kqueue::IO of its own.
LEMMA OpenedIs ==
    ASSUME NEW m \in Memory, NEW q \in Queue, NEW k \in Nat, Room(m, k), NEW w, w = Opened(m, q, k)
    PROVE  /\ w \in Memory
           /\ w.io = m.io /\ w.pid = m.pid /\ w.copies = m.copies
           /\ w.given = m.given /\ w.closed = m.closed
           /\ Nums(m, k) \subseteq FreeNum(m) /\ Ids(m, k) \subseteq FreeIo(m)
           /\ \A n \in Num : w.table[n] = IF n \in Nums(m, k) THEN q ELSE m.table[n]
           /\ \A i \in Io : i \notin Ids(m, k) => w.ios[i] = m.ios[i]
           /\ \A i \in Ids(m, k) : /\ w.ios[i] \in IoObject
                                   /\ w.ios[i].auto /\ w.ios[i].num \in Nums(m, k)
           /\ \A i, j \in Ids(m, k) : w.ios[i].num = w.ios[j].num => i = j
           /\ \A n \in Nums(m, k) : \E i \in Ids(m, k) : w.ios[i].num = n
<1> DEFINE at(i) == CHOOSE j \in 0..(k - 1) : Nth(FreeIo(m), j) = i
           rec(i) == [num |-> Nth(FreeNum(m), at(i)), auto |-> TRUE]
           table == [n \in Num |-> IF n \in Nums(m, k) THEN q ELSE m.table[n]]
           ios == [i \in Io |-> IF i \in Ids(m, k) THEN rec(i) ELSE m.ios[i]]
<1>1. w = [m EXCEPT !.table = table, !.ios = ios]
  BY DEF Opened, Nums, Ids
<1>2. /\ MaxNum \in Nat /\ FreeNum(m) \subseteq 1..MaxNum /\ Cardinality(FreeNum(m)) >= k
      /\ MaxIo \in Nat /\ FreeIo(m) \subseteq 1..MaxIo /\ Cardinality(FreeIo(m)) >= k
  BY ConstantsOK DEF Room, FreeNum, FreeIo, Num, Io
<1>3. \A j \in 0..(k - 1) : /\ j \in Nat /\ j < Cardinality(FreeNum(m)) /\ j < Cardinality(FreeIo(m))
                            /\ Nth(FreeNum(m), j) \in FreeNum(m) /\ Nth(FreeIo(m), j) \in FreeIo(m)
  BY <1>2, FirstOf
<1>4. Nums(m, k) \subseteq FreeNum(m) /\ Ids(m, k) \subseteq FreeIo(m)
  BY <1>3 DEF Nums, Ids
<1>5. FreeNum(m) \subseteq Num /\ FreeIo(m) \subseteq Io
  BY DEF FreeNum, FreeIo
<1>6. \A i \in Ids(m, k) : at(i) \in 0..(k - 1) /\ Nth(FreeIo(m), at(i)) = i
  BY DEF Ids
<1>7. \A j \in 0..(k - 1) : at(Nth(FreeIo(m), j)) = j
  <2> SUFFICES ASSUME NEW j \in 0..(k - 1)
               PROVE  at(Nth(FreeIo(m), j)) = j
    OBVIOUS
  <2>1. Nth(FreeIo(m), j) \in Ids(m, k)
    BY DEF Ids
  <2> DEFINE x == at(Nth(FreeIo(m), j))
  <2>2. x \in 0..(k - 1) /\ Nth(FreeIo(m), x) = Nth(FreeIo(m), j)
    BY <1>6, <2>1
  <2> HIDE DEF x
  <2>3. x \in Nat /\ j \in Nat /\ x < Cardinality(FreeIo(m)) /\ j < Cardinality(FreeIo(m))
    BY <1>3, <2>2
  <2>4. x = j
    BY <1>2, <2>2, <2>3, NthDiffer
  <2>5. QED
    BY <2>4 DEF x
<1> HIDE DEF at
<1>8. \A i \in Ids(m, k) : rec(i) \in IoObject /\ rec(i).auto /\ rec(i).num \in Nums(m, k)
  <2> SUFFICES ASSUME NEW i \in Ids(m, k)
               PROVE  rec(i) \in IoObject /\ rec(i).auto /\ rec(i).num \in Nums(m, k)
    OBVIOUS
  <2>1. Nth(FreeNum(m), at(i)) \in Nums(m, k)
    BY <1>6 DEF Nums
  <2>2. Nth(FreeNum(m), at(i)) \in Num
    BY <1>4, <1>5, <2>1
  <2>3. QED
    BY <2>1, <2>2 DEF IoObject
<1>9. \A i, j \in Ids(m, k) : rec(i).num = rec(j).num => i = j
  <2> SUFFICES ASSUME NEW i \in Ids(m, k), NEW j \in Ids(m, k),
                      Nth(FreeNum(m), at(i)) = Nth(FreeNum(m), at(j))
               PROVE  i = j
    OBVIOUS
  <2>1. /\ at(i) \in Nat /\ at(j) \in Nat
        /\ at(i) < Cardinality(FreeNum(m)) /\ at(j) < Cardinality(FreeNum(m))
    BY <1>3, <1>6
  <2>2. at(i) = at(j)
    BY <1>2, <2>1, NthDiffer
  <2>3. QED
    BY <1>6, <2>2
<1>10. \A n \in Nums(m, k) : \E i \in Ids(m, k) : rec(i).num = n
  <2> SUFFICES ASSUME NEW j \in 0..(k - 1)
               PROVE  \E i \in Ids(m, k) : rec(i).num = Nth(FreeNum(m), j)
    BY DEF Nums
  <2>1. Nth(FreeIo(m), j) \in Ids(m, k)
    BY DEF Ids
  <2>2. rec(Nth(FreeIo(m), j)).num = Nth(FreeNum(m), j)
    BY <1>7
  <2>3. QED
    BY <2>1, <2>2
<1> HIDE DEF rec
<1>11. Fields(m)
  BY FieldsOf
<1>12. /\ table \in [Num -> Queue \cup {File, Nil}]
       /\ \A n \in Num : table[n] = IF n \in Nums(m, k) THEN q ELSE m.table[n]
  BY <1>11 DEF Fields
<1>13. /\ ios \in [Io -> IoObject \cup {Nil}]
       /\ \A i \in Io : ios[i] = IF i \in Ids(m, k) THEN rec(i) ELSE m.ios[i]
  BY <1>8, <1>11 DEF Fields
<1> HIDE DEF table, ios
<1>14. /\ w \in Memory
       /\ w.io = m.io /\ w.pid = m.pid /\ w.copies = m.copies
       /\ w.given = m.given /\ w.closed = m.closed /\ w.table = table /\ w.ios = ios
  BY <1>1, <1>12, <1>13 DEF Memory
<1>15. \A i \in Ids(m, k) : w.ios[i] = rec(i)
  BY <1>4, <1>5, <1>13, <1>14
<1>16. \A i \in Ids(m, k) : /\ w.ios[i] \in IoObject
                            /\ w.ios[i].auto /\ w.ios[i].num \in Nums(m, k)
  BY <1>8, <1>15
<1>17. \A i, j \in Ids(m, k) : w.ios[i].num = w.ios[j].num => i = j
  BY <1>9, <1>15
<1>18. \A n \in Nums(m, k) : \E i \in Ids(m, k) : w.ios[i].num = n
  BY <1>10, <1>15
<1>19. QED
  BY <1>4, <1>12, <1>13, <1>14, <1>16, <1>17, <1>18

----------------------------------------------------------------------------
(* The invariant, from memory to memory.                                   *)

\* What nothing refers to is used by nobody.
LEMMA SettledKeeps ==
    ASSUME NEW g \in Gen, NEW k \in 0..2, NEW X, NEW m, BaseInv(m, g, k, X), NEW s, s = Settled(m)
    PROVE  /\ BaseInv(s, g, k, X)
           /\ \A S \in SUBSET Obj : Distinct(m, S) => Distinct(s, S)
           /\ \A o \in Obj : IsOpen(s, o) <=> IsOpen(m, o)
<1>0. m \in Memory
  BY DEF BaseInv
<1>1. /\ s \in Memory
      /\ s.io = m.io /\ s.pid = m.pid /\ s.table = m.table
      /\ s.given = m.given /\ s.closed = m.closed /\ s.copies = m.copies
      /\ \A i \in Io : s.ios[i] = m.ios[i] \/ (s.ios[i] = Nil /\ Garbage(m, i) /\ ~Owns(m, i))
  BY <1>0, SettledIs
<1>2. Fields(m)
  BY <1>0, FieldsOf
<1>3. \A o \in Obj : m.io[o] # Nil => m.io[o] \in Io /\ s.ios[m.io[o]] = m.ios[m.io[o]]
  <2> SUFFICES ASSUME NEW o \in Obj, m.io[o] # Nil
               PROVE  m.io[o] \in Io /\ s.ios[m.io[o]] = m.ios[m.io[o]]
    OBVIOUS
  <2>1. m.io[o] \in Io
    BY <1>2 DEF Fields
  <2>2. ~Garbage(m, m.io[o])
    BY DEF Garbage
  <2>3. QED
    BY <1>1, <2>1, <2>2
<1>4. \A o \in Obj : IsOpen(s, o) <=> IsOpen(m, o)
  BY <1>1, <1>3 DEF IsOpen
<1>5. \A i \in Io : Owns(s, i) <=> Owns(m, i)
  BY <1>1 DEF Owns, Holds
<1>6. \A i \in Io : Owns(m, i) => s.ios[i] = m.ios[i]
  BY <1>1
<1>7. \A i \in Io : Mine(s, g, i) => Mine(m, g, i) /\ s.ios[i] = m.ios[i]
  BY <1>1 DEF Mine, Holds
<1>8. RefInv(s)
  <2>1. \A o \in Obj : s.io[o] # Nil => s.ios[s.io[o]] # Nil
    BY <1>1, <1>3 DEF BaseInv, RefInv
  <2>2. ASSUME NEW j \in DOMAIN m.copies
        PROVE  s.ios[m.copies[j].io] # Nil
    <3>1. m.copies[j].io \in Io
      BY <1>0, CopyOf
    <3>2. ~Garbage(m, m.copies[j].io)
      BY DEF Garbage
    <3>3. m.ios[m.copies[j].io] # Nil
      BY DEF BaseInv, RefInv
    <3>4. QED
      BY <1>1, <3>1, <3>2, <3>3
  <2>3. QED
    BY <1>1, <2>1, <2>2 DEF RefInv
<1>9. PidInv(s, g)
  BY <1>1 DEF BaseInv, PidInv
<1>10. UsedInv(s, g)
  <2>1. UsedInv(m, g)
    BY DEF BaseInv
  <2>2. QED
    BY <1>1, <1>3, <1>4, <2>1 DEF UsedInv, IsOpen
<1>11. IF g > 0 /\ k = 0 THEN InheritedInv(s, g) ELSE OwnInv(s, g)
  <2>1. InheritedInv(m, g) => InheritedInv(s, g)
    BY <1>1 DEF InheritedInv
  <2>2. OwnInv(m, g) => OwnInv(s, g)
    BY <1>1, <1>7 DEF OwnInv
  <2>3. QED
    BY <2>1, <2>2 DEF BaseInv
<1>12. k = 0 => \A i \in Io : Owns(s, i) => Listed(s, i)
  BY <1>1, <1>5 DEF BaseInv, Listed
<1>13. OwnedInv(s, X)
  <2>1. OwnedInv(m, X) => OwnedInv(s, X)
    BY <1>1, <1>5, <1>6 DEF OwnedInv
  <2>2. QED
    BY <2>1 DEF BaseInv
<1>14. BaseInv(s, g, k, X)
  BY <1>1, <1>8, <1>9, <1>10, <1>11, <1>12, <1>13 DEF BaseInv
<1>15. \A S \in SUBSET Obj : Distinct(m, S) => Distinct(s, S)
  BY <1>1, <1>4 DEF Distinct
<1>16. QED
  BY <1>4, <1>14, <1>15

\* One more re-initialization.
More(k) == IF k = 2 THEN 2 ELSE k + 1

\* Disowning in a child: what it has inherited it does not own any more, and it
\* has opened nothing yet, or it has re-initialized before.
LEMMA DisownKeeps ==
    ASSUME NEW g \in Gen, g > 0, NEW k \in 0..2, NEW X, NEW m, BaseInv(m, g, k, X), NEW d, d = Disown(m)
    PROVE  /\ BaseInv(d, g, More(k), X \cup InCopies(m))
           /\ \A S \in SUBSET Obj : Distinct(m, S) => Distinct(d, S)
<1>0. m \in Memory /\ RefInv(m)
  BY DEF BaseInv
<1>1. /\ d \in Memory
      /\ d.io = m.io /\ d.pid = m.pid /\ d.table = m.table
      /\ d.given = m.given /\ d.closed = m.closed /\ d.copies = <<>>
      /\ \A i \in Io : /\ (d.ios[i] = Nil) <=> (m.ios[i] = Nil)
                       /\ d.ios[i] # Nil => d.ios[i].num = m.ios[i].num
                       /\ Listed(m, i) => ~d.ios[i].auto
                       /\ ~Listed(m, i) => d.ios[i] = m.ios[i]
  BY <1>0, DisownIs
<1>2. Fields(m)
  BY <1>0, FieldsOf
<1>3. \A o \in Obj : m.io[o] # Nil => m.io[o] \in Io /\ m.ios[m.io[o]] # Nil
  BY <1>0, <1>2 DEF Fields, RefInv
<1>4. \A o \in Obj : IsOpen(d, o) <=> IsOpen(m, o)
  BY <1>1, <1>3 DEF IsOpen
<1>5. \A i \in Io : Holds(d, i) <=> Holds(m, i)
  BY <1>1 DEF Holds
<1>6. \A i \in Io : Owns(d, i) => Owns(m, i) /\ ~Listed(m, i)
  BY <1>1, <1>5 DEF Owns
<1>7. \A i \in Io : Mine(d, g, i) => Mine(m, g, i) /\ d.ios[i].num = m.ios[i].num
  <2> SUFFICES ASSUME NEW i \in Io, Mine(d, g, i)
               PROVE  Mine(m, g, i) /\ d.ios[i].num = m.ios[i].num
    OBVIOUS
  <2>1. Holds(m, i) /\ d.ios[i].num = m.ios[i].num
    BY <1>1, <1>5 DEF Mine, Holds
  <2>2. CASE d.ios[i].auto
    <3>1. m.ios[i].auto
      BY <1>1, <2>2
    <3>2. QED
      BY <2>1, <3>1 DEF Mine
  <2>3. CASE \E o \in Obj : d.pid[o] = g /\ d.io[o] = i
    BY <1>1, <2>1, <2>3 DEF Mine
  <2>4. QED
    BY <2>2, <2>3 DEF Mine
<1>8. RefInv(d)
  <2>1. \A o \in Obj : d.io[o] # Nil => d.ios[d.io[o]] # Nil
    BY <1>1, <1>3
  <2>2. DOMAIN d.copies = {}
    BY <1>1
  <2>3. QED
    BY <2>1, <2>2 DEF RefInv
<1>9. PidInv(d, g)
  BY <1>1 DEF BaseInv, PidInv
<1>10. UsedInv(d, g)
  <2>1. UsedInv(m, g)
    BY DEF BaseInv
  <2>2. \A o \in Obj : m.io[o] # Nil => d.ios[m.io[o]].num = m.ios[m.io[o]].num
    BY <1>1, <1>3
  <2>3. QED
    BY <1>1, <1>4, <2>1, <2>2 DEF UsedInv, IsOpen
<1>11. OwnInv(d, g)
  <2>1. CASE k = 0
    <3>1. InheritedInv(m, g) /\ \A i \in Io : Owns(m, i) => Listed(m, i)
      BY <2>1 DEF BaseInv
    <3>2. ASSUME NEW i \in Io
          PROVE  ~Mine(d, g, i)
      <4>1. ~Owns(d, i)
        BY <1>6, <3>1
      <4>2. \A o \in Obj : d.pid[o] # g
        BY <1>1, <3>1 DEF InheritedInv
      <4>3. QED
        BY <4>1, <4>2 DEF Mine, Owns
    <3>3. QED
      BY <3>2 DEF OwnInv
  <2>2. CASE k # 0
    <3>1. OwnInv(m, g)
      BY <2>2 DEF BaseInv
    <3>2. QED
      BY <1>1, <1>7, <3>1 DEF OwnInv
  <2>3. QED
    BY <2>1, <2>2
<1>12. More(k) \in 0..2 /\ More(k) # 0
  BY DEF More
<1>13. OwnedInv(d, X \cup InCopies(m))
  <2> SUFFICES ASSUME NEW n \in Num, d.table[n] \in Queue,
                      n \notin X, n \notin InCopies(m)
               PROVE  \E i \in Io : Owns(d, i) /\ d.ios[i].num = n
    BY DEF OwnedInv
  <2>1. m.table[n] \in Queue
    BY <1>1
  <2>2. PICK i \in Io : Owns(m, i) /\ m.ios[i].num = n
    BY <2>1 DEF BaseInv, OwnedInv
  <2>3. ~Listed(m, i)
    BY <2>1, <2>2 DEF Listed, InCopies
  <2>4. d.ios[i] = m.ios[i]
    BY <1>1, <2>3
  <2>5. QED
    BY <2>2, <2>4 DEF Owns, Holds
<1>a. More(k) <= 1 => X \cup InCopies(m) = {}
  <2>1. SUFFICES ASSUME k = 0
                 PROVE  X \cup InCopies(m) = {}
    BY DEF More
  <2>2. InheritedInv(m, g) /\ X = {}
    BY <2>1 DEF BaseInv
  <2>3. InCopies(m) = {}
    BY <2>2 DEF InheritedInv, InCopies
  <2>4. QED
    BY <2>2, <2>3
<1>14. BaseInv(d, g, More(k), X \cup InCopies(m))
  BY <1>1, <1>8, <1>9, <1>10, <1>11, <1>12, <1>13, <1>a DEF BaseInv
<1>15. \A S \in SUBSET Obj : Distinct(m, S) => Distinct(d, S)
  BY <1>1, <1>4 DEF Distinct
<1>16. QED
  BY <1>14, <1>15

\* From memory d to w, object o gets a Kqueue::IO of ids, whose numbers nums were
\* free and lead to kqueue q.
Acquires(d, w, o, q, nums, ids) ==
    /\ nums \subseteq FreeNum(d) /\ ids \subseteq FreeIo(d)
    /\ \A n \in Num : w.table[n] = IF n \in nums THEN q ELSE d.table[n]
    /\ \A i \in Io : i \notin ids => w.ios[i] = d.ios[i]
    /\ \A i \in ids : w.ios[i] \in IoObject /\ w.ios[i].auto /\ w.ios[i].num \in nums
    /\ \A i, j \in ids : w.ios[i].num = w.ios[j].num => i = j
    /\ \A n \in nums : \E i \in ids : w.ios[i].num = n
    /\ w.io[o] \in ids /\ w.given[o] = q
    /\ \A p \in Obj : p # o => /\ w.io[p] = d.io[p] /\ w.pid[p] = d.pid[p]
                               /\ w.given[p] = d.given[p]
    /\ w.closed = d.closed

LEMMA AcquireKeeps ==
    ASSUME NEW g \in Gen, NEW k \in 0..2, NEW X, ~(g > 0 /\ k = 0), NEW d, BaseInv(d, g, k, X),
           NEW w \in Memory, NEW o \in Obj, NEW q \in Queue, NEW nums, NEW ids,
           Acquires(d, w, o, q, nums, ids),
           w.pid[o] \in Gen, w.pid[o] <= g,
           \A j \in DOMAIN w.copies : w.copies[j].io \in ids \/ Listed(d, w.copies[j].io),
           k = 0 => \A i \in Io : i \in ids \/ Listed(d, i) => Listed(w, i)
    PROVE  BaseInv(w, g, k, X) /\ (Distinct(d, Obj \ {o}) => Distinct(w, Obj))
<1>0. d \in Memory /\ Fields(d) /\ RefInv(d) /\ PidInv(d, g) /\ UsedInv(d, g) /\ OwnInv(d, g)
  BY FieldsOf DEF BaseInv
<1>1. /\ nums \subseteq FreeNum(d) /\ ids \subseteq FreeIo(d)
      /\ \A n \in Num : w.table[n] = IF n \in nums THEN q ELSE d.table[n]
      /\ \A i \in Io : i \notin ids => w.ios[i] = d.ios[i]
      /\ \A i \in ids : w.ios[i] \in IoObject /\ w.ios[i].auto /\ w.ios[i].num \in nums
      /\ \A i, j \in ids : w.ios[i].num = w.ios[j].num => i = j
      /\ \A n \in nums : \E i \in ids : w.ios[i].num = n
      /\ w.io[o] \in ids /\ w.given[o] = q
      /\ \A p \in Obj : p # o => /\ w.io[p] = d.io[p] /\ w.pid[p] = d.pid[p]
                                 /\ w.given[p] = d.given[p]
      /\ w.closed = d.closed
  BY DEF Acquires
<1>2. /\ \A n \in nums : n \in Num /\ n # Nil /\ d.table[n] = Nil
      /\ \A i \in ids : i \in Io /\ i # Nil /\ d.ios[i] = Nil
  BY <1>1, Types DEF FreeNum, FreeIo
<1>3. \A n \in Num : d.table[n] \in Queue => n \notin nums /\ w.table[n] = d.table[n]
  BY <1>1, <1>2, Types
<1>4. \A i \in Io : d.ios[i] # Nil => i \notin ids /\ w.ios[i] = d.ios[i]
  BY <1>1, <1>2
<1>5. \A i \in ids : w.ios[i] # Nil /\ w.ios[i].num # Nil
  BY <1>1, <1>2, Types
<1>6. \A p \in Obj : p # o => (d.io[p] # Nil => /\ d.io[p] \in Io /\ d.ios[d.io[p]] # Nil
                                                /\ w.ios[d.io[p]] = d.ios[d.io[p]])
  BY <1>0, <1>4 DEF Fields, RefInv
<1>7. IsOpen(w, o)
  BY <1>1, <1>2, <1>5 DEF IsOpen
<1>8. \A p \in Obj : p # o => (IsOpen(w, p) <=> IsOpen(d, p))
  BY <1>1, <1>6 DEF IsOpen
<1>9. \A i \in Io : i \notin ids /\ Mine(w, g, i) => Mine(d, g, i) /\ w.ios[i] = d.ios[i]
  <2> SUFFICES ASSUME NEW i \in Io, i \notin ids, Mine(w, g, i)
               PROVE  Mine(d, g, i)
    BY <1>1
  <2>1. w.ios[i] = d.ios[i]
    BY <1>1
  <2>2. \A p \in Obj : w.pid[p] = g /\ w.io[p] = i => d.pid[p] = g /\ d.io[p] = i
    BY <1>1
  <2>3. QED
    BY <2>1, <2>2 DEF Mine, Holds
<1>10. \A i \in Io : Mine(d, g, i) => /\ d.ios[i] \in IoObject /\ d.ios[i].num \in Num
                                      /\ d.table[d.ios[i].num] \in Queue
  <2> SUFFICES ASSUME NEW i \in Io, Mine(d, g, i)
               PROVE  d.ios[i] \in IoObject /\ d.ios[i].num \in Num /\ d.table[d.ios[i].num] \in Queue
    OBVIOUS
  <2>1. d.ios[i] \in IoObject
    BY <1>0 DEF Mine, Holds, Fields
  <2>2. d.ios[i].num \in Num
    BY <2>1, Types DEF Mine, Holds
  <2>3. QED
    BY <1>0, <2>1, <2>2 DEF OwnInv
<1>11. RefInv(w)
  <2>1. \A p \in Obj : w.io[p] # Nil => w.ios[w.io[p]] # Nil
    BY <1>1, <1>5, <1>6
  <2>2. ASSUME NEW j \in DOMAIN w.copies
        PROVE  w.ios[w.copies[j].io] # Nil
    <3>1. CASE w.copies[j].io \in ids
      BY <1>5, <3>1
    <3>2. CASE Listed(d, w.copies[j].io)
      <4>1. d.ios[w.copies[j].io] # Nil
        BY <1>0, <3>2 DEF Listed, RefInv
      <4>2. w.copies[j].io \in Io
        BY CopyOf
      <4>3. QED
        BY <1>4, <4>1, <4>2
    <3>3. QED
      BY <3>1, <3>2
  <2>3. QED
    BY <2>1, <2>2 DEF RefInv
<1>12. PidInv(w, g)
  <2>1. w.pid[o] # Nil /\ w.pid[o] <= g
    BY Types
  <2>2. QED
    BY <1>0, <1>1, <2>1 DEF PidInv
<1>13. UsedInv(w, g)
  <2> SUFFICES ASSUME NEW p \in Obj, w.pid[p] = g
               PROVE  /\ IsOpen(w, p) => w.table[w.ios[w.io[p]].num] = w.given[p]
                      /\ ~IsOpen(w, p) => p \in w.closed
    BY DEF UsedInv
  <2>1. CASE p = o
    <3>1. w.ios[w.io[o]].num \in nums /\ w.ios[w.io[o]].num \in Num
      BY <1>1, <1>2
    <3>2. w.table[w.ios[w.io[o]].num] = q
      BY <1>1, <3>1
    <3>3. QED
      BY <1>1, <1>7, <2>1, <3>2
  <2>2. CASE p # o
    <3>1. d.pid[p] = g /\ (IsOpen(w, p) <=> IsOpen(d, p)) /\ w.given[p] = d.given[p] /\ w.io[p] = d.io[p]
      BY <1>1, <1>8, <2>2
    <3>2. CASE IsOpen(d, p)
      <4>1. d.table[d.ios[d.io[p]].num] = d.given[p]
        BY <1>0, <3>1, <3>2 DEF UsedInv
      <4>2. d.io[p] # Nil /\ d.io[p] \in Io /\ w.ios[d.io[p]] = d.ios[d.io[p]]
        BY <1>6, <2>2, <3>2 DEF IsOpen
      <4>3. Mine(d, g, d.io[p])
        BY <1>0, <3>1, <3>2, <4>2 DEF Mine, Holds, IsOpen, RefInv
      <4>4. d.ios[d.io[p]].num \in Num /\ d.table[d.ios[d.io[p]].num] \in Queue
        BY <1>10, <4>2, <4>3
      <4>5. w.table[d.ios[d.io[p]].num] = d.table[d.ios[d.io[p]].num]
        BY <1>3, <4>4
      <4>6. QED
        BY <3>1, <3>2, <4>1, <4>2, <4>5
    <3>3. CASE ~IsOpen(d, p)
      BY <1>0, <1>1, <3>1, <3>3 DEF UsedInv
    <3>4. QED
      BY <3>2, <3>3
  <2>3. QED
    BY <2>1, <2>2
<1>14. OwnInv(w, g)
  <2>1. ASSUME NEW i \in Io, Mine(w, g, i)
        PROVE  /\ w.table[w.ios[i].num] \in Queue
               /\ i \in ids <=> w.ios[i].num \in nums
    <3>1. CASE i \in ids
      <4>1. w.ios[i].num \in nums /\ w.ios[i].num \in Num
        BY <1>1, <1>2, <3>1
      <4>2. QED
        BY <1>1, <3>1, <4>1
    <3>2. CASE i \notin ids
      <4>1. Mine(d, g, i) /\ w.ios[i] = d.ios[i]
        BY <1>9, <2>1, <3>2
      <4>2. d.ios[i].num \in Num /\ d.table[d.ios[i].num] \in Queue
        BY <1>10, <4>1
      <4>3. QED
        BY <1>3, <3>2, <4>1, <4>2
    <3>3. QED
      BY <3>1, <3>2
  <2>2. ASSUME NEW i \in Io, NEW j \in Io, Mine(w, g, i), Mine(w, g, j), w.ios[i].num = w.ios[j].num
        PROVE  i = j
    <3>1. i \in ids <=> j \in ids
      BY <2>1, <2>2
    <3>2. CASE i \in ids
      BY <1>1, <2>2, <3>1, <3>2
    <3>3. CASE i \notin ids
      <4>1. /\ Mine(d, g, i) /\ w.ios[i] = d.ios[i]
            /\ Mine(d, g, j) /\ w.ios[j] = d.ios[j]
        BY <1>9, <2>2, <3>1, <3>3
      <4>2. QED
        BY <1>0, <2>2, <4>1 DEF OwnInv
    <3>4. QED
      BY <3>2, <3>3
  <2>3. QED
    BY <2>1, <2>2 DEF OwnInv
<1>15. ASSUME k = 0, NEW i \in Io, Owns(w, i)
       PROVE  Listed(w, i)
  <2>1. CASE i \in ids
    BY <1>15, <2>1
  <2>2. CASE i \notin ids
    <3>1. Owns(d, i)
      BY <1>1, <1>15, <2>2 DEF Owns, Holds
    <3>2. QED
      BY <1>15, <3>1 DEF BaseInv
  <2>3. QED
    BY <2>1, <2>2
<1>16. OwnedInv(w, X)
  <2> SUFFICES ASSUME NEW n \in Num, w.table[n] \in Queue, n \notin X
               PROVE  \E i \in Io : Owns(w, i) /\ w.ios[i].num = n
    BY DEF OwnedInv
  <2>1. CASE n \in nums
    <3>1. PICK i \in ids : w.ios[i].num = n
      BY <1>1, <2>1
    <3>2. i \in Io /\ Owns(w, i)
      BY <1>1, <1>2, <1>5 DEF Owns, Holds
    <3>3. QED
      BY <3>1, <3>2
  <2>2. CASE n \notin nums
    <3>1. d.table[n] \in Queue
      BY <1>1, <2>2
    <3>2. PICK i \in Io : Owns(d, i) /\ d.ios[i].num = n
      BY <3>1 DEF BaseInv, OwnedInv
    <3>3. w.ios[i] = d.ios[i]
      BY <1>4, <3>2 DEF Owns, Holds
    <3>4. QED
      BY <3>2, <3>3 DEF Owns, Holds
  <2>3. QED
    BY <2>1, <2>2
<1>17. BaseInv(w, g, k, X)
  BY <1>11, <1>12, <1>13, <1>14, <1>15, <1>16 DEF BaseInv
<1>18. ASSUME Distinct(d, Obj \ {o})
       PROVE  Distinct(w, Obj)
  <2> SUFFICES ASSUME NEW p \in Obj, NEW r \in Obj, IsOpen(w, p), w.io[p] = w.io[r]
               PROVE  p = r
    BY DEF Distinct
  <2>1. \A x \in Obj : x # o => w.io[x] \notin ids
    BY <1>1, <1>2, <1>6
  <2>2. CASE p = o \/ r = o
    BY <1>1, <2>1, <2>2
  <2>3. CASE p # o /\ r # o
    <3>1. IsOpen(d, p) /\ d.io[p] = d.io[r] /\ p \in Obj \ {o} /\ r \in Obj \ {o}
      BY <1>1, <1>8, <2>3
    <3>2. QED
      BY <1>18, <3>1 DEF Distinct
  <2>4. QED
    BY <2>2, <2>3
<1>19. QED
  BY <1>17, <1>18

\* Room for one more descriptor is a free number.
LEMMA RoomIs ==
    ASSUME NEW m \in Memory, NEW k \in Nat, Room(m, k + 1)
    PROVE  FreeNum(m) # {}
<1>1. Cardinality(FreeNum(m)) >= k + 1
  BY DEF Room
<1>2. Cardinality({}) = 0
  BY FS_EmptySet
<1>3. QED
  BY <1>1, <1>2

\* __kq_reinit and the duplicates, however many there are.
LEMMA ReinitKeeps ==
    ASSUME NEW k \in 0..2, NEW X, NEW m, gen \in Gen, gen > 0, BaseInv(m, gen, k, X), NEW o \in Obj, Stale(m, o),
           NEW c \in 0..Len(m.copies), Room(Settled(Disown(m)), c + 1),
           NEW w, w = Reinit(m, o, c)
    PROVE  /\ BaseInv(w, gen, More(k), X \cup InCopies(m))
           /\ Distinct(m, Obj \ {o}) => Distinct(w, Obj)
           /\ c = Len(m.copies) => w.pid[o] = gen
           /\ \A n \in Num : m.table[n] = File => w.table[n] = File
           /\ NewQueue(m) \in Queue
<1> DEFINE a == Disown(m)
           d == Settled(Disown(m))
           q == NewQueue(d)
           copies == [j \in 1..c |-> [io |-> Nth(FreeIo(d), j), obj |-> m.copies[j].obj]]
           pid == IF c = Len(m.copies) THEN gen ELSE d.pid[o]
           new == [d EXCEPT !.io[o] = Nth(FreeIo(d), 0), !.given[o] = q,
                            !.copies = copies, !.pid[o] = pid]
<1>0. m \in Memory /\ RefInv(m) /\ PidInv(m, gen) /\ Fields(m)
  BY FieldsOf DEF BaseInv
<1>1. BaseInv(a, gen, More(k), X \cup InCopies(m)) /\ \A S \in SUBSET Obj : Distinct(m, S) => Distinct(a, S)
  BY DisownKeeps
<1>2. More(k) \in 0..2 /\ More(k) # 0
  BY DEF More
<1>3. BaseInv(d, gen, More(k), X \cup InCopies(m)) /\ \A S \in SUBSET Obj : Distinct(a, S) => Distinct(d, S)
  BY <1>1, <1>2, SettledKeeps
<1>4. /\ a \in Memory /\ a.io = m.io /\ a.pid = m.pid /\ a.table = m.table
  BY <1>0, DisownIs
<1>5. d \in Memory /\ d.io = m.io /\ d.pid = m.pid /\ d.table = m.table
  BY <1>4, SettledIs
<1>6. w = Opened(new, q, c + 1)
  BY DEF Reinit
<1>7. c \in Nat /\ c + 1 \in Nat
  BY <1>0 DEF Fields
<1>r. Room(d, c + 1)
  OBVIOUS
<1> HIDE DEF a, d
<1>8. q \in Queue
  BY <1>5, <1>7, <1>r, RoomIs, NewQueueIs
<1>9. NewQueue(m) = q
  BY <1>5 DEF NewQueue
<1> HIDE DEF q
<1>10. \A j \in 0..c : Nth(FreeIo(d), j) \in FreeIo(d) /\ Nth(FreeIo(d), j) \in Io
  <2>1. MaxIo \in Nat /\ FreeIo(d) \subseteq 1..MaxIo /\ Cardinality(FreeIo(d)) >= c + 1
    BY <1>r, ConstantsOK DEF Room, FreeIo, Io
  <2>2. \A j \in 0..c : j \in 0..((c + 1) - 1)
    BY <1>7
  <2>3. QED
    BY <1>7, <2>1, <2>2, FirstOf DEF Io
<1>11. copies \in Seq([io : Io, obj : Obj])
  <2>1. ASSUME NEW j \in 1..c
        PROVE  [io |-> Nth(FreeIo(d), j), obj |-> m.copies[j].obj] \in [io : Io, obj : Obj]
    <3>1. j \in 1..Len(m.copies) /\ j \in 0..c
      BY <1>0, <1>7 DEF Fields
    <3>2. DOMAIN m.copies = 1..Len(m.copies)
      BY <1>0 DEF Fields
    <3>3. m.copies[j].obj \in Obj
      BY <1>0, <3>1, <3>2, CopyOf
    <3>4. QED
      BY <1>10, <3>1, <3>3
  <2>2. copies \in [1..c -> [io : Io, obj : Obj]]
    BY <2>1
  <2> DEFINE E == [io : Io, obj : Obj]
  <2> HIDE DEF copies, E
  <2>3. copies \in UNION {[1..n -> E] : n \in Nat}
    BY <1>7, <2>2, Zenon DEF E
  <2>4. Seq(E) = UNION {[1..n -> E] : n \in Nat}
    BY SeqDef
  <2>5. QED
    BY <2>3, <2>4, Zenon DEF E
<1>12. pid \in Gen /\ pid <= gen
  <2>1. m.pid[o] # Nil /\ m.pid[o] <= gen
    BY <1>0 DEF PidInv, Stale, IsOpen
  <2>2. m.pid[o] \in Gen
    BY <1>0, <2>1 DEF Fields
  <2>3. gen <= gen
    BY DEF Gen
  <2>4. QED
    BY <1>5, <2>1, <2>2, <2>3
<1>13. /\ DOMAIN copies = 1..c
       /\ \A j \in 1..c : copies[j].io = Nth(FreeIo(d), j)
  OBVIOUS
<1>14. c = Len(m.copies) => pid = gen
  OBVIOUS
<1> HIDE DEF copies, pid
<1>15. Fields(d) /\ 0 \in 0..c
  BY <1>5, <1>7, FieldsOf
<1>16. /\ new \in Memory
       /\ new.io = [d.io EXCEPT ![o] = Nth(FreeIo(d), 0)]
       /\ new.pid = [d.pid EXCEPT ![o] = pid]
       /\ new.given = [d.given EXCEPT ![o] = q]
       /\ new.copies = copies /\ new.closed = d.closed
       /\ new.table = d.table /\ new.ios = d.ios
  <2>1. /\ [d.io EXCEPT ![o] = Nth(FreeIo(d), 0)] \in [Obj -> Io \cup {Nil}]
        /\ [d.pid EXCEPT ![o] = pid] \in [Obj -> Gen \cup {Nil}]
        /\ [d.given EXCEPT ![o] = q] \in [Obj -> Queue \cup {Nil}]
    BY <1>8, <1>10, <1>12, <1>15 DEF Fields
  <2>2. new = [d EXCEPT !.io = [d.io EXCEPT ![o] = Nth(FreeIo(d), 0)],
                        !.given = [d.given EXCEPT ![o] = q],
                        !.copies = copies, !.pid = [d.pid EXCEPT ![o] = pid]]
    BY <1>5 DEF Memory
  <2>3. QED
    BY <1>5, <1>11, <2>1, <2>2 DEF Memory
<1> HIDE DEF new
<1>17. FreeNum(new) = FreeNum(d) /\ FreeIo(new) = FreeIo(d)
  BY <1>16 DEF FreeNum, FreeIo
<1>18. Room(new, c + 1)
  BY <1>r, <1>17 DEF Room
<1> DEFINE nums == Nums(new, c + 1)
           ids == Ids(new, c + 1)
<1>19. /\ w \in Memory
       /\ w.io = new.io /\ w.pid = new.pid /\ w.copies = new.copies
       /\ w.given = new.given /\ w.closed = new.closed
       /\ nums \subseteq FreeNum(new) /\ ids \subseteq FreeIo(new)
       /\ \A n \in Num : w.table[n] = IF n \in nums THEN q ELSE new.table[n]
       /\ \A i \in Io : i \notin ids => w.ios[i] = new.ios[i]
       /\ \A i \in ids : /\ w.ios[i] \in IoObject
                         /\ w.ios[i].auto /\ w.ios[i].num \in nums
       /\ \A i, j \in ids : w.ios[i].num = w.ios[j].num => i = j
       /\ \A n \in nums : \E i \in ids : w.ios[i].num = n
  BY <1>6, <1>7, <1>8, <1>16, <1>18, OpenedIs
<1>20. \A j \in 0..c : Nth(FreeIo(d), j) \in ids
  <2>1. \A j \in 0..c : j \in 0..((c + 1) - 1)
    BY <1>7
  <2>2. QED
    BY <1>17, <2>1 DEF Ids
<1> HIDE DEF nums, ids
<1>21. w.io[o] = Nth(FreeIo(d), 0) /\ w.pid[o] = pid /\ w.given[o] = q
  BY <1>15, <1>16, <1>19 DEF Fields
<1>22. \A p \in Obj : p # o => w.io[p] = d.io[p] /\ w.pid[p] = d.pid[p] /\ w.given[p] = d.given[p]
  BY <1>15, <1>16, <1>19 DEF Fields
<1>23. Acquires(d, w, o, q, nums, ids)
  BY <1>15, <1>16, <1>17, <1>19, <1>20, <1>21, <1>22 DEF Acquires
<1>24. \A j \in DOMAIN w.copies : w.copies[j].io \in ids
  <2> SUFFICES ASSUME NEW j \in 1..c
               PROVE  copies[j].io \in ids
    BY <1>13, <1>16, <1>19
  <2>1. j \in 0..c
    BY <1>7
  <2>2. QED
    BY <1>13, <1>20, <2>1
<1>25. BaseInv(w, gen, More(k), X \cup InCopies(m)) /\ (Distinct(d, Obj \ {o}) => Distinct(w, Obj))
  <2>1. PICK h : h = More(k)
    OBVIOUS
  <2>2. PICK Y : Y = X \cup InCopies(m)
    OBVIOUS
  <2>3. h \in 0..2 /\ h # 0 /\ BaseInv(d, gen, h, Y)
    BY <1>2, <1>3, <2>1, <2>2
  <2>4. BaseInv(w, gen, h, Y) /\ (Distinct(d, Obj \ {o}) => Distinct(w, Obj))
    <3>1. PICK e : e = d
      OBVIOUS
    <3>2. PICK g : g = gen
      OBVIOUS
    <3>3. PICK x : x = q
      OBVIOUS
    <3>4. PICK N : N = nums
      OBVIOUS
    <3>5. PICK I : I = ids
      OBVIOUS
    <3>6. /\ g \in Gen /\ h \in 0..2 /\ ~(g > 0 /\ h = 0) /\ BaseInv(e, g, h, Y)
          /\ w \in Memory /\ o \in Obj /\ x \in Queue /\ Acquires(e, w, o, x, N, I)
          /\ w.pid[o] \in Gen /\ w.pid[o] <= g
          /\ \A j \in DOMAIN w.copies : w.copies[j].io \in I
          /\ h # 0
      BY <1>8, <1>12, <1>19, <1>21, <1>23, <1>24, <2>3, <3>1, <3>2, <3>3, <3>4, <3>5
    <3>7. BaseInv(w, g, h, Y) /\ (Distinct(e, Obj \ {o}) => Distinct(w, Obj))
      BY ONLY <3>6, AcquireKeeps
    <3>8. QED
      BY <3>1, <3>2, <3>7
  <2>5. QED
    BY <2>1, <2>2, <2>4
<1>26. \A n \in Num : m.table[n] = File => w.table[n] = File
  <2>1. \A n \in nums : d.table[n] = Nil
    BY <1>17, <1>19 DEF FreeNum
  <2>2. QED
    BY <1>5, <1>16, <1>19, <2>1, Types
<1>27. QED
  BY <1>1, <1>3, <1>8, <1>9, <1>14, <1>21, <1>25, <1>26

\* Re-initializations, after an outcome of __kq_check.
Inits(r, k) == IF (r.ok /\ r.queue = Nil) \/ k = 2 THEN k ELSE k + 1

\* The descriptors given up, after that.
Lost(m, r, X) == IF r.ok /\ r.queue = Nil THEN X ELSE X \cup InCopies(m)

\* __kq_check, whether it returns or raises.  An object that is open when it
\* returns is of this process.
Outcome(m, o, r, k, X) ==
    /\ BaseInv(r.m, gen, Inits(r, k), Lost(m, r, X))
    /\ Distinct(m, Obj) => Distinct(r.m, Obj)
    /\ Distinct(m, Obj \ {o}) => Distinct(r.m, Obj \ {o})
    /\ r.ok /\ IsOpen(r.m, o) => r.m.pid[o] = gen
    /\ gen = 0 => Inits(r, k) = k
    /\ \A n \in Num : m.table[n] = File => r.m.table[n] = File

LEMMA CheckKeeps ==
    ASSUME NEW k \in 0..2, NEW X, NEW m, gen \in Gen, BaseInv(m, gen, k, X), NEW o \in Obj, NEW r \in Check(m, o)
    PROVE  Outcome(m, o, r, k, X)
<1>0. m \in Memory /\ RefInv(m) /\ PidInv(m, gen) /\ Fields(m)
  BY FieldsOf DEF BaseInv
<1>1. CASE ~Stale(m, o)
  <2>1. r.m = m /\ r.ok /\ r.queue = Nil
    BY <1>1 DEF Check
  <2>2. Inits(r, k) = k /\ Lost(m, r, X) = X
    BY <2>1 DEF Inits, Lost
  <2>3. QED
    BY <1>1, <2>1, <2>2 DEF Stale, Outcome
<1>2. CASE Stale(m, o)
  <2>1. gen > 0 /\ gen \in Nat
    <3>1. m.pid[o] # gen /\ m.pid[o] # Nil /\ m.pid[o] <= gen
      BY <1>0, <1>2 DEF PidInv, Stale, IsOpen
    <3>2. m.pid[o] \in Nat /\ gen \in Nat
      BY <1>0, <3>1 DEF Fields, Gen
    <3>3. QED
      BY <3>1, <3>2
  <2> DEFINE a == Disown(m)
             d == Settled(Disown(m))
  <2>2. BaseInv(a, gen, More(k), X \cup InCopies(m)) /\ \A S \in SUBSET Obj : Distinct(m, S) => Distinct(a, S)
    BY <2>1, DisownKeeps
  <2>3. More(k) \in 0..2
    BY DEF More
  <2>4. BaseInv(d, gen, More(k), X \cup InCopies(m)) /\ \A S \in SUBSET Obj : Distinct(a, S) => Distinct(d, S)
    BY <2>2, <2>3, SettledKeeps
  <2>5. a \in Memory /\ a.table = m.table
    BY <1>0, DisownIs
  <2>6. d.table = m.table
    BY <2>5, SettledIs
  <2>7. CASE r = [m |-> d, ok |-> FALSE, queue |-> Nil]
    <3>1. r.m = d /\ ~r.ok
      BY <2>7
    <3>2. Inits(r, k) = More(k) /\ Lost(m, r, X) = X \cup InCopies(m)
      BY <3>1 DEF Inits, More, Lost
    <3>3. QED
      BY <2>1, <2>2, <2>4, <2>6, <3>1, <3>2 DEF Outcome
  <2>8. CASE \E c \in {j \in 0..Len(m.copies) : Room(d, j + 1)} :
                r = [m |-> Settled(Reinit(m, o, c)), ok |-> c = Len(m.copies), queue |-> NewQueue(m)]
    <3>1. PICK c \in 0..Len(m.copies) :
             /\ Room(d, c + 1)
             /\ r = [m |-> Settled(Reinit(m, o, c)), ok |-> c = Len(m.copies), queue |-> NewQueue(m)]
      BY <2>8
    <3> DEFINE w == Reinit(m, o, c)
    <3>2. /\ BaseInv(w, gen, More(k), X \cup InCopies(m))
          /\ Distinct(m, Obj \ {o}) => Distinct(w, Obj)
          /\ c = Len(m.copies) => w.pid[o] = gen
          /\ \A n \in Num : m.table[n] = File => w.table[n] = File
          /\ NewQueue(m) \in Queue
      BY <1>2, <2>1, <3>1, ReinitKeeps
    <3> HIDE DEF w
    <3>3. r.m = Settled(w) /\ (r.ok <=> c = Len(m.copies)) /\ r.queue = NewQueue(m)
      BY <3>1 DEF w
    <3>4. BaseInv(r.m, gen, More(k), X \cup InCopies(m)) /\ \A S \in SUBSET Obj : Distinct(w, S) => Distinct(r.m, S)
      BY <2>3, <3>2, <3>3, SettledKeeps
    <3>5. w \in Memory
      BY <3>2 DEF BaseInv
    <3>6. r.m.table = w.table /\ r.m.pid = w.pid
      BY <3>3, <3>5, SettledIs
    <3>7. r.queue # Nil
      BY <3>2, <3>3, Types
    <3>8. Inits(r, k) = More(k) /\ Lost(m, r, X) = X \cup InCopies(m)
      BY <3>7 DEF Inits, More, Lost
    <3>9. /\ Distinct(m, Obj) => Distinct(m, Obj \ {o})
          /\ Distinct(r.m, Obj) => Distinct(r.m, Obj \ {o})
      BY DEF Distinct
    <3>10. QED
      BY <2>1, <3>2, <3>3, <3>4, <3>6, <3>8, <3>9 DEF Outcome
  <2>9. QED
    BY <1>2, <2>7, <2>8 DEF Check
<1>3. QED
  BY <1>1, <1>2

\* From memory m to w, Kqueue::IO i is closed or collected, with its number if it
\* owns one.
Releases(m, w, i) ==
    /\ w.io = m.io /\ w.pid = m.pid /\ w.given = m.given /\ m.closed \subseteq w.closed
    /\ \A j \in Io : j # i => w.ios[j] = m.ios[j]
    /\ ~Holds(w, i)
    /\ \A n \in Num : w.table[n] = IF Owns(m, i) /\ n = m.ios[i].num THEN Nil ELSE m.table[n]
    /\ \A j \in Io : /\ Listed(m, j) /\ j # i => Listed(w, j)
                     /\ Listed(w, j) => Listed(m, j)
    /\ w.ios[i] = Nil => Garbage(m, i)
    /\ \A o \in Obj : m.io[o] = i => o \in w.closed

LEMMA ReleaseKeeps ==
    ASSUME NEW g \in Gen, NEW k \in 0..2, NEW X, NEW m, BaseInv(m, g, k, X), NEW w \in Memory, NEW i \in Io,
           Releases(m, w, i), Owns(m, i) => ~(g > 0 /\ k = 0)
    PROVE  /\ BaseInv(w, g, k, X)
           /\ Distinct(m, Obj) => Distinct(w, Obj)
           /\ \A n \in Num : m.table[n] = File => w.table[n] = File
<1>0. m \in Memory /\ Fields(m) /\ RefInv(m) /\ PidInv(m, g) /\ UsedInv(m, g)
  BY FieldsOf DEF BaseInv
<1>1. /\ w.io = m.io /\ w.pid = m.pid /\ w.given = m.given /\ m.closed \subseteq w.closed
      /\ \A j \in Io : j # i => w.ios[j] = m.ios[j]
      /\ ~Holds(w, i)
      /\ \A n \in Num : w.table[n] = IF Owns(m, i) /\ n = m.ios[i].num THEN Nil ELSE m.table[n]
      /\ \A j \in Io : /\ Listed(m, j) /\ j # i => Listed(w, j)
                       /\ Listed(w, j) => Listed(m, j)
      /\ w.ios[i] = Nil => Garbage(m, i)
      /\ \A o \in Obj : m.io[o] = i => o \in w.closed
  BY DEF Releases
<1>2. \A j \in Io : Mine(w, g, j) => j # i /\ Mine(m, g, j) /\ w.ios[j] = m.ios[j]
  BY <1>1 DEF Mine, Holds
<1>3. \A j \in Io : Owns(w, j) => j # i /\ Owns(m, j)
  BY <1>1 DEF Owns, Holds
<1>4. Owns(m, i) => Mine(m, g, i) /\ OwnInv(m, g) /\ m.table[m.ios[i].num] \in Queue
  <2> SUFFICES ASSUME Owns(m, i)
               PROVE  Mine(m, g, i) /\ OwnInv(m, g) /\ m.table[m.ios[i].num] \in Queue
    OBVIOUS
  <2>1. Mine(m, g, i)
    BY DEF Owns, Mine
  <2>2. OwnInv(m, g)
    BY DEF BaseInv
  <2>3. QED
    BY <2>1, <2>2 DEF OwnInv
<1>5. \A j \in Io : Mine(m, g, j) => m.ios[j] \in IoObject /\ m.ios[j].num \in Num
  <2> SUFFICES ASSUME NEW j \in Io, Mine(m, g, j)
               PROVE  m.ios[j] \in IoObject /\ m.ios[j].num \in Num
    OBVIOUS
  <2>1. m.ios[j] \in IoObject
    BY <1>0 DEF Mine, Holds, Fields
  <2>2. QED
    BY <2>1, Types DEF Mine, Holds
<1>6. \A j \in Io : j # i /\ Mine(m, g, j) => w.table[m.ios[j].num] = m.table[m.ios[j].num]
  <2> SUFFICES ASSUME NEW j \in Io, j # i, Mine(m, g, j)
               PROVE  w.table[m.ios[j].num] = m.table[m.ios[j].num]
    OBVIOUS
  <2>1. m.ios[j].num \in Num
    BY <1>5
  <2>2. Owns(m, i) => m.ios[j].num # m.ios[i].num
    BY <1>4 DEF OwnInv
  <2>3. QED
    BY <1>1, <2>1, <2>2
<1>7. \A o \in Obj : m.io[o] # Nil => m.io[o] \in Io /\ m.ios[m.io[o]] # Nil
  BY <1>0 DEF Fields, RefInv
<1>8. \A o \in Obj : /\ IsOpen(w, o) => m.io[o] # i
                     /\ m.io[o] # i => (IsOpen(w, o) <=> IsOpen(m, o))
  BY <1>1, <1>7 DEF IsOpen, Holds, RefInv, Garbage
<1>9. RefInv(w)
  <2>1. ASSUME NEW o \in Obj, w.io[o] # Nil
        PROVE  w.ios[w.io[o]] # Nil
    <3>1. CASE w.io[o] = i
      BY <1>1, <2>1, <3>1 DEF Garbage
    <3>2. CASE w.io[o] # i
      BY <1>1, <1>7, <2>1, <3>2
    <3>3. QED
      BY <3>1, <3>2
  <2>2. ASSUME NEW j \in DOMAIN w.copies
        PROVE  w.ios[w.copies[j].io] # Nil
    <3>1. w.copies[j].io \in Io /\ Listed(w, w.copies[j].io)
      BY CopyOf DEF Listed
    <3>2. Listed(m, w.copies[j].io)
      BY <1>1, <3>1
    <3>3. m.ios[w.copies[j].io] # Nil /\ ~Garbage(m, w.copies[j].io)
      BY <1>0, <3>2 DEF Listed, RefInv, Garbage
    <3>4. CASE w.copies[j].io = i
      BY <1>1, <3>3, <3>4
    <3>5. CASE w.copies[j].io # i
      BY <1>1, <3>1, <3>3, <3>5
    <3>6. QED
      BY <3>4, <3>5
  <2>3. QED
    BY <2>1, <2>2 DEF RefInv
<1>10. PidInv(w, g)
  BY <1>0, <1>1 DEF PidInv
<1>11. UsedInv(w, g)
  <2> SUFFICES ASSUME NEW o \in Obj, m.pid[o] = g
               PROVE  /\ IsOpen(w, o) => w.table[w.ios[w.io[o]].num] = w.given[o]
                      /\ ~IsOpen(w, o) => o \in w.closed
    BY <1>1 DEF UsedInv
  <2>1. CASE IsOpen(w, o)
    <3>1. m.io[o] # i /\ IsOpen(m, o) /\ m.io[o] # Nil
      BY <1>8, <2>1 DEF IsOpen
    <3>2. Mine(m, g, m.io[o]) /\ m.io[o] \in Io
      BY <1>7, <3>1 DEF Mine, Holds, IsOpen
    <3>3. w.table[m.ios[m.io[o]].num] = m.table[m.ios[m.io[o]].num] /\ w.ios[m.io[o]] = m.ios[m.io[o]]
      BY <1>1, <1>6, <3>1, <3>2
    <3>4. m.table[m.ios[m.io[o]].num] = m.given[o]
      BY <1>0, <3>1 DEF UsedInv
    <3>5. QED
      BY <1>1, <2>1, <3>3, <3>4
  <2>2. CASE ~IsOpen(w, o)
    <3>1. CASE m.io[o] = i
      BY <1>1, <2>2, <3>1
    <3>2. CASE m.io[o] # i
      <4>1. ~IsOpen(m, o)
        BY <1>8, <2>2, <3>2
      <4>2. QED
        BY <1>0, <1>1, <2>2, <4>1 DEF UsedInv
    <3>3. QED
      BY <3>1, <3>2
  <2>3. QED
    BY <2>1, <2>2
<1>12. \A n \in Num : w.table[n] = m.table[n] \/ w.table[n] = Nil
  BY <1>1
<1>13. IF g > 0 /\ k = 0 THEN InheritedInv(w, g) ELSE OwnInv(w, g)
  <2>1. InheritedInv(m, g) => InheritedInv(w, g)
    BY <1>1, <1>12, Types DEF InheritedInv
  <2>2. ASSUME OwnInv(m, g)
        PROVE  OwnInv(w, g)
    <3>1. ASSUME NEW j \in Io, Mine(w, g, j)
          PROVE  w.table[w.ios[j].num] \in Queue
      <4>1. j # i /\ Mine(m, g, j) /\ w.ios[j] = m.ios[j]
        BY <1>2, <3>1
      <4>2. w.table[m.ios[j].num] = m.table[m.ios[j].num]
        BY <1>6, <4>1
      <4>3. QED
        BY <2>2, <4>1, <4>2 DEF OwnInv
    <3>2. \A j, l \in Io : Mine(w, g, j) /\ Mine(w, g, l) /\ w.ios[j].num = w.ios[l].num => j = l
      BY <1>2, <2>2 DEF OwnInv
    <3>3. QED
      BY <3>1, <3>2 DEF OwnInv
  <2>3. QED
    BY <2>1, <2>2 DEF BaseInv
<1>14. ASSUME k = 0, NEW j \in Io, Owns(w, j)
       PROVE  Listed(w, j)
  <2>1. j # i /\ Owns(m, j)
    BY <1>3, <1>14
  <2>2. Listed(m, j)
    BY <1>14, <2>1 DEF BaseInv
  <2>3. QED
    BY <1>1, <2>1, <2>2
<1>15. OwnedInv(w, X)
  <2> SUFFICES ASSUME NEW n \in Num, w.table[n] \in Queue, n \notin X
               PROVE  \E j \in Io : Owns(w, j) /\ w.ios[j].num = n
    BY DEF OwnedInv
  <2>1. m.table[n] \in Queue /\ ~(Owns(m, i) /\ n = m.ios[i].num)
    BY <1>1, Types
  <2>2. PICK j \in Io : Owns(m, j) /\ m.ios[j].num = n
    BY <2>1 DEF BaseInv, OwnedInv
  <2>3. j # i
    BY <2>1, <2>2
  <2>4. QED
    BY <1>1, <2>2, <2>3 DEF Owns, Holds
<1>16. BaseInv(w, g, k, X)
  BY <1>9, <1>10, <1>11, <1>13, <1>14, <1>15 DEF BaseInv
<1>17. Distinct(m, Obj) => Distinct(w, Obj)
  BY <1>1, <1>8 DEF Distinct
<1>18. \A n \in Num : m.table[n] = File => w.table[n] = File
  BY <1>1, <1>4, Types
<1>19. QED
  BY <1>16, <1>17, <1>18

\* Files of the application come and go where there is no kqueue.
LEMMA RetableKeeps ==
    ASSUME NEW g \in Gen, NEW k \in 0..2, NEW X, NEW m, MemInv(m, g, k, X), NEW w \in Memory,
           w.io = m.io, w.pid = m.pid, w.ios = m.ios, w.copies = m.copies,
           w.given = m.given, w.closed = m.closed,
           \A n \in Num : w.table[n] = m.table[n] \/ (m.table[n] \notin Queue /\ w.table[n] \notin Queue)
    PROVE  MemInv(w, g, k, X)
<1>0. m \in Memory /\ Fields(m) /\ RefInv(m) /\ PidInv(m, g) /\ UsedInv(m, g)
  BY FieldsOf DEF MemInv, BaseInv
<1>1. /\ \A i \in Io : /\ Mine(w, g, i) <=> Mine(m, g, i)
                       /\ Owns(w, i) <=> Owns(m, i)
                       /\ Listed(w, i) <=> Listed(m, i)
      /\ \A o \in Obj : IsOpen(w, o) <=> IsOpen(m, o)
  BY DEF Mine, Owns, Holds, Listed, IsOpen
<1>2. RefInv(w) /\ PidInv(w, g) /\ Distinct(w, Obj)
  BY <1>1 DEF MemInv, BaseInv, RefInv, PidInv, Distinct
<1>3. \A i \in Io : Mine(m, g, i) => m.ios[i].num \in Num
  <2> SUFFICES ASSUME NEW i \in Io, Mine(m, g, i)
               PROVE  m.ios[i].num \in Num
    OBVIOUS
  <2>1. m.ios[i] \in IoObject
    BY <1>0 DEF Mine, Holds, Fields
  <2>2. QED
    BY <2>1, Types DEF Mine, Holds
<1>4. ASSUME OwnInv(m, g)
      PROVE  /\ \A i \in Io : Mine(m, g, i) => /\ w.table[m.ios[i].num] = m.table[m.ios[i].num]
                                               /\ w.table[m.ios[i].num] \in Queue
             /\ OwnInv(w, g)
  <2>1. ASSUME NEW i \in Io, Mine(m, g, i)
        PROVE  /\ w.table[m.ios[i].num] = m.table[m.ios[i].num]
               /\ w.table[m.ios[i].num] \in Queue
    <3>1. m.table[m.ios[i].num] \in Queue /\ m.ios[i].num \in Num
      BY <1>3, <1>4, <2>1 DEF OwnInv
    <3>2. QED
      BY <3>1
  <2>2. QED
    BY <1>1, <1>4, <2>1 DEF OwnInv
<1>5. UsedInv(w, g)
  <2> SUFFICES ASSUME NEW o \in Obj, m.pid[o] = g
               PROVE  /\ IsOpen(m, o) => w.table[m.ios[m.io[o]].num] = m.given[o]
                      /\ ~IsOpen(m, o) => o \in m.closed
    BY <1>1 DEF UsedInv
  <2>1. ~InheritedInv(m, g)
    BY DEF InheritedInv
  <2>2. OwnInv(m, g)
    BY <2>1 DEF MemInv, BaseInv
  <2>3. ASSUME IsOpen(m, o)
        PROVE  w.table[m.ios[m.io[o]].num] = m.given[o]
    <3>1. m.io[o] \in Io /\ Mine(m, g, m.io[o])
      BY <1>0, <2>3 DEF Fields, RefInv, Mine, Holds, IsOpen
    <3>2. w.table[m.ios[m.io[o]].num] = m.table[m.ios[m.io[o]].num]
      BY <1>4, <2>2, <3>1
    <3>3. QED
      BY <1>0, <2>3, <3>2 DEF UsedInv
  <2>4. QED
    BY <1>0, <2>3 DEF UsedInv
<1>6. IF g > 0 /\ k = 0 THEN InheritedInv(w, g) ELSE OwnInv(w, g)
  <2>1. InheritedInv(m, g) => InheritedInv(w, g)
    BY DEF InheritedInv
  <2>2. QED
    BY <1>4, <2>1 DEF MemInv, BaseInv
<1>7. OwnedInv(w, X)
  <2>1. OwnedInv(m, X) => OwnedInv(w, X)
    BY <1>1 DEF OwnedInv
  <2>2. QED
    BY <2>1 DEF MemInv, BaseInv
<1>8. k = 0 => \A i \in Io : Owns(w, i) => Listed(w, i)
  BY <1>1 DEF MemInv, BaseInv
<1>9. QED
  BY <1>2, <1>5, <1>6, <1>7, <1>8 DEF MemInv, BaseInv

\* Hash#delete takes one entry away; the others stay, in another place.
Without(E, s, x, r) ==
    /\ r \in Seq(E) /\ Len(r) = Len(s) - 1
    /\ \A j \in 1..(x - 1) : r[j] = s[j]
    /\ \A j \in x..(Len(s) - 1) : r[j] = s[j + 1]

LEMMA RemoveAtIs ==
    ASSUME NEW E, NEW s \in Seq(E), NEW x \in 1..Len(s), NEW r, r = RemoveAt(s, x)
    PROVE  Without(E, s, x, r)
<1> DEFINE a == SubSeq(s, 1, x - 1)
           b == SubSeq(s, x + 1, Len(s))
<1>1. r = a \o b
  BY DEF RemoveAt
<1>2. Len(s) \in Nat /\ x \in Nat /\ 1 <= x /\ x <= Len(s)
  BY LenProperties
<1>3. /\ a \in Seq(E) /\ Len(a) = x - 1
      /\ \A j \in 1..(x - 1) : a[j] = s[j]
  BY <1>2
<1>4. /\ b \in Seq(E) /\ Len(b) = Len(s) - x
      /\ \A j \in 1..(Len(s) - x) : b[j] = s[x + j]
  BY <1>2
<1> HIDE DEF a, b
<1>5. /\ r \in Seq(E) /\ Len(r) = Len(a) + Len(b)
      /\ \A j \in 1..(Len(a) + Len(b)) : r[j] = IF j <= Len(a) THEN a[j] ELSE b[j - Len(a)]
  <2>1. a \in Seq(E) /\ b \in Seq(E)
    BY <1>3, <1>4
  <2>2. /\ a \o b \in Seq(E) /\ Len(a \o b) = Len(a) + Len(b)
        /\ \A j \in 1..(Len(a) + Len(b)) : (a \o b)[j] = IF j <= Len(a) THEN a[j] ELSE b[j - Len(a)]
    BY <2>1, ConcatProperties, Zenon
  <2>3. QED
    BY <1>1, <2>2, Zenon
<1>6. ASSUME NEW j \in 1..(x - 1)
      PROVE  r[j] = s[j]
  BY <1>2, <1>3, <1>4, <1>5
<1>7. ASSUME NEW j \in x..(Len(s) - 1)
      PROVE  r[j] = s[j + 1]
  <2>0. j \in 1..(Len(a) + Len(b)) /\ ~(j <= Len(a)) /\ Len(a) = x - 1
    BY <1>2, <1>3, <1>4
  <2>1. r[j] = b[j - (x - 1)]
    BY <1>5, <2>0
  <2>2. j - (x - 1) \in 1..(Len(s) - x) /\ x + (j - (x - 1)) = j + 1
    BY <1>2
  <2>3. QED
    BY <1>4, <2>1, <2>2
<1>8. Len(r) = Len(s) - 1
  BY <1>2, <1>3, <1>4, <1>5
<1>9. QED
  BY <1>5, <1>6, <1>7, <1>8 DEF Without

LEMMA DeletedIs ==
    ASSUME NEW E, NEW s \in Seq(E), NEW i, NEW r, r = Deleted(s, i)
    PROVE  /\ r \in Seq(E)
           /\ \A j \in DOMAIN r : \E l \in DOMAIN s : r[j] = s[l]
           /\ \A l \in DOMAIN s : s[l].io # i => \E j \in DOMAIN r : r[j] = s[l]
<1>0. DOMAIN s = 1..Len(s) /\ Len(s) \in Nat
  BY LenProperties
<1>1. CASE \E j \in DOMAIN s : s[j].io = i
  <2>1. PICK x : x = (CHOOSE j \in DOMAIN s : s[j].io = i)
    OBVIOUS
  <2>2. x \in 1..Len(s) /\ s[x].io = i /\ r = RemoveAt(s, x)
    BY <1>0, <1>1, <2>1 DEF Deleted
  <2>3. /\ r \in Seq(E) /\ Len(r) = Len(s) - 1
        /\ \A j \in 1..(x - 1) : r[j] = s[j]
        /\ \A j \in x..(Len(s) - 1) : r[j] = s[j + 1]
    <3>1. x \in 1..Len(s) /\ r = RemoveAt(s, x) /\ s \in Seq(E)
      BY <2>2
    <3>2. Without(E, s, x, r)
      BY ONLY <3>1, RemoveAtIs
    <3>3. QED
      BY <3>2 DEF Without
  <2>4. DOMAIN r = 1..(Len(s) - 1)
    BY <2>3, LenProperties
  <2>5. ASSUME NEW j \in 1..(Len(s) - 1)
        PROVE  \E l \in 1..Len(s) : r[j] = s[l]
    <3>1. CASE j \in 1..(x - 1)
      BY <1>0, <2>2, <2>3, <3>1
    <3>2. CASE j \notin 1..(x - 1)
      <4>1. j \in x..(Len(s) - 1) /\ j + 1 \in 1..Len(s)
        BY <1>0, <2>2, <3>2
      <4>2. QED
        BY <2>3, <4>1
    <3>3. QED
      BY <3>1, <3>2
  <2>6. ASSUME NEW l \in 1..Len(s), s[l].io # i
        PROVE  \E j \in 1..(Len(s) - 1) : r[j] = s[l]
    <3>1. l # x
      BY <2>2, <2>6
    <3>2. CASE l < x
      <4>1. l \in 1..(x - 1) /\ l \in 1..(Len(s) - 1)
        BY <1>0, <2>2, <3>2
      <4>2. QED
        BY <2>3, <4>1
    <3>3. CASE ~(l < x)
      <4>1. l - 1 \in x..(Len(s) - 1) /\ l - 1 \in 1..(Len(s) - 1) /\ (l - 1) + 1 = l
        BY <1>0, <2>2, <3>1, <3>3
      <4>2. QED
        BY <2>3, <4>1
    <3>4. QED
      BY <3>2, <3>3
  <2>7. QED
    BY <1>0, <2>3, <2>4, <2>5, <2>6
<1>2. CASE ~\E j \in DOMAIN s : s[j].io = i
  BY <1>2 DEF Deleted
<1>3. QED
  BY <1>1, <1>2

----------------------------------------------------------------------------
(* A copy that is being made.                                              *)

Born(m, o, n) ==
    [m EXCEPT !.io[n] = m.io[o], !.pid[n] = m.pid[o], !.given[n] = m.given[o],
              !.closed = IF o \in @ THEN @ \cup {n} ELSE @]

Unseen(m, n) == [m EXCEPT !.io[n] = Nil, !.pid[n] = Nil, !.given[n] = Nil]

\* The copy starts as its original, with the same @io.
LEMMA BornKeeps ==
    ASSUME NEW g \in Gen, NEW k \in 0..2, NEW X, NEW m, MemInv(m, g, k, X), NEW o \in Obj, NEW n \in Obj,
           Exists(m, o), ~Exists(m, n), NEW b, b = Born(m, o, n)
    PROVE  BaseInv(b, g, k, X) /\ Distinct(b, Obj \ {n}) /\ b.table = m.table
<1>0. m \in Memory /\ Fields(m) /\ RefInv(m) /\ PidInv(m, g) /\ UsedInv(m, g)
  BY FieldsOf DEF MemInv, BaseInv
<1>1. o # n /\ m.io[o] # Nil /\ m.io[n] = Nil
  BY DEF Exists
<1> DEFINE io == [m.io EXCEPT ![n] = m.io[o]]
           pid == [m.pid EXCEPT ![n] = m.pid[o]]
           given == [m.given EXCEPT ![n] = m.given[o]]
           closed == IF o \in m.closed THEN m.closed \cup {n} ELSE m.closed
<1>2. /\ io \in [Obj -> Io \cup {Nil}] /\ pid \in [Obj -> Gen \cup {Nil}]
      /\ given \in [Obj -> Queue \cup {Nil}] /\ closed \subseteq Obj
      /\ m.closed \subseteq closed /\ (o \in m.closed => n \in closed)
      /\ io[n] = m.io[o] /\ pid[n] = m.pid[o] /\ given[n] = m.given[o]
      /\ \A p \in Obj : p # n => io[p] = m.io[p] /\ pid[p] = m.pid[p] /\ given[p] = m.given[p]
  BY <1>0 DEF Fields
<1>3. b = [m EXCEPT !.io = io, !.pid = pid, !.given = given, !.closed = closed]
  BY <1>0 DEF Born, Memory
<1> HIDE DEF io, pid, given, closed
<1>4. /\ b \in Memory /\ b.ios = m.ios /\ b.copies = m.copies /\ b.table = m.table
      /\ b.io = io /\ b.pid = pid /\ b.given = given /\ b.closed = closed
  BY <1>0, <1>2, <1>3 DEF Memory
<1>5. IsOpen(b, n) <=> IsOpen(m, o)
  BY <1>2, <1>4 DEF IsOpen
<1>6. \A p \in Obj : p # n => (IsOpen(b, p) <=> IsOpen(m, p))
  BY <1>2, <1>4 DEF IsOpen
<1>7. \A i \in Io : /\ Mine(b, g, i) => Mine(m, g, i)
                    /\ Owns(b, i) <=> Owns(m, i)
                    /\ Listed(b, i) <=> Listed(m, i)
  <2> SUFFICES ASSUME NEW i \in Io
               PROVE  Mine(b, g, i) => Mine(m, g, i)
    BY <1>4 DEF Owns, Holds, Listed
  <2>1. \A p \in Obj : b.pid[p] = g /\ b.io[p] = i => \E r \in Obj : m.pid[r] = g /\ m.io[r] = i
    BY <1>2, <1>4
  <2>2. QED
    BY <1>4, <2>1 DEF Mine, Holds
<1>8. RefInv(b)
  BY <1>0, <1>2, <1>4 DEF RefInv
<1>9. PidInv(b, g)
  BY <1>0, <1>1, <1>2, <1>4 DEF PidInv
<1>10. UsedInv(b, g)
  <2> SUFFICES ASSUME NEW p \in Obj, b.pid[p] = g
               PROVE  /\ IsOpen(b, p) => b.table[b.ios[b.io[p]].num] = b.given[p]
                      /\ ~IsOpen(b, p) => p \in b.closed
    BY DEF UsedInv
  <2>1. CASE p = n
    BY <1>0, <1>2, <1>4, <1>5, <2>1 DEF UsedInv
  <2>2. CASE p # n
    BY <1>0, <1>2, <1>4, <1>6, <2>2 DEF UsedInv
  <2>3. QED
    BY <2>1, <2>2
<1>11. IF g > 0 /\ k = 0 THEN InheritedInv(b, g) ELSE OwnInv(b, g)
  <2>1. InheritedInv(m, g) => InheritedInv(b, g)
    BY <1>2, <1>4 DEF InheritedInv
  <2>2. OwnInv(m, g) => OwnInv(b, g)
    BY <1>4, <1>7 DEF OwnInv
  <2>3. QED
    BY <2>1, <2>2 DEF MemInv, BaseInv
<1>12. /\ k = 0 => \A i \in Io : Owns(b, i) => Listed(b, i)
       /\ OwnedInv(b, X)
  BY <1>4, <1>7 DEF MemInv, BaseInv, OwnedInv
<1>13. Distinct(b, Obj \ {n})
  <2>1. Distinct(m, Obj)
    BY DEF MemInv
  <2>2. QED
    BY <1>2, <1>4, <1>6, <2>1 DEF Distinct
<1>14. QED
  BY <1>4, <1>8, <1>9, <1>10, <1>11, <1>12, <1>13 DEF MemInv, BaseInv

\* If it is not finished, nobody refers to it.
LEMMA UnseenKeeps ==
    ASSUME NEW g \in Gen, NEW k \in 0..2, NEW X, NEW m, BaseInv(m, g, k, X), NEW n \in Obj,
           Distinct(m, Obj \ {n}), NEW u, u = Unseen(m, n)
    PROVE  MemInv(u, g, k, X) /\ u.table = m.table
<1>0. m \in Memory /\ Fields(m) /\ RefInv(m) /\ PidInv(m, g) /\ UsedInv(m, g)
  BY FieldsOf DEF BaseInv
<1> DEFINE io == [m.io EXCEPT ![n] = Nil]
           pid == [m.pid EXCEPT ![n] = Nil]
           given == [m.given EXCEPT ![n] = Nil]
<1>1. /\ io \in [Obj -> Io \cup {Nil}] /\ pid \in [Obj -> Gen \cup {Nil}]
      /\ given \in [Obj -> Queue \cup {Nil}]
      /\ io[n] = Nil /\ pid[n] = Nil
      /\ \A p \in Obj : p # n => io[p] = m.io[p] /\ pid[p] = m.pid[p] /\ given[p] = m.given[p]
  BY <1>0 DEF Fields
<1>2. u = [m EXCEPT !.io = io, !.pid = pid, !.given = given]
  BY <1>0 DEF Unseen, Memory
<1> HIDE DEF io, pid, given
<1>3. /\ u \in Memory /\ u.ios = m.ios /\ u.copies = m.copies /\ u.table = m.table
      /\ u.io = io /\ u.pid = pid /\ u.given = given /\ u.closed = m.closed
  BY <1>0, <1>1, <1>2 DEF Memory
<1>4. ~IsOpen(u, n) /\ \A p \in Obj : p # n => (IsOpen(u, p) <=> IsOpen(m, p))
  BY <1>1, <1>3 DEF IsOpen
<1>5. g # Nil
  BY Types
<1>6. \A i \in Io : /\ Mine(u, g, i) => Mine(m, g, i)
                    /\ Owns(u, i) <=> Owns(m, i)
                    /\ Listed(u, i) <=> Listed(m, i)
  <2> SUFFICES ASSUME NEW i \in Io
               PROVE  Mine(u, g, i) => Mine(m, g, i)
    BY <1>3 DEF Owns, Holds, Listed
  <2>1. \A p \in Obj : u.pid[p] = g /\ u.io[p] = i => m.pid[p] = g /\ m.io[p] = i
    BY <1>1, <1>3, <1>5
  <2>2. QED
    BY <1>3, <2>1 DEF Mine, Holds
<1>7. RefInv(u) /\ PidInv(u, g)
  BY <1>0, <1>1, <1>3 DEF RefInv, PidInv
<1>8. UsedInv(u, g)
  BY <1>0, <1>1, <1>3, <1>4, <1>5 DEF UsedInv
<1>9. IF g > 0 /\ k = 0 THEN InheritedInv(u, g) ELSE OwnInv(u, g)
  <2>1. InheritedInv(m, g) => InheritedInv(u, g)
    BY <1>1, <1>3, <1>5 DEF InheritedInv
  <2>2. OwnInv(m, g) => OwnInv(u, g)
    BY <1>3, <1>6 DEF OwnInv
  <2>3. QED
    BY <2>1, <2>2 DEF BaseInv
<1>10. /\ k = 0 => \A i \in Io : Owns(u, i) => Listed(u, i)
       /\ OwnedInv(u, X)
  BY <1>3, <1>6 DEF BaseInv, OwnedInv
<1>11. Distinct(u, Obj)
  <2> SUFFICES ASSUME NEW p \in Obj, NEW r \in Obj, IsOpen(u, p), u.io[p] = u.io[r]
               PROVE  p = r
    BY DEF Distinct
  <2>1. p # n /\ u.io[p] # Nil
    BY <1>4 DEF IsOpen
  <2>2. r # n
    BY <1>1, <1>3, <2>1
  <2>3. QED
    BY <1>1, <1>3, <1>4, <2>1, <2>2 DEF Distinct
<1>12. QED
  BY <1>3, <1>7, <1>8, <1>9, <1>10, <1>11 DEF MemInv, BaseInv

----------------------------------------------------------------------------
(* The steps.                                                              *)

\* What follows from a method's __kq_check.
Going(m, o, r, k, X) ==
    /\ k \in 0..2
    /\ BaseInv(r.m, gen, k, X)
    /\ Distinct(m, Obj) => Distinct(r.m, Obj)
    /\ Distinct(m, Obj \ {o}) => Distinct(r.m, Obj \ {o})
    /\ gen = 0 => k = 0
    /\ m.table = mem.table => \A n \in files : n \in Num /\ r.m.table[n] = File
    /\ r.ok /\ IsOpen(r.m, o) =>
         /\ r.m.pid[o] = gen /\ ~(gen > 0 /\ k = 0)
         /\ r.m.table[r.m.ios[r.m.io[o]].num] = r.m.given[o]
         /\ r.m.given[o] \in Queue

LEMMA AfterCheck ==
    ASSUME SafeInv, NEW o \in Obj, NEW m, BaseInv(m, gen, inits, orphans), NEW r \in Check(m, o)
    PROVE  Going(m, o, r, Inits(r, inits), Lost(m, r, orphans))
<1>1. gen \in Gen /\ inits \in 0..2 /\ (gen = 0 => inits = 0)
  BY DEF SafeInv
<1>2. /\ BaseInv(r.m, gen, Inits(r, inits), Lost(m, r, orphans))
      /\ Distinct(m, Obj) => Distinct(r.m, Obj)
      /\ Distinct(m, Obj \ {o}) => Distinct(r.m, Obj \ {o})
      /\ r.ok /\ IsOpen(r.m, o) => r.m.pid[o] = gen
      /\ gen = 0 => Inits(r, inits) = inits
      /\ \A n \in Num : m.table[n] = File => r.m.table[n] = File
  <2>1. Outcome(m, o, r, inits, orphans)
    BY <1>1, CheckKeeps
  <2>2. QED
    BY <2>1 DEF Outcome
<1>3. Inits(r, inits) \in 0..2
  BY <1>1 DEF Inits
<1>4. files \subseteq Num /\ \A n \in files : mem.table[n] = File
  BY DEF SafeInv
<1>5. ASSUME r.ok, IsOpen(r.m, o)
      PROVE  /\ r.m.pid[o] = gen /\ ~(gen > 0 /\ Inits(r, inits) = 0)
             /\ r.m.io[o] \in Io /\ r.m.ios[r.m.io[o]] \in IoObject
             /\ r.m.table[r.m.ios[r.m.io[o]].num] = r.m.given[o]
             /\ r.m.given[o] \in Queue
  <2>1. r.m.pid[o] = gen
    BY <1>2, <1>5
  <2>2. ~InheritedInv(r.m, gen)
    BY <2>1 DEF InheritedInv
  <2>3. ~(gen > 0 /\ Inits(r, inits) = 0) /\ OwnInv(r.m, gen)
    BY <1>2, <2>2 DEF BaseInv
  <2>4. r.m \in Memory /\ RefInv(r.m) /\ UsedInv(r.m, gen)
    BY <1>2 DEF BaseInv
  <2>5. Fields(r.m)
    BY <2>4, FieldsOf
  <2>6. r.m.io[o] \in Io /\ r.m.ios[r.m.io[o]] # Nil /\ r.m.ios[r.m.io[o]].num # Nil
    BY <1>5, <2>4, <2>5 DEF IsOpen, Fields, RefInv
  <2>7. r.m.ios[r.m.io[o]] \in IoObject
    BY <2>5, <2>6 DEF Fields
  <2>8. Mine(r.m, gen, r.m.io[o])
    BY <2>1, <2>6 DEF Mine, Holds
  <2>9. r.m.table[r.m.ios[r.m.io[o]].num] \in Queue
    BY <2>3, <2>6, <2>8 DEF OwnInv
  <2>10. r.m.table[r.m.ios[r.m.io[o]].num] = r.m.given[o]
    BY <1>5, <2>1, <2>4 DEF UsedInv
  <2>11. QED
    BY <2>1, <2>3, <2>6, <2>7, <2>9, <2>10
<1>6. QED
  BY <1>1, <1>2, <1>3, <1>4, <1>5 DEF Going

\* The variables that a method leaves alone.
LEMMA CheckedIs ==
    ASSUME SafeInv, NEW r, NEW failed, Checked(r, failed)
    PROVE  /\ inits' = Inits(r, inits) /\ orphans' = Lost(mem, r, orphans)
           /\ gen' = gen /\ files' = files
BY DEF Checked, Inits, Lost, SafeInv

LEMMA to_io_Safe ==
    ASSUME SafeInv, NEW o \in Obj, to_io(o)
    PROVE  SafeInv'
<1>1. PICK r \in Check(mem, o) :
        /\ mem' = r.m /\ regs' = Emptied(regs, r) /\ told' = Emptied(told, r)
        /\ Checked(r, ~r.ok)
  BY DEF to_io
<1>2. BaseInv(mem, gen, inits, orphans) /\ Distinct(mem, Obj) /\ regs = told
  BY DEF SafeInv, MemInv
<1>3. inits' = Inits(r, inits) /\ orphans' = Lost(mem, r, orphans) /\ gen' = gen /\ files' = files
  BY <1>1, CheckedIs
<1>4. /\ Inits(r, inits) \in 0..2
      /\ BaseInv(r.m, gen, Inits(r, inits), Lost(mem, r, orphans)) /\ Distinct(r.m, Obj)
      /\ gen = 0 => Inits(r, inits) = 0
      /\ \A n \in files : n \in Num /\ r.m.table[n] = File
  <2>1. Going(mem, o, r, Inits(r, inits), Lost(mem, r, orphans))
    BY <1>2, AfterCheck
  <2>2. QED
    BY <1>2, <2>1 DEF Going
<1>5. MemInv(mem', gen', inits', orphans')
  BY <1>1, <1>3, <1>4 DEF MemInv
<1>6. gen \in Gen
  BY DEF SafeInv
<1>7. QED
  BY <1>1, <1>2, <1>3, <1>4, <1>5, <1>6 DEF SafeInv

\* What reaches kevent(2) is what was asked for, of the kqueue of the object.
LEMMA kevent_Safe ==
    ASSUME SafeInv, NEW o \in Obj, NEW list \in ChangeLists, kevent(o, list)
    PROVE  SafeInv'
<1> DEFINE asked == IF \A j \in DOMAIN list : list[j].form = "Struct" THEN list ELSE <<>>
<1>1. PICK r \in Check(mem, o) :
        /\ r.ok /\ IsOpen(r.m, o)
        /\ mem' = r.m
        /\ regs' = IF r.m.table[r.m.ios[r.m.io[o]].num] \in Queue
                   THEN [Emptied(regs, r) EXCEPT ![r.m.table[r.m.ios[r.m.io[o]].num]] =
                            Applied(@, changelist_prepare(list))]
                   ELSE Emptied(regs, r)
        /\ told' = [Emptied(told, r) EXCEPT ![r.m.given[o]] = Applied(@, asked)]
        /\ Checked(r, ~r.ok)
  BY Zenon DEF kevent
<1>2. BaseInv(mem, gen, inits, orphans) /\ Distinct(mem, Obj) /\ regs = told
  BY DEF SafeInv, MemInv
<1>3. inits' = Inits(r, inits) /\ orphans' = Lost(mem, r, orphans) /\ gen' = gen /\ files' = files
  BY <1>1, CheckedIs
<1>4. /\ Inits(r, inits) \in 0..2
      /\ BaseInv(r.m, gen, Inits(r, inits), Lost(mem, r, orphans)) /\ Distinct(r.m, Obj)
      /\ gen = 0 => Inits(r, inits) = 0
      /\ \A n \in files : n \in Num /\ r.m.table[n] = File
      /\ r.m.table[r.m.ios[r.m.io[o]].num] = r.m.given[o]
      /\ r.m.given[o] \in Queue
  <2>1. Going(mem, o, r, Inits(r, inits), Lost(mem, r, orphans))
    BY <1>2, AfterCheck
  <2>2. r.ok /\ IsOpen(r.m, o)
    BY <1>1
  <2>3. QED
    BY <1>2, <2>1, <2>2 DEF Going
<1>5. MemInv(mem', gen', inits', orphans')
  BY <1>1, <1>3, <1>4 DEF MemInv
<1>6. gen \in Gen
  BY DEF SafeInv
<1>7. changelist_prepare(list) = asked
  <2>1. \A j \in DOMAIN list : list[j].form \in {"Struct", "Array"}
    <3>1. list \in Seq(Change)
      BY ConstantsOK
    <3>2. \A j \in DOMAIN list : list[j] \in Change
      BY <3>1
    <3>3. QED
      BY <3>2 DEF Change
  <2>2. QED
    BY <2>1 DEF changelist_prepare
<1> HIDE DEF asked
<1>8. regs' = told'
  BY <1>1, <1>2, <1>4, <1>7, Zenon
<1>9. QED
  BY <1>1, <1>3, <1>4, <1>5, <1>6, <1>8 DEF SafeInv

\* IO#dup: the new number is of the same kqueue, and the new Kqueue::IO is in
\* @copies.
Dup(m, q, n) ==
    [Opened(m, q, 1) EXCEPT !.io[n] = Nth(FreeIo(m), 0),
                            !.copies = Append(@, [io |-> Nth(FreeIo(m), 0), obj |-> n])]

LEMMA DupKeeps ==
    ASSUME NEW g \in Gen, NEW k \in 0..2, NEW X, ~(g > 0 /\ k = 0), NEW m, BaseInv(m, g, k, X), NEW n \in Obj,
           Distinct(m, Obj \ {n}), m.pid[n] = g, m.given[n] \in Queue, Room(m, 1),
           NEW w, w = Dup(m, m.given[n], n)
    PROVE  MemInv(w, g, k, X) /\ \A x \in Num : m.table[x] = File => w.table[x] = File
<1> DEFINE q == m.given[n]
           v == Opened(m, q, 1)
           i == Nth(FreeIo(m), 0)
           e == [io |-> i, obj |-> n]
           nums == Nums(m, 1)
           ids == Ids(m, 1)
<1>0. m \in Memory /\ Fields(m) /\ 1 \in Nat
  BY FieldsOf DEF BaseInv
<1>1. /\ v \in Memory
      /\ v.io = m.io /\ v.pid = m.pid /\ v.copies = m.copies
      /\ v.given = m.given /\ v.closed = m.closed
      /\ nums \subseteq FreeNum(m) /\ ids \subseteq FreeIo(m)
      /\ \A x \in Num : v.table[x] = IF x \in nums THEN q ELSE m.table[x]
      /\ \A x \in Io : x \notin ids => v.ios[x] = m.ios[x]
      /\ \A x \in ids : /\ v.ios[x] \in IoObject
                        /\ v.ios[x].auto /\ v.ios[x].num \in nums
      /\ \A x, y \in ids : v.ios[x].num = v.ios[y].num => x = y
      /\ \A x \in nums : \E y \in ids : v.ios[y].num = x
  BY <1>0, OpenedIs
<1>2. ids = {i}
  BY DEF Ids
<1>3. i \in Io
  BY <1>1, <1>2 DEF FreeIo
<1>4. w = [v EXCEPT !.io = [m.io EXCEPT ![n] = i], !.copies = Append(m.copies, e)]
  BY <1>1 DEF Memory, Dup
<1> HIDE DEF v, i, nums, ids
<1>5. e \in [io : Io, obj : Obj] /\ e.io = i
  BY <1>3
<1> HIDE DEF e
<1>6. /\ m.copies \in Seq([io : Io, obj : Obj]) /\ Len(m.copies) \in Nat
      /\ DOMAIN m.copies = 1..Len(m.copies)
  BY <1>0, LenProperties DEF Fields
<1>7. /\ Append(m.copies, e) \in Seq([io : Io, obj : Obj])
      /\ Len(Append(m.copies, e)) = Len(m.copies) + 1
      /\ \A j \in 1..Len(m.copies) : Append(m.copies, e)[j] = m.copies[j]
      /\ Append(m.copies, e)[Len(m.copies) + 1] = e
  BY <1>5, <1>6, AppendProperties
<1>8. DOMAIN Append(m.copies, e) = 1..(Len(m.copies) + 1)
  BY <1>7, LenProperties
<1>9. [m.io EXCEPT ![n] = i] \in [Obj -> Io \cup {Nil}]
  BY <1>0, <1>3 DEF Fields
<1>10. /\ w \in Memory /\ w.io = [m.io EXCEPT ![n] = i] /\ w.copies = Append(m.copies, e)
       /\ w.pid = m.pid /\ w.given = m.given /\ w.closed = m.closed
       /\ w.table = v.table /\ w.ios = v.ios
  <2>1. /\ v \in Memory /\ v.pid = m.pid /\ v.given = m.given /\ v.closed = m.closed
        /\ Append(m.copies, e) \in Seq([io : Io, obj : Obj])
    BY <1>1, <1>7
  <2> DEFINE io == [m.io EXCEPT ![n] = i]
             copies == Append(m.copies, e)
  <2>2. w = [v EXCEPT !.io = io, !.copies = copies] /\ io \in [Obj -> Io \cup {Nil}]
    BY <1>4, <1>9
  <2> HIDE DEF io, copies
  <2>3. /\ w \in Memory /\ w.io = io /\ w.copies = copies
        /\ w.pid = v.pid /\ w.given = v.given /\ w.closed = v.closed
        /\ w.table = v.table /\ w.ios = v.ios
    BY ONLY <2>1, <2>2 DEF Memory, copies
  <2>4. QED
    BY <2>1, <2>3 DEF io, copies
<1>11. w.io[n] = i /\ \A p \in Obj : p # n => w.io[p] = m.io[p]
  BY <1>0, <1>10 DEF Fields
<1>12. Acquires(m, w, n, q, nums, ids)
  BY <1>1, <1>2, <1>10, <1>11 DEF Acquires
<1>13. \A j \in DOMAIN w.copies : w.copies[j].io \in ids \/ Listed(m, w.copies[j].io)
  <2> SUFFICES ASSUME NEW j \in 1..(Len(m.copies) + 1)
               PROVE  Append(m.copies, e)[j].io \in ids \/ Listed(m, Append(m.copies, e)[j].io)
    BY <1>8, <1>10
  <2>1. CASE j \in 1..Len(m.copies)
    BY <1>6, <1>7, <2>1 DEF Listed
  <2>2. CASE j \notin 1..Len(m.copies)
    <3>1. j = Len(m.copies) + 1
      BY <1>6, <2>2
    <3>2. QED
      BY <1>2, <1>5, <1>7, <3>1
  <2>3. QED
    BY <2>1, <2>2
<1>14. \A x \in Io : x \in ids \/ Listed(m, x) => Listed(w, x)
  <2>1. ASSUME NEW j \in 1..(Len(m.copies) + 1)
        PROVE  Listed(w, Append(m.copies, e)[j].io)
    BY <1>8, <1>10 DEF Listed
  <2>2. Len(m.copies) + 1 \in 1..(Len(m.copies) + 1) /\ \A j \in 1..Len(m.copies) : j \in 1..(Len(m.copies) + 1)
    BY <1>6
  <2>3. Listed(w, i)
    BY <1>5, <1>7, <2>1, <2>2
  <2>4. ASSUME NEW j \in DOMAIN m.copies
        PROVE  Listed(w, m.copies[j].io)
    BY <1>6, <1>7, <2>1, <2>2
  <2>5. QED
    BY <1>2, <2>3, <2>4 DEF Listed
<1>15. w.pid[n] \in Gen /\ w.pid[n] <= g
  BY <1>10 DEF Gen
<1>16. BaseInv(w, g, k, X) /\ Distinct(w, Obj)
  BY <1>10, <1>12, <1>13, <1>14, <1>15, AcquireKeeps
<1>17. \A x \in Num : m.table[x] = File => w.table[x] = File
  <2>1. \A x \in nums : m.table[x] = Nil
    BY <1>1 DEF FreeNum
  <2>2. QED
    BY <1>1, <1>10, <2>1, Types
<1>18. QED
  BY <1>16, <1>17 DEF MemInv

LEMMA initialize_copy_Safe ==
    ASSUME SafeInv, NEW o \in Obj, NEW n \in Obj, initialize_copy(o, n)
    PROVE  SafeInv'
<1> DEFINE b == Born(mem, o, n)
<1>1. Exists(mem, o) /\ ~Exists(mem, n)
  BY DEF initialize_copy
<1>2. PICK r \in Check(b, n) :
        /\ \/ ~r.ok /\ mem' = Settled(Unseen(r.m, n)) /\ Checked(r, TRUE)
           \/ r.ok /\ ~IsOpen(r.m, n) /\ mem' = r.m /\ Checked(r, FALSE)
           \/ r.ok /\ IsOpen(r.m, n) /\ mem' = Settled(Unseen(r.m, n)) /\ Checked(r, TRUE)
           \/ /\ r.ok /\ IsOpen(r.m, n) /\ Room(r.m, 1)
              /\ mem' = Dup(r.m, r.m.table[r.m.ios[r.m.io[n]].num], n)
              /\ Checked(r, FALSE)
        /\ regs' = Emptied(regs, r) /\ told' = Emptied(told, r)
  BY Zenon DEF initialize_copy, Born, Unseen, Dup
<1>3. MemInv(mem, gen, inits, orphans) /\ gen \in Gen /\ inits \in 0..2 /\ regs = told
  BY DEF SafeInv
<1>4. BaseInv(b, gen, inits, orphans) /\ Distinct(b, Obj \ {n}) /\ b.table = mem.table
  BY <1>1, <1>3, BornKeeps
<1>5. inits' = Inits(r, inits) /\ orphans' = Lost(mem, r, orphans) /\ gen' = gen /\ files' = files
  BY <1>2, CheckedIs
<1>a. InCopies(b) = InCopies(mem)
  <2>1. b.copies = mem.copies /\ b.table = mem.table /\ b.ios = mem.ios
    BY <1>3, Zenon DEF Born, MemInv, BaseInv, Memory
  <2>2. QED
    BY <2>1 DEF InCopies
<1> HIDE DEF b
<1>b. PICK Y : Y = Lost(b, r, orphans)
  OBVIOUS
<1>c. orphans' = Y
  BY <1>5, <1>a, <1>b DEF Lost
<1>6. /\ Inits(r, inits) \in 0..2
      /\ BaseInv(r.m, gen, Inits(r, inits), Y) /\ Distinct(r.m, Obj \ {n})
      /\ gen = 0 => Inits(r, inits) = 0
      /\ \A x \in files : x \in Num /\ r.m.table[x] = File
      /\ r.ok /\ IsOpen(r.m, n) =>
           /\ r.m.pid[n] = gen /\ ~(gen > 0 /\ Inits(r, inits) = 0)
           /\ r.m.table[r.m.ios[r.m.io[n]].num] = r.m.given[n]
           /\ r.m.given[n] \in Queue
  <2>1. Going(b, n, r, Inits(r, inits), Lost(b, r, orphans))
    BY <1>4, AfterCheck
  <2>2. QED
    BY <1>4, <1>b, <2>1 DEF Going
<1>7. /\ MemInv(mem', gen, Inits(r, inits), Y)
      /\ \A x \in files : mem'.table[x] = File
  <2>1. CASE mem' = Settled(Unseen(r.m, n))
    <3>1. PICK u : u = Unseen(r.m, n)
      OBVIOUS
    <3>2. MemInv(u, gen, Inits(r, inits), Y) /\ u.table = r.m.table
      BY <1>3, <1>6, <3>1, UnseenKeeps
    <3>3. PICK s : s = Settled(u)
      OBVIOUS
    <3>4. BaseInv(u, gen, Inits(r, inits), Y) /\ Distinct(u, Obj) /\ u \in Memory
      BY <3>2 DEF MemInv, BaseInv
    <3>5. MemInv(s, gen, Inits(r, inits), Y)
      BY <1>3, <1>6, <3>3, <3>4, SettledKeeps DEF MemInv
    <3>6. s.table = u.table
      BY <3>3, <3>4, SettledIs
    <3>7. mem' = s
      BY <2>1, <3>1, <3>3
    <3>8. QED
      BY <1>6, <3>2, <3>5, <3>6, <3>7
  <2>2. CASE r.ok /\ ~IsOpen(r.m, n) /\ mem' = r.m
    <3>1. Distinct(r.m, Obj)
      <4> SUFFICES ASSUME NEW p \in Obj, NEW s \in Obj, IsOpen(r.m, p), r.m.io[p] = r.m.io[s]
                   PROVE  p = s
        BY DEF Distinct
      <4>1. p # n /\ s # n
        BY <2>2 DEF IsOpen
      <4>2. QED
        BY <1>6, <4>1 DEF Distinct
    <3>2. QED
      BY <1>6, <2>2, <3>1 DEF MemInv
  <2>3. CASE /\ r.ok /\ IsOpen(r.m, n) /\ Room(r.m, 1)
             /\ mem' = Dup(r.m, r.m.table[r.m.ios[r.m.io[n]].num], n)
    <3>1. PICK w : w = mem'
      OBVIOUS
    <3>2. w = Dup(r.m, r.m.given[n], n)
      BY <1>6, <2>3, <3>1
    <3>3. MemInv(w, gen, Inits(r, inits), Y) /\ \A x \in Num : r.m.table[x] = File => w.table[x] = File
      <4>1. PICK v : v = r.m
        OBVIOUS
      <4>2. PICK k : k = Inits(r, inits)
        OBVIOUS
      <4>3. PICK g : g = gen
        OBVIOUS
      <4>4. /\ g \in Gen /\ k \in 0..2 /\ ~(g > 0 /\ k = 0) /\ BaseInv(v, g, k, Y) /\ n \in Obj
            /\ Distinct(v, Obj \ {n}) /\ v.pid[n] = g /\ v.given[n] \in Queue /\ Room(v, 1)
            /\ w = Dup(v, v.given[n], n)
        BY <1>3, <1>6, <2>3, <3>2, <4>1, <4>2, <4>3
      <4>5. MemInv(w, g, k, Y) /\ \A x \in Num : v.table[x] = File => w.table[x] = File
        BY ONLY <4>4, DupKeeps
      <4>6. QED
        BY <4>1, <4>2, <4>3, <4>5
    <3>4. QED
      BY <1>6, <3>1, <3>3
  <2>4. QED
    BY <1>2, <2>1, <2>2, <2>3
<1>8. QED
  BY <1>2, <1>3, <1>5, <1>6, <1>7, <1>c DEF SafeInv

\* close(2), if the Kqueue::IO owns its number.
LEMMA CloseNumIs ==
    ASSUME NEW m \in Memory, NEW i \in Io, m.ios[i] \in IoObject, NEW c, c = CloseNum(m, m.ios[i])
    PROVE  /\ c \in Memory
           /\ c.io = m.io /\ c.pid = m.pid /\ c.ios = m.ios /\ c.copies = m.copies
           /\ c.given = m.given /\ c.closed = m.closed
           /\ \A n \in Num : c.table[n] = IF Owns(m, i) /\ n = m.ios[i].num THEN Nil ELSE m.table[n]
<1>1. m.ios[i] # Nil
  BY Types
<1>2. CASE Owns(m, i)
  <2> DEFINE t == [m.table EXCEPT ![m.ios[i].num] = Nil]
  <2>1. c = [m EXCEPT !.table = t]
    BY <1>2 DEF CloseNum, Owns, Holds, Memory
  <2>2. m.table \in [Num -> Queue \cup {File, Nil}] /\ m.ios[i].num \in Num
    BY <1>2, FieldsOf, Types DEF Fields, Owns, Holds
  <2>3. /\ t \in [Num -> Queue \cup {File, Nil}]
        /\ \A n \in Num : t[n] = IF n = m.ios[i].num THEN Nil ELSE m.table[n]
    BY <2>2
  <2> HIDE DEF t
  <2>4. /\ c \in Memory
        /\ c.io = m.io /\ c.pid = m.pid /\ c.ios = m.ios /\ c.copies = m.copies
        /\ c.given = m.given /\ c.closed = m.closed /\ c.table = t
    BY <2>1, <2>3 DEF Memory
  <2>5. QED
    BY <1>2, <2>3, <2>4
<1>3. CASE ~Owns(m, i)
  <2>1. c = m
    BY <1>1, <1>3 DEF CloseNum, Owns, Holds
  <2>2. QED
    BY <1>3, <2>1
<1>4. QED
  BY <1>2, <1>3

Shut(m, o) ==
    [CloseNum(m, m.ios[m.io[o]]) EXCEPT
        !.copies = Deleted(@, m.io[o]), !.ios[m.io[o]].num = Nil, !.closed = @ \cup {o}]

LEMMA ShutKeeps ==
    ASSUME NEW g \in Gen, NEW k \in 0..2, NEW X, NEW m, MemInv(m, g, k, X), NEW o \in Obj, IsOpen(m, o),
           m.pid[o] = g \/ ~m.ios[m.io[o]].auto, NEW w, w = Shut(m, o)
    PROVE  MemInv(w, g, k, X) /\ \A n \in Num : m.table[n] = File => w.table[n] = File
<1>0. m \in Memory /\ Fields(m) /\ RefInv(m) /\ BaseInv(m, g, k, X) /\ Distinct(m, Obj)
  BY FieldsOf DEF MemInv, BaseInv
<1> DEFINE E == [io : Io, obj : Obj]
<1>1. PICK i : i = m.io[o]
  OBVIOUS
<1>2. i \in Io /\ m.ios[i] # Nil /\ m.ios[i] \in IoObject
  BY <1>0, <1>1 DEF IsOpen, Fields, RefInv
<1>3. PICK c : c = CloseNum(m, m.ios[i])
  OBVIOUS
<1>4. /\ c \in Memory
      /\ c.io = m.io /\ c.pid = m.pid /\ c.ios = m.ios /\ c.copies = m.copies
      /\ c.given = m.given /\ c.closed = m.closed
      /\ \A n \in Num : c.table[n] = IF Owns(m, i) /\ n = m.ios[i].num THEN Nil ELSE m.table[n]
  BY <1>0, <1>2, <1>3, CloseNumIs
<1>5. PICK s : s = Deleted(m.copies, i)
  OBVIOUS
<1>6. m.copies \in Seq(E)
  BY <1>0 DEF Fields
<1>7. /\ s \in Seq(E)
      /\ \A j \in DOMAIN s : \E l \in DOMAIN m.copies : s[j] = m.copies[l]
      /\ \A l \in DOMAIN m.copies : m.copies[l].io # i => \E j \in DOMAIN s : s[j] = m.copies[l]
  <2> HIDE DEF E
  <2>1. QED
    BY <1>5, <1>6, DeletedIs
<1>8. PICK ios : ios = [m.ios EXCEPT ![i] = [m.ios[i] EXCEPT !.num = Nil]]
  OBVIOUS
<1>9. /\ ios \in [Io -> IoObject \cup {Nil}] /\ ios[i] \in IoObject /\ ios[i].num = Nil
      /\ \A j \in Io : j # i => ios[j] = m.ios[j]
  BY <1>0, <1>2, <1>8, Types DEF Fields
<1>10. w = [c EXCEPT !.copies = s, !.ios = ios, !.closed = m.closed \cup {o}]
  BY <1>1, <1>3, <1>4, <1>5, <1>8 DEF Shut, Memory
<1>11. m.closed \cup {o} \subseteq Obj
  BY <1>0 DEF Fields
<1>12. /\ w \in Memory /\ w.copies = s /\ w.ios = ios /\ w.closed = m.closed \cup {o}
       /\ w.io = c.io /\ w.pid = c.pid /\ w.given = c.given /\ w.table = c.table
  <2>1. c \in Memory /\ s \in Seq([io : Io, obj : Obj])
    BY <1>4, <1>7
  <2>2. QED
    BY ONLY <1>9, <1>10, <1>11, <2>1 DEF Memory
<1>13. Releases(m, w, i)
  <2>1. ~Holds(w, i) /\ w.ios[i] # Nil
    BY <1>9, <1>12, Types DEF Holds
  <2>2. ASSUME NEW j \in Io
        PROVE  /\ Listed(m, j) /\ j # i => Listed(w, j)
               /\ Listed(w, j) => Listed(m, j)
    BY <1>7, <1>12 DEF Listed
  <2>3. \A p \in Obj : m.io[p] = i => p \in w.closed
    BY <1>0, <1>1, <1>12 DEF Distinct
  <2>4. QED
    BY <1>4, <1>9, <1>12, <2>1, <2>2, <2>3 DEF Releases
<1>14. Owns(m, i) => ~(g > 0 /\ k = 0)
  <2> SUFFICES ASSUME Owns(m, i)
               PROVE  ~(g > 0 /\ k = 0)
    OBVIOUS
  <2>1. m.pid[o] = g
    BY <1>1 DEF Owns
  <2>2. ~InheritedInv(m, g)
    BY <2>1 DEF InheritedInv
  <2>3. QED
    BY <1>0, <2>2 DEF BaseInv
<1>15. QED
  BY <1>0, <1>2, <1>12, <1>13, <1>14, ReleaseKeeps DEF MemInv

LEMMA close_Safe ==
    ASSUME SafeInv, NEW o \in Obj, close(o), ~rash'
    PROVE  SafeInv'
<1>1. /\ IsOpen(mem, o) /\ mem' = Shut(mem, o)
      /\ rash' = (rash \/ (mem.pid[o] # gen /\ mem.ios[mem.io[o]].auto))
      /\ regs' = Live(regs, mem') /\ told' = Live(told, mem')
      /\ gen' = gen /\ files' = files /\ inits' = inits /\ orphans' = orphans
  BY Zenon DEF close, Shut
<1>2. mem.pid[o] = gen \/ ~mem.ios[mem.io[o]].auto
  BY <1>1
<1>3. PICK w : w = mem'
  OBVIOUS
<1>4. /\ gen \in Gen /\ inits \in 0..2 /\ (gen = 0 => inits = 0) /\ MemInv(mem, gen, inits, orphans)
      /\ files \subseteq Num /\ (\A n \in files : mem.table[n] = File) /\ regs = told
  BY DEF SafeInv
<1>5. MemInv(w, gen, inits, orphans) /\ \A n \in Num : mem.table[n] = File => w.table[n] = File
  <2>1. w = Shut(mem, o)
    BY <1>1, <1>3
  <2>2. QED
    BY <1>1, <1>2, <1>4, <2>1, ShutKeeps
<1>6. MemInv(mem', gen', inits', orphans') /\ \A n \in files : mem'.table[n] = File
  BY <1>1, <1>3, <1>4, <1>5
<1>7. regs' = told'
  BY <1>1, <1>4
<1>8. QED
  BY <1>1, <1>4, <1>6, <1>7 DEF SafeInv

LEMMA Collect_Safe ==
    ASSUME SafeInv, NEW i \in Io, Collect(i)
    PROVE  SafeInv'
<1>1. /\ mem.ios[i] # Nil /\ Garbage(mem, i)
      /\ mem' = [CloseNum(mem, mem.ios[i]) EXCEPT !.ios[i] = Nil]
      /\ regs' = Live(regs, mem') /\ told' = Live(told, mem')
      /\ gen' = gen /\ files' = files /\ inits' = inits /\ orphans' = orphans
  BY DEF Collect
<1>2. /\ gen \in Gen /\ inits \in 0..2 /\ (gen = 0 => inits = 0) /\ MemInv(mem, gen, inits, orphans)
      /\ files \subseteq Num /\ (\A n \in files : mem.table[n] = File) /\ regs = told
  BY DEF SafeInv
<1>3. PICK m : m = mem
  OBVIOUS
<1>4. PICK w : w = mem'
  OBVIOUS
<1>5. PICK c : c = CloseNum(m, m.ios[i])
  OBVIOUS
<1>6. BaseInv(m, gen, inits, orphans) /\ Distinct(m, Obj) /\ m \in Memory
  BY <1>2, <1>3 DEF MemInv, BaseInv
<1>7. Fields(m) /\ m.ios[i] # Nil /\ Garbage(m, i)
  BY <1>1, <1>3, <1>6, FieldsOf
<1>8. m.ios[i] \in IoObject
  BY <1>7 DEF Fields
<1>9. /\ c \in Memory
      /\ c.io = m.io /\ c.pid = m.pid /\ c.ios = m.ios /\ c.copies = m.copies
      /\ c.given = m.given /\ c.closed = m.closed
      /\ \A n \in Num : c.table[n] = IF Owns(m, i) /\ n = m.ios[i].num THEN Nil ELSE m.table[n]
  BY <1>5, <1>6, <1>8, CloseNumIs
<1>10. PICK ios : ios = [m.ios EXCEPT ![i] = Nil]
  OBVIOUS
<1>11. /\ ios \in [Io -> IoObject \cup {Nil}] /\ ios[i] = Nil
       /\ \A j \in Io : j # i => ios[j] = m.ios[j]
  BY <1>7, <1>10 DEF Fields
<1>12. w = [c EXCEPT !.ios = ios]
  BY <1>1, <1>3, <1>4, <1>5, <1>9, <1>10 DEF Memory
<1>13. /\ w \in Memory /\ w.copies = c.copies /\ w.ios = ios /\ w.closed = c.closed
       /\ w.io = c.io /\ w.pid = c.pid /\ w.given = c.given /\ w.table = c.table
  <2>1. c \in Memory
    BY <1>9
  <2>2. QED
    BY ONLY <1>11, <1>12, <2>1 DEF Memory
<1>14. Releases(m, w, i)
  <2>1. ~Holds(w, i)
    BY <1>11, <1>13 DEF Holds
  <2>2. \A j \in Io : Listed(m, j) <=> Listed(w, j)
    BY <1>9, <1>13 DEF Listed
  <2>3. \A o \in Obj : m.io[o] # i
    BY <1>7 DEF Garbage
  <2>4. QED
    BY <1>7, <1>9, <1>11, <1>13, <2>1, <2>2, <2>3 DEF Releases
<1>15. Owns(m, i) => ~(gen > 0 /\ inits = 0)
  <2>1. ~Listed(m, i)
    BY <1>7 DEF Garbage, Listed
  <2>2. QED
    BY <1>6, <2>1 DEF BaseInv
<1>16. MemInv(w, gen, inits, orphans) /\ \A n \in Num : m.table[n] = File => w.table[n] = File
  BY <1>2, <1>6, <1>13, <1>14, <1>15, ReleaseKeeps DEF MemInv
<1>17. MemInv(mem', gen', inits', orphans') /\ \A n \in files : mem'.table[n] = File
  BY <1>1, <1>2, <1>3, <1>4, <1>16
<1>18. regs' = told'
  BY <1>1, <1>2
<1>19. QED
  BY <1>1, <1>2, <1>17, <1>18 DEF SafeInv

\* In the child, the kqueues are gone and every Kqueue::IO that would close its
\* number is in @copies.
LEMMA ForkSafe ==
    ASSUME SafeInv, Fork, ~before'
    PROVE  SafeInv'
<1>1. /\ gen < MaxGen /\ gen' = gen + 1 /\ inits' = 0 /\ orphans' = {} /\ files' = files
      /\ mem' = [mem EXCEPT !.table = [n \in Num |-> IF mem.table[n] = File THEN File ELSE Nil]]
      /\ before' = (before \/ inits > 0) /\ regs' = told'
  BY DEF Fork
<1>2. /\ gen \in Gen /\ inits \in 0..2 /\ MemInv(mem, gen, inits, orphans)
      /\ files \subseteq Num /\ \A n \in files : mem.table[n] = File
  BY DEF SafeInv
<1>3. inits = 0
  <2>1. ~(inits > 0)
    BY <1>1, Zenon
  <2>2. QED
    BY <1>2, <2>1
<1>4. gen \in Nat /\ MaxGen \in Nat
  BY <1>2, ConstantsOK DEF Gen
<1>5. gen' \in Gen /\ gen' > 0
  BY <1>1, <1>4 DEF Gen
<1>6. PICK m : m = mem
  OBVIOUS
<1>7. PICK w : w = mem'
  OBVIOUS
<1>8. PICK t : t = [n \in Num |-> IF m.table[n] = File THEN File ELSE Nil]
  OBVIOUS
<1>9. /\ t \in [Num -> Queue \cup {File, Nil}]
      /\ \A n \in Num : t[n] = IF m.table[n] = File THEN File ELSE Nil
  BY <1>8
<1>10. /\ BaseInv(m, gen, 0, orphans) /\ m \in Memory /\ RefInv(m) /\ PidInv(m, gen)
       /\ Distinct(m, Obj) /\ \A i \in Io : Owns(m, i) => Listed(m, i)
  BY <1>2, <1>3, <1>6 DEF MemInv, BaseInv
<1>11. w = [m EXCEPT !.table = t]
  BY <1>1, <1>6, <1>7, <1>8
<1>12. /\ w \in Memory /\ w.io = m.io /\ w.pid = m.pid /\ w.ios = m.ios /\ w.copies = m.copies
       /\ w.given = m.given /\ w.closed = m.closed /\ w.table = t
  <2>1. m \in Memory
    BY <1>10
  <2>2. QED
    BY ONLY <1>9, <1>11, <2>1 DEF Memory
<1>13. PICK g : g = gen'
  OBVIOUS
<1>14. g \in Gen /\ g > 0 /\ g \in Nat /\ gen < g /\ g = gen + 1
  BY <1>1, <1>4, <1>5, <1>13
<1>15. \A o \in Obj : /\ w.pid[o] # Nil => w.pid[o] <= g
                      /\ w.pid[o] # g
                      /\ w.io[o] # Nil => w.pid[o] # Nil
  <2> SUFFICES ASSUME NEW o \in Obj
               PROVE  /\ m.pid[o] # Nil => m.pid[o] <= g
                      /\ m.pid[o] # g
                      /\ m.io[o] # Nil => m.pid[o] # Nil
    BY <1>12
  <2>1. /\ m.pid[o] # Nil => m.pid[o] <= gen
        /\ m.io[o] # Nil => m.pid[o] # Nil
    BY <1>10 DEF PidInv
  <2>2. m.pid[o] # Nil => m.pid[o] \in Nat
    BY <1>10, FieldsOf DEF Fields, Gen
  <2>3. g # Nil
    BY <1>14, Types
  <2>4. QED
    BY <1>4, <1>14, <2>1, <2>2, <2>3
<1>16. \A n \in Num : w.table[n] \notin Queue
  BY <1>9, <1>12, Types
<1>17. RefInv(w) /\ Distinct(w, Obj) /\ \A i \in Io : Owns(w, i) => Listed(w, i)
  BY <1>10, <1>12 DEF RefInv, Distinct, IsOpen, Owns, Holds, Listed
<1>18. PidInv(w, g) /\ UsedInv(w, g) /\ InheritedInv(w, g) /\ OwnedInv(w, {})
  BY <1>15, <1>16 DEF PidInv, UsedInv, InheritedInv, OwnedInv
<1>19. MemInv(w, g, 0, {})
  BY <1>12, <1>14, <1>17, <1>18 DEF MemInv, BaseInv
<1>20. MemInv(mem', gen', inits', orphans') /\ \A n \in files : mem'.table[n] = File
  BY <1>1, <1>2, <1>6, <1>7, <1>9, <1>12, <1>13, <1>19
<1>21. QED
  BY <1>1, <1>2, <1>5, <1>20 DEF SafeInv

\* The application opens a file at a free number, and closes its own.
LEMMA AppSafe ==
    ASSUME SafeInv, NEW n \in Num, NEW to \in {File, Nil},
           mem.table[n] # File => mem.table[n] = Nil,
           mem' = [mem EXCEPT !.table[n] = to],
           files' = IF to = File THEN files \cup {n} ELSE files \ {n},
           gen' = gen, inits' = inits, orphans' = orphans, regs' = regs, told' = told
    PROVE  SafeInv'
<1>1. /\ gen \in Gen /\ inits \in 0..2 /\ (gen = 0 => inits = 0) /\ MemInv(mem, gen, inits, orphans)
      /\ files \subseteq Num /\ (\A x \in files : mem.table[x] = File) /\ regs = told
  BY DEF SafeInv
<1>2. PICK m : m = mem
  OBVIOUS
<1>3. PICK w : w = mem'
  OBVIOUS
<1>4. MemInv(m, gen, inits, orphans) /\ m \in Memory
  BY <1>1, <1>2 DEF MemInv, BaseInv
<1>5. PICK t : t = [m.table EXCEPT ![n] = to]
  OBVIOUS
<1>6. /\ t \in [Num -> Queue \cup {File, Nil}] /\ t[n] = to
      /\ \A x \in Num : x # n => t[x] = m.table[x]
  BY <1>4, <1>5, FieldsOf DEF Fields
<1>7. w = [m EXCEPT !.table = t]
  BY <1>2, <1>3, <1>4, <1>5 DEF Memory
<1>8. /\ w \in Memory /\ w.io = m.io /\ w.pid = m.pid /\ w.ios = m.ios /\ w.copies = m.copies
      /\ w.given = m.given /\ w.closed = m.closed /\ w.table = t
  <2>1. m \in Memory
    BY <1>4
  <2>2. QED
    BY ONLY <1>6, <1>7, <2>1 DEF Memory
<1>9. \A x \in Num : w.table[x] = m.table[x] \/ (m.table[x] \notin Queue /\ w.table[x] \notin Queue)
  BY <1>2, <1>6, <1>8, Types
<1>10. MemInv(w, gen, inits, orphans)
  BY <1>1, <1>4, <1>8, <1>9, RetableKeeps
<1>11. files' \subseteq Num /\ \A x \in files' : w.table[x] = File
  <2>1. CASE to = File
    BY <1>1, <1>2, <1>6, <1>8, <2>1
  <2>2. CASE to # File
    BY <1>1, <1>2, <1>6, <1>8, <2>2
  <2>3. QED
    BY <2>1, <2>2
<1>12. QED
  BY <1>1, <1>3, <1>10, <1>11 DEF SafeInv

LEMMA AppOpenSafe ==
    ASSUME SafeInv, AppOpen
    PROVE  SafeInv'
<1>1. PICK n : n = Nth(FreeNum(mem), 0)
  OBVIOUS
<1>2. /\ FreeNum(mem) # {} /\ mem' = [mem EXCEPT !.table[n] = File] /\ files' = files \cup {n}
      /\ gen' = gen /\ inits' = inits /\ orphans' = orphans /\ regs' = regs /\ told' = told
  BY <1>1 DEF AppOpen
<1>3. FreeNum(mem) \subseteq 1..MaxNum /\ MaxNum \in Nat
  BY ConstantsOK DEF FreeNum, Num
<1>4. IsFiniteSet(FreeNum(mem))
  <2>1. IsFiniteSet(1..MaxNum) /\ FreeNum(mem) \in SUBSET (1..MaxNum)
    BY <1>3, FS_Interval
  <2>2. QED
    BY <2>1, FS_Subset
<1>5. 0 < Cardinality(FreeNum(mem)) /\ 0 \in Nat
  <2>1. Cardinality(FreeNum(mem)) \in Nat /\ Cardinality(FreeNum(mem)) # 0
    BY <1>2, <1>4, FS_CardinalityType, FS_EmptySet
  <2>2. QED
    BY <2>1
<1>6. n \in FreeNum(mem)
  BY <1>1, <1>3, <1>5, NthIs
<1>7. n \in Num /\ mem.table[n] = Nil
  BY <1>6 DEF FreeNum
<1>8. QED
  BY <1>2, <1>7, AppSafe

LEMMA AppCloseSafe ==
    ASSUME SafeInv, NEW n \in Num, AppClose(n)
    PROVE  SafeInv'
<1>1. /\ n \in files /\ mem' = [mem EXCEPT !.table[n] = Nil] /\ files' = files \ {n}
      /\ gen' = gen /\ inits' = inits /\ orphans' = orphans /\ regs' = regs /\ told' = told
  BY DEF AppClose
<1>2. mem.table[n] = File /\ Nil # File
  BY <1>1, Types DEF SafeInv
<1>3. QED
  BY <1>1, <1>2, AppSafe

\* Kqueue.new: one object, one Kqueue::IO, one kqueue.
LEMMA InitSafe ==
    ASSUME Init
    PROVE  SafeInv
<1>1. PICK m : m = mem
  OBVIOUS
<1>2. m = [io     |-> [o \in Obj |-> IF o = First THEN 1 ELSE Nil],
           pid    |-> [o \in Obj |-> IF o = First THEN 0 ELSE Nil],
           ios    |-> [i \in Io |-> IF i = 1 THEN [num |-> 1, auto |-> TRUE] ELSE Nil],
           copies |-> <<[io |-> 1, obj |-> First]>>,
           table  |-> [n \in Num |-> IF n = 1 THEN 1 ELSE Nil],
           given  |-> [o \in Obj |-> IF o = First THEN 1 ELSE Nil],
           closed |-> {}]
  BY <1>1 DEF Init
<1>3. 1 \in Io /\ 1 \in Num /\ 1 \in Queue /\ 0 \in Gen /\ First \in Obj
  BY ConstantsOK DEF Io, Num, Queue, Gen
<1>4. [num |-> 1, auto |-> TRUE] \in IoObject
  BY <1>3 DEF IoObject
<1>5. [io |-> 1, obj |-> First] \in [io : Io, obj : Obj]
  BY <1>3
<1>6. m \in Memory
  <2>1. <<[io |-> 1, obj |-> First]>> \in Seq([io : Io, obj : Obj])
    BY <1>5
  <2>2. /\ [o \in Obj |-> IF o = First THEN 1 ELSE Nil] \in [Obj -> Io \cup {Nil}]
        /\ [o \in Obj |-> IF o = First THEN 0 ELSE Nil] \in [Obj -> Gen \cup {Nil}]
        /\ [o \in Obj |-> IF o = First THEN 1 ELSE Nil] \in [Obj -> Queue \cup {Nil}]
        /\ [n \in Num |-> IF n = 1 THEN 1 ELSE Nil] \in [Num -> Queue \cup {File, Nil}]
        /\ [i \in Io |-> IF i = 1 THEN [num |-> 1, auto |-> TRUE] ELSE Nil] \in [Io -> IoObject \cup {Nil}]
    BY <1>3, <1>4
  <2>3. QED
    BY <1>2, <2>1, <2>2 DEF Memory
<1>7. /\ \A o \in Obj : /\ m.io[o] = IF o = First THEN 1 ELSE Nil
                        /\ m.pid[o] = IF o = First THEN 0 ELSE Nil
                        /\ m.given[o] = IF o = First THEN 1 ELSE Nil
      /\ \A i \in Io : m.ios[i] = IF i = 1 THEN [num |-> 1, auto |-> TRUE] ELSE Nil
      /\ \A n \in Num : m.table[n] = IF n = 1 THEN 1 ELSE Nil
  BY <1>2
<1>8. DOMAIN m.copies = {1} /\ m.copies[1].io = 1
  BY <1>2
<1>9. m.ios[1] # Nil /\ m.ios[1].num = 1 /\ m.ios[1].auto /\ m.table[1] = 1 /\ Nil # 1 /\ Nil # 0
  BY <1>3, <1>4, <1>7, Types
<1>10. \A i \in Io : Holds(m, i) => i = 1
  BY <1>7 DEF Holds
<1>11. RefInv(m) /\ Distinct(m, Obj)
  BY <1>7, <1>8, <1>9 DEF RefInv, Distinct, IsOpen
<1>12. PidInv(m, 0)
  BY <1>7, <1>9 DEF PidInv
<1>13. UsedInv(m, 0)
  <2> SUFFICES ASSUME NEW o \in Obj, m.pid[o] = 0
               PROVE  IsOpen(m, o) /\ m.table[m.ios[m.io[o]].num] = m.given[o]
    BY DEF UsedInv
  <2>1. o = First
    BY <1>7, <1>9
  <2>2. QED
    BY <1>3, <1>7, <1>9, <2>1 DEF IsOpen
<1>14. OwnInv(m, 0)
  <2>1. \A i \in Io : Mine(m, 0, i) => i = 1
    BY <1>10 DEF Mine
  <2>2. QED
    BY <1>3, <1>9, <2>1 DEF OwnInv
<1>15. \A i \in Io : Owns(m, i) => Listed(m, i)
  BY <1>8, <1>10 DEF Owns, Listed
<1>16. OwnedInv(m, {})
  <2> SUFFICES ASSUME NEW n \in Num, m.table[n] \in Queue
               PROVE  \E i \in Io : Owns(m, i) /\ m.ios[i].num = n
    BY DEF OwnedInv
  <2>1. n = 1
    BY <1>7, Types
  <2>2. Owns(m, 1)
    BY <1>3, <1>9 DEF Owns, Holds
  <2>3. QED
    BY <1>3, <1>9, <2>1, <2>2
<1>17. MemInv(m, 0, 0, {})
  BY <1>6, <1>11, <1>12, <1>13, <1>14, <1>15, <1>16 DEF MemInv, BaseInv
<1>18. QED
  BY <1>1, <1>3, <1>17 DEF Init, SafeInv

----------------------------------------------------------------------------
(* The theorems.                                                           *)

\* Protection, once lost, is lost: before and rash are never reset.
LEMMA StaysUnprotected ==
    ASSUME [Next]_vars, Protected'
    PROVE  Protected
<1>1. CASE UNCHANGED vars
  BY <1>1 DEF vars, Protected
<1>2. ASSUME NEW o \in Obj, to_io(o)
      PROVE  Protected
  BY <1>2 DEF to_io, Checked, Protected
<1>3. ASSUME NEW o \in Obj, NEW list \in ChangeLists, kevent(o, list)
      PROVE  Protected
  <2>1. before' = before /\ rash' = rash
    BY <1>3, Zenon DEF kevent, Checked
  <2>2. QED
    BY <2>1 DEF Protected
<1>4. ASSUME NEW o \in Obj, NEW n \in Obj, initialize_copy(o, n)
      PROVE  Protected
  <2>1. before' = before /\ rash' = rash
    BY <1>4, Zenon DEF initialize_copy, Checked
  <2>2. QED
    BY <2>1 DEF Protected
<1>5. ASSUME NEW o \in Obj, close(o)
      PROVE  Protected
  BY <1>5 DEF close, Protected
<1>6. CASE Fork
  BY <1>6 DEF Fork, Protected
<1>7. ASSUME NEW i \in Io, Collect(i)
      PROVE  Protected
  BY <1>7 DEF Collect, Protected
<1>8. CASE AppOpen
  BY <1>8 DEF AppOpen, Protected
<1>9. ASSUME NEW n \in Num, AppClose(n)
      PROVE  Protected
  BY <1>9 DEF AppClose, Protected
<1>10. QED
  BY <1>1, <1>2, <1>3, <1>4, <1>5, <1>6, <1>7, <1>8, <1>9 DEF Next

LEMMA KqInvInductive ==
    ASSUME KqInv, [Next]_vars
    PROVE  KqInv'
<1> SUFFICES ASSUME Protected'
             PROVE  SafeInv'
  BY DEF KqInv
<1>1. SafeInv
  BY StaysUnprotected DEF KqInv
<1>2. ~rash' /\ ~before'
  BY DEF Protected
<1>3. CASE UNCHANGED vars
  BY <1>1, <1>3 DEF vars, SafeInv
<1>4. ASSUME NEW o \in Obj, to_io(o)
      PROVE  SafeInv'
  BY <1>1, <1>4, to_io_Safe
<1>5. ASSUME NEW o \in Obj, NEW list \in ChangeLists, kevent(o, list)
      PROVE  SafeInv'
  BY <1>1, <1>5, kevent_Safe
<1>6. ASSUME NEW o \in Obj, NEW n \in Obj, initialize_copy(o, n)
      PROVE  SafeInv'
  BY <1>1, <1>6, initialize_copy_Safe
<1>7. ASSUME NEW o \in Obj, close(o)
      PROVE  SafeInv'
  BY <1>1, <1>2, <1>7, close_Safe
<1>8. CASE Fork
  BY <1>1, <1>2, <1>8, ForkSafe
<1>9. ASSUME NEW i \in Io, Collect(i)
      PROVE  SafeInv'
  BY <1>1, <1>9, Collect_Safe
<1>10. CASE AppOpen
  BY <1>1, <1>10, AppOpenSafe
<1>11. ASSUME NEW n \in Num, AppClose(n)
       PROVE  SafeInv'
  BY <1>1, <1>11, AppCloseSafe
<1>12. QED
  BY <1>3, <1>4, <1>5, <1>6, <1>7, <1>8, <1>9, <1>10, <1>11 DEF Next

LEMMA KqInvAlways == Spec => []KqInv
<1>1. Init => KqInv
  BY InitSafe DEF KqInv
<1>2. QED
  BY <1>1, KqInvInductive, PTL DEF Spec

\* "This provides fork-safety": an object used in this process and not closed
\* reaches its own kqueue, with the registrations its users made, for any number
\* of copies, forks, failing system calls and reused numbers.
THEOREM ObjectsAttached == Spec => []Attached
<1>1. KqInv => Attached
  <2> SUFFICES ASSUME SafeInv, NEW o \in Obj, mem.pid[o] = gen, o \notin mem.closed
               PROVE  /\ IsOpen(mem, o)
                      /\ mem.table[mem.ios[mem.io[o]].num] = mem.given[o]
                      /\ regs[mem.given[o]] = told[mem.given[o]]
    BY DEF KqInv, Attached
  <2>1. UsedInv(mem, gen) /\ regs = told
    BY DEF SafeInv, MemInv, BaseInv
  <2>2. QED
    BY <2>1 DEF UsedInv
<1>2. QED
  BY <1>1, KqInvAlways, PTL

\* __kq_check disowns what fork(2) took away before the collector or #close can
\* close a number that now belongs to the application.
THEOREM FilesStayOpen == Spec => []FilesSafe
<1>1. KqInv => FilesSafe
  BY DEF KqInv, SafeInv, FilesSafe
<1>2. QED
  BY <1>1, KqInvAlways, PTL

\* Every kqueue descriptor is owned by a Kqueue::IO that will close it, or is one of
\* the duplicates that a second attempt to re-initialize found in @copies.
THEOREM NoDescriptorLeaks == Spec => []NoLeak
<1>1. KqInv => NoLeak
  <2> SUFFICES ASSUME SafeInv
               PROVE  /\ \A n \in Num : mem.table[n] \in Queue =>
                           \/ \E i \in Io : mem.ios[i] # Nil /\ mem.ios[i].auto /\ mem.ios[i].num = n
                           \/ n \in orphans
                      /\ inits <= 1 => orphans = {}
    BY DEF KqInv, NoLeak
  <2>1. OwnedInv(mem, orphans) /\ (inits <= 1 => orphans = {})
    BY DEF SafeInv, MemInv, BaseInv
  <2>2. QED
    BY <2>1 DEF OwnedInv, Owns, Holds
<1>2. QED
  BY <1>1, KqInvAlways, PTL
=============================================================================
