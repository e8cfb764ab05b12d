---------------------------- MODULE EpollProofs ----------------------------
(***************************************************************************)
(* Proofs about Epoll, for every number of threads, objects, descriptors   *)
(* and files.                                                              *)
(***************************************************************************)
EXTENDS Epoll, TLAPS

----------------------------------------------------------------------------
(* Type correctness.                                                       *)

\* What the type invariant needs of a call in progress: its arguments are
\* there, and a mask is there whenever the system call is not a DEL.
CallTyped ==
    \A t \in Thread : op[t].pc # "idle" =>
        /\ op[t].name \in OpName
        /\ op[t].obj \in Obj
        /\ op[t].fd \in Fd
        /\ op[t].name \in {"add", "mod", "set"} => op[t].ev \in Mask
        /\ op[t].pc = "retry" => op[t].cmd \in {"ADD", "MOD"} /\ op[t].name = "set"
        /\ op[t].pc = "commit" => op[t].cmd \in {"ADD", "MOD", "DEL"}
        /\ op[t].pc = "commit" /\ op[t].cmd # "DEL" => op[t].ev \in Mask
        /\ op[t].pc = "commit" /\ op[t].cmd = "DEL" => op[t].name \in {"del", "delete"}

TypeInv == TypeOK /\ CallTyped

LEMMA TypeInit == Init => TypeInv
BY ConstantsOK DEF Init, TypeInv, TypeOK, CallTyped, IdleOp, IdleWait,
                   CallState, WaitState

\* The first command of a call has a mask unless it is DEL.
LEMMA FirstCmdTyped ==
    ASSUME TypeInv, NEW t \in Thread, op[t].pc = "lock"
    PROVE  /\ FirstCmd(op[t]) \in {"ADD", "MOD", "DEL"}
           /\ FirstCmd(op[t]) # "DEL" => op[t].ev \in Mask
           /\ FirstCmd(op[t]) = "DEL" => op[t].name \in {"del", "delete"}
BY DEF TypeInv, TypeOK, CallTyped, FirstCmd, OpName, CallState

\* epoll_ctl succeeds only on an open descriptor of an open object.
LEMMA CtlOK ==
    ASSUME TypeOK, NEW o \in Obj, NEW cmd, "OK" \in CtlResults(cmd, o)
    PROVE  open /\ fdOf[o] \in Fd /\ fdtab[fdOf[o]] \in File
<1>1. CASE ~open \/ fdOf[o] = Nil
  BY <1>1 DEF CtlResults
<1>2. CASE open /\ fdOf[o] # Nil /\ fdtab[fdOf[o]] = Nil
  BY <1>2 DEF CtlResults
<1>3. CASE open /\ fdOf[o] # Nil /\ fdtab[fdOf[o]] # Nil
  BY <1>3 DEF TypeOK
<1> QED BY <1>1, <1>2, <1>3

\* The program counter and the command of a call in progress may be assigned.
LEMMA CallStateUpdate ==
    ASSUME NEW c \in CallState, NEW pc \in {"retry", "commit"},
           NEW cmd \in {"ADD", "MOD", "DEL"}
    PROVE  LET d == [c EXCEPT !.pc = pc, !.cmd = cmd]
           IN  /\ d \in CallState
               /\ d.pc = pc /\ d.cmd = cmd
               /\ d.name = c.name /\ d.obj = c.obj /\ d.fd = c.fd /\ d.ev = c.ev
BY DEF CallState

\* Such an assignment keeps the calls well formed.
LEMMA CallStepTyped ==
    ASSUME TypeInv, NEW t \in Thread, op[t].pc # "idle",
           NEW pc \in {"retry", "commit"}, NEW cmd \in {"ADD", "MOD", "DEL"},
           op' = [op EXCEPT ![t] = [op[t] EXCEPT !.pc = pc, !.cmd = cmd]],
           pc = "retry" => cmd # "DEL" /\ op[t].name = "set",
           cmd # "DEL" => op[t].ev \in Mask,
           cmd = "DEL" => op[t].name \in {"del", "delete"}
    PROVE  CallTyped'
<1>1. op[t] \in CallState /\ op \in [Thread -> CallState]
  BY DEF TypeInv, TypeOK
<1>2. /\ op'[t].pc = pc /\ op'[t].cmd = cmd
      /\ op'[t].name = op[t].name /\ op'[t].obj = op[t].obj
      /\ op'[t].fd = op[t].fd /\ op'[t].ev = op[t].ev
  <2>1. op'[t] = [op[t] EXCEPT !.pc = pc, !.cmd = cmd]
    BY <1>1
  <2> QED BY <1>1, <2>1 DEF CallState
<1>3. \A s \in Thread \ {t} : op'[s] = op[s]
  BY <1>1
<1> QED BY <1>2, <1>3 DEF TypeInv, CallTyped

\* The end of a call keeps the calls well formed.
LEMMA FinishTyped ==
    ASSUME TypeInv, NEW t \in Thread, Finish(t)
    PROVE  /\ op' \in [Thread -> CallState]
           /\ mtx' \in Thread \cup {Nil}
           /\ CallTyped'
<1>1. IdleOp \in CallState /\ IdleOp.pc = "idle"
  BY DEF IdleOp, CallState
<1>2. op' \in [Thread -> CallState] /\ mtx' \in Thread \cup {Nil}
  BY <1>1 DEF Finish, TypeInv, TypeOK
<1>3. CallTyped'
  BY <1>1 DEF Finish, TypeInv, TypeOK, CallTyped
<1> QED BY <1>2, <1>3

\* One epoll_ctl, whatever its outcome, keeps the types.
LEMMA CtlTyped ==
    ASSUME TypeInv, NEW t \in Thread, op[t].pc \in {"lock", "retry"},
           NEW cmd \in {"ADD", "MOD", "DEL"}, cmd # "DEL" => op[t].ev \in Mask,
           cmd = "DEL" => op[t].name \in {"del", "delete"},
           Ctl(t, cmd)
    PROVE  TypeInv'
<1> USE DEF TypeInv
<1>0. op[t].obj \in Obj
  BY DEF CallTyped
<1>u. UNCHANGED <<fdtab, open, wait, fdOf, life, held, marks, events>>
  BY DEF Ctl, rubyVars, cacheVars, TypeOK
<1>1. CASE "OK" \in CtlResults(cmd, op[t].obj) /\ Registered(t, cmd)
  <2>1. fdOf[op[t].obj] \in Fd /\ fdtab[fdOf[op[t].obj]] \in File
    BY <1>0, <1>1, CtlOK
  <2>2. kern' \in [Fd \X File -> Watch \cup {Nil}]
    BY <1>0, <1>1, <2>1 DEF Registered, KernAfter, TypeOK, Watch
  <2>3. late' \in [Thread -> SUBSET Obj]
    BY <1>0, <1>1 DEF Registered, TypeOK
  <2>4. op' \in [Thread -> CallState]
    BY <1>1, CallStateUpdate DEF Registered, TypeOK
  <2>5. TypeOK'
    BY <1>u, <1>1, <2>2, <2>3, <2>4 DEF Registered, TypeOK
  <2>6. CallTyped'
    <3>1. op' = [op EXCEPT ![t] = [op[t] EXCEPT !.pc = "commit", !.cmd = cmd]]
      BY <1>1 DEF Registered
    <3> QED BY <3>1, CallStepTyped
  <2> QED BY <2>5, <2>6
<1>2. ASSUME NEW res \in CtlResults(cmd, op[t].obj), Refused(t, cmd, res),
             Rescued(op[t], cmd, res)
      PROVE  TypeInv'
  <2>1. PICK new \in {"ADD", "MOD"} :
           op' = [op EXCEPT ![t] = [op[t] EXCEPT !.pc = "retry", !.cmd = new]]
    BY <1>2 DEF Refused
  <2>2. op' \in [Thread -> CallState]
    BY <2>1, CallStateUpdate DEF TypeOK
  <2>3. op[t].name = "set" /\ op[t].ev \in Mask
    BY <1>2 DEF Rescued, CallTyped
  <2>4. TypeOK'
    BY <1>u, <1>2, <2>2 DEF Refused, TypeOK
  <2>5. CallTyped'
    BY <2>1, <2>3, CallStepTyped
  <2> QED BY <2>4, <2>5
<1>3. ASSUME NEW res \in CtlResults(cmd, op[t].obj), Refused(t, cmd, res),
             ~Rescued(op[t], cmd, res)
      PROVE  TypeInv'
  <2>1. Finish(t) /\ UNCHANGED <<kern, late>>
    BY <1>3 DEF Refused
  <2> QED BY <1>u, <2>1, FinishTyped DEF TypeOK
<1> QED BY <1>1, <1>2, <1>3 DEF Ctl

\* Closing a descriptor keeps the types of what it changes.
LEMMA CloseFdTyped ==
    ASSUME TypeOK, NEW o \in Obj, fdOf[o] # Nil, CloseFd(o)
    PROVE  /\ fdtab' \in [Fd -> File \cup {Nil}]
           /\ kern' \in [Fd \X File -> Watch \cup {Nil}]
           /\ fdOf' \in [Obj -> Fd \cup {Nil}]
BY DEF TypeOK, CloseFd, KernWithout

\* Steps of the application and of the collector.
LEMMA AppTyped == TypeInv /\ AppStep => TypeInv'
<1> SUFFICES ASSUME TypeInv, AppStep PROVE TypeInv'
  OBVIOUS
<1> USE DEF TypeInv
<1>1. ASSUME NEW o \in Obj, NEW fd \in Fd, NEW f \in File, AppOpen(o, fd, f)
      PROVE  TypeInv'
  BY <1>1 DEF AppOpen, NewObject, TypeOK, CallTyped, cacheVars
<1>2. ASSUME NEW o \in Obj, NEW src \in Obj, NEW fd \in Fd, AppDup(o, src, fd)
      PROVE  TypeInv'
  BY <1>2 DEF AppDup, NewObject, TypeOK, CallTyped, cacheVars
<1>3. ASSUME NEW o \in Obj, NEW fd \in Fd, AppAlias(o, fd)
      PROVE  TypeInv'
  BY <1>3 DEF AppAlias, NewObject, TypeOK, CallTyped, cacheVars
<1>4. ASSUME NEW o \in Obj, NEW f \in File, AppReopen(o, f)
      PROVE  TypeInv'
  BY <1>4 DEF AppReopen, KernWithout, TypeOK, CallTyped, rubyVars, cacheVars
<1>5. ASSUME NEW o \in Obj, AppClose(o)
      PROVE  TypeInv'
  BY <1>5, CloseFdTyped DEF AppClose, TypeOK, CallTyped, cacheVars
<1>6. ASSUME NEW o \in Obj, AppDrop(o)
      PROVE  TypeInv'
  BY <1>6 DEF AppDrop, TypeOK, CallTyped, kernelVars, cacheVars
<1>7. ASSUME NEW o \in Obj, Collect(o)
      PROVE  TypeInv'
  BY <1>7, CloseFdTyped DEF Collect, TypeOK, CallTyped, kernelVars, cacheVars
<1> QED BY <1>1, <1>2, <1>3, <1>4, <1>5, <1>6, <1>7 DEF AppStep

\* Steps of a call.
LEMMA OpTyped ==
    ASSUME TypeInv, NEW t \in Thread, OpStep(t)
    PROVE  TypeInv'
<1> USE DEF TypeInv
<1>1. CASE Skip(t)
  BY <1>1, FinishTyped DEF Skip, TypeOK, kernelVars, rubyVars, cacheVars
<1>2. CASE Lock(t)
  BY <1>2, FirstCmdTyped, CtlTyped DEF Lock
<1>3. CASE Retry(t)
  BY <1>3, CtlTyped DEF Retry, CallTyped
<1>4. CASE Commit(t)
  <2>1. op[t].obj \in Obj /\ op[t].fd \in Fd /\ (op[t].cmd # "DEL" => op[t].ev \in Mask)
    BY <1>4 DEF Commit, CallTyped
  <2>2. marks' \in [Fd -> Obj \cup {Nil}] /\ events' \in [Fd -> Mask \cup {Nil}]
    BY <1>4, <2>1 DEF Commit, TypeOK
  <2> QED BY <1>4, <2>2, FinishTyped DEF Commit, TypeOK, kernelVars, rubyVars
<1> QED BY <1>1, <1>2, <1>3, <1>4 DEF OpStep

\* Steps of #wait.
LEMMA WaitTyped ==
    ASSUME TypeInv, NEW t \in Thread, Snapshot(t) \/ WaitStep(t)
    PROVE  TypeInv'
<1> USE DEF TypeInv
<1>0. wait[t] \in WaitState
  BY DEF TypeOK
<1>1. CASE Snapshot(t)
  <2>1. wait' \in [Thread -> WaitState] /\ late' \in [Thread -> SUBSET Obj]
    BY <1>1 DEF Snapshot, TypeOK, WaitState, Range
  <2> QED BY <1>1, <2>1 DEF Snapshot, TypeOK, CallTyped, kernelVars, rubyVars, cacheVars
<1>2. CASE Sleep(t)
  <2>1. wait' \in [Thread -> WaitState]
    BY <1>0, <1>2 DEF Sleep, TypeOK, WaitState
  <2> QED BY <1>2, <2>1 DEF Sleep, TypeOK, CallTyped, kernelVars, rubyVars, cacheVars
<1>3. CASE Harvest(t)
  <2>1. PICK K \in SUBSET {k \in Fd \X File : kern[k] # Nil} :
          /\ wait' = [wait EXCEPT ![t] = [wait[t] EXCEPT !.pc = "copied",
                      !.ready = {[obj |-> kern[k].obj, ev |-> kern[k].ev] : k \in K}]]
          /\ kern' = [k \in Fd \X File |->
                 IF k \in K THEN [kern[k] EXCEPT !.armed = kern[k].ev \notin OneShot]
                            ELSE kern[k]]
    BY <1>3 DEF Harvest
  <2>2. \A k \in K : kern[k] \in Watch
    BY <2>1 DEF TypeOK
  <2>3. {[obj |-> kern[k].obj, ev |-> kern[k].ev] : k \in K} \subseteq Event
    BY <2>2 DEF Watch, Event
  <2>4. wait' \in [Thread -> WaitState]
    <3>1. [wait[t] EXCEPT !.pc = "copied",
             !.ready = {[obj |-> kern[k].obj, ev |-> kern[k].ev] : k \in K}] \in WaitState
      BY <1>0, <2>3 DEF WaitState
    <3> QED BY <2>1, <3>1 DEF TypeOK
  <2>5. \A k \in K : [kern[k] EXCEPT !.armed = kern[k].ev \notin OneShot] \in Watch
    BY <2>2 DEF Watch
  <2>6. kern' \in [Fd \X File -> Watch \cup {Nil}]
    BY <2>1, <2>5 DEF TypeOK
  <2> QED BY <1>3, <2>4, <2>6 DEF Harvest, TypeOK, CallTyped, rubyVars, cacheVars
<1>4. CASE Yield(t)
  <2>1. PICK e \in wait[t].ready :
          /\ wait' = [wait EXCEPT ![t] = [wait[t] EXCEPT !.pc = "block",
                                            !.ready = wait[t].ready \ {e}]]
          /\ held' = held \cup {e.obj}
    BY <1>4 DEF Yield
  <2>2. [wait[t] EXCEPT !.pc = "block", !.ready = wait[t].ready \ {e}] \in WaitState
    BY <1>0 DEF WaitState
  <2>3. e.obj \in Obj
    BY <1>0 DEF WaitState, Event
  <2> QED BY <1>4, <2>1, <2>2, <2>3 DEF Yield, TypeOK, CallTyped, kernelVars, cacheVars
<1>5. CASE LeaveWait(t)
  <2>1. wait' \in [Thread -> WaitState] /\ late' \in [Thread -> SUBSET Obj]
    <3>1. IdleWait \in WaitState
      BY DEF IdleWait, WaitState
    <3> QED BY <1>5, <3>1 DEF LeaveWait, TypeOK
  <2> QED BY <1>5, <2>1 DEF LeaveWait, TypeOK, CallTyped, kernelVars, rubyVars, cacheVars
<1> QED BY <1>1, <1>2, <1>3, <1>4, <1>5 DEF WaitStep

\* The start of a call, and Epoll#close.
LEMMA CallTypedStep ==
    ASSUME TypeInv, NEW t \in Thread, NEW name, NEW o \in Obj, NEW ev,
           \/ name \in {"add", "mod", "set"} /\ ev \in Mask
           \/ name \in {"del", "delete"} /\ ev = Nil,
           Call(t, name, o, ev)
    PROVE  TypeInv'
<1> USE DEF TypeInv
<1>1. /\ fdOf[o] \in Fd
      /\ [pc |-> "lock", name |-> name, obj |-> o,
          fd |-> fdOf[o], ev |-> ev, cmd |-> Nil] \in CallState
  BY DEF Call, TypeOK, CallState, OpName
<1>2. op' \in [Thread -> CallState]
  BY <1>1 DEF Call, TypeOK
<1>3. TypeOK'
  BY <1>2 DEF Call, TypeOK, kernelVars, rubyVars, cacheVars
<1>4. CallTyped'
  BY <1>1 DEF Call, TypeOK, CallTyped, OpName
<1> QED BY <1>3, <1>4

LEMMA TypeStep == TypeInv /\ [Next]_vars => TypeInv'
<1> SUFFICES ASSUME TypeInv, [Next]_vars PROVE TypeInv'
  OBVIOUS
<1>1. CASE AppStep
  BY <1>1, AppTyped
<1>2. ASSUME NEW t \in Thread, Close(t)
      PROVE  TypeInv'
  BY <1>2 DEF Close, TypeInv, TypeOK, CallTyped, kernelVars, rubyVars, cacheVars
<1>3. ASSUME NEW t \in Thread,
             \/ \E name \in {"add", "mod", "set"}, o \in Obj, ev \in Mask : Call(t, name, o, ev)
             \/ \E name \in {"del", "delete"}, o \in Obj : Call(t, name, o, Nil)
      PROVE  TypeInv'
  BY <1>3, CallTypedStep
<1>4. CASE UNCHANGED vars
  BY <1>4 DEF TypeInv, TypeOK, CallTyped, vars, kernelVars, rubyVars, cacheVars
<1> QED BY <1>1, <1>2, <1>3, <1>4, OpTyped, WaitTyped DEF Next

\* Type correctness: no step of any thread, whichever path a call takes,
\* stores anything but an object of this process, a mask the application
\* passed in, and a descriptor number in the kernel or in the caches.
THEOREM TypeCorrect == Spec => []TypeOK
<1>1. TypeInv => TypeOK
  BY DEF TypeInv
<1> QED BY <1>1, TypeInit, TypeStep, PTL DEF Spec

----------------------------------------------------------------------------
(* What a step of a call does, seen from the other parts of the state.     *)

\* The call ends without a change, goes on to its second epoll_ctl, has
\* changed the interest list, or brings the cache up to date.
Ends(t) ==
    /\ op'[t].pc = "idle" /\ mtx' = Nil
    /\ UNCHANGED <<kern, late, marks, events>>

GoesOn(t, pc) ==
    /\ op'[t].pc = pc /\ mtx' = t
    /\ op'[t].obj = op[t].obj /\ op'[t].fd = op[t].fd /\ op'[t].ev = op[t].ev
    /\ UNCHANGED <<marks, events>>

Retries(t) == GoesOn(t, "retry") /\ UNCHANGED <<kern, late>>

Registers(t) ==
    /\ GoesOn(t, "commit")
    /\ op'[t].cmd \in {"ADD", "MOD", "DEL"}
    /\ op'[t].cmd # "DEL" => op[t].ev \in Mask
    /\ fdOf[op[t].obj] \in Fd /\ fdtab[fdOf[op[t].obj]] \in File
    /\ kern' = KernAfter(op'[t].cmd, op[t].obj, op[t].ev)
    /\ \A w \in Thread :
         late'[w] = IF /\ op'[t].cmd # "DEL" /\ op[t].obj \notin wait[w].snapshot
                       /\ wait[w].pc \in {"enter", "sleep"}
                    THEN late[w] \cup {op[t].obj} ELSE late[w]

OpEffect(t) ==
    /\ op[t].pc # "idle"
    /\ op[t].pc = "lock" => mtx = Nil
    /\ \A s \in Thread \ {t} : op'[s] = op[s]
    /\ UNCHANGED <<fdtab, fdOf, life, held, open, wait>>
    /\ \/ op[t].pc # "commit" /\ (Ends(t) \/ Retries(t) \/ Registers(t))
       \/ op[t].pc = "commit" /\ Commit(t) /\ op'[t].pc = "idle"

LEMMA CtlEffect ==
    ASSUME TypeInv, NEW t \in Thread, op[t].pc \in {"lock", "retry"},
           NEW cmd \in {"ADD", "MOD", "DEL"}, cmd # "DEL" => op[t].ev \in Mask,
           Ctl(t, cmd)
    PROVE  /\ \A s \in Thread \ {t} : op'[s] = op[s]
           /\ UNCHANGED <<fdtab, fdOf, life, held, open, wait>>
           /\ Ends(t) \/ Retries(t) \/ Registers(t)
<1>0. op[t].obj \in Obj /\ op[t] \in CallState /\ op \in [Thread -> CallState]
  BY DEF TypeInv, TypeOK, CallTyped
<1>u. UNCHANGED <<fdtab, fdOf, life, held, open, wait, marks, events>>
  BY DEF Ctl, rubyVars, cacheVars
<1>1. CASE "OK" \in CtlResults(cmd, op[t].obj) /\ Registered(t, cmd)
  <2>1. op' = [op EXCEPT ![t] = [op[t] EXCEPT !.pc = "commit", !.cmd = cmd]]
    BY <1>1 DEF Registered
  <2>2. op'[t] = [op[t] EXCEPT !.pc = "commit", !.cmd = cmd]
    BY <1>0, <2>1
  <2>3. /\ op'[t].pc = "commit" /\ op'[t].cmd = cmd /\ op'[t].obj = op[t].obj
        /\ op'[t].fd = op[t].fd /\ op'[t].ev = op[t].ev
    BY <1>0, <2>2 DEF CallState
  <2>4. fdOf[op[t].obj] \in Fd /\ fdtab[fdOf[op[t].obj]] \in File
    BY <1>0, <1>1, CtlOK DEF TypeInv
  <2>5. Registers(t)
    BY <1>u, <1>1, <2>3, <2>4 DEF Registers, GoesOn, Registered
  <2> QED BY <1>0, <1>u, <2>1, <2>5
<1>2. ASSUME NEW res \in CtlResults(cmd, op[t].obj), Refused(t, cmd, res),
             Rescued(op[t], cmd, res)
      PROVE  (\A s \in Thread \ {t} : op'[s] = op[s]) /\ Retries(t)
  <2>1. PICK new \in {"ADD", "MOD"} :
           op' = [op EXCEPT ![t] = [op[t] EXCEPT !.pc = "retry", !.cmd = new]]
    BY <1>2 DEF Refused
  <2>2. op'[t] = [op[t] EXCEPT !.pc = "retry", !.cmd = new]
    BY <1>0, <2>1
  <2>3. /\ op'[t].pc = "retry" /\ op'[t].obj = op[t].obj
        /\ op'[t].fd = op[t].fd /\ op'[t].ev = op[t].ev
    BY <1>0, <2>2 DEF CallState
  <2> QED BY <1>0, <1>u, <1>2, <2>1, <2>3 DEF Retries, GoesOn, Refused
<1>3. ASSUME NEW res \in CtlResults(cmd, op[t].obj), Refused(t, cmd, res),
             ~Rescued(op[t], cmd, res)
      PROVE  (\A s \in Thread \ {t} : op'[s] = op[s]) /\ Ends(t)
  BY <1>0, <1>u, <1>3 DEF Ends, Refused, Finish, IdleOp
<1> QED BY <1>u, <1>1, <1>2, <1>3 DEF Ctl

LEMMA OpStepEffect ==
    ASSUME TypeInv, NEW t \in Thread, OpStep(t)
    PROVE  OpEffect(t)
<1>0. op \in [Thread -> CallState]
  BY DEF TypeInv, TypeOK
<1>1. CASE Skip(t)
  BY <1>0, <1>1 DEF Skip, Finish, IdleOp, OpEffect, Ends, kernelVars, rubyVars, cacheVars
<1>2. CASE Lock(t)
  BY <1>2, FirstCmdTyped, CtlEffect DEF Lock, OpEffect
<1>3. CASE Retry(t)
  BY <1>3, CtlEffect DEF Retry, OpEffect, TypeInv, CallTyped
<1>4. CASE Commit(t)
  BY <1>0, <1>4 DEF Commit, Finish, IdleOp, OpEffect, kernelVars, rubyVars
<1> QED BY <1>1, <1>2, <1>3, <1>4 DEF OpStep

----------------------------------------------------------------------------
(* Who holds the mutex, and which objects are certainly alive.             *)

\* The mutex is held exactly by the thread between its system call and the
\* end of its method.
MutexInv == \A t \in Thread : op[t].pc \in {"retry", "commit"} <=> mtx = t

\* The object of a call is alive and, if still open, has the descriptor
\* that the call read before it took the mutex.
CallInv ==
    \A t \in Thread : op[t].pc # "idle" =>
        /\ life[op[t].obj] = "live"
        /\ fdOf[op[t].obj] \in {op[t].fd, Nil}

OpenLive == \A o \in Obj : fdOf[o] # Nil => life[o] = "live"

\* What @marks and the snapshots hold is alive.
KeptLive ==
    /\ \A fd \in Fd : marks[fd] # Nil => life[marks[fd]] = "live"
    /\ \A t \in Thread : \A o \in wait[t].snapshot : life[o] = "live"

LiveInv == MutexInv /\ CallInv /\ OpenLive /\ KeptLive

LEMMA LiveInit == Init => LiveInv
BY ConstantsOK DEF Init, LiveInv, MutexInv, CallInv, OpenLive, KeptLive, IdleOp, IdleWait

\* Objects that come to life or are collected are none of these.
LEMMA LiveApp == TypeInv /\ LiveInv /\ AppStep => LiveInv'
<1> SUFFICES ASSUME TypeInv, LiveInv, AppStep PROVE LiveInv'
  OBVIOUS
<1>t. /\ TypeOK
      /\ \A t \in Thread : op[t].pc # "idle" => op[t].obj \in Obj
      /\ \A t \in Thread : wait[t].snapshot \subseteq Obj
  BY DEF TypeInv, TypeOK, CallTyped, WaitState
<1> USE DEF LiveInv, MutexInv, CallInv, OpenLive, KeptLive, cacheVars
<1>1. ASSUME NEW o \in Obj, NEW fd \in Fd, NewObject(o, fd)
      PROVE  LiveInv'
  BY <1>t, <1>1 DEF NewObject, TypeOK
<1>2. ASSUME NEW o \in Obj, NEW f \in File, AppReopen(o, f)
      PROVE  LiveInv'
  BY <1>2 DEF AppReopen, rubyVars
<1>3. ASSUME NEW o \in Obj, AppClose(o)
      PROVE  LiveInv'
  BY <1>t, <1>3 DEF AppClose, CloseFd, TypeOK
<1>4. ASSUME NEW o \in Obj, AppDrop(o)
      PROVE  LiveInv'
  BY <1>4 DEF AppDrop
<1>5. ASSUME NEW o \in Obj, Collect(o)
      PROVE  LiveInv'
  <2>1. /\ \A t \in Thread : op[t].obj # o
        /\ \A fd \in Fd : marks[fd] # o
        /\ \A t \in Thread : o \notin wait[t].snapshot
    BY <1>5 DEF Collect, Roots
  <2>2. fdOf' = [fdOf EXCEPT ![o] = Nil] \/ (fdOf[o] = Nil /\ UNCHANGED fdOf)
    BY <1>5 DEF Collect, CloseFd
  <2> QED BY <1>t, <1>5, <2>1, <2>2 DEF Collect, TypeOK
<1> QED BY <1>1, <1>2, <1>3, <1>4, <1>5 DEF AppStep, AppOpen, AppDup, AppAlias

LEMMA LiveOp ==
    ASSUME TypeInv, LiveInv, NEW t \in Thread, OpStep(t)
    PROVE  LiveInv'
<1>1. OpEffect(t)
  BY OpStepEffect
<1>t. /\ TypeOK /\ Nil \notin Thread
      /\ op[t].obj \in Obj /\ op[t].fd \in Fd
  BY <1>1, ConstantsOK DEF TypeInv, CallTyped, OpEffect
<1> USE DEF LiveInv
<1>2. MutexInv'
  <2>1. mtx = t \/ mtx = Nil
    BY <1>1 DEF OpEffect, MutexInv, TypeInv, TypeOK, CallState
  <2>2. \A s \in Thread \ {t} : op'[s].pc \notin {"retry", "commit"}
    BY <1>1, <1>t, <2>1 DEF OpEffect, MutexInv
  <2>3. \/ op'[t].pc = "idle" /\ mtx' = Nil
        \/ op'[t].pc \in {"retry", "commit"} /\ mtx' = t
    BY <1>1 DEF OpEffect, Ends, Retries, Registers, GoesOn, Commit, Finish
  <2> QED BY <1>t, <2>2, <2>3 DEF MutexInv
<1>3. CallInv'
  BY <1>1 DEF OpEffect, Ends, Retries, Registers, GoesOn, CallInv
<1>4. OpenLive'
  BY <1>1 DEF OpEffect, OpenLive
<1>5. KeptLive'
  <2>1. marks' = marks \/ \E v \in {op[t].obj, Nil} : marks' = [marks EXCEPT ![op[t].fd] = v]
    BY <1>1 DEF OpEffect, Ends, Retries, Registers, GoesOn, Commit
  <2>2. life[op[t].obj] = "live" /\ UNCHANGED <<life, wait>>
    BY <1>1 DEF OpEffect, CallInv
  <2> QED BY <1>t, <2>1, <2>2 DEF KeptLive, TypeOK
<1> QED BY <1>2, <1>3, <1>4, <1>5

LEMMA LiveOther ==
    ASSUME TypeInv, LiveInv, NEW t \in Thread,
           \/ \E name, ev : \E o \in Obj : Call(t, name, o, ev)
           \/ Close(t) \/ Snapshot(t) \/ WaitStep(t)
    PROVE  LiveInv'
<1>t. op \in [Thread -> CallState] /\ wait \in [Thread -> WaitState] /\ TypeOK
  BY DEF TypeInv, TypeOK
<1> USE DEF LiveInv, MutexInv, CallInv, OpenLive, KeptLive, kernelVars, rubyVars, cacheVars
<1>1. ASSUME NEW name, NEW ev, NEW o \in Obj, Call(t, name, o, ev)
      PROVE  LiveInv'
  BY <1>t, <1>1 DEF Call, InApplication
<1>2. CASE Close(t)
  BY <1>2 DEF Close
<1>3. CASE Snapshot(t)
  BY <1>t, <1>3 DEF Snapshot, Range, TypeOK
<1>4. CASE WaitStep(t)
  <2>1. /\ UNCHANGED <<op, mtx, marks, fdOf, life>>
        /\ \A s \in Thread : wait'[s].snapshot \subseteq wait[s].snapshot
    <3>1. CASE Sleep(t)
      BY <1>t, <3>1 DEF Sleep, WaitState
    <3>2. CASE Harvest(t)
      BY <1>t, <3>2 DEF Harvest, WaitState
    <3>3. CASE Yield(t)
      BY <1>t, <3>3 DEF Yield, WaitState
    <3>4. CASE LeaveWait(t)
      BY <1>t, <3>4 DEF LeaveWait, IdleWait
    <3> QED BY <1>4, <3>1, <3>2, <3>3, <3>4 DEF WaitStep
  <2> QED BY <2>1
<1> QED BY <1>1, <1>2, <1>3, <1>4

LEMMA LiveStep == TypeInv /\ LiveInv /\ [Next]_vars => LiveInv'
<1> SUFFICES ASSUME TypeInv, LiveInv, [Next]_vars PROVE LiveInv'
  OBVIOUS
<1>1. CASE UNCHANGED vars
  BY <1>1 DEF vars, kernelVars, rubyVars, cacheVars, LiveInv, MutexInv, CallInv,
              OpenLive, KeptLive
<1> QED BY <1>1, LiveApp, LiveOp, LiveOther DEF Next

----------------------------------------------------------------------------
(* The interest list, when no descriptor is duplicated: every registration *)
(* belongs to an open descriptor, @marks or a call about to update @marks  *)
(* holds its object, and so does the snapshot of every sleeping thread,    *)
(* except for what was registered since.                                   *)

NoDup == "dup" \notin UserOps

\* A file has one descriptor, and a registration is under that descriptor.
FileInv ==
    /\ \A a, b \in Fd : fdtab[a] # Nil /\ fdtab[a] = fdtab[b] => a = b
    /\ \A fd \in Fd, f \in File : kern[<<fd, f>>] # Nil => fdtab[fd] = f

Committing(t, fd) == op[t].pc = "commit" /\ op[t].fd = fd

Marked ==
    \A fd \in Fd, f \in File : kern[<<fd, f>>] # Nil =>
        \/ /\ marks[fd] = kern[<<fd, f>>].obj
           /\ \A t \in Thread : ~Committing(t, fd)
        \/ \E t \in Thread :
              /\ Committing(t, fd) /\ op[t].cmd # "DEL"
              /\ op[t].obj = kern[<<fd, f>>].obj

SleepCovered ==
    \A t \in Thread : wait[t].pc \in {"enter", "sleep"} =>
        \A fd \in Fd, f \in File : kern[<<fd, f>>] # Nil =>
            kern[<<fd, f>>].obj \in wait[t].snapshot \cup late[t]

ReadyCovered ==
    \A t \in Thread : \A e \in wait[t].ready : e.obj \in wait[t].snapshot \cup late[t]

CoverInv == FileInv /\ Marked /\ SleepCovered /\ ReadyCovered

LEMMA CoverInit == Init => CoverInv
BY ConstantsOK DEF Init, CoverInv, FileInv, Marked, SleepCovered, ReadyCovered, IdleWait

\* epoll forgets exactly the registration of the descriptor.
LEMMA KernWithoutFd ==
    ASSUME TypeOK, FileInv, NEW fd \in Fd
    PROVE  \A a \in Fd, f \in File :
              KernWithout(fd)[<<a, f>>] = IF a = fd THEN Nil ELSE kern[<<a, f>>]
<1> SUFFICES ASSUME NEW a \in Fd, NEW f \in File
             PROVE  KernWithout(fd)[<<a, f>>] = IF a = fd THEN Nil ELSE kern[<<a, f>>]
  OBVIOUS
<1>1. CASE \E other \in Fd \ {fd} : fdtab[other] = fdtab[fd]
  <2>1. fdtab[fd] = Nil
    BY <1>1 DEF FileInv
  <2>2. a = fd => kern[<<a, f>>] = Nil
    BY <2>1, ConstantsOK DEF FileInv
  <2> QED BY <1>1, <2>2 DEF KernWithout
<1>2. CASE ~\E other \in Fd \ {fd} : fdtab[other] = fdtab[fd]
  <2>1. KernWithout(fd)[<<a, f>>] = IF f = fdtab[fd] THEN Nil ELSE kern[<<a, f>>]
    BY <1>2 DEF KernWithout
  <2>2. a = fd /\ f # fdtab[fd] => kern[<<a, f>>] = Nil
    BY DEF FileInv
  <2>3. a # fd /\ f = fdtab[fd] => kern[<<a, f>>] = Nil
    BY <1>2 DEF FileInv
  <2> QED BY <2>1, <2>2, <2>3
<1> QED BY <1>1, <1>2

\* A step that only removes registrations leaves the rest covered.
LEMMA ShrinkCovered ==
    ASSUME Marked, SleepCovered, ReadyCovered,
           UNCHANGED <<marks, op, wait, late>>,
           \A fd \in Fd, f \in File : kern'[<<fd, f>>] # Nil => kern'[<<fd, f>>] = kern[<<fd, f>>]
    PROVE  Marked' /\ SleepCovered' /\ ReadyCovered'
<1>1. Marked'
  <2> SUFFICES ASSUME NEW fd \in Fd, NEW f \in File, kern'[<<fd, f>>] # Nil
               PROVE  \/ /\ marks'[fd] = kern'[<<fd, f>>].obj
                         /\ \A t \in Thread : ~Committing(t, fd)'
                      \/ \E t \in Thread :
                            /\ Committing(t, fd)' /\ op'[t].cmd # "DEL"
                            /\ op'[t].obj = kern'[<<fd, f>>].obj
    BY DEF Marked
  <2>1. kern[<<fd, f>>] # Nil /\ kern'[<<fd, f>>] = kern[<<fd, f>>]
    OBVIOUS
  <2> QED BY <2>1 DEF Marked, Committing
<1>2. SleepCovered' /\ ReadyCovered'
  BY DEF SleepCovered, ReadyCovered
<1> QED BY <1>1, <1>2

\* A step that changes no registration and no call about to commit.
LEMMA SameCommits ==
    ASSUME Marked, UNCHANGED <<kern, marks>>,
           \A s \in Thread : op'[s] # op[s] => op[s].pc # "commit" /\ op'[s].pc # "commit"
    PROVE  Marked'
<1> SUFFICES ASSUME NEW fd \in Fd, NEW f \in File, kern[<<fd, f>>] # Nil
             PROVE  \/ /\ marks[fd] = kern[<<fd, f>>].obj
                       /\ \A t \in Thread : ~Committing(t, fd)'
                    \/ \E t \in Thread :
                          /\ Committing(t, fd)' /\ op'[t].cmd # "DEL"
                          /\ op'[t].obj = kern[<<fd, f>>].obj
  BY DEF Marked
<1>1. \A t \in Thread : /\ Committing(t, fd)' <=> Committing(t, fd)
                        /\ Committing(t, fd) => op'[t] = op[t]
  BY DEF Committing
<1> QED BY <1>1 DEF Marked

LEMMA CoverApp ==
    ASSUME NoDup, TypeInv, CoverInv, AppStep
    PROVE  CoverInv'
<1>t. TypeOK /\ FileInv /\ Nil \notin File
  BY ConstantsOK DEF TypeInv, CoverInv
<1>1. ASSUME NEW o \in Obj, NEW fd \in Fd, NEW f \in File, AppOpen(o, fd, f)
      PROVE  FileInv' /\ UNCHANGED kern
  <2>1. \A a \in Fd : fdtab[a] # f
    BY <1>t, <1>1 DEF AppOpen, FreshFile, Range, TypeOK
  <2> QED BY <1>t, <1>1, <2>1 DEF AppOpen, NewObject, FileInv, TypeOK
<1>2. ASSUME NEW o \in Obj, NEW fd \in Fd, AppAlias(o, fd)
      PROVE  FileInv' /\ UNCHANGED kern
  BY <1>t, <1>2 DEF AppAlias, NewObject, FileInv
<1>3. ASSUME NEW o \in Obj, fdOf[o] \in Fd,
             NEW f \in File \cup {Nil}, f # Nil => \A a \in Fd : fdtab[a] # f,
             fdtab' = [fdtab EXCEPT ![fdOf[o]] = f], kern' = KernWithout(fdOf[o])
      PROVE  /\ FileInv'
             /\ \A fd \in Fd, g \in File :
                    kern'[<<fd, g>>] # Nil => kern'[<<fd, g>>] = kern[<<fd, g>>]
  <2>1. \A a \in Fd, g \in File :
           kern'[<<a, g>>] = IF a = fdOf[o] THEN Nil ELSE kern[<<a, g>>]
    BY <1>t, <1>3, KernWithoutFd
  <2> QED BY <1>t, <1>3, <2>1 DEF FileInv, TypeOK
<1>4. ASSUME NEW o \in Obj, NEW f \in File, AppReopen(o, f)
      PROVE  /\ FileInv'
             /\ \A fd \in Fd, g \in File :
                    kern'[<<fd, g>>] # Nil => kern'[<<fd, g>>] = kern[<<fd, g>>]
  <2>1. fdOf[o] \in Fd /\ \A a \in Fd : fdtab[a] # f
    BY <1>t, <1>4 DEF AppReopen, FreshFile, Range, TypeOK
  <2> QED BY <1>3, <1>4, <2>1 DEF AppReopen
<1>5. ASSUME NEW o \in Obj, fdOf[o] # Nil, CloseFd(o)
      PROVE  /\ FileInv'
             /\ \A fd \in Fd, g \in File :
                    kern'[<<fd, g>>] # Nil => kern'[<<fd, g>>] = kern[<<fd, g>>]
  <2>1. fdOf[o] \in Fd
    BY <1>t, <1>5 DEF TypeOK
  <2> QED BY <1>3, <1>5, <2>1 DEF CloseFd
<1>6. ASSUME NEW o \in Obj, AppClose(o) \/ AppDrop(o) \/ Collect(o)
      PROVE  /\ FileInv'
             /\ \A fd \in Fd, g \in File :
                    kern'[<<fd, g>>] # Nil => kern'[<<fd, g>>] = kern[<<fd, g>>]
  <2>1. CASE UNCHANGED kernelVars
    BY <1>t, <2>1 DEF kernelVars, FileInv
  <2> QED BY <1>5, <1>6, <2>1 DEF AppClose, AppDrop, Collect
<1>7. UNCHANGED <<marks, op, wait, late>>
  BY DEF AppStep, AppOpen, AppDup, AppAlias, AppReopen, AppClose, AppDrop, Collect,
         NewObject, cacheVars
<1>8. /\ FileInv'
      /\ \A fd \in Fd, g \in File :
             kern'[<<fd, g>>] # Nil => kern'[<<fd, g>>] = kern[<<fd, g>>]
  BY <1>1, <1>2, <1>4, <1>6 DEF AppStep, NoDup, AppDup
<1> QED BY <1>7, <1>8, ShrinkCovered DEF CoverInv

\* A successful epoll_ctl touches the registration of the call's descriptor.
LEMMA RegistersKern ==
    ASSUME TypeInv, LiveInv, FileInv, NEW t \in Thread, op[t].pc # "idle", Registers(t)
    PROVE  /\ op[t].fd \in Fd /\ op[t].obj \in Obj /\ op[t].fd = fdOf[op[t].obj]
           /\ fdtab[op[t].fd] \in File
           /\ \A fd \in Fd, f \in File :
                kern'[<<fd, f>>] =
                    IF fd = op[t].fd
                    THEN IF f = fdtab[fd] /\ op'[t].cmd # "DEL"
                         THEN [obj |-> op[t].obj, ev |-> op[t].ev, armed |-> TRUE] ELSE Nil
                    ELSE kern[<<fd, f>>]
<1>1. /\ op[t].fd \in Fd /\ op[t].obj \in Obj /\ op[t].fd = fdOf[op[t].obj]
      /\ fdtab[op[t].fd] \in File
  BY ConstantsOK DEF Registers, LiveInv, CallInv, TypeInv, CallTyped
<1>2. \A fd \in Fd, f \in File :
        kern'[<<fd, f>>] = IF fd = op[t].fd /\ f = fdtab[fd]
                           THEN IF op'[t].cmd = "DEL" THEN Nil
                                ELSE [obj |-> op[t].obj, ev |-> op[t].ev, armed |-> TRUE]
                           ELSE kern[<<fd, f>>]
  BY <1>1 DEF Registers, KernAfter, TypeInv, TypeOK
<1>3. \A f \in File : f # fdtab[op[t].fd] => kern[<<op[t].fd, f>>] = Nil
  BY <1>1 DEF FileInv
<1>4. ASSUME NEW fd \in Fd, NEW f \in File
      PROVE  kern'[<<fd, f>>] =
                IF fd = op[t].fd
                THEN IF f = fdtab[fd] /\ op'[t].cmd # "DEL"
                     THEN [obj |-> op[t].obj, ev |-> op[t].ev, armed |-> TRUE] ELSE Nil
                ELSE kern[<<fd, f>>]
  <2>1. CASE fd # op[t].fd
    BY <1>2, <2>1
  <2>2. CASE fd = op[t].fd /\ f # fdtab[fd]
    BY <1>2, <1>3, <2>2
  <2>3. CASE fd = op[t].fd /\ f = fdtab[fd] /\ op'[t].cmd = "DEL"
    BY <1>2, <2>3
  <2>4. CASE fd = op[t].fd /\ f = fdtab[fd] /\ op'[t].cmd # "DEL"
    BY <1>2, <2>4
  <2> QED BY <2>1, <2>2, <2>3, <2>4
<1> QED BY <1>1, <1>4

LEMMA CoverOp ==
    ASSUME TypeInv, LiveInv, CoverInv, NEW t \in Thread, OpStep(t)
    PROVE  CoverInv'
<1>1. OpEffect(t)
  BY OpStepEffect
<1>t. FileInv /\ op[t].pc # "idle" /\ op[t].fd \in Fd /\ op[t].obj \in Obj
  BY <1>1 DEF OpEffect, CoverInv, TypeInv, CallTyped
<1>m. \A s \in Thread \ {t} : op[s].pc # "commit" /\ op'[s] = op[s]
  <2>1. mtx = t \/ mtx = Nil
    BY <1>1 DEF OpEffect, LiveInv, MutexInv, TypeInv, TypeOK, CallState
  <2> QED BY <1>1, <2>1, ConstantsOK DEF OpEffect, LiveInv, MutexInv
<1>2. CASE op[t].pc # "commit" /\ (Ends(t) \/ Retries(t))
  <2>1. UNCHANGED <<kern, fdtab, marks, wait, late>> /\ op'[t].pc # "commit"
    BY <1>1, <1>2 DEF OpEffect, Ends, Retries, GoesOn
  <2>2. Marked'
    BY <1>m, <1>2, <2>1 DEF CoverInv, Marked, Committing
  <2> QED BY <2>1, <2>2 DEF CoverInv, FileInv, SleepCovered, ReadyCovered
<1>3. CASE op[t].pc # "commit" /\ Registers(t)
  <2>k. /\ op[t].fd = fdOf[op[t].obj] /\ fdtab[op[t].fd] \in File
        /\ \A fd \in Fd, f \in File :
                kern'[<<fd, f>>] =
                    IF fd = op[t].fd
                    THEN IF f = fdtab[fd] /\ op'[t].cmd # "DEL"
                         THEN [obj |-> op[t].obj, ev |-> op[t].ev, armed |-> TRUE] ELSE Nil
                    ELSE kern[<<fd, f>>]
    BY <1>3, <1>t, RegistersKern
  <2>u. UNCHANGED <<fdtab, marks, wait>> /\ GoesOn(t, "commit")
    BY <1>1, <1>3 DEF OpEffect, Registers, GoesOn
  <2>1. FileInv'
    BY <1>t, <2>k, <2>u DEF FileInv
  <2>2. Marked'
    <3> SUFFICES ASSUME NEW fd \in Fd, NEW f \in File, kern'[<<fd, f>>] # Nil
                 PROVE  \/ /\ marks'[fd] = kern'[<<fd, f>>].obj
                           /\ \A s \in Thread : ~Committing(s, fd)'
                        \/ \E s \in Thread :
                              /\ Committing(s, fd)' /\ op'[s].cmd # "DEL"
                              /\ op'[s].obj = kern'[<<fd, f>>].obj
      BY DEF Marked
    <3>1. CASE fd = op[t].fd
      <4>1. op'[t].cmd # "DEL" /\ kern'[<<fd, f>>].obj = op[t].obj
        BY <2>k, <3>1
      <4> QED BY <2>u, <3>1, <4>1 DEF Committing, GoesOn
    <3>2. CASE fd # op[t].fd
      <4>1. kern[<<fd, f>>] # Nil /\ kern'[<<fd, f>>] = kern[<<fd, f>>]
        BY <2>k, <3>2
      <4>2. marks[fd] = kern[<<fd, f>>].obj
        BY <1>m, <1>3, <4>1 DEF CoverInv, Marked, Committing
      <4> QED BY <1>m, <2>u, <3>2, <4>1, <4>2 DEF Committing, GoesOn
    <3> QED BY <3>1, <3>2
  <2>l. \A w \in Thread :
          /\ late[w] \subseteq late'[w]
          /\ wait[w].pc \in {"enter", "sleep"} /\ op'[t].cmd # "DEL" =>
                op[t].obj \in wait[w].snapshot \cup late'[w]
    BY <1>3 DEF Registers
  <2>3. SleepCovered'
    BY <2>k, <2>u, <2>l DEF CoverInv, SleepCovered
  <2>4. ReadyCovered'
    BY <2>u, <2>l DEF CoverInv, ReadyCovered
  <2> QED BY <2>1, <2>2, <2>3, <2>4 DEF CoverInv
<1>4. CASE op[t].pc = "commit" /\ Commit(t) /\ op'[t].pc = "idle"
  <2>u. UNCHANGED <<fdtab, kern, wait, late>>
    BY <1>4 DEF Commit, kernelVars
  <2>1. Marked'
    <3> SUFFICES ASSUME NEW fd \in Fd, NEW f \in File, kern[<<fd, f>>] # Nil
                 PROVE  /\ marks'[fd] = kern[<<fd, f>>].obj
                        /\ \A s \in Thread : ~Committing(s, fd)'
      BY <2>u DEF Marked
    <3>1. \A s \in Thread : ~Committing(s, fd)'
      BY <1>m, <1>4 DEF Committing
    <3>2. CASE fd = op[t].fd
      <4>1. op[t].cmd # "DEL" /\ op[t].obj = kern[<<fd, f>>].obj
        BY <1>m, <1>4, <3>2 DEF CoverInv, Marked, Committing
      <4> QED BY <1>4, <3>1, <3>2, <4>1 DEF Commit, TypeInv, TypeOK
    <3>3. CASE fd # op[t].fd
      <4>1. marks[fd] = kern[<<fd, f>>].obj
        BY <1>m, <3>3 DEF CoverInv, Marked, Committing
      <4> QED BY <1>4, <3>1, <3>3, <4>1 DEF Commit, TypeInv, TypeOK
    <3> QED BY <3>2, <3>3
  <2> QED BY <2>u, <2>1 DEF CoverInv, FileInv, SleepCovered, ReadyCovered
<1> QED BY <1>1, <1>2, <1>3, <1>4 DEF OpEffect

LEMMA CoverOther ==
    ASSUME TypeInv, LiveInv, CoverInv, NEW t \in Thread,
           \/ \E name, ev : \E o \in Obj : Call(t, name, o, ev)
           \/ Close(t) \/ Snapshot(t) \/ WaitStep(t)
    PROVE  CoverInv'
<1>t. op \in [Thread -> CallState] /\ wait \in [Thread -> WaitState] /\ TypeOK
  BY DEF TypeInv, TypeOK
<1> USE DEF CoverInv, kernelVars, cacheVars
<1>1. ASSUME NEW name, NEW ev, NEW o \in Obj, Call(t, name, o, ev)
      PROVE  CoverInv'
  <2>1. /\ UNCHANGED <<fdtab, kern, marks, wait, late>>
        /\ \A s \in Thread : op'[s] # op[s] => op[s].pc = "idle" /\ op'[s].pc = "lock"
    BY <1>t, <1>1 DEF Call, InApplication
  <2>2. Marked'
    BY <2>1, SameCommits
  <2> QED BY <2>1, <2>2 DEF FileInv, SleepCovered, ReadyCovered
<1>2. CASE Close(t)
  BY <1>2 DEF Close, FileInv, Marked, Committing, SleepCovered, ReadyCovered
<1>3. CASE Snapshot(t)
  <2>1. UNCHANGED <<fdtab, kern, marks, op>>
    BY <1>3 DEF Snapshot
  <2>2. \A s \in Thread : op[s].pc # "commit"
    BY <1>3, ConstantsOK DEF Snapshot, LiveInv, MutexInv
  <2>3. \A fd \in Fd, f \in File : kern[<<fd, f>>] # Nil =>
           kern[<<fd, f>>].obj \in Range(marks) \ {Nil}
    <3>1. \A fd \in Fd, f \in File : kern[<<fd, f>>] # Nil =>
             kern[<<fd, f>>].obj \in Obj /\ kern[<<fd, f>>].obj = marks[fd]
      BY <1>t, <2>2 DEF Marked, Committing, TypeOK, Watch
    <3> QED BY <1>t, <3>1, ConstantsOK DEF Range, TypeOK
  <2>4. SleepCovered' /\ ReadyCovered'
    BY <1>t, <1>3, <2>3 DEF Snapshot, SleepCovered, ReadyCovered, TypeOK
  <2> QED BY <2>1, <2>4 DEF FileInv, Marked, Committing
<1>4. CASE Sleep(t)
  <2>1. /\ UNCHANGED <<fdtab, kern, marks, op, late>>
        /\ \A s \in Thread : /\ wait'[s].snapshot = wait[s].snapshot
                             /\ wait'[s].ready = wait[s].ready
                             /\ wait'[s].pc # wait[s].pc => wait[s].pc = "enter"
    BY <1>t, <1>4 DEF Sleep, WaitState
  <2> QED BY <2>1 DEF FileInv, Marked, Committing, SleepCovered, ReadyCovered
<1>5. CASE Harvest(t)
  <2>1. PICK K \in SUBSET {k \in Fd \X File : kern[k] # Nil} :
          /\ wait' = [wait EXCEPT ![t] = [wait[t] EXCEPT !.pc = "copied",
                      !.ready = {[obj |-> kern[k].obj, ev |-> kern[k].ev] : k \in K}]]
          /\ kern' = [k \in Fd \X File |->
                 IF k \in K THEN [kern[k] EXCEPT !.armed = kern[k].ev \notin OneShot]
                            ELSE kern[k]]
    BY <1>5 DEF Harvest
  <2>2. UNCHANGED <<fdtab, marks, op, late>>
    BY <1>5 DEF Harvest
  <2>3. \A fd \in Fd, f \in File : kern'[<<fd, f>>] # Nil =>
           kern[<<fd, f>>] # Nil /\ kern'[<<fd, f>>].obj = kern[<<fd, f>>].obj
    BY <1>t, <2>1 DEF TypeOK, Watch
  <2>4. /\ wait'[t].pc = "copied" /\ wait'[t].snapshot = wait[t].snapshot
        /\ wait'[t].ready = {[obj |-> kern[k].obj, ev |-> kern[k].ev] : k \in K}
        /\ \A s \in Thread \ {t} : wait'[s] = wait[s]
    BY <1>t, <2>1 DEF WaitState
  <2>5. \A k \in K : kern[k].obj \in wait[t].snapshot \cup late[t]
    BY <1>5 DEF Harvest, SleepCovered
  <2>6. FileInv' /\ Marked'
    BY <2>2, <2>3 DEF FileInv, Marked, Committing
  <2>7. SleepCovered'
    BY <2>2, <2>3, <2>4 DEF SleepCovered
  <2>8. ReadyCovered'
    BY <2>2, <2>4, <2>5 DEF ReadyCovered
  <2> QED BY <2>6, <2>7, <2>8
<1>6. CASE Yield(t)
  <2>1. /\ UNCHANGED <<fdtab, kern, marks, op, late>>
        /\ \A s \in Thread : /\ wait'[s].snapshot = wait[s].snapshot
                             /\ wait'[s].ready \subseteq wait[s].ready
                             /\ wait'[s].pc # wait[s].pc => wait'[s].pc = "block"
    BY <1>t, <1>6 DEF Yield, WaitState
  <2> QED BY <2>1 DEF FileInv, Marked, Committing, SleepCovered, ReadyCovered
<1>7. CASE LeaveWait(t)
  <2>1. /\ UNCHANGED <<fdtab, kern, marks, op>>
        /\ wait'[t].pc = "idle" /\ wait'[t].ready = {}
        /\ \A s \in Thread \ {t} : wait'[s] = wait[s] /\ late'[s] = late[s]
    BY <1>t, <1>7 DEF LeaveWait, IdleWait, TypeOK
  <2> QED BY <2>1 DEF FileInv, Marked, Committing, SleepCovered, ReadyCovered
<1> QED BY <1>1, <1>2, <1>3, <1>4, <1>5, <1>6, <1>7 DEF WaitStep

GcInv == TypeInv /\ LiveInv /\ CoverInv

LEMMA GcStep ==
    ASSUME NoDup
    PROVE  GcInv /\ [Next]_vars => GcInv'
<1> SUFFICES ASSUME GcInv, [Next]_vars PROVE GcInv'
  OBVIOUS
<1>1. TypeInv /\ LiveInv /\ CoverInv
  BY DEF GcInv
<1>2. TypeInv'
  BY <1>1, TypeStep
<1>3. LiveInv'
  BY <1>1, LiveStep
<1>4. ASSUME UNCHANGED vars PROVE CoverInv'
  <2>1. UNCHANGED <<fdtab, kern, marks, op, wait, late>>
    BY <1>4 DEF vars, kernelVars, cacheVars
  <2> QED BY <1>1, <2>1, SameCommits DEF CoverInv, FileInv, SleepCovered, ReadyCovered
<1>5. ASSUME Next PROVE CoverInv'
  BY <1>1, <1>5, CoverApp, CoverOp, CoverOther DEF Next
<1> QED BY <1>2, <1>3, <1>4, <1>5 DEF GcInv

LEMMA GcSafe == GcInv => WatchedLive /\ InFlightCovered
<1> SUFFICES ASSUME GcInv PROVE WatchedLive /\ InFlightCovered
  OBVIOUS
<1>1. \A fd \in Fd, f \in File : kern[<<fd, f>>] # Nil => life[kern[<<fd, f>>].obj] = "live"
  <2> SUFFICES ASSUME NEW fd \in Fd, NEW f \in File, kern[<<fd, f>>] # Nil
               PROVE  life[kern[<<fd, f>>].obj] = "live"
    OBVIOUS
  <2>1. kern[<<fd, f>>].obj # Nil
    BY ConstantsOK DEF GcInv, TypeInv, TypeOK, Watch
  <2> QED BY <2>1 DEF GcInv, CoverInv, Marked, Committing, LiveInv, CallInv, KeptLive
<1>2. WatchedLive
  BY <1>1 DEF WatchedLive
<1>3. InFlightCovered
  BY DEF GcInv, CoverInv, ReadyCovered, LiveInv, KeptLive, InFlightCovered
<1> QED BY <1>2, <1>3

\* GC-safety of the interest list, for any number of threads that add, mod,
\* set, del, delete, close and wait, with IO objects that share or reopen
\* descriptors: unless a descriptor is duplicated, the kernel never holds
\* the VALUE of a collected object.
THEOREM InterestListGcSafe ==
    ASSUME NoDup
    PROVE  Spec => []WatchedLive
<1>1. Init => GcInv
  BY TypeInit, LiveInit, CoverInit DEF GcInv
<1> QED BY <1>1, GcStep, GcSafe, PTL DEF Spec

\* GC-safety of #wait up to its window: an event between epoll_wait(2) and
\* the block names a collected object only if that object was registered
\* after the thread took its snapshot of @marks.
THEOREM EventsGcSafe ==
    ASSUME NoDup
    PROVE  Spec => []InFlightCovered
<1>1. Init => GcInv
  BY TypeInit, LiveInit, CoverInit DEF GcInv
<1> QED BY <1>1, GcStep, GcSafe, PTL DEF Spec

----------------------------------------------------------------------------
(* The cache of Epoll agrees with the kernel, as long as the application   *)
(* keeps one IO object per descriptor number and reopens none of them      *)
(* (descriptors may be duplicated).                                        *)

Private == UserOps \cap {"alias", "reopen"} = {}

\* A descriptor number in an IO object is open and is in no other object.
OwnerInv ==
    /\ \A o, p \in Obj : fdOf[o] # Nil /\ fdOf[o] = fdOf[p] => o = p
    /\ \A o \in Obj : fdOf[o] # Nil => fdtab[fdOf[o]] # Nil

WatchedAs(fd, o, ev) ==
    /\ kern[<<fd, fdtab[fd]>>] # Nil
    /\ kern[<<fd, fdtab[fd]>>].obj = o
    /\ kern[<<fd, fdtab[fd]>>].ev = ev

\* The cache entry of an open object, unless a call is about to replace it.
EntryCoherent ==
    \A fd \in Fd :
        /\ marks[fd] # Nil /\ fdOf[marks[fd]] = fd
        /\ \A t \in Thread : ~Committing(t, fd)
        => WatchedAs(fd, marks[fd], events[fd])

\* What a call is about to put into the cache.
CommitCoherent ==
    \A t \in Thread :
        op[t].pc = "commit" /\ op[t].cmd # "DEL" /\ fdOf[op[t].obj] # Nil =>
            WatchedAs(op[t].fd, op[t].obj, op[t].ev)

\* Only a ONESHOT watch is ever disarmed.
ArmedInv ==
    \A fd \in Fd, f \in File : kern[<<fd, f>>] # Nil =>
        kern[<<fd, f>>].armed \/ kern[<<fd, f>>].ev \in OneShot

CacheInv == OwnerInv /\ EntryCoherent /\ CommitCoherent /\ ArmedInv

LEMMA CacheInit == Init => CacheInv
BY DEF Init, CacheInv, OwnerInv, EntryCoherent, CommitCoherent, ArmedInv, IdleOp

\* A step that leaves cache and calls alone and under which every object that
\* is still open on a descriptor keeps that descriptor's registration.
LEMMA KeepsOpen ==
    ASSUME EntryCoherent, CommitCoherent, LiveInv, TypeInv,
           UNCHANGED <<marks, events, op>>,
           \A o \in Obj : life[o] = "live" /\ fdOf'[o] # Nil =>
              /\ fdOf'[o] = fdOf[o]
              /\ fdtab'[fdOf[o]] = fdtab[fdOf[o]]
              /\ kern'[<<fdOf[o], fdtab[fdOf[o]]>>] = kern[<<fdOf[o], fdtab[fdOf[o]]>>]
    PROVE  EntryCoherent' /\ CommitCoherent'
<1>t. Nil \notin Fd /\ TypeOK
  BY ConstantsOK DEF TypeInv
<1>1. ASSUME NEW fd \in Fd, marks'[fd] # Nil, fdOf'[marks'[fd]] = fd,
             \A t \in Thread : ~Committing(t, fd)'
      PROVE  WatchedAs(fd, marks[fd], events[fd])'
  <2>1. marks[fd] \in Obj /\ life[marks[fd]] = "live"
    BY <1>1 DEF LiveInv, KeptLive, TypeInv, TypeOK
  <2>2. /\ fdOf[marks[fd]] = fd /\ fdtab'[fd] = fdtab[fd]
        /\ kern'[<<fd, fdtab[fd]>>] = kern[<<fd, fdtab[fd]>>]
    BY <1>t, <1>1, <2>1
  <2>3. WatchedAs(fd, marks[fd], events[fd])
    BY <1>1, <2>2 DEF EntryCoherent, Committing
  <2> QED BY <2>2, <2>3 DEF WatchedAs
<1>2. ASSUME NEW t \in Thread, op'[t].pc = "commit", op'[t].cmd # "DEL",
             fdOf'[op'[t].obj] # Nil
      PROVE  WatchedAs(op[t].fd, op[t].obj, op[t].ev)'
  <2>1. op[t].obj \in Obj /\ life[op[t].obj] = "live" /\ fdOf[op[t].obj] \in {op[t].fd, Nil}
    BY <1>2 DEF LiveInv, CallInv, TypeInv, CallTyped
  <2>2. /\ fdOf[op[t].obj] = op[t].fd /\ fdtab'[op[t].fd] = fdtab[op[t].fd]
        /\ kern'[<<op[t].fd, fdtab[op[t].fd]>>] = kern[<<op[t].fd, fdtab[op[t].fd]>>]
    BY <1>2, <2>1
  <2>3. WatchedAs(op[t].fd, op[t].obj, op[t].ev)
    BY <1>2, <2>1, <2>2 DEF CommitCoherent
  <2> QED BY <2>2, <2>3 DEF WatchedAs
<1>3. EntryCoherent'
  BY <1>1 DEF EntryCoherent
<1>4. CommitCoherent'
  BY <1>2 DEF CommitCoherent
<1> QED BY <1>3, <1>4

LEMMA CacheApp ==
    ASSUME Private, TypeInv, LiveInv, CacheInv, AppStep
    PROVE  CacheInv'
<1>t. TypeOK /\ Nil \notin File /\ Nil \notin Fd
  BY ConstantsOK DEF TypeInv
<1>u. UNCHANGED <<marks, events, op>>
  BY DEF AppStep, AppOpen, AppDup, AppAlias, AppReopen, AppClose, AppDrop, Collect,
         NewObject, cacheVars
<1>1. ASSUME NEW o \in Obj, NEW fd \in Fd, NEW f \in File, fdtab[fd] = Nil,
             fdtab' = [fdtab EXCEPT ![fd] = f], NewObject(o, fd)
      PROVE  CacheInv'
  <2>1. \A p \in Obj : fdOf[p] # fd
    BY <1>1, <1>t DEF CacheInv, OwnerInv
  <2>2. \A p \in Obj : life[p] = "live" => p # o
    BY <1>1 DEF NewObject
  <2>3. OwnerInv'
    BY <1>t, <1>1, <2>1 DEF CacheInv, OwnerInv, NewObject, TypeOK
  <2>4. \A p \in Obj : life[p] = "live" /\ fdOf'[p] # Nil =>
              /\ fdOf'[p] = fdOf[p]
              /\ fdtab'[fdOf[p]] = fdtab[fdOf[p]]
              /\ kern'[<<fdOf[p], fdtab[fdOf[p]]>>] = kern[<<fdOf[p], fdtab[fdOf[p]]>>]
    BY <1>t, <1>1, <2>1, <2>2 DEF NewObject, TypeOK
  <2>5. EntryCoherent' /\ CommitCoherent'
    BY <1>u, <2>4, KeepsOpen DEF CacheInv
  <2>6. ArmedInv'
    BY <1>1 DEF NewObject, CacheInv, ArmedInv
  <2> QED BY <2>3, <2>5, <2>6 DEF CacheInv
<1>2. ASSUME NEW o \in Obj, fdOf[o] # Nil, CloseFd(o)
      PROVE  CacheInv'
  <2>0. fdOf[o] \in Fd /\ \A p \in Obj \ {o} : fdOf[p] # fdOf[o]
    BY <1>t, <1>2 DEF CacheInv, OwnerInv, TypeOK
  <2>1. OwnerInv'
    BY <1>t, <1>2, <2>0 DEF CacheInv, OwnerInv, CloseFd, TypeOK
  <2>2. \A p \in Obj : fdOf'[p] # Nil => p # o /\ fdOf'[p] = fdOf[p] /\ fdOf[p] \in Fd
    BY <1>t, <1>2, <2>0 DEF CloseFd, TypeOK
  <2>3. ASSUME NEW fd \in Fd, fd # fdOf[o], fdtab[fd] # Nil
        PROVE  KernWithout(fdOf[o])[<<fd, fdtab[fd]>>] = kern[<<fd, fdtab[fd]>>]
    BY <1>t, <2>0, <2>3 DEF KernWithout, TypeOK
  <2>4. \A p \in Obj : life[p] = "live" /\ fdOf'[p] # Nil =>
              /\ fdOf'[p] = fdOf[p]
              /\ fdtab'[fdOf[p]] = fdtab[fdOf[p]]
              /\ kern'[<<fdOf[p], fdtab[fdOf[p]]>>] = kern[<<fdOf[p], fdtab[fdOf[p]]>>]
    BY <1>t, <1>2, <2>0, <2>2, <2>3 DEF CloseFd, CacheInv, OwnerInv, TypeOK
  <2>5. EntryCoherent' /\ CommitCoherent'
    BY <1>u, <2>4, KeepsOpen DEF CacheInv
  <2>6. ArmedInv'
    BY <1>t, <1>2 DEF CloseFd, KernWithout, CacheInv, ArmedInv, TypeOK
  <2> QED BY <2>1, <2>5, <2>6 DEF CacheInv
<1>3. ASSUME UNCHANGED <<kern, fdtab, fdOf>>
      PROVE  CacheInv'
  <2>1. OwnerInv' /\ ArmedInv'
    BY <1>3 DEF CacheInv, OwnerInv, ArmedInv
  <2>2. EntryCoherent' /\ CommitCoherent'
    BY <1>u, <1>3, KeepsOpen DEF CacheInv
  <2> QED BY <2>1, <2>2 DEF CacheInv
<1>4. ASSUME NEW o \in Obj, NEW src \in Obj, NEW fd \in Fd, AppDup(o, src, fd)
      PROVE  CacheInv'
  <2>1. fdtab[fdOf[src]] \in File
    BY <1>t, <1>4 DEF AppDup, TypeOK
  <2> QED BY <1>1, <1>4, <2>1 DEF AppDup
<1>5. ASSUME NEW o \in Obj, NEW fd \in Fd, NEW f \in File, AppOpen(o, fd, f)
      PROVE  CacheInv'
  BY <1>1, <1>5 DEF AppOpen
<1>6. ASSUME NEW o \in Obj, AppClose(o) \/ AppDrop(o) \/ Collect(o)
      PROVE  CacheInv'
  <2>1. CASE fdOf[o] = Nil /\ Collect(o)
    <3>1. [fdOf EXCEPT ![o] = Nil] = fdOf
      BY <1>t, <2>1 DEF TypeOK
    <3> QED BY <1>3, <2>1, <3>1 DEF Collect, kernelVars
  <2>2. CASE fdOf[o] # Nil /\ Collect(o)
    BY <1>2, <2>2 DEF Collect, Private
  <2> QED BY <1>2, <1>3, <1>6, <2>1, <2>2 DEF AppClose, AppDrop, kernelVars
<1> QED BY <1>4, <1>5, <1>6 DEF AppStep, Private, AppAlias, AppReopen

LEMMA CacheOp ==
    ASSUME TypeInv, LiveInv, CacheInv, NEW t \in Thread, OpStep(t)
    PROVE  CacheInv'
<1>1. OpEffect(t)
  BY OpStepEffect
<1>t. /\ TypeOK /\ op[t].pc # "idle" /\ op[t].fd \in Fd /\ op[t].obj \in Obj
      /\ fdOf[op[t].obj] \in {op[t].fd, Nil} /\ Nil \notin Fd
  BY <1>1, ConstantsOK DEF OpEffect, TypeInv, CallTyped, LiveInv, CallInv
<1>m. \A s \in Thread \ {t} : op[s].pc # "commit" /\ op'[s] = op[s]
  <2>1. mtx = t \/ mtx = Nil
    BY <1>1 DEF OpEffect, LiveInv, MutexInv, TypeInv, TypeOK, CallState
  <2> QED BY <1>1, <2>1, ConstantsOK DEF OpEffect, LiveInv, MutexInv
<1>u. UNCHANGED <<fdtab, fdOf>> /\ OwnerInv'
  BY <1>1 DEF OpEffect, CacheInv, OwnerInv
<1>2. CASE op[t].pc # "commit" /\ (Ends(t) \/ Retries(t))
  <2>1. UNCHANGED <<kern, marks, events>> /\ op'[t].pc # "commit"
    BY <1>2 DEF Ends, Retries, GoesOn
  <2>2. EntryCoherent'
    BY <1>m, <1>u, <1>2, <2>1 DEF CacheInv, EntryCoherent, Committing, WatchedAs
  <2>3. CommitCoherent'
    BY <1>m, <1>2, <2>1 DEF CommitCoherent
  <2> QED BY <1>u, <2>1, <2>2, <2>3 DEF CacheInv, ArmedInv
<1>3. CASE op[t].pc # "commit" /\ Registers(t)
  <2>1. /\ op[t].fd = fdOf[op[t].obj] /\ fdtab[op[t].fd] \in File
        /\ GoesOn(t, "commit")
    BY <1>t, <1>3 DEF Registers
  <2>2. /\ \A fd \in Fd, f \in File : fd # op[t].fd => kern'[<<fd, f>>] = kern[<<fd, f>>]
        /\ op'[t].cmd # "DEL" => kern'[<<op[t].fd, fdtab[op[t].fd]>>] =
                 [obj |-> op[t].obj, ev |-> op[t].ev, armed |-> TRUE]
        /\ \A f \in File : kern'[<<op[t].fd, f>>] \in
                 {Nil, kern[<<op[t].fd, f>>],
                  [obj |-> op[t].obj, ev |-> op[t].ev, armed |-> TRUE]}
    BY <1>t, <1>3, <2>1 DEF Registers, KernAfter, TypeOK
  <2>3. EntryCoherent'
    <3> SUFFICES ASSUME NEW fd \in Fd, marks'[fd] # Nil, fdOf'[marks'[fd]] = fd,
                        \A s \in Thread : ~Committing(s, fd)'
                 PROVE  WatchedAs(fd, marks[fd], events[fd])'
      BY DEF EntryCoherent
    <3>1. fd # op[t].fd
      BY <2>1 DEF GoesOn, Committing
    <3>2. marks[fd] \in Obj /\ fdOf[marks[fd]] = fd /\ fdtab[fd] \in File
      BY <1>t, <1>u, <2>1 DEF GoesOn, CacheInv, OwnerInv, TypeOK
    <3>3. WatchedAs(fd, marks[fd], events[fd])
      BY <1>m, <1>3, <3>2, <1>t, <2>1 DEF CacheInv, EntryCoherent, Committing, GoesOn
    <3> QED BY <1>u, <2>1, <2>2, <3>1, <3>2, <3>3 DEF WatchedAs, GoesOn
  <2>4. CommitCoherent'
    <3>1. op'[t].cmd # "DEL" => WatchedAs(op[t].fd, op[t].obj, op[t].ev)'
      <4> SUFFICES ASSUME op'[t].cmd # "DEL"
                   PROVE  WatchedAs(op[t].fd, op[t].obj, op[t].ev)'
        OBVIOUS
      <4>0. op[t].ev \in Mask
        BY <1>3 DEF Registers
      <4>1. kern'[<<op[t].fd, fdtab[op[t].fd]>>] \in Watch
        <5>1. [obj |-> op[t].obj, ev |-> op[t].ev, armed |-> TRUE] \in Watch
          BY <1>t, <4>0 DEF Watch
        <5> QED BY <2>2, <5>1
      <4>2. Nil \notin Watch
        BY ConstantsOK
      <4> QED BY <1>u, <2>1, <2>2, <4>1, <4>2 DEF WatchedAs, GoesOn
    <3> QED BY <1>m, <3>1 DEF CommitCoherent
  <2>5. ArmedInv'
    BY <1>t, <2>2 DEF CacheInv, ArmedInv
  <2> QED BY <1>u, <2>3, <2>4, <2>5 DEF CacheInv
<1>4. CASE op[t].pc = "commit" /\ Commit(t) /\ op'[t].pc = "idle"
  <2>1. UNCHANGED kern
    BY <1>4 DEF Commit, kernelVars
  <2>2. EntryCoherent'
    <3> SUFFICES ASSUME NEW fd \in Fd, marks'[fd] # Nil, fdOf'[marks'[fd]] = fd
                 PROVE  WatchedAs(fd, marks'[fd], events'[fd])
      BY <1>u, <2>1 DEF EntryCoherent, WatchedAs
    <3>1. CASE fd = op[t].fd
      <4>1. op[t].cmd # "DEL" /\ marks'[fd] = op[t].obj /\ events'[fd] = op[t].ev
        BY <1>t, <1>4, <3>1 DEF Commit, TypeOK
      <4> QED BY <1>u, <1>4, <1>t, <3>1, <4>1 DEF CacheInv, CommitCoherent
    <3>2. CASE fd # op[t].fd
      <4>1. marks'[fd] = marks[fd] /\ events'[fd] = events[fd]
        BY <1>t, <1>4, <3>2 DEF Commit, TypeOK
      <4> QED BY <1>m, <1>u, <3>2, <4>1 DEF CacheInv, EntryCoherent, Committing
    <3> QED BY <3>1, <3>2
  <2>3. CommitCoherent'
    BY <1>m, <1>4 DEF CommitCoherent
  <2> QED BY <1>u, <2>1, <2>2, <2>3 DEF CacheInv, ArmedInv
<1> QED BY <1>1, <1>2, <1>3, <1>4 DEF OpEffect

LEMMA CacheOther ==
    ASSUME TypeInv, LiveInv, CacheInv, NEW t \in Thread,
           \/ \E name, ev : \E o \in Obj : Call(t, name, o, ev)
           \/ Close(t) \/ Snapshot(t) \/ WaitStep(t)
    PROVE  CacheInv'
<1>t. op \in [Thread -> CallState] /\ TypeOK
  BY DEF TypeInv, TypeOK
<1>1. ASSUME UNCHANGED <<fdtab, fdOf, kern, marks, events>>,
             \A s \in Thread : op'[s] # op[s] => op[s].pc # "commit" /\ op'[s].pc # "commit"
      PROVE  CacheInv'
  <2>1. OwnerInv' /\ ArmedInv'
    BY <1>1 DEF CacheInv, OwnerInv, ArmedInv
  <2>2. \A s \in Thread, fd \in Fd : Committing(s, fd) => Committing(s, fd)'
    BY <1>1 DEF Committing
  <2>3. EntryCoherent'
    BY <1>1, <2>2 DEF CacheInv, EntryCoherent, WatchedAs
  <2>4. CommitCoherent'
    <3> SUFFICES ASSUME NEW s \in Thread, op'[s].pc = "commit", op'[s].cmd # "DEL",
                        fdOf'[op'[s].obj] # Nil
                 PROVE  WatchedAs(op[s].fd, op[s].obj, op[s].ev)'
      BY DEF CommitCoherent
    <3>1. op'[s] = op[s]
      BY <1>1
    <3> QED BY <1>1, <3>1 DEF CacheInv, CommitCoherent, WatchedAs
  <2> QED BY <2>1, <2>3, <2>4 DEF CacheInv
<1>2. ASSUME NEW name, NEW ev, NEW o \in Obj, Call(t, name, o, ev)
      PROVE  CacheInv'
  BY <1>1, <1>2, <1>t DEF Call, InApplication, kernelVars, rubyVars, cacheVars
<1>3. CASE Close(t) \/ Snapshot(t) \/ Sleep(t) \/ Yield(t) \/ LeaveWait(t)
  BY <1>1, <1>3 DEF Close, Snapshot, Sleep, Yield, LeaveWait, kernelVars, rubyVars, cacheVars
<1>4. CASE Harvest(t)
  <2>1. PICK K \in SUBSET {k \in Fd \X File : kern[k] # Nil} :
          kern' = [k \in Fd \X File |->
                 IF k \in K THEN [kern[k] EXCEPT !.armed = kern[k].ev \notin OneShot]
                            ELSE kern[k]]
    BY <1>4 DEF Harvest
  <2>2. UNCHANGED <<fdtab, fdOf, marks, events, op>>
    BY <1>4 DEF Harvest, rubyVars, cacheVars
  <2>3. ASSUME NEW fd \in Fd, NEW f \in File
        PROVE  /\ kern[<<fd, f>>] # Nil =>
                     /\ kern'[<<fd, f>>] # Nil
                     /\ kern'[<<fd, f>>].obj = kern[<<fd, f>>].obj
                     /\ kern'[<<fd, f>>].ev = kern[<<fd, f>>].ev
               /\ kern'[<<fd, f>>] # Nil =>
                     \/ kern'[<<fd, f>>] = kern[<<fd, f>>]
                     \/ kern'[<<fd, f>>].armed \/ kern'[<<fd, f>>].ev \in OneShot
    <3>1. CASE <<fd, f>> \in K
      <4>1. kern[<<fd, f>>] \in Watch
        BY <1>t, <3>1 DEF TypeOK
      <4>2. kern'[<<fd, f>>] = [kern[<<fd, f>>] EXCEPT !.armed = kern[<<fd, f>>].ev \notin OneShot]
        BY <2>1, <3>1
      <4>3. kern'[<<fd, f>>] \in Watch
        BY <4>1, <4>2 DEF Watch
      <4>4. Nil \notin Watch
        BY ConstantsOK
      <4> QED BY <4>1, <4>2, <4>3, <4>4 DEF Watch
    <3>2. CASE <<fd, f>> \notin K
      BY <2>1, <3>2
    <3> QED BY <3>1, <3>2
  <2>4. OwnerInv'
    BY <2>2 DEF CacheInv, OwnerInv
  <2>5. ArmedInv'
    BY <2>3 DEF CacheInv, ArmedInv
  <2>6. ASSUME NEW fd \in Fd, NEW o, NEW ev, fdtab[fd] # Nil, WatchedAs(fd, o, ev)
        PROVE  /\ kern'[<<fd, fdtab[fd]>>] # Nil
               /\ kern'[<<fd, fdtab[fd]>>].obj = o
               /\ kern'[<<fd, fdtab[fd]>>].ev = ev
    BY <1>t, <2>3, <2>6 DEF WatchedAs, TypeOK
  <2>7. EntryCoherent'
    <3> SUFFICES ASSUME NEW fd \in Fd, marks[fd] # Nil, fdOf[marks[fd]] = fd,
                        \A s \in Thread : ~Committing(s, fd)
                 PROVE  WatchedAs(fd, marks[fd], events[fd])'
      BY <2>2 DEF EntryCoherent, Committing
    <3>1. fdtab[fd] # Nil
      BY <1>t, ConstantsOK DEF CacheInv, OwnerInv, TypeOK
    <3> QED BY <2>2, <2>6, <3>1 DEF CacheInv, EntryCoherent, WatchedAs
  <2>8. CommitCoherent'
    <3> SUFFICES ASSUME NEW s \in Thread, op[s].pc = "commit", op[s].cmd # "DEL",
                        fdOf[op[s].obj] # Nil
                 PROVE  WatchedAs(op[s].fd, op[s].obj, op[s].ev)'
      BY <2>2 DEF CommitCoherent
    <3>1. op[s].fd \in Fd /\ op[s].obj \in Obj /\ fdOf[op[s].obj] = op[s].fd
      BY DEF TypeInv, CallTyped, LiveInv, CallInv
    <3>2. fdtab[op[s].fd] # Nil
      BY <3>1 DEF CacheInv, OwnerInv
    <3> QED BY <2>2, <2>6, <3>1, <3>2 DEF CacheInv, CommitCoherent, WatchedAs
  <2> QED BY <2>4, <2>5, <2>7, <2>8 DEF CacheInv
<1> QED BY <1>2, <1>3, <1>4 DEF WaitStep

FullInv == TypeInv /\ LiveInv /\ CacheInv

LEMMA CacheStep ==
    ASSUME Private
    PROVE  FullInv /\ [Next]_vars => FullInv'
<1> SUFFICES ASSUME FullInv, [Next]_vars PROVE FullInv'
  OBVIOUS
<1>1. TypeInv /\ LiveInv /\ CacheInv
  BY DEF FullInv
<1>2. TypeInv'
  BY <1>1, TypeStep
<1>3. LiveInv'
  BY <1>1, LiveStep
<1>4. ASSUME UNCHANGED vars PROVE CacheInv'
  BY <1>1, <1>4 DEF vars, kernelVars, rubyVars, cacheVars, CacheInv, OwnerInv, EntryCoherent,
                    CommitCoherent, ArmedInv, WatchedAs, Committing
<1>5. ASSUME Next PROVE CacheInv'
  BY <1>1, <1>5, CacheApp, CacheOp, CacheOther DEF Next
<1> QED BY <1>2, <1>3, <1>4, <1>5 DEF FullInv

\* While no call holds the mutex, an entry of @marks and @events that belongs
\* to an open object is what the kernel watches: #set, #delete, #io_for and
\* #events_for may trust it.
THEOREM CacheIsCoherent ==
    ASSUME Private
    PROVE  Spec => []CacheCoherent
<1>1. Init => FullInv
  BY TypeInit, LiveInit, CacheInit DEF FullInv
<1>2. FullInv => CacheCoherent
  <2> SUFFICES ASSUME FullInv, mtx = Nil,
                      NEW fd \in Fd, Include(fd), fdOf[IoFor(fd)] = fd
               PROVE  WatchedAs(fd, IoFor(fd), EventsFor(fd))
    BY DEF CacheCoherent, WatchedAs
  <2>1. \A t \in Thread : ~Committing(t, fd)
    BY ConstantsOK DEF FullInv, LiveInv, MutexInv, Committing
  <2> QED BY <2>1 DEF FullInv, CacheInv, EntryCoherent, Include, IoFor, EventsFor
<1> QED BY <1>1, <1>2, CacheStep, PTL DEF Spec

\* When #set returns 0 the kernel watches that object for that mask, on every
\* path through the method and with any other threads at work; its cached
\* early return never leaves a fired ONESHOT watch disarmed.
THEOREM SetIsEffective ==
    ASSUME Private
    PROVE  Spec => SetMeansWatched
<1>1. Init => FullInv
  BY TypeInit, LiveInit, CacheInit DEF FullInv
<1>2. ASSUME FullInv, NEW t \in Thread, SetReturns(t), fdOf[op[t].obj] # Nil
      PROVE  /\ WatchedAs(op[t].fd, op[t].obj, op[t].ev)
             /\ op[t].pc = "lock" => kern[<<op[t].fd, fdtab[op[t].fd]>>].armed
  <2>1. CASE Commit(t)
    <3>1. op[t].pc = "commit" /\ op[t].cmd # "DEL"
      BY <1>2, <2>1 DEF Commit, SetReturns, FullInv, TypeInv, CallTyped
    <3> QED BY <1>2, <3>1 DEF FullInv, CacheInv, CommitCoherent
  <2>2. CASE Skip(t)
    <3>1. /\ op[t].pc = "lock" /\ mtx = Nil /\ marks[op[t].fd] = op[t].obj
          /\ events[op[t].fd] \notin OneShot /\ events[op[t].fd] = op[t].ev
      BY <1>2, <2>2 DEF Skip, SkipsSyscall, SetReturns
    <3>2. op[t].fd \in Fd /\ op[t].obj \in Obj /\ fdOf[op[t].obj] = op[t].fd
      BY <1>2, <3>1 DEF FullInv, TypeInv, CallTyped, LiveInv, CallInv
    <3>3. \A s \in Thread : ~Committing(s, op[t].fd)
      BY <1>2, <3>1, ConstantsOK DEF FullInv, LiveInv, MutexInv, Committing
    <3>4. op[t].obj # Nil
      BY <3>2, ConstantsOK
    <3>5. WatchedAs(op[t].fd, op[t].obj, op[t].ev)
      BY <1>2, <3>1, <3>2, <3>3, <3>4 DEF FullInv, CacheInv, EntryCoherent
    <3>6. fdtab[op[t].fd] \in File
      BY <1>2, <3>2, ConstantsOK DEF FullInv, CacheInv, OwnerInv, TypeInv, TypeOK
    <3> QED BY <1>2, <3>1, <3>2, <3>5, <3>6 DEF FullInv, CacheInv, ArmedInv, WatchedAs
  <2> QED BY <1>2, <2>1, <2>2 DEF SetReturns
<1>3. FullInv /\ [Next]_vars =>
        [\A t \in Thread : SetReturns(t) =>
           \/ fdOf[op[t].obj] = Nil
           \/ LET w == kern[<<op[t].fd, fdtab[op[t].fd]>>]
              IN  /\ w # Nil /\ w.obj = op[t].obj /\ w.ev = op[t].ev
                  /\ op[t].pc = "lock" => w.armed]_vars
  BY <1>2 DEF WatchedAs
<1> QED BY <1>1, <1>3, CacheStep, PTL DEF Spec, SetMeansWatched
=============================================================================
