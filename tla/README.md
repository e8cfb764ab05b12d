# TLA+ models of sleepy_penguin

sleepy_penguin gives Ruby programs access to the event notification calls of
Linux (and kqueue of the BSDs): `epoll`, `inotify`, `eventfd`, `timerfd`,
`splice`, `copy_file_range`, `sendfile`.  Most of it is a thin C extension;
what is hard is where Ruby's world meets the kernel's: threads that block
without the GVL, a garbage collector that does not see what the kernel stores,
descriptors that are inherited by `fork`, closed, duplicated and reused, and
calls that are interrupted and retried.  That is what is modelled here.

## 1. Inventory

| Part | Source | State | Operations | What is hard | What makes it correct |
|---|---|---|---|---|---|
| Epoll (high level) | `lib/sleepy_penguin/epoll.rb` | `@io`, `@mtx`, `@marks`, `@events`, `@pid`, `@copies` | `add` `del` `delete` `mod` `set` `wait` `close` `dup` `to_io` `io_for` `events_for` `include?` | the kernel holds raw VALUEs; `epoll_wait` runs without the mutex; a cache that can be stale; objects shared across `fork` and by copies | no VALUE of a collected object in the kernel or in flight; the cache describes the kernel; a child never touches its parent's interest list; `set` does what it reports |
| Epoll::IO | `ext/sleepy_penguin/epoll.c` | the epoll descriptor, a buffer per call | `epoll_ctl` `epoll_wait` | GVL released; timeout recomputed after EINTR; nested waits | as above; a wait ends at its deadline |
| Per-thread buffer | `ext/sleepy_penguin/init.c` | a `pthread` key, `struct rb_sp_tlsbuf` | `rb_sp_gettlsbuf` `rb_sp_puttlsbuf` | calls that nest, fibers, exceptions, failing allocation | a buffer belongs to one call; nothing leaks; no dangling key |
| Inotify | `ext/sleepy_penguin/inotify.c` | `@inotify_tmp`, O_NONBLOCK | `take` `each` `add_watch` `rm_watch` | several events per read, several readers, events longer than the buffer | every event once and in order; `each` gets them all |
| EventFD | `ext/sleepy_penguin/eventfd.c` | the kernel's counter, O_NONBLOCK | `incr` `value` | retries after EAGAIN and EINTR, limits of the counter, a flag of the descriptor that is shared by all threads | nothing counted twice or dropped; no lost wakeup; nonblocking calls return |
| Kqueue, Kevent | `lib/sleepy_penguin/kqueue.rb`, `ext/sleepy_penguin/kqueue.c` | `@io`, `@mtx`, `@pid`, `@copies`, the kqueue descriptor | `kevent` `to_io` `close` `dup` | kqueues do not survive `fork`, but the objects that name their numbers do, and the numbers are reused; changes and a timeout in one interruptible call | objects in use reach their own kqueue; nobody else's file is closed; changes are made once |
| TimerFD | `ext/sleepy_penguin/timerfd.c`, `value2timespec.h` | kernel timer, its count of expirations, O_NONBLOCK | `settime` `gettime` `expirations` | roundings of times; a count that another thread's `settime` discards; retries | the timer runs as told; no expiration reported twice, no sleeper forgotten |
| Copying calls | `splice.c` `cfr.c` `sendfile.c` `sp_copy.h` and their `.rb` | the shared position of the source | `splice` `tee` `copy_file_range` `sendfile` | partial copies, EAGAIN, EINTR and ENOMEM, offsets, a destination that is closed meanwhile, three builds of `sendfile` | the result tells what was copied; no byte twice |
| Flags and IO helpers | `util.c`, `sleepy_penguin.h` | none | `rb_sp_get_flags` `rb_sp_get_uflags` `rb_sp_wait` `rb_sp_set_nonblock` `rb_sp_gc_for_fd` | flags of every Ruby type and an `int`'s width; a descriptor closed while a thread waits for it | bits arrive as named or an exception is raised; the descriptor is looked up again |
| Entry points, shims, build, SignalFD leftovers | the other files | none | | | not modelled (section 7) |

Components interact in four ways.  The high-level Epoll calls Epoll::IO under
its mutex, except for `epoll_wait`.  `epoll_wait`, `kevent` and `take` get their
memory from the per-thread buffer, and their blocks run application code that
may call any of them again.  The blocking methods of Inotify, EventFD and
TimerFD share one loop: a system call without the GVL, then `rb_sp_wait` on
EAGAIN or EINTR.  And `fork` copies all Ruby state while it shares what the
kernel keeps.

Where this bites, line by line, is the list `hazards` in `PROJECT.json`, with
the properties that cover each entry.

## 2. Modules

| Module | Models | Runs |
|---|---|---|
| `Epoll` | several threads that use one Epoll object; kernel interest list, IO objects and collector | `MCEpoll*` |
| `EpollProofs` | theorems about `Epoll` | |
| `EpollFork` | a family of copies of one Epoll object over several processes | `MCEpollFork*` |
| `EpollForkProofs` | theorems about `EpollFork` | |
| `Allocator` | what an allocator of buffers promises: the abstract specification of `TlsBuffer` | |
| `TlsBuffer` | the per-thread buffer and its three callers | `MCTlsBuffer` |
| `TlsBufferProofs` | theorems about `TlsBuffer` | |
| `EventQueue` | what a queue of events promises: the abstract specification of `Inotify` | |
| `Inotify` | `.new`, `#add_watch`, `#rm_watch`, `#take` and `#each` by several threads | `MCInotify*` |
| `InotifyProofs` | theorems about `Inotify` | |
| `Flags` | the conversion of flag arguments, used by `Inotify`, `EventFD` and `Copy` | |
| `Timespec` | the conversion of times, used by `EventFD` | |
| `EventFD` | EventFD and TimerFD: `#incr` and `#value`, `#settime` and `#expirations` by several threads | `MCEventFD` |
| `EventFDProofs` | theorems about `EventFD` | |
| `WaitTimeout` | the loops of `epoll_wait` and `kevent` around their system calls, with a clock | `MCWaitTimeout` |
| `WaitTimeoutProofs` | theorems about `WaitTimeout` | |
| `KqueueFork` | a family of copies of one Kqueue object in a process, its child, and so on | `MCKqueueFork` |
| `KqueueForkProofs` | theorems about `KqueueFork` | |
| `Copy` | `splice`, `tee`, `copy_file_range` and `linux_sendfile` by several threads | `MCCopy` |
| `CopyProofs` | theorems about `Copy` | |

The `MC` modules only add symmetry sets and sets of inputs.  Definitions whose name starts
like another one and whose comment starts with "Mutant" are broken variants of
the definition that follows them; each property is shown to fail with one of
them in place of the real definition (`mutants` in `PROJECT.json`).

### Epoll

`marks`, `events`, `mtx`, `open` are `@marks`, `@events`, `@mtx` and
`!@io.closed?`.  `kern` is the kernel's interest list, keyed as in the kernel by
descriptor number *and* open file; `fdtab` is the descriptor table.  `fdOf`,
`life` and `held` say which descriptor an IO object has, whether it has been
collected, and whether the application refers to it.

A call of `add`, `del`, `delete`, `mod` or `set` is `Call` (the descriptor is
looked up before the mutex is taken), then `Skip` (an early return), or `Lock`
(the mutex and the first `epoll_ctl`), possibly `Retry` (the second `epoll_ctl`
of `set`), and `Commit` (the assignments to `@marks` and `@events`).  The steps
are separate because the GVL may change hands between them and because other
threads' closes and waits do not need the mutex.  `wait` is `Snapshot`, `Sleep`,
`Harvest` (the kernel copies events out), `Yield` once per event, `LeaveWait`.
Inside the block (`pc = "block"`) a thread may make any call.  `Collect` frees
any object that nothing known to Ruby refers to; the `epoll_event` array is not
among the roots, since it is in malloc'ed memory.

`UserOps` says what else the application does: `"dup"` a descriptor, `"alias"`
(a second object on one descriptor, by `IO.for_fd` or as a proxy with `to_io`,
whose collection need not close the descriptor), `"reopen"`.  `late` is
auxiliary: the objects registered since a waiting thread took its snapshot.

`__ep_check` is a no-op in one process, so it is not in this module; it is the
subject of `EpollFork`.  A `#wait` that is nested in the block of another one is
not in this module; what nesting endangers is the buffer (`TlsBuffer`).

### EpollFork

One family of Epoll objects (an object and its copies) shares `@mtx`, `@marks`,
`@events` and `@copies`; `@io` and `@pid` are per object.  `mem[p]` is what
process `p` has of them: `Fork` copies it, and the instances of the kernel stay
shared.  Every method runs under `@mtx`, so each is one step: `Look` stands for
the methods that only run `__ep_check`, `Change` for those that then succeed in
changing the interest list, `Dup` for `initialize_copy`, `Close`, and
`CheckFails` for any method whose `Epoll::IO.new` fails with every inherited
descriptor closed.  `touched` and the field `reset` of a process's memory are
auxiliary: who changed an instance, and which processes of the line of descent
have re-initialized.

### TlsBuffer

`heap` is the allocated buffers, `key` the thread-specific pointer, `frame` the
calls in progress.  `Get` has the three outcomes of `rb_sp_gettlsbuf`, `Put` is
`rb_sp_puttlsbuf`.  They run with the GVL and are atomic.  `End` may be taken for
any frame in any order, which covers nesting and fibers.  `EndKept` and `Resize`
are the exits of `kevent` and `take` that do not return the buffer.  When a key
dangles the behaviour of the C code is undefined, and the model stops.  `failed`
and `kept` are auxiliary: whether an allocation has failed, and the buffers whose
call has ended without giving them back.

`ImplementsAllocator` hides the heap and the keys: `Holds` maps a call to its
buffer and `Room` to the capacity it may use, and every step is an `Acquire` or
a `Release` of `Allocator`, or changes neither.

### Inotify

Events are numbered; `queue`, `tmp` (`@inotify_tmp`) and a thread's `batch` are
the places where an event can be.  `TakeStart` runs up to `read(2)`, `Read` is
the system call, `Back` the rest of the loop body: return the first event and
keep the others, resize, wait, or read again.  `cached` abstracts `TlsBuffer` to
the one thing that matters here, the size of the buffer `#take` gets.  `users`
are the threads that call `#take`, one or several, chosen at the start; `watch`
is what `add_watch` and `rm_watch` last asked for, and `Emit` happens only under
a watch, as `rm_watch` ends in an event of its own.

`ImplementsQueue` hides the places: what is pending in `EventQueue` is what is in
the kernel, in a batch or in `@inotify_tmp`, and what `#take` returns is taken,
by a single user in the order of the events.

### Flags and Timespec

A C integer of flags is the set of its bits, a Ruby argument a record with its
type and contents, and a conversion gives bits or raises; 31 and 32 bits are the
widths of the non-negative `int` and of `unsigned`.  A Ruby number of seconds is
an integer number of grains, several to a nanosecond, so that the rounding of
`value2timespec` is visible: it splits towards zero, rounds to the nearest
nanosecond, does not carry a fraction that rounds to a whole second, and borrows
for a negative one.

### EventFD

`kind` says which of the two classes the object is of.  `Begin`, `Syscall` (the
transfer, a refusal, or sleep), `Back` (return, raise or retry), `WakeUp` (the
poll in `rb_sp_wait`).  `settime` converts its two times, is refused by the
kernel or starts the timer anew, and discards what the timer has counted;
`Expire` counts.  A call that has moved its amount may still tell nobody: a kill, or
the IOError of a close, takes its result away (`Interrupted`).  `want`, `asked`,
`owed`, `lost`, `untold` and `kills` are auxiliary: the last settings accepted,
whether a nonblocking call was made, what the returned calls add up to, what was
read for no caller and added without a report, and how many kills there were.  `MAX` stands for 2^64 - 2, and `MAX + 1` for the one larger value of
`uint64_t`.

### WaitTimeout

`call` is the `struct ep_per_thread` or `kq_per_thread` of one call and its place
in the loop.  `epwait` and `sp_kevent` run up to the first system call, `Back`
is the rest of the loop body: return, raise, or `epoll_resume_p` or
`kevent_resume_p` and the next system call.  `Enter` is what the kernel does
before it sleeps, `Answer` and `Signal` end the sleep.  The clock is in ticks; a
tick stands for a nanosecond, `MSec` of them are a millisecond and
`NANO_PER_SEC` a second.  The two are independent, as `epoll_wait` only uses one
and `kevent` the other.  `Tick` may come while the thread is in the kernel and
while it waits for the GVL afterwards.  `deadline` and `applied` are auxiliary.
Timeouts of `kevent` are the timespecs that `value2timespec` may produce,
negative ones and the one with 10^9 nanoseconds among them.

### KqueueFork

Processes share nothing here, since a child does not inherit kqueues, so the
model follows one line of descent: `Fork` goes on as the child, whose descriptor
table keeps the application's files and loses the kqueues.  `mem` has the objects
(`@io`, `@pid`, `@copies`), the `Kqueue::IO` objects with their numbers and
`autoclose?`, and the descriptor table.  `Check` is `__kq_check`: `Disown` (the
loop that turns `autoclose` off), `Opened` (a new kqueue or a `dup` on the lowest
free number), each of which may fail half-way, and `Reinit`.  `kevent` converts
its change list and registers it, `initialize_copy`, `to_io` and `close` are the
other methods, `Collect` the finalizer of a `Kqueue::IO`; `AppOpen` and
`AppClose` are an application that gets the freed numbers.  Each method is one
step: they hold `@mtx`, all but the system call of `kevent` (kqueue.rb 76 and 85),
which only a `close` of the same object can precede, and then `kevent` raises
IOError and does nothing more.  `given`, `closed`, `told`, `inits`, `orphans`,
`before` and `rash` are auxiliary (`orphans`: the numbers of the duplicates that an
attempt to re-initialize found in `@copies`); `Protected` (not `before`,
not `rash`) says where the code protects a process at all, see section 3.

### Copy

The bytes of one source are numbered and `wrote` (auxiliary) counts how often
each was written.  A call is looked up with the GVL (`Look`: a closed IO raises, an
Integer is taken as it is), reads (`Read`, only the emulation), has its number
resolved by the kernel (`Enter`, or `BadNumber`), and ends with one of `Transfer`,
`Ends`, `WouldBlock`, `Signalled` and `Fails`, or at once when it asks for no bytes
(`Nothing`); `Seek` is the second `lseek(2)` of the build for BSD.  Wherever it comes
back to Ruby a kill may take its result away (`Back`).  A number that led to another
file (the field `stray`) does not change what the call does to the source: it reads,
moves the position and counts in `wrote` as any other.  `conf` fixes the method,
the build of `sendfile`, the kind of source, whether the destination is an IO or an
Integer, and O_NONBLOCK of the destination.  `Feed`, `Drain`, `Close` and `Reuse`
are the peers and the other threads.  `overlap` and `short` are auxiliary, as is the
field `raced`: whether the destination was closed since the last look, before or
after the kernel had resolved its number.

## 3. Runs

| Run | Bounds | Shows | Distinct states |
|---|---|---|---|
| `MCEpoll` | 2 threads, 2 objects, 2 descriptors, 1 file that dups keep open, masks IN and ONESHOT, `#add` `#del` `#set` `#wait` | `TypeOK`, `CacheCoherent`, `SetMeansWatched` | 1.8 million |
| `MCEpollShared` | 2 threads, 2 objects, 1 descriptor, 2 files, aliases and reopens | `WatchedLive`, `InFlightCovered` | 929 thousand |
| `MCEpollLive` | 2 threads, 2 objects, 1 descriptor, 2 files, masks IN and ONESHOT, aliases and reopens, the five calls that change the list; fair | `CallsEnd` | 256 thousand |
| `MCEpollFork` | 3 processes in any relation, 2 objects, failing `Epoll::IO.new` | `TypeOK`, `Isolated`, `MarksMatch`, `UsedStaysOpen`, `DescriptorBound` | 343 thousand |
| `MCTlsBuffer` | 2 threads, 4 buffers, 3 calls, 2 sizes, all callers, failures | `TypeOK`, `Exclusive`, `Assertions`, `KeySafe`, `NoLeak`, `ImplementsAllocator` | 19 thousand |
| `MCInotify` | 1 or 2 consumers, 3 events of 2 lengths, 1 kill, close; fair | `TypeOK`, `ExactlyOnce`, `ReadOrder`, `ImplementsQueue`, `ShortYielded` | 242 thousand |
| `MCEventFD` | 2 threads, MAX = 3, increments 0, 1, MAX, MAX + 1, 8 flag arguments, 12 settings of a timer and 2 calls of `settime`, 1 kill and close; fair | `TypeOK`, `Conserved`, `NonblockReturns`, `ModeKept`, `AsTold`, `NoLostWakeup` | 558 thousand |
| `MCWaitTimeout` | 14 ticks, 4 to a millisecond, 3 to a second; timeouts nil, 0 to 2 ms and nil, -1/3 to 2 s; fair | `DeadlineKept`, `AppliedOnce`, `NotEarly`, `ClosedEnds`, `WaitEnds` | 45 thousand |
| `MCKqueueFork` | 2 objects, 2 forks, 7 numbers, 1 file, 2 failing system calls, 3 change lists | `Attached`, `FilesSafe`, `NoLeak` | 714 thousand |
| `MCCopy` | 2 threads, 2 calls, 2 bytes, lengths 0 and 2, room for 2, an offset, all methods and builds, any number of signals and kills; fair | `Reported`, `Divided`, `FreshNumber`, `NonblockEnds` | 576 thousand |

The bounds are small because the interesting cases are: a hazard of Epoll needs
a thread that waits and one that changes things, one descriptor number that is
used twice, and two files where a number can change its file.  Of the two masks the
kernel disarms the ONESHOT one behind the cache's back, and with the other one `set`
meets a cached mask that is not the one it is given.  The rescues of `#set` need a
number whose file has changed: in `MCEpollLive` both run, on an object that was
aliased and on one that was reopened, and their second `epoll_ctl` succeeds or
fails.  In `MCEpoll`, where no number changes its file under the cache, they would
need a third object to be reached by way of a dup; there `CacheCoherent` and
`SetMeansWatched` cover them by the theorems only.  In `MCTlsBuffer`
one thread can have a cached buffer and two nested ones.  In `MCInotify` one
buffer holds two short events or none of the long ones, and cached buffers of
other calls hold up to five.  In `MCWaitTimeout` a wait starts at every place of
a millisecond and of a second, and timeouts end in the same second, in the next
and exactly between two; `MaxClock` leaves room for two waits in a row, and no
wait begins that could not end within it.  In `MCEpollFork`
a process is created by the first one or by another child, so there are siblings
and grandchildren.  In `MCInotify` a single consumer meets every order of
lengths, and a killed one, whose batch may be dropped, is followed by another
`#take`.  `MCKqueueFork`
needs two forks for a grandchild, seven numbers for two objects, their dups, a
file and one number to spare, and two failures for a re-initialization that
fails, is tried again and fails in another place.  In `MCCopy` two calls suffice
to overlap and two bytes for a partial copy; signals and kills are not bounded.  An
Integer destination is used with nonblocking sockets and by `splice` from a file
(`MCConf`), an IO elsewhere; the theorems have every combination.  `MaxGen`, `MaxIo`,
`MaxNum`, `MaxFiles`, `MaxFails`, `MaxCalls`, `MaxSets`, `MaxKills`, `MaxEvent` and `MaxClock` are bounds of the
models and not of the code.

The constraint `Protected` of `MCKqueueFork` stops where `Protected` is false:
the properties have it as their premise, and a state beyond is never followed by
one where it holds again.

`TypeOK` of `WaitTimeout`, `KqueueFork` and `Copy` documents the shape of the
state and is not among the properties of a run; for `WaitTimeout` and `Copy` it is
a theorem (section 5).

Deadlock is checked in `MCKqueueFork`, whose application can always make a call.  The other systems may
stop, when every thread is idle and the bounded supply of objects, processes,
events or calls is used up.

Two runs are expected to find a violation, each with its entry in `findings`:

| Run | Property | What happens |
|---|---|---|
| `MCEpollForkUsable` | `UsableAfterFork` | in a child, using one object closes its copies for good |
| `MCInotifyLong` | `EachYields` | the resized buffer is followed by an unconditional raise |

### Limits of what holds

The assumptions of the passing runs and of the theorems are needed.  TLC shows
it when a run's configuration is changed as follows.

- `MCEpollShared` with `UserOps = {"dup"}`, one thread, three objects and two
  descriptors: `WatchedLive` fails.  An io closed while a dup keeps its file
  open stays in the interest list; the next io that is added on the number takes
  its entry in `@marks`, and the kernel keeps the VALUE of a collected object.
- `MCEpollLive`, whose application reopens, with the invariant `CacheCoherent` or the
  property `SetMeansWatched`: both fail.  `IO#reopen` ends the watch, and the cache still has
  the object and mask: `set` returns 0 at once and nothing is watched.
- `InFlightCovered` without its last disjunct fails in `MCEpollShared`: an io
  registered after the snapshot (which `wait` invites: "We release mtx so another
  thread may add events to us while we're sleeping"), then deleted and dropped
  between the return of `epoll_wait(2)` and the yield, is in no snapshot.
- `MarksMatch` and `UsedStaysOpen` without the premise `FirstFork` (no ancestor
  has re-initialized) fail in `MCEpollFork`, in a grandchild: `@copies` of a child
  holds dups of its new `@io` and not that `@io`, so an object and its copy end on
  two epoll instances and share one `@marks`.  For the same reason `close` in a
  child leaves a descriptor of the instance open in `@copies`; `DescriptorBound`
  says that there are never more than two for an object.
- `FilesSafe` without `Protected` and the constraint fails in `MCKqueueFork`, in
  two ways.  The `@io` of a re-initialization is not in `@copies` either, so in a
  grandchild it is never disowned and its finalizer closes the number.  And `close`
  does not check for a fork: in a child it closes the number of the parent's
  kqueue, whatever has it by then.
- `NoLeak` of `KqueueFork` with `orphans = {}` in place of its last conjunct fails in
  two ways.  When a second object of the family is re-initialized in the same child,
  `autoclose` is turned off for the duplicates that the first one stored, and nobody
  closes them.  And when `dup(2)` fails half-way (kqueue.rb 44) and the same object is
  tried again, the same happens to the duplicates of its first try.
- `Conserved` without `lost` and `untold` fails in `MCEventFD`: `#value` that is killed
  when its `read(2)` has returned, or meets a close, has taken the count, and no caller
  ever gets it; `#incr` has added its amount and raises.  `Conserved` says that this
  needs a kill or a close.
- `Divided` without `overlap` fails in `MCCopy`: the build of `sendfile` for BSD
  reads the position, sends and moves the position in three system calls, and two
  threads send the same bytes.  Without `short` it fails as well: what a short
  `write(2)` of the emulation does not take has left the source.
- `FreshNumber` says what is left of a race: when the destination is closed
  between the look at its number and the system call, the bytes go to whatever
  has the number by then, and the source is consumed and the count returned as ever.
  An Integer is checked by no look (util.c 121): it may lead to another file at any
  time.
- `Reported` without `c.len = 0` fails in `MCCopy`: `splice` and `tee` of no bytes
  return nil, or raise EOFError, on a source that has not ended (splice.c 55, 96);
  the other calls return 0.  To BSD's `sendfile` a length of 0 is no limit.
- `Reported` says nothing of a call that is killed (tag `killed`): `Thread#kill`,
  `Thread#raise` or a trap handler that raises, where the blocking region ends, takes
  away the count of bytes that were copied.
- `NonblockEnds` without its premise on signals fails in `MCCopy`: `splice`, `tee` and
  `copy_file_range` start again at each EINTR, without a bound.
- `KeySafe` without `failed` fails, as `rb_sp_gettlsbuf` frees the cached buffer
  before it allocates the next one, and NoMemoryError can be rescued.  `NoLeak`
  without `kept` fails: `take` passes its ensure function the buffer as it was
  before `do_take` ran, NULL.
- `MCWaitTimeout` with the single timespec `[sec |-> 1, nsec |-> 2]` and the
  invariant `call.res # "EINVAL"`: it fails.  `do_kevent` carries a sum of
  nanoseconds only when it exceeds 10^9; with a sum of exactly 10^9, a timeout of
  a second or more and an interruption in the first nanosecond of a second, the
  time that remains is `{0, 10^9}` and `kevent(2)` refuses it.
- A `kevent` that is interrupted and gets the GVL back after its deadline returns
  0 without another look at the queue; `epoll_wait` looks again.  Either way
  events stay in the kernel for the next call.
- With several consumers of an Inotify object a thread may sleep in `read(2)`
  while another one has just buffered events; they wait for the next `#take`.

Where the code and its documentation differ in what a method accepts or returns,
which no property here is about:

- a nonblocking `EventFD#incr` that would overflow returns `false` (eventfd.c 93),
  where the documentation says `nil`;
- `unpack_event` of kqueue.c goes on from its case for arrays to the TypeError
  (313-316), so a change list with an array in it is refused as a whole, although
  the message (297-298) and `ev_set_ary` provide for arrays; `kevent` in
  `KqueueFork` follows the code;
- `Epoll#set` is documented to take arrays of symbols (epoll.rb 152) and hands
  them to `epoll_ctl` unconverted, which raises TypeError.

## 4. Fairness

- `Epoll!FairSpec` has strong fairness for the steps of each call: Ruby's timer
  thread gives every runnable thread a time slice, and a Ruby `Mutex` wakes its
  waiters first in, first out, so a waiter is not overtaken for ever.  Weak
  fairness would not do, as the mutex is taken and released again and again.
- `Inotify!FairSpec` has weak fairness for each step of a thread, and for the
  next `#take` of `#each`, an endless loop.  `EventFD!FairSpec` has weak fairness
  for the steps of a call in progress, among them the IOError that `IO#close`
  raises in every thread that uses the descriptor.  The kernel wakes sleepers and
  Ruby runs the awakened.  `WaitTimeout!FairSpec` has weak fairness for the clock,
  for the kernel's answer to a sleeper who has an event or whose timer ended, and
  for a thread that is back from the kernel.  Nothing is assumed of the application, of signals,
  kills, or of new events, nor of a timer's expirations.
- `Copy!FairSpec` has weak fairness for the steps of a call in progress, other than
  errors, kills and interrupts.  Its peers owe nothing: they may never feed the source
  or drain the destination, and the one liveness property is about calls that ask not
  to wait.  `NonblockEnds` assumes, as a premise of its own, that each call is
  interrupted finitely often: the EINTR loops of splice.c and cfr.c have no bound, and
  nothing in the code makes signals stop.

## 5. Proofs

All theorems hold for every value of the constants that satisfies `ConstantsOK`.

- `EpollProofs!TypeCorrect`: `TypeOK`.  It needs `CallTyped`, which relates the
  fields of a call to its position (a call that commits has an object, a
  descriptor, a command and, but for deletions, a mask).
- `EpollProofs!InterestListGcSafe`, `EventsGcSafe` (assumption `NoDup`: the
  application does not duplicate descriptors; without it the first is false, see
  section 3).  The invariant `GcInv` has two parts.  `LiveInv` says that
  the mutex is held by exactly the call between its first `epoll_ctl` and its
  `Commit`, and that everything reachable or open is live.  `CoverInv` says why
  what the kernel names is reachable: a file has one descriptor (`FileInv`); a
  watched object is marked under its descriptor, or a call is about to mark it
  (`Marked`); while a thread sleeps, everything watched is in its snapshot or
  late (`SleepCovered`), and so is everything it has copied out (`ReadyCovered`).
  `WatchedLive` alone is not inductive: it says nothing of what keeps an object
  alive at the moment the application drops it.
- `EpollProofs!CacheIsCoherent`, `SetIsEffective` (assumption `Private`: no
  aliases and no reopens; dups are allowed; with reopens both are false, see
  section 3).  `CacheInv` adds that a descriptor belongs to one object
  (`OwnerInv`), that the entry of an open marked object agrees with the kernel
  unless a call is committing to it (`EntryCoherent`), what the kernel has while
  a call is committing (`CommitCoherent`), and that only ONESHOT watches are ever
  disarmed (`ArmedInv`).
- `EpollForkProofs!TypeCorrect`, and `ForkSafe`: `Isolated`.  `ForkInv` says that
  an open object whose `@pid` is the process's own refers to an instance of that
  process, and that a pid in memory is that of a started process, so that a new
  child is never mistaken for one that has been checked.
- `EpollForkProofs!UsedObjectsOpen` (`UsedStaysOpen`), `MarksDescribe`
  (`MarksMatch`) and `DescriptorsBounded` (`DescriptorBound`).  `LineInv` describes
  the line of descent that ends in a process: its objects are those of processes
  that were started, and it owns none before it re-initializes (`Owned`); as long
  as nobody in the line has, every open object is in `@copies` (`Listed`), so the
  first re-initialization closes them all; and if it alone has, the objects it uses
  are on one instance, whose interest list is `@marks` (`Family`).  `CopyInv` says that `@copies` has one
  entry for an object, from which the bound of two descriptors follows by counting.
- `TlsBufferProofs!BuffersExclusive`, `AssertionsHold` (failures included),
  `KeysValid` (`KeySafe`), `OnlyKeptLeaks` (`NoLeak`), and `WaitLeaksNothing`
  (assumption: `epoll_wait` is the only caller; then nothing is ever kept).  The
  invariant is stated for a heap and a set of calls, since
  `resize_internal_buffer` gives its buffer back and gets another one in one
  step.
- `TlsBufferProofs!TypeCorrect`: `TypeOK`; and `ImplementsAllocatorSpec`:
  `ImplementsAllocator`.  The mapping takes a call to its buffer and its buffer's
  capacity.  A step that begins a call is an `Acquire`: the buffer `rb_sp_gettlsbuf`
  returns is new or the idle cached one, in both cases nobody's by `Exclusive`, and
  it is as large as asked for.  A step that ends one is a `Release`.  All others
  leave the mapped state alone, which needs that only idle or unused buffers are
  freed, resized or marked.
- `InotifyProofs!TypeCorrect`, `EventsOnce` (`ExactlyOnce`), `ReadsInOrder`
  (`ReadOrder`) and `QueueImplemented` (`ImplementsQueue`), for any number of
  threads, events and sizes.  `TypeInv` adds to the types that the kernel's queue
  holds the youngest events in their order (`QueueOK`) and that a call carries
  events only between its `read(2)` and their delivery (`Carries`).  `Once` says that
  the events that have left the queue are divided among `@inotify_tmp`, the batches,
  what was delivered and what was lost; `Reads` says that the read whose events a
  thread carries has its events nowhere else, and that the events of one read keep
  their order from what was delivered to `@inotify_tmp`.  In the refinement a
  `read(2)`, a resize and a wait are stutters, the delivery of an event is a `Take` of
  `EventQueue`, and a kill that loses a batch is a `Drop`.
- `EventFDProofs!TypeCorrect`: `TypeOK`, for both classes; and
  `NonblockingCallsReturn`: `NonblockReturns`.  A nonblocking call has set
  O_NONBLOCK, nothing clears the flag, and only a call that met EAGAIN without it
  waits.  `ModeIsKept` (`ModeKept`) and `TimerAsTold` (`AsTold`) are inductive
  together with the types; the second one rests on what `value2timespec` makes of
  every number of grains.
- `EventFDProofs!CountConserved`: `Conserved`.  The sum of what calls in flight
  have moved changes by what one call moves (`FoldUpdate`): a fold over a finite set
  is taken apart element by element, by an induction on the set's size in the form of
  sets (`SetInduction`), which goes through the least number that is not in the set.  `ReportInv`
  says when a call in progress has moved something.  Each step moves the same amount
  between two of the counter, the calls in flight, `owed`, `lost` and `untold`
  (`Balance`, `Counted`), and the last two only by a kill or after a close (`Spared`).
- `WaitTimeoutProofs!TypeCorrect`, `DeadlinesKept` (`DeadlineKept`), `ChangesOnce`
  (`AppliedOnce`), and the action properties `NeverEarly` (`NotEarly`) and
  `ClosedWaitsEnd` (`ClosedEnds`), for any clock and any number of ticks to a
  millisecond and a second.  `TimeInv` relates `expire_at` to the deadline: of an
  `epoll_wait` it is the deadline rounded once to a millisecond (`EpollCall`), of a
  `kevent` the deadline exactly, if not in the usual form (`KeventCall`).  From it
  follow when the kernel's timer ends (`TimerSet`) and that a call that comes back
  empty-handed has waited (`Waited`), whatever interrupted it.
- `CopyProofs!TypeCorrect`, `CallsReport` (`Reported`), `NumbersAreFresh`
  (`FreshNumber`) and `SourceIsDivided` (`Divided`).  `CopyInv` has a part for each
  call (what it has written so far, where a close since the last look found it, and
  that BSD's position is never before where a call in progress reads, so that a call
  that found nothing there was at the end) and one for the source, which depends on the build: with Linux's system calls every
  byte before the position was written once; with the emulation each byte that was
  read is written or in the hands of exactly one call (`InHand`); with BSD's, while
  no calls overlap, the one call in progress is ahead of the position by what it has
  sent (`Ahead`).
- `KqueueForkProofs!ObjectsAttached` (`Attached`), `FilesStayOpen` (`FilesSafe`) and
  `NoDescriptorLeaks` (`NoLeak`), for any number of objects, generations,
  descriptors, failures and change lists.  `KqInv` holds while the process is
  `Protected`.  Before the first `__kq_check` of a child (`InheritedInv`) nothing
  was used in it, there is no kqueue, and each `Kqueue::IO` that would close its
  number is in `@copies`: this is why the first `Disown` reaches them all.  After it
  (`OwnInv`), the `Kqueue::IO` objects that are used or would close their numbers
  have different numbers, all of them of kqueues: this is why a finalizer closes
  nobody's file.  None of the three properties is inductive without this
  distinction.  The memory lemmas (`DisownKeeps`, `SettledKeeps`, `AcquireKeeps`,
  `ReleaseKeeps`) are about one memory and another; the methods are made of them, so
  that a re-initialization that fails after any number of duplicates is covered by
  the same lemma as one that succeeds.  That the lowest free number exists, and that
  a free number leaves a kqueue number unused, are proved by counting (`NthExists`,
  `NewQueueIs`).

What the proofs assume of the constants is in `ConstantsOK` of each module: sizes
and bounds are natural numbers, the distinguished values (`Nil`, `File`) are
different from the values they are distinguished from, and inputs have their types.

Only model-checked: all liveness (`CallsEnd`, `EachYields`, `ShortYielded`,
`NoLostWakeup`, `WaitEnds`, `NonblockEnds`), since fairness is out of the prover's
reach; and `UsableAfterFork` of `EpollFork`, which is false.  `TypeOK` of
`KqueueFork` is proved for a protected process only, as a part of `KqInv`
(`m \in Memory`).

## 6. Plan

1. Done: `Epoll`, `TlsBuffer`, `EpollFork`, `Inotify`, `EventFD` with TimerFD,
   `WaitTimeout`, `KqueueFork`, `Copy`, `Flags`, `Timespec`; the abstract
   specifications `Allocator` and `EventQueue` and their refinements; the proofs
   above.
2. Done: every invariant that a run checks, every action property and both
   refinements as theorems.
3. Next: what the theorems say without their premises, for example a bound for the
   descriptors that the retries of a Kqueue's re-initialization leave open, which of
   `Inotify`'s orders survive several consumers, and kills between an `epoll_ctl` and
   the cache.

## 7. What is not modelled

- A `#wait` nested in the block of another one in `Epoll` (the nesting of buffers
  is in `TlsBuffer`), and a failing `@io.dup` in `EpollFork`.
- A `Thread#kill` or `Thread#raise` that arrives in Ruby code between a system call
  and what records it, such as `epoll_ctl` and the assignments to `@marks` and
  `@events` (epoll.rb 82-84): Ruby may stop a thread between any two of its
  instructions, and the cache is then behind the kernel.  Kills where the C code waits
  or returns are modelled in `Inotify`, `EventFD` and `Copy`.
- The flag ABSTIME of `TimerFD#settime` (timerfd.c 67): whether a time is from now or
  from the clock's origin does not change what is told, nor when a count is discarded.
- Reads without effect: `TimerFD#gettime` with `timespec2num`, and `Event#events`.
- What `udata` of a Kevent refers to: the application keeps that object alive ("Users
  are responsible for ensuring +udata+ objects remain visible", kqueue.rb 51).
- In `Copy`, offsets of the destination, which only tell the kernel where to write,
  and a close of the source, which is looked up like the destination.
- The class of an exception (among them the NoMethodError at epoll.rb 72), warnings,
  and the values methods return, except for the counts of `EventFD` and `Copy` and
  the events of `Inotify`.
- The entry points (`sleepy_penguin.rb`, `sp.rb`) and the functions that define
  classes and constants, the `missing_*.h` shims, the unused
  `signalfd/sig_info.rb`, and build and packaging files (`extconf.rb`, `setup.rb`,
  makefiles, gemspec): no state or not part of the running program.
