# A TLA+ model of the reactor under `src/server/src/muduo`

The repository is a C++ rewrite of the core of muduo: an event loop per thread
(`net/`), and the threads, mutexes, calendars and log streams that it stands on
(`base/`).  The loop is the program's own logic, and it is concurrent: other
threads hand it functors, timers and `quit()` while it sleeps in `poll(2)` or
`epoll_wait(2)`, and the callbacks that it makes change the very tables that it
walks.  This directory holds TLA+ modules for those parts, TLC configurations
that check them on small instances, and proofs, checked by TLAPS, of what holds
for every instance.

The code is modelled as `server/src/CMakeLists.txt` builds it on Linux: the
`__linux__` branches, with assertions compiled in.  A failed assertion ends the
program, and the models say so where one could fail.

## 1. Inventory

| Part | State it keeps | Operations | Talks to | Hard because |
|---|---|---|---|---|
| `EventLoop` | `looping_`, `quit_`, `eventHandling_`, `callingPendingFunctors_`, `pendingFunctors_` (under `mutex_`), the eventfd, `activeChannels_` | `loop`, `quit`, `runInLoop`, `queueInLoop`, `wakeup`, `handleRead`, `doPendingFunctors` | every other part of `net/`; other threads | append and wakeup are two steps; `quit_` and the poll race; functors run without the lock |
| `TimerQueue`, `Timer`, `TimerId` | `timers_`, `activeTimers_`, `cancelingTimers_`, `callingExpiredTimers_`, the timerfd, heap addresses and sequence numbers | `addTimer`, `cancel`, `handleRead`, `getExpired`, `reset`, `insert` | the loop's functor queue, two clocks | raw pointers in two sets; a timer cancelled in its own callback; addresses used again; wall clock against monotonic clock |
| `EventLoopThread`, `Thread`, `CountDownLatch`, `MutexLock`, `Condition` | `loop_`, `exiting_`, `holder_`, the latch's count, `started_`, `joined_` | `startLoop`, `threadFunc`, the destructor, `start`, `join` | a loop on the stack of another thread | a pointer that is published, read without the lock, and cleared |
| `Poller` (interface) | `channels_` | `updateChannel`, `removeChannel`, `poll`, `hasChannel` | `Channel`, `EventLoop` | two implementations must keep the same promises |
| `PollPoller` | `pollfds_`, `index_` of each channel | same | `poll(2)` | removal swaps entries, and disabled entries carry negated descriptors |
| `EPollPoller` | the kernel's list, `index_` as a state, the size of `events_` | same | `epoll(7)` | the kernel keeps raw pointers; a fixed room for events |
| `Channel` | `events_`, `revents_`, `index_`, `tie_`, `eventHandling_`, `addedToLoop_` | `enable…`, `disable…`, `remove`, `tie`, `handleEvent` | `EventLoop`, its owner | callbacks remove and destroy channels, their own and others' |
| `Date` | one Julian day number | conversions | `TimeZone` | integer divisions at year and century ends |
| `TimeZone` | local times and transitions | `toLocalTime`, `fromLocalTime`, `toUtcTime`, `fromUtcTime`, `loadZoneFile` | `Logging`, zone files | skipped and repeated local times, negative times, files of two formats that may be cut off |
| `LogStream`, `FixedBuffer` | a buffer and a cursor | `append`, `operator<<`, `formatSI`, `formatIEC` | `Logging` | pieces that do not fit; texts that are rounded past the edge of their unit |
| `Logging` | level, output, flush, zone; one cached second for each thread | constructors, destructor, setters | `LogStream`, `TimeZone`, sinks that buffer | the cache outlives a change of the zone; a line may be in a buffer when the program aborts |
| `Timestamp`, `Condition::waitForSeconds` | – | `now`, comparisons | the wall clock | jumps of that clock |
| `SocketOps`, `Endian`, `Atomic`, `StringPiece`, `CurrentThread`, `Exception` | – | wrappers | – | no protocol |

What makes each part correct, in one sentence: the loop runs everything it
accepts, once, in order and soon; the timer queue runs every timer that is not
cancelled, and owns each of them once; the thread's loop is alive whenever it
is used; a poller watches exactly what its channels ask for; the dispatch never
touches a channel that is gone; the calendar is the Gregorian one and local
times are read with the right offset.  `PROJECT.json` lists the parts with
their modules, and the hazards, each at its line, with the properties that
would catch it.

## 2. Modules

```
FunctorQueue  <--implements--  EventLoop        EventLoopProofs
                                  |  (its FIFO, its fairness)
Timers        <--implements--  TimerQueue       TimerQueueProofs
                               EventLoopThread  EventLoopThreadProofs

Poller  <--implements--  PollPoller             PollPollerProofs
   ^    <--implements--  EPollPoller            EPollPollerProofs
   `---- INSTANCE in --  Reactor                ReactorProofs

Date      <--EXTENDS--  TimeZone                TimeZoneProofs
ZoneFile  <--EXTENDS--  TimeZone
Division  <--EXTENDS--  TimeZone, LogStream
LogStream <--EXTENDS--  Logging                 LoggingProofs
```

A module of proofs EXTENDS the module beside it, and nothing EXTENDS it.

The MC modules hold what TLC needs to make an instance (descriptors that two
channels share, a negative clock step, zones), and nothing else.  Definitions
marked `Mutant` are wrong versions of the definition that follows them: each
property of a passing run fails when one of them takes that definition's place,
which shows that the property depends on the code.

### `FunctorQueue` and `EventLoop`

`FunctorQueue` is the promise: a FIFO of functors, run one at a time while the
loop is open, each submission once.  `EventLoop` is the code: one action for
each step of `loop()` between two points at which another thread can see or
change something.  `pc` is where the owner thread stands; the variables are the
members of the same names.  `pendingFunctors_` is appended to by `QueueInLoop`
(another thread; the write to the eventfd is `Wakeup`, later) and
`OwnerQueueInLoop` (user code in the owner thread, which writes the eventfd
only while `callingPendingFunctors_`).  `Quit` and `OwnerQuit` are the two
branches of `quit()`.  `SwapFunctors` is the swap under `mutex_`.

Abstractions: the eventfd's counter is zero or not; the owner's append and
write are one step, since the only readers of either are the owner and a poll
it is not in; `runInLoop()` in the loop's own thread calls the functor in place
and changes nothing of the loop, so it is part of user code; the order of
channels within one dispatch is any; `iteration_` and `pollReturnTime_` are
only read by users.  `doPendingFunctors()` lowers `callingPendingFunctors_`
before it destroys its local vector: in `destroying` the destructors of what the
functors captured run, which are user code too.  `quiet` is history: the functors
that the owner queued before it entered `loop()`, or in such a destructor, for
which nobody writes the eventfd; they wait for the poll to time out, and the
liveness without the timeout leaves them out.

`FairSpec` assumes that the owner's thread is scheduled, user code returns, a
poll with a readable eventfd returns, and that a thread inside a call finishes
it.  It does **not** assume that polls time out: what the properties say of
wakeups is due to the wakeups.  Only the implementation of
`FunctorQueue!Attended`, which also covers `quiet` functors, adds `PollReturns`
(`kPollTimeMs` is 10 s).

### `Timers` and `TimerQueue`

`Timers` is the promise: timers are told apart by their sequence numbers, wait
until they are due, are called in the order of their times, batch by batch, and
wait again if they repeat and were not cancelled.  There are no addresses in it,
no second set and no timerfd, so that whatever `TimerQueue` does with those must
come to the same: the wrong timer found by its address, one lost when its
address is used again, one put back with the wrong time or after its cancel.
`asked` is what other threads handed over and the loop did not do yet, in its
order: a set with the timer to add, or the empty set for a cancel; `Accept` does
the oldest.  `Promise` in `TimerQueue` is the mapping: the sets of pointers become
sets of records (`Record`, `Entries`), the requests become `Asked`, `Stopped` are
the timers of the batch among `cancelingTimers`, and `readTime` is the time of the
batch.  A `cancel()` of a timer that is
still requested does nothing in `Timers` either: that is what the code does,
and section 5 says where a document disagrees.

`timers`, `activeTimers` and `cancelingTimers` are the three sets, as sets of
pairs; `heap` maps addresses to the `Timer` objects, and `new` may place one at
any free address, the one just freed included.  Sequence numbers come from
`s_numCreated_`.  `OwnerAddTimer` and `OwnerCancel` are calls from the loop's
thread; `AddTimer`, `ReturnTimerId` and `Cancel` are calls from others, which
append to `requests`; `RunRequest` runs the oldest of them in the loop.
`ReportTimerfd`, `HandleRead`, `RunTimer`, `EndTimer` and `Reset` are one batch,
in the order of `TimerQueue::handleRead()`; between `RunTimer` and `EndTimer`
the callback may add and cancel timers.  `now` is the wall clock, `timerfd`
counts ticks of the monotonic one, and `StepClock` moves the first without the
second.

Abstractions: `new Timer` and the append of the request are one step (nobody
else has the pointer in between); times are whole multiples of the shortest
delay (100 µs in the code); the timerfd channel is one bit, `reported`, of the
dispatch (what is not modelled is that the loop could handle other channels
between the report and `handleRead()`; what their callbacks do to timers is
done by the owner's calls while `reported`).

The functor queue is a FIFO because `EventLoop` implements `FunctorQueue`.
Fairness: time passes; a readable timerfd is polled and its batch is run;
`SF(RunRequest)` since every iteration runs its functors, which is
`SignalledFunctorsStart` of `EventLoop`.

### `EventLoopThread`

The owner's life (`startLoop()`, then the destructor) and the thread's
(`threadFunc()` with the loop it runs), with each `lock`, `wait`, `notify` and
`unlock` as steps of their own: `phase` says how far a thread is with the mutex
of the place where it stands, `holder` is the `holder_` of `MutexLock`, which
is assigned after `pthread_mutex_lock` and cleared before
`pthread_mutex_unlock`, and around a wait by `UnassignGuard`.  Condition
variables may wake a waiter spuriously.  The latch of `Thread::start()` and
`mutex_` are the two mutexes.  `selfQuit` is history: user code has called
`quit()` on the loop; several promises do not hold after that, see section 5.

`aborted` ends the program: `CreateFails` is `LOG_SYSFATAL` after a
`pthread_create()` that failed; `Throw` is an exception of `callback_` or of
user code in the loop, which unwinds the thread's stack with the `EventLoop` on
it, and `Crash` is the handler of `runInThread()`.  Between the two `loop_`
points to a loop that is gone; the properties exempt that moment.
`callback_` may call `quit()`, which `loop()` forgets.

Abstractions: the loop is reduced to `quit_` and its eventfd (what it does with
them is `EventLoop`); `exiting_` is written and never read; a thread that is
not joined is detached and then of no concern to the object.

### `Poller`, `PollPoller`, `EPollPoller`

`Poller` is what the loop and the channels may rely on: after
`updateChannel()` the channel is a member and what it asks for is watched; only
a channel that asks for nothing is removed; `poll()` reports only watched
channels, each with events that it asked for or that the system always reports;
the system may stop to watch a channel whose descriptor was closed (`Lose`).

`PollPoller` is the array with its swaps and its negated descriptors, with the
indices counted from 0 as in the code; `EPollPoller` is the kernel's interest
list, the three values of `index_`, and the doubling of `events_`.  Both fold
the assertions of the code into `aborted`, `EPollPoller` also an `epoll_ctl()`
that the kernel refuses with `LOG_SYSFATAL`.  Descriptors are closed and given
out again: two channels share one, over time.  In `EPollPoller` a descriptor may
be closed (`Close`) while its channel is in the poller and even enabled; the
kernel then drops it from its list, of which nobody tells `index_`.
`pollfd::revents` only lives within one `poll()` and is part of that action.

The clients of the models use one channel for a descriptor at a time, and give
its number out again when that channel was removed.  Once they have closed the
descriptor they only disable the channel and remove it: any other update would be
refused by the kernel.  Those of `PollPoller` do not bring a removed channel back
unless `EnablesRemoved` (`Poller.h` says that a channel is removed when it
destructs, and `PollPoller` does not reset `index_`); those of `EPollPoller`
may.

### `Reactor`

The dispatch of `EventLoop::loop()` over any poller that keeps the promises of
`Poller`.  `UserStep` is what callbacks and functors do, in any order, to any
channel: `Construct`, `Update`, `Remove` and `Destroy` of channels, and `Make`,
`Share` and `Release` of objects that the program holds by `shared_ptr` and that
channels are members of.  `Tie` is `Channel::tie()`: before the channel is used,
in its own callback, or instead of an earlier tie, to the object it is a member
of or to another.  `HandleEvent`, `BeginCallback`, `EndCallback` and `EndEvent` are
`Channel::handleEvent()`, which calls up to four callbacks in a fixed order, the
close and the read callback of one event included (`POLLHUP` with `POLLPRI`).
`guard` is its local `shared_ptr`, taken from the tie as it is when the event comes
(a channel whose tie has expired is not handled) and dropped at the end, when
`eventHandling_` is already cleared; that may be the last reference, with which the
object and its channels are destroyed.  `OtherThread` lets go of an object at any
time.  `tiedTo` is history: what the channel was tied to at the start, whatever
`tie()` says since.  The assertions of `EventLoop::removeChannel()` and `~Channel()`
stop the program when a client breaks the rules: the properties say that they are
enough.

Abstractions: a destructor of such an object destroys the channels that are its
members and does nothing else; the other threads do not destroy channels of this
loop, which are not theirs to destroy, so they drop the last reference only of
an object without channels, or one that `handleEvent()` still holds.

### `Date`, `ZoneFile` and `TimeZone`

The two conversions of `Date.cpp` as they are written, and beside them the
calendar itself (`NextDay`).  `TimeZone` walks over consecutive seconds, in UTC
and in zones with transitions.  The second of the day stands for hour, minute
and second (`fillHMS` is a plain division), and a day has as few seconds as the
instance wants.  Divisions round towards zero as in C++ (`Quotient`,
`Remainder` of `Division`).

`ZoneFile` is the reader: from a sequence of bytes to a zone, or to none.  It
follows `readTimeZoneFile()` and `readDataBlock()`, with every read that may run
off the end, the seeks that may not fail, the arithmetic that skips the first
block, and the counters that are refused, by a test or, the negative ones, by
`reserve()`.  A byte has `Radix` values.  The files
of the instance are made by `MCTimeZone` as RFC 8536 lays them out, and not by
an inverse of the reader.  `NoZone` is a `TimeZone` that is not `valid()`, which is
not the same as one without local times.  `LoadZoneFile` is the constructor of `TimeZone`;
`Tick` then asks for one second after the other.

In `findLocalTime()` the first transition has no transition
before it; the variable `prior_second` keeps the value of the transition after
it there, and both branches then return the first transition's local time:
`Repeats` says so by requiring `k > 1`.  `WellFormed` is what is asked of a zone:
sequences of numbers, and transitions that are further apart than any two offsets.

### `LogStream` and `Logging`

`LogStream` is a cursor and the pieces that were written.  A text, a double or an
`Fmt` counts by its length; integers and pointers are converted as `convert()` and
`convertHex()` do it, with the remainders of C++ and the table of nineteen
digits that also serves the negative ones.  `append()` keeps one place free and
drops what does not fit; a number asks for room for the longest
(`NumberAssumption` is what the static assertions of `staticCheck()` say).

`formatSI()` and `formatIEC()` are chains of `if`s: `Steps` are the three cases
of each unit, with the bounds that the code writes as 9.995, 99.95 and 999.5 of
it (1023.5 for a unit of 1024), and of the last unit one (`%.2fE`) or two
(`%.2fEi` and `%.1fEi`).  What is printed is rounded three times, and each
rounding may go either way within its error: the integer to a double (`ToDouble`), the
quotient (`QuotientError`), and the text (`Printed`).  A double is known by its
`precision`, the number up to which it holds every integer; the relative error of
a rounding to it is at most 1 in `precision + 1`.  Units and precisions are
constants: the code has six of each kind of unit and 2^53; the run has the first
two, and the precisions 2^13 and 2^20, so that integers on both sides of them are
within TLC's reach.  The theorems are for any number of units and any such
precision from 2^11 (`UnitAssumption`, `QuantityAssumption`).

`Logging` is the life of the lines of one thread: `Construct` (with
`formatTime()`), `Stream`, `Finish` and `Output` (the two halves of the
destructor).  `t_time` and `t_lastSecond` are of that thread only; `SetClock`
and `SetTimeZone` come from elsewhere.  `setTimeZone()` takes no lock: the
model, like a correct program, does not call it while a constructor runs.
`Enabled` is the test in front of `LOG_TRACE`, `LOG_DEBUG` and `LOG_INFO`; the
other levels have none.  `SetOutput` and `SetFlush` each name a sink, and
`unflushed` are the sinks that hold a line in their buffer: `SinkEmpties` is the
C library, which may write it at any time.  A fatal line is output, `g_flush` is
called, and the program aborts.

Abstractions: the text of a time is the pair of the second and the zone that it
was made from; the texts of the header have lengths that are parameters; the
pieces are those of the last statement.  `ruled` is history: the zones that were
in force in each second.  A `program` is what the lines may be made of: the
instance has three of them (`Filling`, `Moving`, `Failing`), so that the contents
of lines, the clock with the zone, and the sinks with the levels are not all
varied at once.

## 3. Runs

| Run | Instance | Shows | Distinct states |
|---|---|---|---|
| `EventLoop` | 2 callers, 3 submissions in flight, 2 user channels | no lost wakeup, no lost `quit()`; liveness by the wakeups alone; the FIFO is implemented | 19,000 |
| `TimerQueue` | 1 other thread, 2 timers on 2 addresses, one-shot and repeating, an invalid time and one to come, a wall clock set back | the two sets agree, one owner for each timer, cancelled timers stay gone, the timerfd is armed and early enough, ids are not confused, `Timers` is implemented, every timer is run or cancelled | 625,000 |
| `EventLoopThread` | one owner, one thread | the loop is alive when used, members outlive the thread, nobody waits for ever, also if a thread cannot be created or throws | 417 |
| `PollPoller` | 4 channels on 3 descriptors | indices and array agree, no assertion fails, `Poller` is implemented | 195,000 |
| `EPollPoller` | 3 channels on 2 descriptors, which are closed early and late, room for one event at first | the kernel's list agrees, nothing is refused, `Poller` is implemented, nobody starves | 151,000 |
| `Reactor` | 3 channels, one a member of one of 2 objects, which it may be tied to, two on one descriptor; another thread that lets go of objects | no dangling pointer, ties protect | 1.9 million |
| `TimeZone` | every day of 1900–2500; 950 zones of up to 4 transitions, read from files; the files of a few of them in all formats, cut off anywhere | the calendar, the zones of files, and the rules for local times | 547,000 |
| `Logging` | a buffer of 24, numbers of a signed byte, quantities at every edge of two units, any number of pieces to a line; three seconds, two zones; two sinks, all levels | the cursor stays inside, numbers read back, quantities are short and close, a kept time is the line's own | 2.3 million |

The other four runs end in a counterexample: section 5.

Why these bounds are enough.  *EventLoop*: two callers are needed for a wakeup
that one owes while the other's was consumed; three submissions for one in
each of `functors`, `pendingFunctors` and a caller.  The safety theorems hold
for any number.  *TimerQueue*: an address is used again when the first timer was
freed before the second is made, and a timer can be waiting, in the batch or
requested while another is in any of these; two addresses let both be alive.
`MaxTime` lets a repeating timer run, be reset, and run again, also after the clock
was set back.  Liveness is checked on the same instance, which keeps it to two
timers; the theorems on its safety hold for any number of them.  *PollPoller*: a swap on
removal needs three entries (the gap, the last, one that stays), and one
channel more for the descriptor that comes back.  *EPollPoller*: two
descriptors and room for one event is the smallest starvation.  *Reactor*: a
channel that is handled, one that waits for its turn, and one more that takes
over the descriptor of a destroyed one; two objects, so that a channel can be tied
to its own, to another, and to one after the other.  *TimeZone*: `findLocalTime()` looks at
three neighbouring transitions, so that four of them have a first, a last and
two in between; offsets go up, down and stay; the gaps are just above the
differences of the offsets, as `WellFormed` requires.  A byte of three bits has
a sign and lets a time be too large for four bytes; the files have slim and full
first blocks, with and without indicators, leap seconds and negative counters, in
versions 1, 2 and 3.  *Logging*: the pieces run from an almost empty buffer to one where nothing
fits any more, and to every rest of it between; two seconds are enough to go
back from the one to the other with the zone changed in between.  The
quantities are the last integer of each step and the first of the next, for
which the roundings matter, and a few others.

Deadlock is checked except where the program may really stop: the
`EventLoopThread` whose object is gone, a `Reactor` that an assertion has
stopped, a `Logging` that a fatal line has ended, and the walk of `TimeZone`.

Properties that say more than their name:

- `NoLostWakeup`: a loop in its poll with functors waiting has a wakeup on its
  way, wherever the append fell relative to the poll, the read of the eventfd,
  and the swap.
- `QuitIsHonoured`: also when functors keep queueing functors, because
  `doPendingFunctors()` runs what it swapped out and no more.
- `TimerfdInTime`: after any operation the timerfd fires no later than the
  earliest timer, up to the shortest delay, unless the wall clock is set forward.
- `TimersRun`: every timer that is added, from whichever thread, is run or
  cancelled, unless the wall clock is set back again and again.
- `OnlyItsOwnCancelRemoves`: an old `TimerId` whose address is in use again
  does not cancel the new timer.
- `MembersOutliveThread`: the mutexes are destroyed when nobody has them.
- `ImplementsTimers`: a queue whose timers have no address does all that the
  code does: no timer is lost, doubled, moved to another time or called out of
  turn by what the code does with its pointers.
- `KernelAgrees`: the kernel holds no pointer to a channel that was removed,
  not even after two `disableAll()` in a row, which put it back on the list, or
  when its descriptor was closed first and its number is in use again.
- `NoStarvation`: with more descriptors ready than `events_` has room for, each
  is reported in the end, although the kernel may choose the ones it reports.
- `NoDanglingPointer`, `PendingStayInPoller`: whatever callbacks do.
- `UtcTimesFollowCalendar`: from one second to the next `toUtcTime()` steps as
  the calendar does, through all ends of months, years and centuries, and
  `fromUtcTime()` takes it back.
- `TimeIsOfItsSecond`: the text that a thread keeps is never that of another
  second, nor of a zone that was not in force in it, although nobody tells the
  thread of a new zone.
- `LoadedAsWritten`: a whole file gives the zone that it was made from,
  whichever block the code reads; a file that ends early, anywhere, gives that
  zone or none.
- `QuantitiesAreShortAndClose`: at no edge of a unit does the rounded text of
  `formatIEC()` get longer than its header says, beyond 2^53 or not; up to 2^53
  that of `formatSI()` does not either, and both are off by half of their last
  place at most.  Beyond, `formatSI()` breaks its promise: section 5.
- `TieProtectsOwner`: what a channel was tied to when its event came, and the
  channel that is its member, outlive all its callbacks: whoever drops the last
  reference meanwhile, here or in another thread, and whatever the callbacks tie
  the channel to.
- `LocalTimesInvert`: a local time that some clock showed is taken back to an
  instant at which it was shown, at any transition and for both values of
  `postTransition`.

## 4. Proofs

TLAPS proves what follows for every value of the constants that satisfies the
assumptions named in the modules: any number of threads, timers, channels,
descriptors and transitions, any times, any size of a buffer.  Each of the
invariants below was first checked by TLC on the instances of section 3.

`EventLoopProofs` (from `WakeupAssumption`: the wakeup channel is none of the
user's): `TypeCorrect`, `NoWakeupIsLost`, `NoQuitIsLost`, and `Refinement`
(`Spec => Executor!SafeSpec`).  `NoLostWakeup` is not inductive: it speaks of
the poll only, but whether a wakeup is owed there is decided by what happened
since the last swap.  `Covered` extends it to every place from which the poll
is reached without a swap, and to `running` and `functor`, after the swap; in
`dispatch` and `callback` nothing has to hold, because the swap is still ahead.
For that the owner's own `queueInLoop()` must wake the loop exactly there,
which `FlagsFollowPc` gives: `callingPendingFunctors_` is set just in
`swapping`, `running` and `functor`.  The refinement maps the queue to
`functors \o pendingFunctors`: the swap leaves it as it is, `BeginFunctor` takes
its head.

`TimerQueueProofs` (from `TimerAssumption`): `TypeCorrect`, `TimerfdIsArmed`,
`TimerfdIsInTime`, `TheTwoSetsAgree`, `OneOwnerForEachTimer`,
`CancelledTimersStayGone` and `NoTimerIsCancelledForAnother`.  The invariant has
two parts.  `QueueInv` says which places a timer can be in, and that they are
disjoint, that the keys of the sets are the timers' own expirations and sequence
numbers, and that sequence numbers are unique: without uniqueness an old id could
name a new timer, without disjointness a timer could be deleted twice.
`CancelInv` says that a cancelled id is never active again; it needs that an id
that is known to a client was created (`Known`), that a queued request adds its
own timer, and that a timer of the running batch that was cancelled is in
`cancelingTimers_`, so that `reset()` does not put it back.  `ArmedInv` and
`InTimeInv` are separate: they depend on `howMuchTimeFromNow()` never being zero
and growing with the time.  Both cover a timer with the invalid expiration 0 while
the batch runs: `reset()` does not arm the timerfd for it, so that its own
`insert()` must have.  `TimerfdIsInTime` has the hypothesis that the wall clock is
never set forward (`\A d \in ClockSteps : d <= 0`), as in the run: forward the claim
is false, since the timerfd does not learn of it.

The last part of `TimerQueueProofs`: `PromiseIsKept`, that `TimerQueue` implements
`Timers`.  The
refinement mapping forgets addresses, so that the step simulation needs that no
two timers that are alive have one number (`Distinct`; `QueueInv` gives the
uniqueness of pairs) and that `readTime` is set just during a batch (`Reading`).
`MappingFacts` and `AskedFacts` restate the mapping timer by timer and request by
request; then each action of the code is shown to be the action of `Timers` that
it stands for, or to change nothing there: `RunRequest` is `Accept`, `HandleRead`
is `Take`, `Reset` is `PutBack`.  The hard case is a cancel whose address was used
again: `Found` finds nothing, and `Cancel` of a number that waits nowhere does
nothing either.

`EventLoopThreadProofs`: `HolderIsRight`, `StartedLoopLives`, `QuitLoopLives`,
`MembersLast` and `NobodySleepsThroughNotify`.  The module has no constants and
finitely many states, so that TLC has visited all of them; the proofs say why
nothing goes wrong in them, for any order of the two threads and any number of
spurious wakeups.  None of the four properties is inductive.  `MonitorInv` says of
each thread what its place and phase mean for the mutex: whether it has it, is its
holder, or sleeps on its condition.  That alone gives `HolderHasMutex`.  The three
others speak of one moment of the owner, and what makes them true happened
before: in `startLoop()` or in the destructor the owner has seen `loop_` set, and
since then the child may only have cleared it (`SeenInv`); `loop_` points to a
loop that lives, or that an exception is about to destroy (`PointerInv`); a loop
that has ended was quit by user code or by the destructor (`QuitInv`), and the
owner is past `join()` only when the child is finished (`JoinInv`).  The pointer
that the destructor reads without the lock is thus either of a live loop, or user
code had a part in it.  `NobodySleepsThroughNotify` is the safety that
`StartLoopReturns` rests on, without fairness: a thread that sleeps and was not
notified waits for a latch that is still up or for a `loop_` that is not set.

`PollPollerProofs`: `TheIndexesAgree`, `NothingAborts`, `Refinement`.  The run's
`IndexesAgree` is inductive with two facts of its own: no entry of `pollfds_` is
left of a channel that was removed (`EntriesOwned`), and there are as many
entries as members.  Without them a removal could move into the gap an entry that
nobody knows, or pop one that is another's.  The lemmas on the array say that
`iter_swap()` with `pop_back()` leaves every other entry in place and the last one
in the gap.  `TheIndexesAgree` and `Refinement` hold for any clients, those that
run into an assertion included; `NothingAborts` has the two hypotheses that
section 5 names, `DisablesNew = FALSE` and `EnablesRemoved = FALSE`.

`EPollPollerProofs`: `NothingAborts`, `TheKernelAgrees`, `Refinement`, without
hypotheses.  The invariant relates the three sides: the map, `index_`, and the
kernel's list, which has the channels that `index_` says it has, as far as their
descriptors are open (`ListAgrees`), each with the events it asks for.  A channel
that is not `kAdded` asks for nothing (`IndexTells`): that is why a channel that
is put back on the list by a second `disableAll()` can be taken off again.

`ReactorProofs`: `NothingDangles`, `PendingAreMembers`, `TiesProtect`.  Until an
assertion ends the program, the members of the poller are the channels with
`addedToLoop_` and exist (`MembersExist`); `eventHandling_` is set for the current
channel alone, which is out of `pending` and exists (`CurrentIsHandled`); what is
pending was reported in this iteration and is still a member
(`PendingWasReported`), because `removeChannel()` asserts that a channel is the
current one or none of the active ones; and a tie that has not expired is to an
object that exists (`TiesExist`).  `TiesProtect` holds after a failed assertion
too.  It needs that what `handleEvent()` keeps is what the channel was tied to at
its start, although the tie may be another by now (`GuardKeeps`), and that a
channel which is a member of what is kept is destroyed by nobody else
(`MemberKept`): not by the program, which destroys no members, and not with its
object, which is kept.  That the kept object exists at the start comes from
`TiesExist`, to which every release of any object contributes, as it makes the ties
to it expire.

`LoggingProofs` (from `SizeAssumption`, `NumberAssumption`, `UnitAssumption`,
`QuantityAssumption` and `LoggingAssumption`): `NothingOverflows`,
`NumbersAreSpelled`, `QuantitiesFit` and `TimesAreOfTheirSeconds`.  `InBuffer` keeps one place
free, which a text of any length preserves since what does not fit is dropped, and
a number since the room asked for is the longest number's.  `WellWritten` says that
every piece of a line is a good one, so that what is left to show is about one
number or one quantity at a time:

- *Numbers.*  `Digits` and `Spelled` are recursive functions.  Their recursion
  equations are proved and not taken for granted: functions that are right up to
  n exist and agree, or there would be a least n for which it is wrong
  (`DigitsExist`, `DigitsUnique`, `DigitsFacts`).  By the same argument every
  integer reads back from its digits, in base 10 and 16: one step of the loop
  takes one digit off (`DigitTaken`), with the remainder of C++, which is
  negative for a negative number, so that no step takes the absolute value of the
  most negative one.
- *Quantities.*  Up to the precision the double is the integer
  (`ToDoubleFacts`).  The step that `formatSI()` chooses for an integer stands
  somewhere among the units, with the one before it in the same unit or in the
  last (`StandsAt`, `FirstStepIs`): from the two bounds it follows that the integer
  has three digits in front of the decimals that are dropped, and is not in the
  upper half of the last one (`HasThreeDigits`).  What remains is that the error of
  the quotient cannot carry the text over a bound or past the half of its last
  place (`ThreeDigits`): both sides are multiples of twice the scale, and the
  error is less than that up to the precision (`ErrorIsSmall`).  `formatIEC()` divides
  by a power of two, without error, and chooses the step by the double: one that is
  rounded is on the same side of the bound as its text, at any size
  (`HasFourDigits`).

`TimeIsOfItsSecond` needs the same of what the thread keeps and not only of lines:
its text is that of `t_lastSecond`, in a zone that was in force in it
(`TextIsOfItsSecond`), whatever was logged in between.

`TimeZoneProofs`: `UtcTimes`, `LocalTimes`, `Preferences`.  `UtcTimes` holds at
every integer: a day is written as a century, a year of it and a day of the year
that begins in March (`IsDay`), the two conversions of `Date.cpp` are shown to map
between that and the calendar (`NextDayFollows`, `CalendarFollows`), and
`BreakTimeIs` adds the seconds, before 1970 too.  The divisions of `Date` are those
of TLA+, which agree with those of C++ for the days from the year -4800 on.
`LocalTimes` and `Preferences` are for zones with any number of transitions that
are further apart than the offsets differ (`WellFormed`): then both the instants
and the local starts of the transitions increase, `std::upper_bound` finds the only
place there is (`SortedIsMonotone`, `UpperBoundIs`), and the branches of
`findLocalTime()` are gone through one by one.  These two have the hypothesis
`LoadedAsWritten`: that the zone in use is the one that was written to the file is
the reader's business, and is checked by TLC.

What stays with TLC, and why:

- Liveness (`QuitIsHonoured`, `SignalledFunctorsStart`, `Executor` with fairness,
  `TimersRun`, `NoStarvation`, `StartLoopReturns`, `DestructorReturns`): it rests
  on fairness and `ENABLED`, which the prover does not handle.
- `LoadedAsWritten`: what a fold over the bytes of a file yields takes an
  induction over their number for each table of the file and each of the two
  blocks.  The provers have no schema for it; the least number of `LoggingProofs`
  would do for one function, but the folds of the community modules are
  themselves defined by operators that they cannot instantiate.

Every other invariant and action property of the passing runs, and every refinement
without its fairness, is a theorem.

## 5. Where code and documents disagree

Each is a run that ends in a counterexample.

- `TimerQueue_addtimer`: `addTimer()` from another thread reads
  `timer->sequence()` after it has given the timer to the loop, which may have
  run and deleted it (`TimerQueue.cpp:120`).  The `TimerId` then has the
  sequence number of whatever is at the address.
- `TimerQueue_lostcancel`: `cancel()` in the loop's thread runs at once and
  overtakes an `addTimerInLoop()` that another thread has queued; the timer is
  added after its cancellation and runs.
- `EventLoopThread_destroy`: when user code quits the loop, `threadFunc()`
  clears `loop_` under `mutex_`; a destructor that reads `NULL` then skips
  `join()` and destroys a mutex that still has a holder.
- `Logging_formatSI`: beyond 2^53 `formatSI()` may take 6 characters, where
  `LogStream.h:191` says at most 5.  It chooses the decimals by the integer and
  prints the double (`LogStream.cpp:134`): from 99949999999999992 to
  99949999999999999 the integer is below the bound of `%.1fP` while its double is
  9.995e16, and the text is `100.0P`.  The run shows the same with doubles that
  are shorter, beyond their precision.

Behaviour that the models have and that no document contradicts:

- A channel whose first call is `disableAll()` enters `pollfds_` with its
  descriptor, not with the negated one, and `remove()` then fails an assertion:
  with `DisablesNew = TRUE` in `PollPoller.cfg`, TLC shows it against
  `AssertionsHold`.  `EPollPoller` takes the same calls.
- Within the second of a `setTimeZone()` a line may show a time of the old zone
  with the mark of the new one: `Z` is chosen anew for each line.
- A line that fills the buffer loses its end, the newline included.
- `quit()` before `loop()` is forgotten (`EventLoop.cpp:107` has a FIXME), so
  that `DestructorReturns` speaks of a loop that is past that line.
- A timer that is cancelled by the callback of an earlier timer of the same
  batch still runs, once more.
- `startLoop()` may wait for ever if the loop quits by itself before the owner
  wakes up, because `loop_` is `NULL` again.
- A channel that another channel's callback disables is still called in that
  round if it was reported.
- Of a local time that the first or the last transition repeats, the later
  instant is taken whatever `postTransition` says.
- A channel that is enabled again after it was removed from a `PollPoller` is
  taken for one that is in the array, and an assertion fails: with
  `EnablesRemoved = TRUE` TLC shows it against `AssertionsHold`.
- A channel whose descriptor was closed and which is then enabled, or enabled
  for another event, ends the program: `epoll_ctl()` is refused.
- A zone file of version 3 or 4 is read through its first block, since the code
  asks for `"2"` alone.  If that block is slim, which the format allows, the
  result is a zone without transitions, silently.  The files of version 3 in the
  run have the whole zone in both blocks.
- A file with leap seconds gives no zone.
- A functor that is queued by the destructor of what another functor captured
  waits for the poll's timeout: `doPendingFunctors()` has cleared
  `callingPendingFunctors_` by then (`EventLoop.cpp:267`), so that `queueInLoop()`
  writes no eventfd.  `NoLostWakeup` and `SignalledFunctorsStart` leave such
  functors out, as they do those that are queued before `loop()`.
- A tie that is made in the channel's own callback protects from the next event
  on: `handleEvent()` has taken its `shared_ptr`, or none, when it started.  An object
  that a channel is first tied to in its callback, and that loses its last reference
  there, is destroyed while the channel is handled; if the channel is a member of
  it, the assertion in `~Channel()` fails.  `Channel.h:46-47` does not say from when
  on a tie protects.

## 6. Not modelled

`SocketOps` and `Endian` wrap system calls and keep no state; the repository
calls just `sockets::read()` and `sockets::write()`, which are part of
`HandleRead` and `Wakeup`.  `Atomic` is one counter, in `NewTimer`.
`StringPiece`, `CurrentThread` and `Exception` are values and caches that no
protocol depends on.  `Condition::waitForSeconds()` has no caller.  The kqueue
branches are not built on Linux.  The formatting of dates and times is layout,
and `Fmt` is a format of the C library.  Of a zone file the abbreviations and the
text at its end are only skipped.  A file without local times (`typecnt` of 0) and
without transitions gives a zone that is `valid()` and has no local time to return
(`front()` of an empty vector, `TimeZone.cpp:347`); `ReadDataBlock` gives that zone,
but no file of the instance is one, since `WellFormed` asks for a local time.
A negative `charcnt`, for which the code declares an array of negative length, and
negative counters in a first block that is skipped are in no file either.

Of a fatal line, that the sink of `g_flush` is flushed before `abort()` is the
action `Abort` and no property: it is one statement of the destructor.

## 7. Plan

What is proved now covers every safety property of the passing runs except
`LoadedAsWritten`.  What is left:

1. `LoadedAsWritten`, for a reader whose blocks are sequences of numbers in place of
   folds over bytes; its recursion equation would be proved as that of `Digits`.
2. `StartLoopReturns` and `DestructorReturns`, of which the safety part is proved
   (`NobodySleepsThroughNotify`): the rest needs `ENABLED`, and stays with TLC until
   the prover has it.
3. Channels with objects whose destructors themselves disable, remove and destroy
   channels and drop other objects.
