----------------------------- MODULE TimerQueue -----------------------------
(***************************************************************************)
(* muduo::net::TimerQueue: the timers of one EventLoop, kept in two        *)
(* ordered sets of raw pointers and driven by one timerfd.                 *)
(*                                                                         *)
(* The loop's own thread runs addTimer() and cancel() in place, from any   *)
(* callback; the threads of Threads hand them to the loop, whose queue is  *)
(* the FIFO that FunctorQueue promises (EventLoop implements it).          *)
(* Timers live at addresses of the heap, which hands a freed address out   *)
(* again; their sequence numbers never repeat.  The unit of time is the    *)
(* delay that howMuchTimeFromNow() rounds up to, or a multiple of it.      *)
(***************************************************************************)
EXTENDS Integers, Sequences, FiniteSets

CONSTANTS
  Threads,               \* the threads other than the loop's
  Addrs,                 \* addresses at which new Timer may place a timer
  Whens,                 \* times that clients pass to runAt()
  Intervals,             \* intervals of timers; 0 is a one-shot timer
  MinDelay,              \* the shortest delay the timerfd is armed with
  ClockSteps,            \* jumps of the wall clock, {} if it is monotonic
  MaxTime,               \* bound: where the wall clock stops
  MaxTimers,             \* bound: how many timers are ever created
  MaxRequests            \* bound: how many requests wait in the loop's queue

ASSUME TimerAssumption ==
  /\ Addrs \subseteq Nat \ {0}
  /\ Whens \subseteq Nat
  /\ Intervals \subseteq Nat
  /\ MinDelay \in Nat \ {0}
  /\ ClockSteps \subseteq Int
  /\ {MaxTime, MaxTimers, MaxRequests} \subseteq Nat \ {0}

VARIABLES
  now,                   \* Timestamp::now(), the wall clock
  timerfd,               \* ticks until it is readable, 0 when it is, or Disarmed
  reported,              \* the last poll put timerfdChannel_ in activeChannels_
  pc,                    \* where the loop's thread stands
  heap,                  \* the Timer object at each address
  numCreated,            \* Timer::s_numCreated_
  timers,                \* timers_, a set of <<expiration, address>>
  activeTimers,          \* activeTimers_, a set of <<address, sequence>>
  callingExpiredTimers,  \* callingExpiredTimers_
  cancelingTimers,       \* cancelingTimers_, a set of <<address, sequence>>
  expired,               \* the local vector of handleRead
  toRun,                 \* its entries whose callback has not started
  readTime,              \* the local now of handleRead
  requests,              \* addTimerInLoop and cancelInLoop in the loop's queue
  adding,                \* the timer whose addTimer() each thread is inside of
  ids,                   \* history: the TimerIds that addTimer() returned
  cancelled,             \* history: the TimerIds that cancelInLoop() was given
  overtook               \* history: those given while addTimerInLoop() of the
                         \* same timer was still queued

queueVars == <<timers, activeTimers, cancelingTimers, heap>>
batchVars == <<pc, callingExpiredTimers, expired, toRun, readTime>>
vars == <<now, timerfd, reported, pc, heap, numCreated, timers, activeTimers,
          callingExpiredTimers, cancelingTimers, expired, toRun, readTime,
          requests, adding, ids, cancelled, overtook>>

Disarmed == -1
NoTimer == <<0, 0>>
Free == [sequence |-> 0, expiration |-> 0, interval |-> 0]

Live(a) == heap[a] # Free
Waiting == {e[2] : e \in timers}
InBatch == {e[2] : e \in expired}
Adds == {i \in 1..Len(requests) : requests[i].op = "add"}
RequestedIds == {requests[i].timer : i \in Adds}
Requested == {requests[i].timer[1] : i \in Adds}

\* Mutant: getExpired() leaves the expired timers in activeTimers_.
ActiveOfNone(entries) == {}

\* The entries of activeTimers_ that belong to entries of timers_.
ActiveOf(entries) == {<<e[2], heap[e[2]].sequence>> : e \in entries}

-----------------------------------------------------------------------------
Init ==
  /\ now = 1
  /\ timerfd = Disarmed
  /\ reported = FALSE
  /\ pc = "idle"
  /\ heap = [a \in Addrs |-> Free]
  /\ numCreated = 0
  /\ timers = {}
  /\ activeTimers = {}
  /\ callingExpiredTimers = FALSE
  /\ cancelingTimers = {}
  /\ expired = {}
  /\ toRun = {}
  /\ readTime = 0
  /\ requests = <<>>
  /\ adding = [t \in Threads |-> NoTimer]
  /\ ids = {}
  /\ cancelled = {}
  /\ overtook = {}

-----------------------------------------------------------------------------
(* The timerfd. *)

\* Mutant: the difference as it is, negative for a time that has passed.
HowMuchTimeFromNowUnchecked(when) == when - now

\* Mutant: no minimum; a time that has passed asks for no delay.
HowMuchTimeFromNowZero(when) == IF when < now THEN 0 ELSE when - now

\* howMuchTimeFromNow(): never zero, which would disarm the timerfd.
HowMuchTimeFromNow(when) == IF when - now < MinDelay THEN MinDelay ELSE when - now

\* resetTimerfd(): timerfd_settime() makes the timerfd unreadable, and disarms
\* it if the delay is zero.
ResetTimerfd(when) ==
  timerfd' = IF HowMuchTimeFromNow(when) = 0 THEN Disarmed
             ELSE HowMuchTimeFromNow(when)

-----------------------------------------------------------------------------
(* addTimer() and cancel(), the parts that run in the loop's thread. *)

\* Mutant: the timerfd is only armed by the first timer.
EarliestChangedIfEmpty(when) == timers = {}

\* What insert() returns: is the timer to be the earliest of timers_?
EarliestChanged(when) == \A e \in timers : when < e[1]

\* insert(): into both of the sets.
Insert(a, timer) ==
  /\ timers' = timers \cup {<<timer.expiration, a>>}
  /\ activeTimers' = activeTimers \cup {<<a, timer.sequence>>}

AddTimerInLoop(a, timer) ==
  /\ Insert(a, timer)
  /\ IF EarliestChanged(timer.expiration)
       THEN ResetTimerfd(timer.expiration)
       ELSE UNCHANGED timerfd

\* Mutant: a timer is looked up by its address alone.
FoundByAddress(id) == {timer \in activeTimers : timer[1] = id[1]}

\* activeTimers_.find(): by address and by sequence number.
Found(id) == {timer \in activeTimers : timer = id}

\* An active timer is erased and deleted; one that is not may be in the batch
\* that handleRead is running.
CancelInLoop(id) ==
  /\ IF Found(id) # {}
       THEN /\ timers' = timers \ {<<heap[id[1]].expiration, id[1]>>}
            /\ activeTimers' = activeTimers \ Found(id)
            /\ heap' = [heap EXCEPT ![id[1]] = Free]
            /\ UNCHANGED cancelingTimers
       ELSE /\ cancelingTimers' = IF callingExpiredTimers
                                    THEN cancelingTimers \cup {id}
                                    ELSE cancelingTimers
            /\ UNCHANGED <<timers, activeTimers, heap>>
  /\ IF id \in RequestedIds
       THEN overtook' = overtook \cup {id} /\ UNCHANGED cancelled
       ELSE cancelled' = cancelled \cup {id} /\ UNCHANGED overtook

\* new Timer: the next sequence number, at any free address.
NewTimer(a) ==
  /\ ~Live(a)
  /\ numCreated < MaxTimers
  /\ numCreated' = numCreated + 1

TimerAt(when, interval) ==
  [sequence |-> numCreated + 1, expiration |-> when, interval |-> interval]

-----------------------------------------------------------------------------
(* The calls of the loop's own thread, from any callback or functor.       *)

InUserCode == pc \in {"idle", "callback"}

OwnerAddTimer(a, when, interval) ==
  /\ InUserCode
  /\ NewTimer(a)
  /\ heap' = [heap EXCEPT ![a] = TimerAt(when, interval)]
  /\ AddTimerInLoop(a, TimerAt(when, interval))
  /\ ids' = ids \cup {<<a, numCreated + 1>>}
  /\ UNCHANGED <<batchVars, now, reported, cancelingTimers, requests, adding,
                 cancelled, overtook>>

OwnerCancel(id) ==
  /\ InUserCode
  /\ id \in ids
  /\ CancelInLoop(id)
  /\ UNCHANGED <<batchVars, now, timerfd, reported, numCreated, requests,
                 adding, ids>>

-----------------------------------------------------------------------------
(* The calls of the other threads.                                         *)

Queue(op, timer) ==
  /\ pc # "destroyed"
  /\ Len(requests) < MaxRequests
  /\ requests' = Append(requests, [op |-> op, timer |-> timer])

\* addTimer(): the new timer is private to the thread until it is queued.
AddTimer(t, a, when, interval) ==
  /\ adding[t] = NoTimer
  /\ NewTimer(a)
  /\ heap' = [heap EXCEPT ![a] = TimerAt(when, interval)]
  /\ Queue("add", <<a, numCreated + 1>>)
  /\ adding' = [adding EXCEPT ![t] = <<a, numCreated + 1>>]
  /\ UNCHANGED <<batchVars, now, timerfd, reported, timers, activeTimers,
                 cancelingTimers, ids, cancelled, overtook>>

\* What timer->sequence() reads at an address that may have been freed since:
\* the number of the timer that lives there, or anything that was left there.
SequenceRead(a) == IF Live(a) THEN {heap[a].sequence} ELSE 0..numCreated

\* return {timer, timer->sequence()}, after the timer was handed to the loop.
ReturnTimerId(t) ==
  /\ adding[t] # NoTimer
  /\ \E s \in SequenceRead(adding[t][1]) :
       ids' = ids \cup {<<adding[t][1], s>>}
  /\ adding' = [adding EXCEPT ![t] = NoTimer]
  /\ UNCHANGED <<batchVars, queueVars, now, timerfd, reported, numCreated,
                 requests, cancelled, overtook>>

Cancel(t, id) ==
  /\ adding[t] = NoTimer
  /\ id \in ids
  /\ Queue("cancel", id)
  /\ UNCHANGED <<batchVars, queueVars, now, timerfd, reported, numCreated,
                 adding, ids, cancelled, overtook>>

-----------------------------------------------------------------------------
(* The loop's thread. *)

\* A poll finds the timerfd readable.
ReportTimerfd ==
  /\ pc = "idle"
  /\ timerfd = 0
  /\ ~reported
  /\ reported' = TRUE
  /\ UNCHANGED <<batchVars, queueVars, now, timerfd, numCreated, requests,
                 adding, ids, cancelled, overtook>>

\* doPendingFunctors(): the channels of this iteration are done.
RunRequest ==
  /\ pc = "idle"
  /\ ~reported
  /\ requests # <<>>
  /\ requests' = Tail(requests)
  /\ LET r == Head(requests)
     IN  \/ /\ r.op = "add"
            /\ AddTimerInLoop(r.timer[1], heap[r.timer[1]])
            /\ UNCHANGED <<heap, cancelingTimers, cancelled, overtook>>
         \/ /\ r.op = "cancel"
            /\ CancelInLoop(r.timer)
            /\ UNCHANGED timerfd
  /\ UNCHANGED <<batchVars, now, reported, numCreated, adding, ids>>

\* getExpired(): every entry up to and including now.
Expired == {e \in timers : e[1] <= now}

\* handleRead(), up to the callbacks.  The read disarms a readable timerfd;
\* one that was armed again since the poll is left alone.
HandleRead ==
  /\ pc = "idle"
  /\ reported
  /\ reported' = FALSE
  /\ readTime' = now
  /\ timerfd' = IF timerfd = 0 THEN Disarmed ELSE timerfd
  /\ expired' = Expired
  /\ toRun' = Expired
  /\ timers' = timers \ Expired
  /\ activeTimers' = activeTimers \ ActiveOf(Expired)
  /\ callingExpiredTimers' = TRUE
  /\ cancelingTimers' = {}
  /\ pc' = "expired"
  /\ UNCHANGED <<now, heap, numCreated, requests, adding, ids, cancelled, overtook>>

\* The order of the set timers_: by time, then by address.
Before(e, f) == e[1] < f[1] \/ (e[1] = f[1] /\ e[2] < f[2])

\* The callback of the next expired timer starts, and returns.
RunTimer ==
  /\ pc = "expired"
  /\ \E e \in toRun :
       /\ \A f \in toRun \ {e} : Before(e, f)
       /\ toRun' = toRun \ {e}
  /\ pc' = "callback"
  /\ UNCHANGED <<queueVars, now, timerfd, reported, numCreated, requests,
                 callingExpiredTimers, expired, readTime, adding, ids,
                 cancelled, overtook>>

EndTimer ==
  /\ pc = "callback"
  /\ pc' = "expired"
  /\ UNCHANGED <<queueVars, now, timerfd, reported, numCreated, requests,
                 callingExpiredTimers, expired, toRun, readTime, adding, ids,
                 cancelled, overtook>>

\* Mutant: cancelingTimers_ is not consulted.
RepeatsAlways(a) == heap[a].interval > 0

\* reset(): a repeating timer that was not cancelled meanwhile is restarted;
\* every other one is deleted.
Repeats(a) ==
  heap[a].interval > 0 /\ <<a, heap[a].sequence>> \notin cancelingTimers

Restarted == {a \in InBatch : Repeats(a)}

\* Mutant: only one-shot timers are deleted.
DeletedOneShots == {a \in InBatch : heap[a].interval = 0}

Deleted == {a \in InBatch : ~Repeats(a)}

\* Mutant: the interval counts from the end of the batch.
NextExpirationFromEnd(a) == now + heap[a].interval

\* Restart(now), with the time at which the batch was taken.
NextExpiration(a) == readTime + heap[a].interval

\* Then the timerfd is armed for the earliest timer, unless that one has an
\* invalid time.
Reset ==
  /\ pc = "expired"
  /\ toRun = {}
  /\ heap' = [a \in Addrs |->
                IF a \in Deleted THEN Free
                ELSE IF a \in Restarted
                       THEN [heap[a] EXCEPT !.expiration = NextExpiration(a)]
                       ELSE heap[a]]
  /\ timers' = timers \cup {<<NextExpiration(a), a>> : a \in Restarted}
  /\ activeTimers' = activeTimers \cup {<<a, heap[a].sequence>> : a \in Restarted}
  /\ \/ \E e \in timers' :
          /\ \A f \in timers' : e[1] <= f[1]
          /\ IF e[1] > 0 THEN ResetTimerfd(e[1]) ELSE UNCHANGED timerfd
     \/ /\ timers' = {}
        /\ UNCHANGED timerfd
  /\ callingExpiredTimers' = FALSE
  /\ expired' = {}
  /\ readTime' = 0
  /\ pc' = "idle"
  /\ UNCHANGED <<now, reported, numCreated, cancelingTimers, toRun,
                 requests, adding, ids, cancelled, overtook>>

\* ~TimerQueue(), in the loop's thread, when no other thread is inside a call
\* on the loop: its queued requests will never run.
Destroy ==
  /\ pc = "idle"
  /\ \A t \in Threads : adding[t] = NoTimer
  /\ pc' = "destroyed"
  /\ heap' = [a \in Addrs |-> IF a \in Waiting THEN Free ELSE heap[a]]
  /\ timers' = {}
  /\ activeTimers' = {}
  /\ timerfd' = Disarmed
  /\ reported' = FALSE
  /\ UNCHANGED <<now, numCreated, callingExpiredTimers, cancelingTimers,
                 expired, toRun, readTime, requests, adding, ids, cancelled,
                 overtook>>

-----------------------------------------------------------------------------
(* Time. *)

\* Both clocks advance.  The wall clock stops at MaxTime, the timerfd's
\* CLOCK_MONOTONIC does not.
Tick ==
  /\ now' = IF now < MaxTime THEN now + 1 ELSE now
  /\ timerfd' = IF timerfd > 0 THEN timerfd - 1 ELSE timerfd
  /\ UNCHANGED <<batchVars, queueVars, reported, numCreated, requests, adding,
                 ids, cancelled, overtook>>

\* The wall clock is set; the timerfd is armed with a relative delay.
StepClock(d) ==
  /\ now + d \in 1..MaxTime
  /\ now' = now + d
  /\ UNCHANGED <<batchVars, queueVars, timerfd, reported, numCreated, requests,
                 adding, ids, cancelled, overtook>>

-----------------------------------------------------------------------------
Next ==
  \/ \E a \in Addrs, w \in Whens, i \in Intervals : OwnerAddTimer(a, w, i)
  \/ \E id \in ids : OwnerCancel(id)
  \/ \E t \in Threads, a \in Addrs, w \in Whens, i \in Intervals :
       AddTimer(t, a, w, i)
  \/ \E t \in Threads : ReturnTimerId(t)
  \/ \E t \in Threads, id \in ids : Cancel(t, id)
  \/ ReportTimerfd
  \/ RunRequest
  \/ HandleRead
  \/ RunTimer
  \/ EndTimer
  \/ Reset
  \/ Destroy
  \/ Tick
  \/ \E d \in ClockSteps : StepClock(d)

Spec == Init /\ [][Next]_vars

(***************************************************************************)
(* Fairness.  Time passes; the loop polls and its callbacks return, so     *)
(* that a readable timerfd is reported and handled.  Every iteration of    *)
(* the loop runs its functors, however often the timerfd fires, which is   *)
(* SF of RunRequest (SignalledFunctorsStart of EventLoop).                 *)
(***************************************************************************)
Fairness ==
  /\ WF_vars(Tick)
  /\ WF_vars(ReportTimerfd)
  /\ WF_vars(HandleRead \/ RunTimer \/ EndTimer \/ Reset)
  /\ SF_vars(RunRequest)

FairSpec == Spec /\ Fairness

-----------------------------------------------------------------------------
(* Properties. *)

TimerIds == Addrs \X (0..MaxTimers)
Timer == [sequence : 0..MaxTimers, expiration : Nat, interval : Nat]
Request == [op : {"add", "cancel"}, timer : TimerIds]

\* Every variable of the queue has its type.
TypeOK ==
  /\ now \in 1..MaxTime
  /\ timerfd \in Nat \cup {Disarmed}
  /\ reported \in BOOLEAN
  /\ pc \in {"idle", "expired", "callback", "destroyed"}
  /\ heap \in [Addrs -> Timer]
  /\ numCreated \in 0..MaxTimers
  /\ timers \subseteq Nat \X Addrs
  /\ activeTimers \subseteq TimerIds
  /\ callingExpiredTimers \in BOOLEAN
  /\ cancelingTimers \subseteq TimerIds
  /\ expired \subseteq Nat \X Addrs
  /\ toRun \subseteq expired
  /\ readTime \in 0..MaxTime
  /\ requests \in Seq(Request)
  /\ adding \in [Threads -> TimerIds \cup {NoTimer}]
  /\ ids \subseteq TimerIds
  /\ cancelled \subseteq TimerIds
  /\ overtook \subseteq TimerIds

\* timers_ and activeTimers_ hold the same timers, under the expiration and
\* the sequence number that the timers have: what the assertions on the sizes
\* of the two sets stand for, and what erase() and find() rely on.  A timer's
\* expiration changes while it is in neither.
SetsAgree ==
  /\ activeTimers = ActiveOf(timers)
  /\ \A e \in timers \cup expired : e[1] = heap[e[2]].expiration

\* Every timer that is alive has one owner that will delete it: timers_, the
\* batch of handleRead, or the request to add it.  Nothing else is alive, so
\* that no pointer in the queue dangles and no timer is deleted twice.
EachTimerHasOneOwner ==
  /\ \A a \in Addrs : Live(a) <=> a \in Waiting \cup InBatch \cup Requested
  /\ Waiting \cap InBatch = {}
  /\ Requested \cap (Waiting \cup InBatch) = {}
  /\ \A i, j \in Adds : requests[i].timer[1] = requests[j].timer[1] => i = j

\* Whenever the loop may go back to its poll the timerfd is armed if a timer
\* waits, whatever happened to the wall clock.
TimerfdArmed == (pc = "idle" /\ timers # {}) => timerfd # Disarmed

\* And it is armed early enough for every one of them, unless the wall clock is set
\* forward: no timer is late by more than the shortest delay.
TimerfdInTime ==
  pc = "idle" => \A e \in timers : /\ timerfd # Disarmed
                                   /\ timerfd <= HowMuchTimeFromNow(e[1])

\* A timer that was cancelled never waits again, whether it was waiting, about
\* to run, or running its own callback when cancelInLoop() got its id, unless
\* it was still to be added.
CancelledTimerIsGone == activeTimers \cap cancelled = {}

\* A waiting timer leaves the queue because it expired, because its own id was
\* cancelled or because the queue is destroyed: an old id whose address was
\* reused does not cancel the new timer.
OnlyItsOwnCancelRemoves ==
  [][\A id \in activeTimers \ activeTimers' :
       \/ id[1] \in InBatch'
       \/ id \in cancelled'
       \/ pc' = "destroyed"]_vars

\* What the queue is in terms of sequence numbers alone.
Entry(e) ==
  [seq |-> heap[e[2]].sequence, at |-> e[1], every |-> heap[e[2]].interval]
Entries(set) == {Entry(e) : e \in set}
Record(a) == Entry(<<heap[a].expiration, a>>)
Asked ==
  [i \in 1..Len(requests) |->
     IF requests[i].op = "add" THEN {Record(requests[i].timer[1])} ELSE {}]
Stopped ==
  {heap[a].sequence : a \in {b \in InBatch :
                               <<b, heap[b].sequence>> \in cancelingTimers}}

\* The queue keeps the promises of Timers, whose timers have neither addresses
\* nor a timerfd: due ones are called in order, once, one at a time; those that
\* repeat come back and only those; a cancel reaches the timer it names or none;
\* what other threads ask for is done in their order.
Promise == INSTANCE Timers WITH
  created <- numCreated,
  asked <- Asked,
  waiting <- Entries(timers),
  batch <- Entries(expired),
  toRun <- Entries(toRun),
  running <- pc = "callback",
  batchTime <- readTime,
  stopped <- Stopped,
  closed <- pc = "destroyed"

ImplementsTimers == Promise!Spec

\* A timer of that sequence number was added and is due before the wall clock
\* stops; its callback was started in this batch; its id was cancelled.
Scheduled(s) ==
  \E a \in Waiting \cup Requested :
    heap[a].sequence = s /\ heap[a].expiration <= MaxTime
Started(s) == \E e \in expired \ toRun : heap[e[2]].sequence = s
Cancelled(s) == \E id \in cancelled : id[2] = s

\* Every timer added, from any thread, is run or cancelled, unless the loop is
\* destroyed or the wall clock is set back again and again.
TimersRun ==
  <>[][now' >= now]_now =>
    \A s \in 1..MaxTimers :
      Scheduled(s) ~> (Started(s) \/ Cancelled(s) \/ pc = "destroyed")

\* EventLoop.h: runAt() and cancel() are safe to call from other threads.  The
\* id that addTimer() returns is that of the timer it created.
AddTimerReturnsItsTimer ==
  [][\A t \in Threads :
       (adding[t] # NoTimer /\ adding'[t] = NoTimer) => adding[t] \in ids']_vars

\* EventLoop.h: cancel() cancels the timer.  The timer does not wait after that,
\* even if another thread added it.
CancelIsNotLost == activeTimers \cap overtook = {}

=============================================================================
