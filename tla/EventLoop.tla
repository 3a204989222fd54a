------------------------------ MODULE EventLoop ------------------------------
(***************************************************************************)
(* muduo::net::EventLoop: the reactor of one thread and the queue through  *)
(* which the other threads hand it work.                                   *)
(*                                                                         *)
(* One owner thread runs loop(); the threads of Callers call queueInLoop() *)
(* and quit() on it at any time.  Callbacks, functors and the destructors  *)
(* of what functors have captured are user code: while one runs, the owner *)
(* thread may make any of the loop's calls, any number of times, before it *)
(* returns.  A member of Functors names one submission that is in flight;  *)
(* it may be submitted again once it has started.                          *)
(***************************************************************************)
EXTENDS Naturals, Sequences

CONSTANTS
  Callers,               \* the threads other than the owner of the loop
  Functors,              \* the submissions that may be in flight
  IoChannels,            \* user channels (sockets, the timer queue's timerfd)
  WakeupChannel          \* the loop's own channel on its eventfd

ASSUME WakeupAssumption == WakeupChannel \notin IoChannels

VARIABLES
  pc,                      \* where the owner thread stands
  looping,                 \* looping_
  quit,                    \* quit_
  eventHandling,           \* eventHandling_
  callingPendingFunctors,  \* callingPendingFunctors_
  activeChannels,          \* channels of this iteration not dispatched yet
  pendingFunctors,         \* pendingFunctors_, guarded by mutex_
  functors,                \* the local vector of doPendingFunctors, from the
                           \* next functor to run on
  wakeupFd,                \* the eventfd's counter is not zero
  callerPc,                \* where each other thread stands in its call
  quiet                    \* history: functors of pendingFunctors that the
                           \* owner queued outside loop() or in a destructor
                           \* after doPendingFunctors() lowered its flag

loopVars == <<pc, looping, eventHandling, callingPendingFunctors,
              activeChannels, functors>>
vars == <<pc, looping, quit, eventHandling, callingPendingFunctors,
          activeChannels, pendingFunctors, functors, wakeupFd, callerPc, quiet>>

PCs == {"outside",    \* not in loop()
        "test",       \* about to evaluate while (!quit_)
        "polling",    \* in poller_->poll()
        "dispatch",   \* in the loop over activeChannels_
        "callback",   \* in the callback of a user channel
        "swapping",   \* in doPendingFunctors, before the swap
        "running",    \* in the loop over the swapped functors
        "functor",    \* in a functor
        "destroying"} \* in ~vector() of the functors that have run

InSeq(f, s) == \E i \in 1..Len(s) : s[i] = f

-----------------------------------------------------------------------------
Init ==
  /\ pc = "outside"
  /\ looping = FALSE
  /\ quit = FALSE
  /\ eventHandling = FALSE
  /\ callingPendingFunctors = FALSE
  /\ activeChannels = {}
  /\ pendingFunctors = <<>>
  /\ functors = <<>>
  /\ wakeupFd = FALSE
  /\ callerPc = [c \in Callers |-> "idle"]
  /\ quiet = {}

-----------------------------------------------------------------------------
(* loop(), one iteration of it step by step. *)

\* assert(!looping_); a quit() made before this point is forgotten.
LoopEnter ==
  /\ pc = "outside"
  /\ ~looping
  /\ looping' = TRUE
  /\ quit' = FALSE
  /\ pc' = "test"
  /\ UNCHANGED <<eventHandling, callingPendingFunctors, activeChannels,
                 pendingFunctors, functors, wakeupFd, callerPc, quiet>>

LoopContinue ==
  /\ pc = "test"
  /\ ~quit
  /\ activeChannels' = {}
  /\ pc' = "polling"
  /\ UNCHANGED <<looping, quit, eventHandling, callingPendingFunctors,
                 pendingFunctors, functors, wakeupFd, callerPc, quiet>>

LoopExit ==
  /\ pc = "test"
  /\ quit
  /\ looping' = FALSE
  /\ pc' = "outside"
  /\ UNCHANGED <<quit, eventHandling, callingPendingFunctors, activeChannels,
                 pendingFunctors, functors, wakeupFd, callerPc, quiet>>

PollReturn(ready) ==
  /\ pc = "polling"
  /\ activeChannels' = ready
  /\ eventHandling' = TRUE
  /\ pc' = "dispatch"
  /\ UNCHANGED <<looping, quit, callingPendingFunctors, pendingFunctors,
                 functors, wakeupFd, callerPc, quiet>>

\* The poll ends because something is readable; the wakeup channel is
\* reported exactly when the eventfd is readable.
PollReady ==
  \E io \in SUBSET IoChannels :
    /\ wakeupFd \/ io # {}
    /\ PollReturn(io \cup (IF wakeupFd THEN {WakeupChannel} ELSE {}))

\* kPollTimeMs elapsed, or a signal interrupted the poll.
PollTimeout ==
  /\ ~wakeupFd
  /\ PollReturn({})

\* EventLoop::handleRead(): reading the eventfd resets its counter.
HandleRead ==
  /\ pc = "dispatch"
  /\ WakeupChannel \in activeChannels
  /\ activeChannels' = activeChannels \ {WakeupChannel}
  /\ wakeupFd' = FALSE
  /\ UNCHANGED <<pc, looping, quit, eventHandling, callingPendingFunctors,
                 pendingFunctors, functors, callerPc, quiet>>

BeginCallback(ch) ==
  /\ pc = "dispatch"
  /\ ch \in activeChannels
  /\ activeChannels' = activeChannels \ {ch}
  /\ pc' = "callback"
  /\ UNCHANGED <<looping, quit, eventHandling, callingPendingFunctors,
                 pendingFunctors, functors, wakeupFd, callerPc, quiet>>

EndCallback ==
  /\ pc = "callback"
  /\ pc' = "dispatch"
  /\ UNCHANGED <<looping, quit, eventHandling, callingPendingFunctors,
                 activeChannels, pendingFunctors, functors, wakeupFd, callerPc,
                 quiet>>

\* The last channel is done: doPendingFunctors() raises its flag.
EndDispatch ==
  /\ pc = "dispatch"
  /\ activeChannels = {}
  /\ eventHandling' = FALSE
  /\ callingPendingFunctors' = TRUE
  /\ pc' = "swapping"
  /\ UNCHANGED <<looping, quit, activeChannels, pendingFunctors, functors,
                 wakeupFd, callerPc, quiet>>

\* Mutant: the pending functors are copied and stay in pendingFunctors_.
SwapFunctorsCopies ==
  /\ pc = "swapping"
  /\ functors' = pendingFunctors
  /\ pc' = "running"
  /\ UNCHANGED <<looping, quit, eventHandling, callingPendingFunctors,
                 activeChannels, pendingFunctors, wakeupFd, callerPc, quiet>>

\* functors.swap(pendingFunctors_), under mutex_.
SwapFunctors ==
  /\ pc = "swapping"
  /\ functors' = pendingFunctors
  /\ pendingFunctors' = <<>>
  /\ quiet' = {}
  /\ pc' = "running"
  /\ UNCHANGED <<looping, quit, eventHandling, callingPendingFunctors,
                 activeChannels, wakeupFd, callerPc>>

BeginFunctor ==
  /\ pc = "running"
  /\ functors # <<>>
  /\ functors' = Tail(functors)
  /\ pc' = "functor"
  /\ UNCHANGED <<looping, quit, eventHandling, callingPendingFunctors,
                 activeChannels, pendingFunctors, wakeupFd, callerPc, quiet>>

EndFunctor ==
  /\ pc = "functor"
  /\ pc' = "running"
  /\ UNCHANGED <<looping, quit, eventHandling, callingPendingFunctors,
                 activeChannels, pendingFunctors, functors, wakeupFd, callerPc,
                 quiet>>

\* Mutant: doPendingFunctors() goes on until pendingFunctors_ is empty.
EndFunctorsDrains ==
  /\ pc = "running"
  /\ functors = <<>>
  /\ callingPendingFunctors' = (pendingFunctors # <<>>)
  /\ pc' = IF pendingFunctors = <<>> THEN "destroying" ELSE "swapping"
  /\ UNCHANGED <<looping, quit, eventHandling, activeChannels,
                 pendingFunctors, functors, wakeupFd, callerPc, quiet>>

\* The flag is lowered before the local vector is destroyed.
EndFunctors ==
  /\ pc = "running"
  /\ functors = <<>>
  /\ callingPendingFunctors' = FALSE
  /\ pc' = "destroying"
  /\ UNCHANGED <<looping, quit, eventHandling, activeChannels,
                 pendingFunctors, functors, wakeupFd, callerPc, quiet>>

\* doPendingFunctors() has destroyed the functors it ran, and returns.
FunctorsDestroyed ==
  /\ pc = "destroying"
  /\ pc' = "test"
  /\ UNCHANGED <<looping, quit, eventHandling, callingPendingFunctors,
                 activeChannels, pendingFunctors, functors, wakeupFd, callerPc,
                 quiet>>

-----------------------------------------------------------------------------
(* The loop's calls.  A caller's names itself; the owner's are made from   *)
(* user code: outside loop(), in a channel's callback, in a functor, or in *)
(* a destructor of what a functor captured.                                *)

InUserCode == pc \in {"outside", "callback", "functor", "destroying"}

NotInFlight(f) == ~InSeq(f, pendingFunctors) /\ ~InSeq(f, functors)

\* Mutant: the loop's own thread never writes the eventfd.
OwnerNeverWakes == FALSE

\* In the loop's own thread queueInLoop() writes the eventfd only while
\* callingPendingFunctors_ is set.  In a callback the swap is still ahead of
\* the next poll; outside loop() and in "destroying" it is not.
OwnerWakesItself == callingPendingFunctors

OwnerQueueInLoop(f) ==
  /\ InUserCode
  /\ NotInFlight(f)
  /\ pendingFunctors' = Append(pendingFunctors, f)
  /\ wakeupFd' = (wakeupFd \/ OwnerWakesItself)
  /\ quiet' = IF pc \in {"outside", "destroying"} THEN quiet \cup {f} ELSE quiet
  /\ UNCHANGED <<loopVars, quit, callerPc>>

\* quit() in the loop's own thread does not write the eventfd.
OwnerQuit ==
  /\ InUserCode
  /\ quit' = TRUE
  /\ UNCHANGED <<loopVars, pendingFunctors, wakeupFd, callerPc, quiet>>

\* Mutant: the functor is moved from before it is pushed.
QueueInLoopMovedFrom(c, f) ==
  /\ callerPc[c] = "idle"
  /\ NotInFlight(f)
  /\ pendingFunctors' = Append(pendingFunctors, "moved-from")
  /\ callerPc' = [callerPc EXCEPT ![c] = "waking"]
  /\ UNCHANGED <<loopVars, quit, wakeupFd, quiet>>

\* Mutant: only the submission that finds the queue empty wakes the loop.
QueueInLoopWakesIfEmpty(c, f) ==
  /\ callerPc[c] = "idle"
  /\ NotInFlight(f)
  /\ pendingFunctors' = Append(pendingFunctors, f)
  /\ callerPc' = [callerPc EXCEPT ![c] =
                     IF pendingFunctors = <<>> THEN "waking" ELSE "idle"]
  /\ UNCHANGED <<loopVars, quit, wakeupFd, quiet>>

\* From another thread the append, under mutex_, and the write to the
\* eventfd are separate steps.  runInLoop() is this call there.
QueueInLoop(c, f) ==
  /\ callerPc[c] = "idle"
  /\ NotInFlight(f)
  /\ pendingFunctors' = Append(pendingFunctors, f)
  /\ callerPc' = [callerPc EXCEPT ![c] = "waking"]
  /\ UNCHANGED <<loopVars, quit, wakeupFd, quiet>>

\* Mutant: quit() sets the flag and leaves the loop in its poll.
QuitWithoutWakeup(c) ==
  /\ callerPc[c] = "idle"
  /\ quit' = TRUE
  /\ UNCHANGED <<loopVars, pendingFunctors, wakeupFd, callerPc, quiet>>

\* So are the store to quit_ and the write to the eventfd.
Quit(c) ==
  /\ callerPc[c] = "idle"
  /\ quit' = TRUE
  /\ callerPc' = [callerPc EXCEPT ![c] = "waking"]
  /\ UNCHANGED <<loopVars, pendingFunctors, wakeupFd, quiet>>

Wakeup(c) ==
  /\ callerPc[c] = "waking"
  /\ wakeupFd' = TRUE
  /\ callerPc' = [callerPc EXCEPT ![c] = "idle"]
  /\ UNCHANGED <<loopVars, quit, pendingFunctors, quiet>>

-----------------------------------------------------------------------------
\* The steps the loop makes by itself once it is entered, except the end of
\* a poll.
LoopStep ==
  \/ LoopContinue
  \/ LoopExit
  \/ HandleRead
  \/ \E ch \in IoChannels : BeginCallback(ch)
  \/ EndCallback
  \/ EndDispatch
  \/ SwapFunctors
  \/ BeginFunctor
  \/ EndFunctor
  \/ EndFunctors
  \/ FunctorsDestroyed

Next ==
  \/ LoopEnter
  \/ LoopStep
  \/ PollReady
  \/ PollTimeout
  \/ \E f \in Functors : OwnerQueueInLoop(f)
  \/ OwnerQuit
  \/ \E c \in Callers, f \in Functors : QueueInLoop(c, f)
  \/ \E c \in Callers : Quit(c)
  \/ \E c \in Callers : Wakeup(c)

Spec == Init /\ [][Next]_vars

(***************************************************************************)
(* Fairness.  The owner thread is scheduled and user code returns; a poll  *)
(* whose eventfd is readable returns; a thread inside a call finishes it.  *)
(* Nothing obliges user channels to become readable, clients to call, or   *)
(* the owner to enter loop().                                              *)
(***************************************************************************)
WakeupFairness ==
  /\ WF_vars(LoopStep)
  /\ WF_vars(wakeupFd /\ PollReady)
  /\ \A c \in Callers : WF_vars(Wakeup(c))

\* What the wakeups alone achieve, without the timeout of the poll.
FairSpec == Spec /\ WakeupFairness

\* Every poll returns after at most kPollTimeMs.
PollReturns == WF_vars(PollReady \/ PollTimeout)

-----------------------------------------------------------------------------
(* Properties. *)

\* Every variable of the loop has its type.
TypeOK ==
  /\ pc \in PCs
  /\ looping \in BOOLEAN
  /\ quit \in BOOLEAN
  /\ eventHandling \in BOOLEAN
  /\ callingPendingFunctors \in BOOLEAN
  /\ activeChannels \in SUBSET (IoChannels \cup {WakeupChannel})
  /\ pendingFunctors \in Seq(Functors)
  /\ functors \in Seq(Functors)
  /\ wakeupFd \in BOOLEAN
  /\ callerPc \in [Callers -> {"idle", "waking"}]
  /\ quiet \in SUBSET Functors

\* The eventfd is readable, or a thread is on its way to write it.
WakeupOwed == wakeupFd \/ \E c \in Callers : callerPc[c] = "waking"

\* Everything queued was queued by the owner outside loop() or in a destructor.
OnlyQuiet == \A i \in 1..Len(pendingFunctors) : pendingFunctors[i] \in quiet

\* No lost wakeup: a loop that sits in its poll while functors wait for it
\* has a wakeup coming, whichever thread queued them and whenever it did so
\* relative to the poll, the read of the eventfd and the swap.  The only
\* functors that may wait for the poll's timeout are those the owner queued
\* before it entered loop(), or while it destroyed the functors it had run.
NoLostWakeup == pc = "polling" => (OnlyQuiet \/ WakeupOwed)

\* No lost quit: a loop that sits in its poll after quit() was called on it
\* has a wakeup coming, so that it goes back to test quit_.
NoLostQuit == (pc = "polling" /\ quit) => WakeupOwed

\* quit() on a running loop ends it, however many functors other threads
\* keep queueing meanwhile and without any help from the poll's timeout.
QuitIsHonoured == (quit /\ looping) ~> ~looping

\* A functor queued on a running loop is started unless the loop ends, with
\* no help from the poll's timeout, unless the owner queued it before loop() or
\* in a destructor after callingPendingFunctors_ was cleared.
SignalledFunctorsStart ==
  \A f \in Functors :
    (looping /\ InSeq(f, pendingFunctors) /\ f \notin quiet)
      ~> (~looping \/ NotInFlight(f))

\* The loop is the queue of FunctorQueue: order of acceptance and exactly once;
\* and, with the timeout of its poll, no functor left unattended.
Executor == INSTANCE FunctorQueue
              WITH open <- looping, queue <- functors \o pendingFunctors
ImplementsExecutor ==
  /\ Executor!SafeSpec
  /\ PollReturns => Executor!Attended

=============================================================================
