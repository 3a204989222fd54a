--------------------------- MODULE EventLoopThread ---------------------------
(***************************************************************************)
(* muduo::net::EventLoopThread: a thread that runs an EventLoop on its     *)
(* stack, from the constructor of the owning object to its destructor,     *)
(* with what it is built on: Thread::start() and join(), CountDownLatch,   *)
(* MutexLock with its holder_, and Condition.                              *)
(*                                                                         *)
(* The owner creates the object, may call startLoop(), and destroys it.    *)
(* The child is the thread that startLoop() creates.  The program aborts   *)
(* when that thread cannot be created or something throws in it.           *)
(***************************************************************************)
EXTENDS Naturals

VARIABLES
  pc,                    \* where each thread stands
  phase,                 \* how far it is with the mutex it uses there
  pthread,               \* the thread that has each pthread_mutex_t
  holder,                \* holder_ of each MutexLock
  waiting,               \* threads asleep on each Condition, not notified
  count,                 \* count_ of the latch of thread_
  started,               \* thread_.started_
  loopPtr,               \* loop_ is not NULL
  quit,                  \* quit_ of the loop
  wakeupFd,              \* the loop's eventfd is readable
  selfQuit,              \* history: user code in the loop has called quit()
  aborted                \* the program has aborted

vars == <<pc, phase, pthread, holder, waiting, count, started, loopPtr, quit,
          wakeupFd, selfQuit, aborted>>

Threads == {"owner", "child"}
NoThread == "none"
Mutexes == {"latch",     \* of the CountDownLatch of thread_
            "loop"}      \* mutex_ of the EventLoopThread

OwnerPCs == {"new",        \* constructed
             "start",      \* in latch_.wait() of thread_.start()
             "startLoop",  \* in startLoop(), waiting for loop_
             "running",    \* startLoop() has returned
             "readLoop",   \* in the destructor, before it tests loop_
             "quit",       \* it saw a loop: before quit_ is stored
             "wakeup",     \* before the eventfd is written
             "join",       \* in thread_.join()
             "destroy",    \* before the members are destroyed
             "gone"}
ChildPCs == {"none",       \* not created yet
             "countDown",  \* in latch_->countDown()
             "construct",  \* constructs its EventLoop and runs callback_
             "publish",    \* sets loop_
             "enter",      \* in loop(), before quit_ is cleared
             "test",       \* before while (!quit_)
             "poll",       \* in an iteration of the loop
             "clear",      \* loop() has returned: clears loop_
             "loopDtor",   \* destroys its EventLoop
             "finished",
             "crashed"}    \* an exception has unwound its stack

\* The mutex used at those places where a thread uses one.
MutexAt(place) ==
  CASE place \in {"start", "countDown"} -> "latch"
    [] place \in {"startLoop", "publish", "clear"} -> "loop"
    [] OTHER -> NoThread

\* The child's EventLoop is constructed and not yet destroyed.
LoopLives == pc["child"] \in {"publish", "enter", "test", "poll", "clear"}

-----------------------------------------------------------------------------
Init ==
  /\ pc = [owner |-> "new", child |-> "none"]
  /\ phase = [t \in Threads |-> "out"]
  /\ pthread = [m \in Mutexes |-> NoThread]
  /\ holder = [m \in Mutexes |-> NoThread]
  /\ waiting = [m \in Mutexes |-> {}]
  /\ count = 1
  /\ started = FALSE
  /\ loopPtr = FALSE
  /\ quit = FALSE
  /\ wakeupFd = FALSE
  /\ selfQuit = FALSE
  /\ aborted = FALSE

Goto(t, place) == pc' = [pc EXCEPT ![t] = place]
Enter(t, p) == phase' = [phase EXCEPT ![t] = p]

-----------------------------------------------------------------------------
(* MutexLock and Condition.  A thread is "out" of the mutex, has "locked"  *)
(* the pthread mutex, is "in" once it is the holder, "done" when it has    *)
(* done there what it came for, and "leaving" when it is the holder no     *)
(* more; or it is "asleep" in a Condition.                                 *)

monitorVars == <<pthread, holder, waiting>>
sharedVars == <<count, started, loopPtr, quit, wakeupFd, selfQuit, aborted>>

\* pthread_mutex_lock(), also at the end of pthread_cond_wait().
PthreadLock(t, m) ==
  /\ pthread[m] = NoThread
  /\ pthread' = [pthread EXCEPT ![m] = t]
  /\ Enter(t, "locked")

Lock(t) ==
  LET m == MutexAt(pc[t]) IN
  /\ m \in Mutexes
  /\ phase[t] = "out"
  /\ PthreadLock(t, m)
  /\ UNCHANGED <<pc, holder, waiting, sharedVars>>

\* assignHolder(), by lock() and by the destructor of UnassignGuard.
AssignHolder(t) ==
  /\ phase[t] = "locked"
  /\ holder' = [holder EXCEPT ![MutexAt(pc[t])] = t]
  /\ Enter(t, "in")
  /\ UNCHANGED <<pc, pthread, waiting, sharedVars>>

\* unlock(): unassignHolder() ...
UnassignHolder(t) ==
  /\ phase[t] = "done"
  /\ holder' = [holder EXCEPT ![MutexAt(pc[t])] = NoThread]
  /\ Enter(t, "leaving")
  /\ UNCHANGED <<pc, pthread, waiting, sharedVars>>

\* ... and pthread_mutex_unlock() lets the next thread in.
After(place) ==
  CASE place = "start" -> "startLoop"
    [] place = "startLoop" -> "running"
    [] place = "countDown" -> "construct"
    [] place = "publish" -> "enter"
    [] place = "clear" -> "loopDtor"

Unlock(t) ==
  /\ phase[t] = "leaving"
  /\ pthread' = [pthread EXCEPT ![MutexAt(pc[t])] = NoThread]
  /\ Enter(t, "out")
  /\ Goto(t, After(pc[t]))
  /\ UNCHANGED <<holder, waiting, sharedVars>>

\* Mutant: a waiting thread stays the holder.
WaitWithoutGuard(t) ==
  LET m == MutexAt(pc[t]) IN
  /\ pthread' = [pthread EXCEPT ![m] = NoThread]
  /\ waiting' = [waiting EXCEPT ![m] = @ \cup {t}]
  /\ Enter(t, "asleep")
  /\ UNCHANGED <<pc, holder, sharedVars>>

\* Condition::wait(): UnassignGuard, then pthread_cond_wait() releases the
\* mutex and sleeps in one step.
Wait(t) ==
  LET m == MutexAt(pc[t]) IN
  /\ holder' = [holder EXCEPT ![m] = NoThread]
  /\ pthread' = [pthread EXCEPT ![m] = NoThread]
  /\ waiting' = [waiting EXCEPT ![m] = @ \cup {t}]
  /\ Enter(t, "asleep")
  /\ UNCHANGED <<pc, sharedVars>>

\* It wakes up when it was notified ...
Awake(t) ==
  LET m == MutexAt(pc[t]) IN
  /\ phase[t] = "asleep"
  /\ t \notin waiting[m]
  /\ PthreadLock(t, m)
  /\ UNCHANGED <<pc, holder, waiting, sharedVars>>

\* ... or spuriously.
SpuriousWakeup(t) ==
  LET m == MutexAt(pc[t]) IN
  /\ phase[t] = "asleep"
  /\ t \in waiting[m]
  /\ waiting' = [waiting EXCEPT ![m] = @ \ {t}]
  /\ UNCHANGED <<pc, phase, pthread, holder, sharedVars>>

\* Both notify() and notifyAll(): at most one thread waits here.
Notify(m) == waiting' = [waiting EXCEPT ![m] = {}]

-----------------------------------------------------------------------------
(* The owner. *)

Abort ==
  /\ aborted' = TRUE
  /\ UNCHANGED <<pc, phase, monitorVars, count, started, loopPtr, quit, wakeupFd, selfQuit>>

\* pthread_create() fails: LOG_SYSFATAL.
CreateFails ==
  /\ pc["owner"] = "new"
  /\ ~started
  /\ Abort

\* thread_.start(), up to the latch.
Start ==
  /\ pc["owner"] = "new"
  /\ ~started
  /\ started' = TRUE
  /\ pc' = [owner |-> "start", child |-> "countDown"]
  /\ UNCHANGED <<phase, monitorVars, count, loopPtr, quit, wakeupFd, selfQuit, aborted>>

\* latch_.wait() waits while the count is positive.
LatchWait ==
  /\ pc["owner"] = "start"
  /\ phase["owner"] = "in"
  /\ \/ count > 0 /\ Wait("owner")
     \/ count = 0 /\ Enter("owner", "done")
                  /\ UNCHANGED <<pc, monitorVars, sharedVars>>

\* Mutant: startLoop() does not wait for loop_.
NeverMissing == FALSE

\* startLoop() waits while loop_ is NULL.
LoopMissing == ~loopPtr

LoopWait ==
  /\ pc["owner"] = "startLoop"
  /\ phase["owner"] = "in"
  /\ \/ LoopMissing /\ Wait("owner")
     \/ ~LoopMissing /\ Enter("owner", "done")
                     /\ UNCHANGED <<pc, monitorVars, sharedVars>>

\* ~EventLoopThread(), of an object whose startLoop() has returned or was
\* never called.
BeginDestroy ==
  /\ pc["owner"] \in {"new", "running"}
  /\ Goto("owner", "readLoop")
  /\ UNCHANGED <<phase, monitorVars, sharedVars>>

\* Mutant: the destructor does not test loop_.
SeesAnyLoop == TRUE

\* loop_ is read without the mutex.
SeesLoop == loopPtr

ReadLoop ==
  /\ pc["owner"] = "readLoop"
  /\ Goto("owner", IF SeesLoop THEN "quit" ELSE "destroy")
  /\ UNCHANGED <<phase, monitorVars, sharedVars>>

\* Mutant: quit() wakes the loop up and does not store quit_.
QuitWithoutStore ==
  /\ pc["owner"] = "quit"
  /\ Goto("owner", "wakeup")
  /\ UNCHANGED <<phase, monitorVars, count, started, loopPtr, quit, wakeupFd, selfQuit, aborted>>

\* EventLoop::quit() from another thread.
Quit ==
  /\ pc["owner"] = "quit"
  /\ quit' = TRUE
  /\ Goto("owner", "wakeup")
  /\ UNCHANGED <<phase, monitorVars, count, started, loopPtr, wakeupFd, selfQuit, aborted>>

Wakeup ==
  /\ pc["owner"] = "wakeup"
  /\ wakeupFd' = TRUE
  /\ Goto("owner", "join")
  /\ UNCHANGED <<phase, monitorVars, count, started, loopPtr, quit, selfQuit, aborted>>

\* Mutant: the thread is not joined.
JoinableAlways == TRUE

\* pthread_join() returns when the thread has ended.
Joinable == pc["child"] = "finished"

Join ==
  /\ pc["owner"] = "join"
  /\ Joinable
  /\ Goto("owner", "destroy")
  /\ UNCHANGED <<phase, monitorVars, sharedVars>>

\* ~Condition(), ~MutexLock() and ~Thread(), which detaches a thread that was
\* not joined.
DestroyMembers ==
  /\ pc["owner"] = "destroy"
  /\ Goto("owner", "gone")
  /\ UNCHANGED <<phase, monitorVars, sharedVars>>

-----------------------------------------------------------------------------
(* The child. *)

CountDown ==
  /\ pc["child"] = "countDown"
  /\ phase["child"] = "in"
  /\ count' = count - 1
  /\ IF count' = 0 THEN Notify("latch") ELSE UNCHANGED waiting
  /\ Enter("child", "done")
  /\ UNCHANGED <<pc, pthread, holder, started, loopPtr, quit, wakeupFd, selfQuit, aborted>>

\* callback_ may quit the loop, in vain.
ConstructLoop ==
  /\ pc["child"] = "construct"
  /\ quit' \in BOOLEAN
  /\ Goto("child", "publish")
  /\ UNCHANGED <<phase, monitorVars, count, started, loopPtr, wakeupFd, selfQuit, aborted>>

\* Mutant: loop_ is set without notify().
PublishWithoutNotify ==
  /\ pc["child"] = "publish"
  /\ phase["child"] = "in"
  /\ loopPtr' = TRUE
  /\ Enter("child", "done")
  /\ UNCHANGED <<pc, monitorVars, count, started, quit, wakeupFd, selfQuit, aborted>>

Publish ==
  /\ pc["child"] = "publish"
  /\ phase["child"] = "in"
  /\ loopPtr' = TRUE
  /\ Notify("loop")
  /\ Enter("child", "done")
  /\ UNCHANGED <<pc, pthread, holder, count, started, quit, wakeupFd, selfQuit, aborted>>

\* loop() clears quit_.
EnterLoop ==
  /\ pc["child"] = "enter"
  /\ quit' = FALSE
  /\ Goto("child", "test")
  /\ UNCHANGED <<phase, monitorVars, count, started, loopPtr, wakeupFd, selfQuit, aborted>>

TestQuit ==
  /\ pc["child"] = "test"
  /\ Goto("child", IF quit THEN "clear" ELSE "poll")
  /\ UNCHANGED <<phase, monitorVars, sharedVars>>

\* One iteration: the poll returns for the eventfd, for another channel or
\* for its timeout; user code may quit the loop.
Iterate ==
  /\ pc["child"] = "poll"
  /\ wakeupFd' = FALSE
  /\ \/ UNCHANGED <<quit, selfQuit>>
     \/ quit' = TRUE /\ selfQuit' = TRUE
  /\ Goto("child", "test")
  /\ UNCHANGED <<phase, monitorVars, count, started, loopPtr, aborted>>

ClearLoop ==
  /\ pc["child"] = "clear"
  /\ phase["child"] = "in"
  /\ loopPtr' = FALSE
  /\ Enter("child", "done")
  /\ UNCHANGED <<pc, monitorVars, count, started, quit, wakeupFd, selfQuit, aborted>>

\* The guard of the mutex is destroyed before the loop.
DestroyLoop ==
  /\ pc["child"] = "loopDtor"
  /\ Goto("child", "finished")
  /\ UNCHANGED <<phase, monitorVars, sharedVars>>

\* User code throws, in callback_ or in the loop: the EventLoop is destroyed as
\* the stack is unwound, and loop_ is not cleared ...
Throw ==
  /\ pc["child"] \in {"construct", "poll"}
  /\ Goto("child", "crashed")
  /\ UNCHANGED <<phase, monitorVars, sharedVars>>

\* ... before runInThread() catches the exception.
Crash ==
  /\ pc["child"] = "crashed"
  /\ Abort

-----------------------------------------------------------------------------
OwnerStep == LatchWait \/ LoopWait \/ ReadLoop \/ Quit \/ Wakeup \/ Join
               \/ DestroyMembers
ChildStep == CountDown \/ ConstructLoop \/ Publish \/ EnterLoop \/ TestQuit
               \/ Iterate \/ ClearLoop \/ DestroyLoop \/ Crash
MonitorStep(t) == AssignHolder(t) \/ UnassignHolder(t) \/ Unlock(t)

Next ==
  /\ ~aborted
  /\ \/ Start
     \/ CreateFails
     \/ BeginDestroy
     \/ OwnerStep
     \/ ChildStep
     \/ Throw
     \/ \E t \in Threads : 
          Lock(t) \/ Awake(t) \/ MonitorStep(t) \/ SpuriousWakeup(t)

Spec == Init /\ [][Next]_vars

(***************************************************************************)
(* Fairness.  Both threads are scheduled, the poll of the child's loop     *)
(* returns at the latest after kPollTimeMs, and a mutex that is free again *)
(* and again is granted in the end, so that spurious wakeups of one thread *)
(* do not lock the other out.  Nothing obliges the owner to call           *)
(* startLoop() or to destroy the object, nor user code to quit the loop or *)
(* to throw.                                                               *)
(***************************************************************************)
FairSpec ==
  /\ Spec
  /\ WF_vars(~aborted /\ OwnerStep)
  /\ WF_vars(~aborted /\ ChildStep)
  /\ \A t \in Threads :
       /\ WF_vars(~aborted /\ MonitorStep(t))
       /\ SF_vars(~aborted /\ (Lock(t) \/ Awake(t)))

-----------------------------------------------------------------------------
(* Properties. *)

\* holder_ names a thread only while that thread has the pthread mutex, also
\* across the sleep in a Condition: what isLockedByThisThread() relies on.
HolderHasMutex ==
  \A m \in Mutexes : holder[m] # NoThread => pthread[m] = holder[m]

\* The loop is not gone, but for what user code in it has done: called quit()
\* or thrown, upon which the program is about to abort.
LivesOrEndedItself == LoopLives \/ selfQuit \/ pc["child"] = "crashed"

\* The pointer that startLoop() returns is that of a live loop, whatever
\* wakeups of the owner precede its publication, until user code ends it.
StartLoopReturnsLiveLoop == pc["owner"] = "running" => LivesOrEndedItself

\* The destructor calls quit() on a loop that is alive, although it reads
\* loop_ without the mutex, unless the loop ends by itself.  (The loop may be
\* gone before quit() writes its eventfd: EventLoop.cpp says so.)
QuitReachesLiveLoop == pc["owner"] = "quit" => LivesOrEndedItself

\* The members are destroyed after the child's thread has ended: nobody has
\* the mutexes or sleeps on the conditions, unless the loop quits by itself.
MembersOutliveThread ==
  (pc["owner"] \in {"destroy", "gone"} /\ started /\ ~selfQuit) =>
    /\ pc["child"] = "finished"
    /\ \A m \in Mutexes : pthread[m] = NoThread /\ waiting[m] = {}

\* startLoop() returns, whether the child publishes its loop before or after
\* the owner looks for it, unless the loop quits by itself meanwhile; if
\* callback_ throws, the owner does not wait for a loop that never comes.
StartLoopReturns ==
  (pc["owner"] = "start") ~> (pc["owner"] = "running" \/ selfQuit \/ aborted)

\* A destructor that quits a loop which is already past the start of loop()
\* ends the thread and returns.
DestructorReturns ==
  (pc["owner"] = "quit" /\ pc["child"] \in {"test", "poll"})
    ~> (pc["owner"] = "gone" \/ aborted)

\* Mutex.h: a MutexLock has no holder when it is destroyed.
DestroyedWithoutHolder ==
  pc["owner"] = "destroy" => \A m \in Mutexes : holder[m] = NoThread

=============================================================================
