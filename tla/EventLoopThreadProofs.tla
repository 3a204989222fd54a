----------------------- MODULE EventLoopThreadProofs -----------------------
(***************************************************************************)
(* Proofs about EventLoopThread: its mutexes have the holder they name,    *)
(* the loop that startLoop() returns and that the destructor quits is      *)
(* alive, nobody sleeps through a notify(), and the members outlive the    *)
(* thread.                                                                 *)
(***************************************************************************)
EXTENDS EventLoopThread, TLAPS

-----------------------------------------------------------------------------
(* The inductive invariant. *)

Phases == {"out", "locked", "in", "done", "leaving", "asleep"}

TypeOK ==
  /\ pc \in [Threads -> OwnerPCs \cup ChildPCs]
  /\ pc["owner"] \in OwnerPCs
  /\ pc["child"] \in ChildPCs
  /\ phase \in [Threads -> Phases]
  /\ pthread \in [Mutexes -> Threads \cup {NoThread}]
  /\ holder \in [Mutexes -> Threads \cup {NoThread}]
  /\ waiting \in [Mutexes -> SUBSET Threads]
  /\ count \in {0, 1}
  /\ started \in BOOLEAN /\ loopPtr \in BOOLEAN /\ quit \in BOOLEAN
  /\ wakeupFd \in BOOLEAN /\ selfQuit \in BOOLEAN /\ aborted \in BOOLEAN

\* A thread is at work on mutex m, and in one of these phases of it.
At(t, m, phases) == MutexAt(pc[t]) = m /\ phase[t] \in phases

HasPthread(t, m) == At(t, m, {"locked", "in", "done", "leaving"})
Holds(t, m) == At(t, m, {"in", "done"})
SleepsAt(t, m) == At(t, m, {"asleep"})

\* Where a thread stands says what mutex it has, holds and waits for.
MonitorInv ==
  \A t \in Threads :
    /\ phase[t] # "out" => MutexAt(pc[t]) \in Mutexes
    /\ \A m \in Mutexes :
         /\ pthread[m] = t <=> HasPthread(t, m)
         /\ holder[m] = t <=> Holds(t, m)
         /\ t \in waiting[m] => SleepsAt(t, m)

\* The child has done what it came for in the mutex that it is about to leave.
ChildHas(place) == pc["child"] = place /\ phase["child"] \in {"done", "leaving"}

\* The thread exists when startLoop() has created it.
StartInv ==
  /\ started <=> pc["child"] # "none"
  /\ pc["owner"] = "new" => ~started
  /\ pc["owner"] \in {"start", "startLoop", "running", "quit", "wakeup", "join"} => started

\* The latch is down just when the child has counted it down.
LatchInv ==
  count = 1 <=> pc["child"] = "none" \/ (pc["child"] = "countDown" /\ ~ChildHas("countDown"))

\* loop_ points to a loop that lives, or that an exception destroys.
PointerInv ==
  loopPtr => \/ pc["child"] \in {"publish", "enter", "test", "poll", "crashed"}
             \/ pc["child"] = "clear" /\ ~ChildHas("clear")

\* The child has cleared loop_.
Cleared == ChildHas("clear") \/ pc["child"] \in {"loopDtor", "finished"}

\* The owner has seen loop_ set, in startLoop() or in the destructor: the child
\* has not cleared it, or has done so since.
OwnerHasSeen ==
  \/ pc["owner"] = "startLoop" /\ phase["owner"] \in {"done", "leaving"}
  \/ pc["owner"] = "running"
  \/ pc["owner"] = "readLoop" /\ started
  \/ pc["owner"] = "quit"
SeenInv == OwnerHasSeen => loopPtr \/ Cleared

\* A loop only ends when user code in it or the destructor has quit it.
QuitInv ==
  (pc["child"] \in {"test", "poll"} /\ quit) \/ pc["child"] \in {"clear", "loopDtor", "finished"}
    => selfQuit \/ pc["owner"] \in {"wakeup", "join", "destroy", "gone"}

\* What the destructor has waited for.
JoinInv ==
  pc["owner"] \in {"destroy", "gone"} /\ started /\ ~selfQuit => pc["child"] = "finished"

\* Nobody sleeps on a condition that holds: whoever makes it hold notifies.
NoLostWakeup ==
  /\ waiting["latch"] # {} => count = 1
  /\ waiting["loop"] # {} => ~loopPtr

LoopInv == StartInv /\ LatchInv /\ PointerInv /\ SeenInv /\ QuitInv /\ JoinInv

IInv == TypeOK /\ MonitorInv /\ LoopInv /\ NoLostWakeup

-----------------------------------------------------------------------------
(* The mutexes. *)

\* A place has at most one mutex, and these have one.
LEMMA MutexPlaces ==
  /\ \A place \in OwnerPCs \cup ChildPCs : MutexAt(place) \in Mutexes \cup {NoThread}
  /\ \A place \in {"start", "countDown"} : MutexAt(place) = "latch"
  /\ \A place \in {"startLoop", "publish", "clear"} : MutexAt(place) = "loop"
  /\ \A place \in OwnerPCs \cup ChildPCs :
       place \notin {"start", "countDown", "startLoop", "publish", "clear"} =>
         MutexAt(place) = NoThread
BY DEF MutexAt, OwnerPCs, ChildPCs, Mutexes, NoThread

\* Nobody but the owner and the child, and neither is the other or nobody.
LEMMA ThreadNames ==
  /\ Threads = {"owner", "child"}
  /\ NoThread \notin Threads
  /\ NoThread \notin Mutexes
BY DEF Threads, NoThread, Mutexes

\* A thread that uses no mutex may go anywhere.
LEMMA MoveOutside ==
  ASSUME TypeOK, MonitorInv, NEW t \in Threads, NEW place, phase[t] = "out",
         Goto(t, place), UNCHANGED <<phase, monitorVars>>
  PROVE  MonitorInv'
<1>1. \A u \in Threads : pc'[u] = IF u = t THEN place ELSE pc[u]
  BY DEF TypeOK, Goto
<1>2. ASSUME NEW u \in Threads, NEW m \in Mutexes, NEW phases, "out" \notin phases
      PROVE  At(u, m, phases)' <=> At(u, m, phases)
  BY <1>1, <1>2 DEF At
<1>3. \A u \in Threads : phase[u] # "out" => pc'[u] = pc[u]
  BY <1>1
<1> QED
  BY <1>2, <1>3 DEF MonitorInv, HasPthread, Holds, SleepsAt, monitorVars

\* A thread without a mutex at its place uses none.
LEMMA OutsideThere ==
  ASSUME TypeOK, MonitorInv, NEW t \in Threads, MutexAt(pc[t]) = NoThread
  PROVE  phase[t] = "out"
BY ThreadNames DEF MonitorInv

\* The steps on a mutex by which a thread stays where it is.
LEMMA LockKeepsMonitor ==
  ASSUME TypeOK, MonitorInv, NEW t \in Threads, Lock(t) \/ Awake(t)
  PROVE  MonitorInv'
<1> DEFINE m == MutexAt(pc[t])
<1>1. m \in Mutexes /\ phase[t] \in {"out", "asleep"} /\ pc' = pc /\ holder' = holder
      /\ waiting' = waiting /\ t \notin waiting[m] /\ PthreadLock(t, m)
  BY DEF Lock, Awake, MonitorInv, SleepsAt, At
<1>2. /\ \A u \in Threads : phase'[u] = IF u = t THEN "locked" ELSE phase[u]
      /\ \A n \in Mutexes : pthread'[n] = IF n = m THEN t ELSE pthread[n]
      /\ pthread[m] = NoThread
  BY <1>1 DEF TypeOK, PthreadLock, Enter
<1> QED
  BY <1>1, <1>2, ThreadNames DEF MonitorInv, HasPthread, Holds, SleepsAt, At

\* assignHolder() and unassignHolder().
LEMMA HolderStepsKeepMonitor ==
  ASSUME TypeOK, MonitorInv, NEW t \in Threads, AssignHolder(t) \/ UnassignHolder(t)
  PROVE  MonitorInv'
<1> DEFINE m == MutexAt(pc[t])
<1>1. m \in Mutexes /\ pc' = pc /\ pthread' = pthread /\ waiting' = waiting
  BY DEF AssignHolder, UnassignHolder, MonitorInv
<1>2. CASE AssignHolder(t)
  <2>1. /\ \A u \in Threads : phase'[u] = IF u = t THEN "in" ELSE phase[u]
        /\ \A n \in Mutexes : holder'[n] = IF n = m THEN t ELSE holder[n]
        /\ phase[t] = "locked"
    BY <1>2 DEF TypeOK, AssignHolder, Enter
  <2> QED
    BY <1>1, <2>1, ThreadNames DEF MonitorInv, HasPthread, Holds, SleepsAt, At
<1>3. CASE UnassignHolder(t)
  <2>1. /\ \A u \in Threads : phase'[u] = IF u = t THEN "leaving" ELSE phase[u]
        /\ \A n \in Mutexes : holder'[n] = IF n = m THEN NoThread ELSE holder[n]
        /\ phase[t] = "done"
    BY <1>3 DEF TypeOK, UnassignHolder, Enter
  <2> QED
    BY <1>1, <2>1, ThreadNames DEF MonitorInv, HasPthread, Holds, SleepsAt, At
<1> QED
  BY <1>2, <1>3

\* pthread_mutex_unlock(), after which the thread goes on.
LEMMA UnlockKeepsMonitor ==
  ASSUME TypeOK, MonitorInv, NEW t \in Threads, Unlock(t)
  PROVE  MonitorInv'
<1> DEFINE m == MutexAt(pc[t])
<1>1. m \in Mutexes /\ phase[t] = "leaving" /\ holder' = holder /\ waiting' = waiting
  BY DEF Unlock, MonitorInv
<1>2. /\ \A u \in Threads : phase'[u] = IF u = t THEN "out" ELSE phase[u]
      /\ \A u \in Threads : pc'[u] = IF u = t THEN After(pc[t]) ELSE pc[u]
      /\ \A n \in Mutexes : pthread'[n] = IF n = m THEN NoThread ELSE pthread[n]
  BY DEF TypeOK, Unlock, Enter, Goto
<1> QED
  BY <1>1, <1>2, ThreadNames DEF MonitorInv, HasPthread, Holds, SleepsAt, At

\* Condition::wait() gives up the mutex and its holder.
LEMMA WaitKeepsMonitor ==
  ASSUME TypeOK, MonitorInv, NEW t \in Threads, phase[t] = "in", Wait(t)
  PROVE  MonitorInv'
<1> DEFINE m == MutexAt(pc[t])
<1>1. m \in Mutexes /\ pc' = pc
  BY DEF Wait, MonitorInv
<1>2. /\ \A u \in Threads : phase'[u] = IF u = t THEN "asleep" ELSE phase[u]
      /\ \A n \in Mutexes : pthread'[n] = IF n = m THEN NoThread ELSE pthread[n]
      /\ \A n \in Mutexes : holder'[n] = IF n = m THEN NoThread ELSE holder[n]
      /\ \A n \in Mutexes : waiting'[n] = IF n = m THEN waiting[m] \cup {t} ELSE waiting[n]
  BY DEF TypeOK, Wait, Enter
<1> QED
  BY <1>1, <1>2, ThreadNames DEF MonitorInv, HasPthread, Holds, SleepsAt, At

\* A thread that has the mutex does what it came for, and may notify the other.
LEMMA DoneKeepsMonitor ==
  ASSUME TypeOK, MonitorInv, NEW t \in Threads, phase[t] = "in", Enter(t, "done"),
         UNCHANGED <<pc, pthread, holder>>,
         \A m \in Mutexes : waiting'[m] \subseteq waiting[m]
  PROVE  MonitorInv'
<1>1. \A u \in Threads : phase'[u] = IF u = t THEN "done" ELSE phase[u]
  BY DEF TypeOK, Enter
<1> QED
  BY <1>1 DEF MonitorInv, HasPthread, Holds, SleepsAt, At

\* A thread that wakes up without a notification only leaves the sleepers.
LEMMA SpuriousKeepsMonitor ==
  ASSUME TypeOK, MonitorInv, NEW t \in Threads, SpuriousWakeup(t)
  PROVE  MonitorInv'
<1>1. \A m \in Mutexes : waiting'[m] \subseteq waiting[m]
  BY DEF TypeOK, SpuriousWakeup
<1> QED
  BY <1>1 DEF SpuriousWakeup, MonitorInv, HasPthread, Holds, SleepsAt, At

\* Nobody is in a mutex when the child is created.
LEMMA StartKeepsMonitor ==
  ASSUME TypeOK, MonitorInv, StartInv, Start
  PROVE  MonitorInv'
<1>1. pc["owner"] = "new" /\ pc["child"] = "none"
  BY DEF Start, StartInv
<1>2. \A t \in Threads : phase[t] = "out"
  BY <1>1, MutexPlaces, OutsideThere, ThreadNames DEF OwnerPCs, ChildPCs
<1> QED
  BY <1>2 DEF Start, MonitorInv, HasPthread, Holds, SleepsAt, At, monitorVars

\* Every step keeps the mutexes in order.
LEMMA MonitorKept ==
  ASSUME TypeOK, MonitorInv, StartInv, Next
  PROVE  MonitorInv'
<1> USE ThreadNames
<1>1. ASSUME NEW place, Goto("owner", place), UNCHANGED <<phase, monitorVars>>,
             pc["owner"] \in {"new", "running", "readLoop", "quit", "wakeup", "join", "destroy"}
      PROVE  MonitorInv'
  <2>1. phase["owner"] = "out"
    BY <1>1, MutexPlaces, OutsideThere DEF OwnerPCs
  <2> QED
    BY <1>1, <2>1, MoveOutside
<1>2. ASSUME NEW place, Goto("child", place), UNCHANGED <<phase, monitorVars>>,
             pc["child"] \in {"construct", "enter", "test", "poll", "loopDtor"}
      PROVE  MonitorInv'
  <2>1. phase["child"] = "out"
    BY <1>2, MutexPlaces, OutsideThere DEF ChildPCs
  <2> QED
    BY <1>2, <2>1, MoveOutside
<1>3. CASE Start
  BY <1>3, StartKeepsMonitor
<1>4. CASE CreateFails \/ Crash
  BY <1>4 DEF CreateFails, Crash, Abort, MonitorInv, HasPthread, Holds, SleepsAt, At, monitorVars
<1>5. CASE BeginDestroy
  BY <1>1, <1>5 DEF BeginDestroy
<1>6. CASE LatchWait
  <2>1. CASE Wait("owner")
    BY <1>6, <2>1, WaitKeepsMonitor DEF LatchWait
  <2>2. CASE Enter("owner", "done") /\ UNCHANGED <<pc, monitorVars, sharedVars>>
    BY <1>6, <2>2, DoneKeepsMonitor DEF LatchWait, monitorVars
  <2> QED
    BY <1>6, <2>1, <2>2 DEF LatchWait
<1>7. CASE LoopWait
  <2>1. CASE Wait("owner")
    BY <1>7, <2>1, WaitKeepsMonitor DEF LoopWait
  <2>2. CASE Enter("owner", "done") /\ UNCHANGED <<pc, monitorVars, sharedVars>>
    BY <1>7, <2>2, DoneKeepsMonitor DEF LoopWait, monitorVars
  <2> QED
    BY <1>7, <2>1, <2>2 DEF LoopWait
<1>8. CASE ReadLoop \/ Quit \/ Wakeup \/ Join \/ DestroyMembers
  BY <1>1, <1>8 DEF ReadLoop, Quit, Wakeup, Join, DestroyMembers
<1>9. CASE CountDown
  <2>1. \A m \in Mutexes : waiting'[m] \subseteq waiting[m]
    BY <1>9 DEF CountDown, Notify, TypeOK
  <2> QED
    BY <1>9, <2>1, DoneKeepsMonitor DEF CountDown
<1>10. CASE Publish
  <2>1. \A m \in Mutexes : waiting'[m] \subseteq waiting[m]
    BY <1>10 DEF Publish, Notify, TypeOK
  <2> QED
    BY <1>10, <2>1, DoneKeepsMonitor DEF Publish
<1>11. CASE ClearLoop
  BY <1>11, DoneKeepsMonitor DEF ClearLoop, monitorVars
<1>12. CASE ConstructLoop \/ EnterLoop \/ TestQuit \/ Iterate \/ DestroyLoop \/ Throw
  BY <1>2, <1>12 DEF ConstructLoop, EnterLoop, TestQuit, Iterate, DestroyLoop, Throw
<1>13. ASSUME NEW t \in Threads, Lock(t) \/ Awake(t) \/ MonitorStep(t) \/ SpuriousWakeup(t)
       PROVE  MonitorInv'
  BY <1>13, LockKeepsMonitor, HolderStepsKeepMonitor, UnlockKeepsMonitor, SpuriousKeepsMonitor
     DEF MonitorStep
<1> QED
  BY <1>3, <1>4, <1>5, <1>6, <1>7, <1>8, <1>9, <1>10, <1>11, <1>12, <1>13
     DEF Next, OwnerStep, ChildStep

-----------------------------------------------------------------------------
(* Types. *)

\* The invariant holds at first.
LEMMA InitIInv == Init => IInv
<1> SUFFICES ASSUME Init PROVE IInv
  OBVIOUS
<1>1. TypeOK
  <2>1. pc \in [Threads -> OwnerPCs \cup ChildPCs] /\ pc["owner"] = "new" /\ pc["child"] = "none"
    BY DEF Init, Threads, OwnerPCs, ChildPCs
  <2>2. /\ phase \in [Threads -> Phases]
        /\ pthread \in [Mutexes -> Threads \cup {NoThread}]
        /\ holder \in [Mutexes -> Threads \cup {NoThread}]
        /\ waiting \in [Mutexes -> SUBSET Threads]
    BY DEF Init, Phases
  <2>3. count = 1 /\ ~started /\ ~loopPtr /\ ~quit /\ ~wakeupFd /\ ~selfQuit /\ ~aborted
    BY DEF Init
  <2>4. /\ started \in BOOLEAN /\ loopPtr \in BOOLEAN /\ quit \in BOOLEAN
        /\ wakeupFd \in BOOLEAN /\ selfQuit \in BOOLEAN /\ aborted \in BOOLEAN
    BY DEF Init
  <2> QED
    BY <2>1, <2>2, <2>3, <2>4 DEF TypeOK, OwnerPCs, ChildPCs
<1>2. MonitorInv
  BY ThreadNames DEF Init, MonitorInv, HasPthread, Holds, SleepsAt, At
<1>3. LoopInv
  BY DEF Init, LoopInv, StartInv, LatchInv, PointerInv, SeenInv, OwnerHasSeen, Cleared, ChildHas,
         QuitInv, JoinInv
<1>4. NoLostWakeup
  BY DEF Init, NoLostWakeup
<1> QED
  BY <1>1, <1>2, <1>3, <1>4 DEF IInv

\* What unlocking leads to, of the places that have a mutex.
LEMMA AfterPlaces ==
  /\ After("start") = "startLoop" /\ After("startLoop") = "running"
  /\ After("countDown") = "construct" /\ After("publish") = "enter"
  /\ After("clear") = "loopDtor"
BY DEF After

\* A thread that is in a mutex stands at one of its places there.
LEMMA InsidePlaces ==
  ASSUME TypeOK, MonitorInv
  PROVE  /\ phase["owner"] # "out" => pc["owner"] \in {"start", "startLoop"}
         /\ phase["child"] # "out" => pc["child"] \in {"countDown", "publish", "clear"}
BY MutexPlaces, ThreadNames DEF TypeOK, MonitorInv, OwnerPCs, ChildPCs

\* Every step keeps the types.
LEMMA TypesKept ==
  ASSUME TypeOK, MonitorInv, LoopInv, Next
  PROVE  TypeOK'
<1> USE ThreadNames DEF Mutexes
<1>1. CASE Start
  BY <1>1 DEF TypeOK, Start, OwnerPCs, ChildPCs, monitorVars
<1>2. CASE CreateFails \/ Crash
  BY <1>2 DEF TypeOK, CreateFails, Crash, Abort, monitorVars
<1>3. CASE BeginDestroy \/ ReadLoop \/ Quit \/ Wakeup \/ Join \/ DestroyMembers
  BY <1>3 DEF TypeOK, BeginDestroy, ReadLoop, Quit, Wakeup, Join, DestroyMembers, Goto, OwnerPCs,
              monitorVars, sharedVars
<1>4. CASE LatchWait \/ LoopWait
  BY <1>4 DEF TypeOK, LatchWait, LoopWait, Wait, Enter, Phases, monitorVars, sharedVars
<1>5. CASE CountDown
  <2>1. count = 1
    BY <1>5 DEF CountDown, LoopInv, LatchInv, ChildHas, TypeOK
  <2> QED
    BY <1>5, <2>1 DEF TypeOK, CountDown, Notify, Enter, Phases
<1>6. CASE Publish \/ ClearLoop
  <2>1. CASE Publish
    BY <2>1 DEF TypeOK, Publish, Notify, Enter, Phases
  <2>2. CASE ClearLoop
    BY <2>2 DEF TypeOK, ClearLoop, Enter, Phases, monitorVars
  <2> QED
    BY <1>6, <2>1, <2>2
<1>7. CASE ConstructLoop \/ EnterLoop \/ TestQuit \/ Iterate \/ DestroyLoop \/ Throw
  <2>1. CASE ConstructLoop
    BY <2>1 DEF TypeOK, ConstructLoop, Goto, ChildPCs, monitorVars
  <2>2. CASE Iterate
    BY <2>2 DEF TypeOK, Iterate, Goto, ChildPCs, monitorVars
  <2>3. CASE EnterLoop
    BY <2>3 DEF TypeOK, EnterLoop, Goto, ChildPCs, monitorVars
  <2>4. CASE TestQuit \/ DestroyLoop \/ Throw
    BY <2>4 DEF TypeOK, TestQuit, DestroyLoop, Throw, Goto, ChildPCs, monitorVars, sharedVars
  <2> QED
    BY <1>7, <2>1, <2>2, <2>3, <2>4
<1>8. ASSUME NEW t \in Threads, Lock(t) \/ Awake(t) \/ AssignHolder(t) \/ UnassignHolder(t)
      PROVE  TypeOK'
  <2>1. MutexAt(pc[t]) \in Mutexes
    BY <1>8 DEF Lock, Awake, AssignHolder, UnassignHolder, MonitorInv
  <2> QED
    BY <1>8, <2>1 DEF TypeOK, Lock, Awake, AssignHolder, UnassignHolder, PthreadLock, Enter, Phases,
                      sharedVars
<1>9. ASSUME NEW t \in Threads, Unlock(t) PROVE TypeOK'
  <2>1. MutexAt(pc[t]) \in Mutexes
    BY <1>9 DEF Unlock, MonitorInv
  <2>2. CASE t = "owner"
    <3>1. After(pc[t]) \in {"startLoop", "running"}
      BY <1>9, <2>2, InsidePlaces, AfterPlaces DEF Unlock
    <3> QED
      BY <1>9, <2>1, <2>2, <3>1 DEF TypeOK, Unlock, Enter, Goto, Phases, OwnerPCs, sharedVars
  <2>3. CASE t = "child"
    <3>1. After(pc[t]) \in {"construct", "enter", "loopDtor"}
      BY <1>9, <2>3, InsidePlaces, AfterPlaces DEF Unlock
    <3> QED
      BY <1>9, <2>1, <2>3, <3>1 DEF TypeOK, Unlock, Enter, Goto, Phases, ChildPCs, sharedVars
  <2> QED
    BY <2>2, <2>3
<1>10. ASSUME NEW t \in Threads, SpuriousWakeup(t) PROVE TypeOK'
  BY <1>10 DEF TypeOK, SpuriousWakeup, sharedVars
<1> QED
  BY <1>1, <1>2, <1>3, <1>4, <1>5, <1>6, <1>7, <1>8, <1>9, <1>10
     DEF Next, OwnerStep, ChildStep, MonitorStep

-----------------------------------------------------------------------------
(* The life of the loop. *)

\* One thread moves, the other stays where it is.
LEMMA OneMoves ==
  ASSUME TypeOK, NEW place
  PROVE  /\ Goto("owner", place) => pc'["owner"] = place /\ pc'["child"] = pc["child"]
         /\ Goto("child", place) => pc'["child"] = place /\ pc'["owner"] = pc["owner"]
         /\ Enter("owner", place) => phase'["owner"] = place /\ phase'["child"] = phase["child"]
         /\ Enter("child", place) => phase'["child"] = place /\ phase'["owner"] = phase["owner"]
BY DEF TypeOK, Goto, Enter, Threads

\* What a step on a mutex may change of that.
LEMMA MonitorStepsKeepLoop ==
  ASSUME TypeOK, MonitorInv, LoopInv, NEW t \in Threads,
         Lock(t) \/ Awake(t) \/ MonitorStep(t) \/ SpuriousWakeup(t)
  PROVE  LoopInv'
<1> USE OneMoves DEF LoopInv, StartInv, LatchInv, PointerInv, SeenInv, OwnerHasSeen, Cleared,
        ChildHas, QuitInv, JoinInv
<1>1. CASE Lock(t) \/ Awake(t)
  <2>1. Enter(t, "locked") /\ UNCHANGED <<pc, sharedVars>> /\ phase[t] \in {"out", "asleep"}
    BY <1>1 DEF Lock, Awake, PthreadLock
  <2> QED
    BY <2>1 DEF Threads, sharedVars
<1>2. CASE AssignHolder(t)
  BY <1>2 DEF AssignHolder, Threads, sharedVars
<1>3. CASE UnassignHolder(t)
  BY <1>3 DEF UnassignHolder, Threads, sharedVars
<1>4. CASE Unlock(t) /\ t = "owner"
  <2>1. \/ pc["owner"] = "start" /\ pc'["owner"] = "startLoop"
        \/ pc["owner"] = "startLoop" /\ pc'["owner"] = "running"
    BY <1>4, InsidePlaces, AfterPlaces DEF Unlock
  <2> QED
    BY <1>4, <2>1 DEF Unlock, sharedVars
<1>5. CASE Unlock(t) /\ t = "child"
  <2>1. \/ pc["child"] = "countDown" /\ pc'["child"] = "construct"
        \/ pc["child"] = "publish" /\ pc'["child"] = "enter"
        \/ pc["child"] = "clear" /\ pc'["child"] = "loopDtor"
    BY <1>5, InsidePlaces, AfterPlaces DEF Unlock
  <2> QED
    BY <1>5, <2>1 DEF Unlock, sharedVars
<1>6. CASE SpuriousWakeup(t)
  BY <1>6 DEF SpuriousWakeup, sharedVars
<1> QED
  BY <1>1, <1>2, <1>3, <1>4, <1>5, <1>6 DEF MonitorStep, Threads

\* What the owner's own steps may change of it.
LEMMA OwnerStepsKeepLoop ==
  ASSUME TypeOK, MonitorInv, LoopInv, Start \/ BeginDestroy \/ OwnerStep
  PROVE  LoopInv'
<1> USE OneMoves DEF LoopInv, StartInv, LatchInv, PointerInv, SeenInv, OwnerHasSeen, Cleared,
        ChildHas, QuitInv, JoinInv
<1>1. CASE Start
  <2>1. pc'["owner"] = "start" /\ pc'["child"] = "countDown" /\ phase["child"] = "out"
    BY <1>1, MutexPlaces, OutsideThere DEF Start, ChildPCs, Threads
  <2> QED
    BY <1>1, <2>1 DEF Start
<1>2. CASE BeginDestroy
  BY <1>2 DEF BeginDestroy, sharedVars
<1>3. CASE LatchWait \/ LoopWait
  <2>1. CASE Wait("owner")
    BY <1>3, <2>1 DEF LatchWait, LoopWait, Wait, sharedVars
  <2>2. CASE Enter("owner", "done") /\ UNCHANGED <<pc, sharedVars>>
    BY <1>3, <2>2 DEF LatchWait, LoopWait, LoopMissing, Wait, sharedVars
  <2> QED
    BY <1>3, <2>1, <2>2 DEF LatchWait, LoopWait
<1>4. CASE ReadLoop
  BY <1>4 DEF ReadLoop, SeesLoop, sharedVars
<1>5. CASE Quit
  BY <1>5 DEF Quit
<1>6. CASE Wakeup
  BY <1>6 DEF Wakeup
<1>7. CASE Join
  BY <1>7 DEF Join, Joinable, sharedVars
<1>8. CASE DestroyMembers
  BY <1>8 DEF DestroyMembers, sharedVars
<1> QED
  BY <1>1, <1>2, <1>3, <1>4, <1>5, <1>6, <1>7, <1>8 DEF OwnerStep

\* What those of the child and of user code in its loop may.
LEMMA ChildStepsKeepLoop ==
  ASSUME TypeOK, MonitorInv, LoopInv, Throw \/ ChildStep
  PROVE  LoopInv'
<1> USE OneMoves DEF LoopInv, StartInv, LatchInv, PointerInv, SeenInv, OwnerHasSeen, Cleared,
        ChildHas, QuitInv, JoinInv
<1>1. CASE CountDown
  BY <1>1 DEF CountDown, TypeOK
<1>2. CASE ConstructLoop
  BY <1>2 DEF ConstructLoop
<1>3. CASE Publish
  BY <1>3 DEF Publish
<1>4. CASE EnterLoop
  BY <1>4 DEF EnterLoop
<1>5. CASE TestQuit
  BY <1>5, MutexPlaces, OutsideThere DEF TestQuit, sharedVars, ChildPCs, Threads
<1>6. CASE Iterate
  BY <1>6 DEF Iterate
<1>7. CASE ClearLoop
  BY <1>7 DEF ClearLoop
<1>8. CASE DestroyLoop \/ Throw
  BY <1>8 DEF DestroyLoop, Throw, sharedVars
<1>9. CASE Crash
  BY <1>9 DEF Crash, Abort
<1> QED
  BY <1>1, <1>2, <1>3, <1>4, <1>5, <1>6, <1>7, <1>8, <1>9 DEF ChildStep

\* Every step keeps the pointer, the latch and the order of the two threads.
LEMMA LoopKept ==
  ASSUME TypeOK, MonitorInv, LoopInv, Next
  PROVE  LoopInv'
<1>1. CASE CreateFails
  BY <1>1 DEF CreateFails, Abort, LoopInv, StartInv, LatchInv, PointerInv, SeenInv, OwnerHasSeen,
              Cleared, ChildHas, QuitInv, JoinInv
<1> QED
  BY <1>1, MonitorStepsKeepLoop, OwnerStepsKeepLoop, ChildStepsKeepLoop DEF Next

-----------------------------------------------------------------------------
(* Sleep. *)

\* Every step that makes a condition true wakes its sleepers.
LEMMA WakeupsKept ==
  ASSUME TypeOK, MonitorInv, LoopInv, NoLostWakeup, Next
  PROVE  NoLostWakeup'
<1>1. CASE LatchWait
  <2>1. CASE count > 0 /\ Wait("owner")
    <3>1. waiting'["loop"] = waiting["loop"] /\ count = 1
      BY <1>1, <2>1, MutexPlaces DEF LatchWait, Wait, TypeOK, Mutexes
    <3> QED
      BY <2>1, <3>1 DEF NoLostWakeup, Wait, sharedVars
  <2>2. CASE UNCHANGED <<monitorVars, sharedVars>>
    BY <2>2 DEF NoLostWakeup, monitorVars, sharedVars
  <2> QED
    BY <1>1, <2>1, <2>2 DEF LatchWait
<1>2. CASE LoopWait
  <2>1. CASE LoopMissing /\ Wait("owner")
    <3>1. waiting'["latch"] = waiting["latch"]
      BY <1>2, <2>1, MutexPlaces DEF LoopWait, Wait, TypeOK, Mutexes
    <3> QED
      BY <2>1, <3>1 DEF NoLostWakeup, LoopMissing, Wait, sharedVars
  <2>2. CASE UNCHANGED <<monitorVars, sharedVars>>
    BY <2>2 DEF NoLostWakeup, monitorVars, sharedVars
  <2> QED
    BY <1>2, <2>1, <2>2 DEF LoopWait
<1>3. CASE CountDown
  <2>1. count' = 0
    BY <1>3 DEF CountDown, LoopInv, LatchInv, ChildHas, TypeOK
  <2>2. waiting'["latch"] = {} /\ waiting'["loop"] = waiting["loop"]
    BY <1>3, <2>1 DEF CountDown, Notify, TypeOK, Mutexes
  <2> QED
    BY <1>3, <2>2 DEF NoLostWakeup, CountDown
<1>4. CASE Publish
  <2>1. waiting'["loop"] = {} /\ waiting'["latch"] = waiting["latch"]
    BY <1>4 DEF Publish, Notify, TypeOK, Mutexes
  <2> QED
    BY <1>4, <2>1 DEF NoLostWakeup, Publish
<1>5. ASSUME NEW t \in Threads, SpuriousWakeup(t)
      PROVE  NoLostWakeup'
  <2>1. \A m \in Mutexes : waiting'[m] \subseteq waiting[m]
    BY <1>5 DEF SpuriousWakeup, TypeOK
  <2> QED
    BY <1>5, <2>1 DEF NoLostWakeup, SpuriousWakeup, sharedVars, Mutexes
<1>6. CASE Start \/ CreateFails \/ BeginDestroy \/ Throw
  BY <1>6 DEF NoLostWakeup, Start, CreateFails, BeginDestroy, Throw, Abort, monitorVars, sharedVars
<1>7. CASE ReadLoop \/ Quit \/ Wakeup \/ Join \/ DestroyMembers
  BY <1>7 DEF NoLostWakeup, ReadLoop, Quit, Wakeup, Join, DestroyMembers, monitorVars, sharedVars
<1>8. CASE ConstructLoop \/ EnterLoop \/ TestQuit \/ Iterate \/ ClearLoop \/ DestroyLoop \/ Crash
  BY <1>8 DEF NoLostWakeup, ConstructLoop, EnterLoop, TestQuit, Iterate, ClearLoop,
              DestroyLoop, Crash, Abort, monitorVars, sharedVars
<1>9. ASSUME NEW t \in Threads, Lock(t) \/ Awake(t) \/ MonitorStep(t)
      PROVE  NoLostWakeup'
  BY <1>9 DEF NoLostWakeup, Lock, Awake, MonitorStep, AssignHolder, UnassignHolder, Unlock, sharedVars
<1> QED
  BY <1>1, <1>2, <1>3, <1>4, <1>5, <1>6, <1>7, <1>8, <1>9 DEF Next, OwnerStep, ChildStep

\* The invariant is inductive.
THEOREM Invariance == Spec => []IInv
<1>1. IInv /\ [Next]_vars => IInv'
  <2>1. CASE IInv /\ Next
    BY <2>1, TypesKept, MonitorKept, LoopKept, WakeupsKept DEF IInv, LoopInv
  <2>2. CASE IInv /\ UNCHANGED vars
    BY <2>2 DEF IInv, TypeOK, MonitorInv, HasPthread, Holds, SleepsAt, At, LoopInv, StartInv,
                LatchInv, PointerInv, SeenInv, OwnerHasSeen, Cleared, ChildHas, QuitInv, JoinInv,
                NoLostWakeup, vars
  <2> QED
    BY <2>1, <2>2
<1> QED
  BY <1>1, InitIInv, PTL DEF Spec

-----------------------------------------------------------------------------
(* The properties. *)

\* holder_ names a thread only while that thread has the pthread mutex, across
\* both ways out of Condition::wait().
THEOREM HolderIsRight == Spec => []HolderHasMutex
<1>1. IInv => HolderHasMutex
  BY DEF IInv, TypeOK, MonitorInv, HasPthread, Holds, At, HolderHasMutex
<1> QED
  BY <1>1, Invariance, PTL

\* startLoop() returns the pointer of a live loop, in every order of the two
\* threads and with any spurious wakeups, until user code ends the loop.
THEOREM StartedLoopLives == Spec => []StartLoopReturnsLiveLoop
<1>1. IInv => StartLoopReturnsLiveLoop
  <2> SUFFICES ASSUME IInv, pc["owner"] = "running" PROVE LivesOrEndedItself
    BY DEF StartLoopReturnsLiveLoop
  <2>1. loopPtr \/ Cleared
    BY DEF IInv, LoopInv, SeenInv, OwnerHasSeen
  <2> QED
    BY <2>1 DEF IInv, LoopInv, PointerInv, QuitInv, Cleared, ChildHas, LivesOrEndedItself, LoopLives
<1> QED
  BY <1>1, Invariance, PTL

\* The destructor, which reads loop_ without the mutex, calls quit() on a live
\* loop, unless user code has ended it.
THEOREM QuitLoopLives == Spec => []QuitReachesLiveLoop
<1>1. IInv => QuitReachesLiveLoop
  <2> SUFFICES ASSUME IInv, pc["owner"] = "quit" PROVE LivesOrEndedItself
    BY DEF QuitReachesLiveLoop
  <2>1. loopPtr \/ Cleared
    BY DEF IInv, LoopInv, SeenInv, OwnerHasSeen
  <2> QED
    BY <2>1 DEF IInv, LoopInv, PointerInv, QuitInv, Cleared, ChildHas, LivesOrEndedItself, LoopLives
<1> QED
  BY <1>1, Invariance, PTL

\* The mutexes and conditions are destroyed when the child's thread has ended
\* and nobody uses them, unless user code in the loop has quit it.
THEOREM MembersLast == Spec => []MembersOutliveThread
<1>1. IInv => MembersOutliveThread
  <2> SUFFICES ASSUME IInv, pc["owner"] \in {"destroy", "gone"}, started, ~selfQuit
               PROVE  /\ pc["child"] = "finished"
                      /\ \A m \in Mutexes : pthread[m] = NoThread /\ waiting[m] = {}
    BY DEF MembersOutliveThread
  <2>1. pc["child"] = "finished"
    BY DEF IInv, LoopInv, JoinInv
  <2>2. \A t \in Threads : MutexAt(pc[t]) = NoThread
    BY <2>1, MutexPlaces, ThreadNames DEF OwnerPCs, ChildPCs
  <2>3. \A t \in Threads, m \in Mutexes : pthread[m] # t /\ t \notin waiting[m]
    BY <2>2, ThreadNames DEF IInv, MonitorInv, HasPthread, SleepsAt, At
  <2> QED
    BY <2>1, <2>3 DEF IInv, TypeOK
<1> QED
  BY <1>1, Invariance, PTL

\* No wakeup is lost: a thread that sleeps in Condition::wait() and was not
\* notified waits for something that is still to come, the latch or loop_.
THEOREM NobodySleepsThroughNotify == Spec => []NoLostWakeup
<1>1. IInv => NoLostWakeup
  BY DEF IInv
<1> QED
  BY <1>1, Invariance, PTL

=============================================================================
