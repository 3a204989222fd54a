-------------------------- MODULE TimerQueueProofs --------------------------
(***************************************************************************)
(* Proofs about TimerQueue, for any threads, addresses, times and bounds:  *)
(* its two sets agree, every timer has one owner, the timerfd is armed     *)
(* while timers wait, and a cancelled timer does not come back.  At the    *)
(* end, that it implements Timers: what the code does with pointers, two   *)
(* sets, a list of timers that were cancelled meanwhile and the sequence   *)
(* numbers comes to the same as a queue of timers that are known by their  *)
(* numbers alone.                                                          *)
(***************************************************************************)
EXTENDS TimerQueue, TLAPS

-----------------------------------------------------------------------------
(* The queue of requests. *)

\* The queue q holds a request to add the timer at address a.
AddsTimer(q, a) ==
  \E i \in 1..Len(q) : q[i].op = "add" /\ q[i].timer[1] = a

\* No timer is to be added twice.
AddsOnce(q) ==
  \A i, j \in 1..Len(q) :
    (q[i].op = "add" /\ q[j].op = "add" /\ q[i].timer[1] = q[j].timer[1]) => i = j

\* What Append does to a queue, entry by entry.
LEMMA AppendFacts ==
  ASSUME NEW S, NEW q \in Seq(S), NEW r \in S
  PROVE  /\ Append(q, r) \in Seq(S)
         /\ Len(Append(q, r)) = Len(q) + 1
         /\ \A i \in 1..Len(q) : Append(q, r)[i] = q[i]
         /\ Append(q, r)[Len(q) + 1] = r
OBVIOUS

\* What Tail does to a queue, entry by entry.
LEMMA TailFacts ==
  ASSUME NEW S, NEW q \in Seq(S), q # <<>>
  PROVE  /\ Tail(q) \in Seq(S)
         /\ Len(Tail(q)) = Len(q) - 1
         /\ Len(q) \in Nat \ {0}
         /\ \A i \in 1..Len(q) - 1 : Tail(q)[i] = q[i + 1]
         /\ Head(q) = q[1]
         /\ Head(q) \in S
OBVIOUS

\* A new request adds the timer it names, if it is one to add.
LEMMA QueueAppend ==
  ASSUME NEW q \in Seq(Request), NEW r \in Request
  PROVE  /\ \A a : AddsTimer(Append(q, r), a)
                     <=> AddsTimer(q, a) \/ (r.op = "add" /\ r.timer[1] = a)
         /\ (AddsOnce(q) /\ (r.op = "add" => ~AddsTimer(q, r.timer[1])))
              => AddsOnce(Append(q, r))
<1> DEFINE p == Append(q, r)
           n == Len(q)
<1>1. /\ Len(p) = n + 1 /\ n \in Nat
      /\ \A i \in 1..n : p[i] = q[i]
      /\ p[n + 1] = r
  BY AppendFacts
<1> HIDE DEF p
<1>2. ASSUME NEW a
      PROVE  AddsTimer(p, a) <=> AddsTimer(q, a) \/ (r.op = "add" /\ r.timer[1] = a)
  <2>1. ASSUME AddsTimer(p, a)
        PROVE  AddsTimer(q, a) \/ (r.op = "add" /\ r.timer[1] = a)
    BY <1>1, <2>1 DEF AddsTimer
  <2>2. ASSUME AddsTimer(q, a) PROVE AddsTimer(p, a)
    BY <1>1, <2>2 DEF AddsTimer
  <2>3. ASSUME r.op = "add", r.timer[1] = a PROVE AddsTimer(p, a)
    <3>1. n + 1 \in 1..Len(p)
      BY <1>1
    <3> QED
      BY <1>1, <2>3, <3>1 DEF AddsTimer
  <2> QED
    BY <2>1, <2>2, <2>3
<1>3. ASSUME AddsOnce(q), r.op = "add" => ~AddsTimer(q, r.timer[1]),
             NEW i \in 1..Len(p), NEW j \in 1..Len(p),
             p[i].op = "add", p[j].op = "add", p[i].timer[1] = p[j].timer[1]
      PROVE  i = j
  <2>1. CASE i \in 1..n /\ j \in 1..n
    BY <1>1, <1>3, <2>1 DEF AddsOnce
  <2>2. CASE i = n + 1 /\ j \in 1..n
    BY <1>1, <1>3, <2>2 DEF AddsTimer
  <2>3. CASE j = n + 1 /\ i \in 1..n
    BY <1>1, <1>3, <2>3 DEF AddsTimer
  <2> QED
    BY <1>1, <2>1, <2>2, <2>3
<1> QED
  BY <1>2, <1>3 DEF AddsOnce, p

\* A request that is taken from the queue takes its timer with it.
LEMMA QueueTail ==
  ASSUME NEW q \in Seq(Request), q # <<>>, AddsOnce(q)
  PROVE  /\ \A a : AddsTimer(Tail(q), a)
                     <=> /\ AddsTimer(q, a)
                         /\ ~(Head(q).op = "add" /\ Head(q).timer[1] = a)
         /\ AddsOnce(Tail(q))
         /\ Head(q).op = "add" => AddsTimer(q, Head(q).timer[1])
<1> DEFINE p == Tail(q)
           n == Len(q)
<1>1. /\ Len(p) = n - 1 /\ n \in Nat \ {0}
      /\ \A i \in 1..n - 1 : p[i] = q[i + 1]
      /\ Head(q) = q[1]
  BY TailFacts
<1> HIDE DEF p
<1>2. ASSUME NEW a, AddsTimer(p, a)
      PROVE  AddsTimer(q, a) /\ ~(q[1].op = "add" /\ q[1].timer[1] = a)
  <2>1. PICK i \in 1..n - 1 : q[i + 1].op = "add" /\ q[i + 1].timer[1] = a
    BY <1>1, <1>2 DEF AddsTimer
  <2>2. i + 1 \in 1..n /\ 1 \in 1..n /\ i + 1 # 1
    BY <1>1
  <2> QED
    BY <2>1, <2>2 DEF AddsTimer, AddsOnce
<1>3. ASSUME NEW a, AddsTimer(q, a), ~(q[1].op = "add" /\ q[1].timer[1] = a)
      PROVE  AddsTimer(p, a)
  <2>1. PICK i \in 1..n : q[i].op = "add" /\ q[i].timer[1] = a
    BY <1>3 DEF AddsTimer
  <2>2. i # 1
    BY <1>3, <2>1
  <2>3. i - 1 \in 1..Len(p) /\ p[i - 1] = q[i]
    BY <1>1, <2>2
  <2> QED
    BY <2>1, <2>3 DEF AddsTimer
<1>4. AddsOnce(p)
  <2> SUFFICES ASSUME NEW i \in 1..n - 1, NEW j \in 1..n - 1,
                      p[i].op = "add", p[j].op = "add", p[i].timer[1] = p[j].timer[1]
               PROVE  i = j
    BY <1>1 DEF AddsOnce
  <2>1. i + 1 \in 1..n /\ j + 1 \in 1..n
    BY <1>1
  <2>2. i + 1 = j + 1
    BY <1>1, <2>1 DEF AddsOnce
  <2> QED
    BY <2>2
<1>5. ASSUME q[1].op = "add" PROVE AddsTimer(q, q[1].timer[1])
  BY <1>1, <1>5 DEF AddsTimer
<1> QED
  BY <1>1, <1>2, <1>3, <1>4, <1>5 DEF p

-----------------------------------------------------------------------------
(* The types. *)

\* The bounds are positive numbers.
LEMMA Bounds == MaxTime \in Nat \ {0} /\ MaxTimers \in Nat \ {0}
BY TimerAssumption

\* howMuchTimeFromNow() is a positive delay.
LEMMA DelayIsPositive ==
  ASSUME TypeOK, NEW when \in Nat
  PROVE  HowMuchTimeFromNow(when) \in Nat \ {0}
BY TimerAssumption DEF HowMuchTimeFromNow, TypeOK

\* resetTimerfd() arms the timerfd.
LEMMA ResetArms ==
  ASSUME TypeOK, NEW when \in Nat, ResetTimerfd(when)
  PROVE  timerfd' \in Nat /\ timerfd' # Disarmed
BY DelayIsPositive DEF ResetTimerfd, Disarmed

\* The types of what addTimerInLoop() writes.
LEMMA AddTimerTypes ==
  ASSUME TypeOK, NEW a \in Addrs,
         NEW timer \in Timer,
         AddTimerInLoop(a, timer)
  PROVE  /\ timers' \subseteq Nat \X Addrs
         /\ activeTimers' \subseteq TimerIds
         /\ timerfd' \in Nat \cup {Disarmed}
<1>1. timer.expiration \in Nat /\ timer.sequence \in 0..MaxTimers
  BY DEF Timer
<1>2. timers' \subseteq Nat \X Addrs /\ activeTimers' \subseteq TimerIds
  BY <1>1 DEF AddTimerInLoop, Insert, TypeOK, Timer, TimerIds
<1>3. timerfd' \in Nat \cup {Disarmed}
  <2>1. CASE EarliestChanged(timer.expiration)
    BY <1>1, <2>1, ResetArms DEF AddTimerInLoop, Insert
  <2>2. CASE ~EarliestChanged(timer.expiration)
    BY <2>2 DEF AddTimerInLoop, Insert, TypeOK, Timer
  <2> QED
    BY <2>1, <2>2
<1> QED
  BY <1>2, <1>3

\* The types of what cancelInLoop() writes.
LEMMA CancelTypes ==
  ASSUME TypeOK, NEW id \in TimerIds, CancelInLoop(id)
  PROVE  /\ timers' \subseteq Nat \X Addrs
         /\ activeTimers' \subseteq TimerIds
         /\ heap' \in [Addrs -> Timer]
         /\ cancelingTimers' \subseteq TimerIds
         /\ cancelled' \subseteq TimerIds
         /\ overtook' \subseteq TimerIds
<1>1. Free \in Timer
  BY Bounds DEF Free, Timer
<1>2. timers' \subseteq timers /\ activeTimers' \subseteq activeTimers
  BY DEF CancelInLoop
<1>3. heap' \in [Addrs -> Timer]
  BY <1>1 DEF CancelInLoop, TypeOK, Timer
<1>4. cancelingTimers' \subseteq TimerIds /\ cancelled' \subseteq TimerIds
      /\ overtook' \subseteq TimerIds
  BY DEF CancelInLoop, TypeOK, Timer
<1> QED
  BY <1>2, <1>3, <1>4 DEF TypeOK, Timer

\* The record that new Timer fills in.
LEMMA NewTimerType ==
  ASSUME TypeOK, NEW a \in Addrs, NewTimer(a), NEW w \in Whens, NEW i \in Intervals
  PROVE  /\ TimerAt(w, i) \in Timer
         /\ TimerAt(w, i).sequence = numCreated + 1
         /\ TimerAt(w, i).expiration = w
         /\ numCreated + 1 \in 1..MaxTimers
         /\ numCreated' = numCreated + 1
         /\ TimerAt(w, i) # Free
BY TimerAssumption DEF TypeOK, Timer, NewTimer, TimerAt, Free

\* Every step keeps the types.
LEMMA TypeStep ==
  ASSUME TypeOK, [Next]_vars
  PROVE  TypeOK'
<1> USE Bounds
<1>1. ASSUME NEW a \in Addrs, NEW w \in Whens, NEW i \in Intervals, OwnerAddTimer(a, w, i)
      PROVE  TypeOK'
  <2>1. NewTimer(a) /\ AddTimerInLoop(a, TimerAt(w, i))
    BY <1>1 DEF OwnerAddTimer
  <2> DEFINE timer == TimerAt(w, i)
  <2>0. timer \in Timer /\ numCreated + 1 \in 1..MaxTimers /\ numCreated' = numCreated + 1
    BY <2>1, NewTimerType
  <2> HIDE DEF timer
  <2>2. /\ timers' \subseteq Nat \X Addrs
        /\ activeTimers' \subseteq TimerIds
        /\ timerfd' \in Nat \cup {Disarmed}
    BY <2>1, <2>0, AddTimerTypes DEF timer
  <2>3. ids' \subseteq TimerIds
    BY <1>1, <2>0 DEF OwnerAddTimer, TypeOK, TimerIds
  <2>4. /\ heap' \in [Addrs -> Timer]
        /\ numCreated' \in 0..MaxTimers
    BY <1>1, <2>0 DEF OwnerAddTimer, TypeOK, Timer, timer
  <2> QED
    BY <1>1, <2>2, <2>3, <2>4 DEF OwnerAddTimer, TypeOK, Timer, batchVars, Request
<1>2. ASSUME NEW id \in ids, OwnerCancel(id) PROVE TypeOK'
  <2>1. id \in TimerIds
    BY DEF TypeOK, Timer
  <2> QED
    BY <1>2, <2>1, CancelTypes DEF OwnerCancel, TypeOK, batchVars
<1>3. ASSUME NEW t \in Threads, NEW a \in Addrs, NEW w \in Whens, NEW i \in Intervals,
             AddTimer(t, a, w, i)
      PROVE  TypeOK'
  <2>1. NewTimer(a)
    BY <1>3 DEF AddTimer
  <2> DEFINE timer == TimerAt(w, i)
  <2>0. timer \in Timer /\ numCreated + 1 \in 1..MaxTimers /\ numCreated' = numCreated + 1
    BY <2>1, NewTimerType
  <2> HIDE DEF timer
  <2>2. <<a, numCreated + 1>> \in TimerIds
    BY <2>0 DEF TimerIds
  <2>3. requests' \in Seq(Request)
    <3>1. [op |-> "add", timer |-> <<a, numCreated + 1>>] \in Request
      BY <2>2 DEF Request
    <3> QED
      BY <1>3, <3>1, AppendFacts DEF AddTimer, Queue, TypeOK, Timer, Request
  <2>4. /\ heap' \in [Addrs -> Timer]
        /\ numCreated' \in 0..MaxTimers
        /\ adding' \in [Threads -> TimerIds \cup {NoTimer}]
    BY <1>3, <2>0, <2>2 DEF AddTimer, TypeOK, Timer, timer
  <2> QED
    BY <1>3, <2>3, <2>4 DEF AddTimer, TypeOK, Timer, batchVars, Request
<1>4. ASSUME NEW t \in Threads, ReturnTimerId(t) PROVE TypeOK'
  <2>1. adding[t] \in TimerIds /\ adding' \in [Threads -> TimerIds \cup {NoTimer}]
    BY <1>4 DEF ReturnTimerId, TypeOK
  <2>2. SequenceRead(adding[t][1]) \subseteq 0..MaxTimers
    BY <2>1 DEF SequenceRead, TypeOK, Timer, TimerIds
  <2>3. ids' \subseteq TimerIds
    BY <1>4, <2>1, <2>2 DEF ReturnTimerId, TypeOK, TimerIds
  <2> QED
    BY <1>4, <2>1, <2>3 DEF ReturnTimerId, TypeOK, batchVars, queueVars
<1>5. ASSUME NEW t \in Threads, NEW id \in ids, Cancel(t, id) PROVE TypeOK'
  <2>1. [op |-> "cancel", timer |-> id] \in Request
    BY DEF Request, TypeOK, Timer
  <2>2. requests' \in Seq(Request)
    BY <1>5, <2>1, AppendFacts DEF Cancel, Queue, TypeOK, Timer, Request
  <2> QED
    BY <1>5, <2>2 DEF Cancel, TypeOK, Timer, batchVars, queueVars, Request
<1>6. ASSUME ReportTimerfd PROVE TypeOK'
  BY <1>6 DEF ReportTimerfd, TypeOK, batchVars, queueVars
<1>7. ASSUME RunRequest PROVE TypeOK'
  <2> DEFINE r == Head(requests)
  <2>1. requests' \in Seq(Request) /\ r \in Request
    BY <1>7, TailFacts DEF RunRequest, TypeOK, Timer, Request
  <2>2. r.timer \in TimerIds /\ r.timer[1] \in Addrs
    BY <2>1 DEF Request, TimerIds
  <2>3. CASE r.op = "add"
    <3>1. AddTimerInLoop(r.timer[1], heap[r.timer[1]])
      BY <1>7, <2>3 DEF RunRequest
    <3>2. /\ timers' \subseteq Nat \X Addrs
          /\ activeTimers' \subseteq TimerIds
          /\ timerfd' \in Nat \cup {Disarmed}
      BY <2>2, <3>1, AddTimerTypes DEF TypeOK, Timer
    <3> HIDE DEF r
    <3> QED
      BY <1>7, <2>1, <2>3, <3>2 DEF RunRequest, TypeOK, Timer, batchVars, Request, r
  <2>4. CASE r.op = "cancel"
    <3>1. CancelInLoop(r.timer) /\ UNCHANGED timerfd
      BY <1>7, <2>4 DEF RunRequest
    <3> QED
      BY <1>7, <2>1, <2>2, <3>1, CancelTypes DEF RunRequest, TypeOK, Timer, batchVars, Request
  <2> QED
    BY <2>1, <2>3, <2>4 DEF Request
<1>8. ASSUME HandleRead PROVE TypeOK'
  <2>1. Expired \subseteq timers
    BY DEF Expired
  <2>2. /\ timers' \subseteq Nat \X Addrs
        /\ activeTimers' \subseteq TimerIds
        /\ expired' \subseteq Nat \X Addrs
        /\ toRun' \subseteq expired'
        /\ cancelingTimers' \subseteq TimerIds
    BY <1>8, <2>1 DEF HandleRead, TypeOK
  <2>3. timerfd' \in Nat \cup {Disarmed} /\ readTime' \in 0..MaxTime
    BY <1>8 DEF HandleRead, TypeOK
  <2> QED
    BY <1>8, <2>2, <2>3 DEF HandleRead, TypeOK
<1>9. ASSUME RunTimer PROVE TypeOK'
  BY <1>9 DEF RunTimer, TypeOK, queueVars
<1>10. ASSUME EndTimer PROVE TypeOK'
  BY <1>10 DEF EndTimer, TypeOK, queueVars
<1>11. ASSUME Reset PROVE TypeOK'
  <2>1. Restarted \subseteq Addrs
    BY DEF Restarted, InBatch, TypeOK, Timer
  <2>2. \A a \in Addrs : NextExpiration(a) \in Nat
    BY DEF NextExpiration, TypeOK, Timer
  <2>3. timers' \subseteq Nat \X Addrs /\ activeTimers' \subseteq TimerIds
    <3>1. \A a \in Restarted : heap[a].sequence \in 0..MaxTimers
      BY <2>1 DEF TypeOK, Timer
    <3>2. {<<NextExpiration(a), a>> : a \in Restarted} \subseteq Nat \X Addrs
      BY <2>1, <2>2
    <3>3. {<<a, heap[a].sequence>> : a \in Restarted} \subseteq TimerIds
      BY <2>1, <3>1 DEF TimerIds
    <3> QED
      BY <1>11, <3>2, <3>3 DEF Reset, TypeOK
  <2>4. heap' \in [Addrs -> Timer]
    <3>1. Free \in Timer
      BY Bounds DEF Free, Timer
    <3>2. \A a \in Addrs : [heap[a] EXCEPT !.expiration = NextExpiration(a)]
                              \in Timer
      BY <2>2 DEF TypeOK, Timer
    <3>3. \A a \in Addrs : heap[a] \in Timer
      BY DEF TypeOK, Timer
    <3> QED
      BY <1>11, <3>1, <3>2, <3>3 DEF Reset
  <2>5. timerfd' \in Nat \cup {Disarmed}
    <3>1. ASSUME NEW e \in timers', e[1] > 0 => ResetTimerfd(e[1]),
                 ~(e[1] > 0) => UNCHANGED timerfd
          PROVE  timerfd' \in Nat \cup {Disarmed}
      <4>1. e[1] \in Nat
        BY <2>3
      <4> QED
        BY <3>1, <4>1, ResetArms DEF TypeOK, Timer
    <3>2. CASE UNCHANGED timerfd
      BY <3>2 DEF TypeOK, Timer
    <3> QED
      BY <1>11, <3>1, <3>2 DEF Reset
  <2>6. /\ pc' \in {"idle", "expired", "callback", "destroyed"}
        /\ callingExpiredTimers' \in BOOLEAN
        /\ expired' \subseteq Nat \X Addrs
        /\ toRun' \subseteq expired'
        /\ readTime' \in 0..MaxTime
    <3>1. /\ pc' = "idle" /\ callingExpiredTimers' = FALSE /\ expired' = {}
          /\ toRun = {} /\ toRun' = toRun /\ readTime' = 0
      BY <1>11 DEF Reset
    <3>2. readTime' \in 0..MaxTime
      BY <3>1
    <3> QED
      BY <3>1, <3>2
  <2>7. /\ now' = now /\ reported' = reported /\ numCreated' = numCreated
        /\ cancelingTimers' = cancelingTimers /\ requests' = requests
        /\ adding' = adding /\ ids' = ids /\ cancelled' = cancelled
        /\ overtook' = overtook
    BY <1>11 DEF Reset
  <2> QED
    BY <2>3, <2>4, <2>5, <2>6, <2>7 DEF TypeOK
<1>12. ASSUME Destroy PROVE TypeOK'
  <2>1. heap' \in [Addrs -> Timer]
    BY <1>12 DEF Destroy, TypeOK, Timer, Free
  <2> QED
    BY <1>12, <2>1 DEF Destroy, TypeOK, Timer
<1>13. ASSUME Tick PROVE TypeOK'
  BY <1>13 DEF Tick, TypeOK, batchVars, queueVars, Disarmed
<1>14. ASSUME NEW d \in ClockSteps, StepClock(d) PROVE TypeOK'
  BY <1>14 DEF StepClock, TypeOK, batchVars, queueVars
<1>15. ASSUME UNCHANGED vars PROVE TypeOK'
  BY <1>15 DEF vars, TypeOK
<1> QED
  BY <1>1, <1>2, <1>3, <1>4, <1>5, <1>6, <1>7, <1>8, <1>9, <1>10, <1>11, <1>12,
     <1>13, <1>14, <1>15 DEF Next

\* Initially they hold.
LEMMA TypeInit == Init => TypeOK
<1> SUFFICES ASSUME Init PROVE TypeOK
  OBVIOUS
<1>1. heap \in [Addrs -> Timer]
  BY Bounds DEF Init, Timer, Free
<1>2. requests \in Seq(Request)
  BY DEF Init
<1>3. adding \in [Threads -> TimerIds \cup {NoTimer}]
  BY DEF Init
<1>4. now \in 1..MaxTime /\ numCreated \in 0..MaxTimers /\ readTime \in 0..MaxTime
  BY Bounds DEF Init
<1> QED
  BY <1>1, <1>2, <1>3, <1>4 DEF Init, TypeOK

\* Every variable of the timer queue keeps its type.
THEOREM TypeCorrect == Spec => []TypeOK
<1>1. TypeOK /\ [Next]_vars => TypeOK'
  BY TypeStep
<1> QED
  BY TypeInit, <1>1, PTL DEF Spec

-----------------------------------------------------------------------------
(* The timerfd is armed. *)

\* Not only between two iterations: a timer with an invalid time, for which
\* reset() does not arm the timerfd, finds it armed already.
ArmedInv ==
  /\ TimerfdArmed
  /\ (\E e \in timers : e[1] = 0) => timerfd # Disarmed

\* addTimerInLoop() leaves the timerfd armed, unless it was not before.
LEMMA AddTimerArms ==
  ASSUME TypeOK, NEW a \in Addrs, NEW timer \in Timer, AddTimerInLoop(a, timer),
         ArmedInv
  PROVE  /\ timerfd # Disarmed => timerfd' # Disarmed
         /\ pc = "idle" => timerfd' # Disarmed
         /\ (\E e \in timers' : e[1] = 0) => timerfd' # Disarmed
<1>1. timer.expiration \in Nat
  BY DEF Timer
<1>2. CASE EarliestChanged(timer.expiration)
  BY <1>1, <1>2, ResetArms DEF AddTimerInLoop, Insert
<1>3. CASE ~EarliestChanged(timer.expiration)
  <2>1. PICK e \in timers : ~(timer.expiration < e[1])
    BY <1>3 DEF EarliestChanged
  <2>2. e[1] \in Nat /\ (timer.expiration = 0 => e[1] = 0)
    BY <1>1, <2>1 DEF TypeOK
  <2>3. timerfd' = timerfd
    BY <1>3 DEF AddTimerInLoop, Insert
  <2>4. \A f \in timers' : f \in timers \/ f[1] = timer.expiration
    BY DEF AddTimerInLoop, Insert
  <2> QED
    BY <2>1, <2>2, <2>3, <2>4 DEF ArmedInv, TimerfdArmed
<1> QED
  BY <1>2, <1>3

\* A step that only takes timers out of the queue keeps the timerfd armed.
LEMMA FewerTimers ==
  ASSUME ArmedInv, timers' \subseteq timers, timerfd' = timerfd,
         pc' = "idle" => pc = "idle"
  PROVE  ArmedInv'
BY DEF ArmedInv, TimerfdArmed

LEMMA ArmedStep ==
  ASSUME TypeOK, ArmedInv, [Next]_vars
  PROVE  ArmedInv'
<1>1. ASSUME NEW a \in Addrs, NEW w \in Whens, NEW i \in Intervals, OwnerAddTimer(a, w, i)
      PROVE  ArmedInv'
  <2>1. NewTimer(a) /\ AddTimerInLoop(a, TimerAt(w, i)) /\ pc' = pc
    BY <1>1 DEF OwnerAddTimer, batchVars
  <2>2. TimerAt(w, i) \in Timer
    BY <2>1, NewTimerType
  <2> QED
    BY <2>1, <2>2, AddTimerArms DEF ArmedInv, TimerfdArmed
<1>2. ASSUME NEW id \in ids, OwnerCancel(id) PROVE ArmedInv'
  BY <1>2, FewerTimers DEF OwnerCancel, CancelInLoop, batchVars
<1>3. ASSUME NEW t \in Threads, NEW a \in Addrs, NEW w \in Whens, NEW i \in Intervals,
             AddTimer(t, a, w, i)
      PROVE  ArmedInv'
  BY <1>3, FewerTimers DEF AddTimer, batchVars
<1>4. ASSUME NEW t \in Threads, ReturnTimerId(t) PROVE ArmedInv'
  BY <1>4, FewerTimers DEF ReturnTimerId, batchVars, queueVars
<1>5. ASSUME NEW t \in Threads, NEW id \in ids, Cancel(t, id) PROVE ArmedInv'
  BY <1>5, FewerTimers DEF Cancel, batchVars, queueVars
<1>6. ASSUME ReportTimerfd PROVE ArmedInv'
  BY <1>6, FewerTimers DEF ReportTimerfd, batchVars, queueVars
<1>7. ASSUME RunRequest PROVE ArmedInv'
  <2> DEFINE r == Head(requests)
  <2>1. r \in Request /\ pc' = pc
    BY <1>7, TailFacts DEF RunRequest, TypeOK, batchVars
  <2>2. r.timer[1] \in Addrs
    BY <2>1 DEF Request, TimerIds
  <2>3. CASE AddTimerInLoop(r.timer[1], heap[r.timer[1]])
    <3>1. heap[r.timer[1]] \in Timer
      BY <2>2 DEF TypeOK
    <3> HIDE DEF r
    <3> QED
      BY <2>1, <2>2, <2>3, <3>1, AddTimerArms DEF ArmedInv, TimerfdArmed
  <2>4. CASE CancelInLoop(r.timer) /\ timerfd' = timerfd
    BY <2>1, <2>4, FewerTimers DEF CancelInLoop
  <2> QED
    BY <1>7, <2>3, <2>4 DEF RunRequest
<1>8. ASSUME HandleRead PROVE ArmedInv'
  \* A timer with time 0 expires in every call.
  <2>1. \A e \in timers' : e \in timers /\ ~(e[1] <= now)
    BY <1>8 DEF HandleRead, Expired
  <2>2. \A e \in timers' : e[1] # 0
    BY <2>1 DEF TypeOK
  <2>3. pc' = "expired"
    BY <1>8 DEF HandleRead
  <2> QED
    BY <2>2, <2>3 DEF ArmedInv, TimerfdArmed
<1>9. ASSUME RunTimer PROVE ArmedInv'
  BY <1>9, FewerTimers DEF RunTimer, queueVars
<1>10. ASSUME EndTimer PROVE ArmedInv'
  BY <1>10, FewerTimers DEF EndTimer, queueVars
<1>11. ASSUME Reset PROVE ArmedInv'
  <2>1. timers' \subseteq Nat \X Addrs
    BY <1>11, TypeStep DEF Next, TypeOK
  <2>2. ASSUME NEW e \in timers', \A f \in timers' : e[1] <= f[1],
               IF e[1] > 0 THEN ResetTimerfd(e[1]) ELSE UNCHANGED timerfd
        PROVE  timerfd' # Disarmed
    <3>1. e[1] \in Nat
      BY <2>1
    <3>2. CASE e[1] > 0
      BY <2>2, <3>1, <3>2, ResetArms
    <3>3. CASE e[1] = 0
      \* Not a restarted timer: the next expiration of those is in the future.
      <4>1. \A a \in Restarted : NextExpiration(a) > 0
        BY DEF Restarted, Repeats, InBatch, NextExpiration, TypeOK, Timer
      <4>2. e \in timers
        BY <1>11, <3>3, <4>1 DEF Reset
      <4> QED
        BY <2>2, <3>3, <4>2 DEF ArmedInv
    <3> QED
      BY <3>1, <3>2, <3>3
  <2>3. timers' # {} => timerfd' # Disarmed
    BY <1>11, <2>2 DEF Reset
  <2> QED
    BY <2>3 DEF ArmedInv, TimerfdArmed
<1>12. ASSUME Destroy PROVE ArmedInv'
  BY <1>12 DEF Destroy, ArmedInv, TimerfdArmed
<1>13. ASSUME Tick PROVE ArmedInv'
  <2>1. timerfd # Disarmed => timerfd' # Disarmed
    BY <1>13 DEF Tick, TypeOK, Disarmed
  <2> QED
    BY <1>13, <2>1 DEF Tick, ArmedInv, TimerfdArmed, batchVars, queueVars
<1>14. ASSUME NEW d \in ClockSteps, StepClock(d) PROVE ArmedInv'
  BY <1>14, FewerTimers DEF StepClock, batchVars, queueVars
<1>15. ASSUME UNCHANGED vars PROVE ArmedInv'
  BY <1>15, FewerTimers DEF vars
<1> QED
  BY <1>1, <1>2, <1>3, <1>4, <1>5, <1>6, <1>7, <1>8, <1>9, <1>10, <1>11, <1>12,
     <1>13, <1>14, <1>15 DEF Next

\* Whenever the loop goes back to its poll and a timer waits, the timerfd is
\* armed, whatever the wall clock did and whatever times the clients asked for.
THEOREM TimerfdIsArmed == Spec => []TimerfdArmed
<1>1. Init => TypeOK /\ ArmedInv
  BY TypeInit DEF Init, ArmedInv, TimerfdArmed
<1>2. (TypeOK /\ ArmedInv) /\ [Next]_vars => (TypeOK /\ ArmedInv)'
  BY TypeStep, ArmedStep
<1>3. ArmedInv => TimerfdArmed
  BY DEF ArmedInv
<1> QED
  BY <1>1, <1>2, <1>3, PTL DEF Spec

-----------------------------------------------------------------------------
(* The timerfd is armed early enough. *)

\* The timerfd will be readable after no more than delay.
Within(delay) == timerfd # Disarmed /\ timerfd <= delay

\* Between the expiry of a batch and reset() it may be late for any timer but
\* one with an invalid time: for that one reset() does not arm it.
InTimeInv ==
  /\ TimerfdInTime
  /\ (\E e \in timers : e[1] = 0) => Within(MinDelay)

\* The later the timer, the longer the delay.
LEMMA DelayIsMonotone ==
  ASSUME TypeOK, NEW when \in Nat, NEW later \in Nat, when <= later
  PROVE  /\ HowMuchTimeFromNow(when) <= HowMuchTimeFromNow(later)
         /\ HowMuchTimeFromNow(when) \in Nat
         /\ MinDelay <= HowMuchTimeFromNow(when)
         /\ HowMuchTimeFromNow(0) = MinDelay
BY TimerAssumption DEF HowMuchTimeFromNow, TypeOK

\* The earlier the clock, the longer the delay.
LEMMA LaterIsLonger ==
  ASSUME NEW n \in Int, NEW m \in Int, m <= n, NEW when \in Nat
  PROVE  LET from == IF when - n < MinDelay THEN MinDelay ELSE when - n
             to == IF when - m < MinDelay THEN MinDelay ELSE when - m
         IN  from \in Nat /\ to \in Nat /\ from <= to
BY TimerAssumption

\* resetTimerfd() arms the timerfd for a timer and all that are later.
LEMMA ResetIsInTime ==
  ASSUME TypeOK, NEW when \in Nat, NEW later \in Nat, when <= later, ResetTimerfd(when)
  PROVE  Within(HowMuchTimeFromNow(later))'
         \/ ~UNCHANGED now
<1>1. timerfd' = HowMuchTimeFromNow(when)
  BY DelayIsPositive DEF ResetTimerfd
<1>2. timerfd' # Disarmed
  BY ResetArms
<1>3. timerfd' <= HowMuchTimeFromNow(later)
  BY <1>1, DelayIsMonotone
<1> QED
  BY <1>2, <1>3 DEF Within, HowMuchTimeFromNow

\* addTimerInLoop() keeps the timerfd early enough for the timers that it was
\* early enough for, and makes it so for the new one.
LEMMA AddTimerIsInTime ==
  ASSUME TypeOK, NEW a \in Addrs, NEW timer \in Timer, AddTimerInLoop(a, timer),
         InTimeInv, UNCHANGED <<now, pc>>
  PROVE  InTimeInv'
<1> DEFINE when == timer.expiration
<1>1. when \in Nat /\ \A e \in timers : e[1] \in Nat
  BY DEF Timer, TypeOK
<1>2. \A e \in timers' : e \in timers \/ e[1] = when
  BY DEF AddTimerInLoop, Insert
<1>3. \A e \in timers' : e[1] \in Nat
  BY <1>1, <1>2
<1>4. CASE EarliestChanged(when)
  <2>1. ResetTimerfd(when)
    BY <1>4 DEF AddTimerInLoop, Insert
  <2>2. \A e \in timers' : when <= e[1]
    BY <1>1, <1>2, <1>4 DEF EarliestChanged
  <2>3. \A e \in timers' : Within(HowMuchTimeFromNow(e[1]))'
    BY <1>1, <1>3, <2>1, <2>2, ResetIsInTime
  <2>4. (\E e \in timers' : e[1] = 0) => Within(MinDelay)'
    <3>1. HowMuchTimeFromNow(0)' = MinDelay
      BY DelayIsMonotone DEF HowMuchTimeFromNow
    <3> QED
      BY <2>3, <3>1 DEF Within
  <2> QED
    BY <2>3, <2>4 DEF InTimeInv, TimerfdInTime, Within
<1>5. CASE ~EarliestChanged(when)
  <2>1. timerfd' = timerfd
    BY <1>5 DEF AddTimerInLoop, Insert
  <2>2. PICK e \in timers : e[1] <= when
    BY <1>1, <1>5 DEF EarliestChanged
  <2>3. pc = "idle" => Within(HowMuchTimeFromNow(when))
    <3>1. HowMuchTimeFromNow(e[1]) <= HowMuchTimeFromNow(when)
          /\ HowMuchTimeFromNow(e[1]) \in Nat /\ HowMuchTimeFromNow(when) \in Nat
      BY <1>1, <2>2, DelayIsMonotone
    <3> QED
      BY <2>2, <3>1 DEF InTimeInv, TimerfdInTime, Within, TypeOK, Disarmed
  <2>4. when = 0 => Within(MinDelay)
    BY <1>1, <2>2 DEF InTimeInv
  <2> QED
    BY <1>2, <2>1, <2>3, <2>4 DEF InTimeInv, TimerfdInTime, Within, HowMuchTimeFromNow
<1> QED
  BY <1>4, <1>5

\* A step that only takes timers out of the queue.
LEMMA FewerAreInTime ==
  ASSUME InTimeInv, timers' \subseteq timers, UNCHANGED <<now, timerfd>>,
         pc' = "idle" => pc = "idle"
  PROVE  InTimeInv'
BY DEF InTimeInv, TimerfdInTime, Within, HowMuchTimeFromNow

LEMMA InTimeStep ==
  ASSUME \A d \in ClockSteps : d <= 0, TypeOK, InTimeInv, [Next]_vars
  PROVE  InTimeInv'
<1>1. ASSUME NEW a \in Addrs, NEW w \in Whens, NEW i \in Intervals, OwnerAddTimer(a, w, i)
      PROVE  InTimeInv'
  <2>1. NewTimer(a) /\ AddTimerInLoop(a, TimerAt(w, i)) /\ UNCHANGED <<now, pc>>
    BY <1>1 DEF OwnerAddTimer, batchVars
  <2>2. TimerAt(w, i) \in Timer
    BY <2>1, NewTimerType
  <2> QED
    BY <2>1, <2>2, AddTimerIsInTime
<1>2. ASSUME NEW id \in ids, OwnerCancel(id) PROVE InTimeInv'
  BY <1>2, FewerAreInTime DEF OwnerCancel, CancelInLoop, batchVars
<1>3. ASSUME NEW t \in Threads, NEW a \in Addrs, NEW w \in Whens, NEW i \in Intervals,
             AddTimer(t, a, w, i)
      PROVE  InTimeInv'
  BY <1>3, FewerAreInTime DEF AddTimer, batchVars
<1>4. ASSUME NEW t \in Threads, ReturnTimerId(t) PROVE InTimeInv'
  BY <1>4, FewerAreInTime DEF ReturnTimerId, batchVars, queueVars
<1>5. ASSUME NEW t \in Threads, NEW id \in ids, Cancel(t, id) PROVE InTimeInv'
  BY <1>5, FewerAreInTime DEF Cancel, batchVars, queueVars
<1>6. ASSUME ReportTimerfd PROVE InTimeInv'
  BY <1>6, FewerAreInTime DEF ReportTimerfd, batchVars, queueVars
<1>7. ASSUME RunRequest PROVE InTimeInv'
  <2> DEFINE r == Head(requests)
  <2>1. r \in Request /\ UNCHANGED <<now, pc>>
    BY <1>7, TailFacts DEF RunRequest, TypeOK, batchVars
  <2>2. r.timer[1] \in Addrs
    BY <2>1 DEF Request, TimerIds
  <2>3. CASE AddTimerInLoop(r.timer[1], heap[r.timer[1]])
    <3>1. heap[r.timer[1]] \in Timer
      BY <2>2 DEF TypeOK
    <3> HIDE DEF r
    <3> QED
      BY <2>1, <2>2, <2>3, <3>1, AddTimerIsInTime
  <2>4. CASE CancelInLoop(r.timer) /\ timerfd' = timerfd
    BY <2>1, <2>4, FewerAreInTime DEF CancelInLoop
  <2> QED
    BY <1>7, <2>3, <2>4 DEF RunRequest
<1>8. ASSUME HandleRead PROVE InTimeInv'
  \* A timer with time 0 expires in every call.
  <2>1. \A e \in timers' : e \in timers /\ ~(e[1] <= now)
    BY <1>8 DEF HandleRead, Expired
  <2>2. \A e \in timers' : e[1] # 0
    BY <2>1 DEF TypeOK
  <2>3. pc' = "expired"
    BY <1>8 DEF HandleRead
  <2> QED
    BY <2>2, <2>3 DEF InTimeInv, TimerfdInTime
<1>9. ASSUME RunTimer PROVE InTimeInv'
  BY <1>9, FewerAreInTime DEF RunTimer, queueVars
<1>10. ASSUME EndTimer PROVE InTimeInv'
  BY <1>10, FewerAreInTime DEF EndTimer, queueVars
<1>11. ASSUME Reset PROVE InTimeInv'
  <2>1. timers' \subseteq Nat \X Addrs
    BY <1>11, TypeStep DEF Next, TypeOK
  <2>2. UNCHANGED now
    BY <1>11 DEF Reset
  <2>3. ASSUME NEW e \in timers', \A f \in timers' : e[1] <= f[1],
               IF e[1] > 0 THEN ResetTimerfd(e[1]) ELSE UNCHANGED timerfd
        PROVE  \A f \in timers' : Within(HowMuchTimeFromNow(f[1]))'
    <3> SUFFICES ASSUME NEW f \in timers' PROVE Within(HowMuchTimeFromNow(f[1]))'
      OBVIOUS
    <3>1. e[1] \in Nat /\ f[1] \in Nat /\ e[1] <= f[1]
      BY <2>1, <2>3
    <3>2. CASE e[1] > 0
      BY <2>2, <2>3, <3>1, <3>2, ResetIsInTime
    <3>3. CASE e[1] = 0
      \* Not a restarted timer: the next expiration of those is in the future.
      <4>1. \A a \in Restarted : NextExpiration(a) > 0
        BY DEF Restarted, Repeats, InBatch, NextExpiration, TypeOK, Timer
      <4>2. e \in timers
        BY <1>11, <3>3, <4>1 DEF Reset
      <4>3. Within(MinDelay) /\ timerfd' = timerfd
        BY <2>3, <3>3, <4>2 DEF InTimeInv
      <4>4. HowMuchTimeFromNow(f[1]) \in Nat /\ MinDelay <= HowMuchTimeFromNow(f[1])
        BY <3>1, DelayIsMonotone
      <4> QED
        BY <2>2, <4>3, <4>4, TimerAssumption
        DEF Within, HowMuchTimeFromNow, TypeOK, Disarmed
    <3> QED
      BY <3>1, <3>2, <3>3
  <2>4. \A f \in timers' : Within(HowMuchTimeFromNow(f[1]))'
    BY <1>11, <2>3 DEF Reset
  <2>5. HowMuchTimeFromNow(0)' = MinDelay
    BY <2>2, DelayIsMonotone DEF HowMuchTimeFromNow
  <2> QED
    BY <2>4, <2>5 DEF InTimeInv, TimerfdInTime, Within
<1>12. ASSUME Destroy PROVE InTimeInv'
  BY <1>12 DEF Destroy, InTimeInv, TimerfdInTime
<1>13. ASSUME Tick PROVE InTimeInv'
  \* The delay shrinks by as much as the timerfd counts, and never to nothing.
  <2>1. ASSUME NEW delay \in Nat, NEW delay2 \in Nat, delay - 1 <= delay2, Within(delay)
        PROVE  Within(delay2)'
    BY <1>13, <2>1 DEF Tick, Within, TypeOK, Disarmed
  <2>2. \A e \in timers : e[1] \in Nat
    BY DEF TypeOK
  <2>3. \A when \in Nat : /\ HowMuchTimeFromNow(when) \in Nat
                          /\ HowMuchTimeFromNow(when)' \in Nat
                          /\ HowMuchTimeFromNow(when) - 1 <= HowMuchTimeFromNow(when)'
    BY <1>13, TimerAssumption DEF Tick, TypeOK, HowMuchTimeFromNow
  <2>4. UNCHANGED <<timers, pc>>
    BY <1>13 DEF Tick, batchVars, queueVars
  <2>5. pc = "idle" => \A e \in timers : Within(HowMuchTimeFromNow(e[1]))'
    BY <2>1, <2>2, <2>3 DEF InTimeInv, TimerfdInTime, Within
  <2>6. Within(MinDelay) => Within(MinDelay)'
    BY <2>1, TimerAssumption
  <2> QED
    BY <2>4, <2>5, <2>6 DEF InTimeInv, TimerfdInTime, Within
<1>14. ASSUME NEW d \in ClockSteps, StepClock(d) PROVE InTimeInv'
  \* A clock that is set back leaves more time.
  <2>1. now \in Int /\ now' \in Int /\ now' <= now /\ UNCHANGED <<timers, timerfd, pc>>
    BY <1>14, TimerAssumption DEF StepClock, TypeOK, batchVars, queueVars
  <2>2. \A when \in Nat : /\ HowMuchTimeFromNow(when) \in Nat
                          /\ HowMuchTimeFromNow(when)' \in Nat
                          /\ HowMuchTimeFromNow(when) <= HowMuchTimeFromNow(when)'
    BY <2>1, LaterIsLonger DEF HowMuchTimeFromNow
  <2>3. \A e \in timers : e[1] \in Nat
    BY DEF TypeOK
  <2>4. timerfd \in Int
    BY DEF TypeOK, Disarmed
  <2>5. pc = "idle" => \A e \in timers :
          timerfd # Disarmed /\ timerfd <= HowMuchTimeFromNow(e[1])'
    BY <2>2, <2>3, <2>4 DEF InTimeInv, TimerfdInTime
  <2> QED
    BY <2>1, <2>5 DEF InTimeInv, TimerfdInTime, Within
<1>15. ASSUME UNCHANGED vars PROVE InTimeInv'
  BY <1>15, FewerAreInTime DEF vars
<1> QED
  BY <1>1, <1>2, <1>3, <1>4, <1>5, <1>6, <1>7, <1>8, <1>9, <1>10, <1>11, <1>12,
     <1>13, <1>14, <1>15 DEF Next

\* Whenever the loop goes back to its poll, the timerfd will wake it in time for
\* every timer that waits, up to the shortest delay: for any times that clients
\* ask for and for a wall clock that may be set back at any moment.  One that is
\* set forward makes timers late, since the timerfd does not learn of it.
THEOREM TimerfdIsInTime ==
  ASSUME \A d \in ClockSteps : d <= 0
  PROVE  Spec => []TimerfdInTime
<1>1. Init => TypeOK /\ InTimeInv
  BY TypeInit DEF Init, InTimeInv, TimerfdInTime
<1>2. (TypeOK /\ InTimeInv) /\ [Next]_vars => (TypeOK /\ InTimeInv)'
  BY TypeStep, InTimeStep
<1>3. InTimeInv => TimerfdInTime
  BY DEF InTimeInv
<1> QED
  BY <1>1, <1>2, <1>3, PTL DEF Spec

-----------------------------------------------------------------------------
(* Owners. *)

\* A set of entries, timers_ or the batch, holds the timer at address a.
Holds(entries, a) == \E e \in entries : e[2] = a

\* Entries are filed under the expiration of their timer.
Keys == \A e \in timers \cup expired : e[1] = heap[e[2]].expiration

\* activeTimers_ holds the timers of timers_, under their sequence numbers.
Actives ==
  \A a \in Addrs, s \in 0..MaxTimers :
    <<a, s>> \in activeTimers <=> Holds(timers, a) /\ s = heap[a].sequence

\* A timer is alive just when it has an owner.
Owned ==
  \A a \in Addrs :
    Live(a) <=> Holds(timers, a) \/ Holds(expired, a) \/ AddsTimer(requests, a)

\* And it has only one.
OneOwner ==
  /\ \A a \in Addrs : /\ Holds(timers, a) => ~Holds(expired, a)
                      /\ AddsTimer(requests, a) => ~Holds(timers, a) /\ ~Holds(expired, a)
  /\ AddsOnce(requests)

\* Sequence numbers start at 1, and are not handed out in advance.
Numbered == \A a \in Addrs : Live(a) => heap[a].sequence \in 1..numCreated

\* There is a batch only inside handleRead, and nothing waits after the end.
Batch ==
  /\ pc \in {"idle", "destroyed"} => expired = {}
  /\ callingExpiredTimers <=> pc \in {"expired", "callback"}
  /\ pc = "destroyed" => timers = {}

QueueInv == Keys /\ Actives /\ Owned /\ OneOwner /\ Numbered /\ Batch

\* A request to add a timer names the timer at its address.
AddsItsTimer ==
  \A i \in 1..Len(requests) :
    requests[i].op = "add" => requests[i].timer[2] = heap[requests[i].timer[1]].sequence

\* Every id that is around has a sequence number that was given out.
Known ==
  /\ \A id \in ids \cup cancelled : id[2] <= numCreated
  /\ \A i \in 1..Len(requests) : requests[i].timer[2] <= numCreated

\* A cancelled timer does not wait, it is not to be added, and if it is in the
\* batch then cancelingTimers_ keeps reset() from restarting it.
Gone ==
  \A id \in cancelled :
    /\ id \notin activeTimers
    /\ id \notin RequestedIds
    /\ (Holds(expired, id[1]) /\ heap[id[1]].sequence = id[2]) => id \in cancelingTimers

CancelInv == AddsItsTimer /\ Known /\ Gone

\* Initially there are no timers.
LEMMA QueueInit == Init => QueueInv
<1> SUFFICES ASSUME Init PROVE QueueInv
  OBVIOUS
<1>1. timers = {} /\ expired = {} /\ activeTimers = {} /\ requests = <<>>
  BY DEF Init
<1>2. \A a : ~Holds(timers, a) /\ ~Holds(expired, a) /\ ~AddsTimer(requests, a)
  BY <1>1 DEF Holds, AddsTimer
<1>3. \A a \in Addrs : ~Live(a)
  BY DEF Init, Live
<1>4. AddsOnce(requests)
  BY <1>1 DEF AddsOnce
<1>5. Keys /\ Actives /\ Owned /\ OneOwner /\ Numbered
  BY <1>1, <1>2, <1>3, <1>4 DEF Keys, Actives, Owned, OneOwner, Numbered
<1>6. Batch
  BY <1>1 DEF Init, Batch
<1> QED
  BY <1>5, <1>6 DEF QueueInv

\* A step that changes no timer and no owner.
LEMMA SameOwners ==
  ASSUME QueueInv, UNCHANGED <<timers, activeTimers, heap, expired, numCreated,
                               callingExpiredTimers>>,
         \A a : AddsTimer(requests', a) <=> AddsTimer(requests, a),
         AddsOnce(requests'),
         pc' = pc \/ {pc, pc'} = {"expired", "callback"}
  PROVE  QueueInv'
<1>1. \A a : /\ Holds(timers', a) <=> Holds(timers, a)
             /\ Holds(expired', a) <=> Holds(expired, a)
  OBVIOUS
<1>2. \A a : Live(a)' <=> Live(a)
  BY DEF Live
<1>3. Keys' /\ Numbered'
  BY <1>2 DEF QueueInv, Keys, Numbered
<1>4. Actives'
  BY DEF QueueInv, Actives
<1>5. Owned' /\ OneOwner'
  BY <1>1, <1>2 DEF QueueInv, Owned, OneOwner
<1>6. Batch'
  <2>1. CASE pc' = pc
    BY <2>1 DEF QueueInv, Batch
  <2>2. CASE {pc, pc'} = {"expired", "callback"}
    <3>1. pc \in {"expired", "callback"} /\ pc' \in {"expired", "callback"}
      BY <2>2
    <3> QED
      BY <3>1 DEF QueueInv, Batch
  <2> QED
    BY <2>1, <2>2
<1> QED
  BY <1>3, <1>4, <1>5, <1>6 DEF QueueInv

\* What addTimerInLoop() does to the two sets, timer by timer.
LEMMA AddTimerEffect ==
  ASSUME NEW a, NEW timer, AddTimerInLoop(a, timer)
  PROVE  /\ \A b : Holds(timers', b) <=> Holds(timers, b) \/ b = a
         /\ \A b, s : <<b, s>> \in activeTimers'
                        <=> <<b, s>> \in activeTimers \/ (b = a /\ s = timer.sequence)
         /\ \A e \in timers' : e \in timers \/ e = <<timer.expiration, a>>
         /\ timers \subseteq timers'
<1>1. timers' = timers \cup {<<timer.expiration, a>>}
  BY DEF AddTimerInLoop, Insert
<1>2. activeTimers' = activeTimers \cup {<<a, timer.sequence>>}
  BY DEF AddTimerInLoop, Insert
<1>3. \A b, s : <<b, s>> = <<a, timer.sequence>> <=> b = a /\ s = timer.sequence
  OBVIOUS
<1>4. \A b : Holds(timers', b) <=> Holds(timers, b) \/ b = a
  <2> DEFINE e == <<timer.expiration, a>>
  <2>1. e[2] = a /\ timers' = timers \cup {e}
    BY <1>1
  <2> HIDE DEF e
  <2> QED
    BY <2>1 DEF Holds
<1> QED
  BY <1>1, <1>2, <1>3, <1>4

\* What cancelInLoop() does to the two sets and to the heap, timer by timer.
LEMMA CancelEffect ==
  ASSUME TypeOK, QueueInv, NEW id \in TimerIds, CancelInLoop(id)
  PROVE  \/ /\ id \in activeTimers
            /\ Holds(timers, id[1]) /\ id[2] = heap[id[1]].sequence
            /\ timers' \subseteq timers
            /\ \A b : Holds(timers', b) <=> Holds(timers, b) /\ b # id[1]
            /\ activeTimers' = activeTimers \ {id}
            /\ \A b \in Addrs : heap'[b] = IF b = id[1] THEN Free ELSE heap[b]
            /\ cancelingTimers' = cancelingTimers
         \/ /\ id \notin activeTimers
            /\ UNCHANGED <<timers, activeTimers, heap>>
            /\ cancelingTimers' = IF callingExpiredTimers THEN cancelingTimers \cup {id}
                                                          ELSE cancelingTimers
<1>1. id = <<id[1], id[2]>> /\ id[1] \in Addrs /\ id[2] \in 0..MaxTimers
  BY DEF TimerIds
<1>2. CASE id \in activeTimers
  <2>1. Found(id) = {id}
    BY <1>2 DEF Found
  <2>2. /\ timers' = timers \ {<<heap[id[1]].expiration, id[1]>>}
        /\ activeTimers' = activeTimers \ {id}
        /\ heap' = [heap EXCEPT ![id[1]] = Free]
        /\ cancelingTimers' = cancelingTimers
    BY <2>1 DEF CancelInLoop
  <2>3. Holds(timers, id[1]) /\ id[2] = heap[id[1]].sequence
    BY <1>1, <1>2 DEF QueueInv, Actives
  <2>4. \A e \in timers : e[2] = id[1] <=> e = <<heap[id[1]].expiration, id[1]>>
    BY DEF QueueInv, Keys, TypeOK
  <2>5. \A b : Holds(timers', b) <=> Holds(timers, b) /\ b # id[1]
    BY <2>2, <2>4 DEF Holds
  <2>6. \A b \in Addrs : heap'[b] = IF b = id[1] THEN Free ELSE heap[b]
    BY <2>2 DEF TypeOK
  <2> QED
    BY <1>2, <2>2, <2>3, <2>5, <2>6
<1>3. CASE id \notin activeTimers
  <2>1. Found(id) = {}
    BY <1>3 DEF Found
  <2> QED
    BY <1>3, <2>1 DEF CancelInLoop
<1> QED
  BY <1>2, <1>3

\* cancelInLoop() deletes an active timer that it takes out of both sets.
LEMMA CancelKeepsOwners ==
  ASSUME TypeOK, QueueInv, NEW id \in TimerIds, CancelInLoop(id),
         UNCHANGED <<pc, expired, numCreated, callingExpiredTimers>>,
         \A a : AddsTimer(requests', a) <=> AddsTimer(requests, a),
         AddsOnce(requests')
  PROVE  QueueInv'
<1>1. CASE id \notin activeTimers
  <2>1. UNCHANGED <<timers, activeTimers, heap>>
    BY <1>1, CancelEffect
  <2> QED
    BY <2>1, SameOwners
<1>2. CASE id \in activeTimers
  <2> DEFINE a == id[1]
  <2>1. a \in Addrs /\ id = <<a, id[2]>>
    BY DEF TimerIds
  <2>2. /\ Holds(timers, a) /\ id[2] = heap[a].sequence
        /\ timers' \subseteq timers
        /\ \A b : Holds(timers', b) <=> Holds(timers, b) /\ b # a
        /\ activeTimers' = activeTimers \ {id}
        /\ \A b \in Addrs : heap'[b] = IF b = a THEN Free ELSE heap[b]
    BY <1>2, CancelEffect
  <2>3. \A b : Holds(expired', b) <=> Holds(expired, b)
    OBVIOUS
  <2>4. ~Holds(expired, a) /\ ~AddsTimer(requests, a)
    BY <2>1, <2>2 DEF QueueInv, OneOwner
  <2> HIDE DEF a
  <2>5. \A b \in Addrs : Live(b)' <=> Live(b) /\ b # a
    BY <2>2 DEF Live
  <2>6. Keys'
    <3>1. ASSUME NEW e \in timers' \cup expired' PROVE e[2] # a /\ e[2] \in Addrs
      BY <2>2, <2>4 DEF Holds, TypeOK
    <3> QED
      BY <2>2, <3>1 DEF QueueInv, Keys
  <2>7. Actives'
    <3> SUFFICES ASSUME NEW b \in Addrs, NEW s \in 0..MaxTimers
                 PROVE  <<b, s>> \in activeTimers'
                          <=> Holds(timers', b) /\ s = heap'[b].sequence
      BY DEF Actives
    <3>1. <<b, s>> \in activeTimers <=> Holds(timers, b) /\ s = heap[b].sequence
      BY DEF QueueInv, Actives
    <3>2. CASE b = a
      BY <2>1, <2>2, <3>1, <3>2
    <3>3. CASE b # a
      BY <2>1, <2>2, <3>1, <3>3
    <3> QED
      BY <3>2, <3>3
  <2>8. Owned' /\ OneOwner'
    BY <2>2, <2>3, <2>4, <2>5 DEF QueueInv, Owned, OneOwner
  <2>9. Numbered'
    BY <2>2, <2>5 DEF QueueInv, Numbered
  <2>10. Batch'
    BY <2>2 DEF QueueInv, Batch
  <2> QED
    BY <2>6, <2>7, <2>8, <2>9, <2>10 DEF QueueInv
<1> QED
  BY <1>1, <1>2

\* A new timer at a free address, owned by timers_ at once.
LEMMA OwnerAddKeepsOwners ==
  ASSUME TypeOK, QueueInv, NEW a \in Addrs, NEW w \in Whens, NEW i \in Intervals,
         OwnerAddTimer(a, w, i)
  PROVE  QueueInv'
<1> DEFINE timer == TimerAt(w, i)
<1>1. NewTimer(a) /\ AddTimerInLoop(a, timer)
  BY DEF OwnerAddTimer
<1>2. /\ timer \in Timer /\ timer # Free
      /\ timer.sequence = numCreated + 1 /\ timer.expiration = w
      /\ numCreated' = numCreated + 1
      /\ numCreated \in Nat /\ numCreated + 1 \in 1..MaxTimers
  BY <1>1, NewTimerType DEF TypeOK
<1>3. \A b \in Addrs : heap'[b] = IF b = a THEN timer ELSE heap[b]
  BY DEF OwnerAddTimer, TypeOK
<1> HIDE DEF timer
<1>4. UNCHANGED <<pc, expired, callingExpiredTimers, requests>>
  BY DEF OwnerAddTimer, batchVars
<1>5. ~Holds(timers, a) /\ ~Holds(expired, a) /\ ~AddsTimer(requests, a)
  BY <1>1 DEF NewTimer, QueueInv, Owned
<1>6. /\ \A b : Holds(timers', b) <=> Holds(timers, b) \/ b = a
      /\ \A b, s : <<b, s>> \in activeTimers'
                     <=> <<b, s>> \in activeTimers \/ (b = a /\ s = timer.sequence)
      /\ \A e \in timers' : e \in timers \/ e = <<timer.expiration, a>>
  BY <1>1, AddTimerEffect
<1>7. \A b \in Addrs : Live(b)' <=> Live(b) \/ b = a
  BY <1>2, <1>3 DEF Live
<1>8. Keys'
  <2>1. ASSUME NEW e \in timers \cup expired PROVE e[1] = heap'[e[2]].expiration
    <3>1. e[2] # a /\ e[2] \in Addrs
      BY <1>5 DEF Holds, TypeOK
    <3> QED
      BY <1>3, <3>1 DEF QueueInv, Keys
  <2> QED
    BY <1>3, <1>4, <1>6, <2>1 DEF Keys
<1>9. Actives'
  <2> SUFFICES ASSUME NEW b \in Addrs, NEW s \in 0..MaxTimers
               PROVE  <<b, s>> \in activeTimers'
                        <=> Holds(timers', b) /\ s = heap'[b].sequence
    BY DEF Actives
  <2>1. <<b, s>> \in activeTimers <=> Holds(timers, b) /\ s = heap[b].sequence
    BY DEF QueueInv, Actives
  <2> QED
    BY <1>3, <1>5, <1>6, <2>1
<1>10. Owned' /\ OneOwner'
  BY <1>4, <1>5, <1>6, <1>7 DEF QueueInv, Owned, OneOwner
<1>11. Numbered'
  BY <1>2, <1>3, <1>7 DEF QueueInv, Numbered
<1>12. Batch'
  BY <1>4 DEF OwnerAddTimer, InUserCode, QueueInv, Batch
<1> QED
  BY <1>8, <1>9, <1>10, <1>11, <1>12 DEF QueueInv

\* A new timer at a free address, owned by the request to add it.
LEMMA AddTimerKeepsOwners ==
  ASSUME TypeOK, QueueInv, NEW t \in Threads, NEW a \in Addrs, NEW w \in Whens,
         NEW i \in Intervals, AddTimer(t, a, w, i)
  PROVE  QueueInv'
<1> DEFINE timer == TimerAt(w, i)
           r == [op |-> "add", timer |-> <<a, numCreated + 1>>]
<1>1. NewTimer(a)
  BY DEF AddTimer
<1>2. /\ timer # Free
      /\ timer.sequence = numCreated + 1
      /\ numCreated' = numCreated + 1
      /\ numCreated \in Nat /\ numCreated + 1 \in 1..MaxTimers
  BY <1>1, NewTimerType DEF TypeOK
<1>3. \A b \in Addrs : heap'[b] = IF b = a THEN timer ELSE heap[b]
  BY DEF AddTimer, TypeOK
<1>4. /\ UNCHANGED <<pc, expired, callingExpiredTimers, timers, activeTimers>>
      /\ requests' = Append(requests, r)
  BY DEF AddTimer, Queue, batchVars
<1>5. ~Holds(timers, a) /\ ~Holds(expired, a) /\ ~AddsTimer(requests, a)
  BY <1>1 DEF NewTimer, QueueInv, Owned
<1>6. /\ \A b : AddsTimer(requests', b) <=> AddsTimer(requests, b) \/ b = a
      /\ AddsOnce(requests')
  <2>1. requests \in Seq(Request) /\ AddsOnce(requests)
    BY DEF TypeOK, QueueInv, OneOwner
  <2>2. r \in Request /\ r.op = "add" /\ r.timer[1] = a
    BY <1>2 DEF Request, TimerIds
  <2> HIDE DEF r
  <2> QED
    BY <1>4, <1>5, <2>1, <2>2, QueueAppend
<1> HIDE DEF timer
<1>7. \A b \in Addrs : Live(b)' <=> Live(b) \/ b = a
  BY <1>2, <1>3 DEF Live
<1>8. \A b : /\ Holds(timers', b) <=> Holds(timers, b)
             /\ Holds(expired', b) <=> Holds(expired, b)
  BY <1>4
<1>9. Keys'
  <2>1. ASSUME NEW e \in timers \cup expired PROVE e[1] = heap'[e[2]].expiration
    <3>1. e[2] # a /\ e[2] \in Addrs
      BY <1>5 DEF Holds, TypeOK
    <3> QED
      BY <1>3, <3>1 DEF QueueInv, Keys
  <2> QED
    BY <1>4, <2>1 DEF Keys
<1>10. Actives'
  BY <1>3, <1>4, <1>5, <1>8 DEF QueueInv, Actives
<1>11. Owned' /\ OneOwner'
  BY <1>5, <1>6, <1>7, <1>8 DEF QueueInv, Owned, OneOwner
<1>12. Numbered'
  BY <1>2, <1>3, <1>7 DEF QueueInv, Numbered
<1>13. Batch'
  BY <1>4 DEF QueueInv, Batch
<1> QED
  BY <1>9, <1>10, <1>11, <1>12, <1>13 DEF QueueInv

\* A request to add a timer hands it over to timers_.
LEMMA RunAddKeepsOwners ==
  ASSUME TypeOK, QueueInv, RunRequest, Head(requests).op = "add"
  PROVE  QueueInv'
<1> DEFINE a == Head(requests).timer[1]
           timer == heap[a]
<1>1. requests \in Seq(Request) /\ requests # <<>> /\ AddsOnce(requests)
  BY DEF RunRequest, TypeOK, QueueInv, OneOwner
<1>2. /\ requests' = Tail(requests)
      /\ AddTimerInLoop(a, timer)
      /\ UNCHANGED <<pc, heap, expired, callingExpiredTimers, numCreated>>
  BY DEF RunRequest, batchVars
<1>3. a \in Addrs
  <2>1. Head(requests) \in Request
    BY <1>1, TailFacts
  <2> QED
    BY <2>1 DEF Request, TimerIds
<1>4. /\ \A b : AddsTimer(requests', b) <=> AddsTimer(requests, b) /\ b # a
      /\ AddsOnce(requests')
      /\ AddsTimer(requests, a)
  BY <1>1, <1>2, QueueTail
<1> HIDE DEF a
<1>5. ~Holds(timers, a) /\ ~Holds(expired, a) /\ Live(a)
  BY <1>3, <1>4 DEF QueueInv, Owned, OneOwner
<1>6. /\ \A b : Holds(timers', b) <=> Holds(timers, b) \/ b = a
      /\ \A b, s : <<b, s>> \in activeTimers'
                     <=> <<b, s>> \in activeTimers \/ (b = a /\ s = timer.sequence)
      /\ \A e \in timers' : e \in timers \/ e = <<timer.expiration, a>>
  BY <1>2, AddTimerEffect
<1>7. \A b : /\ Live(b)' <=> Live(b)
             /\ Holds(expired', b) <=> Holds(expired, b)
  BY <1>2 DEF Live
<1>8. Keys' /\ Numbered'
  BY <1>2, <1>6, <1>7 DEF QueueInv, Keys, Numbered
<1>9. Actives'
  <2> SUFFICES ASSUME NEW b \in Addrs, NEW s \in 0..MaxTimers
               PROVE  <<b, s>> \in activeTimers'
                        <=> Holds(timers', b) /\ s = heap'[b].sequence
    BY DEF Actives
  <2>1. <<b, s>> \in activeTimers <=> Holds(timers, b) /\ s = heap[b].sequence
    BY DEF QueueInv, Actives
  <2> QED
    BY <1>2, <1>5, <1>6, <2>1
<1>10. Owned' /\ OneOwner'
  BY <1>4, <1>5, <1>6, <1>7 DEF QueueInv, Owned, OneOwner
<1>11. Batch'
  BY <1>2 DEF RunRequest, QueueInv, Batch
<1> QED
  BY <1>8, <1>9, <1>10, <1>11 DEF QueueInv

\* The entries of activeTimers_ that belong to entries of timers_.
LEMMA ActiveOfMember ==
  ASSUME NEW entries, NEW b, NEW s
  PROVE  <<b, s>> \in ActiveOf(entries) <=> Holds(entries, b) /\ s = heap[b].sequence
BY DEF ActiveOf, Holds

\* getExpired() hands the expired timers over to the batch.
LEMMA HandleReadKeepsOwners ==
  ASSUME TypeOK, QueueInv, HandleRead
  PROVE  QueueInv'
<1>1. /\ expired' = Expired /\ timers' = timers \ Expired
      /\ activeTimers' = activeTimers \ ActiveOf(Expired)
      /\ pc = "idle" /\ pc' = "expired" /\ callingExpiredTimers' = TRUE
      /\ UNCHANGED <<heap, numCreated, requests>>
  BY DEF HandleRead
<1>2. \A b : ~Holds(expired, b)
  BY <1>1 DEF QueueInv, Batch, Holds
<1>3. \A e \in timers : e \in Expired <=> heap[e[2]].expiration <= now
  BY DEF Expired, QueueInv, Keys
<1>4. Expired \subseteq timers
  BY DEF Expired
<1>5. \A b : /\ Holds(Expired, b) <=> Holds(timers, b) /\ heap[b].expiration <= now
             /\ Holds(timers', b) <=> Holds(timers, b) /\ ~(heap[b].expiration <= now)
  BY <1>1, <1>3, <1>4 DEF Holds
<1>6. \A b : Live(b)' <=> Live(b)
  BY <1>1 DEF Live
<1>7. Keys' /\ Numbered'
  BY <1>1, <1>4, <1>6 DEF QueueInv, Keys, Numbered
<1>8. Actives'
  <2> SUFFICES ASSUME NEW b \in Addrs, NEW s \in 0..MaxTimers
               PROVE  <<b, s>> \in activeTimers'
                        <=> Holds(timers', b) /\ s = heap[b].sequence
    BY <1>1 DEF Actives
  <2>1. <<b, s>> \in activeTimers <=> Holds(timers, b) /\ s = heap[b].sequence
    BY DEF QueueInv, Actives
  <2> QED
    BY <1>1, <1>5, <2>1, ActiveOfMember
<1>9. Owned' /\ OneOwner'
  <2>1. \A b : /\ AddsTimer(requests', b) <=> AddsTimer(requests, b)
               /\ Holds(expired', b) <=> Holds(Expired, b)
    BY <1>1
  <2>2. AddsOnce(requests')
    BY <1>1 DEF QueueInv, OneOwner
  <2> QED
    BY <1>2, <1>5, <1>6, <2>1, <2>2 DEF QueueInv, Owned, OneOwner
<1>10. Batch'
  BY <1>1 DEF Batch
<1> QED
  BY <1>7, <1>8, <1>9, <1>10 DEF QueueInv

\* The batch is over: its timers go back to timers_ or are deleted.
LEMMA ResetEffect ==
  ASSUME TypeOK, QueueInv, Reset
  PROVE  /\ \A b \in Addrs :
              /\ heap'[b] = IF b \in Deleted THEN Free
                            ELSE IF b \in Restarted
                              THEN [heap[b] EXCEPT !.expiration = NextExpiration(b)]
                              ELSE heap[b]
              /\ Holds(expired, b) <=> b \in Deleted \cup Restarted
         /\ Deleted \cap Restarted = {}
         /\ \A b : Holds(timers', b) <=> Holds(timers, b) \/ b \in Restarted
         /\ \A e \in timers' : e \in timers
                                 \/ (e[2] \in Restarted /\ e[1] = NextExpiration(e[2]))
         /\ \A b, s : <<b, s>> \in activeTimers'
                        <=> \/ <<b, s>> \in activeTimers
                            \/ b \in Restarted /\ s = heap[b].sequence
<1>1. /\ timers' = timers \cup {<<NextExpiration(a), a>> : a \in Restarted}
      /\ activeTimers' = activeTimers \cup {<<a, heap[a].sequence>> : a \in Restarted}
      /\ heap' = [a \in Addrs |->
                IF a \in Deleted THEN Free
                ELSE IF a \in Restarted
                       THEN [heap[a] EXCEPT !.expiration = NextExpiration(a)]
                       ELSE heap[a]]
  BY DEF Reset
<1>2. \A b : Holds(expired, b) <=> b \in InBatch
  BY DEF Holds, InBatch
<1>3. Deleted \cap Restarted = {} /\ Deleted \cup Restarted = InBatch
  BY DEF Deleted, Restarted
<1>4. \A b : Holds(timers', b) <=> Holds(timers, b) \/ b \in Restarted
  <2>1. \A e \in timers' : e \in timers \/ \E a \in Restarted : e = <<NextExpiration(a), a>>
    BY <1>1
  <2>2. ASSUME NEW b \in Restarted PROVE Holds(timers', b)
    <3> DEFINE e == <<NextExpiration(b), b>>
    <3>1. e \in timers' /\ e[2] = b
      BY <1>1
    <3> HIDE DEF e
    <3> QED
      BY <3>1 DEF Holds
  <2>3. timers \subseteq timers'
    BY <1>1
  <2> QED
    BY <2>1, <2>2, <2>3 DEF Holds
<1>5. \A e \in timers' : e \in timers
                           \/ (e[2] \in Restarted /\ e[1] = NextExpiration(e[2]))
  BY <1>1
<1>6. \A b, s : <<b, s>> \in activeTimers'
                  <=> \/ <<b, s>> \in activeTimers
                      \/ b \in Restarted /\ s = heap[b].sequence
  BY <1>1
<1> QED
  BY <1>1, <1>2, <1>3, <1>4, <1>5, <1>6

LEMMA ResetKeepsOwners ==
  ASSUME TypeOK, QueueInv, Reset
  PROVE  QueueInv'
<1>1. /\ expired' = {} /\ pc = "expired" /\ pc' = "idle" /\ callingExpiredTimers' = FALSE
      /\ UNCHANGED <<numCreated, requests>>
  BY DEF Reset
<1>2. \A b : ~Holds(expired', b) /\ (AddsTimer(requests', b) <=> AddsTimer(requests, b))
  BY <1>1 DEF Holds
<1>3. AddsOnce(requests')
  BY <1>1 DEF QueueInv, OneOwner
<1>4. /\ \A b \in Addrs :
           /\ heap'[b] = IF b \in Deleted THEN Free
                         ELSE IF b \in Restarted
                           THEN [heap[b] EXCEPT !.expiration = NextExpiration(b)]
                           ELSE heap[b]
           /\ Holds(expired, b) <=> b \in Deleted \cup Restarted
      /\ Deleted \cap Restarted = {}
      /\ \A b : Holds(timers', b) <=> Holds(timers, b) \/ b \in Restarted
      /\ \A e \in timers' : e \in timers
                              \/ (e[2] \in Restarted /\ e[1] = NextExpiration(e[2]))
      /\ \A b, s : <<b, s>> \in activeTimers'
                     <=> \/ <<b, s>> \in activeTimers
                         \/ b \in Restarted /\ s = heap[b].sequence
  BY ResetEffect
<1>5. \A b \in Addrs : b \in Restarted \cup Deleted => ~Holds(timers, b) /\ ~AddsTimer(requests, b)
  BY <1>4 DEF QueueInv, OneOwner
<1>6. \A b \in Restarted : b \in Addrs /\ heap[b].interval > 0
  BY DEF Restarted, Repeats, InBatch, TypeOK
<1>7. \A b \in Addrs : heap[b] \in Timer
  BY DEF TypeOK
<1>8. \A b \in Restarted :
        /\ heap'[b].expiration = NextExpiration(b)
        /\ heap'[b].sequence = heap[b].sequence
        /\ heap'[b].interval = heap[b].interval
  <2> SUFFICES ASSUME NEW b \in Restarted
               PROVE  /\ heap'[b].expiration = NextExpiration(b)
                      /\ heap'[b].sequence = heap[b].sequence
                      /\ heap'[b].interval = heap[b].interval
    OBVIOUS
  <2>1. b \in Addrs /\ b \notin Deleted
    BY <1>4, <1>6
  <2>2. heap'[b] = [heap[b] EXCEPT !.expiration = NextExpiration(b)]
    BY <1>4, <2>1
  <2>3. heap[b] \in Timer
    BY <1>7, <2>1
  <2> QED
    BY <2>2, <2>3 DEF Timer
<1>9. \A b \in Addrs : Live(b)' <=> Live(b) /\ b \notin Deleted
  <2> SUFFICES ASSUME NEW b \in Addrs PROVE Live(b)' <=> Live(b) /\ b \notin Deleted
    OBVIOUS
  <2>1. CASE b \in Deleted
    BY <1>4, <2>1 DEF Live
  <2>2. CASE b \in Restarted
    <3>1. heap[b].interval # 0 /\ heap'[b].interval # 0
      BY <1>6, <1>8, <2>2
    <3> QED
      BY <1>4, <2>2, <3>1 DEF Live, Free
  <2>3. CASE b \notin Deleted \cup Restarted
    BY <1>4, <2>3 DEF Live
  <2> QED
    BY <2>1, <2>2, <2>3
<1>10. Keys'
  <2>1. ASSUME NEW e \in timers' PROVE e[1] = heap'[e[2]].expiration
    <3>1. CASE e \in timers
      <4>1. e[2] \in Addrs /\ Holds(timers, e[2])
        BY <3>1 DEF Holds, TypeOK
      <4>2. heap'[e[2]] = heap[e[2]]
        BY <1>4, <1>5, <4>1
      <4> QED
        BY <3>1, <4>2 DEF QueueInv, Keys
    <3>2. CASE e[2] \in Restarted /\ e[1] = NextExpiration(e[2])
      BY <1>8, <3>2
    <3> QED
      BY <1>4, <3>1, <3>2
  <2> QED
    BY <1>1, <2>1 DEF Keys
<1>11. Actives'
  <2> SUFFICES ASSUME NEW b \in Addrs, NEW s \in 0..MaxTimers
               PROVE  <<b, s>> \in activeTimers'
                        <=> Holds(timers', b) /\ s = heap'[b].sequence
    BY DEF Actives
  <2>1. <<b, s>> \in activeTimers <=> Holds(timers, b) /\ s = heap[b].sequence
    BY DEF QueueInv, Actives
  <2>2. CASE b \in Restarted
    BY <1>4, <1>5, <1>8, <2>1, <2>2
  <2>3. CASE b \notin Restarted
    BY <1>4, <1>5, <2>1, <2>3
  <2> QED
    BY <2>2, <2>3
<1>12. Owned' /\ OneOwner'
  <2>1. Owned'
    BY <1>2, <1>4, <1>5, <1>9 DEF QueueInv, Owned
  <2>2. OneOwner'
    BY <1>2, <1>3, <1>4, <1>5 DEF QueueInv, OneOwner
  <2> QED
    BY <2>1, <2>2
<1>13. Numbered'
  <2> SUFFICES ASSUME NEW b \in Addrs, Live(b)'
               PROVE  heap'[b].sequence \in 1..numCreated'
    BY DEF Numbered
  <2>1. Live(b) /\ b \notin Deleted
    BY <1>9
  <2>2. heap'[b].sequence = heap[b].sequence
    BY <1>4, <1>8, <2>1
  <2> QED
    BY <1>1, <2>1, <2>2 DEF QueueInv, Numbered
<1>14. Batch'
  BY <1>1 DEF Batch
<1> QED
  BY <1>10, <1>11, <1>12, <1>13, <1>14 DEF QueueInv

\* The destructor deletes the timers of timers_; the requests that will never
\* run keep theirs.
LEMMA DestroyKeepsOwners ==
  ASSUME TypeOK, QueueInv, Destroy
  PROVE  QueueInv'
<1>1. /\ timers' = {} /\ activeTimers' = {} /\ pc = "idle" /\ pc' = "destroyed"
      /\ UNCHANGED <<numCreated, requests, expired, callingExpiredTimers>>
  BY DEF Destroy
<1>2. expired = {} /\ ~callingExpiredTimers
  BY <1>1 DEF QueueInv, Batch, TypeOK
<1>3. \A b : ~Holds(timers', b) /\ ~Holds(expired, b) /\ ~Holds(expired', b)
  BY <1>1, <1>2 DEF Holds
<1>4. \A b \in Addrs : heap'[b] = IF Holds(timers, b) THEN Free ELSE heap[b]
  BY DEF Destroy, Waiting, Holds
<1>5. \A b \in Addrs : Live(b)' <=> Live(b) /\ ~Holds(timers, b)
  BY <1>4 DEF Live
<1>6. \A b : AddsTimer(requests', b) <=> AddsTimer(requests, b)
  BY <1>1
<1>7. Keys' /\ Actives'
  BY <1>1, <1>2, <1>3 DEF Keys, Actives
<1>8. Owned' /\ OneOwner'
  <2>1. AddsOnce(requests')
    BY <1>1 DEF QueueInv, OneOwner
  <2> QED
    BY <1>3, <1>5, <1>6, <2>1 DEF QueueInv, Owned, OneOwner
<1>9. Numbered'
  BY <1>1, <1>4, <1>5 DEF QueueInv, Numbered
<1>10. Batch'
  BY <1>1, <1>2 DEF Batch
<1> QED
  BY <1>7, <1>8, <1>9, <1>10 DEF QueueInv

\* Every step keeps the invariant.
LEMMA QueueStep ==
  ASSUME TypeOK, QueueInv, [Next]_vars
  PROVE  QueueInv'
<1>0. AddsOnce(requests) /\ requests \in Seq(Request)
  BY DEF QueueInv, OneOwner, TypeOK
<1>1. ASSUME NEW a \in Addrs, NEW w \in Whens, NEW i \in Intervals, OwnerAddTimer(a, w, i)
      PROVE  QueueInv'
  BY <1>1, OwnerAddKeepsOwners
<1>2. ASSUME NEW id \in ids, OwnerCancel(id) PROVE QueueInv'
  <2>1. /\ UNCHANGED <<pc, expired, numCreated, callingExpiredTimers>>
        /\ requests' = requests
        /\ CancelInLoop(id)
    BY <1>2 DEF OwnerCancel, batchVars
  <2>2. id \in TimerIds
    BY DEF TypeOK
  <2>3. AddsOnce(requests') /\ \A a : AddsTimer(requests', a) <=> AddsTimer(requests, a)
    BY <1>0, <2>1
  <2> QED
    BY <2>1, <2>2, <2>3, CancelKeepsOwners
<1>3. ASSUME NEW t \in Threads, NEW a \in Addrs, NEW w \in Whens, NEW i \in Intervals,
             AddTimer(t, a, w, i)
      PROVE  QueueInv'
  BY <1>3, AddTimerKeepsOwners
<1>4. ASSUME NEW t \in Threads, ReturnTimerId(t) PROVE QueueInv'
  BY <1>0, <1>4, SameOwners DEF ReturnTimerId, batchVars, queueVars
<1>5. ASSUME NEW t \in Threads, NEW id \in ids, Cancel(t, id) PROVE QueueInv'
  <2> DEFINE r == [op |-> "cancel", timer |-> id]
  <2>1. r \in Request /\ r.op # "add"
    BY DEF Request, TypeOK
  <2>2. requests' = Append(requests, r)
    BY <1>5 DEF Cancel, Queue
  <2> HIDE DEF r
  <2>3. AddsOnce(requests') /\ \A a : AddsTimer(requests', a) <=> AddsTimer(requests, a)
    BY <1>0, <2>1, <2>2, QueueAppend
  <2> QED
    BY <1>5, <2>3, SameOwners DEF Cancel, batchVars, queueVars
<1>6. ASSUME ReportTimerfd PROVE QueueInv'
  BY <1>0, <1>6, SameOwners DEF ReportTimerfd, batchVars, queueVars
<1>7. ASSUME RunRequest PROVE QueueInv'
  <2>1. CASE Head(requests).op = "add"
    BY <1>7, <2>1, RunAddKeepsOwners
  <2>2. CASE Head(requests).op = "cancel"
    <3>1. /\ requests # <<>> /\ requests' = Tail(requests)
          /\ CancelInLoop(Head(requests).timer)
          /\ UNCHANGED <<pc, expired, numCreated, callingExpiredTimers>>
      BY <1>7, <2>2 DEF RunRequest, batchVars
    <3>2. Head(requests).timer \in TimerIds
      <4>1. Head(requests) \in Request
        BY <1>0, <3>1, TailFacts
      <4> QED
        BY <4>1 DEF Request
    <3>3. AddsOnce(requests') /\ \A a : AddsTimer(requests', a) <=> AddsTimer(requests, a)
      BY <1>0, <2>2, <3>1, QueueTail
    <3> QED
      BY <3>1, <3>2, <3>3, CancelKeepsOwners
  <2> QED
    BY <1>7, <2>1, <2>2 DEF RunRequest
<1>8. ASSUME HandleRead PROVE QueueInv'
  BY <1>8, HandleReadKeepsOwners
<1>9. ASSUME RunTimer PROVE QueueInv'
  BY <1>0, <1>9, SameOwners DEF RunTimer, queueVars
<1>10. ASSUME EndTimer PROVE QueueInv'
  BY <1>0, <1>10, SameOwners DEF EndTimer, queueVars
<1>11. ASSUME Reset PROVE QueueInv'
  BY <1>11, ResetKeepsOwners
<1>12. ASSUME Destroy PROVE QueueInv'
  BY <1>12, DestroyKeepsOwners
<1>13. ASSUME Tick PROVE QueueInv'
  BY <1>0, <1>13, SameOwners DEF Tick, batchVars, queueVars
<1>14. ASSUME NEW d \in ClockSteps, StepClock(d) PROVE QueueInv'
  BY <1>0, <1>14, SameOwners DEF StepClock, batchVars, queueVars
<1>15. ASSUME UNCHANGED vars PROVE QueueInv'
  BY <1>0, <1>15, SameOwners DEF vars
<1> QED
  BY <1>1, <1>2, <1>3, <1>4, <1>5, <1>6, <1>7, <1>8, <1>9, <1>10, <1>11, <1>12,
     <1>13, <1>14, <1>15 DEF Next

\* The invariant of the queue holds in every state.
LEMMA QueueInvariant == Spec => [](TypeOK /\ QueueInv)
<1>1. Init => TypeOK /\ QueueInv
  BY TypeInit, QueueInit
<1>2. (TypeOK /\ QueueInv) /\ [Next]_vars => (TypeOK /\ QueueInv)'
  BY TypeStep, QueueStep
<1> QED
  BY <1>1, <1>2, PTL DEF Spec

\* timers_ and activeTimers_ always hold the same timers, under the expiration
\* and the sequence number that each of them has.
THEOREM TheTwoSetsAgree == Spec => []SetsAgree
<1>1. TypeOK /\ QueueInv => SetsAgree
  <2> SUFFICES ASSUME TypeOK, QueueInv PROVE SetsAgree
    OBVIOUS
  <2>1. ASSUME NEW a \in Addrs, NEW s \in 0..MaxTimers
        PROVE  <<a, s>> \in activeTimers <=> <<a, s>> \in ActiveOf(timers)
    BY ActiveOfMember DEF QueueInv, Actives
  <2>2. \A e \in timers : e[2] \in Addrs /\ heap[e[2]].sequence \in 0..MaxTimers
    BY DEF TypeOK, Timer
  <2>3. ActiveOf(timers) \subseteq TimerIds
    BY <2>2 DEF ActiveOf, TimerIds
  <2>4. activeTimers \subseteq TimerIds
    BY DEF TypeOK
  <2>5. activeTimers = ActiveOf(timers)
    BY <2>1, <2>3, <2>4 DEF TimerIds
  <2> QED
    BY <2>5 DEF SetsAgree, QueueInv, Keys
<1> QED
  BY <1>1, QueueInvariant, PTL

\* Every live timer is owned once, by timers_, by the batch or by a request,
\* and nothing is owned that is not alive.
THEOREM OneOwnerForEachTimer == Spec => []EachTimerHasOneOwner
<1>1. TypeOK /\ QueueInv => EachTimerHasOneOwner
  <2> SUFFICES ASSUME TypeOK, QueueInv PROVE EachTimerHasOneOwner
    OBVIOUS
  <2>1. \A a : /\ a \in Waiting <=> Holds(timers, a)
               /\ a \in InBatch <=> Holds(expired, a)
               /\ a \in Requested <=> AddsTimer(requests, a)
    BY DEF Waiting, InBatch, Requested, Adds, Holds, AddsTimer
  <2>2. Waiting \subseteq Addrs /\ InBatch \subseteq Addrs
    BY DEF Waiting, InBatch, TypeOK
  <2>3. \A a \in Addrs : Live(a) <=> a \in Waiting \cup InBatch \cup Requested
    BY <2>1 DEF QueueInv, Owned
  <2>4. Waiting \cap InBatch = {} /\ Requested \cap (Waiting \cup InBatch) = {}
    BY <2>1, <2>2 DEF QueueInv, OneOwner
  <2>5. \A i, j \in Adds : requests[i].timer[1] = requests[j].timer[1] => i = j
    BY DEF QueueInv, OneOwner, AddsOnce, Adds
  <2> QED
    BY <2>3, <2>4, <2>5 DEF EachTimerHasOneOwner
<1> QED
  BY <1>1, QueueInvariant, PTL

-----------------------------------------------------------------------------
(* Cancelled timers. *)

\* The ids of the timers that are to be added.
LEMMA RequestedIdsMember ==
  ASSUME NEW id
  PROVE  id \in RequestedIds
           <=> \E i \in 1..Len(requests) : requests[i].op = "add" /\ requests[i].timer = id
BY DEF RequestedIds, Adds

\* The requests name timers.
LEMMA RequestTypes ==
  ASSUME TypeOK, NEW i \in 1..Len(requests)
  PROVE  /\ requests[i] \in Request
         /\ requests[i].timer[1] \in Addrs
         /\ requests[i].timer[2] \in Nat
<1>1. requests[i] \in Request
  BY DEF TypeOK
<1>2. requests[i].timer \in TimerIds
  BY <1>1 DEF Request
<1> QED
  BY <1>1, <1>2 DEF TimerIds

\* A step that gives out no new id, adds no timer to activeTimers_ and no
\* request, and takes no id from cancelingTimers_.
LEMMA NothingNew ==
  ASSUME TypeOK, CancelInv,
         ids' = ids, cancelled' = cancelled, numCreated' = numCreated,
         requests' = requests, expired' = expired,
         activeTimers' \subseteq activeTimers,
         cancelingTimers \subseteq cancelingTimers',
         \A a \in Addrs : heap'[a].sequence = heap[a].sequence
  PROVE  CancelInv'
<1>1. RequestedIds' = RequestedIds
  BY DEF RequestedIds, Adds
<1>2. \A a : Holds(expired', a) <=> Holds(expired, a)
  OBVIOUS
<1>3. \A id \in cancelled : id[1] \in Addrs
  BY DEF TypeOK, TimerIds
<1>4. \A i \in 1..Len(requests) : requests[i].timer[1] \in Addrs
  BY RequestTypes
<1>5. AddsItsTimer'
  BY <1>4 DEF CancelInv, AddsItsTimer
<1>6. Known'
  BY DEF CancelInv, Known
<1>7. Gone'
  BY <1>1, <1>2, <1>3 DEF CancelInv, Gone
<1> QED
  BY <1>5, <1>6, <1>7 DEF CancelInv

\* cancelInLoop(): either the timer is deleted at once, or it is in the batch
\* and its id goes to cancelingTimers_, or it is not there at all.
LEMMA CancelKeepsGone ==
  ASSUME TypeOK, QueueInv, CancelInv, NEW id \in TimerIds, id[2] <= numCreated,
         CancelInLoop(id),
         UNCHANGED <<pc, expired, numCreated, callingExpiredTimers, ids>>,
         requests' \in Seq(Request),
         RequestedIds' \subseteq RequestedIds,
         AddsItsTimer', \A i \in 1..Len(requests') : requests'[i].timer[2] <= numCreated
  PROVE  CancelInv'
<1>1. cancelled' \subseteq cancelled \cup {id}
      /\ (id \in RequestedIds => cancelled' = cancelled)
  BY DEF CancelInLoop
<1>2. Known'
  BY <1>1 DEF CancelInv, Known
<1>3. \A a : Holds(expired', a) <=> Holds(expired, a)
  OBVIOUS
<1>4. \A x \in cancelled' : x \notin RequestedIds'
  BY <1>1 DEF CancelInv, Gone
<1>5. \A x \in cancelled' : x[1] \in Addrs /\ x \in TimerIds
  BY <1>1 DEF TypeOK, TimerIds
<1>6. CASE id \in activeTimers
  <2>1. /\ Holds(timers, id[1])
        /\ activeTimers' = activeTimers \ {id}
        /\ \A b \in Addrs : heap'[b] = IF b = id[1] THEN Free ELSE heap[b]
        /\ cancelingTimers' = cancelingTimers
    BY <1>6, CancelEffect
  <2>2. ~Holds(expired, id[1])
    BY <2>1 DEF QueueInv, OneOwner, TimerIds
  <2>3. \A x \in cancelled' : x \notin activeTimers'
    BY <1>1, <2>1 DEF CancelInv, Gone
  <2>4. ASSUME NEW x \in cancelled', Holds(expired', x[1]), heap'[x[1]].sequence = x[2]
        PROVE  x \in cancelingTimers'
    <3>1. x[1] # id[1] /\ x \in cancelled
      BY <1>1, <1>3, <2>2, <2>4
    <3>2. heap[x[1]].sequence = x[2]
      BY <1>5, <2>1, <2>4, <3>1
    <3> QED
      BY <1>3, <2>1, <2>4, <3>1, <3>2 DEF CancelInv, Gone
  <2>5. Gone'
    BY <1>4, <2>3, <2>4 DEF Gone
  <2> QED
    BY <1>2, <2>5 DEF CancelInv
<1>7. CASE id \notin activeTimers
  <2>1. /\ UNCHANGED <<timers, activeTimers, heap>>
        /\ cancelingTimers' = IF callingExpiredTimers THEN cancelingTimers \cup {id}
                                                      ELSE cancelingTimers
    BY <1>7, CancelEffect
  <2>2. \A x \in cancelled' : x \notin activeTimers'
    BY <1>1, <1>7, <2>1 DEF CancelInv, Gone
  <2>3. ASSUME NEW x \in cancelled', Holds(expired', x[1]), heap'[x[1]].sequence = x[2]
        PROVE  x \in cancelingTimers'
    <3>1. CASE x \in cancelled
      BY <1>3, <2>1, <2>3, <3>1 DEF CancelInv, Gone
    <3>2. CASE x = id
      <4>1. expired # {}
        BY <2>3 DEF Holds
      <4>2. callingExpiredTimers
        BY <4>1 DEF QueueInv, Batch, TypeOK
      <4> QED
        BY <2>1, <3>2, <4>2
    <3> QED
      BY <1>1, <3>1, <3>2
  <2>4. Gone'
    BY <1>4, <2>2, <2>3 DEF Gone
  <2> QED
    BY <1>2, <2>4 DEF CancelInv
<1> QED
  BY <1>6, <1>7

\* A new timer has a sequence number that no id has: in place.
LEMMA OwnerAddKeepsGone ==
  ASSUME TypeOK, QueueInv, CancelInv, NEW a \in Addrs, NEW w \in Whens,
         NEW i \in Intervals, OwnerAddTimer(a, w, i)
  PROVE  CancelInv'
<1> DEFINE timer == TimerAt(w, i)
<1>1. NewTimer(a) /\ AddTimerInLoop(a, timer)
  BY DEF OwnerAddTimer
<1>2. /\ timer.sequence = numCreated + 1
      /\ numCreated' = numCreated + 1
      /\ numCreated \in Nat
  BY <1>1, NewTimerType DEF TypeOK
<1>3. \A b \in Addrs : heap'[b] = IF b = a THEN timer ELSE heap[b]
  BY DEF OwnerAddTimer, TypeOK
<1> HIDE DEF timer
<1>4. /\ UNCHANGED <<expired, requests, cancelingTimers, cancelled>>
      /\ ids' = ids \cup {<<a, numCreated + 1>>}
  BY DEF OwnerAddTimer, batchVars
<1>5. ~Holds(timers, a) /\ ~Holds(expired, a) /\ ~AddsTimer(requests, a)
  BY <1>1 DEF NewTimer, QueueInv, Owned
<1>6. activeTimers' = activeTimers \cup {<<a, numCreated + 1>>}
  BY <1>1, <1>2 DEF AddTimerInLoop, Insert
<1>7. RequestedIds' = RequestedIds /\ \A b : Holds(expired', b) <=> Holds(expired, b)
  BY <1>4 DEF RequestedIds, Adds
<1>9. AddsItsTimer'
  <2>1. \A n \in 1..Len(requests) :
          requests[n].op = "add" => requests[n].timer[1] # a /\ requests[n].timer[1] \in Addrs
    BY <1>5, RequestTypes DEF AddsTimer
  <2> QED
    BY <1>3, <1>4, <2>1 DEF CancelInv, AddsItsTimer
<1>10. Known'
  <2>1. \A id \in ids \cup cancelled : id[2] \in Nat
    BY DEF TypeOK, TimerIds
  <2>2. \A n \in 1..Len(requests) : requests[n].timer[2] \in Nat
    BY RequestTypes
  <2>3. \A id \in ids' \cup cancelled' : id[2] <= numCreated'
    BY <1>2, <1>4, <2>1 DEF CancelInv, Known
  <2>4. \A n \in 1..Len(requests') : requests'[n].timer[2] <= numCreated'
    BY <1>2, <1>4, <2>2 DEF CancelInv, Known
  <2> QED
    BY <2>3, <2>4 DEF Known
<1>11. Gone'
  <2> SUFFICES ASSUME NEW id \in cancelled
               PROVE  /\ id \notin activeTimers'
                      /\ id \notin RequestedIds'
                      /\ (Holds(expired', id[1]) /\ heap'[id[1]].sequence = id[2])
                           => id \in cancelingTimers'
    BY <1>4 DEF Gone
  <2>1. id[1] \in Addrs /\ id[2] \in Nat /\ id[2] <= numCreated
    BY DEF TypeOK, TimerIds, CancelInv, Known
  <2>2. id # <<a, numCreated + 1>>
    BY <1>2, <2>1
  <2>3. Holds(expired', id[1]) => heap'[id[1]] = heap[id[1]]
    BY <1>3, <1>5, <1>7, <2>1
  <2> QED
    BY <1>4, <1>6, <1>7, <2>2, <2>3 DEF CancelInv, Gone
<1> QED
  BY <1>9, <1>10, <1>11 DEF CancelInv

\* A request that is queued or run changes the ids to be added by its own.
LEMMA AppendRequest ==
  ASSUME TypeOK, NEW r \in Request, requests' = Append(requests, r)
  PROVE  /\ \A id : id \in RequestedIds'
                      <=> id \in RequestedIds \/ (r.op = "add" /\ r.timer = id)
         /\ \A i \in 1..Len(requests') :
              (i \in 1..Len(requests) /\ requests'[i] = requests[i]) \/ requests'[i] = r
<1>1. /\ Len(requests') = Len(requests) + 1 /\ Len(requests) \in Nat
      /\ \A i \in 1..Len(requests) : requests'[i] = requests[i]
      /\ requests'[Len(requests) + 1] = r
  BY AppendFacts DEF TypeOK
<1>2. \A i \in 1..Len(requests') :
        (i \in 1..Len(requests) /\ requests'[i] = requests[i]) \/ requests'[i] = r
  BY <1>1
<1>3. ASSUME NEW id
      PROVE  id \in RequestedIds' <=> id \in RequestedIds \/ (r.op = "add" /\ r.timer = id)
  <2>1. id \in RequestedIds'
          <=> \E i \in 1..Len(requests') : requests'[i].op = "add" /\ requests'[i].timer = id
    BY DEF RequestedIds, Adds
  <2>2. Len(requests) + 1 \in 1..Len(requests') /\ 1..Len(requests) \subseteq 1..Len(requests')
    BY <1>1
  <2>3. ASSUME id \in RequestedIds'
        PROVE  id \in RequestedIds \/ (r.op = "add" /\ r.timer = id)
    BY <1>2, <2>1, <2>3, RequestedIdsMember
  <2>4. ASSUME id \in RequestedIds PROVE id \in RequestedIds'
    BY <1>1, <2>1, <2>2, <2>4, RequestedIdsMember
  <2>5. ASSUME r.op = "add" /\ r.timer = id PROVE id \in RequestedIds'
    BY <1>1, <2>1, <2>2, <2>5
  <2> QED
    BY <2>3, <2>4, <2>5
<1> QED
  BY <1>2, <1>3

LEMMA TailRequest ==
  ASSUME TypeOK, requests # <<>>, requests' = Tail(requests)
  PROVE  /\ RequestedIds' \subseteq RequestedIds
         /\ \A i \in 1..Len(requests') :
              i + 1 \in 1..Len(requests) /\ requests'[i] = requests[i + 1]
         /\ 1 \in 1..Len(requests) /\ Head(requests) = requests[1]
<1>1. /\ Len(requests') = Len(requests) - 1 /\ Len(requests) \in Nat \ {0}
      /\ \A i \in 1..Len(requests) - 1 : requests'[i] = requests[i + 1]
      /\ Head(requests) = requests[1]
  BY TailFacts DEF TypeOK
<1>2. \A i \in 1..Len(requests') :
        i + 1 \in 1..Len(requests) /\ requests'[i] = requests[i + 1]
  BY <1>1
<1>3. ASSUME NEW id \in RequestedIds' PROVE id \in RequestedIds
  <2>1. PICK i \in 1..Len(requests') : requests'[i].op = "add" /\ requests'[i].timer = id
    BY DEF RequestedIds, Adds
  <2> QED
    BY <1>2, <2>1, RequestedIdsMember
<1> QED
  BY <1>1, <1>2, <1>3

\* A new timer has a sequence number that no id has: by way of a request.
LEMMA AddTimerKeepsGone ==
  ASSUME TypeOK, QueueInv, CancelInv, NEW t \in Threads, NEW a \in Addrs,
         NEW w \in Whens, NEW i \in Intervals, AddTimer(t, a, w, i)
  PROVE  CancelInv'
<1> DEFINE timer == TimerAt(w, i)
           r == [op |-> "add", timer |-> <<a, numCreated + 1>>]
<1>1. NewTimer(a)
  BY DEF AddTimer
<1>2. /\ timer.sequence = numCreated + 1
      /\ numCreated' = numCreated + 1
      /\ numCreated \in Nat /\ numCreated + 1 \in 1..MaxTimers
  BY <1>1, NewTimerType DEF TypeOK
<1>3. \A b \in Addrs : heap'[b] = IF b = a THEN timer ELSE heap[b]
  BY DEF AddTimer, TypeOK
<1>4. /\ UNCHANGED <<expired, activeTimers, cancelingTimers, cancelled, ids>>
      /\ requests' = Append(requests, r)
  BY DEF AddTimer, Queue, batchVars
<1>5. ~Holds(expired, a) /\ ~AddsTimer(requests, a)
  BY <1>1 DEF NewTimer, QueueInv, Owned
<1>6. r \in Request /\ r.op = "add" /\ r.timer = <<a, numCreated + 1>>
  BY <1>2 DEF Request, TimerIds
<1> HIDE DEF r, timer
<1>7. /\ \A id : id \in RequestedIds' <=> id \in RequestedIds \/ id = <<a, numCreated + 1>>
      /\ \A n \in 1..Len(requests') :
           (n \in 1..Len(requests) /\ requests'[n] = requests[n]) \/ requests'[n] = r
  BY <1>4, <1>6, AppendRequest
<1>8. AddsItsTimer'
  <2> SUFFICES ASSUME NEW n \in 1..Len(requests'), requests'[n].op = "add"
               PROVE  requests'[n].timer[2] = heap'[requests'[n].timer[1]].sequence
    BY DEF AddsItsTimer
  <2>1. CASE requests'[n] = r
    BY <1>2, <1>3, <1>6, <2>1
  <2>2. CASE n \in 1..Len(requests) /\ requests'[n] = requests[n]
    <3>1. requests[n].timer[1] # a /\ requests[n].timer[1] \in Addrs
      BY <1>5, <2>2, RequestTypes DEF AddsTimer
    <3> QED
      BY <1>3, <2>2, <3>1 DEF CancelInv, AddsItsTimer
  <2> QED
    BY <1>7, <2>1, <2>2
<1>9. Known'
  <2>1. \A id \in ids \cup cancelled : id[2] \in Nat
    BY DEF TypeOK, TimerIds
  <2>2. \A id \in ids' \cup cancelled' : id[2] <= numCreated'
    BY <1>2, <1>4, <2>1 DEF CancelInv, Known
  <2>3. ASSUME NEW n \in 1..Len(requests') PROVE requests'[n].timer[2] <= numCreated'
    <3>1. CASE requests'[n] = r
      BY <1>2, <1>6, <3>1
    <3>2. CASE n \in 1..Len(requests) /\ requests'[n] = requests[n]
      BY <1>2, <3>2, RequestTypes DEF CancelInv, Known
    <3> QED
      BY <1>7, <3>1, <3>2
  <2> QED
    BY <2>2, <2>3 DEF Known
<1>10. Gone'
  <2> SUFFICES ASSUME NEW id \in cancelled
               PROVE  /\ id \notin activeTimers'
                      /\ id \notin RequestedIds'
                      /\ (Holds(expired', id[1]) /\ heap'[id[1]].sequence = id[2])
                           => id \in cancelingTimers'
    BY <1>4 DEF Gone
  <2>1. id[1] \in Addrs /\ id[2] \in Nat /\ id[2] <= numCreated
    BY DEF TypeOK, TimerIds, CancelInv, Known
  <2>2. id # <<a, numCreated + 1>>
    BY <1>2, <2>1
  <2>3. Holds(expired', id[1]) => heap'[id[1]] = heap[id[1]] /\ Holds(expired, id[1])
    BY <1>3, <1>4, <1>5, <2>1
  <2> QED
    BY <1>4, <1>7, <2>2, <2>3 DEF CancelInv, Gone
<1> QED
  BY <1>8, <1>9, <1>10 DEF CancelInv

\* addTimerInLoop() activates a timer whose id was still to be added, which
\* the ids of cancelled timers are not.
LEMMA RunAddKeepsGone ==
  ASSUME TypeOK, CancelInv, RunRequest, Head(requests).op = "add"
  PROVE  CancelInv'
<1> DEFINE r == Head(requests)
           a == r.timer[1]
<1>1. /\ requests # <<>> /\ requests' = Tail(requests)
      /\ AddTimerInLoop(a, heap[a])
      /\ UNCHANGED <<heap, expired, numCreated, ids, cancelled, cancelingTimers>>
  BY DEF RunRequest, batchVars
<1>2. /\ RequestedIds' \subseteq RequestedIds
      /\ \A n \in 1..Len(requests') :
           n + 1 \in 1..Len(requests) /\ requests'[n] = requests[n + 1]
      /\ 1 \in 1..Len(requests) /\ r = requests[1]
  BY <1>1, TailRequest
<1>3. r \in Request /\ r.op = "add" /\ r.timer = <<a, r.timer[2]>>
  BY <1>2, RequestTypes DEF Request, TimerIds
<1>4. activeTimers' = activeTimers \cup {<<a, heap[a].sequence>>}
  BY <1>1 DEF AddTimerInLoop, Insert
<1>5. r.timer = <<a, heap[a].sequence>> /\ r.timer \in RequestedIds
  BY <1>2, <1>3, RequestedIdsMember DEF CancelInv, AddsItsTimer
<1> HIDE DEF r, a
<1>6. AddsItsTimer' /\ Known'
  BY <1>1, <1>2 DEF CancelInv, AddsItsTimer, Known
<1>7. Gone'
  BY <1>1, <1>2, <1>4, <1>5 DEF CancelInv, Gone, Holds
<1> QED
  BY <1>6, <1>7 DEF CancelInv

\* A request to cancel leaves the queue.
LEMMA RunCancelKeepsGone ==
  ASSUME TypeOK, QueueInv, CancelInv, RunRequest, Head(requests).op = "cancel"
  PROVE  CancelInv'
<1> DEFINE r == Head(requests)
<1>1. /\ requests # <<>> /\ requests' = Tail(requests)
      /\ CancelInLoop(r.timer)
      /\ UNCHANGED <<pc, expired, numCreated, callingExpiredTimers, ids>>
  BY DEF RunRequest, batchVars
<1>2. /\ RequestedIds' \subseteq RequestedIds
      /\ \A n \in 1..Len(requests') :
           n + 1 \in 1..Len(requests) /\ requests'[n] = requests[n + 1]
      /\ 1 \in 1..Len(requests) /\ r = requests[1]
  BY <1>1, TailRequest
<1>3. r \in Request
  BY <1>2, RequestTypes
<1>4. r.timer \in TimerIds /\ r.timer[2] <= numCreated
  BY <1>2, <1>3 DEF Request, CancelInv, Known
<1> HIDE DEF r
<1>5. requests' \in Seq(Request)
  BY <1>1, TailFacts DEF TypeOK
<1>6. \A n \in 1..Len(requests') : requests'[n].timer[2] <= numCreated
  BY <1>2 DEF CancelInv, Known
<1>7. AddsItsTimer'
  <2> SUFFICES ASSUME NEW n \in 1..Len(requests'), requests'[n].op = "add"
               PROVE  requests'[n].timer[2] = heap'[requests'[n].timer[1]].sequence
    BY DEF AddsItsTimer
  <2> DEFINE b == requests'[n].timer[1]
  <2>1. /\ requests'[n] = requests[n + 1] /\ n + 1 \in 1..Len(requests)
        /\ b \in Addrs /\ AddsTimer(requests, b)
    BY <1>2, RequestTypes DEF AddsTimer
  <2>2. requests'[n].timer[2] = heap[b].sequence
    BY <2>1 DEF CancelInv, AddsItsTimer
  <2> HIDE DEF b
  <2>3. ~Holds(timers, b)
    BY <2>1 DEF QueueInv, OneOwner
  <2>4. heap'[b] = heap[b]
    BY <1>1, <1>4, <2>1, <2>3, CancelEffect
  <2> QED
    BY <2>2, <2>4 DEF b
<1> QED
  BY <1>1, <1>2, <1>4, <1>5, <1>6, <1>7, CancelKeepsGone

\* The batch is taken from activeTimers_, where no cancelled timer is.
LEMMA HandleReadKeepsGone ==
  ASSUME TypeOK, QueueInv, CancelInv, HandleRead
  PROVE  CancelInv'
<1>1. /\ expired' = Expired /\ Expired \subseteq timers
      /\ activeTimers' \subseteq activeTimers
      /\ UNCHANGED <<heap, numCreated, requests, ids, cancelled>>
  BY DEF HandleRead, Expired
<1>2. RequestedIds' = RequestedIds
  BY <1>1 DEF RequestedIds, Adds
<1>3. AddsItsTimer' /\ Known'
  BY <1>1 DEF CancelInv, AddsItsTimer, Known
<1>4. ASSUME NEW id \in cancelled, Holds(expired', id[1]), heap[id[1]].sequence = id[2]
      PROVE  FALSE
  <2>1. id[1] \in Addrs /\ id[2] \in 0..MaxTimers /\ id = <<id[1], id[2]>>
    BY DEF TypeOK, TimerIds
  <2>2. Holds(timers, id[1])
    BY <1>1, <1>4 DEF Holds
  <2>3. <<id[1], id[2]>> \in activeTimers
    BY <1>4, <2>1, <2>2 DEF QueueInv, Actives
  <2> QED
    BY <2>1, <2>3 DEF CancelInv, Gone
<1>5. Gone'
  BY <1>1, <1>2, <1>4 DEF CancelInv, Gone
<1> QED
  BY <1>3, <1>5 DEF CancelInv

\* reset() restarts no timer of cancelingTimers_.
LEMMA ResetKeepsGone ==
  ASSUME TypeOK, QueueInv, CancelInv, Reset
  PROVE  CancelInv'
<1>1. /\ expired' = {}
      /\ UNCHANGED <<numCreated, requests, ids, cancelled, cancelingTimers>>
  BY DEF Reset
<1>2. /\ \A b \in Addrs :
           /\ heap'[b] = IF b \in Deleted THEN Free
                         ELSE IF b \in Restarted
                           THEN [heap[b] EXCEPT !.expiration = NextExpiration(b)]
                           ELSE heap[b]
           /\ Holds(expired, b) <=> b \in Deleted \cup Restarted
      /\ \A b, s : <<b, s>> \in activeTimers'
                     <=> \/ <<b, s>> \in activeTimers
                         \/ b \in Restarted /\ s = heap[b].sequence
  BY ResetEffect
<1>3. RequestedIds' = RequestedIds /\ \A b : ~Holds(expired', b)
  BY <1>1 DEF RequestedIds, Adds, Holds
<1>4. \A n \in 1..Len(requests) :
        requests[n].op = "add" => heap'[requests[n].timer[1]] = heap[requests[n].timer[1]]
  <2> SUFFICES ASSUME NEW n \in 1..Len(requests), requests[n].op = "add"
               PROVE  heap'[requests[n].timer[1]] = heap[requests[n].timer[1]]
    OBVIOUS
  <2> DEFINE b == requests[n].timer[1]
  <2>1. b \in Addrs /\ AddsTimer(requests, b)
    BY RequestTypes DEF AddsTimer
  <2> HIDE DEF b
  <2>2. ~Holds(expired, b)
    BY <2>1 DEF QueueInv, OneOwner
  <2>3. heap'[b] = heap[b]
    BY <1>2, <2>1, <2>2
  <2> QED
    BY <2>3 DEF b
<1>5. AddsItsTimer' /\ Known'
  BY <1>1, <1>4 DEF CancelInv, AddsItsTimer, Known
<1>6. ASSUME NEW id \in cancelled PROVE id \notin activeTimers'
  <2>1. id[1] \in Addrs /\ id = <<id[1], id[2]>>
    BY DEF TypeOK, TimerIds
  <2>2. id \notin activeTimers
    BY DEF CancelInv, Gone
  <2>3. ASSUME id[1] \in Restarted, id[2] = heap[id[1]].sequence PROVE FALSE
    <3>1. id \notin cancelingTimers
      BY <2>1, <2>3 DEF Restarted, Repeats
    <3>2. Holds(expired, id[1])
      BY <1>2, <2>1, <2>3
    <3> QED
      BY <2>3, <3>1, <3>2 DEF CancelInv, Gone
  <2>4. <<id[1], id[2]>> \notin activeTimers'
    BY <1>2, <2>1, <2>2, <2>3
  <2> QED
    BY <2>1, <2>4
<1>7. Gone'
  BY <1>1, <1>3, <1>6 DEF CancelInv, Gone
<1> QED
  BY <1>5, <1>7 DEF CancelInv

\* The destructor leaves the timers of the requests alone.
LEMMA DestroyKeepsGone ==
  ASSUME TypeOK, QueueInv, CancelInv, Destroy
  PROVE  CancelInv'
<1>1. /\ activeTimers' = {} /\ pc = "idle"
      /\ UNCHANGED <<numCreated, requests, ids, cancelled, expired>>
      /\ \A b \in Addrs : ~Holds(timers, b) => heap'[b] = heap[b]
  BY DEF Destroy, Waiting, Holds
<1>2. RequestedIds' = RequestedIds /\ \A b : ~Holds(expired', b)
  BY <1>1 DEF RequestedIds, Adds, Holds, QueueInv, Batch
<1>3. \A n \in 1..Len(requests) :
        requests[n].op = "add" => heap'[requests[n].timer[1]] = heap[requests[n].timer[1]]
  BY <1>1, RequestTypes DEF QueueInv, OneOwner, AddsTimer
<1>4. AddsItsTimer' /\ Known'
  BY <1>1, <1>3 DEF CancelInv, AddsItsTimer, Known
<1>5. Gone'
  BY <1>1, <1>2 DEF CancelInv, Gone
<1> QED
  BY <1>4, <1>5 DEF CancelInv

\* Every step keeps what is known of cancelled timers.
LEMMA CancelStep ==
  ASSUME TypeOK, QueueInv, CancelInv, [Next]_vars
  PROVE  CancelInv'
<1>1. ASSUME NEW a \in Addrs, NEW w \in Whens, NEW i \in Intervals, OwnerAddTimer(a, w, i)
      PROVE  CancelInv'
  BY <1>1, OwnerAddKeepsGone
<1>2. ASSUME NEW id \in ids, OwnerCancel(id) PROVE CancelInv'
  <2>1. /\ UNCHANGED <<pc, expired, numCreated, callingExpiredTimers, ids>>
        /\ requests' = requests /\ CancelInLoop(id)
    BY <1>2 DEF OwnerCancel, batchVars
  <2>2. id \in TimerIds /\ id[2] <= numCreated
    BY DEF TypeOK, CancelInv, Known
  <2>3. RequestedIds' \subseteq RequestedIds
    BY <2>1 DEF RequestedIds, Adds
  <2>4. requests' \in Seq(Request)
        /\ \A n \in 1..Len(requests') : requests'[n].timer[2] <= numCreated
    BY <2>1 DEF TypeOK, CancelInv, Known
  <2>5. AddsItsTimer'
    <3>1. ASSUME NEW n \in 1..Len(requests), requests[n].op = "add"
          PROVE  heap'[requests[n].timer[1]] = heap[requests[n].timer[1]]
      <4> DEFINE b == requests[n].timer[1]
      <4>1. b \in Addrs /\ AddsTimer(requests, b)
        BY <3>1, RequestTypes DEF AddsTimer
      <4> HIDE DEF b
      <4>2. ~Holds(timers, b)
        BY <4>1 DEF QueueInv, OneOwner
      <4>3. heap'[b] = heap[b]
        BY <2>1, <2>2, <4>1, <4>2, CancelEffect
      <4> QED
        BY <4>3 DEF b
    <3> QED
      BY <2>1, <3>1 DEF CancelInv, AddsItsTimer
  <2> QED
    BY <2>1, <2>2, <2>3, <2>4, <2>5, CancelKeepsGone
<1>3. ASSUME NEW t \in Threads, NEW a \in Addrs, NEW w \in Whens, NEW i \in Intervals,
             AddTimer(t, a, w, i)
      PROVE  CancelInv'
  BY <1>3, AddTimerKeepsGone
<1>4. ASSUME NEW t \in Threads, ReturnTimerId(t) PROVE CancelInv'
  \* Whatever is read, it is not a number of the future.
  <2> DEFINE a == adding[t][1]
  <2>1. a \in Addrs
    BY <1>4 DEF ReturnTimerId, TypeOK, TimerIds
  <2> HIDE DEF a
  <2>2. \A s \in SequenceRead(a) : s <= numCreated
    BY <2>1 DEF SequenceRead, QueueInv, Numbered, TypeOK
  <2>3. \A id \in ids' : id \in ids \/ id[2] <= numCreated
    BY <1>4, <2>2 DEF ReturnTimerId, a
  <2>4. /\ UNCHANGED <<cancelled, numCreated, requests, expired, activeTimers, heap,
                       cancelingTimers>>
    BY <1>4 DEF ReturnTimerId, batchVars, queueVars
  <2>5. RequestedIds' = RequestedIds
    BY <2>4 DEF RequestedIds, Adds
  <2> QED
    BY <2>3, <2>4, <2>5 DEF CancelInv, AddsItsTimer, Known, Gone
<1>5. ASSUME NEW t \in Threads, NEW id \in ids, Cancel(t, id) PROVE CancelInv'
  <2> DEFINE r == [op |-> "cancel", timer |-> id]
  <2>1. r \in Request /\ r.op = "cancel" /\ r.timer = id
    BY DEF Request, TypeOK
  <2>2. /\ requests' = Append(requests, r)
        /\ UNCHANGED <<cancelled, numCreated, ids, expired, activeTimers, heap,
                       cancelingTimers>>
    BY <1>5 DEF Cancel, Queue, batchVars, queueVars
  <2> HIDE DEF r
  <2>3. /\ \A x : x \in RequestedIds' <=> x \in RequestedIds
        /\ \A n \in 1..Len(requests') :
             (n \in 1..Len(requests) /\ requests'[n] = requests[n]) \/ requests'[n] = r
    BY <2>1, <2>2, AppendRequest
  <2>4. AddsItsTimer' /\ Known'
    BY <2>1, <2>2, <2>3 DEF CancelInv, AddsItsTimer, Known
  <2>5. Gone'
    BY <2>2, <2>3 DEF CancelInv, Gone
  <2> QED
    BY <2>4, <2>5 DEF CancelInv
<1>6. ASSUME ReportTimerfd PROVE CancelInv'
  BY <1>6, NothingNew DEF ReportTimerfd, batchVars, queueVars
<1>7. ASSUME RunRequest PROVE CancelInv'
  BY <1>7, RunAddKeepsGone, RunCancelKeepsGone DEF RunRequest
<1>8. ASSUME HandleRead PROVE CancelInv'
  BY <1>8, HandleReadKeepsGone
<1>9. ASSUME RunTimer PROVE CancelInv'
  BY <1>9, NothingNew DEF RunTimer, queueVars
<1>10. ASSUME EndTimer PROVE CancelInv'
  BY <1>10, NothingNew DEF EndTimer, queueVars
<1>11. ASSUME Reset PROVE CancelInv'
  BY <1>11, ResetKeepsGone
<1>12. ASSUME Destroy PROVE CancelInv'
  BY <1>12, DestroyKeepsGone
<1>13. ASSUME Tick PROVE CancelInv'
  BY <1>13, NothingNew DEF Tick, batchVars, queueVars
<1>14. ASSUME NEW d \in ClockSteps, StepClock(d) PROVE CancelInv'
  BY <1>14, NothingNew DEF StepClock, batchVars, queueVars
<1>15. ASSUME UNCHANGED vars PROVE CancelInv'
  BY <1>15, NothingNew DEF vars
<1> QED
  BY <1>1, <1>2, <1>3, <1>4, <1>5, <1>6, <1>7, <1>8, <1>9, <1>10, <1>11, <1>12,
     <1>13, <1>14, <1>15 DEF Next

\* The three invariants together.
Inv == TypeOK /\ QueueInv /\ CancelInv

LEMMA Invariance == Spec => []Inv
<1>1. Init => CancelInv
  <2> SUFFICES ASSUME Init PROVE CancelInv
    OBVIOUS
  <2>1. ids = {} /\ cancelled = {} /\ requests = <<>>
    BY DEF Init
  <2> QED
    BY <2>1 DEF CancelInv, AddsItsTimer, Known, Gone
<1>2. Init => Inv
  BY <1>1, TypeInit, QueueInit DEF Inv
<1>3. Inv /\ [Next]_vars => Inv'
  BY TypeStep, QueueStep, CancelStep DEF Inv
<1> QED
  BY <1>2, <1>3, PTL DEF Spec

\* A timer that cancelInLoop() was given, and that was not still to be added,
\* never waits in the queue again: not even a repeating one that was cancelled
\* from its own callback.
THEOREM CancelledTimersStayGone == Spec => []CancelledTimerIsGone
<1>1. Inv => CancelledTimerIsGone
  BY DEF Inv, CancelInv, Gone, CancelledTimerIsGone
<1> QED
  BY <1>1, Invariance, PTL

\* A waiting timer leaves the queue by its expiration, by its own id or with
\* the queue, never by the id of a timer that had its address before.
THEOREM NoTimerIsCancelledForAnother == Spec => OnlyItsOwnCancelRemoves
<1> DEFINE Left(id) == \/ id[1] \in InBatch'
                       \/ id \in cancelled'
                       \/ pc' = "destroyed"
           Step == \A id \in activeTimers \ activeTimers' : Left(id)
<1>1. ASSUME Inv, NEW x \in TimerIds, CancelInLoop(x),
             NEW id \in activeTimers \ activeTimers'
      PROVE  id \in cancelled'
  <2>1. id = x
    BY <1>1, CancelEffect DEF Inv
  <2>2. ~AddsTimer(requests, x[1])
    <3>1. Holds(timers, x[1]) /\ x[1] \in Addrs
      BY <1>1, <2>1, CancelEffect DEF Inv, TimerIds
    <3> QED
      BY <1>1, <3>1 DEF Inv, QueueInv, OneOwner
  <2>3. x \notin RequestedIds
    BY <2>2, RequestedIdsMember DEF AddsTimer
  <2> QED
    BY <1>1, <2>1, <2>3 DEF CancelInLoop
<1>2. Inv /\ [Next]_vars => [Step]_vars
  <2> SUFFICES ASSUME Inv, Next, NEW id \in activeTimers \ activeTimers' PROVE Left(id)
    OBVIOUS
  <2>1. CASE \E a \in Addrs, w \in Whens, i \in Intervals : OwnerAddTimer(a, w, i)
    BY <2>1, AddTimerEffect DEF OwnerAddTimer, AddTimerInLoop, Insert
  <2>2. ASSUME NEW x \in ids, OwnerCancel(x) PROVE Left(id)
    <3>1. x \in TimerIds /\ CancelInLoop(x)
      BY <2>2 DEF Inv, TypeOK, OwnerCancel
    <3> QED
      BY <1>1, <3>1
  <2>3. CASE \E t \in Threads, a \in Addrs, w \in Whens, i \in Intervals : AddTimer(t, a, w, i)
    BY <2>3 DEF AddTimer
  <2>4. CASE \E t \in Threads : ReturnTimerId(t)
    BY <2>4 DEF ReturnTimerId, queueVars
  <2>5. CASE \E t \in Threads, x \in ids : Cancel(t, x)
    BY <2>5 DEF Cancel, queueVars
  <2>6. CASE ReportTimerfd
    BY <2>6 DEF ReportTimerfd, queueVars
  <2>7. CASE RunRequest
    <3>1. Head(requests) \in Request
      BY <2>7, TailFacts DEF RunRequest, Inv, TypeOK
    <3>2. Head(requests).timer \in TimerIds
      BY <3>1 DEF Request
    <3>3. CASE AddTimerInLoop(Head(requests).timer[1], heap[Head(requests).timer[1]])
      BY <3>3 DEF AddTimerInLoop, Insert
    <3>4. CASE CancelInLoop(Head(requests).timer)
      BY <1>1, <3>2, <3>4
    <3> QED
      BY <2>7, <3>3, <3>4 DEF RunRequest
  <2>8. CASE HandleRead
    <3>1. id \in ActiveOf(Expired) /\ expired' = Expired
      BY <2>8 DEF HandleRead
    <3> QED
      BY <3>1 DEF ActiveOf, InBatch
  <2>9. CASE RunTimer \/ EndTimer
    BY <2>9 DEF RunTimer, EndTimer, queueVars
  <2>10. CASE Reset
    BY <2>10 DEF Reset
  <2>11. CASE Destroy
    BY <2>11 DEF Destroy
  <2>12. CASE Tick \/ \E d \in ClockSteps : StepClock(d)
    BY <2>12 DEF Tick, StepClock, queueVars
  <2> HIDE DEF Left
  <2> QED
    BY <2>1, <2>2, <2>3, <2>4, <2>5, <2>6, <2>7, <2>8, <2>9, <2>10, <2>11, <2>12 DEF Next
<1> QED
  BY <1>2, Invariance, PTL DEF Spec, OnlyItsOwnCancelRemoves

-----------------------------------------------------------------------------
(* What the simulation needs beyond the invariant of the queue.            *)

\* No two timers that are alive have the same number.
Distinct ==
  \A a, b \in Addrs :
    Live(a) /\ Live(b) /\ heap[a].sequence = heap[b].sequence => a = b

\* handleRead has read the time just when it is at work.
Reading == readTime # 0 <=> pc \in {"expired", "callback"}

SimInv == Inv /\ Distinct /\ Reading

\* A step that creates no timer and changes no number keeps the numbers distinct.
LEMMA FewerNumbers ==
  ASSUME Distinct,
         \A a \in Addrs : Live(a)' => Live(a) /\ heap'[a].sequence = heap[a].sequence
  PROVE  Distinct'
BY DEF Distinct

\* A new timer has a number of its own.
LEMMA NewNumber ==
  ASSUME TypeOK, QueueInv, Distinct, NEW a \in Addrs, NEW timer,
         timer.sequence = numCreated + 1,
         heap' = [heap EXCEPT ![a] = timer]
  PROVE  Distinct'
<1>1. \A b \in Addrs : heap'[b] = IF b = a THEN timer ELSE heap[b]
  BY DEF TypeOK
<1>2. \A b \in Addrs : Live(b) => heap[b].sequence # numCreated + 1
  BY DEF QueueInv, Numbered, TypeOK
<1>3. \A b \in Addrs \ {a} : /\ Live(b)' <=> Live(b)
                             /\ heap'[b].sequence = heap[b].sequence
  BY <1>1 DEF Live
<1>4. heap'[a].sequence = numCreated + 1
  BY <1>1
<1> QED
  BY <1>2, <1>3, <1>4 DEF Distinct

\* cancelInLoop() deletes at most one timer.
LEMMA CancelKeepsNumbers ==
  ASSUME TypeOK, QueueInv, Distinct, NEW id \in TimerIds, CancelInLoop(id)
  PROVE  Distinct'
<1>1. \A b \in Addrs : heap'[b] = heap[b] \/ heap'[b] = Free
  BY CancelEffect
<1> QED
  BY <1>1, FewerNumbers DEF Live

\* A request to cancel that is about to be run names a timer.
LEMMA HeadTypes ==
  ASSUME TypeOK, requests # <<>>
  PROVE  /\ Head(requests) \in Request
         /\ Head(requests).timer \in TimerIds
         /\ Head(requests).timer[1] \in Addrs
         /\ Head(requests) = requests[1]
         /\ 1 \in 1..Len(requests)
<1>1. Head(requests) \in Request /\ Head(requests) = requests[1] /\ Len(requests) \in Nat \ {0}
  BY TailFacts DEF TypeOK
<1> QED
  BY <1>1 DEF Request, TimerIds

\* Every step keeps the numbers distinct.
LEMMA DistinctStep ==
  ASSUME TypeOK, QueueInv, Distinct, [Next]_vars
  PROVE  Distinct'
<1>1. ASSUME NEW a \in Addrs, NEW w \in Whens, NEW i \in Intervals, OwnerAddTimer(a, w, i)
      PROVE  Distinct'
  <2>1. NewTimer(a) /\ heap' = [heap EXCEPT ![a] = TimerAt(w, i)]
    BY <1>1 DEF OwnerAddTimer
  <2> QED
    BY <2>1, NewTimerType, NewNumber
<1>2. ASSUME NEW id \in ids, OwnerCancel(id) PROVE Distinct'
  BY <1>2, CancelKeepsNumbers DEF OwnerCancel, TypeOK
<1>3. ASSUME NEW t \in Threads, NEW a \in Addrs, NEW w \in Whens, NEW i \in Intervals,
             AddTimer(t, a, w, i)
      PROVE  Distinct'
  <2>1. NewTimer(a) /\ heap' = [heap EXCEPT ![a] = TimerAt(w, i)]
    BY <1>3 DEF AddTimer
  <2> QED
    BY <2>1, NewTimerType, NewNumber
<1>4. ASSUME RunRequest PROVE Distinct'
  <2>1. requests # <<>> /\ (heap' = heap \/ CancelInLoop(Head(requests).timer))
    BY <1>4 DEF RunRequest
  <2>2. CASE heap' = heap
    BY <2>2, FewerNumbers DEF Live
  <2> QED
    BY <2>1, <2>2, HeadTypes, CancelKeepsNumbers
<1>5. ASSUME Reset PROVE Distinct'
  <2>1. \A b \in Addrs : heap'[b] = Free \/ heap'[b] = heap[b]
                           \/ heap'[b] = [heap[b] EXCEPT !.expiration = NextExpiration(b)]
    BY <1>5, ResetEffect
  <2>2. \A b \in Addrs : b \in Restarted => Live(b)
    BY DEF Restarted, InBatch, QueueInv, Owned, Holds
  <2>3. \A b \in Addrs : heap[b] \in Timer
    BY DEF TypeOK
  <2>4. \A b \in Addrs : Live(b)' => Live(b) /\ heap'[b].sequence = heap[b].sequence
    <3> SUFFICES ASSUME NEW b \in Addrs, Live(b)'
                 PROVE  Live(b) /\ heap'[b].sequence = heap[b].sequence
      OBVIOUS
    <3>1. heap'[b] # Free
      BY DEF Live
    <3>2. CASE b \in Restarted
      BY <1>5, <2>2, <2>3, <3>1, <3>2, ResetEffect DEF Timer
    <3>3. CASE b \notin Restarted
      BY <1>5, <3>1, <3>3, ResetEffect DEF Live
    <3> QED
      BY <3>2, <3>3
  <2> QED
    BY <2>4, FewerNumbers
<1>6. ASSUME Destroy PROVE Distinct'
  <2>1. \A b \in Addrs : heap'[b] = Free \/ heap'[b] = heap[b]
    BY <1>6 DEF Destroy
  <2> QED
    BY <2>1, FewerNumbers DEF Live
<1>7. CASE UNCHANGED heap
  BY <1>7, FewerNumbers DEF Live
<1> QED
  BY <1>1, <1>2, <1>3, <1>4, <1>5, <1>6, <1>7
     DEF Next, ReturnTimerId, Cancel, ReportTimerfd, HandleRead, RunTimer, EndTimer,
         Tick, StepClock, queueVars, vars

\* Every step keeps the time of the batch with the batch.
LEMMA ReadingStep ==
  ASSUME TypeOK, Reading, [Next]_vars
  PROVE  Reading'
<1>1. CASE HandleRead
  <2>1. readTime' # 0 /\ pc' = "expired"
    BY <1>1 DEF HandleRead, TypeOK
  <2> QED
    BY <2>1 DEF Reading
<1>2. CASE RunTimer \/ EndTimer
  BY <1>2 DEF RunTimer, EndTimer, Reading
<1>3. CASE Reset
  BY <1>3 DEF Reset, Reading
<1>4. CASE Destroy
  BY <1>4 DEF Destroy, Reading
<1>5. CASE UNCHANGED <<pc, readTime>>
  BY <1>5 DEF Reading
<1> QED
  BY <1>1, <1>2, <1>3, <1>4, <1>5
     DEF Next, OwnerAddTimer, OwnerCancel, AddTimer, ReturnTimerId, Cancel,
         ReportTimerfd, RunRequest, Tick, StepClock, batchVars, vars

\* The invariant of the simulation holds in every state.
LEMMA SimInvariance == Spec => []SimInv
<1>1. Init => Distinct /\ Reading
  BY DEF Init, Distinct, Live, Reading
<1>2. Init => Inv
  <2> SUFFICES ASSUME Init PROVE Inv
    OBVIOUS
  <2>1. ids = {} /\ cancelled = {} /\ requests = <<>>
    BY DEF Init
  <2>2. CancelInv
    BY <2>1 DEF CancelInv, AddsItsTimer, Known, Gone
  <2> QED
    BY <2>2, TypeInit, QueueInit DEF Inv
<1>3. SimInv /\ [Next]_vars => SimInv'
  BY TypeStep, QueueStep, CancelStep, DistinctStep, ReadingStep DEF SimInv, Inv
<1> QED
  BY <1>1, <1>2, <1>3, PTL DEF Spec, SimInv

-----------------------------------------------------------------------------
(* The mapping, timer by timer. *)

\* What the records of timers are made of.
PromiseTimers == [seq : Nat, at : Nat, every : Nat]

\* The record of a timer is what the timer says of itself.
LEMMA RecordIs ==
  ASSUME NEW a
  PROVE  Record(a) = [seq |-> heap[a].sequence, at |-> heap[a].expiration,
                      every |-> heap[a].interval]
BY DEF Record, Entry

\* And it has the type that Timers asks for.
LEMMA RecordType ==
  ASSUME TypeOK, NEW a \in Addrs
  PROVE  Record(a) \in PromiseTimers
<1>1. heap[a] \in Timer
  BY DEF TypeOK
<1> QED
  BY <1>1, RecordIs DEF PromiseTimers, Timer

\* The abstract sets hold the records of the timers that the sets of the queue
\* hold the pointers of.
Mapped ==
  /\ \A x : x \in Entries(timers) <=> \E a \in Addrs : Holds(timers, a) /\ x = Record(a)
  /\ \A x : x \in Entries(expired) <=> \E a \in Addrs : Holds(expired, a) /\ x = Record(a)
  /\ \A x : x \in Entries(toRun) <=> \E a \in Addrs : Holds(toRun, a) /\ x = Record(a)
  /\ \A y : y \in Stopped <=> \E a \in Addrs : /\ Holds(expired, a)
                                              /\ y = heap[a].sequence
                                              /\ <<a, y>> \in cancelingTimers

LEMMA MappingFacts ==
  ASSUME SimInv
  PROVE  Mapped
<1>1. TypeOK /\ QueueInv
  BY DEF SimInv, Inv
<1>2. \A e \in timers \cup expired : e[2] \in Addrs /\ Entry(e) = Record(e[2])
  BY <1>1 DEF QueueInv, Keys, TypeOK, Record, Entry
<1>3. toRun \subseteq expired
  BY <1>1 DEF TypeOK
<1>4. \A y : y \in Stopped <=> \E a \in Addrs : /\ Holds(expired, a)
                                              /\ y = heap[a].sequence
                                              /\ <<a, y>> \in cancelingTimers
  BY <1>2 DEF Stopped, InBatch, Holds
<1>5. ASSUME NEW x
      PROVE  x \in Entries(timers) <=> \E a \in Addrs : Holds(timers, a) /\ x = Record(a)
  BY <1>2 DEF Entries, Holds
<1>6. ASSUME NEW x
      PROVE  x \in Entries(expired) <=> \E a \in Addrs : Holds(expired, a) /\ x = Record(a)
  BY <1>2 DEF Entries, Holds
<1>7. ASSUME NEW x
      PROVE  x \in Entries(toRun) <=> \E a \in Addrs : Holds(toRun, a) /\ x = Record(a)
  BY <1>2, <1>3 DEF Entries, Holds
<1> QED
  BY <1>4, <1>5, <1>6, <1>7 DEF Mapped

\* What the requests are mapped to, one by one.
AskedMapped ==
  /\ Asked \in Seq(SUBSET PromiseTimers)
  /\ Len(Asked) = Len(requests)
  /\ Len(requests) \in Nat
  /\ \A i \in 1..Len(requests) :
       Asked[i] = IF requests[i].op = "add" THEN {Record(requests[i].timer[1])} ELSE {}

LEMMA AskedFacts ==
  ASSUME SimInv
  PROVE  AskedMapped
<1>1. TypeOK
  BY DEF SimInv, Inv
<1>2. Len(requests) \in Nat
  BY <1>1 DEF TypeOK
<1>3. \A i \in 1..Len(requests) :
        (IF requests[i].op = "add" THEN {Record(requests[i].timer[1])} ELSE {})
          \in SUBSET PromiseTimers
  BY <1>1, RequestTypes, RecordType
<1> QED
  BY <1>2, <1>3 DEF AskedMapped, Asked

\* A sequence is known by its length and its elements.
LEMMA SameSequence ==
  ASSUME NEW S, NEW s \in Seq(S), NEW t \in Seq(S), Len(s) = Len(t),
         \A i \in 1..Len(s) : s[i] = t[i]
  PROVE  s = t
OBVIOUS

-----------------------------------------------------------------------------
(* What stays as it is. *)

\* A timer that is not changed has the same record.
LEMMA SameRecord ==
  ASSUME NEW a, heap'[a] = heap[a]
  PROVE  Record(a)' = Record(a)
BY DEF Record, Entry

\* The batch stays if its timers do.
LEMMA SameBatch ==
  ASSUME SimInv, SimInv', UNCHANGED <<expired, toRun>>,
         \A b \in Addrs : Holds(expired, b) => heap'[b] = heap[b]
  PROVE  Entries(expired)' = Entries(expired) /\ Entries(toRun)' = Entries(toRun)
<1>1. Mapped /\ Mapped'
  BY MappingFacts, PTL
<1>2. \A b : /\ Holds(expired', b) <=> Holds(expired, b)
             /\ Holds(toRun', b) <=> Holds(toRun, b)
  OBVIOUS
<1>3. \A b \in Addrs : Holds(toRun, b) => Holds(expired, b)
  BY DEF Holds, SimInv, Inv, TypeOK
<1>4. \A b \in Addrs : Holds(expired, b) => Record(b)' = Record(b)
  BY SameRecord
<1>5. \A x : x \in Entries(expired)' <=> x \in Entries(expired)
  BY <1>1, <1>2, <1>4 DEF Mapped
<1>6. \A x : x \in Entries(toRun)' <=> x \in Entries(toRun)
  BY <1>1, <1>2, <1>3, <1>4 DEF Mapped
<1> QED
  BY <1>5, <1>6

\* So do the timers that are stopped, if no other of the batch is cancelled.
LEMMA SameStopped ==
  ASSUME SimInv, SimInv', UNCHANGED expired,
         \A b \in Addrs : Holds(expired, b) =>
            /\ heap'[b] = heap[b]
            /\ <<b, heap[b].sequence>> \in cancelingTimers'
                 <=> <<b, heap[b].sequence>> \in cancelingTimers
  PROVE  Stopped' = Stopped
<1>1. Mapped /\ Mapped'
  BY MappingFacts, PTL
<1>2. \A b : Holds(expired', b) <=> Holds(expired, b)
  OBVIOUS
<1>3. ASSUME NEW y PROVE y \in Stopped' <=> y \in Stopped
  <2> DEFINE Is(b) == /\ Holds(expired, b)
                      /\ y = heap[b].sequence
                      /\ <<b, y>> \in cancelingTimers
             Was(b) == /\ Holds(expired', b)
                       /\ y = heap'[b].sequence
                       /\ <<b, y>> \in cancelingTimers'
  <2>1. \A b \in Addrs : Was(b) <=> Is(b)
    BY <1>2
  <2>2. /\ y \in Stopped <=> \E b \in Addrs : Is(b)
        /\ y \in Stopped' <=> \E b \in Addrs : Was(b)
    BY <1>1 DEF Mapped
  <2> HIDE DEF Is, Was
  <2> QED
    BY <2>1, <2>2
<1> QED
  BY <1>3

\* So do the timers that wait.
LEMMA SameWaiting ==
  ASSUME SimInv, SimInv', UNCHANGED timers,
         \A b \in Addrs : Holds(timers, b) => heap'[b] = heap[b]
  PROVE  Entries(timers)' = Entries(timers)
<1>1. Mapped /\ Mapped'
  BY MappingFacts, PTL
<1>2. \A b : Holds(timers', b) <=> Holds(timers, b)
  OBVIOUS
<1>3. \A b \in Addrs : Holds(timers, b) => Record(b)' = Record(b)
  BY SameRecord
<1>4. \A x : x \in Entries(timers)' <=> x \in Entries(timers)
  BY <1>1, <1>2, <1>3 DEF Mapped
<1> QED
  BY <1>4

\* So do the requests, if the timers that are to be added do.
LEMMA SameAsked ==
  ASSUME SimInv, UNCHANGED requests,
         \A b \in Addrs : AddsTimer(requests, b) => heap'[b] = heap[b]
  PROVE  Asked' = Asked
<1>1. \A i \in 1..Len(requests) :
        requests[i].op = "add" => Record(requests[i].timer[1])' = Record(requests[i].timer[1])
  <2> SUFFICES ASSUME NEW i \in 1..Len(requests), requests[i].op = "add"
               PROVE  Record(requests[i].timer[1])' = Record(requests[i].timer[1])
    OBVIOUS
  <2>1. requests[i].timer[1] \in Addrs
    BY RequestTypes DEF SimInv, Inv
  <2>2. heap'[requests[i].timer[1]] = heap[requests[i].timer[1]]
    BY <2>1 DEF AddsTimer
  <2> QED
    BY <2>2 DEF Record, Entry
<1> QED
  BY <1>1 DEF Asked

-----------------------------------------------------------------------------
(* New timers. *)

\* new Timer takes an address that nobody holds, and the next number.
LEMMA NewRecord ==
  ASSUME SimInv, NEW a \in Addrs, NewTimer(a), NEW w \in Whens, NEW i \in Intervals,
         heap' = [heap EXCEPT ![a] = TimerAt(w, i)]
  PROVE  /\ Record(a)' \in Promise!Timer
         /\ Record(a)'.seq = numCreated'
         /\ numCreated' = numCreated + 1
         /\ \A b \in Addrs :
              (Holds(timers, b) \/ Holds(expired, b) \/ AddsTimer(requests, b))
                => heap'[b] = heap[b]
<1>1. TypeOK /\ QueueInv
  BY DEF SimInv, Inv
<1> DEFINE timer == TimerAt(w, i)
<1>2. /\ timer \in Timer /\ timer.sequence = numCreated + 1
      /\ numCreated + 1 \in 1..MaxTimers /\ numCreated' = numCreated + 1
  BY <1>1, NewTimerType
<1> HIDE DEF timer
<1>3. \A b \in Addrs : heap'[b] = IF b = a THEN timer ELSE heap[b]
  BY <1>1 DEF TypeOK, timer
<1>4. Record(a)' = [seq |-> timer.sequence, at |-> timer.expiration, every |-> timer.interval]
  BY <1>3 DEF Record, Entry
<1>5. Record(a)' \in Promise!Timer /\ Record(a)'.seq = numCreated'
  BY <1>2, <1>4 DEF Promise!Timer, Timer
<1>6. ~Live(a)
  BY DEF NewTimer
<1>7. \A b \in Addrs :
        (Holds(timers, b) \/ Holds(expired, b) \/ AddsTimer(requests, b)) => b # a
  BY <1>1, <1>6 DEF QueueInv, Owned
<1> QED
  BY <1>2, <1>3, <1>5, <1>7

\* addTimerInLoop() lets one more timer wait.
LEMMA OneMoreWaits ==
  ASSUME SimInv, SimInv', NEW a \in Addrs, NEW timer, AddTimerInLoop(a, timer),
         \A b \in Addrs : Holds(timers, b) => heap'[b] = heap[b]
  PROVE  Entries(timers)' = Entries(timers) \cup {Record(a)'}
<1>1. Mapped /\ Mapped'
  BY MappingFacts, PTL
<1>2. \A b : Holds(timers', b) <=> Holds(timers, b) \/ b = a
  BY AddTimerEffect
<1>3. \A b \in Addrs : Holds(timers, b) => Record(b)' = Record(b)
  BY SameRecord
<1>4. \A x : x \in Entries(timers)' <=> x \in Entries(timers) \/ x = Record(a)'
  BY <1>1, <1>2, <1>3 DEF Mapped
<1> QED
  BY <1>4

\* A timer that the loop's own thread adds.
LEMMA OwnerAdds ==
  ASSUME SimInv, SimInv', NEW a \in Addrs, NEW w \in Whens, NEW i \in Intervals,
         OwnerAddTimer(a, w, i)
  PROVE  Promise!Add
<1>1. /\ NewTimer(a) /\ AddTimerInLoop(a, TimerAt(w, i))
      /\ heap' = [heap EXCEPT ![a] = TimerAt(w, i)]
      /\ pc \in {"idle", "callback"}
      /\ UNCHANGED <<now, pc, expired, toRun, readTime, requests, cancelingTimers>>
  BY DEF OwnerAddTimer, InUserCode, batchVars
<1>2. /\ Record(a)' \in Promise!Timer
      /\ Record(a)'.seq = numCreated'
      /\ numCreated' = numCreated + 1
      /\ \A b \in Addrs :
           (Holds(timers, b) \/ Holds(expired, b) \/ AddsTimer(requests, b))
             => heap'[b] = heap[b]
  BY <1>1, NewRecord
<1>3. Entries(timers)' = Entries(timers) \cup {Record(a)'}
  BY <1>1, <1>2, OneMoreWaits
<1>4. Entries(expired)' = Entries(expired) /\ Entries(toRun)' = Entries(toRun)
  BY <1>1, <1>2, SameBatch
<1>5. Stopped' = Stopped
  BY <1>1, <1>2, SameStopped
<1>6. Asked' = Asked
  BY <1>1, <1>2, SameAsked
<1>7. Record(a)' \in Entries(timers)'
  BY <1>3
<1> QED
  BY <1>1, <1>2, <1>3, <1>4, <1>5, <1>6, <1>7 DEF Promise!Add, Promise!New, Promise!batchVars

\* A timer that another thread asks for: nothing waits yet.
LEMMA ThreadAsks ==
  ASSUME SimInv, SimInv', NEW t \in Threads, NEW a \in Addrs, NEW w \in Whens,
         NEW i \in Intervals, AddTimer(t, a, w, i)
  PROVE  Promise!Ask
<1> DEFINE r == [op |-> "add", timer |-> <<a, numCreated + 1>>]
<1>1. /\ NewTimer(a)
      /\ heap' = [heap EXCEPT ![a] = TimerAt(w, i)]
      /\ requests' = Append(requests, r)
      /\ pc # "destroyed"
      /\ UNCHANGED <<now, pc, expired, toRun, readTime, timers, cancelingTimers>>
  BY DEF AddTimer, Queue, batchVars
<1>2. /\ Record(a)' \in Promise!Timer
      /\ Record(a)'.seq = numCreated'
      /\ numCreated' = numCreated + 1
      /\ \A b \in Addrs :
           (Holds(timers, b) \/ Holds(expired, b) \/ AddsTimer(requests, b))
             => heap'[b] = heap[b]
  BY <1>1, NewRecord
<1>3. Entries(timers)' = Entries(timers)
  BY <1>1, <1>2, SameWaiting
<1>4. Entries(expired)' = Entries(expired) /\ Entries(toRun)' = Entries(toRun)
  BY <1>1, <1>2, SameBatch
<1>5. Stopped' = Stopped
  BY <1>1, <1>2, SameStopped
<1>6. AskedMapped /\ AskedMapped'
  BY AskedFacts, PTL
<1>7. /\ Len(requests') = Len(requests) + 1
      /\ \A n \in 1..Len(requests) : requests'[n] = requests[n]
      /\ requests'[Len(requests) + 1].op = "add"
      /\ requests'[Len(requests) + 1].timer[1] = a
  <2>1. r \in Request
    BY <1>2 DEF SimInv, Inv, TypeOK, Request, TimerIds
  <2>2. r.op = "add" /\ r.timer[1] = a
    OBVIOUS
  <2> HIDE DEF r
  <2> QED
    BY <1>1, <2>1, <2>2, AppendFacts DEF SimInv, Inv, TypeOK
<1>8. \A n \in 1..Len(requests) :
        requests[n].op = "add" => Record(requests[n].timer[1])' = Record(requests[n].timer[1])
  <2> SUFFICES ASSUME NEW n \in 1..Len(requests), requests[n].op = "add"
               PROVE  Record(requests[n].timer[1])' = Record(requests[n].timer[1])
    OBVIOUS
  <2>1. requests[n].timer[1] \in Addrs
    BY RequestTypes DEF SimInv, Inv
  <2>2. heap'[requests[n].timer[1]] = heap[requests[n].timer[1]]
    BY <1>2, <2>1 DEF AddsTimer
  <2>3. requests'[n] = requests[n]
    BY <1>7
  <2> QED
    BY <2>2, <2>3 DEF Record, Entry
<1>9. Asked' = Append(Asked, {Record(a)'})
  <2> DEFINE q == Append(Asked, {Record(a)'})
  <2>1. {Record(a)'} \in SUBSET PromiseTimers
    BY <1>2 DEF Promise!Timer, PromiseTimers
  <2>2. /\ q \in Seq(SUBSET PromiseTimers) /\ Len(q) = Len(requests) + 1
        /\ \A n \in 1..Len(requests) : q[n] = Asked[n]
        /\ q[Len(requests) + 1] = {Record(a)'}
    BY <1>6, <2>1, AppendFacts DEF AskedMapped
  <2> HIDE DEF q
  <2>3. Asked' \in Seq(SUBSET PromiseTimers) /\ Len(Asked') = Len(requests) + 1
    BY <1>6, <1>7 DEF AskedMapped
  <2>4. ASSUME NEW n \in 1..Len(requests) PROVE Asked'[n] = Asked[n]
    <3>1. n \in 1..Len(requests') /\ requests'[n] = requests[n]
      BY <1>6, <1>7 DEF AskedMapped
    <3> QED
      BY <1>6, <1>8, <3>1 DEF AskedMapped, Record, Entry
  <2>5. Asked'[Len(requests) + 1] = {Record(a)'}
    <3>1. Len(requests) + 1 \in 1..Len(requests')
      BY <1>6, <1>7 DEF AskedMapped
    <3> QED
      BY <1>6, <1>7, <3>1 DEF AskedMapped
  <2>6. \A n \in 1..Len(q) : n \in 1..Len(requests) \/ n = Len(requests) + 1
    BY <1>6, <2>2 DEF AskedMapped
  <2>7. Asked' = q
    BY <2>2, <2>3, <2>5, <2>4, <2>6, SameSequence
  <2> QED
    BY <2>7 DEF q
<1>10. Len(Asked) + 1 \in DOMAIN Asked' /\ Asked'[Len(Asked) + 1] = {Record(a)'}
  <2>1. {Record(a)'} \in SUBSET PromiseTimers
    BY <1>2 DEF Promise!Timer, PromiseTimers
  <2> QED
    BY <1>6, <1>9, <2>1, AppendFacts DEF AskedMapped
<1> QED
  BY <1>1, <1>2, <1>3, <1>4, <1>5, <1>9, <1>10 DEF Promise!Ask, Promise!New, Promise!batchVars

-----------------------------------------------------------------------------
(* Cancelled timers. *)

\* A cancelled timer that waits is dropped by its number, and no other.
LEMMA WaitingDropped ==
  ASSUME SimInv, SimInv', NEW id \in TimerIds, CancelInLoop(id), id \in activeTimers,
         UNCHANGED <<expired, toRun>>
  PROVE  /\ id[2] \in Promise!Seqs(Entries(timers))
         /\ Promise!Drop(id[2])
         /\ Entries(expired)' = Entries(expired) /\ Entries(toRun)' = Entries(toRun)
<1>1. TypeOK /\ QueueInv /\ Distinct
  BY DEF SimInv, Inv
<1>2. /\ Holds(timers, id[1]) /\ id[2] = heap[id[1]].sequence
      /\ \A b : Holds(timers', b) <=> Holds(timers, b) /\ b # id[1]
      /\ \A b \in Addrs : heap'[b] = IF b = id[1] THEN Free ELSE heap[b]
      /\ cancelingTimers' = cancelingTimers
  BY <1>1, CancelEffect
<1>3. id[1] \in Addrs
  BY DEF TimerIds
<1>4. ~Holds(expired, id[1])
  BY <1>1, <1>2, <1>3 DEF QueueInv, OneOwner
<1>5. \A b \in Addrs : Holds(timers, b) \/ Holds(expired, b) => Live(b)
  BY <1>1 DEF QueueInv, Owned
<1>6. \A b \in Addrs : Holds(timers, b) \/ Holds(expired, b)
                         => (b = id[1] <=> heap[b].sequence = id[2])
  BY <1>1, <1>2, <1>3, <1>5 DEF Distinct
<1>7. Mapped /\ Mapped'
  BY MappingFacts, PTL
<1>8. \A b : Record(b).seq = heap[b].sequence
  BY RecordIs
<1>9. id[2] \in Promise!Seqs(Entries(timers))
  <2>1. Record(id[1]) \in Entries(timers)
    BY <1>2, <1>3, <1>7 DEF Mapped
  <2> QED
    BY <1>2, <1>8, <2>1 DEF Promise!Seqs
<1>10. Entries(timers)' = {t \in Entries(timers) : t.seq # id[2]}
  <2>1. \A b \in Addrs : Holds(timers', b) => Record(b)' = Record(b)
    BY <1>2, SameRecord
  <2>2. ASSUME NEW x PROVE x \in Entries(timers)' <=> x \in Entries(timers) /\ x.seq # id[2]
    <3>1. ASSUME NEW b \in Addrs, Holds(timers', b)
          PROVE  Holds(timers, b) /\ Record(b)' = Record(b) /\ Record(b).seq # id[2]
      BY <1>2, <1>6, <1>8, <2>1, <3>1
    <3>2. ASSUME NEW b \in Addrs, Holds(timers, b), Record(b).seq # id[2]
          PROVE  Holds(timers', b) /\ Record(b)' = Record(b)
      BY <1>2, <1>8, <2>1, <3>2
    <3> QED
      BY <1>7, <3>1, <3>2 DEF Mapped
  <2> QED
    BY <2>2
<1>11. Entries(expired)' = Entries(expired) /\ Entries(toRun)' = Entries(toRun)
  BY <1>2, <1>4, SameBatch
<1>12. Stopped' = Stopped
  BY <1>2, <1>4, SameStopped
<1>13. id[2] \notin Promise!Seqs(Entries(expired))
  <2>1. \A x \in Entries(expired) : x.seq # id[2]
    BY <1>4, <1>6, <1>7, <1>8 DEF Mapped
  <2> QED
    BY <2>1 DEF Promise!Seqs
<1>14. Stopped' = Stopped \cup (Promise!Seqs(Entries(expired)) \cap {id[2]})
  BY <1>12, <1>13
<1> QED
  BY <1>9, <1>10, <1>11, <1>14 DEF Promise!Drop

\* A timer of the batch is stopped by its number, and no other.
LEMMA BatchStopped ==
  ASSUME SimInv, SimInv', NEW id \in TimerIds, CancelInLoop(id), id \notin activeTimers,
         Holds(expired, id[1]), heap[id[1]].sequence = id[2],
         UNCHANGED <<expired, toRun>>
  PROVE  /\ id[2] \in Promise!Seqs(Entries(expired))
         /\ Promise!Drop(id[2])
         /\ Entries(expired)' = Entries(expired) /\ Entries(toRun)' = Entries(toRun)
<1>1. TypeOK /\ QueueInv /\ Distinct
  BY DEF SimInv, Inv
<1>2. callingExpiredTimers
  BY <1>1 DEF QueueInv, Batch, Holds, TypeOK
<1>3. UNCHANGED <<timers, heap>> /\ cancelingTimers' = cancelingTimers \cup {id}
  BY <1>1, <1>2, CancelEffect
<1>4. id[1] \in Addrs /\ id = <<id[1], id[2]>>
  BY DEF TimerIds
<1>5. \A b \in Addrs : Holds(timers, b) \/ Holds(expired, b) => Live(b)
  BY <1>1 DEF QueueInv, Owned
<1>6. \A b \in Addrs : Holds(timers, b) \/ Holds(expired, b)
                         => (b = id[1] <=> heap[b].sequence = id[2])
  BY <1>1, <1>4, <1>5 DEF Distinct
<1>7. Mapped /\ Mapped'
  BY MappingFacts, PTL
<1>8. \A b : Record(b).seq = heap[b].sequence
  BY RecordIs
<1>9. id[2] \in Promise!Seqs(Entries(expired))
  <2>1. Record(id[1]) \in Entries(expired)
    BY <1>4, <1>7 DEF Mapped
  <2> QED
    BY <1>8, <2>1 DEF Promise!Seqs
<1>10. Entries(timers)' = {t \in Entries(timers) : t.seq # id[2]}
  <2>1. Entries(timers)' = Entries(timers)
    BY <1>3, SameWaiting
  <2>2. ~Holds(timers, id[1])
    BY <1>1, <1>4 DEF QueueInv, OneOwner
  <2>3. \A x \in Entries(timers) : x.seq # id[2]
    BY <1>6, <1>7, <1>8, <2>2 DEF Mapped
  <2> QED
    BY <2>1, <2>3
<1>11. Entries(expired)' = Entries(expired) /\ Entries(toRun)' = Entries(toRun)
  BY <1>3, SameBatch
<1>12. Stopped' = Stopped \cup {id[2]}
  <2>1. ASSUME NEW y PROVE y \in Stopped' <=> y \in Stopped \/ y = id[2]
    <3> DEFINE Is(b) == /\ Holds(expired, b)
                        /\ y = heap[b].sequence
                        /\ <<b, y>> \in cancelingTimers
               Was(b) == /\ Holds(expired', b)
                         /\ y = heap'[b].sequence
                         /\ <<b, y>> \in cancelingTimers'
    <3>1. \A b \in Addrs : <<b, y>> = id <=> b = id[1] /\ y = id[2]
      BY <1>4
    <3>2. \A b \in Addrs : Was(b) <=> Is(b) \/ (b = id[1] /\ y = id[2])
      BY <1>3, <3>1
    <3>3. /\ y \in Stopped <=> \E b \in Addrs : Is(b)
          /\ y \in Stopped' <=> \E b \in Addrs : Was(b)
      BY <1>7 DEF Mapped
    <3> HIDE DEF Is, Was
    <3> QED
      BY <1>4, <3>2, <3>3
  <2> QED
    BY <2>1
<1> QED
  BY <1>9, <1>10, <1>11, <1>12 DEF Promise!Drop

\* Any other id does nothing: not one of a timer that is still asked for, nor
\* one whose address has a new timer.
LEMMA NothingDropped ==
  ASSUME SimInv, SimInv', NEW id \in TimerIds, CancelInLoop(id), id \notin activeTimers,
         ~(Holds(expired, id[1]) /\ heap[id[1]].sequence = id[2]),
         UNCHANGED <<expired, toRun>>
  PROVE  /\ Entries(timers)' = Entries(timers) /\ Stopped' = Stopped
         /\ Entries(expired)' = Entries(expired) /\ Entries(toRun)' = Entries(toRun)
<1>1. TypeOK /\ QueueInv
  BY DEF SimInv, Inv
<1>2. /\ UNCHANGED <<timers, heap>>
      /\ cancelingTimers \subseteq cancelingTimers'
      /\ cancelingTimers' \subseteq cancelingTimers \cup {id}
  BY <1>1, CancelEffect
<1>3. \A b \in Addrs : Holds(expired, b) => <<b, heap[b].sequence>> # id
  OBVIOUS
<1>4. Entries(timers)' = Entries(timers)
  BY <1>2, SameWaiting
<1>5. Entries(expired)' = Entries(expired) /\ Entries(toRun)' = Entries(toRun)
  BY <1>2, SameBatch
<1>6. Stopped' = Stopped
  BY <1>2, <1>3, SameStopped
<1> QED
  BY <1>4, <1>5, <1>6

\* A cancel leaves the timers alone that are still asked for.
LEMMA CancelLeavesAsked ==
  ASSUME SimInv, NEW id \in TimerIds, CancelInLoop(id)
  PROVE  \A b \in Addrs : AddsTimer(requests, b) => heap'[b] = heap[b]
<1>1. TypeOK /\ QueueInv /\ id[1] \in Addrs
  BY DEF SimInv, Inv, TimerIds
<1>2. \A b \in Addrs : heap'[b] = heap[b] \/ (b = id[1] /\ Holds(timers, b))
  BY <1>1, CancelEffect
<1> QED
  BY <1>1, <1>2 DEF QueueInv, OneOwner

\* A cancel in the loop's own thread drops or stops one timer, or does nothing.
LEMMA OwnerCancels ==
  ASSUME SimInv, SimInv', NEW id \in ids, OwnerCancel(id)
  PROVE  Promise!Next \/ UNCHANGED Promise!vars
<1>1. /\ id \in TimerIds /\ CancelInLoop(id)
      /\ UNCHANGED <<now, pc, expired, toRun, readTime, requests, numCreated>>
  BY DEF OwnerCancel, batchVars, SimInv, Inv, TypeOK
<1>2. Asked' = Asked
  BY <1>1, CancelLeavesAsked, SameAsked
<1>3. ASSUME id[2] \in Promise!Seqs(Entries(timers)) \cup Promise!Seqs(Entries(expired)),
             Promise!Drop(id[2]),
             Entries(expired)' = Entries(expired), Entries(toRun)' = Entries(toRun)
      PROVE  Promise!Next
  <2>1. Promise!Cancel(id[2])
    BY <1>1, <1>2, <1>3 DEF Promise!Cancel
  <2>2. id[2] \in Promise!Seqs(Entries(timers) \cup Entries(expired))
    BY <1>3 DEF Promise!Seqs
  <2> QED
    BY <2>1, <2>2 DEF Promise!Next
<1>4. CASE id \in activeTimers
  BY <1>1, <1>3, <1>4, WaitingDropped
<1>5. CASE id \notin activeTimers /\ Holds(expired, id[1]) /\ heap[id[1]].sequence = id[2]
  BY <1>1, <1>3, <1>5, BatchStopped
<1>6. CASE id \notin activeTimers /\ ~(Holds(expired, id[1]) /\ heap[id[1]].sequence = id[2])
  <2>1. /\ Entries(timers)' = Entries(timers) /\ Stopped' = Stopped
        /\ Entries(expired)' = Entries(expired) /\ Entries(toRun)' = Entries(toRun)
    BY <1>1, <1>6, NothingDropped
  <2> QED
    BY <1>1, <1>2, <2>1 DEF Promise!vars, Promise!batchVars
<1> QED
  BY <1>4, <1>5, <1>6

-----------------------------------------------------------------------------
(* Requests. *)

\* A cancel that another thread asks for.
LEMMA ThreadCancels ==
  ASSUME SimInv, SimInv', NEW t \in Threads, NEW id \in ids, Cancel(t, id)
  PROVE  Promise!Ask
<1> DEFINE r == [op |-> "cancel", timer |-> id]
<1>1. /\ requests' = Append(requests, r)
      /\ pc # "destroyed"
      /\ UNCHANGED <<now, pc, expired, toRun, readTime, timers, cancelingTimers, heap,
                     numCreated>>
  BY DEF Cancel, Queue, batchVars, queueVars
<1>2. Entries(timers)' = Entries(timers)
  BY <1>1, SameWaiting
<1>3. Entries(expired)' = Entries(expired) /\ Entries(toRun)' = Entries(toRun)
  BY <1>1, SameBatch
<1>4. Stopped' = Stopped
  BY <1>1, SameStopped
<1>5. AskedMapped /\ AskedMapped'
  BY AskedFacts, PTL
<1>6. /\ Len(requests') = Len(requests) + 1
      /\ \A n \in 1..Len(requests) : requests'[n] = requests[n]
      /\ requests'[Len(requests) + 1].op # "add"
  <2>1. r \in Request
    BY DEF SimInv, Inv, TypeOK, Request
  <2>2. r.op # "add"
    OBVIOUS
  <2> HIDE DEF r
  <2> QED
    BY <1>1, <2>1, <2>2, AppendFacts DEF SimInv, Inv, TypeOK
<1>7. Asked' = Append(Asked, {})
  <2> DEFINE q == Append(Asked, {})
  <2>1. {} \in SUBSET PromiseTimers
    OBVIOUS
  <2>2. /\ q \in Seq(SUBSET PromiseTimers) /\ Len(q) = Len(requests) + 1
        /\ \A n \in 1..Len(requests) : q[n] = Asked[n]
        /\ q[Len(requests) + 1] = {}
    BY <1>5, <2>1, AppendFacts DEF AskedMapped
  <2> HIDE DEF q
  <2>3. Asked' \in Seq(SUBSET PromiseTimers) /\ Len(Asked') = Len(requests) + 1
    BY <1>5, <1>6 DEF AskedMapped
  <2>4. ASSUME NEW n \in 1..Len(requests) PROVE Asked'[n] = Asked[n]
    <3>1. n \in 1..Len(requests') /\ requests'[n] = requests[n]
      BY <1>5, <1>6 DEF AskedMapped
    <3> QED
      BY <1>1, <1>5, <3>1 DEF AskedMapped, Record, Entry
  <2>5. Asked'[Len(requests) + 1] = {}
    <3>1. Len(requests) + 1 \in 1..Len(requests')
      BY <1>5, <1>6 DEF AskedMapped
    <3> QED
      BY <1>5, <1>6, <3>1 DEF AskedMapped
  <2>6. \A n \in 1..Len(q) : n \in 1..Len(requests) \/ n = Len(requests) + 1
    BY <1>5, <2>2 DEF AskedMapped
  <2>7. Asked' = q
    BY <2>2, <2>3, <2>4, <2>5, <2>6, SameSequence
  <2> QED
    BY <2>7 DEF q
<1> QED
  BY <1>1, <1>2, <1>3, <1>4, <1>7 DEF Promise!Ask, Promise!batchVars

\* The oldest request is taken from the queue.
LEMMA TailAsked ==
  ASSUME SimInv, SimInv', requests # <<>>, requests' = Tail(requests),
         \A b \in Addrs : AddsTimer(requests, b) => heap'[b] = heap[b]
  PROVE  /\ Asked # <<>>
         /\ Asked' = Tail(Asked)
         /\ Head(Asked) = IF Head(requests).op = "add"
                            THEN {Record(Head(requests).timer[1])} ELSE {}
<1>1. AskedMapped /\ AskedMapped'
  BY AskedFacts, PTL
<1>2. /\ Len(requests') = Len(requests) - 1 /\ Len(requests) \in Nat \ {0}
      /\ \A n \in 1..Len(requests) - 1 : requests'[n] = requests[n + 1]
      /\ Head(requests) = requests[1]
  BY TailFacts DEF SimInv, Inv, TypeOK
<1>3. Asked # <<>>
  BY <1>1, <1>2 DEF AskedMapped
<1> DEFINE q == Tail(Asked)
<1>4. /\ q \in Seq(SUBSET PromiseTimers)
      /\ Len(q) = Len(requests) - 1
      /\ \A n \in 1..Len(requests) - 1 : q[n] = Asked[n + 1]
      /\ Head(Asked) = Asked[1]
  BY <1>1, <1>3, TailFacts DEF AskedMapped
<1> HIDE DEF q
<1>5. ASSUME NEW n \in 1..Len(requests) - 1 PROVE Asked'[n] = Asked[n + 1]
  <2>1. n + 1 \in 1..Len(requests) /\ n \in 1..Len(requests') /\ requests'[n] = requests[n + 1]
    BY <1>2
  <2>2. requests[n + 1].op = "add"
          => heap'[requests[n + 1].timer[1]] = heap[requests[n + 1].timer[1]]
    BY <2>1, RequestTypes DEF AddsTimer, SimInv, Inv
  <2>3. Asked'[n] = (IF requests[n].op = "add" THEN {Record(requests[n].timer[1])} ELSE {})'
    BY <1>1, <2>1 DEF AskedMapped
  <2>4. Asked[n + 1] = IF requests[n + 1].op = "add"
                         THEN {Record(requests[n + 1].timer[1])} ELSE {}
    BY <1>1, <2>1 DEF AskedMapped
  <2> QED
    BY <2>1, <2>2, <2>3, <2>4 DEF Record, Entry
<1>6. Asked' = q
  <2>1. /\ Asked' \in Seq(SUBSET PromiseTimers)
        /\ Len(Asked') = Len(requests) - 1
    BY <1>1, <1>2 DEF AskedMapped
  <2>2. \A n \in 1..Len(Asked') : Asked'[n] = q[n]
    BY <1>4, <1>5, <2>1
  <2> QED
    BY <1>4, <2>1, <2>2, SameSequence
<1>7. Asked[1] = IF Head(requests).op = "add"
                   THEN {Record(Head(requests).timer[1])} ELSE {}
  <2>1. 1 \in 1..Len(requests)
    BY <1>2
  <2> QED
    BY <1>1, <1>2, <2>1 DEF AskedMapped
<1> QED
  BY <1>3, <1>4, <1>6, <1>7 DEF q

\* The loop runs it.
LEMMA RequestRuns ==
  ASSUME SimInv, SimInv', RunRequest
  PROVE  Promise!Accept
<1>1. /\ requests # <<>> /\ requests' = Tail(requests) /\ pc = "idle"
      /\ UNCHANGED <<now, pc, expired, toRun, readTime, numCreated>>
  BY DEF RunRequest, batchVars
<1>2. readTime = 0 /\ expired = {}
  BY <1>1 DEF SimInv, Inv, Reading, QueueInv, Batch
<1>3. Entries(expired) = {} /\ Stopped = {} /\ Stopped' = {}
  BY <1>1, <1>2 DEF Entries, Stopped, InBatch
<1> DEFINE r == Head(requests)
<1>4. r \in Request /\ r.timer \in TimerIds /\ r.timer[1] \in Addrs
      /\ r = requests[1] /\ 1 \in 1..Len(requests)
  BY <1>1, HeadTypes DEF SimInv, Inv
<1>5. \A b \in Addrs : ~Holds(expired, b)
  BY <1>2 DEF Holds
<1> HIDE DEF r
<1>6. CASE r.op = "add"
  <2>1. AddTimerInLoop(r.timer[1], heap[r.timer[1]]) /\ UNCHANGED <<heap, cancelingTimers>>
    BY <1>6 DEF RunRequest, r
  <2>2. /\ Asked # <<>> /\ Asked' = Tail(Asked)
        /\ Head(Asked) = {Record(r.timer[1])}
    BY <1>1, <1>6, <2>1, TailAsked DEF r
  <2>3. PICK a, timer : a \in Addrs /\ a = r.timer[1] /\ timer = heap[a]
    BY <1>4
  <2> a \in Addrs
    BY <2>3
  <2>4. Entries(timers)' = Entries(timers) \cup {Record(a)'}
    <3>1. AddTimerInLoop(a, timer) /\ heap' = heap
      BY <2>1, <2>3
    <3> QED
      BY <3>1, OneMoreWaits
  <2>5. Record(a)' = Record(a) /\ Head(Asked) = {Record(a)}
    BY <2>1, <2>2, <2>3, SameRecord
  <2>6. Entries(expired)' = Entries(expired) /\ Entries(toRun)' = Entries(toRun)
    BY <1>1, <2>1, SameBatch
  <2> QED
    BY <1>1, <1>2, <1>3, <2>2, <2>4, <2>5, <2>6 DEF Promise!Accept
<1>7. CASE r.op = "cancel"
  <2>1. CancelInLoop(r.timer)
    BY <1>7 DEF RunRequest, r
  <2>2. Asked # <<>> /\ Asked' = Tail(Asked) /\ Head(Asked) = {}
    BY <1>1, <1>4, <1>7, <2>1, CancelLeavesAsked, TailAsked DEF r
  <2>3. PICK id \in TimerIds : CancelInLoop(id) /\ ~Holds(expired, id[1])
    BY <1>4, <1>5, <2>1
  <2>4. /\ Entries(expired)' = Entries(expired) /\ Entries(toRun)' = Entries(toRun)
        /\ \E s \in Promise!Seqs(Entries(timers)) \cup {0} : Promise!Drop(s)
    <3>1. CASE id \in activeTimers
      BY <1>1, <2>3, <3>1, WaitingDropped
    <3>2. CASE id \notin activeTimers
      <4>1. /\ Entries(timers)' = Entries(timers) /\ Stopped' = Stopped
            /\ Entries(expired)' = Entries(expired) /\ Entries(toRun)' = Entries(toRun)
        BY <1>1, <2>3, <3>2, NothingDropped
      <4>2. \A x \in Entries(timers) : x.seq # 0
        <5>1. \A b \in Addrs : Holds(timers, b) => heap[b].sequence # 0
          BY DEF SimInv, Inv, QueueInv, Owned, Numbered, TypeOK
        <5>2. Mapped
          BY MappingFacts
        <5> QED
          BY <5>1, <5>2, RecordIs DEF Mapped
      <4>3. Entries(timers) = {x \in Entries(timers) : x.seq # 0}
        BY <4>2
      <4>4. Stopped = Stopped \cup (Promise!Seqs(Entries(expired)) \cap {0})
        BY <1>3 DEF Promise!Seqs
      <4>5. Promise!Drop(0)
        BY <4>1, <4>3, <4>4 DEF Promise!Drop
      <4> QED
        BY <4>1, <4>5
    <3> QED
      BY <3>1, <3>2
  <2> QED
    BY <1>1, <1>2, <2>2, <2>4 DEF Promise!Accept
<1> QED
  BY <1>4, <1>6, <1>7 DEF Request

-----------------------------------------------------------------------------
(* The batch. *)

\* handleRead() takes the timers that are due.
LEMMA BatchTaken ==
  ASSUME SimInv, SimInv', HandleRead
  PROVE  Promise!Take
<1>1. /\ pc = "idle" /\ pc' = "expired" /\ readTime' = now
      /\ expired' = Expired /\ toRun' = Expired /\ timers' = timers \ Expired
      /\ cancelingTimers' = {}
      /\ UNCHANGED <<now, heap, numCreated, requests>>
  BY DEF HandleRead
<1>2. readTime = 0 /\ expired = {}
  BY <1>1 DEF SimInv, Inv, Reading, QueueInv, Batch
<1>3. Stopped = {} /\ Stopped' = {}
  BY <1>1, <1>2 DEF Stopped, InBatch
<1>4. Mapped /\ Mapped'
  BY MappingFacts, PTL
<1>5. \A a : /\ Holds(Expired, a) <=> Holds(timers, a) /\ heap[a].expiration <= now
             /\ Holds(timers', a) <=> Holds(timers, a) /\ ~(heap[a].expiration <= now)
  <2>1. \A e \in timers : e \in Expired <=> heap[e[2]].expiration <= now
    BY DEF Expired, SimInv, Inv, QueueInv, Keys
  <2>2. Expired \subseteq timers
    BY DEF Expired
  <2> QED
    BY <1>1, <2>1, <2>2 DEF Holds
<1>6. \A a : Record(a)' = Record(a) /\ Record(a).at = heap[a].expiration
  BY <1>1, SameRecord, RecordIs
<1>7. \A a : /\ Holds(expired', a) <=> Holds(Expired, a)
             /\ Holds(toRun', a) <=> Holds(Expired, a)
  BY <1>1
<1>8. \A x : x \in Entries(expired)' <=> x \in Entries(timers) /\ x.at <= now
  BY <1>4, <1>5, <1>6, <1>7 DEF Mapped
<1>9. \A x : x \in Entries(toRun)' <=> x \in Entries(timers) /\ x.at <= now
  BY <1>4, <1>5, <1>6, <1>7 DEF Mapped
<1>10. \A x : x \in Entries(timers)' <=> x \in Entries(timers) /\ ~(x.at <= now)
  BY <1>4, <1>5, <1>6 DEF Mapped
<1>11. Asked' = Asked
  BY <1>1, SameAsked
<1>12. /\ Entries(expired)' = Promise!Due
       /\ Entries(toRun)' = Promise!Due
       /\ Entries(timers)' = Entries(timers) \ Promise!Due
  BY <1>8, <1>9, <1>10 DEF Promise!Due
<1> QED
  BY <1>1, <1>2, <1>3, <1>11, <1>12 DEF Promise!Take

\* The first of those that are left, in the order of timers_, has the earliest
\* time.
LEMMA TimerCalled ==
  ASSUME SimInv, SimInv', RunTimer
  PROVE  Promise!Call
<1>1. /\ pc = "expired" /\ pc' = "callback"
      /\ UNCHANGED <<now, heap, numCreated, requests, timers, expired, cancelingTimers,
                     readTime>>
  BY DEF RunTimer, queueVars
<1>2. PICK e \in toRun : /\ \A f \in toRun \ {e} : Before(e, f)
                         /\ toRun' = toRun \ {e}
  BY DEF RunTimer
<1>3. TypeOK /\ QueueInv /\ Distinct
  BY DEF SimInv, Inv
<1>4. \A f \in toRun : /\ f[1] \in Nat /\ f[2] \in Addrs /\ f = <<f[1], f[2]>>
                       /\ f[1] = heap[f[2]].expiration
                       /\ Entry(f) = Record(f[2])
                       /\ Live(f[2])
  <2>1. toRun \subseteq expired /\ expired \subseteq Nat \X Addrs
    BY <1>3 DEF TypeOK
  <2>2. \A f \in toRun : Holds(expired, f[2])
    BY <2>1 DEF Holds
  <2>3. \A f \in toRun : f[1] = heap[f[2]].expiration
    BY <1>3, <2>1 DEF QueueInv, Keys
  <2> QED
    BY <1>3, <2>1, <2>2, <2>3 DEF QueueInv, Owned, Record, Entry
<1>5. \A f \in toRun : Entry(f).at = f[1] /\ Entry(f).seq = heap[f[2]].sequence
  BY DEF Entry
<1>6. \A f \in toRun : Entry(f) = Entry(e) => f = e
  <2> SUFFICES ASSUME NEW f \in toRun, Entry(f) = Entry(e) PROVE f = e
    OBVIOUS
  <2>1. heap[f[2]].sequence = heap[e[2]].sequence
    BY <1>5
  <2>2. f[2] = e[2]
    BY <1>3, <1>4, <2>1 DEF Distinct
  <2> QED
    BY <1>4, <2>2
<1>7. Entries(toRun)' = Entries(toRun) \ {Entry(e)}
  <2>1. Entries(toRun)' = {Entry(f) : f \in toRun \ {e}}
    BY <1>1, <1>2 DEF Entries, Entry
  <2> QED
    BY <1>6, <2>1 DEF Entries
<1>8. Entry(e) \in Entries(toRun) /\ \A u \in Entries(toRun) : Entry(e).at <= u.at
  BY <1>2, <1>4, <1>5 DEF Entries, Before
<1>9. /\ Entries(timers)' = Entries(timers) /\ Entries(expired)' = Entries(expired)
      /\ Stopped' = Stopped /\ Asked' = Asked
  BY <1>1 DEF Entries, Entry, Stopped, InBatch, Asked, Record
<1> QED
  BY <1>1, <1>7, <1>8, <1>9 DEF Promise!Call

\* Its callback returns.
LEMMA TimerReturns ==
  ASSUME EndTimer
  PROVE  Promise!Return
<1>1. /\ pc = "callback" /\ pc' = "expired"
      /\ UNCHANGED <<now, heap, numCreated, requests, timers, expired, toRun,
                     cancelingTimers, readTime>>
  BY DEF EndTimer, queueVars
<1>2. /\ Entries(timers)' = Entries(timers) /\ Entries(expired)' = Entries(expired)
      /\ Entries(toRun)' = Entries(toRun)
      /\ Stopped' = Stopped /\ Asked' = Asked
  BY <1>1 DEF Entries, Entry, Stopped, InBatch, Asked, Record
<1> QED
  BY <1>1, <1>2 DEF Promise!Return

\* reset() puts those back that repeat and were not stopped.
LEMMA BatchPutBack ==
  ASSUME SimInv, SimInv', Reset
  PROVE  Promise!PutBack
<1>1. /\ pc = "expired" /\ pc' = "idle" /\ readTime' = 0
      /\ expired' = {} /\ toRun = {} /\ toRun' = {}
      /\ UNCHANGED <<now, numCreated, requests>>
  BY DEF Reset
<1>2. TypeOK /\ QueueInv /\ Distinct /\ readTime # 0
  BY <1>1 DEF SimInv, Inv, Reading
<1>3. /\ \A b \in Addrs :
           /\ heap'[b] = IF b \in Deleted THEN Free
                         ELSE IF b \in Restarted
                           THEN [heap[b] EXCEPT !.expiration = NextExpiration(b)]
                           ELSE heap[b]
           /\ Holds(expired, b) <=> b \in Deleted \cup Restarted
      /\ Deleted \cap Restarted = {}
      /\ \A b : Holds(timers', b) <=> Holds(timers, b) \/ b \in Restarted
  BY <1>2, ResetEffect
<1>4. \A b \in Addrs : Holds(timers, b) \/ AddsTimer(requests, b) => heap'[b] = heap[b]
  BY <1>2, <1>3 DEF QueueInv, OneOwner
<1>5. Mapped /\ Mapped'
  BY MappingFacts, PTL
<1> DEFINE Back == {u \in Entries(expired) : u.every > 0 /\ u.seq \notin Stopped}
           Next1(u) == [u EXCEPT !.at = readTime + u.every]
<1>6. ASSUME NEW b \in Addrs, Holds(expired, b)
      PROVE  b \in Restarted <=> Record(b) \in Back
  <2>1. Record(b) \in Entries(expired)
    BY <1>5, <1>6 DEF Mapped
  <2>2. Record(b).every = heap[b].interval /\ Record(b).seq = heap[b].sequence
    BY RecordIs
  <2>3. heap[b].sequence \in Stopped <=> <<b, heap[b].sequence>> \in cancelingTimers
    <3>1. ASSUME NEW c \in Addrs, Holds(expired, c), heap[b].sequence = heap[c].sequence
          PROVE  c = b
      <4>1. Live(b) /\ Live(c)
        BY <1>2, <1>6, <3>1 DEF QueueInv, Owned
      <4> QED
        BY <1>2, <3>1, <4>1 DEF Distinct
    <3> QED
      BY <1>5, <1>6, <3>1 DEF Mapped
  <2>4. b \in InBatch
    BY <1>6 DEF InBatch, Holds
  <2> QED
    BY <2>1, <2>2, <2>3, <2>4 DEF Restarted, Repeats
<1>7. ASSUME NEW b \in Addrs, b \in Restarted
      PROVE  Record(b)' = Next1(Record(b))
  <2>1. heap[b] \in Timer
    BY <1>2 DEF TypeOK
  <2>2. heap'[b] = [heap[b] EXCEPT !.expiration = readTime + heap[b].interval]
    BY <1>3, <1>7 DEF NextExpiration
  <2>3. /\ heap'[b].sequence = heap[b].sequence
        /\ heap'[b].expiration = readTime + heap[b].interval
        /\ heap'[b].interval = heap[b].interval
    BY <2>1, <2>2 DEF Timer
  <2>4. Record(b)' = [seq |-> heap[b].sequence, at |-> readTime + heap[b].interval,
                      every |-> heap[b].interval]
    BY <2>3 DEF Record, Entry
  <2> QED
    BY <2>4, RecordIs
<1>8. \A x : x \in Entries(timers)'
               <=> x \in Entries(timers) \/ \E u \in Back : x = Next1(u)
  <2> SUFFICES ASSUME NEW x
               PROVE  x \in Entries(timers)'
                        <=> x \in Entries(timers) \/ \E u \in Back : x = Next1(u)
    OBVIOUS
  <2>1. \A b \in Addrs : Holds(timers, b) => Record(b)' = Record(b)
    BY <1>4, SameRecord
  <2>2. x \in Entries(timers)'
          <=> \E b \in Addrs : (Holds(timers, b) \/ b \in Restarted) /\ x = Record(b)'
    BY <1>3, <1>5 DEF Mapped
  <2>3. (\E b \in Addrs : Holds(timers, b) /\ x = Record(b)') <=> x \in Entries(timers)
    BY <1>5, <2>1 DEF Mapped
  <2>4. ASSUME NEW b \in Addrs, b \in Restarted, x = Record(b)'
        PROVE  \E u \in Back : x = Next1(u)
    <3>1. Record(b) \in Back
      BY <1>3, <1>6, <2>4
    <3> QED
      BY <1>7, <2>4, <3>1
  <2>5. ASSUME NEW u \in Back, x = Next1(u)
        PROVE  \E b \in Addrs : b \in Restarted /\ x = Record(b)'
    <3>1. PICK b \in Addrs : Holds(expired, b) /\ u = Record(b)
      BY <1>5 DEF Mapped
    <3> QED
      BY <1>6, <1>7, <2>5, <3>1
  <2> HIDE DEF Back, Next1
  <2> QED
    BY <2>2, <2>3, <2>4, <2>5
<1>9. Entries(timers)' = Entries(timers) \cup {Next1(u) : u \in Back}
  <2> HIDE DEF Next1, Back
  <2> QED
    BY <1>8
<1>10. /\ Entries(expired)' = {} /\ Entries(toRun) = {} /\ Entries(toRun)' = {}
       /\ Stopped' = {}
  BY <1>1 DEF Entries, Stopped, InBatch
<1>11. Asked' = Asked
  BY <1>1, <1>4, SameAsked
<1> QED
  BY <1>1, <1>2, <1>9, <1>10, <1>11 DEF Promise!PutBack

\* The destructor.
LEMMA QueueCloses ==
  ASSUME SimInv, SimInv', Destroy
  PROVE  Promise!Close
<1>1. /\ pc = "idle" /\ pc' = "destroyed" /\ timers' = {}
      /\ UNCHANGED <<now, numCreated, requests, expired, toRun, readTime, cancelingTimers>>
  BY DEF Destroy
<1>2. readTime = 0 /\ expired = {} /\ toRun = {} /\ QueueInv
  BY <1>1 DEF SimInv, Inv, Reading, QueueInv, Batch, TypeOK
<1>3. /\ Entries(expired) = {} /\ Entries(expired)' = {}
      /\ Entries(toRun) = {} /\ Entries(toRun)' = {}
      /\ Stopped = {} /\ Stopped' = {} /\ Entries(timers)' = {}
  BY <1>1, <1>2 DEF Entries, Stopped, InBatch
<1>4. \A b \in Addrs : AddsTimer(requests, b) => heap'[b] = heap[b]
  BY <1>2 DEF Destroy, Waiting, Holds, QueueInv, OneOwner
<1>5. Asked' = Asked
  BY <1>1, <1>4, SameAsked
<1> QED
  BY <1>1, <1>2, <1>3, <1>5 DEF Promise!Close, Promise!batchVars

-----------------------------------------------------------------------------
(* The simulation. *)

\* A step of the timerfd, of the addresses or of the ids alone is none of Timers.
LEMMA Unseen ==
  ASSUME UNCHANGED <<batchVars, queueVars, numCreated, requests>>
  PROVE  /\ Entries(timers)' = Entries(timers) /\ Entries(expired)' = Entries(expired)
         /\ Entries(toRun)' = Entries(toRun)
         /\ Stopped' = Stopped /\ Asked' = Asked
         /\ UNCHANGED <<pc, readTime, numCreated>>
BY DEF Entries, Entry, Stopped, InBatch, Asked, Record, batchVars, queueVars

\* Every step of the queue is a step of Timers, or none.
LEMMA StepSimulated ==
  ASSUME SimInv, SimInv', [Next]_vars
  PROVE  [Promise!Next]_(Promise!vars)
<1>1. ASSUME NEW a \in Addrs, NEW w \in Whens, NEW i \in Intervals, OwnerAddTimer(a, w, i)
      PROVE  Promise!Next
  BY <1>1, OwnerAdds DEF Promise!Next
<1>2. ASSUME NEW id \in ids, OwnerCancel(id)
      PROVE  Promise!Next \/ UNCHANGED Promise!vars
  BY <1>2, OwnerCancels
<1>3. ASSUME NEW t \in Threads, NEW a \in Addrs, NEW w \in Whens, NEW i \in Intervals,
             AddTimer(t, a, w, i)
      PROVE  Promise!Next
  BY <1>3, ThreadAsks DEF Promise!Next
<1>4. ASSUME NEW t \in Threads, NEW id \in ids, Cancel(t, id)
      PROVE  Promise!Next
  BY <1>4, ThreadCancels DEF Promise!Next
<1>5. ASSUME RunRequest PROVE Promise!Next
  BY <1>5, RequestRuns DEF Promise!Next
<1>6. ASSUME HandleRead PROVE Promise!Next
  BY <1>6, BatchTaken DEF Promise!Next
<1>7. ASSUME RunTimer PROVE Promise!Next
  BY <1>7, TimerCalled DEF Promise!Next
<1>8. ASSUME EndTimer PROVE Promise!Next
  BY <1>8, TimerReturns DEF Promise!Next
<1>9. ASSUME Reset PROVE Promise!Next
  BY <1>9, BatchPutBack DEF Promise!Next
<1>10. ASSUME Destroy PROVE Promise!Next
  BY <1>10, QueueCloses DEF Promise!Next
<1>11. ASSUME UNCHANGED <<batchVars, queueVars, numCreated, requests>>
       PROVE  Promise!Next \/ UNCHANGED Promise!vars
  <2>1. /\ Entries(timers)' = Entries(timers) /\ Entries(expired)' = Entries(expired)
        /\ Entries(toRun)' = Entries(toRun)
        /\ Stopped' = Stopped /\ Asked' = Asked
        /\ UNCHANGED <<pc, readTime, numCreated>>
    BY <1>11, Unseen
  <2>2. now' \in Nat
    BY DEF SimInv, Inv, TypeOK
  <2>3. CASE now' = now
    BY <2>1, <2>3 DEF Promise!vars, Promise!batchVars
  <2>4. CASE now' # now
    <3>1. Promise!TimePasses
      BY <2>1, <2>2, <2>4 DEF Promise!TimePasses, Promise!batchVars
    <3> QED
      BY <3>1 DEF Promise!Next
  <2> QED
    BY <2>3, <2>4
<1>12. (\E t \in Threads : ReturnTimerId(t)) \/ ReportTimerfd \/ Tick
         \/ (\E d \in ClockSteps : StepClock(d)) \/ UNCHANGED vars
         => UNCHANGED <<batchVars, queueVars, numCreated, requests>>
  BY DEF ReturnTimerId, ReportTimerfd, Tick, StepClock, batchVars, queueVars, vars
<1> QED
  BY <1>1, <1>2, <1>3, <1>4, <1>5, <1>6, <1>7, <1>8, <1>9, <1>10, <1>11, <1>12 DEF Next

\* An empty queue is an empty queue.
LEMMA InitSimulated ==
  ASSUME Init
  PROVE  Promise!Init
<1>1. /\ Entries(timers) = {} /\ Entries(expired) = {} /\ Entries(toRun) = {}
      /\ Stopped = {}
  BY DEF Init, Entries, Stopped, InBatch
<1>2. Asked = <<>>
  <2>1. requests = <<>> /\ Len(requests) = 0 /\ 1..0 = {}
    BY DEF Init
  <2> QED
    BY <2>1 DEF Asked
<1> QED
  BY <1>1, <1>2 DEF Init, Promise!Init

\* Timers are called when they are due, in the order of their times, come back
\* if they repeat and were not cancelled, and are dropped by their own cancel
\* alone, whatever the queue does with addresses, sets of pointers and the
\* timerfd.
THEOREM PromiseIsKept == Spec => ImplementsTimers
<1>1. SimInv /\ SimInv' /\ [Next]_vars => [Promise!Next]_(Promise!vars)
  BY StepSimulated
<1> QED
  BY <1>1, SimInvariance, InitSimulated, PTL DEF Spec, ImplementsTimers, Promise!Spec

=============================================================================
