--------------------------- MODULE EventLoopProofs ---------------------------
(***************************************************************************)
(* Proofs about EventLoop for any threads, functors and channels: its type *)
(* invariant, that no wakeup and no quit is lost, and that it implements   *)
(* the executor of FunctorQueue (safety part).                             *)
(***************************************************************************)
EXTENDS EventLoop, TLAPS

-----------------------------------------------------------------------------
(* The inductive invariant. *)

\* The flags of the loop say where its owner stands, and the local vector of
\* doPendingFunctors is empty outside that function.
FlagsFollowPc ==
  /\ looping <=> pc # "outside"
  /\ callingPendingFunctors <=> pc \in {"swapping", "running", "functor"}
  /\ functors # <<>> => pc \in {"running", "functor"}

\* Wherever the next poll comes before the next swap, what is queued has a
\* wakeup coming.  Between a poll and the swap nothing needs to: that is why
\* NoLostWakeup alone is not inductive.
Covered ==
  pc \in {"outside", "test", "polling", "running", "functor", "destroying"}
    => (OnlyQuiet \/ WakeupOwed)

Inv ==
  /\ TypeOK
  /\ FlagsFollowPc
  /\ Covered
  /\ NoLostQuit

-----------------------------------------------------------------------------
\* What queueInLoop() adds is a well-typed queue with one more entry.
LEMMA AppendFacts ==
  ASSUME NEW S, NEW s \in Seq(S), NEW f \in S
  PROVE  /\ Append(s, f) \in Seq(S)
         /\ Len(Append(s, f)) = Len(s) + 1
         /\ \A i \in 1..Len(s) : Append(s, f)[i] = s[i]
         /\ Append(s, f)[Len(s) + 1] = f
OBVIOUS

\* The loop starts with its flags down and nothing queued.
LEMMA InitInv == Init => Inv
<1> SUFFICES ASSUME Init PROVE Inv
  OBVIOUS
<1>1. TypeOK
  <2>1. pendingFunctors \in Seq(Functors) /\ functors \in Seq(Functors)
    BY DEF Init
  <2>2. callerPc \in [Callers -> {"idle", "waking"}]
    BY DEF Init
  <2> QED
    BY <2>1, <2>2, Zenon DEF Init, TypeOK, PCs
<1>2. FlagsFollowPc
  BY DEF Init, FlagsFollowPc
<1>3. OnlyQuiet
  BY DEF Init, OnlyQuiet
<1>4. NoLostQuit
  BY DEF Init, NoLostQuit
<1> QED
  BY <1>1, <1>2, <1>3, <1>4 DEF Inv, Covered

\* The type invariant is kept by every step of the loop and of its callers.
LEMMA TypeStep == TypeOK /\ [Next]_vars => TypeOK'
<1> SUFFICES ASSUME TypeOK, [Next]_vars PROVE TypeOK'
  OBVIOUS
<1> USE DEF TypeOK
<1>1. CASE LoopEnter BY <1>1 DEF LoopEnter, PCs
<1>2. CASE LoopContinue BY <1>2 DEF LoopContinue, PCs
<1>3. CASE LoopExit BY <1>3 DEF LoopExit, PCs
<1>4. CASE PollReady BY <1>4 DEF PollReady, PollReturn, PCs
<1>5. CASE PollTimeout BY <1>5 DEF PollTimeout, PollReturn, PCs
<1>6. CASE HandleRead BY <1>6 DEF HandleRead, PCs
<1>7. ASSUME NEW ch \in IoChannels, BeginCallback(ch) PROVE TypeOK'
  BY <1>7 DEF BeginCallback, PCs
<1>8. CASE EndCallback BY <1>8 DEF EndCallback, PCs
<1>9. CASE EndDispatch BY <1>9 DEF EndDispatch, PCs
<1>10. CASE SwapFunctors BY <1>10 DEF SwapFunctors, PCs
<1>11. CASE BeginFunctor BY <1>11 DEF BeginFunctor, PCs
<1>12. CASE EndFunctor BY <1>12 DEF EndFunctor, PCs
<1>13. CASE EndFunctors BY <1>13 DEF EndFunctors, PCs
<1>14. ASSUME NEW f \in Functors, OwnerQueueInLoop(f) PROVE TypeOK'
  BY <1>14, AppendFacts DEF OwnerQueueInLoop, OwnerWakesItself, loopVars
<1>15. CASE OwnerQuit BY <1>15 DEF OwnerQuit, loopVars
<1>16. ASSUME NEW c \in Callers, NEW f \in Functors, QueueInLoop(c, f)
       PROVE  TypeOK'
  BY <1>16, AppendFacts DEF QueueInLoop, loopVars
<1>17. ASSUME NEW c \in Callers, Quit(c) PROVE TypeOK'
  BY <1>17 DEF Quit, loopVars
<1>18. ASSUME NEW c \in Callers, Wakeup(c) PROVE TypeOK'
  BY <1>18 DEF Wakeup, loopVars
<1>19. CASE FunctorsDestroyed BY <1>19 DEF FunctorsDestroyed, PCs
<1>20. CASE UNCHANGED vars BY <1>20 DEF vars
<1> QED
  BY <1>1, <1>2, <1>3, <1>4, <1>5, <1>6, <1>7, <1>8, <1>9, <1>10, <1>11,
     <1>12, <1>13, <1>14, <1>15, <1>16, <1>17, <1>18, <1>19, <1>20
     DEF Next, LoopStep

\* The flags are raised and lowered where the owner thread passes.
LEMMA FlagsStep == FlagsFollowPc /\ [Next]_vars => FlagsFollowPc'
<1> SUFFICES ASSUME FlagsFollowPc, [Next]_vars PROVE FlagsFollowPc'
  OBVIOUS
<1> USE DEF FlagsFollowPc
<1>1. CASE LoopEnter BY <1>1 DEF LoopEnter
<1>2. CASE LoopContinue BY <1>2 DEF LoopContinue
<1>3. CASE LoopExit BY <1>3 DEF LoopExit
<1>4. CASE PollReady BY <1>4 DEF PollReady, PollReturn
<1>5. CASE PollTimeout BY <1>5 DEF PollTimeout, PollReturn
<1>6. CASE HandleRead BY <1>6 DEF HandleRead
<1>7. ASSUME NEW ch \in IoChannels, BeginCallback(ch) PROVE FlagsFollowPc'
  BY <1>7 DEF BeginCallback
<1>8. CASE EndCallback BY <1>8 DEF EndCallback
<1>9. CASE EndDispatch BY <1>9 DEF EndDispatch
<1>10. CASE SwapFunctors BY <1>10 DEF SwapFunctors
<1>11. CASE BeginFunctor BY <1>11 DEF BeginFunctor
<1>12. CASE EndFunctor BY <1>12 DEF EndFunctor
<1>13. CASE EndFunctors BY <1>13 DEF EndFunctors
<1>14. CASE \/ \E f \in Functors : OwnerQueueInLoop(f)
            \/ OwnerQuit
            \/ \E c \in Callers, f \in Functors : QueueInLoop(c, f)
            \/ \E c \in Callers : Quit(c) \/ Wakeup(c)
  BY <1>14 DEF OwnerQueueInLoop, OwnerQuit, QueueInLoop, Quit, Wakeup, loopVars
<1>15. CASE FunctorsDestroyed BY <1>15 DEF FunctorsDestroyed
<1>16. CASE UNCHANGED vars BY <1>16 DEF vars
<1> QED
  BY <1>1, <1>2, <1>3, <1>4, <1>5, <1>6, <1>7, <1>8, <1>9, <1>10, <1>11,
     <1>12, <1>13, <1>14, <1>15, <1>16 DEF Next, LoopStep

\* A step that leaves the queue and the caller's promises alone, and does not
\* read the eventfd, leaves a wakeup coming.
LEMMA WakeupKept ==
  ASSUME WakeupOwed, wakeupFd' = wakeupFd, callerPc' = callerPc
  PROVE  WakeupOwed'
  BY DEF WakeupOwed

\* Wherever the next poll comes before the next swap, the queue is covered.
LEMMA CoveredStep == TypeOK /\ FlagsFollowPc /\ Covered /\ [Next]_vars => Covered'
<1> SUFFICES ASSUME TypeOK, FlagsFollowPc, Covered, [Next]_vars,
                    pc' \in {"outside", "test", "polling", "running", "functor",
                             "destroying"}
             PROVE  OnlyQuiet' \/ WakeupOwed'
  BY DEF Covered
<1>1. CASE LoopEnter \/ LoopContinue \/ LoopExit
  BY <1>1, WakeupKept DEF Covered, LoopEnter, LoopContinue, LoopExit, OnlyQuiet
<1>2. CASE PollReady \/ PollTimeout \/ HandleRead \/ EndCallback \/ EndDispatch
  BY <1>2 DEF PollReady, PollTimeout, PollReturn, HandleRead, EndCallback,
              EndDispatch
<1>3. ASSUME NEW ch \in IoChannels, BeginCallback(ch)
      PROVE  OnlyQuiet' \/ WakeupOwed'
  BY <1>3 DEF BeginCallback
<1>4. CASE SwapFunctors
  BY <1>4 DEF SwapFunctors, OnlyQuiet
<1>5. CASE BeginFunctor \/ EndFunctor \/ EndFunctors \/ FunctorsDestroyed
  BY <1>5, WakeupKept
     DEF Covered, BeginFunctor, EndFunctor, EndFunctors, FunctorsDestroyed, OnlyQuiet
<1>6. ASSUME NEW f \in Functors, OwnerQueueInLoop(f)
      PROVE  OnlyQuiet' \/ WakeupOwed'
  <2>1. CASE pc \in {"outside", "destroying"}
    <3>1. CASE WakeupOwed
      BY <1>6, <3>1 DEF OwnerQueueInLoop, WakeupOwed
    <3>2. CASE OnlyQuiet
      BY <1>6, <2>1, <3>2, AppendFacts DEF OwnerQueueInLoop, OnlyQuiet, TypeOK
    <3> QED
      BY <2>1, <3>1, <3>2 DEF Covered
  <2>2. CASE pc = "functor"
    BY <1>6, <2>2 DEF OwnerQueueInLoop, OwnerWakesItself, FlagsFollowPc, WakeupOwed
  <2>3. CASE pc = "callback"
    BY <1>6, <2>3 DEF OwnerQueueInLoop, loopVars
  <2> QED
    BY <1>6, <2>1, <2>2, <2>3 DEF OwnerQueueInLoop, InUserCode
<1>7. CASE OwnerQuit
  BY <1>7, WakeupKept DEF Covered, OwnerQuit, OnlyQuiet, loopVars
<1>8. ASSUME NEW c \in Callers, NEW f \in Functors, QueueInLoop(c, f)
      PROVE  OnlyQuiet' \/ WakeupOwed'
  BY <1>8 DEF QueueInLoop, WakeupOwed, TypeOK
<1>9. ASSUME NEW c \in Callers, Quit(c)
      PROVE  OnlyQuiet' \/ WakeupOwed'
  BY <1>9 DEF Quit, WakeupOwed, TypeOK
<1>10. ASSUME NEW c \in Callers, Wakeup(c)
       PROVE  OnlyQuiet' \/ WakeupOwed'
  BY <1>10 DEF Wakeup, WakeupOwed
<1>11. CASE UNCHANGED vars
  BY <1>11, WakeupKept DEF Covered, OnlyQuiet, vars
<1> QED
  BY <1>1, <1>2, <1>3, <1>4, <1>5, <1>6, <1>7, <1>8, <1>9, <1>10, <1>11
     DEF Next, LoopStep

\* quit() sets the flag before it writes the eventfd, and the owner tests the
\* flag right before it polls.
LEMMA QuitStep == TypeOK /\ NoLostQuit /\ [Next]_vars => NoLostQuit'
<1> SUFFICES ASSUME TypeOK, NoLostQuit, [Next]_vars, pc' = "polling", quit'
             PROVE  WakeupOwed'
  BY DEF NoLostQuit
<1>1. CASE LoopEnter \/ LoopStep \/ PollReady \/ PollTimeout \/ OwnerQuit
  BY <1>1 DEF LoopEnter, LoopStep, LoopContinue, LoopExit, HandleRead,
              BeginCallback, EndCallback, EndDispatch, SwapFunctors,
              BeginFunctor, EndFunctor, EndFunctors, FunctorsDestroyed, PollReady, PollTimeout,
              PollReturn, OwnerQuit, InUserCode, loopVars
<1>2. ASSUME NEW f \in Functors, OwnerQueueInLoop(f) PROVE WakeupOwed'
  BY <1>2 DEF OwnerQueueInLoop, InUserCode, loopVars
<1>3. ASSUME NEW c \in Callers, NEW f \in Functors, QueueInLoop(c, f)
      PROVE  WakeupOwed'
  BY <1>3 DEF QueueInLoop, WakeupOwed, TypeOK
<1>4. ASSUME NEW c \in Callers, Quit(c) PROVE WakeupOwed'
  BY <1>4 DEF Quit, WakeupOwed, TypeOK
<1>5. ASSUME NEW c \in Callers, Wakeup(c) PROVE WakeupOwed'
  BY <1>5 DEF Wakeup, WakeupOwed
<1>6. CASE UNCHANGED vars
  BY <1>6, WakeupKept DEF NoLostQuit, vars
<1> QED
  BY <1>1, <1>2, <1>3, <1>4, <1>5, <1>6 DEF Next

\* The inductive invariant holds in every reachable state.
LEMMA InvInvariant == Spec => []Inv
<1>1. Inv /\ [Next]_vars => Inv'
  BY TypeStep, FlagsStep, CoveredStep, QuitStep DEF Inv
<1> QED
  BY InitInv, <1>1, PTL DEF Spec

-----------------------------------------------------------------------------
(* The theorems. *)

\* Every variable of the loop keeps its type, for any number of threads,
\* functors and channels.
THEOREM TypeCorrect == Spec => []TypeOK
  BY InvInvariant, PTL DEF Inv

\* No interleaving of queueInLoop() with the poll, the read of the eventfd
\* and the swap leaves a functor waiting in a poll that nothing will end.
THEOREM NoWakeupIsLost == Spec => []NoLostWakeup
<1>1. Inv => NoLostWakeup
  BY DEF Inv, Covered, NoLostWakeup
<1> QED
  BY <1>1, InvInvariant, PTL

\* No interleaving of quit() with the test of quit_ and the poll leaves a
\* quit loop in a poll that nothing will end.
THEOREM NoQuitIsLost == Spec => []NoLostQuit
  BY InvInvariant, PTL DEF Inv

-----------------------------------------------------------------------------
(* The loop implements the executor of FunctorQueue. *)

\* queueInLoop() appends to the executor's queue as well.
LEMMA AppendCommutes ==
  ASSUME NEW S, NEW s \in Seq(S), NEW t \in Seq(S), NEW f \in S
  PROVE  s \o Append(t, f) = Append(s \o t, f)
OBVIOUS

\* Starting a functor takes the head off the executor's queue as well.
LEMMA TailCommutes ==
  ASSUME NEW S, NEW s \in Seq(S), NEW t \in Seq(S), s # <<>>
  PROVE  Tail(s) \o t = Tail(s \o t) /\ s \o t # <<>>
OBVIOUS

\* The loop starts closed with an empty queue.
LEMMA InitRefines == Init => Executor!Init
  BY DEF Init, Executor!Init

\* Submissions are the executor's, starting a functor is its Run, entering
\* and leaving loop() its Toggle; the swap and everything else stutter.
LEMMA StepRefines ==
  TypeOK /\ FlagsFollowPc /\ [Next]_vars => [Executor!Next]_(Executor!vars)
<1> SUFFICES ASSUME TypeOK, FlagsFollowPc, [Next]_vars
             PROVE  [Executor!Next]_(Executor!vars)
  OBVIOUS
<1> USE DEF Executor!vars
<1>1. CASE LoopEnter
  <2>1. Executor!Toggle
    BY <1>1 DEF LoopEnter, Executor!Toggle, TypeOK
  <2> QED
    BY <2>1 DEF Executor!Next
<1>2. CASE LoopExit
  <2>1. Executor!Toggle
    BY <1>2 DEF LoopExit, Executor!Toggle, TypeOK, FlagsFollowPc
  <2> QED
    BY <2>1 DEF Executor!Next
<1>3. CASE BeginFunctor
  <2>1. looping
    BY <1>3 DEF BeginFunctor, FlagsFollowPc
  <2>2. Executor!Run
    BY <1>3, <2>1, TailCommutes DEF BeginFunctor, Executor!Run, TypeOK
  <2> QED
    BY <2>2 DEF Executor!Next
<1>4. CASE SwapFunctors
  BY <1>4 DEF SwapFunctors, FlagsFollowPc, TypeOK
<1>5. ASSUME NEW f \in Functors,
             OwnerQueueInLoop(f) \/ \E c \in Callers : QueueInLoop(c, f)
      PROVE  Executor!Next
  <2>1. /\ pendingFunctors' = Append(pendingFunctors, f)
        /\ functors' = functors
        /\ looping' = looping
    BY <1>5 DEF OwnerQueueInLoop, QueueInLoop, loopVars
  <2>2. functors \o Append(pendingFunctors, f)
          = Append(functors \o pendingFunctors, f)
    BY AppendCommutes DEF TypeOK
  <2> QED
    BY <2>1, <2>2 DEF Executor!Next, Executor!Submit
<1>6. CASE \/ LoopContinue \/ PollReady \/ PollTimeout \/ HandleRead
           \/ EndCallback \/ EndDispatch \/ EndFunctor \/ EndFunctors
           \/ FunctorsDestroyed \/ OwnerQuit \/ UNCHANGED vars
           \/ \E ch \in IoChannels : BeginCallback(ch)
           \/ \E c \in Callers : Quit(c) \/ Wakeup(c)
  BY <1>6 DEF LoopContinue, PollReady, PollTimeout, PollReturn, HandleRead,
              EndCallback, EndDispatch, EndFunctor, EndFunctors, FunctorsDestroyed,
              OwnerQuit, BeginCallback, Quit, Wakeup, loopVars, vars
<1> QED
  BY <1>1, <1>2, <1>3, <1>4, <1>5, <1>6 DEF Next, LoopStep

\* Functors run one at a time, each exactly once and in the order in which
\* queueInLoop() accepted them, whichever threads queued them.
THEOREM Refinement == Spec => Executor!SafeSpec
  BY InitRefines, StepRefines, InvInvariant, PTL
     DEF Inv, Spec, Executor!SafeSpec

=============================================================================
