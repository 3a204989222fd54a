---------------------------- MODULE FunctorQueue ----------------------------
(***************************************************************************)
(* What EventLoop promises to the threads that hand it work.               *)
(*                                                                         *)
(* Functors accepted by EventLoop::queueInLoop() form one queue.  While    *)
(* the loop is open (inside loop()) it runs them one at a time, each       *)
(* submission exactly once, in the order in which they were accepted.  A   *)
(* loop that closes keeps what it has not run; it runs it if it is opened  *)
(* again.  EventLoop.tla is shown to implement this specification.         *)
(***************************************************************************)
EXTENDS Sequences

CONSTANT Functors        \* the work other threads may hand to the loop

VARIABLES
  open,                  \* the loop is inside loop()
  queue                  \* accepted and not yet run, oldest first

vars == <<open, queue>>

Init ==
  /\ open = FALSE
  /\ queue = <<>>

Submit(f) ==
  /\ queue' = Append(queue, f)
  /\ UNCHANGED open

Run ==
  /\ open
  /\ queue # <<>>
  /\ queue' = Tail(queue)
  /\ UNCHANGED open

\* The loop opens and closes; what is queued stays queued.
Toggle ==
  /\ open' = ~open
  /\ UNCHANGED queue

Next ==
  \/ \E f \in Functors : Submit(f)
  \/ Run
  \/ Toggle

\* Safety only: order and exactly-once.
SafeSpec == Init /\ [][Next]_vars

\* An open loop does not leave its queue unattended.
Attended == WF_vars(Run)

Spec == SafeSpec /\ Attended

=============================================================================
