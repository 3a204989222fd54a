------------------------------- MODULE Timers -------------------------------
(***************************************************************************)
(* What TimerQueue promises its callers, whatever addresses, sets of       *)
(* pointers and timerfd it keeps: timers are told apart by their sequence  *)
(* number alone.  When the loop is told to look, it takes the due timers,  *)
(* calls them one after the other in the order of their times, and then    *)
(* puts those back that repeat.  A cancelled timer is dropped if it waits; *)
(* one whose batch is running is still called, but does not come back.     *)
(* What other threads ask for is done between batches, in their order.     *)
(***************************************************************************)
EXTENDS Integers, Sequences

VARIABLES
  now,                   \* the wall clock
  created,               \* how many timers were ever created
  asked,                 \* what other threads asked for, in order: the set of
                         \* the timer to add, or {} to cancel one
  waiting,               \* the timers that wait for their time
  batch,                 \* those that were due when the loop last looked
  toRun,                 \* those of the batch that were not yet called
  running,               \* is a callback being run?
  batchTime,             \* when the batch was taken, 0 if there is none
  stopped,               \* those of the batch cancelled since it was taken
  closed                 \* was the queue destroyed?

batchVars == <<batch, toRun, running, batchTime, stopped>>
vars == <<now, created, asked, waiting, batchVars, closed>>

Timer == [seq : Nat \ {0}, at : Nat, every : Nat]
Seqs(set) == {t.seq : t \in set}

Init ==
  /\ now \in Nat
  /\ created = 0
  /\ asked = <<>>
  /\ waiting = {} /\ batch = {} /\ toRun = {} /\ stopped = {}
  /\ running = FALSE
  /\ batchTime = 0
  /\ closed = FALSE

\* The wall clock goes forward, or is set to any time.
TimePasses ==
  now' \in Nat \ {now} /\ UNCHANGED <<created, asked, waiting, batchVars, closed>>

\* A new timer never has the number of an earlier one.
New(t) == t \in Timer /\ t.seq = created' /\ created' = created + 1

Add ==
  /\ \E t \in waiting' : New(t) /\ waiting' = waiting \cup {t}
  /\ ~closed
  /\ UNCHANGED <<now, asked, batchVars, closed>>

Ask ==
  /\ \/ \E i \in DOMAIN asked' : \E t \in asked'[i] :
          New(t) /\ asked' = Append(asked, {t})
     \/ asked' = Append(asked, {}) /\ UNCHANGED created
  /\ ~closed
  /\ UNCHANGED <<now, waiting, batchVars, closed>>

\* What a cancel does to the timer of number s, wherever it is.
Drop(s) ==
  /\ waiting' = {t \in waiting : t.seq # s}
  /\ stopped' = stopped \cup (Seqs(batch) \cap {s})

\* The oldest request is done.  One to cancel drops the timer that it names, or
\* none, which is number 0: a timer that is still asked for is not reached.
Accept ==
  /\ asked # <<>>
  /\ batchTime = 0
  /\ asked' = Tail(asked)
  /\ \/ /\ Head(asked) # {}
        /\ waiting' = waiting \cup Head(asked)
        /\ UNCHANGED stopped
     \/ Head(asked) = {} /\ \E s \in Seqs(waiting) \cup {0} : Drop(s)
  /\ ~closed
  /\ UNCHANGED <<now, created, batch, toRun, running, batchTime, closed>>

\* The loop's own thread cancels the timer of number s.
Cancel(s) ==
  /\ Drop(s)
  /\ UNCHANGED <<now, created, asked, batch, toRun, running, batchTime, closed>>

Due == {t \in waiting : t.at <= now}

Take ==
  /\ batchTime = 0
  /\ batch' = Due
  /\ toRun' = Due
  /\ waiting' = waiting \ Due
  /\ batchTime' = now
  /\ UNCHANGED <<now, created, asked, running, stopped, closed>>

\* The earliest of those that are left is called, and returns.
Call ==
  /\ ~running
  /\ \E t \in toRun : /\ \A u \in toRun : t.at <= u.at
                      /\ toRun' = toRun \ {t}
  /\ running' = TRUE
  /\ UNCHANGED <<now, created, asked, waiting, batch, batchTime, stopped, closed>>

Return ==
  /\ running
  /\ running' = FALSE
  /\ UNCHANGED <<now, created, asked, waiting, batch, toRun, batchTime, stopped, closed>>

\* The timers that repeat wait for an interval from when the batch was taken.
PutBack ==
  /\ batchTime # 0
  /\ toRun = {} /\ ~running
  /\ waiting' = waiting \cup
       {[t EXCEPT !.at = batchTime + t.every] :
          t \in {u \in batch : u.every > 0 /\ u.seq \notin stopped}}
  /\ batch' = {} /\ stopped' = {} /\ batchTime' = 0
  /\ UNCHANGED <<now, created, asked, toRun, running, closed>>

Close ==
  /\ batchTime = 0
  /\ closed' = TRUE
  /\ waiting' = {}
  /\ UNCHANGED <<now, created, asked, batchVars>>

Next ==
  \/ TimePasses \/ Add \/ Ask \/ Accept
  \/ \E s \in Seqs(waiting \cup batch) : Cancel(s)
  \/ Take \/ Call \/ Return \/ PutBack \/ Close

Spec == Init /\ [][Next]_vars

=============================================================================
