------------------------------- MODULE Reactor ------------------------------
(***************************************************************************)
(* One iteration after another of EventLoop::loop(): the channels that the *)
(* poller reports are handled one by one, and the callbacks of each may    *)
(* change, remove and destroy channels, the others' and their own.         *)
(*                                                                         *)
(* The poller is any that keeps the promises of Poller.  Assertions are    *)
(* part of the program: one that fails aborts it.  The program has objects *)
(* that it holds by shared_ptr: channels are members of them, and channels *)
(* are tied to them, before or in their callbacks, once or again.          *)
(***************************************************************************)
EXTENDS Sequences, FiniteSets

CONSTANTS
  Channels,     \* addresses at which Channel objects live
  Fd,           \* the file descriptor of each
  Events,       \* events that a channel can ask for: "in", "out"
  Unasked,      \* events that are reported, asked or not: "hup", "err"
  Objects,      \* addresses at which objects with a shared_ptr live
  Owner,        \* the object that a channel is a member of, if it is of any
  Ties          \* the channels and objects that the program may tie

NoChannel == "no channel"
NoObject == "no object"
Untied == "untied"
Expired == "expired"

ASSUME ReactorAssumption ==
  /\ DOMAIN Fd = Channels
  /\ DOMAIN Owner \subseteq Channels
  /\ Ties \subseteq Channels \X Objects
  /\ NoChannel \notin Channels
  /\ {NoObject, Untied, Expired} \cap Objects = {}

VARIABLES
  events, members, watched, reported,   \* the poller: see Poller
  alive,        \* the Channel objects that exist
  addedToLoop,  \* Channel::addedToLoop_
  handling,     \* the channels whose eventHandling_ is set
  tie,          \* Channel::tie_ and tied_: an object, Untied or Expired
  existing,     \* the objects that have not been destroyed
  held,         \* those that the program holds, handleEvent() left out
  guard,        \* the object that handleEvent() holds, or NoObject
  tiedTo,       \* history: what the current channel was tied to at its start
  phase,        \* where loop() stands; eventHandling_ is set in "dispatch"
  pending,      \* active channels that are still to be handled
  current,      \* the channel in handleEvent(), or NoChannel
  todo,         \* the callbacks that handleEventWithGuard() is still to call
  inCallback,   \* one of them is running
  aborted       \* an assertion has failed

P == INSTANCE Poller

pollerVars == <<events, members, watched, reported>>
channelVars == <<alive, addedToLoop, tie, existing, held>>
eventVars == <<handling, current, todo, guard, tiedTo>>
dispatchVars == <<eventVars, phase, pending, inCallback>>
vars == <<pollerVars, channelVars, dispatchVars, aborted>>

Init ==
  /\ P!Init
  /\ alive = {}
  /\ addedToLoop = {}
  /\ handling = {}
  /\ tie = [c \in Channels |-> Untied]
  /\ existing = {}
  /\ held = {}
  /\ guard = NoObject
  /\ tiedTo = NoObject
  /\ phase = "poll"
  /\ pending = {}
  /\ current = NoChannel
  /\ todo = <<>>
  /\ inCallback = FALSE
  /\ aborted = FALSE

Abort ==
  /\ aborted' = TRUE
  /\ UNCHANGED <<pollerVars, channelVars, dispatchVars>>

-----------------------------------------------------------------------------
(* Channel, called by the callbacks and functors of the program.           *)

InUserCode == inCallback \/ phase = "functors"

\* enableReading(), disableReading(), ... and disableAll().
Changes(old) ==
  {old \cup {e} : e \in Events} \cup {old \ {e} : e \in Events} \cup {{}}

\* A new channel that is no member of an object.
Construct(c) ==
  /\ c \notin alive \cup DOMAIN Owner
  /\ alive' = alive \cup {c}
  /\ UNCHANGED <<pollerVars, addedToLoop, tie, existing, held, dispatchVars, aborted>>

\* update(), when the descriptor is not that of another channel.
Update(c, new) ==
  /\ c \in alive
  /\ new \in Changes(events[c])
  /\ addedToLoop' = addedToLoop \cup {c}
  /\ P!UpdateChannel(c, new)
  /\ UNCHANGED <<alive, tie, existing, held, dispatchVars, aborted>>

\* Mutant: the loop is not asked whether the channel is active.
Removable(c) == TRUE

\* The assertion of EventLoop::removeChannel(): no active channel is removed
\* while channels are handled, but by its own callback.
RemoveAssert(c) ==
  phase = "dispatch" => c = current \/ c \notin DOMAIN reported

\* remove(), of a channel that was added and disabled.
Remove(c) ==
  /\ c \in alive \cap members
  /\ events[c] = {}
  /\ IF RemoveAssert(c)
       THEN /\ addedToLoop' = addedToLoop \ {c}
            /\ P!RemoveChannel(c)
            /\ UNCHANGED <<alive, tie, existing, held, dispatchVars, aborted>>
       ELSE Abort

\* Mutant: only a channel that is being handled may not be destroyed.
DestroyAssertsHandling(c, busy) == c \notin busy

\* The assertions of ~Channel(), when the channels in busy are being handled.
DestroyAsserts(c, busy) == c \notin busy \cup addedToLoop \cup members

\* The program destroys a channel that is no member of an object.
Destroy(c) ==
  /\ c \in alive \ DOMAIN Owner
  /\ IF DestroyAsserts(c, handling)
       THEN /\ alive' = alive \ {c}
            /\ tie' = [tie EXCEPT ![c] = Untied]
            /\ UNCHANGED <<pollerVars, addedToLoop, existing, held, dispatchVars,
                           aborted>>
       ELSE Abort

MembersOf(o) == {c \in DOMAIN Owner : Owner[c] = o}

\* make_shared(): an object and the channels that are its members.
Make(o) ==
  /\ o \notin existing
  /\ existing' = existing \cup {o}
  /\ held' = held \cup {o}
  /\ alive' = alive \cup MembersOf(o)
  /\ UNCHANGED <<pollerVars, addedToLoop, tie, dispatchVars, aborted>>

\* tie(), also in the channel's own callback, and instead of an earlier tie.
Tie(c, o) ==
  /\ c \in alive
  /\ o \in existing
  /\ tie' = [tie EXCEPT ![c] = o]
  /\ UNCHANGED <<pollerVars, alive, addedToLoop, existing, held, dispatchVars, aborted>>

\* An object that handleEvent() alone holds is given an owner again.
Share(o) ==
  /\ o \in existing \ held
  /\ held' = held \cup {o}
  /\ UNCHANGED <<pollerVars, alive, addedToLoop, tie, existing, dispatchVars, aborted>>

\* The last reference to an object is gone: its channels are destroyed with it,
\* those in busy still being handled, and the ties to it expire.
Expire(o, busy) ==
  /\ existing' = existing \ {o}
  /\ IF \A c \in MembersOf(o) : DestroyAsserts(c, busy)
       THEN /\ alive' = alive \ MembersOf(o)
            /\ tie' = [c \in Channels |-> IF c \in MembersOf(o) THEN Untied
                                         ELSE IF tie[c] = o THEN Expired
                                         ELSE tie[c]]
            /\ UNCHANGED aborted
       ELSE aborted' = TRUE /\ UNCHANGED <<alive, tie>>

\* The program lets go of an object, which handleEvent() may still hold.
Release(o) ==
  /\ o \in held
  /\ held' = held \ {o}
  /\ IF o = guard THEN UNCHANGED <<alive, tie, existing, aborted>>
                  ELSE Expire(o, handling)
  /\ UNCHANGED <<pollerVars, addedToLoop, dispatchVars>>

UserStep ==
  /\ InUserCode
  /\ \/ \E c \in Channels :
          \/ Construct(c)
          \/ \E new \in SUBSET Events : Update(c, new)
          \/ Remove(c)
          \/ Destroy(c)
     \/ \E o \in Objects : Make(o) \/ Share(o) \/ Release(o)
     \/ \E t \in Ties : Tie(t[1], t[2])

\* Another thread lets go of an object, at any time.  The thread destroys no
\* channel: the object is in use here, or no channel is a member of it.
OtherThread ==
  \E o \in Objects : (o = guard \/ MembersOf(o) = {}) /\ Release(o)

-----------------------------------------------------------------------------
(* loop(). *)

Poll ==
  /\ phase = "poll"
  /\ P!Poll
  /\ pending' = DOMAIN reported'
  /\ phase' = "dispatch"
  /\ UNCHANGED <<channelVars, eventVars, inCallback, aborted>>

\* handleEventWithGuard(): the callbacks that the events ask for, in its order.
\* "in" stands for POLLIN or POLLPRI: pollin says that POLLIN is set.
Callbacks(revents, pollin) ==
  LET Due(callback) ==
        \/ callback = "close" /\ "hup" \in revents /\ ~pollin
        \/ callback = "error" /\ "err" \in revents
        \/ callback = "read" /\ "in" \in revents
        \/ callback = "write" /\ "out" \in revents
  IN  SelectSeq(<<"close", "error", "read", "write">>, Due)

\* Mutant: the tie is tested, and the object not kept.
KeepsNothing(c) == NoObject

\* The object that handleEvent() keeps while it handles a channel.
Guard(c) == IF tie[c] \in Objects THEN tie[c] ELSE NoObject

\* handleEvent(): nothing is called if the channel's tie has expired.
HandleEvent(c) ==
  /\ phase = "dispatch"
  /\ current = NoChannel
  /\ c \in pending
  /\ pending' = pending \ {c}
  /\ IF tie[c] = Expired
       THEN UNCHANGED eventVars
       ELSE /\ current' = c
            /\ handling' = handling \cup {c}
            /\ \E pollin \in {FALSE, "in" \in reported[c]} :
                 todo' = Callbacks(reported[c], pollin)
            /\ guard' = Guard(c)
            /\ tiedTo' = IF tie[c] \in Objects THEN tie[c] ELSE NoObject
  /\ UNCHANGED <<pollerVars, channelVars, phase, inCallback, aborted>>

BeginCallback ==
  /\ current # NoChannel
  /\ ~inCallback
  /\ todo # <<>>
  /\ todo' = Tail(todo)
  /\ inCallback' = TRUE
  /\ UNCHANGED <<pollerVars, channelVars, handling, phase, pending, current, guard,
                 tiedTo, aborted>>

EndCallback ==
  /\ inCallback
  /\ inCallback' = FALSE
  /\ UNCHANGED <<pollerVars, channelVars, eventVars, phase, pending, aborted>>

\* eventHandling_ is cleared; then handleEvent() returns and lets go of what it
\* kept, which may be the last reference.
EndEvent ==
  /\ current # NoChannel
  /\ ~inCallback
  /\ todo = <<>>
  /\ handling' = handling \ {current}
  /\ current' = NoChannel
  /\ guard' = NoObject
  /\ tiedTo' = NoObject
  /\ IF guard \in existing \ held
       THEN Expire(guard, handling')
       ELSE UNCHANGED <<alive, tie, existing, aborted>>
  /\ UNCHANGED <<pollerVars, addedToLoop, held, phase, pending, todo, inCallback>>

\* doPendingFunctors() starts, and ends.
EndDispatch ==
  /\ phase = "dispatch"
  /\ pending = {}
  /\ current = NoChannel
  /\ phase' = "functors"
  /\ UNCHANGED <<pollerVars, channelVars, eventVars, pending, inCallback, aborted>>

EndFunctors ==
  /\ phase = "functors"
  /\ phase' = "poll"
  /\ UNCHANGED <<pollerVars, channelVars, eventVars, pending, inCallback, aborted>>

Next ==
  /\ ~aborted
  /\ \/ UserStep
     \/ OtherThread
     \/ Poll
     \/ \E c \in Channels : HandleEvent(c)
     \/ BeginCallback
     \/ EndCallback
     \/ EndEvent
     \/ EndDispatch
     \/ EndFunctors

Spec == Init /\ [][Next]_vars

-----------------------------------------------------------------------------
(* Properties. *)

\* Whatever the callbacks do to the channels, the assertions stop the program
\* before the loop or the poller holds a pointer to a channel that is gone: the
\* poller's channels, those still to be handled, and the current one exist.
NoDanglingPointer ==
  ~aborted => /\ members \subseteq alive
              /\ pending \subseteq alive
              /\ current # NoChannel => current \in alive

\* A channel that was reported is still in the poller when its turn comes: no
\* callback of another channel can have removed it.
PendingStayInPoller == ~aborted => pending \subseteq members

\* Channel.h: a tie prevents the object being destroyed in handleEvent().  What a
\* channel was tied to when its event came exists until all its callbacks have
\* returned, and so does the channel that is a member of it: even if they or
\* another thread drop the last reference, or tie the channel to another object.
TieProtectsOwner ==
  current # NoChannel /\ tiedTo # NoObject =>
    /\ tiedTo \in existing
    /\ current \in MembersOf(tiedTo) => current \in alive

=============================================================================
