---------------------------- MODULE ReactorProofs ----------------------------
(***************************************************************************)
(* Proofs about Reactor for any channels, descriptors and events: the loop *)
(* and the poller never hold a pointer to a channel that is gone, and what *)
(* the current channel was tied to when its event came outlives the event. *)
(***************************************************************************)
EXTENDS Reactor, TLAPS

-----------------------------------------------------------------------------
(* The inductive invariant: a part that an assertion's failure ends, and a *)
(* part about what handleEvent() keeps that holds even then.               *)

\* addedToLoop_ says whether the poller has the channel, and only channels that
\* exist are there: ~Channel() asserts both.
MembersExist ==
  /\ members = addedToLoop
  /\ members \subseteq alive
  /\ alive \subseteq Channels
  /\ DOMAIN watched \subseteq members

\* A tie that has not expired is to an object that exists.
TiesExist ==
  /\ tie \in [Channels -> Objects \cup {Untied, Expired}]
  /\ \A c \in Channels : tie[c] \in Objects => tie[c] \in existing

\* eventHandling_ is set for the current channel alone, which exists.
CurrentIsHandled ==
  /\ handling = IF current = NoChannel THEN {} ELSE {current}
  /\ current # NoChannel => phase = "dispatch" /\ current \in alive \ pending
  /\ inCallback => current # NoChannel

\* What is still to be handled was reported in this iteration, and no callback
\* could remove it since: removeChannel() asserts that it was not reported.
PendingWasReported ==
  /\ phase # "dispatch" => pending = {}
  /\ phase = "dispatch" => pending \subseteq DOMAIN reported
  /\ pending \subseteq members

Intact ==
  ~aborted => MembersExist /\ TiesExist /\ CurrentIsHandled /\ PendingWasReported

\* handleEvent() keeps what its channel was tied to, which exists, and nothing
\* when it handles no channel.
GuardKeeps ==
  /\ held \subseteq existing
  /\ existing \subseteq Objects
  /\ guard = tiedTo
  /\ guard # NoObject => current # NoChannel /\ guard \in existing

\* A channel that is a member of what is kept is not destroyed.
MemberKept ==
  current # NoChannel /\ guard # NoObject /\ current \in MembersOf(guard) =>
    current \in alive

Inv == Intact /\ GuardKeeps /\ MemberKept

-----------------------------------------------------------------------------
\* Before the first iteration there is no channel.
LEMMA InitInv == Init => Inv
  BY ReactorAssumption
     DEF Init, Inv, Intact, GuardKeeps, MemberKept, MembersExist, TiesExist,
         CurrentIsHandled, PendingWasReported, P!Init, P!None

\* The last reference to an object goes, one that handleEvent() does not hold.
LEMMA ReleaseInv ==
  ASSUME NEW o \in Objects, Inv, ~aborted, Release(o)
  PROVE  Inv'
<1> USE ReactorAssumption
<1> USE DEF Inv, Intact, GuardKeeps, MemberKept, MembersExist, TiesExist, CurrentIsHandled,
            PendingWasReported, pollerVars, dispatchVars, eventVars, MembersOf
<1>1. /\ o \in held
      /\ held' = held \ {o}
      /\ UNCHANGED <<pollerVars, addedToLoop, dispatchVars>>
  BY DEF Release
<1>2. CASE o = guard
  <2>1. UNCHANGED <<alive, tie, existing, aborted>>
    BY <1>2 DEF Release
  <2> QED
    BY <1>1, <1>2, <2>1
<1>3. CASE o # guard
  <2>1. Expire(o, handling)
    BY <1>3 DEF Release
  <2>2. existing' = existing \ {o}
    BY <2>1 DEF Expire
  <2>3. GuardKeeps'
    BY <1>1, <1>3, <2>2
  <2>4. alive' = alive \/ alive' = alive \ MembersOf(o)
    BY <2>1 DEF Expire
  <2>5. MemberKept'
    BY <1>1, <1>3, <2>4
  <2>6. CASE aborted'
    BY <2>3, <2>5, <2>6
  <2>7. CASE ~aborted'
    <3>1. /\ \A c \in MembersOf(o) : DestroyAsserts(c, handling)
          /\ alive' = alive \ MembersOf(o)
          /\ tie' = [c \in Channels |-> IF c \in MembersOf(o) THEN Untied
                                       ELSE IF tie[c] = o THEN Expired
                                       ELSE tie[c]]
      BY <2>1, <2>7 DEF Expire
    <3>2. TiesExist'
      BY <2>2, <3>1
    <3>3. MembersOf(o) \cap (handling \cup members) = {}
      BY <3>1 DEF DestroyAsserts
    <3>4. MembersExist' /\ CurrentIsHandled' /\ PendingWasReported'
      BY <1>1, <3>1, <3>3
    <3> QED
      BY <2>3, <2>5, <3>2, <3>4
  <2> QED
    BY <2>6, <2>7
<1> QED
  BY <1>2, <1>3

\* The callbacks and functors of the program keep the invariant, or an assertion
\* ends the program.
LEMMA UserStepInv == Inv /\ ~aborted /\ UserStep => Inv'
<1> SUFFICES ASSUME Inv, ~aborted, UserStep PROVE Inv'
  OBVIOUS
<1>1. \/ \E c \in Channels :
           \/ Construct(c)
           \/ \E new \in SUBSET Events : Update(c, new)
           \/ Remove(c)
           \/ Destroy(c)
      \/ \E o \in Objects : Make(o) \/ Share(o) \/ Release(o)
      \/ \E t \in Ties : Tie(t[1], t[2])
  BY DEF UserStep
<1> USE DEF Inv, Intact, GuardKeeps, MemberKept, MembersExist, TiesExist, CurrentIsHandled,
            PendingWasReported, pollerVars, channelVars, dispatchVars, eventVars
<1>2. ASSUME NEW c \in Channels, Construct(c)
      PROVE  Inv'
  BY <1>2 DEF Construct
<1>3. ASSUME NEW c \in Channels, NEW new \in SUBSET Events, Update(c, new)
      PROVE  Inv'
  <2>1. members' = members \cup {c} /\ addedToLoop' = addedToLoop \cup {c}
    BY <1>3 DEF Update, P!UpdateChannel
  <2>2. DOMAIN watched' \subseteq DOMAIN watched \cup {c}
    BY <1>3 DEF Update, P!UpdateChannel, P!Watch, P!Ignore
  <2>3. c \in alive /\ reported' = reported
    BY <1>3 DEF Update, P!UpdateChannel
  <2>4. UNCHANGED <<alive, tie, existing, held, dispatchVars, aborted>>
    BY <1>3 DEF Update
  <2> QED
    BY <2>1, <2>2, <2>3, <2>4
<1>4. ASSUME NEW c \in Channels, Remove(c)
      PROVE  Inv'
  <2>1. CASE ~RemoveAssert(c)
    BY <1>4, <2>1 DEF Remove, Abort
  <2>2. CASE RemoveAssert(c)
    <3>1. members' = members \ {c} /\ addedToLoop' = addedToLoop \ {c}
      BY <1>4, <2>2 DEF Remove, P!RemoveChannel
    <3>2. DOMAIN watched' = DOMAIN watched \ {c} /\ reported' = reported
      BY <1>4, <2>2 DEF Remove, P!RemoveChannel, P!Ignore
    <3>3. c \notin pending
      BY <1>4, <2>2, ReactorAssumption DEF Remove, RemoveAssert
    <3>4. UNCHANGED <<alive, tie, existing, held, dispatchVars, aborted>>
      BY <1>4, <2>2 DEF Remove
    <3> QED
      BY <3>1, <3>2, <3>3, <3>4
  <2> QED
    BY <2>1, <2>2
<1>5. ASSUME NEW c \in Channels, Destroy(c)
      PROVE  Inv'
  <2>1. c \in alive \ DOMAIN Owner
    BY <1>5 DEF Destroy
  <2>2. CASE ~DestroyAsserts(c, handling)
    BY <1>5, <2>2 DEF Destroy, Abort
  <2>3. CASE DestroyAsserts(c, handling)
    <3>1. /\ alive' = alive \ {c}
          /\ tie' = [tie EXCEPT ![c] = Untied]
          /\ UNCHANGED <<pollerVars, addedToLoop, existing, held, dispatchVars, aborted>>
      BY <1>5, <2>3 DEF Destroy
    <3>2. c \notin handling \cup members
      BY <2>3 DEF DestroyAsserts
    <3>3. TiesExist'
      BY <3>1, ReactorAssumption
    <3> QED
      BY <2>1, <3>1, <3>2, <3>3 DEF MembersOf
  <2> QED
    BY <2>2, <2>3
<1>6. ASSUME NEW o \in Objects, Make(o)
      PROVE  Inv'
  <2>1. MembersOf(o) \subseteq Channels
    BY ReactorAssumption DEF MembersOf
  <2> QED
    BY <1>6, <2>1, ReactorAssumption DEF Make
<1>7. ASSUME NEW o \in Objects, Share(o)
      PROVE  Inv'
  BY <1>7 DEF Share
<1>8. ASSUME NEW t \in Ties, Tie(t[1], t[2])
      PROVE  Inv'
  <2>1. t[1] \in Channels /\ t[2] \in Objects
    BY ReactorAssumption
  <2>2. /\ t[2] \in existing
        /\ tie' = [tie EXCEPT ![t[1]] = t[2]]
        /\ UNCHANGED <<pollerVars, alive, addedToLoop, existing, held, dispatchVars, aborted>>
    BY <1>8 DEF Tie
  <2>3. TiesExist'
    BY <2>1, <2>2
  <2> QED
    BY <2>2, <2>3
<1> QED
  BY <1>1, <1>2, <1>3, <1>4, <1>5, <1>6, <1>7, <1>8, ReleaseInv

\* handleEvent() takes a channel up: what it keeps exists, and so does the channel.
LEMMA HandleEventInv ==
  ASSUME NEW c \in Channels, Inv, ~aborted, HandleEvent(c)
  PROVE  Inv'
<1> USE ReactorAssumption
<1> USE DEF Inv, Intact, GuardKeeps, MemberKept, MembersExist, TiesExist, CurrentIsHandled,
            PendingWasReported, pollerVars, channelVars, eventVars
<1>1. CASE tie[c] = Expired
  BY <1>1 DEF HandleEvent
<1>2. CASE tie[c] # Expired
  <2>1. /\ current' = c
        /\ guard' = Guard(c)
        /\ tiedTo' = Guard(c)
        /\ handling' = handling \cup {c}
    BY <1>2 DEF HandleEvent, Guard
  <2>2. Guard(c) # NoObject => Guard(c) \in existing
    BY DEF Guard
  <2> QED
    BY <1>2, <2>1, <2>2 DEF HandleEvent
<1> QED
  BY <1>1, <1>2

\* handleEvent() returns: what it kept may go with its last reference.
LEMMA EndEventInv ==
  ASSUME Inv, ~aborted, EndEvent
  PROVE  Inv'
<1> USE ReactorAssumption
<1> USE DEF Inv, Intact, GuardKeeps, MemberKept, MembersExist, TiesExist, CurrentIsHandled,
            PendingWasReported, pollerVars
<1>1. /\ handling' = {} /\ current' = NoChannel
      /\ guard' = NoObject /\ tiedTo' = NoObject
      /\ UNCHANGED <<pollerVars, addedToLoop, held, phase, pending, todo, inCallback>>
      /\ ~inCallback
  BY DEF EndEvent
<1>2. CASE guard \notin existing \ held
  <2>1. UNCHANGED <<alive, tie, existing, aborted>>
    BY <1>2 DEF EndEvent
  <2> QED
    BY <1>1, <2>1
<1>3. CASE guard \in existing \ held
  <2>1. Expire(guard, handling')
    BY <1>3 DEF EndEvent
  <2>2. existing' = existing \ {guard}
    BY <2>1 DEF Expire
  <2>3. GuardKeeps' /\ MemberKept'
    BY <1>1, <1>3, <2>2
  <2>4. CASE aborted'
    BY <2>3, <2>4
  <2>5. CASE ~aborted'
    <3>1. /\ \A c \in MembersOf(guard) : DestroyAsserts(c, handling')
          /\ alive' = alive \ MembersOf(guard)
          /\ tie' = [c \in Channels |-> IF c \in MembersOf(guard) THEN Untied
                                       ELSE IF tie[c] = guard THEN Expired
                                       ELSE tie[c]]
      BY <2>1, <2>5 DEF Expire
    <3>2. TiesExist'
      BY <2>2, <3>1
    <3>3. MembersOf(guard) \cap members = {}
      BY <3>1 DEF DestroyAsserts
    <3>4. MembersExist' /\ CurrentIsHandled' /\ PendingWasReported'
      BY <1>1, <3>1, <3>3
    <3> QED
      BY <2>3, <3>2, <3>4
  <2> QED
    BY <2>4, <2>5
<1> QED
  BY <1>2, <1>3

\* So do the steps of loop().
LEMMA InvStep == Inv /\ [Next]_vars => Inv'
<1> SUFFICES ASSUME Inv, [Next]_vars PROVE Inv'
  OBVIOUS
<1> USE ReactorAssumption
<1> USE DEF Inv, Intact, GuardKeeps, MemberKept, MembersExist, TiesExist, CurrentIsHandled,
            PendingWasReported, pollerVars, channelVars, dispatchVars, eventVars
<1>1. CASE UNCHANGED vars
  BY <1>1 DEF vars
<1>2. CASE ~aborted /\ UserStep
  BY <1>2, UserStepInv
<1>3. CASE ~aborted /\ Poll
  <2>1. DOMAIN reported' \subseteq DOMAIN watched
    BY <1>3 DEF Poll, P!Poll
  <2>2. UNCHANGED <<members, watched>>
    BY <1>3 DEF Poll, P!Poll
  <2> QED
    BY <1>3, <2>1, <2>2 DEF Poll
<1>4. CASE ~aborted /\ OtherThread
  BY <1>4, ReleaseInv DEF OtherThread
<1>5. CASE ~aborted /\ BeginCallback
  BY <1>5 DEF BeginCallback
<1>6. CASE ~aborted /\ EndCallback
  BY <1>6 DEF EndCallback
<1>7. CASE ~aborted /\ EndEvent
  BY <1>7, EndEventInv
<1>8. CASE ~aborted /\ EndDispatch
  BY <1>8 DEF EndDispatch
<1>9. CASE ~aborted /\ EndFunctors
  BY <1>9 DEF EndFunctors
<1> QED
  BY <1>1, <1>2, <1>3, <1>4, <1>5, <1>6, <1>7, <1>8, <1>9, HandleEventInv DEF Next

\* The invariant holds in every reachable state.
LEMMA Invariant == Spec => []Inv
  BY InitInv, InvStep, PTL DEF Spec

-----------------------------------------------------------------------------
(* Theorems. *)

\* Whatever the callbacks and functors do, neither the poller nor the loop holds
\* a pointer to a channel that was destroyed, unless an assertion has failed.
THEOREM NothingDangles == Spec => []NoDanglingPointer
<1>1. Inv => NoDanglingPointer
  BY DEF Inv, Intact, MembersExist, CurrentIsHandled, PendingWasReported, NoDanglingPointer
<1> QED
  BY <1>1, Invariant, PTL

\* No callback of another channel removes one that is still to be handled.
THEOREM PendingAreMembers == Spec => []PendingStayInPoller
<1>1. Inv => PendingStayInPoller
  BY DEF Inv, Intact, PendingWasReported, PendingStayInPoller
<1> QED
  BY <1>1, Invariant, PTL

\* What a channel was tied to when its event came outlives its callbacks, whatever
\* they and the other threads release and tie.
THEOREM TiesProtect == Spec => []TieProtectsOwner
<1>1. Inv => TieProtectsOwner
  BY DEF Inv, GuardKeeps, MemberKept, TieProtectsOwner
<1> QED
  BY <1>1, Invariant, PTL

=============================================================================
