----------------------------- MODULE EPollPoller ----------------------------
(***************************************************************************)
(* muduo::net::EPollPoller: the Poller on epoll(4).  The kernel holds the  *)
(* interest list, with pointers to the channels; index_ tells whether a    *)
(* channel is on it.  One call of epoll_wait() reports no more channels    *)
(* than events_ has room for.                                              *)
(*                                                                         *)
(* A descriptor that is closed leaves the list by itself.  A client may     *)
(* close one before it removes the channel, and then only disables it.      *)
(* An assertion that fails and an epoll_ctl() that is refused, but for one  *)
(* that deletes, abort the program.                                         *)
(***************************************************************************)
EXTENDS Integers, FiniteSets

CONSTANTS
  Channels,           \* Channel objects
  Fd,                 \* the file descriptor of each; some share one, over time
  Events,             \* events that a channel can ask for
  Unasked,            \* events that the kernel reports, asked or not
  InitEventListSize   \* kInitEventListSize

ASSUME EPollPollerAssumption ==
  /\ Fd \in [Channels -> Nat]
  /\ InitEventListSize \in Nat \ {0}

VARIABLES
  events,      \* Channel::events_
  index,       \* Channel::index_
  channels,    \* channels_, from descriptors to channels
  epoll,       \* the kernel's interest list, from descriptors to events and
               \* the pointer to the channel
  open,        \* the descriptors that are open
  ready,       \* the descriptors on which something has happened
  listSize,    \* events_.size()
  reported,    \* the activeChannels of the last poll, with their revents_
  aborted      \* an assertion has failed, or LOG_SYSFATAL was reached

vars == <<events, index, channels, epoll, open, ready, listSize, reported, aborted>>

None == [c \in {} |-> {}]
Fds == {Fd[c] : c \in Channels}

kNew == -1
kAdded == 1
kDeleted == 2

IsMember(c) == Fd[c] \in DOMAIN channels /\ channels[Fd[c]] = c

Init ==
  /\ events = [c \in Channels |-> {}]
  /\ index = [c \in Channels |-> kNew]
  /\ channels = None
  /\ epoll = None
  /\ open = Fds
  /\ ready = {}
  /\ listSize = InitEventListSize
  /\ reported = None
  /\ aborted = FALSE

Abort ==
  /\ aborted' = TRUE
  /\ UNCHANGED <<events, index, channels, epoll, open, ready, listSize, reported>>

-----------------------------------------------------------------------------
(* epoll_ctl(). *)

Item(c, new) == [events |-> new, channel |-> c]

\* EPOLL_CTL_ADD fails for a descriptor that is there or closed, EPOLL_CTL_MOD
\* for one that is not there (Accepted below), and EPOLL_CTL_DEL, which update()
\* then only logs, does nothing.
CtlAdd(c, new) ==
  epoll' = [fd \in DOMAIN epoll \cup {Fd[c]} |->
              IF fd = Fd[c] THEN Item(c, new) ELSE epoll[fd]]
CtlMod(c, new) == epoll' = [epoll EXCEPT ![Fd[c]] = Item(c, new)]
CtlDel(c) == epoll' = [fd \in DOMAIN epoll \ {Fd[c]} |-> epoll[fd]]

-----------------------------------------------------------------------------
(* updateChannel(). *)

\* enableReading(), disableReading(), ... and disableAll() of Channel.
Changes(old) ==
  {old \cup {e} : e \in Events} \cup {old \ {e} : e \in Events} \cup {{}}

\* The channel is on the kernel's list.
OnList(c) == index[c] = kAdded

UpdateAsserts(c) ==
  IF index[c] = kNew THEN Fd[c] \notin DOMAIN channels ELSE IsMember(c)

\* A channel that is not on the list is added to it, even if it asks for
\* nothing: a second disableAll() of it puts it back.
AddChannel(c, new) ==
  /\ ~OnList(c)
  /\ channels' = [fd \in DOMAIN channels \cup {Fd[c]} |->
                     IF fd = Fd[c] THEN c ELSE channels[fd]]
  /\ index' = [index EXCEPT ![c] = kAdded]
  /\ CtlAdd(c, new)

\* Mutant: the channel stays on the kernel's list.
DisableOnlyMarks(c, new) ==
  /\ OnList(c)
  /\ new = {}
  /\ UNCHANGED epoll
  /\ index' = [index EXCEPT ![c] = kDeleted]
  /\ UNCHANGED channels

DisableChannel(c, new) ==
  /\ OnList(c)
  /\ new = {}
  /\ CtlDel(c)
  /\ index' = [index EXCEPT ![c] = kDeleted]
  /\ UNCHANGED channels

ModifyChannel(c, new) ==
  /\ OnList(c)
  /\ new # {}
  /\ CtlMod(c, new)
  /\ UNCHANGED <<index, channels>>

\* The kernel accepts what updateChannel() asks of it.
Accepted(c, new) ==
  IF OnList(c) THEN new # {} => Fd[c] \in DOMAIN epoll
               ELSE Fd[c] \in open \ DOMAIN epoll

UpdateChannel(c, new) ==
  IF UpdateAsserts(c) /\ Accepted(c, new)
    THEN /\ events' = [events EXCEPT ![c] = new]
         /\ AddChannel(c, new) \/ DisableChannel(c, new) \/ ModifyChannel(c, new)
         /\ UNCHANGED <<open, ready, listSize, reported, aborted>>
    ELSE Abort

-----------------------------------------------------------------------------
(* removeChannel(). *)

RemoveAsserts(c) == IsMember(c) /\ events[c] = {} /\ index[c] \in {kAdded, kDeleted}

\* Mutant: index_ is left as it is, as PollPoller does.
IndexKept(c) == index

\* set_index(kNew): the channel may come back.
IndexReset(c) == [index EXCEPT ![c] = kNew]

\* Mutant: the kernel is not told.
LeftOnList(c) == UNCHANGED epoll

\* The kernel is told if the channel is still on its list: it asked for nothing
\* from the start, or was disabled twice.
TakenOffList(c) == IF OnList(c) THEN CtlDel(c) ELSE UNCHANGED epoll

RemoveChannel(c) ==
  IF RemoveAsserts(c)
    THEN /\ channels' = [fd \in DOMAIN channels \ {Fd[c]} |-> channels[fd]]
         /\ TakenOffList(c)
         /\ index' = IndexReset(c)
         /\ UNCHANGED <<events, open, ready, listSize, reported, aborted>>
    ELSE Abort

-----------------------------------------------------------------------------
(* poll(). *)

\* Mutant: events_ never grows.
SameSize(n) == listSize

\* events_.resize(): twice the size when every place was used.
NextSize(n) == IF n > 0 /\ n = listSize THEN listSize * 2 ELSE listSize

Triggered == ready \cap DOMAIN epoll
Smaller(m, n) == IF m < n THEN m ELSE n

\* epoll_wait() reports as many descriptors as fit, and chooses which.
Waited ==
  {fds \in SUBSET Triggered : Cardinality(fds) = Smaller(listSize, Cardinality(Triggered))}

\* The assertions of fillActiveChannels().
FillAsserts(fds) ==
  \A fd \in fds : LET c == epoll[fd].channel
                  IN  Fd[c] \in DOMAIN channels /\ channels[Fd[c]] = c

\* fillActiveChannels(): the channels that the kernel points to, with any of
\* the events that they asked for.
Fill(fds) ==
  /\ reported' \in [{epoll[fd].channel : fd \in fds} -> (SUBSET (Events \cup Unasked)) \ {{}}]
  /\ \A fd \in fds : reported'[epoll[fd].channel] \subseteq epoll[fd].events \cup Unasked

Poll ==
  \E fds \in Waited :
    IF FillAsserts(fds)
      THEN /\ Fill(fds)
           /\ listSize' = NextSize(Cardinality(fds))
           /\ UNCHANGED <<events, index, channels, epoll, open, ready, aborted>>
      ELSE Abort

\* epoll_wait() fails, for a signal: nothing is reported.
PollFails ==
  /\ reported' = None
  /\ UNCHANGED <<events, index, channels, epoll, open, ready, listSize, aborted>>

-----------------------------------------------------------------------------
\* A channel is updated by its client, one channel of a descriptor at a time.
\* It may come back after it was removed.  With its descriptor closed it is only
\* disabled, if it was not.
Update(c, new) ==
  /\ new \in Changes(events[c])
  /\ Fd[c] \in open \/ (new = {} /\ events[c] # {})
  /\ IsMember(c) \/ Fd[c] \notin DOMAIN channels
  /\ UpdateChannel(c, new)

\* A channel is removed by its client, which Channel::remove() asserts to be
\* disabled.
Drop(c) ==
  /\ IsMember(c)
  /\ events[c] = {}
  /\ RemoveChannel(c)

\* A client closes its descriptor before it removes the channel or after, but
\* the number is given out again only after.
Close(fd) ==
  /\ open' = open \ {fd}
  /\ epoll' = [f \in DOMAIN epoll \ {fd} |-> epoll[f]]
  /\ UNCHANGED <<events, index, channels, ready, listSize, reported, aborted>>

Open(fd) ==
  /\ fd \notin DOMAIN channels
  /\ open' = open \cup {fd}
  /\ UNCHANGED <<events, index, channels, epoll, ready, listSize, reported, aborted>>

\* Things happen on the descriptors, and are dealt with.
Happen(fds) ==
  /\ fds # ready
  /\ ready' = fds
  /\ UNCHANGED <<events, index, channels, epoll, open, listSize, reported, aborted>>

Next ==
  /\ ~aborted
  /\ \/ \E c \in Channels, new \in SUBSET Events : Update(c, new)
     \/ \E c \in Channels : Drop(c)
     \/ \E fd \in Fds : Close(fd) \/ Open(fd)
     \/ \E fds \in SUBSET Fds : Happen(fds)
     \/ Poll
     \/ PollFails

Spec == Init /\ [][Next]_vars

\* The loop polls again and again, and is not interrupted every time.  Nothing
\* is assumed of the choice that the kernel makes among the descriptors that
\* are ready.
FairSpec == Spec /\ WF_vars(~aborted /\ Poll)

-----------------------------------------------------------------------------
(* Properties. *)

\* No assertion fails, and the kernel refuses nothing that aborts, although a
\* descriptor may be closed while its channel is still in the poller.
AssertionsHold == ~aborted

\* The kernel's list holds just the channels whose index_ says so and whose
\* descriptor is open, with the events they asked for: no pointer in it outlives
\* the channel's membership, and a channel of a number that was given out again
\* is not taken for one that is on the list.
KernelAgrees ==
  \A fd \in Fds :
    /\ fd \in DOMAIN epoll =>
         /\ fd \in DOMAIN channels
         /\ epoll[fd] = [events |-> events[channels[fd]], channel |-> channels[fd]]
    /\ \A c \in Channels :
         Fd[c] = fd => (index[c] = kAdded /\ fd \in open
                          <=> fd \in DOMAIN epoll /\ epoll[fd].channel = c)

\* The channels in the poller, and the events that the kernel watches of some.
Members == {channels[fd] : fd \in DOMAIN channels}
Watched == [c \in {epoll[fd].channel : fd \in DOMAIN epoll} |-> epoll[Fd[c]].events]

Contract == INSTANCE Poller WITH members <- Members, watched <- Watched

\* The kernel's list and index_ keep the promises of Poller: what a channel
\* asked for is what is watched and reported of it.
ImplementsPoller == Contract!Spec

\* However many descriptors are ready at once and whichever of them the kernel
\* prefers, one that stays ready is reported again and again: events_ grows
\* until all of them fit.
NoStarvation ==
  \A fd \in Fds :
    <>[](fd \in Triggered) => []<>(\E c \in DOMAIN reported : Fd[c] = fd)

=============================================================================
