----------------------------- MODULE PollPoller -----------------------------
(***************************************************************************)
(* muduo::net::PollPoller: the Poller on poll(2).  pollfds_ is an array in *)
(* no order; every channel knows its place in it, and a removed entry is   *)
(* replaced by the last one.  A channel that asks for nothing stays in the *)
(* array, under a negative descriptor that poll() ignores.                 *)
(*                                                                         *)
(* Indices are those of the code, from 0.  An assertion that fails aborts  *)
(* the program.  The channels call updateChannel() by way of Channel's     *)
(* enableReading() and the like, and are removed when they are destroyed.  *)
(***************************************************************************)
EXTENDS Integers, SequencesExt

CONSTANTS
  Channels,    \* Channel objects
  Fd,          \* the file descriptor of each; some share one, over time
  Events,      \* events that a channel can ask for
  Unasked,     \* events that poll() reports of a descriptor, asked or not
  DisablesNew,    \* whether clients disable a channel that is not in the poller
  EnablesRemoved  \* whether clients enable a channel that was removed

ASSUME PollPollerAssumption ==
  /\ Fd \in [Channels -> Nat]
  /\ DisablesNew \in BOOLEAN
  /\ EnablesRemoved \in BOOLEAN

VARIABLES
  events,      \* Channel::events_
  index,       \* Channel::index_
  channels,    \* channels_, from descriptors to channels
  pollfds,     \* pollfds_
  reported,    \* the activeChannels of the last poll, with their revents_
  aborted      \* an assertion has failed

vars == <<events, index, channels, pollfds, reported, aborted>>

None == [c \in {} |-> {}]
kNew == -1

\* The descriptor of an entry that poll() ignores, and back.
Negated(fd) == -fd - 1

IsMember(c) == Fd[c] \in DOMAIN channels /\ channels[Fd[c]] = c

InRange(i) == 0 <= i /\ i < Len(pollfds)
At(i) == pollfds[i + 1]

Init ==
  /\ events = [c \in Channels |-> {}]
  /\ index = [c \in Channels |-> kNew]
  /\ channels = None
  /\ pollfds = <<>>
  /\ reported = None
  /\ aborted = FALSE

Abort ==
  /\ aborted' = TRUE
  /\ UNCHANGED <<events, index, channels, pollfds, reported>>

-----------------------------------------------------------------------------
(* Channel. *)

\* enableReading(), disableReading(), ... and disableAll().
Changes(old) ==
  {old \cup {e} : e \in Events} \cup {old \ {e} : e \in Events} \cup {{}}

-----------------------------------------------------------------------------
(* updateChannel(). *)

\* A new channel gets an entry at the end, watched even if it asks for nothing.
AddChannel(c, new) ==
  /\ pollfds' = Append(pollfds, [fd |-> Fd[c], events |-> new])
  /\ index' = [index EXCEPT ![c] = Len(pollfds)]
  /\ channels' = [fd \in DOMAIN channels \cup {Fd[c]} |->
                     IF fd = Fd[c] THEN c ELSE channels[fd]]

\* Mutant: an entry that was ignored is not watched again.
EntryStaysIgnored(c, new) ==
  [fd |-> IF new = {} \/ At(index[c]).fd < 0 THEN Negated(Fd[c]) ELSE Fd[c],
   events |-> new]

\* The entry of a channel that is there.
Entry(c, new) ==
  [fd |-> IF new = {} THEN Negated(Fd[c]) ELSE Fd[c], events |-> new]

ChangeChannel(c, new) ==
  /\ pollfds' = [pollfds EXCEPT ![index[c] + 1] = Entry(c, new)]
  /\ UNCHANGED <<index, channels>>

\* The assertions of updateChannel().
UpdateAsserts(c) ==
  IF index[c] < 0
    THEN Fd[c] \notin DOMAIN channels
    ELSE /\ IsMember(c)
         /\ InRange(index[c])
         /\ At(index[c]).fd \in {Fd[c], Negated(Fd[c])}

UpdateChannel(c, new) ==
  IF UpdateAsserts(c)
    THEN /\ events' = [events EXCEPT ![c] = new]
         /\ IF index[c] < 0 THEN AddChannel(c, new) ELSE ChangeChannel(c, new)
         /\ UNCHANGED <<reported, aborted>>
    ELSE Abort

-----------------------------------------------------------------------------
(* removeChannel(). *)

\* Mutant: the last entry is dropped in place of the removed one.
TakenOutAtEnd(i) == Front(pollfds)

\* iter_swap() with the last entry, then pop_back().
TakenOut(i) == Front([pollfds EXCEPT ![i + 1] = Last(pollfds)])

\* The descriptor of the last entry, negative or not.
FdAtEnd == IF Last(pollfds).fd < 0 THEN Negated(Last(pollfds).fd) ELSE Last(pollfds).fd

\* Mutant: the channel of the last entry keeps its index.
MovedForgotten(c) == index

\* The channel of the last entry is told its new place.
Moved(c) ==
  IF index[c] = Len(pollfds) - 1 THEN index
  ELSE [index EXCEPT ![channels[FdAtEnd]] = index[c]]

\* The assertions of removeChannel(), and the channel at the end is known.
RemoveAsserts(c) ==
  /\ IsMember(c)
  /\ events[c] = {}
  /\ InRange(index[c])
  /\ At(index[c]) = [fd |-> Negated(Fd[c]), events |-> {}]
  /\ index[c] # Len(pollfds) - 1 => FdAtEnd \in DOMAIN channels \ {Fd[c]}

\* The index of the removed channel is left as it is.
RemoveChannel(c) ==
  IF RemoveAsserts(c)
    THEN /\ channels' = [fd \in DOMAIN channels \ {Fd[c]} |-> channels[fd]]
         /\ index' = Moved(c)
         /\ pollfds' = TakenOut(index[c])
         /\ UNCHANGED <<events, reported, aborted>>
    ELSE Abort

-----------------------------------------------------------------------------
(* poll(). *)

\* What poll() may report: nothing of an ignored entry.
Reports ==
  {r \in [1..Len(pollfds) -> SUBSET (Events \cup Unasked)] :
     \A i \in 1..Len(pollfds) :
       r[i] \subseteq IF pollfds[i].fd < 0 THEN {} ELSE pollfds[i].events \cup Unasked}

\* The assertions of fillActiveChannels().
FillAsserts(r) ==
  \A i \in 1..Len(pollfds) :
    r[i] # {} => /\ pollfds[i].fd \in DOMAIN channels
                 /\ Fd[channels[pollfds[i].fd]] = pollfds[i].fd

\* fillActiveChannels(): the channels with events, found by descriptor.
ActiveChannels(r) ==
  LET active == {i \in 1..Len(pollfds) : r[i] # {}}
      entry(c) == CHOOSE i \in active : channels[pollfds[i].fd] = c
  IN  [c \in {channels[pollfds[i].fd] : i \in active} |-> r[entry(c)]]

\* An interrupted or failed poll() reports nothing.
Poll ==
  \E r \in Reports :
    IF FillAsserts(r)
      THEN /\ reported' = ActiveChannels(r)
           /\ UNCHANGED <<events, index, channels, pollfds, aborted>>
      ELSE Abort

-----------------------------------------------------------------------------
\* A channel is updated by its client, one channel of a descriptor at a time.
Update(c, new) ==
  /\ new \in Changes(events[c])
  /\ \/ IsMember(c)
     \/ (index[c] = kNew \/ EnablesRemoved) /\ Fd[c] \notin DOMAIN channels
  /\ IsMember(c) \/ new # {} \/ DisablesNew
  /\ UpdateChannel(c, new)

\* A channel is removed by its client, which Channel::remove() asserts to be
\* disabled.
Drop(c) ==
  /\ IsMember(c)
  /\ events[c] = {}
  /\ RemoveChannel(c)

\* A channel that was removed is destroyed, and another one is constructed.
Construct(c) ==
  /\ ~IsMember(c)
  /\ index[c] # kNew
  /\ index' = [index EXCEPT ![c] = kNew]
  /\ events' = [events EXCEPT ![c] = {}]
  /\ UNCHANGED <<channels, pollfds, reported, aborted>>

Next ==
  /\ ~aborted
  /\ \/ \E c \in Channels, new \in SUBSET Events : Update(c, new)
     \/ \E c \in Channels : Drop(c)
     \/ \E c \in Channels : Construct(c)
     \/ Poll

Spec == Init /\ [][Next]_vars

-----------------------------------------------------------------------------
(* Properties. *)

\* None of the assertions fails, after any updates, removals in any order, and
\* descriptors that are closed and given out again.
AssertionsHold == ~aborted

\* channels_, pollfds_ and the index_ of the channels describe the same set:
\* every entry belongs to one channel, which knows its place and whose events
\* the entry asks for.
IndexesAgree ==
  /\ Cardinality(DOMAIN channels) = Len(pollfds)
  /\ \A fd \in DOMAIN channels :
       LET c == channels[fd]
       IN  /\ Fd[c] = fd
           /\ InRange(index[c])
           /\ At(index[c]).fd \in {fd, Negated(fd)}
           /\ At(index[c]).events = events[c]

\* The channels in the poller, and the events that poll() watches, of those whose
\* entry has a descriptor.
Members == {channels[fd] : fd \in DOMAIN channels}
Watched ==
  LET seen == {i \in 1..Len(pollfds) : pollfds[i].fd >= 0}
      entry(c) == CHOOSE i \in seen : pollfds[i].fd = Fd[c]
  IN  [c \in {channels[pollfds[i].fd] : i \in seen} |-> pollfds[entry(c)].events]

Contract == INSTANCE Poller WITH members <- Members, watched <- Watched

\* The array, the swaps and the negative descriptors keep the promises of
\* Poller: what a channel asked for is what is watched and reported of it.
ImplementsPoller == Contract!Spec

=============================================================================
