------------------------------- MODULE Poller -------------------------------
(***************************************************************************)
(* What muduo::net::Poller promises to the loop and to its channels,       *)
(* whichever system call is behind it: PollPoller and EPollPoller          *)
(* implement this, and Reactor is built on it.                             *)
(***************************************************************************)
EXTENDS FiniteSets

CONSTANTS
  Channels,    \* Channel objects
  Fd,          \* the file descriptor of each; some share one, over time
  Events,      \* events that a channel can ask for
  Unasked      \* events that the system reports of a descriptor, asked or not

VARIABLES
  events,      \* Channel::events_, what each channel asks for
  members,     \* the channels in the poller
  watched,     \* the events that the system watches, of some of the members
  reported     \* the activeChannels of the last poll, with their revents_

pollerVars == <<events, members, watched, reported>>

Revents(asked) == (SUBSET (asked \cup Unasked)) \ {{}}

None == [c \in {} |-> {}]
Ignore(c) == [d \in DOMAIN watched \ {c} |-> watched[d]]
Watch(c, asked) ==
  [d \in DOMAIN watched \cup {c} |-> IF d = c THEN asked ELSE watched[d]]

Init ==
  /\ events = [c \in Channels |-> {}]
  /\ members = {}
  /\ watched = None
  /\ reported = None

\* A channel that asks for nothing is not watched, or watched for nothing.
UpdateChannel(c, new) ==
  /\ \A d \in members \ {c} : Fd[d] # Fd[c]
  /\ events' = [events EXCEPT ![c] = new]
  /\ members' = members \cup {c}
  /\ \/ watched' = Watch(c, new)
     \/ new = {} /\ watched' = Ignore(c)
  /\ UNCHANGED reported

\* Only a channel that asks for nothing is removed.
RemoveChannel(c) ==
  /\ c \in members
  /\ events[c] = {}
  /\ members' = members \ {c}
  /\ watched' = Ignore(c)
  /\ UNCHANGED <<events, reported>>

\* Only channels that are watched are reported, each with its own events.
Poll ==
  /\ \E active \in SUBSET DOMAIN watched :
       /\ reported' \in [active -> SUBSET (Events \cup Unasked)]
       /\ \A c \in active : reported'[c] \in Revents(watched[c])
  /\ UNCHANGED <<events, members, watched>>

\* The system may stop to watch a channel: its descriptor was closed.
Lose(c) ==
  /\ watched' = Ignore(c)
  /\ UNCHANGED <<events, members, reported>>

Next ==
  \/ \E c \in Channels, new \in SUBSET Events : UpdateChannel(c, new)
  \/ \E c \in Channels : RemoveChannel(c)
  \/ \E c \in DOMAIN watched : Lose(c)
  \/ Poll

Spec == Init /\ [][Next]_pollerVars

=============================================================================
