-------------------------- MODULE EPollPollerProofs --------------------------
(***************************************************************************)
(* Proofs about EPollPoller for any channels, descriptors, events and size *)
(* of events_: no assertion fails and the kernel refuses nothing that      *)
(* aborts, its list agrees with index_ and events_, and the steps of the   *)
(* poller are steps of the contract.                                       *)
(***************************************************************************)
EXTENDS EPollPoller, TLAPS

-----------------------------------------------------------------------------
(* The inductive invariant. *)

\* The type of the state.
TypeInv ==
  /\ events \in [Channels -> SUBSET Events]
  /\ index \in [Channels -> {kNew, kAdded, kDeleted}]
  /\ channels \in [DOMAIN channels -> Channels]
  /\ epoll \in [DOMAIN epoll -> [events : SUBSET Events, channel : Channels]]
  /\ open \subseteq Fds
  /\ ready \subseteq Fds
  /\ listSize \in Nat \ {0}
  /\ aborted \in BOOLEAN

\* channels_ finds each channel under its own descriptor.
OwnDescriptor == \A fd \in DOMAIN channels : Fd[channels[fd]] = fd

\* index_ is kNew of just the channels that are not in the poller, and one that
\* is not kAdded asks for nothing.
IndexTells ==
  \A c \in Channels : /\ index[c] # kNew <=> IsMember(c)
                      /\ index[c] # kAdded => events[c] = {}

\* The kernel's list holds the channels that index_ says are on it, as far as
\* their descriptors are open.
ListAgrees ==
  /\ \A fd \in DOMAIN epoll :
       /\ fd \in DOMAIN channels
       /\ epoll[fd] = Item(channels[fd], events[channels[fd]])
  /\ \A c \in Channels :
       index[c] = kAdded /\ Fd[c] \in open
         <=> Fd[c] \in DOMAIN epoll /\ epoll[Fd[c]].channel = c

Inv ==
  /\ TypeInv
  /\ OwnDescriptor
  /\ IndexTells
  /\ ListAgrees
  /\ AssertionsHold

-----------------------------------------------------------------------------
\* A map stays as it is when a key is erased that it does not have.
LEMMA EraseAbsent ==
  ASSUME NEW f, f = [x \in DOMAIN f |-> f[x]], NEW a, a \notin DOMAIN f
  PROVE  f = [x \in DOMAIN f \ {a} |-> f[x]]
<1>1. DOMAIN f \ {a} = DOMAIN f
  OBVIOUS
<1> QED
  BY <1>1

\* The poller starts with no channel and an empty list.
LEMMA InitInv == Init => Inv
<1> SUFFICES ASSUME Init PROVE Inv
  OBVIOUS
<1>1. TypeInv
  BY EPollPollerAssumption DEF Init, TypeInv, None, kNew
<1>2. OwnDescriptor /\ ListAgrees /\ AssertionsHold
  BY DEF Init, OwnDescriptor, ListAgrees, AssertionsHold, None, kNew, kAdded
<1>3. IndexTells
  BY DEF Init, IndexTells, IsMember, None, kNew, kAdded
<1> QED
  BY <1>1, <1>2, <1>3 DEF Inv

\* No assertion of updateChannel() fails, and the kernel takes what it is asked.
LEMMA UpdateAccepted ==
  ASSUME Inv, NEW c \in Channels, NEW new \in SUBSET Events, Update(c, new)
  PROVE  UpdateAsserts(c) /\ Accepted(c, new)
<1> USE EPollPollerAssumption
        DEF Inv, TypeInv, OwnDescriptor, IndexTells, ListAgrees, IsMember
<1>1. UpdateAsserts(c)
  BY DEF Update, UpdateAsserts
<1>2. CASE OnList(c)
  BY <1>1, <1>2 DEF Update, Accepted, OnList
<1>3. CASE ~OnList(c)
  <2>1. Fd[c] \in open
    BY <1>3 DEF Update, OnList
  <2>2. Fd[c] \notin DOMAIN epoll
    BY <1>3 DEF Update, OnList, Item
  <2> QED
    BY <1>1, <1>3, <2>1, <2>2 DEF Accepted
<1> QED
  BY <1>1, <1>2, <1>3

\* A channel is updated.
LEMMA UpdateInv ==
  ASSUME Inv, NEW c \in Channels, NEW new \in SUBSET Events, Update(c, new)
  PROVE  Inv'
<1>1. /\ events' = [events EXCEPT ![c] = new]
      /\ AddChannel(c, new) \/ DisableChannel(c, new) \/ ModifyChannel(c, new)
      /\ UNCHANGED <<open, ready, listSize, reported, aborted>>
  BY UpdateAccepted DEF Update, UpdateChannel
<1>2. /\ UpdateAsserts(c)
      /\ Accepted(c, new)
  BY UpdateAccepted
<1> USE EPollPollerAssumption
        DEF Inv, TypeInv, OwnDescriptor, IndexTells, ListAgrees, IsMember, AssertionsHold,
            kNew, kAdded, kDeleted, OnList, Item
<1>3. CASE AddChannel(c, new)
  <2>1. TypeInv'
    BY <1>1, <1>3 DEF AddChannel, CtlAdd
  <2>2. OwnDescriptor'
    BY <1>1, <1>3 DEF AddChannel
  <2>3. \A d \in Channels \ {c} : IsMember(d) => Fd[d] # Fd[c]
    BY <1>2, <1>3 DEF AddChannel, UpdateAsserts
  <2>4. IndexTells'
    BY <1>1, <1>3, <2>3 DEF AddChannel
  <2>5. ListAgrees'
    BY <1>1, <1>2, <1>3, <2>3 DEF AddChannel, CtlAdd, Accepted
  <2> QED
    BY <1>1, <2>1, <2>2, <2>4, <2>5
<1>4. CASE DisableChannel(c, new)
  <2>1. TypeInv'
    BY <1>1, <1>4 DEF DisableChannel, CtlDel
  <2>2. OwnDescriptor'
    BY <1>1, <1>4 DEF DisableChannel
  <2>3. IndexTells'
    BY <1>1, <1>4 DEF DisableChannel
  <2>4. ListAgrees'
    BY <1>1, <1>4 DEF DisableChannel, CtlDel
  <2> QED
    BY <1>1, <2>1, <2>2, <2>3, <2>4
<1>5. CASE ModifyChannel(c, new)
  <2>1. TypeInv'
    <3>1. /\ DOMAIN epoll' = DOMAIN epoll
          /\ epoll' = [epoll EXCEPT ![Fd[c]] = Item(c, new)]
      BY <1>5 DEF ModifyChannel, CtlMod
    <3>2. epoll' \in [DOMAIN epoll' -> [events : SUBSET Events, channel : Channels]]
      BY <3>1
    <3> QED
      BY <1>1, <1>5, <3>2 DEF ModifyChannel
  <2>2. OwnDescriptor' /\ IndexTells'
    BY <1>1, <1>5 DEF ModifyChannel
  <2>3. ListAgrees'
    BY <1>1, <1>2, <1>5 DEF ModifyChannel, CtlMod, Accepted
  <2> QED
    BY <1>1, <2>1, <2>2, <2>3
<1> QED
  BY <1>1, <1>3, <1>4, <1>5

\* A channel is removed: no assertion fails, and it is on the list no more.
LEMMA DropInv ==
  ASSUME Inv, NEW c \in Channels, Drop(c)
  PROVE  RemoveAsserts(c) /\ Inv'
<1> USE EPollPollerAssumption
        DEF Inv, TypeInv, OwnDescriptor, IndexTells, ListAgrees, IsMember, AssertionsHold,
            kNew, kAdded, kDeleted, OnList, Item
<1>1. RemoveAsserts(c)
  BY DEF Drop, RemoveAsserts
<1>2. /\ channels' = [fd \in DOMAIN channels \ {Fd[c]} |-> channels[fd]]
      /\ TakenOffList(c)
      /\ index' = [index EXCEPT ![c] = kNew]
      /\ UNCHANGED <<events, open, ready, listSize, reported, aborted>>
  BY <1>1 DEF Drop, RemoveChannel, IndexReset
<1>3. epoll' = [fd \in DOMAIN epoll \ {Fd[c]} |-> epoll[fd]]
  <2>1. CASE OnList(c)
    BY <1>2, <2>1 DEF TakenOffList, CtlDel
  <2>2. CASE ~OnList(c)
    <3>1. Fd[c] \notin DOMAIN epoll /\ epoll' = epoll
      BY <1>1, <1>2, <2>2 DEF TakenOffList, RemoveAsserts
    <3>2. epoll = [fd \in DOMAIN epoll |-> epoll[fd]]
      OBVIOUS
    <3>3. epoll = [fd \in DOMAIN epoll \ {Fd[c]} |-> epoll[fd]]
      BY ONLY <3>1, <3>2, EraseAbsent
    <3> QED
      BY ONLY <3>1, <3>3
  <2> QED
    BY <2>1, <2>2
<1>4. TypeInv'
  BY <1>2, <1>3
<1>5. OwnDescriptor'
  BY <1>2
<1>6. IndexTells'
  BY <1>1, <1>2 DEF RemoveAsserts
<1>7. ListAgrees'
  BY <1>1, <1>2, <1>3 DEF RemoveAsserts
<1> QED
  BY <1>1, <1>2, <1>4, <1>5, <1>6, <1>7

\* Descriptors are closed and opened.
LEMMA CloseInv ==
  ASSUME Inv, NEW fd \in Fds, Close(fd) \/ Open(fd)
  PROVE  Inv'
<1> USE EPollPollerAssumption
        DEF Inv, TypeInv, OwnDescriptor, IndexTells, ListAgrees, IsMember, AssertionsHold,
            Close, Open
<1>1. TypeInv'
  <2>1. CASE Close(fd)
    BY <2>1
  <2>2. CASE Open(fd)
    BY <2>2
  <2> QED
    BY <2>1, <2>2
<1>2. OwnDescriptor' /\ IndexTells'
  OBVIOUS
<1>3. ListAgrees'
  <2>1. CASE Close(fd)
    BY <2>1 DEF Item
  <2>2. CASE Open(fd)
    BY <2>2 DEF Item, kNew, kAdded
  <2> QED
    BY <2>1, <2>2
<1> QED
  BY <1>1, <1>2, <1>3

\* fillActiveChannels() finds the channels that the kernel points to.
LEMMA PollAsserts ==
  ASSUME Inv, NEW fds \in Waited
  PROVE  FillAsserts(fds)
  BY DEF Inv, OwnDescriptor, ListAgrees, Item, FillAsserts, Waited, Triggered

\* A poll changes nothing but the size of events_ and what is reported.
LEMMA PollInv ==
  ASSUME Inv, Poll \/ PollFails
  PROVE  Inv'
<1>1. UNCHANGED <<events, index, channels, epoll, open, ready, aborted>>
  BY PollAsserts DEF Poll, PollFails
<1>2. listSize' \in Nat \ {0}
  BY PollAsserts DEF Poll, PollFails, NextSize, Inv, TypeInv
<1> QED
  BY <1>1, <1>2
     DEF Inv, TypeInv, OwnDescriptor, IndexTells, ListAgrees, IsMember, AssertionsHold

\* Every step keeps the invariant.
LEMMA InvStep == Inv /\ [Next]_vars => Inv'
<1> SUFFICES ASSUME Inv, [Next]_vars PROVE Inv'
  OBVIOUS
<1>1. ASSUME NEW c \in Channels, NEW new \in SUBSET Events, Update(c, new)
      PROVE  Inv'
  BY <1>1, UpdateInv
<1>2. ASSUME NEW c \in Channels, Drop(c)
      PROVE  Inv'
  BY <1>2, DropInv
<1>3. ASSUME NEW fd \in Fds, Close(fd) \/ Open(fd)
      PROVE  Inv'
  BY <1>3, CloseInv
<1>4. ASSUME NEW fds \in SUBSET Fds, Happen(fds)
      PROVE  Inv'
  BY <1>4 DEF Happen, Inv, TypeInv, OwnDescriptor, IndexTells, ListAgrees,
              IsMember, AssertionsHold
<1>5. CASE Poll \/ PollFails
  BY <1>5, PollInv
<1>6. CASE UNCHANGED vars
  BY <1>6 DEF vars, Inv, TypeInv, OwnDescriptor, IndexTells, ListAgrees,
              IsMember, AssertionsHold
<1> QED
  BY <1>1, <1>2, <1>3, <1>4, <1>5, <1>6 DEF Next

\* The invariant holds in every reachable state.
LEMMA Invariant == Spec => []Inv
  BY InitInv, InvStep, PTL DEF Spec

-----------------------------------------------------------------------------
(* Theorems. *)

\* No assertion of the poller fails and no epoll_ctl() that matters is refused,
\* in whatever order channels are changed and removed and descriptors closed.
THEOREM NothingAborts == Spec => []AssertionsHold
  BY Invariant, PTL DEF Inv

\* The kernel's list holds just the channels that are on it by index_ and whose
\* descriptor is open, with the events they asked for.
THEOREM TheKernelAgrees == Spec => []KernelAgrees
<1>1. Inv => KernelAgrees
  BY DEF Inv, ListAgrees, Item, KernelAgrees
<1> QED
  BY <1>1, Invariant, PTL

-----------------------------------------------------------------------------
(* The poller implements the contract. *)

\* The members are the channels that IsMember knows; the kernel watches those on
\* its list, each under its own descriptor.
Mapped ==
  /\ Members \subseteq Channels
  /\ \A c \in Channels : c \in Members <=> IsMember(c)
  /\ \A c, d \in Members : c # d => Fd[c] # Fd[d]
  /\ DOMAIN Watched \subseteq Channels
  /\ \A c \in Channels :
       c \in DOMAIN Watched <=> Fd[c] \in DOMAIN epoll /\ epoll[Fd[c]].channel = c
  /\ Watched = [c \in DOMAIN Watched |-> Watched[c]]
  /\ \A c \in DOMAIN Watched : Watched[c] = epoll[Fd[c]].events
  /\ \A fd \in DOMAIN epoll :
       epoll[fd].channel \in DOMAIN Watched /\ Fd[epoll[fd].channel] = fd
  /\ DOMAIN Watched \subseteq Members

\* The refinement mapping is what it is meant to be.
LEMMA MappingFacts == Inv => Mapped
<1> SUFFICES ASSUME Inv PROVE Mapped
  OBVIOUS
<1> USE EPollPollerAssumption
        DEF Inv, TypeInv, OwnDescriptor, IndexTells, ListAgrees, Item, IsMember
<1>1. Members \subseteq Channels /\ \A c \in Channels : c \in Members <=> IsMember(c)
  BY DEF Members
<1>2. \A c, d \in Members : c # d => Fd[c] # Fd[d]
  BY <1>1
<1>3. DOMAIN Watched = {epoll[fd].channel : fd \in DOMAIN epoll}
  BY DEF Watched
<1>4. /\ Watched = [c \in DOMAIN Watched |-> Watched[c]]
      /\ \A c \in DOMAIN Watched : Watched[c] = epoll[Fd[c]].events
  BY <1>3 DEF Watched
<1>5. \A fd \in DOMAIN epoll :
        epoll[fd].channel \in DOMAIN Watched /\ Fd[epoll[fd].channel] = fd
  BY <1>3
<1>6. DOMAIN Watched \subseteq Channels
  BY <1>3
<1>7. \A c \in Channels :
        c \in DOMAIN Watched <=> Fd[c] \in DOMAIN epoll /\ epoll[Fd[c]].channel = c
  BY <1>3, <1>5
<1>8. DOMAIN Watched \subseteq Members
  BY <1>3 DEF Members
<1> QED
  BY <1>1, <1>2, <1>4, <1>5, <1>6, <1>7, <1>8 DEF Mapped

\* Of two functions it is enough to compare the domains and the values.
LEMMA SameFunction ==
  ASSUME NEW f, NEW g, f = [x \in DOMAIN f |-> f[x]], g = [x \in DOMAIN g |-> g[x]],
         DOMAIN f = DOMAIN g, \A x \in DOMAIN f : f[x] = g[x]
  PROVE  f = g
  OBVIOUS

\* The initial states are those of the contract.
LEMMA InitContract == Init => Contract!Init
  BY DEF Init, Contract!Init, Members, Watched, None, Contract!None

\* What leaves the kernel's list is watched no more.
LEMMA ErasedIsIgnored ==
  ASSUME Mapped, Mapped', NEW c \in Channels,
         epoll' = [fd \in DOMAIN epoll \ {Fd[c]} |-> epoll[fd]],
         Fd[c] \in DOMAIN epoll => epoll[Fd[c]].channel = c
  PROVE  Watched' = Contract!Ignore(c)
<1>1. \A d \in Channels : d \in DOMAIN Watched' <=> d \in DOMAIN Watched /\ Fd[d] # Fd[c]
  BY DEF Mapped
<1>2. \A d \in DOMAIN Watched : d # c <=> Fd[d] # Fd[c]
  BY DEF Mapped
<1>3. DOMAIN Watched' = DOMAIN Watched \ {c}
  <2>1. DOMAIN Watched \subseteq Channels /\ DOMAIN Watched' \subseteq Channels
    BY DEF Mapped
  <2> QED
    BY <1>1, <1>2, <2>1
<1>4. \A d \in DOMAIN Watched' : Watched'[d] = epoll'[Fd[d]].events
  BY DEF Mapped
<1>5. ASSUME NEW d \in DOMAIN Watched'
      PROVE  Watched'[d] = Watched[d]
  <2>1. Fd[d] \in DOMAIN epoll /\ Fd[d] # Fd[c] /\ d \in DOMAIN Watched
    BY <1>1, <1>3 DEF Mapped
  <2>2. epoll'[Fd[d]] = epoll[Fd[d]]
    BY <2>1
  <2>3. Watched[d] = epoll[Fd[d]].events
    BY <2>1 DEF Mapped
  <2> QED
    BY <1>4, <2>2, <2>3
<1> QED
  BY <1>3, <1>5, SameFunction DEF Contract!Ignore, Mapped

\* What is put on the kernel's list is watched.
LEMMA PutIsWatched ==
  ASSUME Mapped, Mapped', NEW c \in Channels, NEW new,
         DOMAIN epoll' = DOMAIN epoll \cup {Fd[c]},
         epoll'[Fd[c]] = Item(c, new),
         \A fd \in DOMAIN epoll \ {Fd[c]} : epoll'[fd] = epoll[fd],
         Fd[c] \in DOMAIN epoll => epoll[Fd[c]].channel = c
  PROVE  Watched' = Contract!Watch(c, new)
<1>1. DOMAIN Watched' = DOMAIN Watched \cup {c}
  <2>1. \A d \in Channels : Fd[d] # Fd[c] => (d \in DOMAIN Watched' <=> d \in DOMAIN Watched)
    BY DEF Mapped
  <2>2. \A d \in Channels : Fd[d] = Fd[c] => (d \in DOMAIN Watched' <=> d = c)
    BY DEF Mapped, Item
  <2>3. \A d \in DOMAIN Watched : Fd[d] = Fd[c] => d = c
    BY DEF Mapped
  <2>4. DOMAIN Watched \subseteq Channels /\ DOMAIN Watched' \subseteq Channels
    BY DEF Mapped
  <2> QED
    BY <2>1, <2>2, <2>3, <2>4
<1>2. Watched'[c] = new
  BY <1>1 DEF Mapped, Item
<1>3. \A d \in DOMAIN Watched \ {c} : Watched'[d] = Watched[d]
  BY <1>1 DEF Mapped, Item
<1> QED
  BY <1>1, <1>2, <1>3, SameFunction DEF Contract!Watch, Mapped

\* An update is one of the contract; a channel that is disabled is ignored.
LEMMA UpdateContract ==
  ASSUME Inv, NEW c \in Channels, NEW new \in SUBSET Events, Update(c, new)
  PROVE  Contract!UpdateChannel(c, new)
<1>1. /\ events' = [events EXCEPT ![c] = new]
      /\ AddChannel(c, new) \/ DisableChannel(c, new) \/ ModifyChannel(c, new)
      /\ reported' = reported
      /\ UpdateAsserts(c) /\ Accepted(c, new)
  BY UpdateAccepted DEF Update, UpdateChannel
<1>2. Mapped
  BY MappingFacts
<1>3. Inv'
  BY UpdateInv
<1>4. Mapped'
  BY <1>3, MappingFacts, PTL
<1>5. \A d \in Members \ {c} : Fd[d] # Fd[c]
  BY <1>2 DEF Update, IsMember, Mapped
<1>6. IsMember(c)' /\ \A d \in Channels \ {c} : IsMember(d)' <=> IsMember(d)
  BY <1>1, <1>2, <1>5
     DEF AddChannel, DisableChannel, ModifyChannel, IsMember, UpdateAsserts, OnList,
         kNew, kAdded, Mapped
<1>7. Members' = Members \cup {c}
  BY <1>2, <1>4, <1>6 DEF Mapped
<1>8. Fd[c] \in DOMAIN epoll => epoll[Fd[c]].channel = c
  BY <1>1 DEF Accepted, OnList, Inv, TypeInv, IndexTells, IsMember, ListAgrees, Item,
              kNew, kAdded
<1>9. CASE DisableChannel(c, new)
  <2>1. Watched' = Contract!Ignore(c)
    BY <1>2, <1>4, <1>8, <1>9, ErasedIsIgnored DEF DisableChannel, CtlDel
  <2> QED
    BY <1>1, <1>5, <1>7, <1>9, <2>1 DEF Contract!UpdateChannel, DisableChannel
<1>10. CASE AddChannel(c, new) \/ ModifyChannel(c, new)
  <2>1. /\ DOMAIN epoll' = DOMAIN epoll \cup {Fd[c]}
        /\ epoll'[Fd[c]] = Item(c, new)
        /\ \A fd \in DOMAIN epoll \ {Fd[c]} : epoll'[fd] = epoll[fd]
    BY <1>1, <1>10 DEF AddChannel, ModifyChannel, CtlAdd, CtlMod, Accepted, Inv, TypeInv
  <2>2. Watched' = Contract!Watch(c, new)
    BY <1>2, <1>4, <1>8, <2>1, PutIsWatched
  <2> QED
    BY <1>1, <1>5, <1>7, <2>2 DEF Contract!UpdateChannel
<1> QED
  BY <1>1, <1>9, <1>10

\* A removal is one of the contract.
LEMMA DropContract ==
  ASSUME Inv, NEW c \in Channels, Drop(c)
  PROVE  Contract!RemoveChannel(c)
<1>1. RemoveAsserts(c) /\ Inv'
  BY DropInv
<1>2. Mapped /\ Mapped'
  BY <1>1, MappingFacts, PTL
<1>3. /\ channels' = [fd \in DOMAIN channels \ {Fd[c]} |-> channels[fd]]
      /\ TakenOffList(c)
      /\ UNCHANGED <<events, reported>>
  BY <1>1 DEF Drop, RemoveChannel
<1>4. Members' = Members \ {c}
  <2>1. \A d \in Channels : IsMember(d)' <=> IsMember(d) /\ Fd[d] # Fd[c]
    BY <1>3 DEF IsMember
  <2>2. \A d \in Members : d # c <=> Fd[d] # Fd[c]
    BY <1>2 DEF Mapped, Drop
  <2> QED
    BY <1>2, <2>1, <2>2 DEF Mapped
<1>5. Watched' = Contract!Ignore(c)
  <2>1. CASE OnList(c)
    BY <1>2, <1>3, <2>1, ErasedIsIgnored
       DEF TakenOffList, CtlDel, Drop, IsMember, Inv, ListAgrees, Item
  <2>2. CASE ~OnList(c)
    <3>1. Watched' = Watched
      BY <1>3, <2>2 DEF TakenOffList, Watched
    <3>2. c \notin DOMAIN Watched
      BY <1>2, <2>2 DEF OnList, Mapped, Inv, ListAgrees
    <3>3. Watched = [d \in DOMAIN Watched |-> Watched[d]]
      BY <1>2 DEF Mapped
    <3>4. Watched = [d \in DOMAIN Watched \ {c} |-> Watched[d]]
      BY ONLY <3>2, <3>3, EraseAbsent
    <3> QED
      BY <3>1, <3>4 DEF Contract!Ignore
  <2> QED
    BY <2>1, <2>2
<1> QED
  BY <1>2, <1>3, <1>4, <1>5 DEF Contract!RemoveChannel, Drop, Mapped

\* A descriptor that is closed takes its channel off the list; to open one
\* changes nothing that the contract speaks of.
LEMMA CloseContract ==
  ASSUME Inv, NEW fd \in Fds, Close(fd) \/ Open(fd)
  PROVE  \/ \E c \in DOMAIN Watched : Contract!Lose(c)
         \/ UNCHANGED <<events, Members, Watched, reported>>
<1>1. Inv'
  BY CloseInv
<1>2. Mapped /\ Mapped'
  BY <1>1, MappingFacts, PTL
<1>3. UNCHANGED <<events, Members, reported>>
  BY DEF Close, Open, Members
<1>4. CASE Close(fd) /\ fd \in DOMAIN epoll
  <2> DEFINE c == epoll[fd].channel
  <2>1. c \in DOMAIN Watched /\ Fd[c] = fd /\ c \in Channels
    BY <1>2, <1>4 DEF Mapped
  <2>2. Watched' = Contract!Ignore(c)
    BY <1>2, <1>4, <2>1, ErasedIsIgnored DEF Close
  <2> QED
    BY <1>3, <2>1, <2>2 DEF Contract!Lose
<1>5. CASE Close(fd) /\ fd \notin DOMAIN epoll
  <2>1. epoll = [f \in DOMAIN epoll \ {fd} |-> epoll[f]]
    <3>1. epoll = [f \in DOMAIN epoll |-> epoll[f]]
      BY DEF Inv, TypeInv
    <3> QED
      BY ONLY <1>5, <3>1, EraseAbsent
  <2> QED
    BY <1>3, <1>5, <2>1 DEF Close, Watched
<1>6. CASE Open(fd)
  BY <1>3, <1>6 DEF Open, Watched
<1> QED
  BY <1>4, <1>5, <1>6

\* What epoll_wait() returns are reports of the contract.
LEMMA PollContract ==
  ASSUME Inv, Poll \/ PollFails
  PROVE  Contract!Poll
<1>1. Mapped
  BY MappingFacts
<1>2. UNCHANGED <<events, Members, Watched>>
  BY PollAsserts DEF Poll, PollFails, Members, Watched
<1>3. CASE Poll
  <2>1. PICK fds \in Waited : Fill(fds)
    BY <1>3, PollAsserts DEF Poll
  <2> DEFINE active == {epoll[fd].channel : fd \in fds}
  <2>2. fds \subseteq DOMAIN epoll
    BY DEF Waited, Triggered
  <2>3. active \subseteq DOMAIN Watched
    BY <1>1, <2>2 DEF Mapped
  <2>4. reported' \in [active -> (SUBSET (Events \cup Unasked)) \ {{}}]
    BY <2>1 DEF Fill
  <2>5. ASSUME NEW c \in active
        PROVE  reported'[c] \in Contract!Revents(Watched[c])
    <3>1. PICK fd \in fds : epoll[fd].channel = c
      OBVIOUS
    <3>2. Watched[c] = epoll[fd].events
      BY <1>1, <2>2, <3>1 DEF Mapped
    <3> QED
      BY <2>1, <2>4, <3>1, <3>2 DEF Fill, Contract!Revents
  <2>6. reported' \in [active -> SUBSET (Events \cup Unasked)]
    BY <2>4
  <2> HIDE DEF active
  <2> QED
    BY <1>2, <2>3, <2>5, <2>6 DEF Contract!Poll
<1>4. CASE PollFails
  <2>1. reported' \in [{} -> SUBSET (Events \cup Unasked)]
    BY <1>4 DEF PollFails, None
  <2> QED
    BY <1>2, <2>1 DEF Contract!Poll
<1> QED
  BY <1>3, <1>4

\* Every step is one of the contract, or changes nothing that it speaks of.
LEMMA StepContract == Inv /\ [Next]_vars => [Contract!Next]_(Contract!pollerVars)
<1> SUFFICES ASSUME Inv, [Next]_vars
             PROVE  Contract!Next \/ UNCHANGED <<events, Members, Watched, reported>>
  BY DEF Contract!pollerVars
<1>1. ASSUME NEW c \in Channels, NEW new \in SUBSET Events, Update(c, new)
      PROVE  Contract!Next
  BY <1>1, UpdateContract DEF Contract!Next
<1>2. ASSUME NEW c \in Channels, Drop(c)
      PROVE  Contract!Next
  BY <1>2, DropContract DEF Contract!Next
<1>3. ASSUME NEW fd \in Fds, Close(fd) \/ Open(fd)
      PROVE  Contract!Next \/ UNCHANGED <<events, Members, Watched, reported>>
  BY <1>3, CloseContract DEF Contract!Next
<1>4. ASSUME NEW fds \in SUBSET Fds, Happen(fds)
      PROVE  UNCHANGED <<events, Members, Watched, reported>>
  BY <1>4 DEF Happen, Members, Watched
<1>5. CASE Poll \/ PollFails
  BY <1>5, PollContract DEF Contract!Next
<1>6. CASE UNCHANGED vars
  BY <1>6 DEF vars, Members, Watched
<1> QED
  BY <1>1, <1>2, <1>3, <1>4, <1>5, <1>6 DEF Next

\* The kernel's list and index_ keep the promises of Poller to the loop and the
\* channels, for any number of channels and descriptors.
THEOREM Refinement == Spec => ImplementsPoller
  BY Invariant, InitContract, StepContract, PTL
     DEF Spec, ImplementsPoller, Contract!Spec

=============================================================================
