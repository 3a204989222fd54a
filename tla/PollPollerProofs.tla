--------------------------- MODULE PollPollerProofs --------------------------
(***************************************************************************)
(* Proofs about PollPoller for any channels, descriptors and events: the   *)
(* array, the map and the indices of the channels agree, no assertion      *)
(* fails for clients that enable a channel first and destroy it when it is *)
(* removed, and the steps of the poller are steps of the contract.         *)
(***************************************************************************)
EXTENDS PollPoller, FiniteSetTheorems, TLAPS

-----------------------------------------------------------------------------
(* The inductive invariant. *)

PollFd == [fd : Int, events : SUBSET Events]

\* The type of the state.
TypeInv ==
  /\ events \in [Channels -> SUBSET Events]
  /\ index \in [Channels -> Int]
  /\ channels \in [DOMAIN channels -> Channels]
  /\ pollfds \in Seq(PollFd)
  /\ IsFiniteSet(DOMAIN channels)

\* channels_ finds each channel under its own descriptor.
OwnDescriptor == \A fd \in DOMAIN channels : Fd[channels[fd]] = fd

\* A channel in the poller knows the entry that is its own.  If it asks for
\* nothing the entry is ignored, unless it was disabled before it was added.
Place(c) ==
  /\ InRange(index[c])
  /\ At(index[c]).fd \in {Fd[c], Negated(Fd[c])}
  /\ At(index[c]).events = events[c]
  /\ DisablesNew \/ (events[c] = {} => At(index[c]).fd = Negated(Fd[c]))

PlacesKnown == \A c \in Channels : IsMember(c) => Place(c)

\* No entry is left of a channel that was removed.
EntriesOwned ==
  \A i \in 1..Len(pollfds) : \E c \in Channels : IsMember(c) /\ index[c] + 1 = i

\* A channel that was removed, or is new, asks for nothing.
OthersAskNothing == \A c \in Channels : ~IsMember(c) => events[c] = {}

Inv ==
  /\ TypeInv
  /\ OwnDescriptor
  /\ OthersAskNothing
  /\ PlacesKnown
  /\ EntriesOwned
  /\ Cardinality(DOMAIN channels) = Len(pollfds)

-----------------------------------------------------------------------------
(* The array. *)

\* iter_swap() and pop_back() put the last entry into the place of the removed
\* one and leave the others where they are.
LEMMA TakenOutFacts ==
  ASSUME NEW i \in 0..(Len(pollfds) - 1), pollfds \in Seq(PollFd)
  PROVE  /\ TakenOut(i) \in Seq(PollFd)
         /\ Len(TakenOut(i)) = Len(pollfds) - 1
         /\ \A j \in 1..(Len(pollfds) - 1) :
              TakenOut(i)[j] = IF j = i + 1 THEN pollfds[Len(pollfds)] ELSE pollfds[j]
<1> DEFINE s == [pollfds EXCEPT ![i + 1] = Last(pollfds)]
<1>1. Last(pollfds) \in PollFd
  BY DEF Last
<1>2. s \in Seq(PollFd) /\ Len(s) = Len(pollfds)
  BY <1>1
<1>3. \A j \in 1..Len(pollfds) :
        s[j] = IF j = i + 1 THEN pollfds[Len(pollfds)] ELSE pollfds[j]
  BY <1>2 DEF Last
<1> HIDE DEF s
<1>4. /\ SubSeq(s, 1, Len(s) - 1) \in Seq(PollFd)
      /\ Len(SubSeq(s, 1, Len(s) - 1)) = Len(s) - 1
      /\ \A j \in 1..(Len(s) - 1) : SubSeq(s, 1, Len(s) - 1)[j] = s[j]
  BY <1>2
<1> QED
  BY <1>2, <1>3, <1>4 DEF TakenOut, Front, s

\* push_back() adds an entry and leaves the others where they are.
LEMMA AppendFacts ==
  ASSUME NEW s \in Seq(PollFd), NEW e \in PollFd
  PROVE  /\ Append(s, e) \in Seq(PollFd)
         /\ Len(Append(s, e)) = Len(s) + 1
         /\ \A i \in 1..Len(s) : Append(s, e)[i] = s[i]
         /\ Append(s, e)[Len(s) + 1] = e
OBVIOUS

\* No two channels in the poller have the same entry.
LEMMA PlacesDiffer ==
  ASSUME Inv, NEW c \in Channels, NEW d \in Channels,
         IsMember(c), IsMember(d), index[c] = index[d]
  PROVE  c = d
<1>1. Fd[c] \in Nat /\ Fd[d] \in Nat
  BY PollPollerAssumption
<1>2. At(index[c]).fd \in {Fd[c], Negated(Fd[c])} /\ At(index[c]).fd \in {Fd[d], Negated(Fd[d])}
  BY DEF Inv, PlacesKnown, Place
<1>3. Fd[c] = Fd[d]
  BY <1>1, <1>2 DEF Negated
<1> QED
  BY <1>3 DEF IsMember

-----------------------------------------------------------------------------
\* The poller starts with no channel and no entry.
LEMMA InitInv == Init => Inv
<1> SUFFICES ASSUME Init PROVE Inv
  OBVIOUS
<1>1. DOMAIN channels = {} /\ Len(pollfds) = 0
  BY DEF Init, None
<1>2. TypeInv
  BY <1>1, FS_EmptySet DEF Init, None, kNew, TypeInv
<1> QED
  BY <1>1, <1>2, FS_EmptySet
     DEF Init, Inv, OwnDescriptor, OthersAskNothing, PlacesKnown, EntriesOwned, IsMember

\* A new channel gets the entry at the end.
LEMMA AddInv ==
  ASSUME Inv, NEW c \in Channels, NEW new \in SUBSET Events,
         AddChannel(c, new), Fd[c] \notin DOMAIN channels,
         new # {} \/ DisablesNew,
         events' = [events EXCEPT ![c] = new]
  PROVE  Inv'
<1> DEFINE entry == [fd |-> Fd[c], events |-> new]
<1>1. Fd \in [Channels -> Nat]
  BY PollPollerAssumption
<1>2. /\ pollfds' = Append(pollfds, entry)
      /\ index' = [index EXCEPT ![c] = Len(pollfds)]
      /\ DOMAIN channels' = DOMAIN channels \cup {Fd[c]}
      /\ \A fd \in DOMAIN channels' : channels'[fd] = IF fd = Fd[c] THEN c ELSE channels[fd]
      /\ channels' = [fd \in DOMAIN channels' |-> channels'[fd]]
  BY DEF AddChannel
<1>3. entry \in PollFd /\ pollfds \in Seq(PollFd) /\ Len(pollfds) \in Nat
  <2>1. entry \in PollFd
    BY <1>1 DEF PollFd
  <2> QED
    BY <2>1 DEF Inv, TypeInv
<1>4. /\ pollfds' \in Seq(PollFd)
      /\ Len(pollfds') = Len(pollfds) + 1
      /\ \A i \in 1..Len(pollfds) : pollfds'[i] = pollfds[i]
      /\ pollfds'[Len(pollfds) + 1] = entry
  BY <1>2, <1>3, AppendFacts
<1>5. /\ IsFiniteSet(DOMAIN channels')
      /\ Cardinality(DOMAIN channels') = Cardinality(DOMAIN channels) + 1
  <2>1. IsFiniteSet(DOMAIN channels)
    BY DEF Inv, TypeInv
  <2>2. /\ IsFiniteSet(DOMAIN channels \cup {Fd[c]})
        /\ Cardinality(DOMAIN channels \cup {Fd[c]}) = Cardinality(DOMAIN channels) + 1
    BY <2>1, FS_AddElement
  <2> QED
    BY <1>2, <2>2
<1>6. IsMember(c)' /\ \A d \in Channels \ {c} : IsMember(d)' <=> IsMember(d)
  BY <1>1, <1>2 DEF IsMember
<1>7. TypeInv'
  <2>1. channels' \in [DOMAIN channels' -> Channels]
    BY <1>2 DEF Inv, TypeInv
  <2> QED
    BY <1>2, <1>3, <1>4, <1>5, <2>1 DEF Inv, TypeInv
<1>8. OwnDescriptor' /\ OthersAskNothing'
  BY <1>2, <1>6 DEF Inv, TypeInv, OwnDescriptor, OthersAskNothing
<1>9. PlacesKnown'
  <2> SUFFICES ASSUME NEW d \in Channels, IsMember(d)' PROVE Place(d)'
    BY DEF PlacesKnown
  <2>1. CASE d = c
    BY <1>2, <1>3, <1>4, <2>1 DEF Place, InRange, At, Inv, TypeInv
  <2>2. CASE d # c
    <3>1. Place(d) /\ index'[d] = index[d] /\ events'[d] = events[d]
      BY <1>2, <1>6, <2>2 DEF Inv, TypeInv, PlacesKnown
    <3>2. index[d] \in Int
      BY DEF Inv, TypeInv
    <3> QED
      BY <1>3, <1>4, <3>1, <3>2 DEF Place, InRange, At
  <2> QED
    BY <2>1, <2>2
<1>10. EntriesOwned'
  <2> SUFFICES ASSUME NEW i \in 1..Len(pollfds')
               PROVE  \E d \in Channels : IsMember(d)' /\ index'[d] + 1 = i
    BY DEF EntriesOwned
  <2>1. CASE i = Len(pollfds) + 1
    BY <1>2, <1>6, <2>1 DEF Inv, TypeInv
  <2>2. CASE i # Len(pollfds) + 1
    <3>1. PICK d \in Channels : IsMember(d) /\ index[d] + 1 = i
      BY <1>3, <1>4, <2>2 DEF Inv, EntriesOwned
    <3>2. d # c
      BY <3>1 DEF IsMember
    <3> QED
      BY <1>2, <1>6, <3>1, <3>2 DEF Inv, TypeInv
  <2> QED
    BY <2>1, <2>2
<1> QED
  BY <1>4, <1>5, <1>7, <1>8, <1>9, <1>10 DEF Inv

\* A channel that is there changes its own entry.
LEMMA ChangeInv ==
  ASSUME Inv, NEW c \in Channels, NEW new \in SUBSET Events,
         ChangeChannel(c, new), IsMember(c),
         events' = [events EXCEPT ![c] = new]
  PROVE  Inv'
<1>1. Fd[c] \in Nat /\ index[c] \in 0..(Len(pollfds) - 1)
  <2>1. index[c] \in Int /\ Len(pollfds) \in Nat /\ Place(c)
    BY DEF Inv, TypeInv, PlacesKnown
  <2> QED
    BY <2>1, PollPollerAssumption DEF Place, InRange
<1>2. /\ Entry(c, new) \in PollFd
      /\ Entry(c, new).fd \in {Fd[c], Negated(Fd[c])}
      /\ Entry(c, new).events = new
      /\ new = {} => Entry(c, new).fd = Negated(Fd[c])
  BY <1>1 DEF Entry, Negated, PollFd
<1>3. /\ pollfds' \in Seq(PollFd)
      /\ Len(pollfds') = Len(pollfds)
      /\ \A i \in 1..Len(pollfds) : i # index[c] + 1 => pollfds'[i] = pollfds[i]
      /\ pollfds'[index[c] + 1] = Entry(c, new)
  BY <1>1, <1>2 DEF ChangeChannel, Inv, TypeInv
<1>4. UNCHANGED <<index, channels>>
  BY DEF ChangeChannel
<1>5. TypeInv' /\ OwnDescriptor' /\ OthersAskNothing'
  BY <1>3, <1>4 DEF Inv, TypeInv, OwnDescriptor, OthersAskNothing, IsMember
<1>6. PlacesKnown'
  <2> SUFFICES ASSUME NEW d \in Channels, IsMember(d) PROVE Place(d)'
    BY <1>4 DEF PlacesKnown, IsMember
  <2>1. CASE d = c
    BY <1>1, <1>2, <1>3, <1>4, <2>1 DEF Place, InRange, At, Inv, TypeInv
  <2>2. CASE d # c
    <3>1. index[d] # index[c] /\ Place(d) /\ events'[d] = events[d]
      BY <2>2, PlacesDiffer DEF Inv, TypeInv, PlacesKnown
    <3>2. index[d] \in Int /\ Len(pollfds) \in Nat
      BY DEF Inv, TypeInv
    <3> QED
      BY <1>1, <1>3, <1>4, <3>1, <3>2 DEF Place, InRange, At
  <2> QED
    BY <2>1, <2>2
<1>7. EntriesOwned'
  BY <1>3, <1>4 DEF Inv, EntriesOwned, IsMember
<1> QED
  BY <1>3, <1>4, <1>5, <1>6, <1>7 DEF Inv

\* A channel is removed: the channel of the last entry follows it into the gap,
\* and the other channels find the entries that they had.
LEMMA TakeOutInv ==
  ASSUME Inv, NEW c \in Channels, RemoveAsserts(c), Drop(c)
  PROVE  /\ Inv'
         /\ \A d \in Channels : IsMember(d) /\ d # c => At(index[d])' = At(index[d])
<1> DEFINE last == Len(pollfds)
           i == index[c]
<1>1. /\ channels' = [fd \in DOMAIN channels \ {Fd[c]} |-> channels[fd]]
      /\ index' = Moved(c)
      /\ pollfds' = TakenOut(i)
      /\ events' = events
  BY DEF Drop, RemoveChannel
<1>2. IsMember(c) /\ Fd \in [Channels -> Nat]
  BY PollPollerAssumption DEF Drop
<1>3. i \in 0..(last - 1) /\ last \in Nat \ {0}
  <2>1. index[c] \in Int /\ Len(pollfds) \in Nat /\ InRange(index[c])
    BY <1>2 DEF Inv, TypeInv, PlacesKnown, Place
  <2> QED
    BY <2>1 DEF InRange
<1>4. /\ pollfds' \in Seq(PollFd)
      /\ Len(pollfds') = last - 1
      /\ \A j \in 1..(last - 1) :
           pollfds'[j] = IF j = i + 1 THEN pollfds[last] ELSE pollfds[j]
  BY <1>1, <1>3, TakenOutFacts DEF Inv, TypeInv
<1>5. /\ IsFiniteSet(DOMAIN channels')
      /\ Cardinality(DOMAIN channels') = Cardinality(DOMAIN channels) - 1
  <2>1. IsFiniteSet(DOMAIN channels) /\ Fd[c] \in DOMAIN channels
    BY <1>2 DEF Inv, TypeInv, IsMember
  <2>2. /\ IsFiniteSet(DOMAIN channels \ {Fd[c]})
        /\ Cardinality(DOMAIN channels \ {Fd[c]}) = Cardinality(DOMAIN channels) - 1
    BY <2>1, FS_RemoveElement
  <2> QED
    BY <1>1, <2>2
<1>6. \A d \in Channels : IsMember(d)' <=> IsMember(d) /\ d # c
  BY <1>1, <1>2 DEF IsMember
\* The channel of the last entry.
<1>7. PICK e \in Channels : IsMember(e) /\ index[e] = last - 1
  <2>1. PICK e \in Channels : IsMember(e) /\ index[e] + 1 = last
    BY <1>3 DEF Inv, EntriesOwned
  <2>2. index[e] \in Int
    BY DEF Inv, TypeInv
  <2> QED
    BY <1>3, <2>1, <2>2
<1>8. FdAtEnd = Fd[e] /\ channels[FdAtEnd] = e
  <2>1. At(index[e]).fd \in {Fd[e], Negated(Fd[e])} /\ At(index[e]) = Last(pollfds)
    BY <1>3, <1>7 DEF Inv, PlacesKnown, Place, At, Last
  <2>2. FdAtEnd = Fd[e]
    BY <1>2, <2>1 DEF FdAtEnd, Negated
  <2> QED
    BY <1>7, <2>2 DEF IsMember
\* Its index becomes that of the removed one, the others keep theirs.
<1>9. /\ index' \in [Channels -> Int]
      /\ \A d \in Channels : index'[d] = IF d = e /\ e # c THEN i ELSE index[d]
  <2>1. CASE e = c
    <3>1. index' = index
      BY <1>1, <1>3, <1>7, <2>1 DEF Moved
    <3> QED
      BY <2>1, <3>1 DEF Inv, TypeInv
  <2>2. CASE e # c
    <3>1. i # last - 1
      BY <1>2, <1>7, <2>2, PlacesDiffer
    <3>2. index' = [index EXCEPT ![e] = i]
      BY <1>1, <1>8, <3>1 DEF Moved
    <3> QED
      BY <1>3, <2>2, <3>2 DEF Inv, TypeInv
  <2> QED
    BY <2>1, <2>2
<1>10. \A d \in Channels : IsMember(d) /\ d # c /\ d # e
                             => /\ index[d] \in 0..(last - 2)
                                /\ index[d] # i
  <2> SUFFICES ASSUME NEW d \in Channels, IsMember(d), d # c, d # e
               PROVE  index[d] \in 0..(last - 2) /\ index[d] # i
    OBVIOUS
  <2>1. index[d] # i /\ index[d] # last - 1
    BY <1>2, <1>7, PlacesDiffer
  <2>2. index[d] \in Int /\ InRange(index[d])
    BY DEF Inv, TypeInv, PlacesKnown, Place
  <2> QED
    BY <1>3, <2>1, <2>2 DEF InRange
<1>11. e # c => i \in 0..(last - 2)
  <2>1. e # c => i # last - 1
    BY <1>2, <1>7, PlacesDiffer
  <2> QED
    BY <1>3, <2>1
<1>12. TypeInv'
  <2>1. channels' \in [DOMAIN channels' -> Channels]
    BY <1>1 DEF Inv, TypeInv
  <2> QED
    BY <1>1, <1>4, <1>5, <1>9, <2>1 DEF Inv, TypeInv
<1>13. OwnDescriptor' /\ OthersAskNothing'
  BY <1>1, <1>6 DEF Inv, OwnDescriptor, OthersAskNothing, Drop
<1>14. ASSUME NEW d \in Channels, IsMember(d), d # c
       PROVE  At(index[d])' = At(index[d]) /\ InRange(index[d])'
  <2>1. CASE d = e
    <3>1. index'[d] = i /\ i \in 0..(last - 2) /\ i + 1 \in 1..(last - 1)
      BY <1>9, <1>11, <1>3, <1>14, <2>1
    <3>2. pollfds'[i + 1] = pollfds[last] /\ pollfds[last] = At(index[d])
      BY <1>3, <1>4, <1>7, <2>1, <3>1 DEF At
    <3> QED
      BY <1>3, <1>4, <3>1, <3>2 DEF InRange, At
  <2>2. CASE d # e
    <3>1. index'[d] = index[d] /\ index[d] \in 0..(last - 2) /\ index[d] # i
      BY <1>9, <1>10, <1>14, <2>2
    <3>2. index[d] + 1 \in 1..(last - 1) /\ index[d] + 1 # i + 1
      BY <1>3, <3>1
    <3>3. pollfds'[index[d] + 1] = pollfds[index[d] + 1]
      BY <1>4, <3>2
    <3> QED
      BY <1>3, <1>4, <3>1, <3>3 DEF InRange, At
  <2> QED
    BY <2>1, <2>2
<1>15. PlacesKnown'
  BY <1>1, <1>6, <1>14 DEF Inv, PlacesKnown, Place
<1>16. EntriesOwned'
  <2> SUFFICES ASSUME NEW j \in 1..(last - 1)
               PROVE  \E d \in Channels : IsMember(d) /\ d # c /\ index'[d] + 1 = j
    BY <1>4, <1>6 DEF EntriesOwned
  <2>1. CASE j = i + 1
    <3>1. e # c
      BY <1>3, <1>7, <2>1
    <3> QED
      BY <1>7, <1>9, <2>1, <3>1
  <2>2. CASE j # i + 1
    <3>1. PICK d \in Channels : IsMember(d) /\ index[d] + 1 = j
      BY <1>3 DEF Inv, EntriesOwned
    <3>2. d # c /\ d # e
      BY <1>3, <1>7, <2>2, <3>1
    <3> QED
      BY <1>9, <3>1, <3>2
  <2> QED
    BY <2>1, <2>2
<1>17. Cardinality(DOMAIN channels') = Len(pollfds')
  BY <1>4, <1>5 DEF Inv
<1> QED
  BY <1>12, <1>13, <1>14, <1>15, <1>16, <1>17 DEF Inv

\* A channel that was removed is destroyed, and another one is constructed.
LEMMA ConstructInv ==
  ASSUME Inv, NEW c \in Channels, Construct(c)
  PROVE  Inv'
<1>1. /\ ~IsMember(c)
      /\ index' = [index EXCEPT ![c] = kNew]
      /\ events' = [events EXCEPT ![c] = {}]
      /\ UNCHANGED <<channels, pollfds>>
  BY DEF Construct
<1>2. TypeInv' /\ OwnDescriptor' /\ OthersAskNothing'
  BY <1>1 DEF Inv, TypeInv, OwnDescriptor, OthersAskNothing, IsMember, kNew
<1>3. \A d \in Channels :
        IsMember(d) => index'[d] = index[d] /\ events'[d] = events[d]
  BY <1>1 DEF Inv, TypeInv
<1>4. PlacesKnown'
  BY <1>1, <1>3 DEF Inv, PlacesKnown, Place, IsMember, InRange, At
<1>5. EntriesOwned'
  BY <1>1, <1>3 DEF Inv, EntriesOwned, IsMember
<1> QED
  BY <1>1, <1>2, <1>4, <1>5 DEF Inv

\* A step that leaves the channels and the array alone keeps the invariant.
LEMMA UnchangedInv ==
  ASSUME Inv, UNCHANGED <<events, index, channels, pollfds>>
  PROVE  Inv'
  BY DEF Inv, TypeInv, OwnDescriptor, OthersAskNothing, PlacesKnown, Place,
         EntriesOwned, IsMember, InRange, At

\* Every step keeps the invariant, those that abort included.
LEMMA InvStep == Inv /\ [Next]_vars => Inv'
<1> SUFFICES ASSUME Inv, [Next]_vars PROVE Inv'
  OBVIOUS
<1>1. ASSUME NEW c \in Channels, NEW new \in SUBSET Events, Update(c, new)
      PROVE  Inv'
  <2>1. CASE ~UpdateAsserts(c)
    BY <1>1, <2>1, UnchangedInv DEF Update, UpdateChannel, Abort
  <2>2. CASE UpdateAsserts(c) /\ index[c] < 0
    <3>1. ~IsMember(c)
      BY <2>2 DEF UpdateAsserts, IsMember
    <3> QED
      BY <1>1, <2>2, <3>1, AddInv DEF Update, UpdateChannel, UpdateAsserts
  <2>3. CASE UpdateAsserts(c) /\ ~(index[c] < 0)
    BY <1>1, <2>3, ChangeInv DEF Update, UpdateChannel, UpdateAsserts
  <2> QED
    BY <2>1, <2>2, <2>3
<1>2. ASSUME NEW c \in Channels, Drop(c)
      PROVE  Inv'
  BY <1>2, TakeOutInv, UnchangedInv DEF Drop, RemoveChannel, Abort
<1>3. ASSUME NEW c \in Channels, Construct(c)
      PROVE  Inv'
  BY <1>3, ConstructInv
<1>4. CASE Poll
  BY <1>4, UnchangedInv DEF Poll, Abort
<1>5. CASE UNCHANGED vars
  BY <1>5, UnchangedInv DEF vars
<1> QED
  BY <1>1, <1>2, <1>3, <1>4, <1>5 DEF Next

\* The invariant holds in every reachable state.
LEMMA Invariant == Spec => []Inv
  BY InitInv, InvStep, PTL DEF Spec

-----------------------------------------------------------------------------
(* Theorems. *)

\* channels_, pollfds_ and the indices describe the same set, after any updates
\* and removals, whatever the clients do.
THEOREM TheIndexesAgree == Spec => []IndexesAgree
<1>1. Inv => IndexesAgree
  <2> SUFFICES ASSUME Inv, NEW fd \in DOMAIN channels
               PROVE  /\ Fd[channels[fd]] = fd
                      /\ Place(channels[fd])
    BY DEF Inv, IndexesAgree, Place
  <2>1. channels[fd] \in Channels /\ Fd[channels[fd]] = fd
    BY DEF Inv, TypeInv, OwnDescriptor
  <2> QED
    BY <2>1 DEF Inv, PlacesKnown, IsMember
<1> QED
  BY <1>1, Invariant, PTL

-----------------------------------------------------------------------------
(* The assertions. *)

\* fillActiveChannels() finds the channel of every entry that is not ignored.
LEMMA EntryFound ==
  ASSUME Inv, NEW i \in 1..Len(pollfds), pollfds[i].fd >= 0
  PROVE  /\ pollfds[i].fd \in DOMAIN channels
         /\ channels[pollfds[i].fd] \in Channels
         /\ Fd[channels[pollfds[i].fd]] = pollfds[i].fd
         /\ index[channels[pollfds[i].fd]] + 1 = i
<1>1. PICK c \in Channels : IsMember(c) /\ index[c] + 1 = i
  BY DEF Inv, EntriesOwned
<1>2. index[c] \in Int /\ Fd[c] \in Nat
  BY PollPollerAssumption DEF Inv, TypeInv
<1>3. pollfds[i].fd \in {Fd[c], Negated(Fd[c])}
  BY <1>1 DEF Inv, PlacesKnown, Place, At
<1>4. pollfds[i].fd = Fd[c]
  BY <1>2, <1>3 DEF Negated
<1> QED
  BY <1>1, <1>4 DEF IsMember

\* So its assertions hold, whatever is reported.
LEMMA FillAssertsHold ==
  ASSUME Inv, NEW r \in Reports
  PROVE  FillAsserts(r)
<1> SUFFICES ASSUME NEW i \in 1..Len(pollfds), r[i] # {}
             PROVE  /\ pollfds[i].fd \in DOMAIN channels
                    /\ Fd[channels[pollfds[i].fd]] = pollfds[i].fd
  BY DEF FillAsserts
<1>1. pollfds[i].fd \in Int
  <2>1. pollfds[i] \in PollFd
    BY DEF Inv, TypeInv
  <2> QED
    BY <2>1 DEF PollFd
<1>2. pollfds[i].fd >= 0
  BY <1>1 DEF Reports
<1> QED
  BY <1>2, EntryFound

\* updateChannel() asserts what the clients keep to.
LEMMA UpdateAssertsHold ==
  ASSUME Inv, EnablesRemoved = FALSE,
         NEW c \in Channels, NEW new \in SUBSET Events, Update(c, new)
  PROVE  UpdateAsserts(c)
<1>1. CASE IsMember(c)
  <2>1. Place(c) /\ index[c] \in Int
    BY <1>1 DEF Inv, TypeInv, PlacesKnown
  <2>2. ~(index[c] < 0)
    BY <2>1 DEF Place, InRange
  <2> QED
    BY <1>1, <2>1, <2>2 DEF UpdateAsserts, Place
<1>2. CASE ~IsMember(c)
  BY <1>2 DEF Update, UpdateAsserts, kNew
<1> QED
  BY <1>1, <1>2

\* removeChannel() finds the entry of the channel ignored, and the channel of
\* the last entry under its descriptor.
LEMMA RemoveAssertsHold ==
  ASSUME Inv, DisablesNew = FALSE, NEW c \in Channels, Drop(c)
  PROVE  RemoveAsserts(c)
<1>1. IsMember(c) /\ events[c] = {} /\ Place(c)
  BY DEF Drop, Inv, PlacesKnown
<1>2. Fd \in [Channels -> Nat] /\ index[c] \in Int /\ Len(pollfds) \in Nat
  BY PollPollerAssumption DEF Inv, TypeInv
<1>3. At(index[c]) = [fd |-> Negated(Fd[c]), events |-> {}]
  <2>1. At(index[c]) \in PollFd
    BY <1>1, <1>2 DEF Place, InRange, At, Inv, TypeInv
  <2> QED
    BY <1>1, <2>1 DEF Place, PollFd
<1>4. index[c] # Len(pollfds) - 1 => FdAtEnd \in DOMAIN channels \ {Fd[c]}
  <2> SUFFICES ASSUME index[c] # Len(pollfds) - 1
               PROVE  FdAtEnd \in DOMAIN channels \ {Fd[c]}
    OBVIOUS
  <2>1. Len(pollfds) \in 1..Len(pollfds)
    BY <1>1, <1>2 DEF Place, InRange
  <2>2. PICK d \in Channels : IsMember(d) /\ index[d] + 1 = Len(pollfds)
    BY <2>1 DEF Inv, EntriesOwned
  <2>3. Last(pollfds).fd \in {Fd[d], Negated(Fd[d])}
    BY <2>2 DEF Inv, PlacesKnown, Place, At, Last
  <2>4. FdAtEnd = Fd[d]
    BY <1>2, <2>3 DEF FdAtEnd, Negated
  <2>5. index[d] # index[c]
    BY <1>2, <2>2 DEF Inv, TypeInv
  <2> QED
    BY <1>1, <2>2, <2>4, <2>5 DEF IsMember
<1> QED
  BY <1>1, <1>3, <1>4 DEF RemoveAsserts, Place

\* No step of clients that enable a new channel first, and destroy a channel
\* that they removed, makes an assertion fail.
LEMMA NoAbortStep ==
  ASSUME DisablesNew = FALSE, EnablesRemoved = FALSE
  PROVE  Inv /\ AssertionsHold /\ [Next]_vars => AssertionsHold'
<1> SUFFICES ASSUME Inv, ~aborted, [Next]_vars PROVE ~aborted'
  BY DEF AssertionsHold
<1>1. ASSUME NEW c \in Channels, NEW new \in SUBSET Events, Update(c, new)
      PROVE  ~aborted'
  BY <1>1, UpdateAssertsHold DEF Update, UpdateChannel
<1>2. ASSUME NEW c \in Channels, Drop(c)
      PROVE  ~aborted'
  BY <1>2, RemoveAssertsHold DEF Drop, RemoveChannel
<1>3. ASSUME NEW c \in Channels, Construct(c)
      PROVE  ~aborted'
  BY <1>3 DEF Construct
<1>4. CASE Poll
  BY <1>4, FillAssertsHold DEF Poll
<1>5. CASE UNCHANGED vars
  BY <1>5 DEF vars
<1> QED
  BY <1>1, <1>2, <1>3, <1>4, <1>5 DEF Next

\* None of the assertions fails for clients that enable a new channel first and
\* destroy a channel that they removed.  Without either it can fail: then the
\* model checker finds the abort.
THEOREM NothingAborts ==
  ASSUME DisablesNew = FALSE, EnablesRemoved = FALSE
  PROVE  Spec => []AssertionsHold
<1>1. Init => AssertionsHold
  BY DEF Init, AssertionsHold
<1> QED
  BY <1>1, Invariant, NoAbortStep, PTL DEF Spec

-----------------------------------------------------------------------------
(* The poller implements the contract. *)

\* The members are the channels that IsMember knows; those whose entry has its
\* descriptor are watched, for what they asked for.
Mapped ==
  /\ Members \subseteq Channels
  /\ \A c \in Channels : c \in Members <=> IsMember(c)
  /\ \A c, d \in Members : c # d => Fd[c] # Fd[d]
  /\ DOMAIN Watched \subseteq Members
  /\ \A c \in Members : c \in DOMAIN Watched <=> At(index[c]).fd >= 0
  /\ Watched = [c \in DOMAIN Watched |-> Watched[c]]
  /\ \A c \in DOMAIN Watched : Watched[c] = events[c]

\* The refinement mapping is what it is meant to be.
LEMMA MappingFacts == Inv => Mapped
<1> SUFFICES ASSUME Inv PROVE Mapped
  OBVIOUS
<1> DEFINE seen == {i \in 1..Len(pollfds) : pollfds[i].fd >= 0}
           entry(c) == CHOOSE i \in seen : pollfds[i].fd = Fd[c]
<1>1. /\ Members \subseteq Channels
      /\ \A c \in Channels : c \in Members <=> IsMember(c)
  BY DEF Members, IsMember, Inv, TypeInv, OwnDescriptor
<1>2. \A c, d \in Members : c # d => Fd[c] # Fd[d]
  BY <1>1 DEF IsMember
<1>3. \A c \in Members : /\ index[c] + 1 \in 1..Len(pollfds)
                         /\ Place(c)
                         /\ At(index[c]) = pollfds[index[c] + 1]
  <2> SUFFICES ASSUME NEW c \in Members
               PROVE  index[c] + 1 \in 1..Len(pollfds) /\ Place(c)
    BY DEF At
  <2>1. Place(c) /\ index[c] \in Int /\ Len(pollfds) \in Nat
    BY <1>1 DEF Inv, TypeInv, PlacesKnown
  <2> QED
    BY <2>1 DEF Place, InRange
<1>4. Watched = [c \in {channels[pollfds[i].fd] : i \in seen} |-> pollfds[entry(c)].events]
  BY DEF Watched
<1>5. \A i \in seen : /\ channels[pollfds[i].fd] \in Members
                      /\ Fd[channels[pollfds[i].fd]] = pollfds[i].fd
                      /\ index[channels[pollfds[i].fd]] + 1 = i
  BY EntryFound DEF Members
<1>6. \A c \in Members : At(index[c]).fd >= 0 => At(index[c]).fd = Fd[c]
  <2> SUFFICES ASSUME NEW c \in Members, At(index[c]).fd >= 0
               PROVE  At(index[c]).fd = Fd[c]
    OBVIOUS
  <2>1. At(index[c]).fd \in {Fd[c], Negated(Fd[c])} /\ Fd[c] \in Nat
    BY <1>1, <1>3, PollPollerAssumption DEF Place
  <2> QED
    BY <2>1 DEF Negated
<1> HIDE DEF seen
<1>7. DOMAIN Watched = {channels[pollfds[i].fd] : i \in seen}
  BY <1>4
<1>8. DOMAIN Watched \subseteq Members
  BY <1>5, <1>7
<1>9. ASSUME NEW c \in Members
      PROVE  c \in DOMAIN Watched <=> At(index[c]).fd >= 0
  <2>1. CASE c \in DOMAIN Watched
    <3>1. PICK i \in seen : channels[pollfds[i].fd] = c
      BY <1>7, <2>1
    <3>2. At(index[c]) = pollfds[i]
      BY <1>3, <1>5, <3>1
    <3> QED
      BY <2>1, <3>2 DEF seen
  <2>2. CASE At(index[c]).fd >= 0
    <3>1. index[c] + 1 \in seen
      BY <1>3, <2>2 DEF seen
    <3>2. pollfds[index[c] + 1].fd = Fd[c] /\ channels[Fd[c]] = c
      BY <1>1, <1>3, <1>6, <2>2 DEF IsMember
    <3> QED
      BY <1>7, <2>2, <3>1, <3>2
  <2> QED
    BY <2>1, <2>2
<1>10. ASSUME NEW c \in DOMAIN Watched
       PROVE  Watched[c] = events[c]
  <2>1. PICK i \in seen : channels[pollfds[i].fd] = c
    BY <1>7
  <2>2. pollfds[i].fd = Fd[c]
    BY <1>5, <2>1
  <2>3. entry(c) \in seen /\ pollfds[entry(c)].fd = Fd[c]
    BY <2>2
  <2>4. channels[pollfds[entry(c)].fd] = c
    BY <2>1, <2>2, <2>3
  <2>5. index[c] + 1 = entry(c)
    BY <1>5, <2>3, <2>4
  <2>6. pollfds[entry(c)].events = events[c]
    BY <1>3, <1>8, <2>5 DEF Place
  <2> QED
    BY <1>4, <1>7, <2>6
<1>11. Watched = [c \in DOMAIN Watched |-> Watched[c]]
  BY <1>4
<1> QED
  BY <1>1, <1>2, <1>8, <1>9, <1>10, <1>11 DEF Mapped

\* Of two functions it is enough to compare the domains and the values.
LEMMA SameFunction ==
  ASSUME NEW f, NEW g, f = [x \in DOMAIN f |-> f[x]], g = [x \in DOMAIN g |-> g[x]],
         DOMAIN f = DOMAIN g, \A x \in DOMAIN f : f[x] = g[x]
  PROVE  f = g
  OBVIOUS

\* The initial states are those of the contract.
LEMMA InitContract == Init => Contract!Init
<1> SUFFICES ASSUME Init PROVE Contract!Init
  OBVIOUS
<1>1. Members = {}
  BY DEF Init, None, Members
<1>2. DOMAIN Watched = {}
  BY <1>1, InitInv, MappingFacts DEF Mapped
<1>3. Watched = [c \in DOMAIN Watched |-> Watched[c]]
  BY InitInv, MappingFacts DEF Mapped
<1>4. Watched = Contract!None
  BY <1>2, <1>3 DEF Contract!None
<1> QED
  BY <1>1, <1>4 DEF Init, Contract!Init, None, Contract!None

\* What the contract asks of a step that changes what one member c asks for: the
\* entries of the other members stay what they are.
LEMMA OthersWatched ==
  ASSUME Mapped, Mapped', NEW c \in Channels, NEW new,
         Members' = Members \cup {c},
         events' = [events EXCEPT ![c] = new], events \in [Channels -> SUBSET Events],
         At(index[c])'.fd >= 0 \/ new = {},
         \A d \in Members \ {c} : At(index[d])' = At(index[d])
  PROVE  \/ Watched' = Contract!Watch(c, new)
         \/ new = {} /\ Watched' = Contract!Ignore(c)
<1>1. \A d \in Members \ {c} : d \in DOMAIN Watched' <=> d \in DOMAIN Watched
  BY DEF Mapped
<1>2. c \in DOMAIN Watched' <=> At(index[c])'.fd >= 0
  BY DEF Mapped
<1>3. DOMAIN Watched \subseteq Members /\ DOMAIN Watched' \subseteq Members \cup {c}
  BY DEF Mapped
<1>4. \A d \in DOMAIN Watched' \ {c} : Watched'[d] = Watched[d]
  <2> SUFFICES ASSUME NEW d \in DOMAIN Watched' \ {c} PROVE Watched'[d] = Watched[d]
    OBVIOUS
  <2>1. d \in DOMAIN Watched /\ d \in Channels
    BY <1>1, <1>3 DEF Mapped
  <2>2. Watched'[d] = events'[d] /\ Watched[d] = events[d] /\ events'[d] = events[d]
    BY <2>1 DEF Mapped
  <2> QED
    BY <2>2
<1>5. c \in DOMAIN Watched' => Watched'[c] = new
  BY DEF Mapped
<1>6. Watched' = [d \in DOMAIN Watched' |-> Watched'[d]]
  BY DEF Mapped
<1>7. CASE c \in DOMAIN Watched'
  <2>1. DOMAIN Watched' = DOMAIN Watched \cup {c}
    BY <1>1, <1>3, <1>7
  <2>2. Watched' = Contract!Watch(c, new)
    BY <1>4, <1>5, <1>6, <1>7, <2>1, SameFunction DEF Contract!Watch
  <2> QED
    BY <2>2
<1>8. CASE c \notin DOMAIN Watched'
  <2>1. DOMAIN Watched' = DOMAIN Watched \ {c}
    BY <1>1, <1>3, <1>8
  <2>2. Watched' = Contract!Ignore(c)
    BY <1>4, <1>6, <1>8, <2>1, SameFunction DEF Contract!Ignore
  <2> QED
    BY <1>2, <1>8, <2>2
<1> QED
  BY <1>7, <1>8

\* An update is one of the contract.
LEMMA UpdateContract ==
  ASSUME Inv, Inv', NEW c \in Channels, NEW new \in SUBSET Events,
         Update(c, new), UpdateAsserts(c)
  PROVE  Contract!UpdateChannel(c, new)
<1>1. /\ events' = [events EXCEPT ![c] = new]
      /\ IF index[c] < 0 THEN AddChannel(c, new) ELSE ChangeChannel(c, new)
      /\ reported' = reported
  BY DEF Update, UpdateChannel
<1>2. Mapped /\ Mapped'
  BY MappingFacts, PTL
<1>3. Fd \in [Channels -> Nat] /\ Len(pollfds) \in Nat /\ pollfds \in Seq(PollFd)
  BY PollPollerAssumption DEF Inv, TypeInv
<1>4. ASSUME NEW d \in Members
      PROVE  /\ index[d] \in 0..(Len(pollfds) - 1) /\ index[d] + 1 \in 1..Len(pollfds)
             /\ d \in Channels /\ IsMember(d)
  <2>1. d \in Channels /\ IsMember(d) /\ index[d] \in Int /\ Place(d)
    BY <1>2 DEF Mapped, Inv, TypeInv, PlacesKnown
  <2> QED
    BY <1>3, <2>1 DEF Place, InRange
<1>5. CASE index[c] < 0
  <2>1. AddChannel(c, new) /\ Fd[c] \notin DOMAIN channels /\ ~IsMember(c)
    BY <1>1, <1>5 DEF UpdateAsserts, IsMember
  <2>2. \A d \in Channels : IsMember(d)' <=> IsMember(d) \/ d = c
    BY <1>3, <2>1 DEF AddChannel, IsMember
  <2>3. Members' = Members \cup {c}
    BY <1>2, <2>2 DEF Mapped
  <2>4. [fd |-> Fd[c], events |-> new] \in PollFd
    BY <1>3 DEF PollFd
  <2>5. /\ \A i \in 1..Len(pollfds) : pollfds'[i] = pollfds[i]
        /\ pollfds'[Len(pollfds) + 1] = [fd |-> Fd[c], events |-> new]
        /\ index' = [index EXCEPT ![c] = Len(pollfds)]
    BY <1>3, <2>1, <2>4, AppendFacts DEF AddChannel
  <2>6. \A d \in Members \ {c} : At(index[d])' = At(index[d])
    BY <1>4, <2>5 DEF At, Inv, TypeInv
  <2>7. At(index[c])'.fd >= 0
    BY <1>3, <2>5 DEF At, Inv, TypeInv
  <2>8. \A d \in Members \ {c} : Fd[d] # Fd[c]
    BY <1>4, <2>1 DEF IsMember
  <2>9. Watched' = Contract!Watch(c, new) \/ (new = {} /\ Watched' = Contract!Ignore(c))
    BY <1>1, <1>2, <2>3, <2>6, <2>7, OthersWatched DEF Inv, TypeInv
  <2> QED
    BY <1>1, <2>3, <2>8, <2>9 DEF Contract!UpdateChannel
<1>6. CASE ~(index[c] < 0)
  <2>1. ChangeChannel(c, new) /\ IsMember(c)
    BY <1>1, <1>6 DEF UpdateAsserts
  <2>2. c \in Members /\ Members' = Members
    BY <1>2, <2>1 DEF ChangeChannel, Members, Mapped
  <2>3. pollfds'[index[c] + 1] = Entry(c, new) /\ index' = index
    BY <1>3, <1>4, <2>1, <2>2 DEF ChangeChannel
  <2>4. \A d \in Members \ {c} : At(index[d])' = At(index[d])
    <3> SUFFICES ASSUME NEW d \in Members \ {c} PROVE At(index[d])' = At(index[d])
      OBVIOUS
    <3>1. index[d] # index[c]
      BY <1>4, <2>1, PlacesDiffer
    <3> QED
      BY <1>3, <1>4, <2>1, <2>2, <3>1 DEF ChangeChannel, At
  <2>5. At(index[c])'.fd >= 0 \/ new = {}
    BY <1>3, <2>3 DEF At, Entry
  <2>6. \A d \in Members \ {c} : Fd[d] # Fd[c]
    BY <1>4, <2>1 DEF IsMember
  <2>7. Members' = Members \cup {c}
    BY <2>2
  <2>8. Watched' = Contract!Watch(c, new) \/ (new = {} /\ Watched' = Contract!Ignore(c))
    BY <1>1, <1>2, <2>7, <2>4, <2>5, OthersWatched DEF Inv, TypeInv
  <2> QED
    BY <1>1, <2>6, <2>7, <2>8 DEF Contract!UpdateChannel
<1> QED
  BY <1>5, <1>6

\* A removal is one of the contract.
LEMMA DropContract ==
  ASSUME Inv, Inv', NEW c \in Channels, Drop(c), RemoveAsserts(c)
  PROVE  Contract!RemoveChannel(c)
<1>1. Mapped /\ Mapped'
  BY MappingFacts, PTL
<1>2. /\ channels' = [fd \in DOMAIN channels \ {Fd[c]} |-> channels[fd]]
      /\ UNCHANGED <<events, reported>>
      /\ IsMember(c) /\ events[c] = {}
  BY DEF Drop, RemoveChannel
<1>3. \A d \in Channels : IsMember(d)' <=> IsMember(d) /\ d # c
  BY <1>2 DEF IsMember
<1>4. Members' = Members \ {c}
  BY <1>1, <1>3 DEF Mapped
<1>5. \A d \in Members \ {c} : d \in DOMAIN Watched' <=> d \in DOMAIN Watched
  BY <1>1, <1>4, TakeOutInv DEF Mapped
<1>6. DOMAIN Watched \subseteq Members /\ DOMAIN Watched' \subseteq Members'
  BY <1>1 DEF Mapped
<1>7. DOMAIN Watched' = DOMAIN Watched \ {c}
  BY <1>4, <1>5, <1>6
<1>8. \A d \in DOMAIN Watched' : Watched'[d] = Watched[d]
  BY <1>1, <1>2, <1>7 DEF Mapped
<1>9. Watched' = [d \in DOMAIN Watched' |-> Watched'[d]]
  BY <1>1 DEF Mapped
<1>10. Watched' = Contract!Ignore(c)
  BY <1>7, <1>8, <1>9, SameFunction DEF Contract!Ignore
<1> QED
  BY <1>1, <1>2, <1>4, <1>10 DEF Contract!RemoveChannel, Mapped

\* What the contract allows to be reported of a channel.
LEMMA ReventsFact ==
  ASSUME NEW asked, NEW revents, revents \subseteq asked \cup Unasked, revents # {}
  PROVE  revents \in Contract!Revents(asked)
  BY DEF Contract!Revents

\* What fillActiveChannels() collects are reports of the contract.
LEMMA PollContract ==
  ASSUME Inv, Poll
  PROVE  Contract!Poll
<1>1. PICK r \in Reports : /\ reported' = ActiveChannels(r)
                           /\ UNCHANGED <<events, channels, pollfds>>
  BY FillAssertsHold DEF Poll
<1>2. UNCHANGED <<events, Members, Watched>>
  BY <1>1 DEF Members, Watched
<1>3. Mapped
  BY MappingFacts
<1> DEFINE active == {i \in 1..Len(pollfds) : r[i] # {}}
           found == {channels[pollfds[i].fd] : i \in active}
           entry(c) == CHOOSE i \in active : channels[pollfds[i].fd] = c
<1>4. reported' = [c \in found |-> r[entry(c)]]
  BY <1>1 DEF ActiveChannels
<1>5. ASSUME NEW i \in active
      PROVE  /\ channels[pollfds[i].fd] \in DOMAIN Watched
             /\ index[channels[pollfds[i].fd]] + 1 = i
             /\ r[i] \in SUBSET (Events \cup Unasked)
             /\ r[i] \subseteq Watched[channels[pollfds[i].fd]] \cup Unasked
             /\ r[i] # {}
  <2>1. pollfds[i] \in PollFd
    BY DEF Inv, TypeInv
  <2>2. pollfds[i].fd >= 0 /\ r[i] \subseteq pollfds[i].events \cup Unasked
    BY <2>1 DEF Reports, PollFd
  <2>3. PICK c \in Channels : c = channels[pollfds[i].fd] /\ Fd[c] = pollfds[i].fd
                              /\ index[c] + 1 = i /\ IsMember(c)
    BY <2>2, EntryFound DEF IsMember
  <2>4. Place(c) /\ At(index[c]) = pollfds[i]
    BY <2>3 DEF Inv, PlacesKnown, At
  <2>5. c \in DOMAIN Watched /\ Watched[c] = pollfds[i].events
    BY <1>3, <2>2, <2>3, <2>4 DEF Mapped, Place
  <2> QED
    BY <2>2, <2>3, <2>5 DEF Reports
<1> HIDE DEF active
<1>6. ASSUME NEW c \in found
      PROVE  entry(c) \in active /\ channels[pollfds[entry(c)].fd] = c
  OBVIOUS
<1>7. found \subseteq DOMAIN Watched
  BY <1>5
<1>8. ASSUME NEW c \in found
      PROVE  /\ reported'[c] \in SUBSET (Events \cup Unasked)
             /\ reported'[c] \in Contract!Revents(Watched[c])
  <2>1. PICK i \in active : reported'[c] = r[i] /\ channels[pollfds[i].fd] = c
    BY <1>4, <1>6
  <2>2. /\ r[i] \in SUBSET (Events \cup Unasked)
        /\ r[i] \subseteq Watched[c] \cup Unasked
        /\ r[i] # {}
    BY <1>5, <2>1
  <2>3. r[i] \in Contract!Revents(Watched[c])
    BY <2>2, ReventsFact
  <2> QED
    BY <2>1, <2>2, <2>3
<1>9. reported' \in [found -> SUBSET (Events \cup Unasked)]
  BY <1>4, <1>8
<1> HIDE DEF found
<1> QED
  BY <1>2, <1>7, <1>8, <1>9 DEF Contract!Poll

\* Every step is one of the contract, or changes nothing that it speaks of: an
\* assertion that fails stops the poller where it is.
LEMMA StepContract == Inv /\ [Next]_vars => [Contract!Next]_(Contract!pollerVars)
<1> SUFFICES ASSUME Inv, [Next]_vars
             PROVE  Contract!Next \/ UNCHANGED <<events, Members, Watched, reported>>
  BY DEF Contract!pollerVars
<1>1. Inv'
  BY InvStep
<1>2. CASE UNCHANGED <<events, index, channels, pollfds, reported>>
  BY <1>2 DEF Members, Watched
<1>3. ASSUME NEW c \in Channels, NEW new \in SUBSET Events, Update(c, new)
      PROVE  Contract!Next \/ UNCHANGED <<events, index, channels, pollfds, reported>>
  BY <1>1, <1>3, UpdateContract DEF Contract!Next, Update, UpdateChannel, Abort
<1>4. ASSUME NEW c \in Channels, Drop(c)
      PROVE  Contract!Next \/ UNCHANGED <<events, index, channels, pollfds, reported>>
  BY <1>1, <1>4, DropContract DEF Contract!Next, Drop, RemoveChannel, Abort
<1>5. ASSUME NEW c \in Channels, Construct(c)
      PROVE  UNCHANGED <<events, Members, Watched, reported>>
  <2>1. events[c] = {} /\ events \in [Channels -> SUBSET Events]
    BY <1>5 DEF Construct, Inv, TypeInv, OthersAskNothing
  <2>2. events' = events
    BY <1>5, <2>1 DEF Construct
  <2> QED
    BY <1>5, <2>2 DEF Construct, Members, Watched
<1>6. CASE Poll
  BY <1>6, PollContract DEF Contract!Next
<1> QED
  BY <1>2, <1>3, <1>4, <1>5, <1>6 DEF Next, vars

\* The array, the swaps and the negative descriptors keep the promises of Poller
\* to the loop and the channels, whatever the clients do.
THEOREM Refinement == Spec => ImplementsPoller
  BY Invariant, InitContract, StepContract, PTL
     DEF Spec, ImplementsPoller, Contract!Spec

=============================================================================
