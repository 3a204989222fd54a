\* Three channels; the last two use the same descriptor in turn; events_ has
\* room for one event at first.
CONSTANTS
  c1 = c1
  c2 = c2
  c3 = c3
  Channels = {c1, c2, c3}
  Fd <- SharedFd
  Events = {read, write}
  Unasked = {hup}
  InitEventListSize = 1
SPECIFICATION FairSpec
INVARIANTS
  AssertionsHold
  KernelAgrees
PROPERTIES
  ImplementsPoller
  NoStarvation
