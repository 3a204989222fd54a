\* Two calling threads, three submissions in flight, two user channels; no
\* fairness of the poll's timeout: the wakeups alone.
CONSTANTS
  Callers = {c1, c2}
  Functors = {f1, f2, f3}
  IoChannels = {io1, io2}
  WakeupChannel = wakeup
SPECIFICATION FairSpec
INVARIANTS
  TypeOK
  NoLostWakeup
  NoLostQuit
PROPERTIES
  QuitIsHonoured
  SignalledFunctorsStart
  ImplementsExecutor
