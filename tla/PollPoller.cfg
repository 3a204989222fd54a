\* Four channels; the last two use the same descriptor in turn.
CONSTANTS
  c1 = c1
  c2 = c2
  c3 = c3
  c4 = c4
  Channels = {c1, c2, c3, c4}
  Fd <- SharedFd
  Events = {read}
  Unasked = {hup}
  DisablesNew = FALSE
  EnablesRemoved = FALSE
SPECIFICATION Spec
INVARIANTS
  AssertionsHold
  IndexesAgree
PROPERTIES
  ImplementsPoller
