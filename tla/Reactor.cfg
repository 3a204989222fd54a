\* Three channels, one of them a member of an object, two that use the same
\* descriptor in turn; two objects.  A hangup makes for two callbacks.
CONSTANTS
  c1 = c1
  c2 = c2
  c3 = c3
  o1 = o1
  o2 = o2
  Channels = {c1, c2, c3}
  Fd <- SharedFd
  Events = {"in"}
  Unasked = {"hup", "err"}
  Objects = {o1, o2}
  Owner <- OneMember
  Ties <- MemberTies
SPECIFICATION Spec
INVARIANTS
  NoDanglingPointer
  PendingStayInPoller
  TieProtectsOwner
\* A failed assertion ends the program.
CHECK_DEADLOCK FALSE
