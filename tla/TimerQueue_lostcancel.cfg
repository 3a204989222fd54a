CONSTANTS
  Threads = {t1}
  Addrs = {1, 2}
  Whens = {2}
  Intervals = {0, 1}
  MinDelay = 1
  ClockSteps = {}
  MaxTime = 2
  MaxTimers = 1
  MaxRequests = 1
SPECIFICATION Spec
INVARIANTS
  CancelIsNotLost
