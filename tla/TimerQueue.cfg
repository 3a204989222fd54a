\* Two timers over two addresses, either of which may be used twice, with times
\* that are invalid, have passed or are to come; the wall clock is set back.
CONSTANTS
  Threads = {t1}
  Addrs = {1, 2}
  Whens = {0, 2}
  Intervals = {0, 1}
  MinDelay = 1
  ClockSteps <- Back
  MaxTime = 3
  MaxTimers = 2
  MaxRequests = 2
SPECIFICATION FairSpec
INVARIANTS
  TypeOK
  SetsAgree
  EachTimerHasOneOwner
  CancelledTimerIsGone
  TimerfdArmed
  TimerfdInTime
PROPERTIES
  OnlyItsOwnCancelRemoves
  ImplementsTimers
  TimersRun
