SPECIFICATION FairSpec
INVARIANTS
  HolderHasMutex
  StartLoopReturnsLiveLoop
  QuitReachesLiveLoop
  MembersOutliveThread
PROPERTIES
  StartLoopReturns
  DestructorReturns
\* The system stops when the object is gone.
CHECK_DEADLOCK FALSE
