SPECIFICATION Spec
INVARIANTS
  DestroyedWithoutHolder
\* The system stops when the object is gone.
CHECK_DEADLOCK FALSE
