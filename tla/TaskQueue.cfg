CONSTANTS
  c1 = c1
  c2 = c2
  k1 = k1
  i1 = i1
  i2 = i2
  p1 = p1
  none = none
  Command = {c1, c2}
  Closure = {k1}
  TaskId = {i1, i2}
  Producer = {p1}
  None = none
SPECIFICATION FairSpec
INVARIANTS
  TypeOK
  CompletedInOrder
  NoLostWakeup
  NothingLost
  GetIsServed
PROPERTIES
  ImplementsExecutor
  GetReturns
  DestructorReturns
  AcceptedRuns
