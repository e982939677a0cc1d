SPECIFICATION FairSpec
CONSTANTS
  Session = {s1, s2}
  Secure = {s2}
  Worker = {w1, w2}
  None = None
INVARIANTS
  BlockingStartWaits
PROPERTIES
  StopEndsStart
  ReadEndsTheWait
