SPECIFICATION FairSpec
CONSTANTS
  Session = {s1}
  Secure = {}
  Worker = {w1, w2}
  None = None
PROPERTIES
  EveryGetReturns
