SPECIFICATION Spec
CONSTANTS
  MaxChunks = 2
  MaxEarly = 1
INVARIANTS
  StartsAtTheStart
