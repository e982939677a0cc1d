SPECIFICATION Spec
CONSTANTS
  Extra = 1
  Conn = {c1}
INVARIANTS
  JoinsSucceed
