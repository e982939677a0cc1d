CONSTANTS
  QueueLimit = 2
  MaxRequests = 3
SPECIFICATION Spec
INVARIANTS
  OwnershipTransferred
