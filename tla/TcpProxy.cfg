SPECIFICATION FairSpec
CONSTANTS
  Stream <- TwoRequests
  MaxChunks = 1
INVARIANTS
  InOrder
  NothingForgotten
  RemoteIsDelivered
PROPERTIES
  CleanupReleases
  ImplementsRelay
