SPECIFICATION FairSpec
CONSTANTS
  MaxChunks = 3
  MaxEarly = 2
INVARIANTS
  GreetingComesFirst
  EndIsPassedOn
PROPERTIES
  RemoteLossEndsTunnel
  OnlyRemoteKeepsTunnel
  ImplementsRelay
