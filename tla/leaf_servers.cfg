CONSTANTS
  c1 = c1
  c2 = c2
  Clients = {c1, c2}
  MaxConnects <- TwoAndOne
  MaxServers = 2
  Kinds <- TwoKinds
  MaxExpired = 1
  ShutdownAllowed = TRUE
SPECIFICATION FairSpec
INVARIANT ConnectIsServed
INVARIANT Registered
PROPERTY ConnectAnswered
PROPERTY ThreadEnds
PROPERTY ShutdownReturns
CHECK_DEADLOCK FALSE
