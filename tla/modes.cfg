SPECIFICATION Spec
CONSTANTS
  f1 = f1
  f2 = f2
  Federates = {f1, f2}
  CommitIdModulus = 20
  InitialMembers = {f1, f2}
  InitialRegulating = {}
  InitialConstrained = {}
  InitialLookahead = 0
  Program <- ModesProgram
  MaxCalls <- Calls3
  Times = {1, 2}
  Lookaheads = {0, 1}
  DeliverToSelf = FALSE
  MaxTime = 8
INVARIANT BoundsSound
INVARIANT NoProtocolError
\* A federation whose federates have made all their calls comes to rest.
CHECK_DEADLOCK FALSE
