SPECIFICATION Spec
CONSTANTS
  f1 = f1
  f2 = f2
  Federates = {f1, f2}
  CommitIdModulus = 20
  InitialMembers = {f1, f2}
  InitialRegulating = {f1}
  InitialConstrained = {f1}
  InitialLookahead = 1
  Program <- MissedProgram
  MaxCalls <- Calls1
  Times = {1, 2}
  Lookaheads = {1}
  DeliverToSelf = FALSE
  MaxTime = 8
INVARIANT TimeAdvancesKnown
\* A federation whose federates have made all their calls comes to rest.
CHECK_DEADLOCK FALSE
