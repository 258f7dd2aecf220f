SPECIFICATION FairSpec
CONSTANTS
  f1 = f1
  f2 = f2
  Federates = {f1, f2}
  CommitIdModulus = 20
  InitialMembers = {f1}
  InitialRegulating = {}
  InitialConstrained = {}
  InitialLookahead = 1
  Program <- JoiningProgram
  MaxCalls <- JoiningCalls
  Times = {2}
  Lookaheads = {1}
  DeliverToSelf = FALSE
  MaxTime = 8
INVARIANT TypeOK
INVARIANT NoProtocolError
INVARIANT Safe
PROPERTY ImplementsConservativeTime
PROPERTY EnablingCompletes
PROPERTY AdvanceCompletes
\* A federation whose federates have made all their calls comes to rest.
CHECK_DEADLOCK FALSE
