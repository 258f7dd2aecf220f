SPECIFICATION Spec
CONSTANTS
  f1 = f1
  f2 = f2
  Federates = {f1, f2}
  CommitIdModulus = 20
  InitialMembers = {f1, f2}
  InitialRegulating = {f1, f2}
  InitialConstrained = {f1, f2}
  InitialLookahead = 0
  Program <- AdvanceProgram
  MaxCalls <- Calls2
  Times = {1, 2}
  Lookaheads = {0, 1}
  DeliverToSelf = TRUE
  MaxTime = 8
INVARIANT NoLateMessage
INVARIANT NoDeadlock
INVARIANT PromiseKept
PROPERTY InOrderDelivery
PROPERTY TimeMonotone
\* A federation whose federates have made all their calls comes to rest.
CHECK_DEADLOCK FALSE
