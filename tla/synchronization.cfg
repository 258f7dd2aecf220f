SPECIFICATION FairSpec
CONSTANTS
  root = root
  leaf = leaf
  f1 = f1
  f2 = f2
  f3 = f3
  ready = ready
  Root = root
  Leaves = {leaf}
  Federates = {f1, f2, f3}
  Parent <- TwoLevels
  Labels = {ready}
  InitialMembers = {f1, f2}
  MayResign = {f3}
  Requests <- SameLabel
INVARIANT SuccessIsReal
INVARIANT AllAnnounced
INVARIANT NoMessageError
PROPERTY NotBeforeAll
PROPERTY SynchronizationCompletes
\* A federation whose federates have nothing left to do comes to rest.
CHECK_DEADLOCK FALSE
