SPECIFICATION FairSpec
CONSTANTS
  r = r
  s1 = s1
  a1 = a1
  a2 = a2
  a3 = a3
  Root = r
  Leaves = {s1}
  Ambassadors = {a1, a2, a3}
  Parent <- Tree
  FederateName <- Unnamed
  Program <- LifecycleProgram
  MaxCalls <- LifecycleCalls
  Modules = {"consistent"}
  MayDie = {s1}
INVARIANT TypeOK
INVARIANT NoMessageError
INVARIANT NoCrossTalk
INVARIANT MembersKnown
INVARIANT ViewsAgree
PROPERTY CallsReturn
PROPERTY HandleReleased
\* Everything comes to rest when the programs have made their calls.
CHECK_DEADLOCK FALSE
