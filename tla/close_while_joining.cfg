SPECIFICATION Spec
CONSTANTS
  r = r
  s1 = s1
  a1 = a1
  a2 = a2
  a3 = a3
  Root = r
  Leaves = {s1}
  Ambassadors = {a1, a2, a3}
  Parent <- Tree
  FederateName <- Unnamed
  Program <- ClosingProgram
  MaxCalls <- ClosingCalls
  Modules = {"consistent"}
  MayDie = {}
INVARIANT NoMessageError
\* Everything comes to rest when the programs have made their calls.
CHECK_DEADLOCK FALSE
