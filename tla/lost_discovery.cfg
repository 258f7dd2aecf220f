SPECIFICATION Spec
CONSTANTS
  r = r
  s1 = s1
  a1 = a1
  a2 = a2
  a3 = a3
  o1 = o1
  o2 = o2
  i1 = i1
  x1 = x1
  NoClass = NoClass
  Root = r
  Leaves = {s1}
  Ambassadors = {a1, a2, a3}
  Parent <- Tree
  ObjectClasses = {o1, o2}
  InteractionClasses = {i1}
  ParentClass <- Derived
  Names = {x1}
  Plans <- Resubscribing
INVARIANT AllDiscovered
\* Everything comes to rest when the federates have made their calls.
CHECK_DEADLOCK FALSE
