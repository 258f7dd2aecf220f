--------------------------- MODULE TimeRefinement ---------------------------
(***************************************************************************)
(* The federation implements ConservativeTime.  A federate promises what   *)
(* it has committed as its time advance commit (cTA); a constrained one    *)
(* has been told that nothing comes below its granted logical time; its    *)
(* pending messages are those on their way and those in its queue.         *)
(***************************************************************************)
EXTENDS TimeFederation

CONSTANT MaxTime  \* bound on the logical times TLC looks for in an abstract step

ASSUME MaxTimeAssumption == MaxTime \in Nat

Regulating == {g \in Federates : fed[g].reg = "Enabled"}
Constrained == {f \in Federates : fed[f].con = "Enabled"}

Queued(f) == {e.msg.ts : e \in {d \in Range(fed[f].tso) : IsTSO(d.msg)}}

Abstract == INSTANCE ConservativeTime WITH
  Time        <- 0 .. MaxTime,
  regulating  <- Regulating,
  constrained <- Constrained,
  promise     <- [g \in Federates |-> IF g \in Regulating THEN fed[g].cTA ELSE 0],
  floor       <- [f \in Federates |->
                    IF f \in Constrained THEN _toLogicalTime(fed[f].now) ELSE 0],
  pending     <- [f \in Federates |-> InTransit(f) \cup Queued(f)]

\* Refinement: every step of the ambassadors, the server and the connects is a step that
\* conservative synchronisation allows, or changes nothing that matters to it.
ImplementsConservativeTime == Abstract!Spec

\* What conservative synchronisation is for, on the state of the federation: no message in a
\* queue or on its way, and none that a regulating federate may still send, is in the past of a
\* constrained federate.
Safe == Abstract!Safe

=============================================================================
