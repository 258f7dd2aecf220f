-------------------------- MODULE ConservativeTime --------------------------
(***************************************************************************)
(* What time management promises to the federates of a federation, without *)
(* how: the conservative synchronisation of regulating and constrained     *)
(* federates.  A regulating federate has promised not to send below        *)
(* promise[g]; a constrained one has been told that nothing below floor[f] *)
(* will come any more; pending[f] are the time stamps of the messages that *)
(* were sent and that f has not seen yet.                                  *)
(***************************************************************************)
EXTENDS Naturals

CONSTANTS Federates,  \* the federates
          Time        \* the logical times

\* What the specification requires of the logical times
TimeAssumption == Time \subseteq Nat /\ 0 \in Time

VARIABLES regulating, constrained, promise, floor, pending

vars == <<regulating, constrained, promise, floor, pending>>

Init ==
  /\ regulating \in SUBSET Federates
  /\ constrained \in SUBSET Federates
  /\ promise \in [Federates -> Time]
  /\ \A g \in Federates \ regulating : promise[g] = 0
  /\ floor = [f \in Federates |-> 0]
  /\ pending = [f \in Federates |-> {}]

\* f may be told that nothing below n will come any more.
Justified(f, n) ==
  /\ \A g \in regulating \ {f} : n <= promise[g]
  /\ \A t \in pending[f] : n <= t

\* g may start to send at p: no other constrained federate has been promised more.
Harmless(g, p) == \A f \in constrained \ {g} : floor[f] <= p

\* A regulating federate sends a message to all others, and perhaps to itself.
Send(g) ==
  \E t \in Time, self \in BOOLEAN :
    /\ g \in regulating
    /\ promise[g] <= t
    /\ self /\ g \in constrained => floor[g] <= t
    /\ pending' = [f \in Federates |->
         IF f # g \/ self THEN pending[f] \cup {t} ELSE pending[f]]
    /\ UNCHANGED <<regulating, constrained, promise, floor>>

\* A regulating federate promises more.
Raise(g) ==
  \E p \in Time :
    /\ g \in regulating
    /\ promise[g] < p
    /\ promise' = [promise EXCEPT ![g] = p]
    /\ UNCHANGED <<regulating, constrained, floor, pending>>

\* A constrained federate is granted a time.
Grant(f) ==
  \E n \in Time :
    /\ f \in constrained
    /\ floor[f] < n
    /\ Justified(f, n)
    /\ floor' = [floor EXCEPT ![f] = n]
    /\ UNCHANGED <<regulating, constrained, promise, pending>>

\* A federate gets one of its messages; for one that is gone they are dropped.
Deliver(f) ==
  \E t \in pending[f] :
    /\ pending' = [pending EXCEPT ![f] = @ \ {t}]
    /\ UNCHANGED <<regulating, constrained, promise, floor>>

Forget(f) ==
  /\ f \notin constrained
  /\ pending[f] # {}
  /\ pending' = [pending EXCEPT ![f] = {}]
  /\ UNCHANGED <<regulating, constrained, promise, floor>>

\* Time regulation starts at p; the logical time of g may move on with it.
Regulate(g) ==
  \E p \in Time, n \in Time :
    /\ g \notin regulating
    /\ Harmless(g, p)
    /\ IF g \in constrained THEN floor[g] <= n /\ Justified(g, n) ELSE n = 0
    /\ regulating' = regulating \cup {g}
    /\ promise' = [promise EXCEPT ![g] = p]
    /\ floor' = [floor EXCEPT ![g] = n]
    /\ UNCHANGED <<constrained, pending>>

Unregulate(g) ==
  /\ g \in regulating
  /\ regulating' = regulating \ {g}
  /\ promise' = [promise EXCEPT ![g] = 0]
  /\ UNCHANGED <<constrained, floor, pending>>

Constrain(f) ==
  \E n \in Time :
    /\ f \notin constrained
    /\ Justified(f, n)
    /\ constrained' = constrained \cup {f}
    /\ floor' = [floor EXCEPT ![f] = n]
    /\ UNCHANGED <<regulating, promise, pending>>

Unconstrain(f) ==
  /\ f \in constrained
  /\ constrained' = constrained \ {f}
  /\ floor' = [floor EXCEPT ![f] = 0]
  /\ UNCHANGED <<regulating, promise, pending>>

\* A federate resigns.
Leave(f) ==
  \E left \in SUBSET pending[f] :
    /\ regulating' = regulating \ {f}
    /\ constrained' = constrained \ {f}
    /\ promise' = [promise EXCEPT ![f] = 0]
    /\ floor' = [floor EXCEPT ![f] = 0]
    /\ pending' = [pending EXCEPT ![f] = left]

Next ==
  \E f \in Federates :
    \/ Send(f) \/ Raise(f) \/ Grant(f) \/ Deliver(f) \/ Forget(f)
    \/ Regulate(f) \/ Unregulate(f) \/ Constrain(f) \/ Unconstrain(f) \/ Leave(f)

Spec == Init /\ [][Next]_vars

-----------------------------------------------------------------------------

\* The type invariant: promises, granted times and message time stamps are logical times.
TypeOK ==
  /\ regulating \in SUBSET Federates
  /\ constrained \in SUBSET Federates
  /\ promise \in [Federates -> Time]
  /\ floor \in [Federates -> Time]
  /\ pending \in [Federates -> SUBSET Time]

\* No message comes too late: what a constrained federate has not seen yet is not in its past.
NothingInThePast ==
  \A f \in constrained : \A t \in pending[f] : floor[f] <= t

\* Nor can one be sent: every constrained federate is within the promises of all others.
WithinPromises ==
  \A f \in constrained : \A g \in regulating \ {f} : floor[f] <= promise[g]

\* Time management is safe: nothing undelivered (timeStampOrder queues of TimeManagement) nor
\* anything that may still be sent is in the past of a constrained federate.
Safe == NothingInThePast /\ WithinPromises

=============================================================================
