----------------------- MODULE ConservativeTime_proofs -----------------------
(***************************************************************************)
(* Proofs about ConservativeTime, for every set of federates and every set *)
(* of logical times.  NothingInThePast is not inductive by itself: a       *)
(* regulating federate may send at its promise, so the promises have to be *)
(* at or above the floors as well (WithinPromises).  The two are inductive *)
(* together.                                                               *)
(***************************************************************************)
EXTENDS ConservativeTime, TLAPS

\* Every step of ConservativeTime keeps the variables within their types.
LEMMA TypeInvariant == ASSUME TimeAssumption PROVE Spec => []TypeOK
<1> USE DEF TimeAssumption
<1>1. Init => TypeOK
  BY TimeAssumption DEF Init, TypeOK
<1>2. TypeOK /\ [Next]_vars => TypeOK'
  <2> SUFFICES ASSUME TypeOK, [Next]_vars PROVE TypeOK'
    OBVIOUS
  <2>1. CASE UNCHANGED vars
    BY <2>1 DEF TypeOK, vars
  <2>2. ASSUME NEW f \in Federates, Send(f) PROVE TypeOK'
    BY <2>2 DEF TypeOK, Send
  <2>3. ASSUME NEW f \in Federates, Raise(f) PROVE TypeOK'
    BY <2>3 DEF TypeOK, Raise
  <2>4. ASSUME NEW f \in Federates, Grant(f) PROVE TypeOK'
    BY <2>4 DEF TypeOK, Grant
  <2>5. ASSUME NEW f \in Federates, Deliver(f) PROVE TypeOK'
    BY <2>5 DEF TypeOK, Deliver
  <2>6. ASSUME NEW f \in Federates, Forget(f) PROVE TypeOK'
    BY <2>6 DEF TypeOK, Forget
  <2>7. ASSUME NEW f \in Federates, Regulate(f) PROVE TypeOK'
    BY <2>7 DEF TypeOK, Regulate
  <2>8. ASSUME NEW f \in Federates, Unregulate(f) PROVE TypeOK'
    BY <2>8, TimeAssumption DEF TypeOK, Unregulate
  <2>9. ASSUME NEW f \in Federates, Constrain(f) PROVE TypeOK'
    BY <2>9 DEF TypeOK, Constrain
  <2>10. ASSUME NEW f \in Federates, Unconstrain(f) PROVE TypeOK'
    BY <2>10, TimeAssumption DEF TypeOK, Unconstrain
  <2>11. ASSUME NEW f \in Federates, Leave(f) PROVE TypeOK'
    BY <2>11, TimeAssumption DEF TypeOK, Leave
  <2> QED
    BY <2>1, <2>2, <2>3, <2>4, <2>5, <2>6, <2>7, <2>8, <2>9, <2>10, <2>11 DEF Next
<1> QED
  BY <1>1, <1>2, PTL DEF Spec

\* The promise of conservative synchronisation: no message is ever in the past of a
\* constrained federate, and none can be sent there.
THEOREM Safety == ASSUME TimeAssumption PROVE Spec => []Safe
<1> USE DEF TimeAssumption
<1>1. Init => Safe
  <2> SUFFICES ASSUME Init PROVE Safe
    OBVIOUS
  <2>1. NothingInThePast
    BY DEF Init, NothingInThePast
  <2>2. WithinPromises
    <3> SUFFICES ASSUME NEW f \in constrained, NEW g \in regulating \ {f}
                 PROVE  floor[f] <= promise[g]
      BY DEF WithinPromises
    <3>1. floor[f] = 0 /\ promise[g] \in Nat
      BY TimeAssumption DEF Init
    <3> QED
      BY <3>1
  <2> QED
    BY <2>1, <2>2 DEF Safe
<1>2. TypeOK /\ Safe /\ [Next]_vars => Safe'
  <2> SUFFICES ASSUME TypeOK, Safe, [Next]_vars PROVE Safe'
    OBVIOUS
  <2> USE TimeAssumption DEF Safe
  <2>1. CASE UNCHANGED vars
    BY <2>1 DEF vars, NothingInThePast, WithinPromises
  <2>2. ASSUME NEW g \in Federates, Send(g) PROVE Safe'
    <3>1. PICK t \in Time, self \in BOOLEAN :
            /\ g \in regulating /\ promise[g] <= t
            /\ self /\ g \in constrained => floor[g] <= t
            /\ pending' = [f \in Federates |->
                 IF f # g \/ self THEN pending[f] \cup {t} ELSE pending[f]]
            /\ UNCHANGED <<regulating, constrained, promise, floor>>
      BY <2>2 DEF Send
    <3>2. NothingInThePast'
      <4> SUFFICES ASSUME NEW f \in constrained, NEW u \in pending'[f] PROVE floor[f] <= u
        BY <3>1 DEF NothingInThePast
      <4>1. CASE u \in pending[f]
        BY <4>1 DEF NothingInThePast
      <4>2. CASE u \notin pending[f]
        <5>1. f \in Federates
          BY DEF TypeOK
        <5>2. u = t /\ (f # g \/ self)
          BY <3>1, <4>2, <5>1
        <5>3. CASE f = g
          BY <3>1, <5>2, <5>3
        <5>4. CASE f # g
          <6>1. floor[f] <= promise[g]
            BY <3>1, <5>4 DEF WithinPromises
          <6>2. floor[f] \in Nat /\ promise[g] \in Nat /\ t \in Nat
            BY <5>1 DEF TypeOK
          <6> QED
            BY <3>1, <5>2, <6>1, <6>2
        <5> QED
          BY <5>3, <5>4
      <4> QED
        BY <4>1, <4>2
    <3>3. WithinPromises'
      BY <3>1 DEF WithinPromises
    <3> QED
      BY <3>2, <3>3
  <2>3. ASSUME NEW g \in Federates, Raise(g) PROVE Safe'
    <3>1. NothingInThePast'
      BY <2>3 DEF Raise, NothingInThePast
    <3>2. WithinPromises'
      <4> SUFFICES ASSUME NEW f \in constrained, NEW h \in regulating \ {f}
                   PROVE  floor[f] <= promise'[h]
        BY <2>3 DEF Raise, WithinPromises
      <4>1. f \in Federates /\ h \in Federates /\ floor[f] \in Nat /\ promise[h] \in Nat
        BY DEF TypeOK
      <4>2. promise'[h] \in Nat /\ promise[h] <= promise'[h]
        BY <2>3, <4>1 DEF Raise, TypeOK
      <4> QED
        BY <4>1, <4>2 DEF WithinPromises
    <3> QED
      BY <3>1, <3>2
  <2>4. ASSUME NEW f \in Federates, Grant(f) PROVE Safe'
    BY <2>4 DEF Grant, Justified, NothingInThePast, WithinPromises, TypeOK
  <2>5. ASSUME NEW f \in Federates, Deliver(f) PROVE Safe'
    BY <2>5 DEF Deliver, NothingInThePast, WithinPromises, TypeOK
  <2>6. ASSUME NEW f \in Federates, Forget(f) PROVE Safe'
    BY <2>6 DEF Forget, NothingInThePast, WithinPromises, TypeOK
  <2>7. ASSUME NEW g \in Federates, Regulate(g) PROVE Safe'
    <3>1. PICK p \in Time, n \in Time :
            /\ Harmless(g, p)
            /\ IF g \in constrained THEN floor[g] <= n /\ Justified(g, n) ELSE n = 0
            /\ regulating' = regulating \cup {g}
            /\ promise' = [promise EXCEPT ![g] = p]
            /\ floor' = [floor EXCEPT ![g] = n]
            /\ UNCHANGED <<constrained, pending>>
      BY <2>7 DEF Regulate
    <3>2. NothingInThePast'
      BY <3>1 DEF Justified, NothingInThePast, TypeOK
    <3>3. WithinPromises'
      BY <3>1 DEF Justified, Harmless, WithinPromises, TypeOK
    <3> QED
      BY <3>2, <3>3
  <2>8. ASSUME NEW g \in Federates, Unregulate(g) PROVE Safe'
    BY <2>8 DEF Unregulate, NothingInThePast, WithinPromises, TypeOK
  <2>9. ASSUME NEW f \in Federates, Constrain(f) PROVE Safe'
    BY <2>9 DEF Constrain, Justified, NothingInThePast, WithinPromises, TypeOK
  <2>10. ASSUME NEW f \in Federates, Unconstrain(f) PROVE Safe'
    BY <2>10 DEF Unconstrain, NothingInThePast, WithinPromises, TypeOK
  <2>11. ASSUME NEW f \in Federates, Leave(f) PROVE Safe'
    BY <2>11 DEF Leave, NothingInThePast, WithinPromises, TypeOK
  <2> QED
    BY <2>1, <2>2, <2>3, <2>4, <2>5, <2>6, <2>7, <2>8, <2>9, <2>10, <2>11 DEF Next
<1> QED
  BY <1>1, <1>2, TypeInvariant, PTL DEF Spec

=============================================================================
