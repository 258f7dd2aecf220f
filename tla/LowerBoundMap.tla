---------------------------- MODULE LowerBoundMap ----------------------------
(***************************************************************************)
(* FederateHandleLowerBoundTimeStampMap.h: what one federate knows of the  *)
(* promises of the regulating federates.  A map m has one commit per       *)
(* regulating federate:                                                    *)
(*   ta      the time stamp it promised not to send below,                 *)
(*   nm      the promise that holds if it receives nothing any more (this  *)
(*           differs from ta only while it is in next message mode),       *)
(*   id      the last commit id seen from it,                              *)
(*   waitId  the own commit id it has acknowledged last,                   *)
(*   locked  whether it says it only waits for next message federates.     *)
(* The two reference counted time maps of the code only serve to find the  *)
(* least ta and the least nm in constant time; here they are computed.     *)
(***************************************************************************)
EXTENDS LogicalTime

CommitTypes == (SUBSET {"TA", "NM"}) \ {{}}

isInNextMessageMode(c) == c.ta # c.nm

insert(m, g, t, nmt, id, beforeOwnCommitId) ==
  Put(m, g, [ta |-> t, nm |-> nmt, id |-> id,
             waitId |-> beforeOwnCommitId, locked |-> FALSE])

erase(m, g) == Drop(m, g)

\* The commit of g after it committed t as type; a commit that ends next message
\* mode also clears the locked flag.
Committed(c, t, type, id) ==
  LET ta == IF "TA" \in type THEN t ELSE c.ta
      nm == IF "NM" \in type THEN t ELSE c.nm
  IN  [c EXCEPT !.ta = ta, !.nm = nm, !.id = id,
                !.locked = @ /\ ta # nm]

commit(m, g, t, type, id) == [m EXCEPT ![g] = Committed(@, t, type, id)]

\* Second member of the pair that commit returns: the commit id is a new one.
commitIdChanged(m, g, id) == m[g].id # id

getGALT(m) == Min({m[g].ta : g \in DOMAIN m})
getNextMessageGALT(m) == Min({m[g].nm : g \in DOMAIN m})

\* Wrong: a full advance up to the bound itself
Admits_Inclusive(p, bound) == p[1] <= bound

\* p may be reached: for a full advance (0 < p[2]) strictly before the bound
Admits(p, bound) == IF 0 < p[2] THEN p[1] < bound ELSE p[1] <= bound

canAdvanceTo(m, p) == DOMAIN m # {} => Admits(p, getGALT(m))
canAdvanceToNextMessage(m, p) == DOMAIN m # {} => Admits(p, getNextMessageGALT(m))

setFederateWaitCommitId(m, g, id) ==
  IF g \in DOMAIN m THEN [m EXCEPT ![g].waitId = id] ELSE m

setFederateLockedByNextMessage(m, g, locked) ==
  IF g \in DOMAIN m THEN [m EXCEPT ![g].locked = locked] ELSE m

getConstrainedByNextMessage(m) ==
  DOMAIN m # {} /\ getGALT(m) < getNextMessageGALT(m)

\* The federates whose next message request holds back the bound
Blocking(m) == {g \in DOMAIN m : /\ m[g].ta < getNextMessageGALT(m)
                                 /\ isInNextMessageMode(m[g])}

mapLockedByNextMessage(m, commitId) ==
  /\ getConstrainedByNextMessage(m)
  /\ \A g \in Blocking(m) : m[g].waitId = commitId

mapSafeToAdvanceToNextMessage(m, commitId) ==
  /\ getConstrainedByNextMessage(m)
  /\ \A g \in Blocking(m) : m[g].waitId = commitId /\ m[g].locked

getNextMessageFederates(m) == {g \in DOMAIN m : isInNextMessageMode(m[g])}

=============================================================================
