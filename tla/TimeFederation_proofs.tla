----------------------- MODULE TimeFederation_proofs ------------------------
(***************************************************************************)
(* The federation, for every set of federates, every program and every     *)
(* bound.                                                                  *)
(*                                                                         *)
(* First the lower bound map: the least of the committed times exists and  *)
(* bounds them all, and what may be reached stays so when a federate       *)
(* commits more or leaves.                                                 *)
(*                                                                         *)
(* Then the ambassador by itself: every operation of TimeManagement maps a *)
(* state to a state, and hands only well formed messages to the connect.   *)
(* One lemma per operator, in the order of TimeManagement; after those     *)
(* about types, what each operation leaves alone (Steady, Alike, Quiet)    *)
(* and the invariant LocalOK that relates the modes, the queue of          *)
(* callbacks and the commit of one ambassador.  The proofs about the       *)
(* federation know an operation only through these lemmas.                 *)
(*                                                                         *)
(* Then the calls, the server and the connects, one step per action: type  *)
(* correctness, and that no message is answered with an error              *)
(* (ProtocolErrorFree).  The inductive invariant, Consistent, reads a      *)
(* connect as the run of an automaton: what is on its way from a federate  *)
(* leads from what the server knows of it to the modes it has, and what is *)
(* on its way to a federate leads from its map of the others to what the   *)
(* server knows of them.                                                   *)
(*                                                                         *)
(* At the end, what TimeRefinement_proofs needs to know of the operations  *)
(* of ordinary programs, which advance by time advance and flush queue     *)
(* requests, one at a time: each operation keeps a federate Timely, and    *)
(* sends no time stamp below what it has committed (Goes).                 *)
(***************************************************************************)
EXTENDS TimeFederation, Queues

-----------------------------------------------------------------------------
(* Maps *)

LEMMA PutMap ==
  ASSUME NEW m, NEW K, NEW V, IsMap(m, K, V), NEW k \in K, NEW v \in V
  PROVE  IsMap(Put(m, k, v), K, V) /\ DOMAIN Put(m, k, v) = DOMAIN m \cup {k}
BY DEF IsMap, Put

LEMMA DropMap ==
  ASSUME NEW m, NEW K, NEW V, IsMap(m, K, V), NEW k
  PROVE  IsMap(Drop(m, k), K, V) /\ DOMAIN Drop(m, k) = DOMAIN m \ {k}
BY DEF IsMap, Drop

-----------------------------------------------------------------------------
(* The bounds *)

HasBounds(m) == \A g \in DOMAIN m : m[g].ta \in Nat /\ m[g].nm \in Nat

\* getGALT is the greatest lower bound of the committed times.
LEMMA getGALTBound ==
  ASSUME NEW m, HasBounds(m), DOMAIN m # {}
  PROVE  /\ getGALT(m) \in Nat
         /\ \E g \in DOMAIN m : getGALT(m) = m[g].ta
         /\ \A g \in DOMAIN m : getGALT(m) <= m[g].ta
<1> DEFINE S == {m[g].ta : g \in DOMAIN m}
<1>1. S \in SUBSET Nat /\ S # {}
  BY DEF HasBounds
<1>2. Min(S) \in S /\ \A y \in S : Min(S) <= y
  BY <1>1, MinNat
<1> QED
  BY <1>1, <1>2 DEF getGALT

LEMMA getNextMessageGALTBound ==
  ASSUME NEW m, HasBounds(m), DOMAIN m # {}
  PROVE  /\ getNextMessageGALT(m) \in Nat
         /\ \E g \in DOMAIN m : getNextMessageGALT(m) = m[g].nm
         /\ \A g \in DOMAIN m : getNextMessageGALT(m) <= m[g].nm
<1> DEFINE S == {m[g].nm : g \in DOMAIN m}
<1>1. S \in SUBSET Nat /\ S # {}
  BY DEF HasBounds
<1>2. Min(S) \in S /\ \A y \in S : Min(S) <= y
  BY <1>1, MinNat
<1> QED
  BY <1>1, <1>2 DEF getNextMessageGALT

\* A time that may be reached is below the committed time of every regulating federate,
\* strictly so for a full advance.
THEOREM canAdvanceToSafe ==
  ASSUME NEW m, HasBounds(m), NEW p \in TimePairs, canAdvanceTo(m, p), NEW g \in DOMAIN m
  PROVE  _toLogicalTime(p) <= m[g].ta
<1>1. getGALT(m) \in Nat /\ getGALT(m) <= m[g].ta /\ m[g].ta \in Nat
  BY getGALTBound DEF HasBounds
<1>2. Admits(p, getGALT(m))
  BY DEF canAdvanceTo
<1> QED
  BY <1>1, <1>2 DEF Admits, _toLogicalTime, nextAfter, TimePairs

\* What may be reached stays so: a commit of a later time takes nothing back.
THEOREM commitKeepsAdvance ==
  ASSUME NEW m, HasBounds(m), NEW p \in TimePairs, canAdvanceTo(m, p),
         NEW g \in DOMAIN m, NEW t \in Nat, m[g].ta <= t,
         NEW type \in CommitTypes, NEW id,
         DOMAIN m[g] = {"ta", "nm", "id", "waitId", "locked"}
  PROVE  canAdvanceTo(commit(m, g, t, type, id), p)
<1> DEFINE n == commit(m, g, t, type, id)
<1>1. DOMAIN n = DOMAIN m
  BY DEF commit
<1>2. \A h \in DOMAIN m : h # g => n[h] = m[h]
  BY DEF commit
<1>3. n[g] = Committed(m[g], t, type, id)
  BY DEF commit
<1>4. n[g].ta = (IF "TA" \in type THEN t ELSE m[g].ta) /\ n[g].nm = (IF "NM" \in type THEN t ELSE m[g].nm)
  BY <1>3 DEF Committed
<1>5. HasBounds(n)
  BY <1>1, <1>2, <1>4 DEF HasBounds
<1>6. PICK h \in DOMAIN n : getGALT(n) = n[h].ta
  BY <1>1, <1>5, getGALTBound
<1>7. getGALT(m) \in Nat /\ getGALT(m) <= m[h].ta /\ m[h].ta \in Nat
  BY <1>1, getGALTBound DEF HasBounds
<1>8. n[h].ta \in Nat /\ m[h].ta <= n[h].ta
  BY <1>1, <1>2, <1>4, <1>5, <1>7 DEF HasBounds
<1>9. Admits(p, getGALT(m))
  BY DEF canAdvanceTo
<1>10. Admits(p, getGALT(n))
  BY <1>6, <1>7, <1>8, <1>9 DEF Admits, TimePairs
<1> QED
  BY <1>10 DEF canAdvanceTo

\* Nor does the resignation of a regulating federate, or its disabling of time regulation.
THEOREM eraseKeepsAdvance ==
  ASSUME NEW m, HasBounds(m), NEW p \in TimePairs, canAdvanceTo(m, p), NEW g
  PROVE  canAdvanceTo(erase(m, g), p)
<1> DEFINE n == erase(m, g)
<1>1. DOMAIN n = DOMAIN m \ {g} /\ \A h \in DOMAIN n : n[h] = m[h]
  BY DEF erase, Drop
<1> SUFFICES ASSUME DOMAIN n # {} PROVE Admits(p, getGALT(n))
  BY DEF canAdvanceTo
<1>2. HasBounds(n)
  BY <1>1 DEF HasBounds
<1> HIDE DEF n
<1>3. PICK h \in DOMAIN n : getGALT(n) = n[h].ta
  BY <1>2, getGALTBound
<1>4. getGALT(m) \in Nat /\ getGALT(m) <= n[h].ta /\ n[h].ta \in Nat
  BY <1>1, <1>3, getGALTBound DEF HasBounds
<1>5. Admits(p, getGALT(m))
  BY <1>1, <1>3 DEF canAdvanceTo
<1> QED
  BY <1>3, <1>4, <1>5 DEF Admits, TimePairs

-----------------------------------------------------------------------------
(* Numbers, pairs, sequences *)

LEMMA MaxMinType ==
  ASSUME NEW a \in Nat, NEW b \in Nat
  PROVE  Max2(a, b) \in Nat /\ Min2(a, b) \in Nat
BY DEF Max2, Min2

LEMMA PairTypes ==
  ASSUME NEW p \in TimePairs
  PROVE  /\ p[1] \in Nat
         /\ _toLogicalTime(p) \in Nat
         /\ \A q \in TimePairs : PairMax(p, q) \in TimePairs
         /\ \A i \in Int : PairMax(p, <<i, 0>>) \in TimePairs
BY DEF TimePairs, _toLogicalTime, nextAfter, PairMax, PairLess

LEMMA CommitIdTypes ==
  /\ InitialCommitId \in CommitIds
  /\ \A i \in CommitIds : NextCommitId(i) \in CommitIds /\ PreviousCommitId(i) \in CommitIds
<1>1. CommitIdModulus \in Nat /\ 18 < CommitIdModulus
  BY ModulusAssumption
<1>2. \A n \in Nat : n % CommitIdModulus \in 0 .. CommitIdModulus - 1
  BY <1>1
<1>3. InitialCommitId \in CommitIds
  BY <1>1 DEF InitialCommitId, CommitIds
<1>4. ASSUME NEW i \in CommitIds PROVE i + 1 \in Nat /\ i + CommitIdModulus - 1 \in Nat
  BY <1>1, <1>4 DEF CommitIds
<1> QED
  BY <1>2, <1>3, <1>4 DEF NextCommitId, PreviousCommitId, CommitIds

LEMMA ImageFinite ==
  ASSUME NEW F, IsFiniteSet(DOMAIN F)
  PROVE  IsFiniteSet({F[x] : x \in DOMAIN F})
<1> DEFINE T == {F[x] : x \in DOMAIN F}
           G == [x \in DOMAIN F |-> F[x]]
<1>1. G \in [DOMAIN F -> T] /\ \A t \in T : \E x \in DOMAIN F : G[x] = t
  OBVIOUS
<1>2. G \in Surjection(DOMAIN F, T)
  <2> HIDE DEF G, T
  <2> QED
    BY <1>1 DEF Surjection
<1> QED
  BY <1>2, FS_Surjection

\* A finite subset of the federates
LEMMA FederatesFinite ==
  ASSUME NEW S \in SUBSET Federates
  PROVE  IsFiniteSet(S)
BY FS_Subset, FederatesAssumption

-----------------------------------------------------------------------------
(* The state and the messages *)

Entries == [at : TimePairs, msg : Callbacks]

LEMMA Fields ==
  ASSUME NEW s, IsState(s)
  PROVE  /\ s.known \in SUBSET Federates /\ s.enableSet \in SUBSET Federates
         /\ s.reg \in Modes /\ s.con \in Modes /\ s.adv \in AdvanceModes
         /\ s.now \in TimePairs /\ s.pend \in TimePairs
         /\ s.out \in TimePairs /\ s.last \in TimePairs
         /\ s.cTA \in Nat /\ s.cNM \in Nat /\ s.curLA \in Nat /\ s.tgtLA \in Nat
         /\ IsMap(s.bounds, Federates, Commits) /\ IsMap(s.stamps, Federates, Nat)
         /\ s.sched \in BOOLEAN /\ s.async \in BOOLEAN /\ s.allowPend \in BOOLEAN
         /\ s.commitId \in CommitIds
         /\ s.tso \in Seq(Entries) /\ s.ro \in Seq(DataMessages) /\ s.sent \in Seq(ToServer)
BY DEF IsState, Entries

LEMMA BoundsTypes ==
  ASSUME NEW s, IsState(s)
  PROVE  /\ HasBounds(s.bounds)
         /\ DOMAIN s.bounds # {} => getGALT(s.bounds) \in Nat /\ getNextMessageGALT(s.bounds) \in Nat
<1>1. HasBounds(s.bounds)
  BY Fields DEF HasBounds, IsMap, Commits
<1> QED
  BY <1>1, getGALTBound, getNextMessageGALTBound

LEMMA MessageTypes ==
  ASSUME NEW f \in Federates, NEW g \in Federates, NEW t \in Nat, NEW id \in CommitIds,
         NEW b \in BOOLEAN, NEW type \in CommitTypes, NEW order \in {"TSO", "RO"}
  PROVE  /\ EnableRequest(f, t, id) \in Relayed
         /\ EnableResponse(g, f, t, b) \in Relayed
         /\ CommitMessage(f, t, type, id) \in Relayed
         /\ CommitResponse(g, f, id) \in Relayed
         /\ LockedMessage(f, b) \in Relayed
         /\ TimeStamped(f, t, order) \in DataMessages
<1>1. EnableRequest(f, t, id) \in EnableRequests
  BY DEF EnableRequest, EnableRequests
<1>2. EnableResponse(g, f, t, b) \in EnableResponses
  BY DEF EnableResponse, EnableResponses
<1>3. CommitMessage(f, t, type, id) \in CommitMessages
  BY DEF CommitMessage, CommitMessages
<1>4. CommitResponse(g, f, id) \in CommitResponseMessages
  BY DEF CommitResponse, CommitResponseMessages
<1>5. LockedMessage(f, b) \in LockedMessages
  BY DEF LockedMessage, LockedMessages
<1>6. TimeStamped(f, t, order) \in DataMessages
  BY DEF TimeStamped, DataMessages
<1> QED
  BY <1>1, <1>2, <1>3, <1>4, <1>5, <1>6 DEF Relayed

LEMMA NoticeTypes ==
  ASSUME NEW f \in Federates
  PROVE  /\ DisableRequest(f) \in ToServer
         /\ ConstrainedNotify(f) \in ToServer
         /\ UnconstrainedNotify(f) \in ToServer
BY DEF DisableRequest, ConstrainedNotify, UnconstrainedNotify, ToServer, Notices

LEMMA RelayedTypes ==
  Relayed \subseteq ToServer /\ Relayed \subseteq ToFederate /\ DataMessages \subseteq Relayed
  /\ DataMessages \subseteq Callbacks
BY DEF Relayed, ToServer, ToFederate, Callbacks

LEMMA sendType ==
  ASSUME NEW s, IsState(s), NEW m \in ToServer
  PROVE  IsState(send(s, m))
<1>1. s.sent \in Seq(ToServer)
  BY Fields
<1>2. Append(s.sent, m) \in Seq(ToServer)
  BY <1>1
<1>3. ASSUME NEW q \in Seq(ToServer) PROVE IsState([s EXCEPT !.sent = q])
  BY DEF IsState
<1> QED
  BY <1>2, <1>3 DEF send

-----------------------------------------------------------------------------
(* Committing *)

LEMMA sendCommitType ==
  ASSUME NEW f \in Federates, NEW s, IsState(s), NEW t \in Nat, NEW type \in CommitTypes
  PROVE  IsState(_sendCommitLowerBoundTimeStamp(f, s, t, type))
<1> DEFINE ta == IF "TA" \in type THEN t ELSE s.cTA
           nm == IF "NM" \in type THEN t ELSE s.cNM
           id == IF "NM" \in type /\ ta # nm THEN NextCommitId(s.commitId) ELSE s.commitId
           r  == [s EXCEPT !.cTA = ta, !.cNM = nm, !.commitId = id]
<1>1. ta \in Nat /\ nm \in Nat
  BY Fields
<1>2. id \in CommitIds
  BY Fields, CommitIdTypes
<1>3. IsState(r)
  <2> HIDE DEF ta, nm, id
  <2> QED
    BY <1>1, <1>2 DEF IsState
<1>4. CommitMessage(f, t, type, id) \in ToServer
  BY <1>2, MessageTypes, RelayedTypes
<1> HIDE DEF r, id
<1>5. IsState(send(r, CommitMessage(f, t, type, id)))
  BY <1>3, <1>4, sendType
<1> QED
  BY <1>5 DEF _sendCommitLowerBoundTimeStamp, r, id

LEMMA sendCommitIfChangedType ==
  ASSUME NEW f \in Federates, NEW s, IsState(s), NEW t \in Nat, NEW type \in CommitTypes
  PROVE  IsState(_sendCommitIfChanged(f, s, t, type))
<1> DEFINE changed == {c \in type : IF c = "TA" THEN s.cTA < t ELSE s.cNM # t}
<1>1. changed = {} \/ changed \in CommitTypes
  BY DEF CommitTypes
<1> HIDE DEF changed
<1>2. changed # {} => IsState(_sendCommitLowerBoundTimeStamp(f, s, t, changed))
  BY <1>1, sendCommitType
<1> QED
  BY <1>2 DEF _sendCommitIfChanged, changed

LEMMA secondFieldTypes ==
  ASSUME NEW s, NEW lookahead
  PROVE  /\ _getPendingTimeSecondField(s) \in {0, 1}
         /\ _getOutboundLowerTimeStampSecondField(s, lookahead) \in {0, 1}
BY DEF _getPendingTimeSecondField, _getOutboundLowerTimeStampSecondField

LEMMA sendCommitPlusLookaheadType ==
  ASSUME NEW f \in Federates, NEW s, IsState(s), NEW t \in Nat, NEW lookahead \in Nat,
         NEW type \in CommitTypes
  PROVE  IsState(_sendCommitPlusLookahead(f, s, t, lookahead, type))
<1> DEFINE second == _getOutboundLowerTimeStampSecondField(s, lookahead)
           bound  == _toLogicalTime(<<t + lookahead, second>>)
<1>1. <<t + lookahead, second>> \in TimePairs
  BY secondFieldTypes DEF TimePairs
<1>2. bound \in Nat
  BY <1>1, PairTypes
<1>3. Max2(bound, s.cTA) \in Nat
  BY <1>2, Fields, MaxMinType
<1>4. IsState(_sendCommitIfChanged(f, s, Max2(bound, s.cTA), type))
  BY <1>3, sendCommitIfChangedType
<1> QED
  BY <1>4 DEF _sendCommitPlusLookahead

LEMMA lockedType ==
  ASSUME NEW s PROVE getLockedByNextMessage(s) \in BOOLEAN
BY DEF getLockedByNextMessage, mapLockedByNextMessage, getIsAnyNextMessageMode, getConstrainedByNextMessage

LEMMA sendLockedType ==
  ASSUME NEW f \in Federates, NEW before, NEW s, IsState(s)
  PROVE  IsState(_sendLockedIfChanged(f, before, s))
<1>1. \A b \in BOOLEAN : LockedMessage(f, b) \in LockedMessages
  BY DEF LockedMessage, LockedMessages
<1>2. LockedMessage(f, getLockedByNextMessage(s)) \in ToServer
  BY <1>1, lockedType DEF Relayed, ToServer
<1>3. IsState(send(s, LockedMessage(f, getLockedByNextMessage(s))))
  BY <1>2, sendType
<1> QED
  BY <1>3 DEF _sendLockedIfChanged

LEMMA setOutboundType ==
  ASSUME NEW s, IsState(s), NEW t \in Nat, NEW lastOutbound \in TimePairs
  PROVE  IsState(_setOutboundLowerTimeStampAndCurrentLookahead(s, t, lastOutbound))
<1> DEFINE new == <<t + s.tgtLA, _getOutboundLowerTimeStampSecondField(s, s.tgtLA)>>
           la  == Min2(lastOutbound[1] - t, s.tgtLA)
<1>1. s.tgtLA \in Nat
  BY Fields
<1>2. new \in TimePairs
  BY <1>1, secondFieldTypes DEF TimePairs
<1>3. ASSUME PairLess(new, lastOutbound) PROVE la \in Nat
  BY <1>1, <1>2, <1>3 DEF PairLess, TimePairs, Min2
<1>4. ASSUME NEW o \in TimePairs, NEW l \in Nat PROVE IsState([s EXCEPT !.out = o, !.curLA = l])
  BY DEF IsState
<1> QED
  BY <1>1, <1>2, <1>3, <1>4 DEF _setOutboundLowerTimeStampAndCurrentLookahead

-----------------------------------------------------------------------------
(* The queue *)

LEMMA queueAtType ==
  ASSUME NEW s, IsState(s), NEW p \in TimePairs, NEW m \in Callbacks
  PROVE  IsState(queueAt(s, p, m))
<1> DEFINE q == s.tso
           notAfter(i) == i <= Len(q) /\ PairLeq(q[i].at, p)
           new == [i \in 1 .. Len(q) + 1 |->
                    IF notAfter(i) THEN q[i]
                    ELSE IF i = 1 \/ notAfter(i - 1) THEN [at |-> p, msg |-> m]
                    ELSE q[i - 1]]
<1>1. q \in Seq(Entries) /\ Len(q) \in Nat
  BY Fields
<1>2. [at |-> p, msg |-> m] \in Entries
  BY DEF Entries
<1>3. \A i \in 1 .. Len(q) : q[i] \in Entries
  BY <1>1
<1>4. ASSUME NEW i \in 1 .. Len(q) + 1 PROVE new[i] \in Entries
  BY <1>1, <1>2, <1>3, <1>4
<1>5. new \in Seq(Entries)
  <2>1. new \in [1 .. Len(q) + 1 -> Entries]
    BY <1>4
  <2> HIDE DEF new
  <2> QED
    BY <1>1, <2>1
<1>6. ASSUME NEW r \in Seq(Entries) PROVE IsState([s EXCEPT !.tso = r])
  BY DEF IsState, Entries
<1>7. IsState([s EXCEPT !.tso = new])
  BY <1>5, <1>6
<1> QED
  BY <1>7 DEF queueAt

LEMMA leastType ==
  ASSUME NEW s, IsState(s), s.tso # <<>>
  PROVE  /\ getLeastIncomingTimepair(s) \in TimePairs
         /\ Head(s.tso).msg \in Callbacks
         /\ Tail(s.tso) \in Seq(Entries)
<1>1. s.tso \in Seq(Entries)
  BY Fields
<1>2. Head(s.tso) \in Entries /\ Tail(s.tso) \in Seq(Entries)
  BY <1>1
<1> QED
  BY <1>2 DEF getLeastIncomingTimepair, Entries

LEMMA NotificationTypes ==
  Granted \in Callbacks /\ RegulationEnabled \in Callbacks /\ ConstrainedEnabled \in Callbacks
BY DEF Granted, RegulationEnabled, ConstrainedEnabled, Callbacks

LEMMA schedType ==
  ASSUME NEW s, IsState(s), NEW b \in BOOLEAN
  PROVE  IsState([s EXCEPT !.sched = b])
BY DEF IsState

LEMMA BothCommits == {"TA", "NM"} \in CommitTypes /\ {"TA"} \in CommitTypes /\ {"NM"} \in CommitTypes
BY DEF CommitTypes

LEMMA scheduledType ==
  ASSUME NEW s, IsState(s)
  PROVE  IsState(queueAt([s EXCEPT !.sched = FALSE], s.pend, Granted))
BY Fields, schedType, queueAtType, NotificationTypes

LEMMA checkForPendingTimeAdvanceType ==
  ASSUME NEW f \in Federates, NEW s, IsState(s), NEW allow \in BOOLEAN
  PROVE  IsState(checkForPendingTimeAdvance(f, s, allow))
<1> DEFINE nextMessage == allow /\ getIsSafeToAdvanceToNextMessage(s)
           reached == IF nextMessage
                      THEN canAdvanceToNextMessage(s.bounds, <<s.pend[1], 0>>)
                      ELSE canAdvanceTo(s.bounds, <<s.pend[1], 0>>)
           galt == IF nextMessage THEN getNextMessageGALT(s.bounds) ELSE getGALT(s.bounds)
           scheduled == queueAt([s EXCEPT !.sched = FALSE], s.pend, Granted)
<1>1. IsState(scheduled)
  BY scheduledType
<1>2. s.pend[1] \in Nat /\ s.tgtLA \in Nat
  BY Fields, PairTypes
<1>3. ~reached => galt \in Nat
  BY BoundsTypes DEF canAdvanceToNextMessage, canAdvanceTo
<1> HIDE DEF scheduled, galt, reached
<1>4. IsState(_sendCommitPlusLookahead(f, scheduled, s.pend[1], s.tgtLA, {"TA", "NM"}))
  BY <1>1, <1>2, BothCommits, sendCommitPlusLookaheadType
<1>5. ~reached => IsState(_sendCommitPlusLookahead(f, s, galt, s.tgtLA, {"TA"}))
  BY <1>2, <1>3, BothCommits, sendCommitPlusLookaheadType
<1> QED
  BY <1>1, <1>4, <1>5 DEF checkForPendingTimeAdvance, scheduled, galt, reached

LEMMA checkForPendingFlushQueueType ==
  ASSUME NEW s, IsState(s)
  PROVE  IsState(checkForPendingFlushQueue(s))
BY scheduledType DEF checkForPendingFlushQueue

LEMMA checkTimeRegulationEnabledType ==
  ASSUME NEW f \in Federates, NEW s, IsState(s)
  PROVE  IsState(checkTimeRegulationEnabled(f, s))
<1> DEFINE larger == {s.stamps[g] : g \in DOMAIN s.stamps} \cup {s.out[1]}
           bound  == Max(larger)
           pend   == IF bound = s.out[1] THEN s.pend
                     ELSE PairMax(s.pend, <<bound - s.curLA, 0>>)
           ready  == [s EXCEPT !.out = <<bound, 0>>, !.pend = pend, !.stamps = EmptyMap]
<1>1. s.out[1] \in Nat /\ s.curLA \in Nat /\ s.pend \in TimePairs
  BY Fields, PairTypes
<1>2. IsMap(s.stamps, Federates, Nat)
  BY Fields
<1>3. IsFiniteSet({s.stamps[g] : g \in DOMAIN s.stamps})
  BY <1>2, FederatesFinite, ImageFinite DEF IsMap
<1>4. IsFiniteSet(larger) /\ larger \in SUBSET Nat /\ larger # {}
  BY <1>1, <1>2, <1>3, FS_AddElement DEF IsMap
<1>5. bound \in Nat
  <2> HIDE DEF larger
  <2> QED
    BY <1>4, MaxNat
<1> HIDE DEF bound
<1>6. pend \in TimePairs
  BY <1>1, <1>5, PairTypes
<1>7. IsMap(EmptyMap, Federates, Nat)
  BY DEF IsMap, EmptyMap
<1>8. <<bound, 0>> \in TimePairs
  BY <1>5 DEF TimePairs
<1>9. ASSUME NEW o \in TimePairs, NEW n \in TimePairs, NEW e, IsMap(e, Federates, Nat)
      PROVE  IsState([s EXCEPT !.out = o, !.pend = n, !.stamps = e])
  BY <1>9 DEF IsState
<1>10. IsState(ready)
  <2> HIDE DEF pend
  <2> QED
    BY <1>6, <1>7, <1>8, <1>9
<1> HIDE DEF ready, pend
<1>11. IsState(_sendCommitLowerBoundTimeStamp(f, ready, bound, {"TA", "NM"}))
  BY <1>5, <1>10, BothCommits, sendCommitType
<1>12. IsState(queueAt(_sendCommitLowerBoundTimeStamp(f, ready, bound, {"TA", "NM"}),
                       pend, RegulationEnabled))
  BY <1>6, <1>11, NotificationTypes, queueAtType
<1> QED
  BY <1>12 DEF checkTimeRegulationEnabled, ready, pend, bound

LEMMA CommitResponsesType ==
  ASSUME NEW f \in Federates, NEW s, IsState(s)
  PROVE  CommitResponses(f, s) \in Seq(ToServer)
<1> DEFINE nm == getNextMessageFederates(s.bounds)
           R  == [g \in nm |-> CommitResponse(g, f, s.bounds[g].id)]
           S  == {CommitResponse(g, f, s.bounds[g].id) : g \in nm}
<1>1. IsMap(s.bounds, Federates, Commits)
  BY Fields
<1>2. nm \in SUBSET Federates /\ \A g \in nm : s.bounds[g].id \in CommitIds
  BY <1>1 DEF getNextMessageFederates, IsMap, Commits
<1>3. IsFiniteSet(DOMAIN R)
  BY <1>2, FederatesFinite
<1>4. S = {R[g] : g \in DOMAIN R}
  OBVIOUS
<1>5. IsFiniteSet(S)
  <2> HIDE DEF R, S
  <2> QED
    BY <1>3, <1>4, ImageFinite
<1>6. S \in SUBSET ToServer
  <2> SUFFICES ASSUME NEW g \in nm PROVE CommitResponse(g, f, s.bounds[g].id) \in ToServer
    OBVIOUS
  <2>1. CommitResponse(g, f, s.bounds[g].id) \in CommitResponseMessages
    BY <1>2 DEF CommitResponse, CommitResponseMessages
  <2> QED
    BY <2>1 DEF Relayed, ToServer
<1>7. SetToSeq(S) \in Seq(ToServer)
  <2> HIDE DEF S
  <2> QED
    BY <1>5, <1>6, SetToSeqType
<1> QED
  BY <1>7 DEF CommitResponses

-----------------------------------------------------------------------------
(* The calls of the federate *)

LEMMA enableTimeRegulationType ==
  ASSUME NEW f \in Federates, NEW s, IsState(s), NEW t \in Nat, NEW lookahead \in Nat
  PROVE  IsState(_enableTimeRegulation(f, s, t, lookahead))
<1> DEFINE pend  == PairMax(s.now, <<t, 0>>)
           bound == pend[1] + lookahead
           r     == [s EXCEPT !.reg = "EnablePending", !.curLA = lookahead, !.tgtLA = lookahead,
                              !.pend = pend, !.out = <<bound, 0>>, !.last = <<bound, 0>>,
                              !.cTA = bound, !.cNM = bound,
                              !.enableSet = s.known \cup {f}]
           asked == send(r, EnableRequest(f, bound, s.commitId))
<1>1. pend \in TimePairs
  BY Fields, PairTypes
<1>2. bound \in Nat
  BY <1>1, PairTypes
<1>3. <<bound, 0>> \in TimePairs
  BY <1>2 DEF TimePairs
<1>4. s.known \cup {f} \in SUBSET Federates
  BY Fields
<1>5. IsState(r)
  <2>1. ASSUME NEW p \in TimePairs, NEW o \in TimePairs, NEW b \in Nat, NEW e \in SUBSET Federates
        PROVE  IsState([s EXCEPT !.reg = "EnablePending", !.curLA = lookahead,
                                 !.tgtLA = lookahead, !.pend = p, !.out = o, !.last = o,
                                 !.cTA = b, !.cNM = b, !.enableSet = e])
    BY DEF IsState, Modes
  <2> HIDE DEF pend, bound
  <2> QED
    BY <1>1, <1>2, <1>3, <1>4, <2>1
<1>6. EnableRequest(f, bound, s.commitId) \in ToServer
  <2> HIDE DEF bound
  <2>1. EnableRequest(f, bound, s.commitId) \in EnableRequests
    BY <1>2, Fields DEF EnableRequest, EnableRequests
  <2> QED
    BY <2>1 DEF Relayed, ToServer
<1> HIDE DEF r
<1>7. IsState(asked)
  <2> HIDE DEF bound
  <2> QED
    BY <1>5, <1>6, sendType
<1>8. asked.sent \o CommitResponses(f, s) \in Seq(ToServer)
  <2> HIDE DEF asked
  <2>1. asked.sent \in Seq(ToServer) /\ CommitResponses(f, s) \in Seq(ToServer)
    BY <1>7, Fields, CommitResponsesType
  <2> QED
    BY <2>1
<1> HIDE DEF asked
<1>9. ASSUME NEW q \in Seq(ToServer) PROVE IsState([asked EXCEPT !.sent = q])
  BY <1>7 DEF IsState
<1>10. IsState([asked EXCEPT !.sent = asked.sent \o CommitResponses(f, s)])
  BY <1>8, <1>9
<1> QED
  BY <1>10 DEF _enableTimeRegulation, asked, r

LEMMA InitialPair == <<InitialTime, 0>> \in TimePairs /\ InitialTime \in Nat
BY DEF InitialTime, TimePairs

LEMMA disableTimeRegulationType ==
  ASSUME NEW f \in Federates, NEW s, IsState(s)
  PROVE  IsState(disableTimeRegulation(f, s))
<1> DEFINE r == [s EXCEPT !.reg = "Disabled", !.curLA = s.tgtLA,
                          !.out = <<InitialTime, 0>>, !.last = <<InitialTime, 0>>,
                          !.cTA = InitialTime, !.cNM = InitialTime]
<1>1. ASSUME NEW p \in TimePairs, NEW n \in Nat, NEW l \in Nat
      PROVE  IsState([s EXCEPT !.reg = "Disabled", !.curLA = l, !.out = p, !.last = p,
                               !.cTA = n, !.cNM = n])
  BY DEF IsState, Modes
<1>2. IsState(r)
  BY <1>1, InitialPair, Fields
<1> HIDE DEF r
<1>3. IsState(send(r, DisableRequest(f)))
  BY <1>2, NoticeTypes, sendType
<1> QED
  BY <1>3 DEF disableTimeRegulation, r

LEMMA enableTimeConstrainedType ==
  ASSUME NEW f \in Federates, NEW s, IsState(s)
  PROVE  IsState(enableTimeConstrained(f, s))
<1> DEFINE pend == <<s.now[1], 0>>
           r == [s EXCEPT !.con = "EnablePending", !.pend = pend]
<1>1. pend \in TimePairs
  BY Fields, PairTypes DEF TimePairs
<1>2. ASSUME NEW p \in TimePairs PROVE IsState([s EXCEPT !.con = "EnablePending", !.pend = p])
  BY DEF IsState, Modes
<1>3. IsState(r)
  <2> HIDE DEF pend
  <2> QED
    BY <1>1, <1>2
<1> HIDE DEF pend, r
<1>4. IsState(queueAt(r, pend, ConstrainedEnabled))
  BY <1>1, <1>3, NotificationTypes, queueAtType
<1>5. IsState(send(queueAt(r, pend, ConstrainedEnabled), ConstrainedNotify(f)))
  BY <1>4, NoticeTypes, sendType
<1> QED
  BY <1>5 DEF enableTimeConstrained, pend, r

LEMMA disableTimeConstrainedType ==
  ASSUME NEW f \in Federates, NEW s, IsState(s)
  PROVE  IsState(disableTimeConstrained(f, s))
<1>1. IsState([s EXCEPT !.con = "Disabled"])
  BY DEF IsState, Modes
<1>2. IsState(send([s EXCEPT !.con = "Disabled"], UnconstrainedNotify(f)))
  BY <1>1, NoticeTypes, sendType
<1> QED
  BY <1>2 DEF disableTimeConstrained

LEMMA pendType ==
  ASSUME NEW s, IsState(s), NEW p \in TimePairs
  PROVE  IsState([s EXCEPT !.pend = p])
BY DEF IsState

LEMMA beginAdvanceType ==
  ASSUME NEW s, IsState(s), NEW t \in Nat, NEW mode \in AdvanceModes
  PROVE  IsState(_beginAdvance(s, t, mode))
<1> DEFINE a == [s EXCEPT !.adv = mode]
           p == PairMax(s.now, <<t, _getPendingTimeSecondField(a)>>)
           b == [a EXCEPT !.pend = p]
           l == [b EXCEPT !.last = s.out]
<1>1. IsState(a)
  BY DEF IsState
<1> HIDE DEF a
<1>2. <<t, _getPendingTimeSecondField(a)>> \in TimePairs
  BY secondFieldTypes DEF TimePairs
<1>3. p \in TimePairs
  BY <1>2, Fields, PairTypes
<1> HIDE DEF p
<1>4. IsState(b)
  BY <1>1, <1>3, pendType
<1> HIDE DEF b
<1>5. IsState(l)
  BY <1>4, Fields DEF IsState
<1> HIDE DEF l
<1>6. IsState(_setOutboundLowerTimeStampAndCurrentLookahead(l, t, s.out))
  BY <1>5, Fields, setOutboundType
<1> QED
  BY <1>4, <1>6 DEF _beginAdvance, a, p, b, l

LEMMA pendingNotBeyondQueueType ==
  ASSUME NEW s, IsState(s)
  PROVE  IsState(_pendingNotBeyondQueue(s))
<1> DEFINE t == Min2(s.pend[1], getLeastIncomingTimepair(s)[1])
<1>1. s.tso # <<>> => t \in Nat
  BY Fields, leastType, PairTypes, MaxMinType
<1>2. s.tso # <<>> => <<t, s.pend[2]>> \in TimePairs
  <2> HIDE DEF t
  <2> QED
    BY <1>1, Fields DEF TimePairs
<1>3. s.tso # <<>> => IsState([s EXCEPT !.pend = <<t, s.pend[2]>>])
  BY <1>2, pendType
<1> QED
  BY <1>3 DEF _pendingNotBeyondQueue

LEMMA advanceRequestType ==
  ASSUME NEW f \in Federates, NEW s, IsState(s)
  PROVE  IsState(_advanceRequest(f, s))
<1> DEFINE c == IF s.reg = "Enabled"
                THEN _sendCommitIfChanged(f, s, _toLogicalTime(s.out), {"TA", "NM"})
                ELSE s
<1>1. _toLogicalTime(s.out) \in Nat
  BY Fields, PairTypes
<1>2. IsState(c)
  BY <1>1, BothCommits, sendCommitIfChangedType
<1> HIDE DEF c
<1>3. IsState(queueAt(c, c.pend, Granted))
  BY <1>2, Fields, NotificationTypes, queueAtType
<1> QED
  BY <1>3 DEF _advanceRequest, c

LEMMA nextMessageRequestType ==
  ASSUME NEW f \in Federates, NEW s, IsState(s)
  PROVE  IsState(_nextMessageRequest(f, s))
<1> DEFINE q == _pendingNotBeyondQueue(s)
           w == [q EXCEPT !.sched = TRUE]
           c == IF s.reg = "Enabled"
                THEN _sendCommitPlusLookahead(f, w, w.pend[1], w.tgtLA, {"NM"})
                ELSE w
<1>1. IsState(q)
  BY pendingNotBeyondQueueType
<1> HIDE DEF q
<1>2. IsState(w)
  BY <1>1, schedType
<1> HIDE DEF w
<1>3. w.pend[1] \in Nat /\ w.tgtLA \in Nat
  BY <1>2, Fields, PairTypes
<1>4. IsState(c)
  BY <1>2, <1>3, BothCommits, sendCommitPlusLookaheadType
<1> HIDE DEF c
<1>5. IsState(checkForPendingTimeAdvance(f, c, FALSE))
  BY <1>4, checkForPendingTimeAdvanceType
<1>6. IsState(queueAt(s, s.pend, Granted))
  BY Fields, NotificationTypes, queueAtType
<1> QED
  BY <1>5, <1>6 DEF _nextMessageRequest, q, w, c

LEMMA flushQueueRequestType ==
  ASSUME NEW f \in Federates, NEW s, IsState(s)
  PROVE  IsState(_flushQueueRequest(f, s))
<1> DEFINE q == _pendingNotBeyondQueue(s)
           limited == s.con = "Enabled" /\ ~canAdvanceTo(s.bounds, <<q.pend[1], 0>>)
           n == PairMax(s.now, <<getGALT(s.bounds), q.pend[2]>>)
           p == IF limited THEN [q EXCEPT !.pend = n] ELSE q
           t == Max2(p.pend[1] + s.tgtLA, s.cTA)
           c == IF s.reg = "Enabled" THEN _sendCommitIfChanged(f, p, t, {"TA", "NM"}) ELSE p
<1>1. IsState(q)
  BY pendingNotBeyondQueueType
<1> HIDE DEF q
<1>2. limited => n \in TimePairs
  <2> SUFFICES ASSUME limited PROVE n \in TimePairs
    OBVIOUS
  <2>1. getGALT(s.bounds) \in Nat
    BY BoundsTypes DEF canAdvanceTo
  <2>2. <<getGALT(s.bounds), q.pend[2]>> \in TimePairs
    BY <1>1, <2>1, Fields DEF TimePairs
  <2> QED
    BY <2>2, Fields, PairTypes
<1> HIDE DEF n, limited
<1>3. IsState(p)
  BY <1>1, <1>2, pendType
<1> HIDE DEF p
<1>4. t \in Nat
  <2>1. p.pend[1] \in Nat /\ s.tgtLA \in Nat /\ s.cTA \in Nat
    BY <1>3, Fields, PairTypes
  <2> QED
    BY <2>1 DEF Max2
<1> HIDE DEF t
<1>5. IsState(c)
  BY <1>3, <1>4, BothCommits, sendCommitIfChangedType
<1> HIDE DEF c
<1>6. IsState([c EXCEPT !.sched = TRUE]) /\ IsState(queueAt(c, c.pend, Granted))
  BY <1>5, schedType, Fields, NotificationTypes, queueAtType
<1> QED
  BY <1>6 DEF _flushQueueRequest, q, limited, n, p, t, c

LEMMA timeAdvanceRequestType ==
  ASSUME NEW f \in Federates, NEW s, IsState(s), NEW t \in Nat,
         NEW mode \in AdvanceModes \ {"Granted"}
  PROVE  IsState(timeAdvanceRequest(f, s, t, mode))
<1> DEFINE b == _beginAdvance(s, t, mode)
<1>1. IsState(b)
  BY beginAdvanceType
<1> HIDE DEF b
<1>2. IsState(_advanceRequest(f, b))
  BY <1>1, advanceRequestType
<1>3. IsState(_nextMessageRequest(f, b))
  BY <1>1, nextMessageRequestType
<1>4. IsState(_flushQueueRequest(f, b))
  BY <1>1, flushQueueRequestType
<1>5. mode \in {"TAR", "TARA"} \/ mode \in {"NMR", "NMRA"} \/ mode = "FQR"
  BY DEF AdvanceModes
<1> QED
  BY <1>2, <1>3, <1>4, <1>5 DEF timeAdvanceRequest, b

LEMMA modifyLookaheadType ==
  ASSUME NEW f \in Federates, NEW s, IsState(s), NEW lookahead \in Nat
  PROVE  IsState(modifyLookahead(f, s, lookahead))
<1> DEFINE l == [s EXCEPT !.tgtLA = lookahead, !.last = s.out]
           b == _setOutboundLowerTimeStampAndCurrentLookahead(l, s.now[1], s.out)
<1>1. IsState(l)
  BY Fields DEF IsState
<1> HIDE DEF l
<1>2. IsState(b)
  BY <1>1, Fields, PairTypes, setOutboundType
<1> HIDE DEF b
<1>3. _toLogicalTime(b.out) \in Nat
  BY <1>2, Fields, PairTypes
<1>4. IsState(_sendCommitIfChanged(f, b, _toLogicalTime(b.out), {"TA", "NM"}))
  BY <1>2, <1>3, BothCommits, sendCommitIfChangedType
<1> QED
  BY <1>4 DEF modifyLookahead, l, b

-----------------------------------------------------------------------------
(* The messages from the server *)

LEMMA joinNotifyType ==
  ASSUME NEW f \in Federates, NEW s, IsState(s), NEW g \in Federates
  PROVE  IsState(acceptJoinNotify(f, s, g))
<1>1. ASSUME NEW k \in SUBSET Federates, NEW e \in SUBSET Federates
      PROVE  IsState([s EXCEPT !.known = k, !.enableSet = e])
  BY DEF IsState
<1>2. /\ s.known \cup {g} \in SUBSET Federates
      /\ (IF f \in s.enableSet THEN s.enableSet \cup {g} ELSE s.enableSet) \in SUBSET Federates
  BY Fields
<1> QED
  BY <1>1, <1>2 DEF acceptJoinNotify

LEMMA boundsType ==
  ASSUME NEW s, IsState(s), NEW b, IsMap(b, Federates, Commits)
  PROVE  IsState([s EXCEPT !.bounds = b])
BY DEF IsState

\* What ends nearly every accept: the locked message and the check of the pending advance
LEMMA checkedType ==
  ASSUME NEW f \in Federates, NEW s, NEW a, IsState(a)
  PROVE  IsState(checkForPendingTimeAdvance(f, _sendLockedIfChanged(f, s, a), TRUE))
BY sendLockedType, checkForPendingTimeAdvanceType

LEMMA resignNotifyType ==
  ASSUME NEW f \in Federates, NEW s, IsState(s), NEW g \in Federates
  PROVE  IsState(acceptResignNotify(f, s, g))
<1> DEFINE e == [s EXCEPT !.bounds = erase(@, g), !.stamps = Drop(@, g), !.enableSet = @ \ {g}]
           c == IF g \in s.enableSet THEN checkTimeRegulationEnabled(f, e) ELSE e
           d == checkForPendingTimeAdvance(f, _sendLockedIfChanged(f, s, c), TRUE)
<1>1. ASSUME NEW b, IsMap(b, Federates, Commits), NEW m, IsMap(m, Federates, Nat),
             NEW n \in SUBSET Federates
      PROVE  IsState([s EXCEPT !.bounds = b, !.stamps = m, !.enableSet = n])
  BY <1>1 DEF IsState
<1>2. IsMap(erase(s.bounds, g), Federates, Commits) /\ IsMap(Drop(s.stamps, g), Federates, Nat)
  BY Fields, DropMap DEF erase
<1>3. IsState(e)
  BY <1>1, <1>2, Fields
<1> HIDE DEF e
<1>4. IsState(c)
  BY <1>3, checkTimeRegulationEnabledType
<1> HIDE DEF c
<1>5. IsState(d)
  BY <1>4, checkedType
<1> HIDE DEF d
<1>6. ASSUME NEW k \in SUBSET Federates PROVE IsState([d EXCEPT !.known = k])
  BY <1>5 DEF IsState
<1>7. IsState([d EXCEPT !.known = d.known \ {g}])
  BY <1>5, <1>6, Fields
<1> QED
  BY <1>7 DEF acceptResignNotify, e, c, d

LEMMA enableSetType ==
  ASSUME NEW s, IsState(s), NEW e \in SUBSET Federates
  PROVE  IsState([s EXCEPT !.enableSet = e])
BY DEF IsState

LEMMA ownEnableRequestType ==
  ASSUME NEW f \in Federates, NEW s, IsState(s)
  PROVE  IsState(acceptOwnEnableRequest(f, s))
BY Fields, enableSetType, checkTimeRegulationEnabledType DEF acceptOwnEnableRequest

LEMMA enableRequestType ==
  ASSUME NEW f \in Federates, NEW s, IsState(s), NEW m \in EnableRequests
  PROVE  IsState(acceptEnableRequest(f, s, m))
<1> DEFINE answer == s.member = "in"
           t == IF answer THEN _correctedTime(s, m.ts) ELSE m.ts
           r == EnableResponse(m.fed, f, t, getTimeConstrainedEnabledOrPending(s))
           a == IF answer THEN send(s, r) ELSE s
           n == insert(a.bounds, m.fed, t, t, m.id, PreviousCommitId(s.commitId))
           b == [a EXCEPT !.bounds = n]
<1>1. m.fed \in Federates /\ m.ts \in Nat /\ m.id \in CommitIds
  BY DEF EnableRequests
<1>2. t \in Nat
  <2>1. _toLogicalTime(s.pend) \in Nat
    BY Fields, PairTypes
  <2> QED
    BY <1>1, <2>1 DEF _correctedTime, Max2
<1> HIDE DEF t
<1>3. r \in ToServer
  <2>1. r \in EnableResponses
    BY <1>1, <1>2 DEF EnableResponse, EnableResponses, getTimeConstrainedEnabledOrPending
  <2> QED
    BY <2>1 DEF Relayed, ToServer
<1> HIDE DEF r
<1>4. IsState(a)
  BY <1>3, sendType
<1> HIDE DEF a
<1>5. IsMap(n, Federates, Commits)
  <2> DEFINE w == PreviousCommitId(s.commitId)
             v == [ta |-> t, nm |-> t, id |-> m.id, waitId |-> w, locked |-> FALSE]
  <2>1. w \in CommitIds
    BY Fields, CommitIdTypes
  <2> HIDE DEF w
  <2>2. v \in Commits
    BY <1>1, <1>2, <2>1 DEF Commits
  <2> HIDE DEF v
  <2>3. IsMap(Put(a.bounds, m.fed, v), Federates, Commits)
    BY <1>1, <1>4, <2>2, Fields, PutMap
  <2> QED
    BY <2>3 DEF insert, v, w
<1> HIDE DEF n
<1>6. IsState(b)
  BY <1>4, <1>5, boundsType
<1> HIDE DEF b
<1>7. IsState(_sendLockedIfChanged(f, s, b))
  BY <1>6, sendLockedType
<1> QED
  BY <1>7 DEF acceptEnableRequest, t, r, a, n, b

LEMMA enableResponseType ==
  ASSUME NEW f \in Federates, NEW s, IsState(s), NEW m \in EnableResponses
  PROVE  IsState(acceptEnableResponse(f, s, m))
<1> DEFINE a == [s EXCEPT !.stamps = IF m.valid THEN Put(@, m.from, m.ts) ELSE @,
                          !.enableSet = @ \ {m.from}]
<1>1. m.from \in Federates /\ m.ts \in Nat
  BY DEF EnableResponses
<1>2. ASSUME NEW n, IsMap(n, Federates, Nat), NEW e \in SUBSET Federates
      PROVE  IsState([s EXCEPT !.stamps = n, !.enableSet = e])
  BY <1>2 DEF IsState
<1>3. IsMap(IF m.valid THEN Put(s.stamps, m.from, m.ts) ELSE s.stamps, Federates, Nat)
  BY <1>1, Fields, PutMap
<1>4. IsState(a)
  BY <1>2, <1>3, Fields
<1> HIDE DEF a
<1>5. IsState(checkTimeRegulationEnabled(f, a))
  BY <1>4, checkTimeRegulationEnabledType
<1> QED
  BY <1>5 DEF acceptEnableResponse, a

LEMMA disableRequestType ==
  ASSUME NEW f \in Federates, NEW s, IsState(s), NEW m
  PROVE  IsState(acceptDisableRequest(f, s, m))
<1>1. IsState([s EXCEPT !.bounds = erase(s.bounds, m.fed)])
  BY Fields, DropMap, boundsType DEF erase
<1> QED
  BY <1>1, checkedType DEF acceptDisableRequest

LEMMA updateMap ==
  ASSUME NEW m, NEW V, IsMap(m, Federates, V), NEW g, NEW v, g \in DOMAIN m => v \in V
  PROVE  IsMap([m EXCEPT ![g] = v], Federates, V)
BY DEF IsMap

LEMMA commitType ==
  ASSUME NEW f \in Federates, NEW s, IsState(s), NEW m \in CommitMessages
  PROVE  IsState(acceptCommit(f, s, m))
<1> DEFINE c == s.bounds[m.fed]
           n == commit(s.bounds, m.fed, m.ts, m.ct, m.id)
           a == [s EXCEPT !.bounds = n]
           b == IF commitIdChanged(s.bounds, m.fed, m.id) /\ s.member = "in"
                THEN send(a, CommitResponse(m.fed, f, m.id))
                ELSE a
<1>1. m.fed \in Federates /\ m.ts \in Nat /\ m.id \in CommitIds
  BY DEF CommitMessages
<1>2. IsMap(s.bounds, Federates, Commits)
  BY Fields
<1>3. m.fed \in DOMAIN s.bounds => c \in Commits
  BY <1>2 DEF IsMap
<1> HIDE DEF c
<1>4. m.fed \in DOMAIN s.bounds => Committed(c, m.ts, m.ct, m.id) \in Commits
  BY <1>1, <1>3 DEF Committed, Commits
<1>5. IsMap(n, Federates, Commits)
  BY <1>2, <1>4, updateMap DEF commit, c
<1> HIDE DEF n
<1>6. IsState(a)
  BY <1>5, boundsType
<1> HIDE DEF a
<1>7. CommitResponse(m.fed, f, m.id) \in ToServer
  <2>1. CommitResponse(m.fed, f, m.id) \in CommitResponseMessages
    BY <1>1 DEF CommitResponse, CommitResponseMessages
  <2> QED
    BY <2>1 DEF Relayed, ToServer
<1>8. IsState(b)
  BY <1>6, <1>7, sendType
<1> HIDE DEF b
<1>9. IsState(checkForPendingTimeAdvance(f, _sendLockedIfChanged(f, s, b), TRUE))
  BY <1>8, checkedType
<1> QED
  BY <1>9 DEF acceptCommit, n, a, b

LEMMA commitResponseType ==
  ASSUME NEW f \in Federates, NEW s, IsState(s), NEW m \in CommitResponseMessages
  PROVE  IsState(acceptCommitResponse(f, s, m))
<1> DEFINE n == setFederateWaitCommitId(s.bounds, m.from, m.id)
<1>1. IsMap(s.bounds, Federates, Commits) /\ m.id \in CommitIds
  BY Fields DEF CommitResponseMessages
<1>2. IsMap(n, Federates, Commits)
  BY <1>1 DEF setFederateWaitCommitId, IsMap, Commits
<1>3. IsState([s EXCEPT !.bounds = n])
  <2> HIDE DEF n
  <2> QED
    BY <1>2, boundsType
<1> QED
  BY <1>3, checkedType DEF acceptCommitResponse

LEMMA acceptLockedType ==
  ASSUME NEW f \in Federates, NEW s, IsState(s), NEW m \in LockedMessages
  PROVE  IsState(acceptLocked(f, s, m))
<1> DEFINE n == setFederateLockedByNextMessage(s.bounds, m.from, m.locked)
<1>1. IsMap(s.bounds, Federates, Commits) /\ m.locked \in BOOLEAN
  BY Fields DEF LockedMessages
<1>2. IsMap(n, Federates, Commits)
  BY <1>1 DEF setFederateLockedByNextMessage, IsMap, Commits
<1>3. IsState([s EXCEPT !.bounds = n])
  <2> HIDE DEF n
  <2> QED
    BY <1>2, boundsType
<1> QED
  BY <1>3, checkedType DEF acceptLocked

LEMMA queueTimeStampedMessageType ==
  ASSUME NEW f \in Federates, NEW s, IsState(s), NEW m \in DataMessages
  PROVE  IsState(queueTimeStampedMessage(f, s, m))
<1> DEFINE q == queueAt(s, <<m.ts, -1>>, m)
           p == IF s.now[1] <= m.ts THEN [q EXCEPT !.pend = <<m.ts, @[2]>>] ELSE q
           c == IF s.sched /\ s.reg = "Enabled"
                THEN _sendCommitPlusLookahead(f, p, p.pend[1], s.tgtLA, {"NM"})
                ELSE p
<1>1. m.ts \in Nat /\ m \in Callbacks
  BY RelayedTypes DEF DataMessages
<1>2. <<m.ts, -1>> \in TimePairs
  BY <1>1 DEF TimePairs
<1>3. IsState(q)
  BY <1>1, <1>2, queueAtType
<1> HIDE DEF q
<1>4. <<m.ts, q.pend[2]>> \in TimePairs
  BY <1>1, <1>3, Fields DEF TimePairs
<1>5. IsState(p)
  BY <1>3, <1>4, pendType
<1> HIDE DEF p
<1>6. p.pend[1] \in Nat /\ s.tgtLA \in Nat
  BY <1>5, Fields, PairTypes
<1>7. IsState(c)
  BY <1>5, <1>6, BothCommits, sendCommitPlusLookaheadType
<1> HIDE DEF c
<1>8. IsState(checkForPendingTimeAdvance(f, c, TRUE))
  BY <1>7, checkForPendingTimeAdvanceType
<1> QED
  BY <1>3, <1>8 DEF queueTimeStampedMessage, q, p, c

LEMMA acceptDataType ==
  ASSUME NEW f \in Federates, NEW s, IsState(s), NEW m \in DataMessages
  PROVE  IsState(acceptData(f, s, m))
<1>1. s.ro \in Seq(DataMessages)
  BY Fields
<1>2. Append(s.ro, m) \in Seq(DataMessages)
  BY <1>1
<1>3. ASSUME NEW q \in Seq(DataMessages) PROVE IsState([s EXCEPT !.ro = q])
  BY DEF IsState
<1> QED
  BY <1>2, <1>3, queueTimeStampedMessageType DEF acceptData

-----------------------------------------------------------------------------
(* The callbacks *)

LEMMA grantedType ==
  ASSUME NEW s, IsState(s)
  PROVE  IsState(acceptTimeAdvanceGranted(s))
<1> DEFINE b == IF (getIsAnyNextMessageMode(s) \/ s.adv = "FQR") /\ s.reg = "Enabled"
                THEN _setOutboundLowerTimeStampAndCurrentLookahead(s, s.pend[1], s.last)
                ELSE s
<1>1. IsState(b)
  BY Fields, PairTypes, setOutboundType
<1> HIDE DEF b
<1>2. ASSUME NEW p \in TimePairs PROVE IsState([b EXCEPT !.now = p, !.adv = "Granted"])
  BY <1>1 DEF IsState, AdvanceModes
<1>3. IsState([b EXCEPT !.now = s.pend, !.adv = "Granted"])
  BY <1>2, Fields
<1> QED
  BY <1>3 DEF acceptTimeAdvanceGranted, b

LEMMA callbackType ==
  ASSUME NEW s, IsState(s), NEW m
  PROVE  IsState(acceptCallback(s, m))
<1>1. ASSUME NEW p \in TimePairs
      PROVE  /\ IsState([s EXCEPT !.reg = "Enabled", !.now = p])
             /\ IsState([s EXCEPT !.con = "Enabled", !.now = p])
  BY DEF IsState, Modes
<1>2. /\ IsState([s EXCEPT !.reg = "Enabled", !.now = s.pend])
      /\ IsState([s EXCEPT !.con = "Enabled", !.now = s.pend])
  BY <1>1, Fields
<1> QED
  BY <1>2, grantedType DEF acceptCallback

-----------------------------------------------------------------------------
(* The queue of callbacks *)

Calling(type) == {e \in Entries : e.msg.type = type}

Sorted(q) == \A i, j \in DOMAIN q : i < j => PairLeq(q[i].at, q[j].at)

LEMMA PairOrder ==
  ASSUME NEW p \in TimePairs, NEW q \in TimePairs, NEW r \in TimePairs
  PROVE  /\ PairLeq(p, q) /\ PairLeq(q, r) => PairLeq(p, r)
         /\ ~PairLeq(p, q) => PairLeq(q, p)
BY DEF TimePairs, PairLeq, PairLess

\* A callback is put behind all that are due before it or at the same time, and nothing
\* else changes.
LEMMA queueAtInserts ==
  ASSUME NEW s, IsState(s), NEW p \in TimePairs, NEW m \in Callbacks, Sorted(s.tso)
  PROVE  \E k \in 1 .. Len(s.tso) + 1 :
           /\ DOMAIN queueAt(s, p, m).tso = 1 .. Len(s.tso) + 1
           /\ \A i \in 1 .. Len(s.tso) : i < k =>
                queueAt(s, p, m).tso[i] = s.tso[i] /\ PairLeq(s.tso[i].at, p)
           /\ queueAt(s, p, m).tso[k] = [at |-> p, msg |-> m]
           /\ \A i \in 1 .. Len(s.tso) : k <= i =>
                queueAt(s, p, m).tso[i + 1] = s.tso[i] /\ ~PairLeq(s.tso[i].at, p)
<1> DEFINE q == s.tso
           notAfter(i) == i <= Len(q) /\ PairLeq(q[i].at, p)
           new == [i \in 1 .. Len(q) + 1 |->
                    IF notAfter(i) THEN q[i]
                    ELSE IF i = 1 \/ notAfter(i - 1) THEN [at |-> p, msg |-> m]
                    ELSE q[i - 1]]
           After == {i \in 1 .. Len(q) + 1 : ~notAfter(i)}
<1>1. q \in Seq(Entries) /\ Len(q) \in Nat /\ DOMAIN q = 1 .. Len(q)
  <2>1. q \in Seq(Entries)
    BY Fields
  <2> QED
    BY <2>1, LenProperties
<1>2. \A i \in DOMAIN q : q[i].at \in TimePairs
  <2>1. \A i \in DOMAIN q : q[i] \in Entries
    BY <1>1
  <2> QED
    BY <2>1 DEF Entries
<1>3. queueAt(s, p, m).tso = new
  BY DEF queueAt, IsState
<1>4. PICK k \in After : \A i \in After : k <= i
  <2>1. After \in SUBSET Nat /\ Len(q) + 1 \in After
    BY <1>1
  <2> HIDE DEF After
  <2> QED
    BY <2>1, MinNat
<1>5. k \in 1 .. Len(q) + 1 /\ ~notAfter(k)
  BY <1>4
<1>6. \A i \in 1 .. Len(q) + 1 : i < k => notAfter(i)
  BY <1>1, <1>4
<1>7. ASSUME NEW i \in 1 .. Len(q) + 1, k <= i PROVE ~notAfter(i)
  <2>1. CASE i = k
    BY <1>5, <2>1
  <2>2. CASE k < i /\ i <= Len(q)
    <3>1. k \in DOMAIN q /\ i \in DOMAIN q /\ k < i
      BY <1>1, <1>5, <1>7, <2>2
    <3>2. PairLeq(q[k].at, q[i].at)
      BY <3>1 DEF Sorted
    <3>3. ~PairLeq(q[k].at, p)
      BY <1>1, <1>5, <2>2
    <3> QED
      BY <1>2, <3>1, <3>2, <3>3, PairOrder
  <2> QED
    BY <1>1, <1>5, <1>7, <2>1, <2>2
<1> HIDE DEF notAfter
<1>8. ASSUME NEW i \in 1 .. Len(q), i < k PROVE new[i] = q[i] /\ PairLeq(q[i].at, p)
  <2>1. i \in 1 .. Len(q) + 1 /\ notAfter(i)
    BY <1>1, <1>5, <1>6, <1>8
  <2> QED
    BY <2>1 DEF notAfter
<1>9. new[k] = [at |-> p, msg |-> m]
  <2>1. k = 1 \/ notAfter(k - 1)
    BY <1>1, <1>5, <1>6
  <2> QED
    BY <1>5, <2>1
<1>10. ASSUME NEW i \in 1 .. Len(q), k <= i PROVE new[i + 1] = q[i] /\ ~PairLeq(q[i].at, p)
  <2>1. i + 1 \in 1 .. Len(q) + 1 /\ k <= i + 1 /\ i + 1 # 1 /\ (i + 1) - 1 = i /\ i \in 1 .. Len(q) + 1
    BY <1>1, <1>5, <1>10
  <2>2. ~notAfter(i + 1) /\ ~notAfter(i)
    BY <1>7, <1>10, <2>1
  <2>3. new[i + 1] = q[i]
    BY <2>1, <2>2
  <2>4. ~PairLeq(q[i].at, p)
    BY <1>1, <2>2 DEF notAfter
  <2> QED
    BY <2>3, <2>4
<1>11. DOMAIN new = 1 .. Len(q) + 1
  OBVIOUS
<1> HIDE DEF new
<1> QED
  BY <1>3, <1>5, <1>8, <1>9, <1>10, <1>11

\* The queue keeps its order, and what it has of other kinds.
LEMMA queueAtKeeps ==
  ASSUME NEW s, IsState(s), NEW p \in TimePairs, NEW m \in Callbacks, Sorted(s.tso)
  PROVE  /\ Sorted(queueAt(s, p, m).tso)
         /\ \A type : m.type # type =>
              /\ Some(queueAt(s, p, m).tso, Calling(type)) => Some(s.tso, Calling(type))
              /\ Single(s.tso, Calling(type)) => Single(queueAt(s, p, m).tso, Calling(type))
         /\ \A type : ~Some(s.tso, Calling(type)) => Single(queueAt(s, p, m).tso, Calling(type))
<1> DEFINE q == s.tso
           r == queueAt(s, p, m).tso
           n == Len(q)
<1>1. q \in Seq(Entries) /\ n \in Nat /\ DOMAIN q = 1 .. n
  <2>1. q \in Seq(Entries)
    BY Fields
  <2> QED
    BY <2>1, LenProperties
<1>2. \A i \in DOMAIN q : q[i].at \in TimePairs
  <2>1. \A i \in DOMAIN q : q[i] \in Entries
    BY <1>1
  <2> QED
    BY <2>1 DEF Entries
<1>3. PICK k \in 1 .. n + 1 :
         /\ DOMAIN r = 1 .. n + 1
         /\ \A i \in 1 .. n : i < k => r[i] = q[i] /\ PairLeq(q[i].at, p)
         /\ r[k] = [at |-> p, msg |-> m]
         /\ \A i \in 1 .. n : k <= i => r[i + 1] = q[i] /\ ~PairLeq(q[i].at, p)
  BY queueAtInserts
<1>4. ASSUME NEW i \in DOMAIN r, i # k
      PROVE  \E j \in DOMAIN q : /\ r[i] = q[j]
                                 /\ (i < k => j = i /\ PairLeq(q[j].at, p))
                                 /\ (k < i => i = j + 1 /\ ~PairLeq(q[j].at, p))
  <2>1. CASE i < k
    BY <1>1, <1>3, <2>1
  <2>2. CASE k < i
    <3>1. i - 1 \in 1 .. n /\ k <= i - 1 /\ (i - 1) + 1 = i
      BY <1>1, <1>3, <2>2
    <3>2. r[i] = q[i - 1] /\ ~PairLeq(q[i - 1].at, p) /\ ~(i < k)
      BY <1>1, <1>3, <2>2, <3>1
    <3> QED
      BY <1>1, <3>1, <3>2
  <2> QED
    BY <1>1, <1>3, <1>4, <2>1, <2>2
<1>5. r[k].at = p /\ r[k].msg = m
  BY <1>3
<1> HIDE DEF r, q, n
<1>6. Sorted(r)
  <2> SUFFICES ASSUME NEW i \in DOMAIN r, NEW j \in DOMAIN r, i < j PROVE PairLeq(r[i].at, r[j].at)
    BY DEF Sorted
  <2>1. CASE i = k
    <3>1. PICK l \in DOMAIN q : r[j] = q[l] /\ ~PairLeq(q[l].at, p)
      BY <1>1, <1>3, <1>4, <2>1
    <3> QED
      BY <1>2, <1>5, <2>1, <3>1, PairOrder
  <2>2. CASE j = k
    <3>1. PICK l \in DOMAIN q : r[i] = q[l] /\ PairLeq(q[l].at, p)
      BY <1>1, <1>3, <1>4, <2>2
    <3> QED
      BY <1>5, <2>2, <3>1
  <2>3. CASE i # k /\ j # k
    <3>1. PICK a \in DOMAIN q : r[i] = q[a] /\ (i < k => a = i) /\ (k < i => i = a + 1)
      BY <1>4, <2>3
    <3>2. PICK b \in DOMAIN q : r[j] = q[b] /\ (j < k => b = j) /\ (k < j => j = b + 1)
      BY <1>4, <2>3
    <3>3. a < b
      BY <1>1, <1>3, <2>3, <3>1, <3>2
    <3> QED
      BY <3>1, <3>2, <3>3 DEF Sorted, q
  <2> QED
    BY <2>1, <2>2, <2>3
<1>7. ASSUME NEW type, m.type # type
      PROVE  /\ Some(r, Calling(type)) => Some(q, Calling(type))
             /\ Single(q, Calling(type)) => Single(r, Calling(type))
  <2>1. r[k] \notin Calling(type)
    BY <1>5, <1>7 DEF Calling
  <2>2. ASSUME NEW i \in DOMAIN r, r[i] \in Calling(type)
        PROVE  i # k /\ \E a \in DOMAIN q : q[a] \in Calling(type) /\ (i < k => a = i) /\ (k < i => i = a + 1)
    BY <1>4, <2>1, <2>2
  <2>3. Some(r, Calling(type)) => Some(q, Calling(type))
    BY <2>2 DEF Some
  <2>4. ASSUME Single(q, Calling(type)) PROVE Single(r, Calling(type))
    <3> SUFFICES ASSUME NEW i \in DOMAIN r, NEW j \in DOMAIN r,
                        r[i] \in Calling(type), r[j] \in Calling(type)
                 PROVE  i = j
      BY DEF Single
    <3>1. PICK a \in DOMAIN q : q[a] \in Calling(type) /\ (i < k => a = i) /\ (k < i => i = a + 1)
      BY <2>2
    <3>2. PICK b \in DOMAIN q : q[b] \in Calling(type) /\ (j < k => b = j) /\ (k < j => j = b + 1)
      BY <2>2
    <3>3. a = b
      BY <2>4, <3>1, <3>2 DEF Single
    <3>4. i # k /\ j # k
      BY <2>2
    <3> QED
      BY <1>1, <1>3, <3>1, <3>2, <3>3, <3>4
  <2> QED
    BY <2>3, <2>4
<1>8. ASSUME NEW type, ~Some(q, Calling(type)) PROVE Single(r, Calling(type))
  <2>1. \A i \in DOMAIN r : r[i] \in Calling(type) => i = k
    BY <1>4, <1>8 DEF Some
  <2> QED
    BY <2>1 DEF Single
<1> QED
  BY <1>6, <1>7, <1>8 DEF r, q

-----------------------------------------------------------------------------
(* Quiet changes: what an operation leaves alone *)

\* What an ambassador sends on its own: acknowledgements, data and, if it regulates time or
\* asks for it, commits not beyond c.
Minor(f, reg, c) ==
  {m \in ToServer :
     \/ m.type \in {"CommitResponse", "Locked", "Data"}
     \/ /\ m.type = "Commit" /\ m.fed = f /\ reg # "Disabled"
        /\ "TA" \in m.ct => m.ts <= c}

Confirmations == {"RegulationEnabled", "ConstrainedEnabled"}

\* No confirmation gets into the queue.
SameCallbacks(p, q) ==
  Sorted(p) =>
    /\ Sorted(q)
    /\ \A type \in Confirmations :
         /\ Some(q, Calling(type)) => Some(p, Calling(type))
         /\ Single(p, Calling(type)) => Single(q, Calling(type))

\* t has the modes of s, waits for the same federates and knows the same bounds; it has
\* committed no less, and sent only minor messages since s.
Quiet(f, s, t) ==
  /\ IsState(s) /\ IsState(t)
  /\ t.member = s.member /\ t.known = s.known /\ t.reg = s.reg /\ t.con = s.con
  /\ t.enableSet = s.enableSet /\ t.stamps = s.stamps
  /\ DOMAIN t.bounds = DOMAIN s.bounds
  /\ \A g \in DOMAIN s.bounds : t.bounds[g].ta = s.bounds[g].ta
  /\ s.cTA <= t.cTA
  /\ s.reg # "Enabled" => t.cTA = s.cTA /\ t.out = s.out
  /\ SameCallbacks(s.tso, t.tso)
  /\ Extends(s.sent, t.sent, Minor(f, s.reg, t.cTA))

LEMMA ToServerTimes ==
  ASSUME NEW m \in ToServer, m.type \in {"Commit", "EnableReg"}
  PROVE  m.ts \in Nat
BY DEF ToServer, Relayed, Notices, EnableRequests, EnableResponses, CommitMessages,
       CommitResponseMessages, LockedMessages, DataMessages

LEMMA QuietSame ==
  ASSUME NEW f, NEW s, NEW t, IsState(s), IsState(t),
         t.member = s.member, t.known = s.known, t.reg = s.reg, t.con = s.con,
         t.enableSet = s.enableSet, t.stamps = s.stamps, t.bounds = s.bounds,
         t.cTA = s.cTA, s.reg # "Enabled" => t.out = s.out, t.tso = s.tso, t.sent = s.sent
  PROVE  Quiet(f, s, t)
<1>1. s.cTA \in Nat /\ s.sent \in Seq(ToServer)
  BY Fields
<1>2. Extends(s.sent, t.sent, Minor(f, s.reg, t.cTA))
  BY <1>1, ExtendsRefl
<1>3. SameCallbacks(s.tso, t.tso)
  BY DEF SameCallbacks
<1> QED
  BY <1>1, <1>2, <1>3 DEF Quiet

LEMMA QuietTrans ==
  ASSUME NEW f, NEW s, NEW t, NEW u, Quiet(f, s, t), Quiet(f, t, u)
  PROVE  Quiet(f, s, u)
<1>1. /\ s.cTA \in Nat /\ t.cTA \in Nat /\ u.cTA \in Nat
      /\ s.sent \in Seq(ToServer) /\ t.sent \in Seq(ToServer) /\ u.sent \in Seq(ToServer)
  BY Fields DEF Quiet
<1>2. s.cTA <= u.cTA /\ t.cTA <= u.cTA /\ t.reg = s.reg
  BY <1>1 DEF Quiet
<1>3. Minor(f, s.reg, t.cTA) \subseteq Minor(f, s.reg, u.cTA)
  <2>1. ASSUME NEW m \in ToServer, m.type = "Commit" PROVE m.ts \in Nat
    BY <2>1, ToServerTimes
  <2> QED
    BY <1>1, <1>2, <2>1 DEF Minor
<1>4. Extends(s.sent, u.sent, Minor(f, s.reg, u.cTA))
  BY <1>1, <1>2, <1>3, ExtendsTrans DEF Quiet
<1>5. SameCallbacks(s.tso, u.tso)
  BY DEF Quiet, SameCallbacks
<1> QED
  BY <1>2, <1>4, <1>5 DEF Quiet

LEMMA QuietSend ==
  ASSUME NEW f, NEW s, IsState(s), NEW m \in Minor(f, s.reg, s.cTA)
  PROVE  Quiet(f, s, send(s, m))
<1> DEFINE t == send(s, m)
<1>1. s.cTA \in Nat /\ s.sent \in Seq(ToServer) /\ m \in ToServer
  BY Fields DEF Minor
<1>2. IsState(t)
  BY <1>1, sendType
<1>3. /\ t.member = s.member /\ t.known = s.known /\ t.reg = s.reg /\ t.con = s.con
      /\ t.enableSet = s.enableSet /\ t.stamps = s.stamps /\ t.bounds = s.bounds
      /\ t.cTA = s.cTA /\ t.out = s.out /\ t.tso = s.tso /\ t.sent = Append(s.sent, m)
  BY DEF send, IsState
<1>4. Extends(s.sent, s.sent, Minor(f, s.reg, s.cTA))
  BY <1>1, ExtendsRefl
<1>5. Extends(s.sent, Append(s.sent, m), Minor(f, s.reg, s.cTA))
  BY <1>1, <1>4, ExtendsAppend
<1>6. SameCallbacks(s.tso, t.tso)
  BY <1>3 DEF SameCallbacks
<1> HIDE DEF t
<1>7. Quiet(f, s, t)
  BY <1>1, <1>2, <1>3, <1>5, <1>6 DEF Quiet
<1> QED
  BY <1>7 DEF t

LEMMA QuietCallback ==
  ASSUME NEW f, NEW s, IsState(s), NEW p \in TimePairs, NEW m \in Callbacks, m.type \notin Confirmations
  PROVE  Quiet(f, s, queueAt(s, p, m))
<1> DEFINE t == queueAt(s, p, m)
<1>1. s.cTA \in Nat /\ s.sent \in Seq(ToServer)
  BY Fields
<1>2. IsState(t)
  BY queueAtType
<1>3. /\ t.member = s.member /\ t.known = s.known /\ t.reg = s.reg /\ t.con = s.con
      /\ t.enableSet = s.enableSet /\ t.stamps = s.stamps /\ t.bounds = s.bounds
      /\ t.cTA = s.cTA /\ t.out = s.out /\ t.sent = s.sent
  BY DEF queueAt, IsState
<1>4. Extends(s.sent, t.sent, Minor(f, s.reg, s.cTA))
  BY <1>1, <1>3, ExtendsRefl
<1>5. SameCallbacks(s.tso, t.tso)
  BY queueAtKeeps DEF SameCallbacks
<1> HIDE DEF t
<1>6. Quiet(f, s, t)
  BY <1>1, <1>2, <1>3, <1>4, <1>5 DEF Quiet
<1> QED
  BY <1>6 DEF t

LEMMA QuietRefl ==
  ASSUME NEW f, NEW s, IsState(s)
  PROVE  Quiet(f, s, s)
BY QuietSame

LEMMA sendCommitQuiet ==
  ASSUME NEW f \in Federates, NEW s, IsState(s), s.reg = "Enabled",
         NEW t \in Nat, s.cTA <= t, NEW type \in CommitTypes
  PROVE  Quiet(f, s, _sendCommitLowerBoundTimeStamp(f, s, t, type))
<1> DEFINE ta == IF "TA" \in type THEN t ELSE s.cTA
           nm == IF "NM" \in type THEN t ELSE s.cNM
           id == IF "NM" \in type /\ ta # nm THEN NextCommitId(s.commitId) ELSE s.commitId
           r  == [s EXCEPT !.cTA = ta, !.cNM = nm, !.commitId = id]
           m  == CommitMessage(f, t, type, id)
<1>1. ta \in Nat /\ nm \in Nat /\ s.cTA \in Nat /\ s.cTA <= ta /\ ("TA" \in type => ta = t)
  BY Fields
<1>2. id \in CommitIds
  BY Fields, CommitIdTypes
<1> HIDE DEF ta, nm, id
<1>3. IsState(r)
  BY <1>1, <1>2 DEF IsState
<1>4. /\ r.member = s.member /\ r.known = s.known /\ r.reg = s.reg /\ r.con = s.con
      /\ r.enableSet = s.enableSet /\ r.stamps = s.stamps /\ r.bounds = s.bounds
      /\ r.cTA = ta /\ r.tso = s.tso /\ r.sent = s.sent
  BY DEF IsState
<1>5. m \in Minor(f, r.reg, r.cTA)
  <2>1. m \in ToServer
    BY <1>2, MessageTypes, RelayedTypes
  <2>2. m.type = "Commit" /\ m.fed = f /\ m.ct = type /\ m.ts = t
    BY DEF CommitMessage
  <2> QED
    BY <1>1, <1>4, <2>1, <2>2 DEF Minor
<1> HIDE DEF r, m
<1>6. Quiet(f, r, send(r, m))
  BY <1>3, <1>5, QuietSend
<1>7. Quiet(f, s, r)
  <2>1. s.sent \in Seq(ToServer)
    BY Fields
  <2>2. Extends(s.sent, r.sent, Minor(f, s.reg, r.cTA))
    BY <1>4, <2>1, ExtendsRefl
  <2>3. SameCallbacks(s.tso, r.tso)
    BY <1>4 DEF SameCallbacks
  <2> QED
    BY <1>1, <1>3, <1>4, <2>2, <2>3 DEF Quiet
<1>8. Quiet(f, s, send(r, m))
  BY <1>6, <1>7, QuietTrans
<1> QED
  BY <1>8 DEF _sendCommitLowerBoundTimeStamp, r, m, id, ta, nm

LEMMA sendCommitIfChangedQuiet ==
  ASSUME NEW f \in Federates, NEW s, IsState(s), s.reg = "Enabled", NEW t \in Nat, NEW type \in CommitTypes
  PROVE  Quiet(f, s, _sendCommitIfChanged(f, s, t, type))
<1> DEFINE changed == {c \in type : IF c = "TA" THEN s.cTA < t ELSE s.cNM # t}
<1>1. changed = {} \/ changed \in CommitTypes
  BY DEF CommitTypes
<1>2. s.cTA \in Nat
  BY Fields
<1>3. CASE t < s.cTA \/ changed = {}
  BY <1>3, QuietRefl DEF _sendCommitIfChanged
<1>4. CASE ~(t < s.cTA \/ changed = {})
  <2>1. s.cTA <= t /\ changed \in CommitTypes
    BY <1>1, <1>2, <1>4
  <2>2. _sendCommitIfChanged(f, s, t, type) = _sendCommitLowerBoundTimeStamp(f, s, t, changed)
    BY <1>4 DEF _sendCommitIfChanged
  <2> HIDE DEF changed
  <2> QED
    BY <2>1, <2>2, sendCommitQuiet
<1> QED
  BY <1>3, <1>4

LEMMA sendCommitPlusLookaheadQuiet ==
  ASSUME NEW f \in Federates, NEW s, IsState(s), s.reg = "Enabled", NEW t \in Nat, NEW lookahead \in Nat,
         NEW type \in CommitTypes
  PROVE  Quiet(f, s, _sendCommitPlusLookahead(f, s, t, lookahead, type))
<1> DEFINE second == _getOutboundLowerTimeStampSecondField(s, lookahead)
           bound  == _toLogicalTime(<<t + lookahead, second>>)
<1>1. <<t + lookahead, second>> \in TimePairs
  BY secondFieldTypes DEF TimePairs
<1>2. bound \in Nat
  BY <1>1, PairTypes
<1>3. Max2(bound, s.cTA) \in Nat
  BY <1>2, Fields, MaxMinType
<1>4. Quiet(f, s, _sendCommitIfChanged(f, s, Max2(bound, s.cTA), type))
  BY <1>3, sendCommitIfChangedQuiet
<1> QED
  BY <1>4 DEF _sendCommitPlusLookahead

LEMMA sendLockedQuiet ==
  ASSUME NEW f \in Federates, NEW before, NEW s, IsState(s)
  PROVE  Quiet(f, s, _sendLockedIfChanged(f, before, s))
<1>1. LockedMessage(f, getLockedByNextMessage(s)) \in Minor(f, s.reg, s.cTA)
  <2>1. \A b \in BOOLEAN : LockedMessage(f, b) \in LockedMessages
    BY DEF LockedMessage, LockedMessages
  <2>2. LockedMessage(f, getLockedByNextMessage(s)) \in ToServer
    BY <2>1, lockedType DEF Relayed, ToServer
  <2>3. LockedMessage(f, getLockedByNextMessage(s)).type = "Locked"
    BY DEF LockedMessage
  <2> QED
    BY <2>2, <2>3 DEF Minor
<1> QED
  BY <1>1, QuietSend, QuietRefl DEF _sendLockedIfChanged

LEMMA setOutboundQuiet ==
  ASSUME NEW f, NEW s, IsState(s), s.reg = "Enabled", NEW t \in Nat, NEW lastOutbound \in TimePairs
  PROVE  /\ Quiet(f, s, _setOutboundLowerTimeStampAndCurrentLookahead(s, t, lastOutbound))
         /\ _setOutboundLowerTimeStampAndCurrentLookahead(s, t, lastOutbound).reg = s.reg
<1> DEFINE r == _setOutboundLowerTimeStampAndCurrentLookahead(s, t, lastOutbound)
<1>1. IsState(r)
  BY setOutboundType
<1>2. PICK out, la : r = [s EXCEPT !.out = out, !.curLA = la]
  BY DEF _setOutboundLowerTimeStampAndCurrentLookahead
<1> HIDE DEF r
<1>3. /\ r.member = s.member /\ r.known = s.known /\ r.reg = s.reg /\ r.con = s.con
      /\ r.enableSet = s.enableSet /\ r.stamps = s.stamps /\ r.bounds = s.bounds
      /\ r.cTA = s.cTA /\ r.tso = s.tso /\ r.sent = s.sent
  BY <1>2 DEF IsState
<1>4. Quiet(f, s, r)
  BY <1>1, <1>3, QuietSame
<1> QED
  BY <1>3, <1>4 DEF r

LEMMA scheduledQuiet ==
  ASSUME NEW f, NEW s, IsState(s), NEW b \in BOOLEAN
  PROVE  Quiet(f, s, [s EXCEPT !.sched = b])
<1> DEFINE r == [s EXCEPT !.sched = b]
<1>1. IsState(r)
  BY schedType
<1>2. /\ r.member = s.member /\ r.known = s.known /\ r.reg = s.reg /\ r.con = s.con
      /\ r.enableSet = s.enableSet /\ r.stamps = s.stamps /\ r.bounds = s.bounds
      /\ r.cTA = s.cTA /\ r.out = s.out /\ r.tso = s.tso /\ r.sent = s.sent
  BY DEF IsState
<1> HIDE DEF r
<1>3. Quiet(f, s, r)
  BY <1>1, <1>2, QuietSame
<1> QED
  BY <1>3 DEF r

LEMMA pendQuiet ==
  ASSUME NEW f, NEW s, IsState(s), NEW p \in TimePairs
  PROVE  Quiet(f, s, [s EXCEPT !.pend = p])
<1> DEFINE r == [s EXCEPT !.pend = p]
<1>1. IsState(r)
  BY pendType
<1>2. /\ r.member = s.member /\ r.known = s.known /\ r.reg = s.reg /\ r.con = s.con
      /\ r.enableSet = s.enableSet /\ r.stamps = s.stamps /\ r.bounds = s.bounds
      /\ r.cTA = s.cTA /\ r.out = s.out /\ r.tso = s.tso /\ r.sent = s.sent
  BY DEF IsState
<1> HIDE DEF r
<1>3. Quiet(f, s, r)
  BY <1>1, <1>2, QuietSame
<1> QED
  BY <1>3 DEF r

LEMMA grantQuiet ==
  ASSUME NEW f, NEW s, IsState(s), NEW p \in TimePairs
  PROVE  Quiet(f, s, queueAt(s, p, Granted))
<1>1. Granted \in Callbacks /\ Granted.type \notin Confirmations
  BY NotificationTypes DEF Granted, Confirmations
<1> QED
  BY <1>1, QuietCallback

LEMMA scheduleGrantQuiet ==
  ASSUME NEW f, NEW s, IsState(s)
  PROVE  Quiet(f, s, queueAt([s EXCEPT !.sched = FALSE], s.pend, Granted))
<1>1. Quiet(f, s, [s EXCEPT !.sched = FALSE]) /\ IsState([s EXCEPT !.sched = FALSE])
  BY scheduledQuiet, schedType
<1>2. s.pend \in TimePairs
  BY Fields
<1>3. Quiet(f, [s EXCEPT !.sched = FALSE], queueAt([s EXCEPT !.sched = FALSE], s.pend, Granted))
  BY <1>1, <1>2, grantQuiet
<1> QED
  BY <1>1, <1>3, QuietTrans

LEMMA checkForPendingTimeAdvanceQuiet ==
  ASSUME NEW f \in Federates, NEW s, IsState(s), NEW allow \in BOOLEAN
  PROVE  Quiet(f, s, checkForPendingTimeAdvance(f, s, allow))
<1> DEFINE nextMessage == allow /\ getIsSafeToAdvanceToNextMessage(s)
           reached == IF nextMessage
                      THEN canAdvanceToNextMessage(s.bounds, <<s.pend[1], 0>>)
                      ELSE canAdvanceTo(s.bounds, <<s.pend[1], 0>>)
           galt == IF nextMessage THEN getNextMessageGALT(s.bounds) ELSE getGALT(s.bounds)
           scheduled == queueAt([s EXCEPT !.sched = FALSE], s.pend, Granted)
           r == checkForPendingTimeAdvance(f, s, allow)
<1>1. Quiet(f, s, scheduled)
  BY scheduleGrantQuiet
<1>2. IsState(scheduled) /\ scheduled.reg = s.reg
  BY <1>1 DEF Quiet
<1>3. s.tgtLA \in Nat /\ s.pend[1] \in Nat
  BY Fields, PairTypes
<1>4. ~reached => galt \in Nat
  <2>1. DOMAIN s.bounds # {} => getGALT(s.bounds) \in Nat /\ getNextMessageGALT(s.bounds) \in Nat
    BY BoundsTypes
  <2>2. ~reached => DOMAIN s.bounds # {}
    BY DEF canAdvanceTo, canAdvanceToNextMessage
  <2> QED
    BY <2>1, <2>2
<1> HIDE DEF scheduled, galt, reached
<1>5. r \in {s, scheduled,
             IF reached /\ s.reg = "Enabled" THEN _sendCommitPlusLookahead(f, scheduled, s.pend[1], s.tgtLA, {"TA", "NM"}) ELSE s,
             IF ~reached /\ s.reg = "Enabled" THEN _sendCommitPlusLookahead(f, s, galt, s.tgtLA, {"TA"}) ELSE s}
  BY DEF checkForPendingTimeAdvance, scheduled, galt, reached
<1>6. s.reg = "Enabled" => Quiet(f, scheduled, _sendCommitPlusLookahead(f, scheduled, s.pend[1], s.tgtLA, {"TA", "NM"}))
  BY <1>2, <1>3, BothCommits, sendCommitPlusLookaheadQuiet
<1>7. s.reg = "Enabled" => Quiet(f, s, _sendCommitPlusLookahead(f, scheduled, s.pend[1], s.tgtLA, {"TA", "NM"}))
  BY <1>1, <1>6, QuietTrans
<1>8. ~reached /\ s.reg = "Enabled" => Quiet(f, s, _sendCommitPlusLookahead(f, s, galt, s.tgtLA, {"TA"}))
  BY <1>3, <1>4, BothCommits, sendCommitPlusLookaheadQuiet
<1>9. Quiet(f, s, s)
  BY QuietRefl
<1> HIDE DEF r
<1>10. Quiet(f, s, r)
  BY <1>1, <1>5, <1>7, <1>8, <1>9
<1> QED
  BY <1>10 DEF r

LEMMA checkForPendingFlushQueueQuiet ==
  ASSUME NEW f, NEW s, IsState(s)
  PROVE  Quiet(f, s, checkForPendingFlushQueue(s))
BY scheduleGrantQuiet, QuietRefl DEF checkForPendingFlushQueue

LEMMA beginAdvanceQuiet ==
  ASSUME NEW f, NEW s, IsState(s), NEW t \in Nat, NEW mode \in AdvanceModes
  PROVE  Quiet(f, s, _beginAdvance(s, t, mode))
<1> DEFINE a == [s EXCEPT !.adv = mode]
           p == PairMax(s.now, <<t, _getPendingTimeSecondField(a)>>)
           b == [a EXCEPT !.pend = p]
           l == [b EXCEPT !.last = s.out]
<1>1. <<t, _getPendingTimeSecondField(a)>> \in TimePairs
  BY secondFieldTypes DEF TimePairs
<1>2. p \in TimePairs /\ s.out \in TimePairs
  BY <1>1, Fields, PairTypes
<1> HIDE DEF p
<1>3. IsState(b)
  BY <1>2 DEF IsState
<1>4. IsState(l)
  BY <1>2 DEF IsState
<1>5. /\ b.member = s.member /\ b.known = s.known /\ b.reg = s.reg /\ b.con = s.con
      /\ b.enableSet = s.enableSet /\ b.stamps = s.stamps /\ b.bounds = s.bounds
      /\ b.cTA = s.cTA /\ b.out = s.out /\ b.tso = s.tso /\ b.sent = s.sent
  BY DEF IsState
<1>6. /\ l.member = s.member /\ l.known = s.known /\ l.reg = s.reg /\ l.con = s.con
      /\ l.enableSet = s.enableSet /\ l.stamps = s.stamps /\ l.bounds = s.bounds
      /\ l.cTA = s.cTA /\ l.out = s.out /\ l.tso = s.tso /\ l.sent = s.sent
  BY DEF IsState
<1> HIDE DEF b, l
<1>7. Quiet(f, s, b) /\ Quiet(f, s, l)
  BY <1>3, <1>4, <1>5, <1>6, QuietSame
<1>8. s.reg = "Enabled" => Quiet(f, l, _setOutboundLowerTimeStampAndCurrentLookahead(l, t, s.out))
  BY <1>2, <1>4, <1>6, setOutboundQuiet
<1>9. s.reg = "Enabled" => Quiet(f, s, _setOutboundLowerTimeStampAndCurrentLookahead(l, t, s.out))
  BY <1>7, <1>8, QuietTrans
<1> QED
  BY <1>7, <1>9 DEF _beginAdvance, a, p, b, l

LEMMA pendingNotBeyondQueueQuiet ==
  ASSUME NEW f, NEW s, IsState(s)
  PROVE  Quiet(f, s, _pendingNotBeyondQueue(s))
<1> DEFINE t == Min2(s.pend[1], getLeastIncomingTimepair(s)[1])
<1>1. s.tso # <<>> => t \in Nat
  BY Fields, leastType, PairTypes, MaxMinType
<1>2. s.tso # <<>> => <<t, s.pend[2]>> \in TimePairs
  <2> HIDE DEF t
  <2> QED
    BY <1>1, Fields DEF TimePairs
<1>3. s.tso # <<>> => Quiet(f, s, [s EXCEPT !.pend = <<t, s.pend[2]>>])
  BY <1>2, pendQuiet
<1> QED
  BY <1>3, QuietRefl DEF _pendingNotBeyondQueue

LEMMA advanceRequestQuiet ==
  ASSUME NEW f \in Federates, NEW s, IsState(s)
  PROVE  Quiet(f, s, _advanceRequest(f, s))
<1> DEFINE c == IF s.reg = "Enabled"
                THEN _sendCommitIfChanged(f, s, _toLogicalTime(s.out), {"TA", "NM"})
                ELSE s
<1>1. _toLogicalTime(s.out) \in Nat
  BY Fields, PairTypes
<1>2. Quiet(f, s, c)
  BY <1>1, BothCommits, sendCommitIfChangedQuiet, QuietRefl
<1> HIDE DEF c
<1>3. IsState(c) /\ c.pend \in TimePairs
  BY <1>2, Fields DEF Quiet
<1>4. Quiet(f, c, queueAt(c, c.pend, Granted))
  BY <1>3, grantQuiet
<1>5. Quiet(f, s, queueAt(c, c.pend, Granted))
  BY <1>2, <1>4, QuietTrans
<1> QED
  BY <1>5 DEF _advanceRequest, c

LEMMA nextMessageRequestQuiet ==
  ASSUME NEW f \in Federates, NEW s, IsState(s)
  PROVE  Quiet(f, s, _nextMessageRequest(f, s))
<1> DEFINE q == _pendingNotBeyondQueue(s)
           w == [q EXCEPT !.sched = TRUE]
           c == IF s.reg = "Enabled"
                THEN _sendCommitPlusLookahead(f, w, w.pend[1], w.tgtLA, {"NM"})
                ELSE w
<1>1. Quiet(f, s, q) /\ IsState(q)
  BY pendingNotBeyondQueueQuiet DEF Quiet
<1> HIDE DEF q
<1>2. Quiet(f, q, w) /\ IsState(w)
  BY <1>1, scheduledQuiet, schedType
<1> HIDE DEF w
<1>3. Quiet(f, s, w)
  BY <1>1, <1>2, QuietTrans
<1>4. w.pend[1] \in Nat /\ w.tgtLA \in Nat /\ w.reg = s.reg
  BY <1>2, <1>3, Fields, PairTypes DEF Quiet
<1>5. Quiet(f, w, c)
  BY <1>2, <1>4, BothCommits, sendCommitPlusLookaheadQuiet, QuietRefl
<1> HIDE DEF c
<1>6. Quiet(f, s, c) /\ IsState(c)
  BY <1>3, <1>5, QuietTrans DEF Quiet
<1>7. Quiet(f, c, checkForPendingTimeAdvance(f, c, FALSE))
  BY <1>6, checkForPendingTimeAdvanceQuiet
<1>8. Quiet(f, s, checkForPendingTimeAdvance(f, c, FALSE))
  BY <1>6, <1>7, QuietTrans
<1>9. Quiet(f, s, queueAt(s, s.pend, Granted))
  BY Fields, grantQuiet
<1> QED
  BY <1>8, <1>9 DEF _nextMessageRequest, q, w, c

LEMMA flushQueueRequestQuiet ==
  ASSUME NEW f \in Federates, NEW s, IsState(s)
  PROVE  Quiet(f, s, _flushQueueRequest(f, s))
<1> DEFINE q == _pendingNotBeyondQueue(s)
           limited == s.con = "Enabled" /\ ~canAdvanceTo(s.bounds, <<q.pend[1], 0>>)
           n == PairMax(s.now, <<getGALT(s.bounds), q.pend[2]>>)
           p == IF limited THEN [q EXCEPT !.pend = n] ELSE q
           t == Max2(p.pend[1] + s.tgtLA, s.cTA)
           c == IF s.reg = "Enabled" THEN _sendCommitIfChanged(f, p, t, {"TA", "NM"}) ELSE p
<1>1. Quiet(f, s, q) /\ IsState(q)
  BY pendingNotBeyondQueueQuiet DEF Quiet
<1> HIDE DEF q
<1>2. limited => n \in TimePairs
  <2> SUFFICES ASSUME limited PROVE n \in TimePairs
    OBVIOUS
  <2>1. getGALT(s.bounds) \in Nat
    BY BoundsTypes DEF canAdvanceTo
  <2>2. <<getGALT(s.bounds), q.pend[2]>> \in TimePairs
    BY <1>1, <2>1, Fields DEF TimePairs
  <2> QED
    BY <2>2, Fields, PairTypes
<1> HIDE DEF n, limited
<1>3. Quiet(f, q, p)
  BY <1>1, <1>2, pendQuiet, QuietRefl
<1> HIDE DEF p
<1>4. Quiet(f, s, p) /\ IsState(p) /\ p.reg = s.reg
  BY <1>1, <1>3, QuietTrans DEF Quiet
<1>5. t \in Nat
  <2>1. p.pend[1] \in Nat /\ s.tgtLA \in Nat /\ s.cTA \in Nat
    BY <1>4, Fields, PairTypes
  <2> QED
    BY <2>1 DEF Max2
<1> HIDE DEF t
<1>6. Quiet(f, p, c)
  BY <1>4, <1>5, BothCommits, sendCommitIfChangedQuiet, QuietRefl
<1> HIDE DEF c
<1>7. Quiet(f, s, c) /\ IsState(c) /\ c.pend \in TimePairs
  BY <1>4, <1>6, QuietTrans, Fields DEF Quiet
<1>8. Quiet(f, c, [c EXCEPT !.sched = TRUE]) /\ Quiet(f, c, queueAt(c, c.pend, Granted))
  BY <1>7, scheduledQuiet, grantQuiet
<1>9. Quiet(f, s, [c EXCEPT !.sched = TRUE]) /\ Quiet(f, s, queueAt(c, c.pend, Granted))
  BY <1>7, <1>8, QuietTrans
<1> QED
  BY <1>9 DEF _flushQueueRequest, q, limited, n, p, t, c

LEMMA timeAdvanceRequestQuiet ==
  ASSUME NEW f \in Federates, NEW s, IsState(s), NEW t \in Nat,
         NEW mode \in AdvanceModes \ {"Granted"}
  PROVE  Quiet(f, s, timeAdvanceRequest(f, s, t, mode))
<1> DEFINE b == _beginAdvance(s, t, mode)
<1>1. Quiet(f, s, b) /\ IsState(b)
  BY beginAdvanceQuiet DEF Quiet
<1> HIDE DEF b
<1>2. /\ Quiet(f, b, _advanceRequest(f, b)) /\ Quiet(f, b, _nextMessageRequest(f, b))
      /\ Quiet(f, b, _flushQueueRequest(f, b))
  BY <1>1, advanceRequestQuiet, nextMessageRequestQuiet, flushQueueRequestQuiet
<1>3. /\ Quiet(f, s, _advanceRequest(f, b)) /\ Quiet(f, s, _nextMessageRequest(f, b))
      /\ Quiet(f, s, _flushQueueRequest(f, b))
  BY <1>1, <1>2, QuietTrans
<1>4. mode \in {"TAR", "TARA"} \/ mode \in {"NMR", "NMRA"} \/ mode = "FQR"
  BY DEF AdvanceModes
<1> QED
  BY <1>3, <1>4 DEF timeAdvanceRequest, b

LEMMA modifyLookaheadQuiet ==
  ASSUME NEW f \in Federates, NEW s, IsState(s), s.reg = "Enabled", NEW lookahead \in Nat
  PROVE  Quiet(f, s, modifyLookahead(f, s, lookahead))
<1> DEFINE l == [s EXCEPT !.tgtLA = lookahead, !.last = s.out]
           b == _setOutboundLowerTimeStampAndCurrentLookahead(l, s.now[1], s.out)
<1>1. IsState(l)
  BY Fields DEF IsState
<1>2. /\ l.member = s.member /\ l.known = s.known /\ l.reg = s.reg /\ l.con = s.con
      /\ l.enableSet = s.enableSet /\ l.stamps = s.stamps /\ l.bounds = s.bounds
      /\ l.cTA = s.cTA /\ l.out = s.out /\ l.tso = s.tso /\ l.sent = s.sent
  BY DEF IsState
<1> HIDE DEF l
<1>3. Quiet(f, s, l)
  BY <1>1, <1>2, QuietSame
<1>4. Quiet(f, l, b) /\ IsState(b) /\ b.reg = "Enabled"
  <2>1. s.now[1] \in Nat /\ s.out \in TimePairs /\ l.reg = "Enabled"
    BY <1>2, Fields, PairTypes
  <2>2. Quiet(f, l, b)
    BY <1>1, <2>1, setOutboundQuiet
  <2> HIDE DEF b
  <2> QED
    BY <2>1, <2>2 DEF Quiet
<1> HIDE DEF b
<1>5. Quiet(f, s, b) /\ _toLogicalTime(b.out) \in Nat
  BY <1>3, <1>4, QuietTrans, Fields, PairTypes
<1>6. Quiet(f, b, _sendCommitIfChanged(f, b, _toLogicalTime(b.out), {"TA", "NM"}))
  BY <1>4, <1>5, BothCommits, sendCommitIfChangedQuiet
<1>7. Quiet(f, s, _sendCommitIfChanged(f, b, _toLogicalTime(b.out), {"TA", "NM"}))
  BY <1>5, <1>6, QuietTrans
<1> QED
  BY <1>7 DEF modifyLookahead, l, b

LEMMA checkedQuiet ==
  ASSUME NEW f \in Federates, NEW s, NEW a, IsState(a)
  PROVE  Quiet(f, a, checkForPendingTimeAdvance(f, _sendLockedIfChanged(f, s, a), TRUE))
<1>1. Quiet(f, a, _sendLockedIfChanged(f, s, a)) /\ IsState(_sendLockedIfChanged(f, s, a))
  BY sendLockedQuiet DEF Quiet
<1>2. Quiet(f, _sendLockedIfChanged(f, s, a),
               checkForPendingTimeAdvance(f, _sendLockedIfChanged(f, s, a), TRUE))
  BY <1>1, checkForPendingTimeAdvanceQuiet
<1> QED
  BY <1>1, <1>2, QuietTrans

LEMMA queueTimeStampedMessageQuiet ==
  ASSUME NEW f \in Federates, NEW s, IsState(s), NEW m \in DataMessages
  PROVE  Quiet(f, s, queueTimeStampedMessage(f, s, m))
<1> DEFINE q == queueAt(s, <<m.ts, -1>>, m)
           p == IF s.now[1] <= m.ts THEN [q EXCEPT !.pend = <<m.ts, @[2]>>] ELSE q
           c == IF s.sched /\ s.reg = "Enabled"
                THEN _sendCommitPlusLookahead(f, p, p.pend[1], s.tgtLA, {"NM"})
                ELSE p
<1>1. m.ts \in Nat /\ m \in Callbacks /\ m.type \notin Confirmations
  BY RelayedTypes DEF DataMessages, Confirmations
<1>2. <<m.ts, -1>> \in TimePairs
  BY <1>1 DEF TimePairs
<1>3. Quiet(f, s, q) /\ IsState(q)
  BY <1>1, <1>2, QuietCallback, queueAtType
<1> HIDE DEF q
<1>4. <<m.ts, q.pend[2]>> \in TimePairs
  BY <1>1, <1>3, Fields DEF TimePairs
<1>5. Quiet(f, q, p)
  BY <1>3, <1>4, pendQuiet, QuietRefl
<1> HIDE DEF p
<1>6. Quiet(f, s, p) /\ IsState(p) /\ p.reg = s.reg
  BY <1>3, <1>5, QuietTrans DEF Quiet
<1>7. p.pend[1] \in Nat /\ s.tgtLA \in Nat
  BY <1>6, Fields, PairTypes
<1>8. Quiet(f, p, c)
  BY <1>6, <1>7, BothCommits, sendCommitPlusLookaheadQuiet, QuietRefl
<1> HIDE DEF c
<1>9. Quiet(f, s, c) /\ IsState(c)
  BY <1>6, <1>8, QuietTrans DEF Quiet
<1>10. Quiet(f, c, checkForPendingTimeAdvance(f, c, TRUE))
  BY <1>9, checkForPendingTimeAdvanceQuiet
<1>11. Quiet(f, s, checkForPendingTimeAdvance(f, c, TRUE))
  BY <1>9, <1>10, QuietTrans
<1> QED
  BY <1>3, <1>11, QuietRefl DEF queueTimeStampedMessage, q, p, c

LEMMA roQuiet ==
  ASSUME NEW f, NEW s, IsState(s), NEW q \in Seq(DataMessages)
  PROVE  Quiet(f, s, [s EXCEPT !.ro = q])
<1> DEFINE r == [s EXCEPT !.ro = q]
<1>1. IsState(r)
  BY DEF IsState
<1>2. /\ r.member = s.member /\ r.known = s.known /\ r.reg = s.reg /\ r.con = s.con
      /\ r.enableSet = s.enableSet /\ r.stamps = s.stamps /\ r.bounds = s.bounds
      /\ r.cTA = s.cTA /\ r.out = s.out /\ r.tso = s.tso /\ r.sent = s.sent
  BY DEF IsState
<1> HIDE DEF r
<1>3. Quiet(f, s, r)
  BY <1>1, <1>2, QuietSame
<1> QED
  BY <1>3 DEF r

LEMMA acceptDataQuiet ==
  ASSUME NEW f \in Federates, NEW s, IsState(s), NEW m \in DataMessages
  PROVE  Quiet(f, s, acceptData(f, s, m))
<1>1. s.ro \in Seq(DataMessages)
  BY Fields
<1>2. Append(s.ro, m) \in Seq(DataMessages)
  BY <1>1
<1> QED
  BY <1>2, roQuiet, queueTimeStampedMessageQuiet DEF acceptData

LEMMA boundsQuiet ==
  ASSUME NEW f, NEW s, IsState(s), NEW n, IsMap(n, Federates, Commits),
         DOMAIN n = DOMAIN s.bounds, \A g \in DOMAIN s.bounds : n[g].ta = s.bounds[g].ta
  PROVE  Quiet(f, s, [s EXCEPT !.bounds = n])
<1> DEFINE t == [s EXCEPT !.bounds = n]
<1>1. s.cTA \in Nat /\ s.sent \in Seq(ToServer)
  BY Fields
<1>2. IsState(t)
  BY boundsType
<1>3. /\ t.member = s.member /\ t.known = s.known /\ t.reg = s.reg /\ t.con = s.con
      /\ t.enableSet = s.enableSet /\ t.stamps = s.stamps /\ t.bounds = n
      /\ t.cTA = s.cTA /\ t.out = s.out /\ t.tso = s.tso /\ t.sent = s.sent
  BY DEF IsState
<1>4. Extends(s.sent, s.sent, Minor(f, s.reg, s.cTA))
  BY <1>1, ExtendsRefl
<1>5. SameCallbacks(s.tso, s.tso)
  BY DEF SameCallbacks
<1> HIDE DEF t
<1>6. Quiet(f, s, t)
  BY <1>1, <1>2, <1>3, <1>4, <1>5 DEF Quiet
<1> QED
  BY <1>6 DEF t

LEMMA commitResponseQuiet ==
  ASSUME NEW f \in Federates, NEW s, IsState(s), NEW m \in CommitResponseMessages
  PROVE  Quiet(f, s, acceptCommitResponse(f, s, m))
<1> DEFINE n == setFederateWaitCommitId(s.bounds, m.from, m.id)
<1>1. IsMap(s.bounds, Federates, Commits) /\ m.id \in CommitIds
  BY Fields DEF CommitResponseMessages
<1>2. /\ IsMap(n, Federates, Commits) /\ DOMAIN n = DOMAIN s.bounds
      /\ \A g \in DOMAIN s.bounds : n[g].ta = s.bounds[g].ta
  BY <1>1 DEF setFederateWaitCommitId, IsMap, Commits
<1> HIDE DEF n
<1>3. Quiet(f, s, [s EXCEPT !.bounds = n]) /\ IsState([s EXCEPT !.bounds = n])
  BY <1>2, boundsQuiet, boundsType
<1>4. Quiet(f, [s EXCEPT !.bounds = n], acceptCommitResponse(f, s, m))
  BY <1>3, checkedQuiet DEF acceptCommitResponse, n
<1> QED
  BY <1>3, <1>4, QuietTrans

LEMMA acceptLockedQuiet ==
  ASSUME NEW f \in Federates, NEW s, IsState(s), NEW m \in LockedMessages
  PROVE  Quiet(f, s, acceptLocked(f, s, m))
<1> DEFINE n == setFederateLockedByNextMessage(s.bounds, m.from, m.locked)
<1>1. IsMap(s.bounds, Federates, Commits) /\ m.locked \in BOOLEAN
  BY Fields DEF LockedMessages
<1>2. /\ IsMap(n, Federates, Commits) /\ DOMAIN n = DOMAIN s.bounds
      /\ \A g \in DOMAIN s.bounds : n[g].ta = s.bounds[g].ta
  BY <1>1 DEF setFederateLockedByNextMessage, IsMap, Commits
<1> HIDE DEF n
<1>3. Quiet(f, s, [s EXCEPT !.bounds = n]) /\ IsState([s EXCEPT !.bounds = n])
  BY <1>2, boundsQuiet, boundsType
<1>4. Quiet(f, [s EXCEPT !.bounds = n], acceptLocked(f, s, m))
  BY <1>3, checkedQuiet DEF acceptLocked, n
<1> QED
  BY <1>3, <1>4, QuietTrans

LEMMA grantedQuiet ==
  ASSUME NEW f, NEW s, IsState(s)
  PROVE  Quiet(f, s, acceptTimeAdvanceGranted(s))
<1> DEFINE b == IF (getIsAnyNextMessageMode(s) \/ s.adv = "FQR") /\ s.reg = "Enabled"
                THEN _setOutboundLowerTimeStampAndCurrentLookahead(s, s.pend[1], s.last)
                ELSE s
           r == [b EXCEPT !.now = s.pend, !.adv = "Granted"]
<1>1. s.pend \in TimePairs /\ s.last \in TimePairs /\ s.pend[1] \in Nat
  BY Fields, PairTypes
<1>2. Quiet(f, s, b) /\ IsState(b)
  <2>1. Quiet(f, s, b)
    BY <1>1, setOutboundQuiet, QuietRefl
  <2> QED
    BY <2>1 DEF Quiet
<1> HIDE DEF b
<1>3. ASSUME NEW p \in TimePairs PROVE IsState([b EXCEPT !.now = p, !.adv = "Granted"])
  BY <1>2 DEF IsState, AdvanceModes
<1>4. IsState(r)
  BY <1>1, <1>3
<1>5. /\ r.member = b.member /\ r.known = b.known /\ r.reg = b.reg /\ r.con = b.con
      /\ r.enableSet = b.enableSet /\ r.stamps = b.stamps /\ r.bounds = b.bounds
      /\ r.cTA = b.cTA /\ r.out = b.out /\ r.tso = b.tso /\ r.sent = b.sent
  BY <1>2 DEF IsState
<1> HIDE DEF r
<1>6. Quiet(f, b, r)
  BY <1>2, <1>4, <1>5, QuietSame
<1>7. Quiet(f, s, r)
  BY <1>2, <1>6, QuietTrans
<1> QED
  BY <1>7 DEF acceptTimeAdvanceGranted, b, r

-----------------------------------------------------------------------------
(* Steady changes: a confirmation may get into the queue, with a commit *)

\* t waits for the same federates as s; the corrected times that are no longer in t have
\* been committed.
Steady(f, s, t) ==
  /\ IsState(s) /\ IsState(t)
  /\ t.member = s.member /\ t.known = s.known /\ t.reg = s.reg /\ t.con = s.con
  /\ t.enableSet = s.enableSet
  /\ DOMAIN t.bounds = DOMAIN s.bounds
  /\ \A g \in DOMAIN s.bounds : t.bounds[g].ta = s.bounds[g].ta
  /\ s.cTA <= t.cTA
  /\ \A g \in DOMAIN s.stamps : \/ g \in DOMAIN t.stamps /\ t.stamps[g] = s.stamps[g]
                                \/ s.stamps[g] <= t.cTA
  /\ Extends(s.sent, t.sent, Minor(f, s.reg, t.cTA))

LEMMA QuietSteady ==
  ASSUME NEW f, NEW s, NEW t, Quiet(f, s, t)
  PROVE  Steady(f, s, t)
BY DEF Quiet, Steady

LEMMA SteadyTrans ==
  ASSUME NEW f, NEW s, NEW t, NEW u, Steady(f, s, t), Steady(f, t, u)
  PROVE  Steady(f, s, u)
<1>1. /\ s.cTA \in Nat /\ t.cTA \in Nat /\ u.cTA \in Nat
      /\ s.sent \in Seq(ToServer) /\ t.sent \in Seq(ToServer) /\ u.sent \in Seq(ToServer)
      /\ IsMap(s.stamps, Federates, Nat) /\ IsMap(t.stamps, Federates, Nat)
  BY Fields DEF Steady
<1>2. s.cTA <= u.cTA /\ t.cTA <= u.cTA /\ t.reg = s.reg
  BY <1>1 DEF Steady
<1>3. Minor(f, s.reg, t.cTA) \subseteq Minor(f, s.reg, u.cTA)
  <2>1. ASSUME NEW m \in ToServer, m.type = "Commit" PROVE m.ts \in Nat
    BY <2>1, ToServerTimes
  <2> QED
    BY <1>1, <1>2, <2>1 DEF Minor
<1>4. Extends(s.sent, u.sent, Minor(f, s.reg, u.cTA))
  BY <1>1, <1>2, <1>3, ExtendsTrans DEF Steady
<1>5. ASSUME NEW g \in DOMAIN s.stamps
      PROVE  \/ g \in DOMAIN u.stamps /\ u.stamps[g] = s.stamps[g]
             \/ s.stamps[g] <= u.cTA
  BY <1>1, <1>2 DEF Steady, IsMap
<1> QED
  BY <1>2, <1>4, <1>5 DEF Steady

LEMMA checkTimeRegulationEnabledSkips ==
  ASSUME NEW f, NEW s, s.reg # "EnablePending" \/ s.enableSet # {}
  PROVE  checkTimeRegulationEnabled(f, s) = s
BY DEF checkTimeRegulationEnabled

\* All answers are in: the largest corrected time is committed, and the federate will be told.
LEMMA checkTimeRegulationEnabledSteady ==
  ASSUME NEW f \in Federates, NEW s, IsState(s),
         s.reg = "EnablePending", s.enableSet = {}, s.cTA <= s.out[1],
         NEW t, t = checkTimeRegulationEnabled(f, s)
  PROVE  /\ Steady(f, s, t)
         /\ t.cTA <= t.out[1]
         /\ Sorted(s.tso) =>
              /\ Sorted(t.tso)
              /\ ~Some(s.tso, Calling("RegulationEnabled")) => Single(t.tso, Calling("RegulationEnabled"))
              /\ Some(t.tso, Calling("ConstrainedEnabled")) => Some(s.tso, Calling("ConstrainedEnabled"))
              /\ Single(s.tso, Calling("ConstrainedEnabled")) => Single(t.tso, Calling("ConstrainedEnabled"))
<1> DEFINE larger == {s.stamps[g] : g \in DOMAIN s.stamps} \cup {s.out[1]}
           bound  == Max(larger)
           pend   == IF bound = s.out[1] THEN s.pend
                     ELSE PairMax(s.pend, <<bound - s.curLA, 0>>)
           type   == {"TA", "NM"}
           m      == CommitMessage(f, bound, type, s.commitId)
           c      == [s EXCEPT !.out = <<bound, 0>>, !.pend = pend, !.stamps = EmptyMap,
                               !.cTA = bound, !.cNM = bound, !.sent = Append(@, m)]
<1>1. s.out[1] \in Nat /\ s.curLA \in Nat /\ s.pend \in TimePairs /\ s.cTA \in Nat
      /\ s.commitId \in CommitIds /\ s.sent \in Seq(ToServer)
  BY Fields, PairTypes
<1>2. IsMap(s.stamps, Federates, Nat)
  BY Fields
<1>3. IsFiniteSet({s.stamps[g] : g \in DOMAIN s.stamps})
  BY <1>2, FederatesFinite, ImageFinite DEF IsMap
<1>4. IsFiniteSet(larger) /\ larger \in SUBSET Nat /\ larger # {}
  BY <1>1, <1>2, <1>3, FS_AddElement DEF IsMap
<1>5. bound \in Nat /\ s.cTA <= bound /\ \A g \in DOMAIN s.stamps : s.stamps[g] <= bound
  <2>1. \A g \in DOMAIN s.stamps : s.stamps[g] \in larger
    OBVIOUS
  <2>2. s.out[1] \in larger
    OBVIOUS
  <2> HIDE DEF larger
  <2>3. bound \in Nat /\ \A y \in larger : y <= bound
    BY <1>4, MaxNat
  <2>4. s.out[1] <= bound
    BY <2>2, <2>3
  <2> QED
    BY <1>1, <2>1, <2>3, <2>4
<1>6. checkTimeRegulationEnabled(f, s) = queueAt(c, pend, RegulationEnabled)
  <2> DEFINE ready == [s EXCEPT !.out = <<bound, 0>>, !.pend = pend, !.stamps = EmptyMap]
  <2> HIDE DEF bound, pend
  <2>1. ready.commitId = s.commitId /\ ready.sent = s.sent
    BY DEF IsState
  <2>2. _sendCommitLowerBoundTimeStamp(f, ready, bound, type) = c
    <3>1. _sendCommitLowerBoundTimeStamp(f, ready, bound, type)
            = send([ready EXCEPT !.cTA = bound, !.cNM = bound, !.commitId = s.commitId], m)
      BY <2>1 DEF _sendCommitLowerBoundTimeStamp
    <3> HIDE DEF m
    <3> QED
      BY <3>1 DEF send, IsState
  <2> HIDE DEF ready, c
  <2>3. checkTimeRegulationEnabled(f, s)
          = queueAt(_sendCommitLowerBoundTimeStamp(f, ready, bound, type), pend, RegulationEnabled)
    BY DEF checkTimeRegulationEnabled, ready, bound, pend
  <2> QED
    BY <2>2, <2>3
<1> HIDE DEF bound
<1>7. pend \in TimePairs
  BY <1>1, <1>5, PairTypes
<1> HIDE DEF pend
<1>8. IsMap(EmptyMap, Federates, Nat)
  BY DEF IsMap, EmptyMap
<1>9. <<bound, 0>> \in TimePairs
  BY <1>5 DEF TimePairs
<1>10. m \in ToServer /\ m.type = "Commit" /\ m.fed = f /\ m.ct = type /\ m.ts = bound
  BY <1>1, <1>5, BothCommits, MessageTypes, RelayedTypes DEF CommitMessage
<1>11. m \in Minor(f, s.reg, bound)
  BY <1>5, <1>10 DEF Minor
<1> HIDE DEF m
<1>12. IsState(c)
  <2>1. ASSUME NEW o \in TimePairs, NEW n \in TimePairs, NEW e, IsMap(e, Federates, Nat),
               NEW q \in Seq(ToServer)
        PROVE  IsState([s EXCEPT !.out = o, !.pend = n, !.stamps = e, !.cTA = bound, !.cNM = bound,
                                 !.sent = q])
    BY <1>5, <2>1 DEF IsState
  <2>2. Append(s.sent, m) \in Seq(ToServer)
    BY <1>1, <1>10
  <2> QED
    BY <1>7, <1>8, <1>9, <2>1, <2>2
<1>13. /\ c.member = s.member /\ c.known = s.known /\ c.reg = s.reg /\ c.con = s.con
       /\ c.enableSet = s.enableSet /\ c.stamps = EmptyMap /\ c.bounds = s.bounds
       /\ c.cTA = bound /\ c.out = <<bound, 0>> /\ c.tso = s.tso /\ c.sent = Append(s.sent, m)
  BY DEF IsState
<1>14. Extends(s.sent, c.sent, Minor(f, s.reg, bound))
  <2>1. Extends(s.sent, s.sent, Minor(f, s.reg, bound))
    BY <1>1, ExtendsRefl
  <2> QED
    BY <1>1, <1>10, <1>11, <1>13, <2>1, ExtendsAppend
<1> HIDE DEF c
<1>15. t = queueAt(c, pend, RegulationEnabled)
  BY <1>6
<1>16. IsState(t) /\ t.member = c.member /\ t.known = c.known /\ t.reg = c.reg /\ t.con = c.con
       /\ t.enableSet = c.enableSet /\ t.stamps = c.stamps /\ t.bounds = c.bounds
       /\ t.cTA = c.cTA /\ t.out = c.out /\ t.sent = c.sent
  <2>1. IsState(t)
    BY <1>7, <1>12, <1>15, NotificationTypes, queueAtType
  <2>2. t.member = c.member /\ t.known = c.known /\ t.reg = c.reg /\ t.con = c.con
        /\ t.enableSet = c.enableSet /\ t.stamps = c.stamps /\ t.bounds = c.bounds
        /\ t.cTA = c.cTA /\ t.out = c.out /\ t.sent = c.sent
    BY <1>12, <1>15 DEF queueAt, IsState
  <2> QED
    BY <2>1, <2>2
<1>17. Steady(f, s, t)
  BY <1>5, <1>13, <1>14, <1>16 DEF Steady
<1>18. t.cTA <= t.out[1]
  BY <1>5, <1>13, <1>16
<1>19. RegulationEnabled.type = "RegulationEnabled"
  BY DEF RegulationEnabled
<1>20. ASSUME Sorted(s.tso)
       PROVE  /\ Sorted(t.tso)
              /\ ~Some(s.tso, Calling("RegulationEnabled")) => Single(t.tso, Calling("RegulationEnabled"))
              /\ Some(t.tso, Calling("ConstrainedEnabled")) => Some(s.tso, Calling("ConstrainedEnabled"))
              /\ Single(s.tso, Calling("ConstrainedEnabled")) => Single(t.tso, Calling("ConstrainedEnabled"))
  <2>1. Sorted(c.tso)
    BY <1>13, <1>20
  <2> QED
    BY <1>7, <1>12, <1>13, <1>15, <1>19, <2>1, NotificationTypes, queueAtKeeps
<1> QED
  BY <1>17, <1>18, <1>20

-----------------------------------------------------------------------------
(* What holds in each ambassador by itself *)

\* The queue is in order and has each confirmation at most once; it has one only while the
\* request is pending, and for time regulation only after the last answer.  Until then the
\* commit is not beyond the time that was asked for.
LocalOK(s) ==
  /\ Sorted(s.tso)
  /\ Single(s.tso, Calling("RegulationEnabled")) /\ Single(s.tso, Calling("ConstrainedEnabled"))
  /\ Some(s.tso, Calling("RegulationEnabled")) => s.reg = "EnablePending" /\ s.enableSet = {}
  /\ Some(s.tso, Calling("ConstrainedEnabled")) => s.con = "EnablePending"
  /\ s.reg = "Disabled" => s.cTA = 0
  /\ s.reg = "EnablePending" => s.cTA <= s.out[1]

LEMMA QuietLocal ==
  ASSUME NEW f, NEW s, NEW t, Quiet(f, s, t), LocalOK(s)
  PROVE  LocalOK(t)
BY DEF LocalOK, Quiet, SameCallbacks, Confirmations

\* The fields that a message from the server leaves alone until the checks at its end
Alike(s, a) ==
  /\ IsState(s) /\ IsState(a)
  /\ a.member = s.member /\ a.reg = s.reg /\ a.con = s.con
  /\ a.cTA = s.cTA /\ a.out = s.out /\ a.tso = s.tso

LEMMA AlikeLocal ==
  ASSUME NEW s, NEW a, Alike(s, a), LocalOK(s), s.enableSet = {} => a.enableSet = {}
  PROVE  LocalOK(a)
BY DEF LocalOK, Alike

LEMMA checkTimeRegulationEnabledLocal ==
  ASSUME NEW f \in Federates, NEW s, IsState(s), LocalOK(s),
         s.enableSet = {} => ~Some(s.tso, Calling("RegulationEnabled"))
  PROVE  /\ Steady(f, s, checkTimeRegulationEnabled(f, s))
         /\ LocalOK(checkTimeRegulationEnabled(f, s))
<1>1. CASE s.reg # "EnablePending" \/ s.enableSet # {}
  <2>1. Steady(f, s, s)
    BY QuietRefl, QuietSteady
  <2> QED
    BY <1>1, <2>1, checkTimeRegulationEnabledSkips
<1>2. CASE s.reg = "EnablePending" /\ s.enableSet = {}
  <2>1. PICK t : t = checkTimeRegulationEnabled(f, s)
    OBVIOUS
  <2>2. s.cTA <= s.out[1]
    BY <1>2 DEF LocalOK
  <2>3. /\ Steady(f, s, t)
        /\ t.cTA <= t.out[1]
        /\ Sorted(s.tso) =>
              /\ Sorted(t.tso)
              /\ ~Some(s.tso, Calling("RegulationEnabled")) => Single(t.tso, Calling("RegulationEnabled"))
              /\ Some(t.tso, Calling("ConstrainedEnabled")) => Some(s.tso, Calling("ConstrainedEnabled"))
              /\ Single(s.tso, Calling("ConstrainedEnabled")) => Single(t.tso, Calling("ConstrainedEnabled"))
    BY <1>2, <2>1, <2>2, checkTimeRegulationEnabledSteady
  <2>4. LocalOK(t)
    BY <1>2, <2>3 DEF LocalOK, Steady
  <2> QED
    BY <2>1, <2>3, <2>4
<1> QED
  BY <1>1, <1>2

-----------------------------------------------------------------------------
(* The calls that change a mode *)

\* f asks for regulation in the state a, and has only sent minor messages since.
Asks(f, s, u) ==
  \E a, m :
     /\ IsState(a) /\ LocalOK(a) /\ Quiet(f, a, u)
     /\ a.member = s.member /\ a.known = s.known /\ a.con = s.con /\ a.bounds = s.bounds
     /\ a.reg = "EnablePending" /\ a.enableSet = s.known \cup {f} /\ a.stamps = s.stamps
     /\ m \in EnableRequests /\ m.fed = f /\ m.ts = a.cTA
     /\ a.sent = Append(s.sent, m)

\* The request is sent, and the answers of all known federates are awaited; what follows
\* are acknowledgements.
LEMMA enableTimeRegulationAsks ==
  ASSUME NEW f \in Federates, NEW s, IsState(s), NEW t \in Nat, NEW lookahead \in Nat,
         s.reg = "Disabled", LocalOK(s)
  PROVE  Asks(f, s, _enableTimeRegulation(f, s, t, lookahead))
<1> DEFINE pend  == PairMax(s.now, <<t, 0>>)
           bound == pend[1] + lookahead
           m     == EnableRequest(f, bound, s.commitId)
           a     == [s EXCEPT !.reg = "EnablePending", !.curLA = lookahead, !.tgtLA = lookahead,
                              !.pend = pend, !.out = <<bound, 0>>, !.last = <<bound, 0>>,
                              !.cTA = bound, !.cNM = bound,
                              !.enableSet = s.known \cup {f}, !.sent = Append(@, m)]
           r     == [a EXCEPT !.sent = @ \o CommitResponses(f, s)]
<1>1. pend \in TimePairs
  BY Fields, PairTypes
<1>2. bound \in Nat
  BY <1>1, PairTypes
<1>3. <<bound, 0>> \in TimePairs
  BY <1>2 DEF TimePairs
<1>4. s.known \cup {f} \in SUBSET Federates
  BY Fields
<1>5. _enableTimeRegulation(f, s, t, lookahead) = r
  <2> HIDE DEF bound, m
  <2> QED
    BY DEF _enableTimeRegulation, send, IsState, bound, m
<1> HIDE DEF pend, bound
<1>6. m \in EnableRequests /\ m.fed = f /\ m.ts = bound
  BY <1>2, Fields DEF EnableRequest, EnableRequests
<1>7. m \in ToServer
  BY <1>6 DEF Relayed, ToServer
<1> HIDE DEF m
<1>8. s.sent \in Seq(ToServer) /\ Append(s.sent, m) \in Seq(ToServer)
  BY <1>7, Fields
<1>9. IsState(a)
  <2>1. ASSUME NEW p \in TimePairs, NEW o \in TimePairs, NEW b \in Nat, NEW e \in SUBSET Federates,
               NEW q \in Seq(ToServer)
        PROVE  IsState([s EXCEPT !.reg = "EnablePending", !.curLA = lookahead,
                                 !.tgtLA = lookahead, !.pend = p, !.out = o, !.last = o,
                                 !.cTA = b, !.cNM = b, !.enableSet = e, !.sent = q])
    BY DEF IsState, Modes
  <2> QED
    BY <1>1, <1>2, <1>3, <1>4, <1>8, <2>1
<1>10. /\ a.member = s.member /\ a.known = s.known /\ a.con = s.con /\ a.bounds = s.bounds
       /\ a.reg = "EnablePending" /\ a.enableSet = s.known \cup {f} /\ a.stamps = s.stamps
       /\ a.cTA = bound /\ a.out = <<bound, 0>> /\ a.tso = s.tso
       /\ a.sent = Append(s.sent, m)
  BY DEF IsState
<1> HIDE DEF a
<1>11. LocalOK(a)
  <2>1. ~Some(s.tso, Calling("RegulationEnabled"))
    BY DEF LocalOK
  <2>2. a.out[1] = bound
    BY <1>10
  <2> QED
    BY <1>2, <1>10, <2>1, <2>2 DEF LocalOK
<1>12. CommitResponses(f, s) \in Seq(Minor(f, a.reg, a.cTA) \cap ToServer)
  <2> DEFINE nm == getNextMessageFederates(s.bounds)
             R  == [g \in nm |-> CommitResponse(g, f, s.bounds[g].id)]
             C  == {CommitResponse(g, f, s.bounds[g].id) : g \in nm}
  <2>1. nm \in SUBSET Federates /\ \A g \in nm : s.bounds[g].id \in CommitIds
    BY Fields DEF getNextMessageFederates, IsMap, Commits
  <2>2. IsFiniteSet(DOMAIN R)
    BY <2>1, FederatesFinite
  <2>3. C = {R[g] : g \in DOMAIN R}
    OBVIOUS
  <2>4. IsFiniteSet(C)
    <3> HIDE DEF R, C
    <3> QED
      BY <2>2, <2>3, ImageFinite
  <2>5. C \in SUBSET (Minor(f, a.reg, a.cTA) \cap ToServer)
    <3> SUFFICES ASSUME NEW g \in nm
                 PROVE  CommitResponse(g, f, s.bounds[g].id) \in Minor(f, a.reg, a.cTA) \cap ToServer
      OBVIOUS
    <3>1. CommitResponse(g, f, s.bounds[g].id) \in CommitResponseMessages
      BY <2>1 DEF CommitResponse, CommitResponseMessages
    <3>2. CommitResponse(g, f, s.bounds[g].id).type = "CommitResponse"
      BY DEF CommitResponse
    <3> QED
      BY <3>1, <3>2 DEF Relayed, ToServer, Minor
  <2>6. SetToSeq(C) \in Seq(Minor(f, a.reg, a.cTA) \cap ToServer)
    <3> HIDE DEF C
    <3> QED
      BY <2>4, <2>5, SetToSeqType
  <2> QED
    BY <2>6 DEF CommitResponses
<1>13. PICK c : c = CommitResponses(f, s)
  OBVIOUS
<1>14. c \in Seq(ToServer) /\ a.sent \in Seq(ToServer)
  BY <1>9, <1>13, CommitResponsesType, Fields
<1>15. a.sent \o c \in Seq(ToServer) /\ Extends(a.sent, a.sent \o c, Minor(f, a.reg, a.cTA))
  <2>1. /\ a.sent \o c \in Seq(ToServer) /\ Len(a.sent) \in Nat /\ Len(c) \in Nat
        /\ Len(a.sent \o c) = Len(a.sent) + Len(c)
        /\ DOMAIN a.sent = 1 .. Len(a.sent) /\ DOMAIN c = 1 .. Len(c)
        /\ DOMAIN (a.sent \o c) = 1 .. Len(a.sent) + Len(c)
        /\ \A i \in 1 .. Len(a.sent) : (a.sent \o c)[i] = a.sent[i]
        /\ \A i \in 1 .. Len(c) : (a.sent \o c)[Len(a.sent) + i] = c[i]
    BY <1>14, ConcatAt
  <2>2. \A i \in 1 .. Len(c) : c[i] \in Minor(f, a.reg, a.cTA)
    BY <1>12, <1>13, <2>1
  <2>3. PICK u : u = a.sent \o c
    OBVIOUS
  <2>4. ASSUME NEW i \in DOMAIN u, Len(a.sent) < i PROVE u[i] \in Minor(f, a.reg, a.cTA)
    <3>1. i - Len(a.sent) \in 1 .. Len(c) /\ Len(a.sent) + (i - Len(a.sent)) = i
      BY <2>1, <2>3, <2>4
    <3> QED
      BY <2>1, <2>2, <2>3, <3>1
  <2>5. Len(a.sent) <= Len(u) /\ \A i \in DOMAIN a.sent : u[i] = a.sent[i]
    BY <2>1, <2>3
  <2> QED
    BY <2>1, <2>3, <2>4, <2>5 DEF Extends
<1>16. /\ r.member = a.member /\ r.known = a.known /\ r.con = a.con /\ r.bounds = a.bounds
       /\ r.reg = a.reg /\ r.enableSet = a.enableSet /\ r.stamps = a.stamps
       /\ r.cTA = a.cTA /\ r.out = a.out /\ r.tso = a.tso /\ r.sent = a.sent \o c
  BY <1>9, <1>13 DEF IsState
<1> HIDE DEF r
<1>17. IsState(r)
  BY <1>5, enableTimeRegulationType
<1>18. Quiet(f, a, r)
  <2>1. SameCallbacks(a.tso, r.tso) /\ a.cTA \in Nat
    BY <1>9, <1>16, Fields DEF SameCallbacks
  <2> QED
    BY <1>9, <1>15, <1>16, <1>17, <2>1 DEF Quiet
<1> QED
  <2>1. \E b, n :
           /\ IsState(b) /\ LocalOK(b) /\ Quiet(f, b, _enableTimeRegulation(f, s, t, lookahead))
           /\ b.member = s.member /\ b.known = s.known /\ b.con = s.con /\ b.bounds = s.bounds
           /\ b.reg = "EnablePending" /\ b.enableSet = s.known \cup {f} /\ b.stamps = s.stamps
           /\ n \in EnableRequests /\ n.fed = f /\ n.ts = b.cTA
           /\ b.sent = Append(s.sent, n)
    BY <1>5, <1>6, <1>9, <1>10, <1>11, <1>18
  <2> QED
    BY <2>1 DEF Asks

LEMMA disableTimeRegulationSends ==
  ASSUME NEW f \in Federates, NEW s, IsState(s), s.reg = "Enabled", LocalOK(s),
         NEW t, t = disableTimeRegulation(f, s)
  PROVE  /\ IsState(t) /\ LocalOK(t)
         /\ t.member = s.member /\ t.known = s.known /\ t.con = s.con /\ t.bounds = s.bounds
         /\ t.reg = "Disabled" /\ t.enableSet = s.enableSet /\ t.stamps = s.stamps
         /\ t.cTA = 0 /\ t.sent = Append(s.sent, DisableRequest(f))
<1>1. IsState(t)
  BY disableTimeRegulationType
<1>2. /\ t.member = s.member /\ t.known = s.known /\ t.con = s.con /\ t.bounds = s.bounds
      /\ t.reg = "Disabled" /\ t.enableSet = s.enableSet /\ t.stamps = s.stamps
      /\ t.cTA = 0 /\ t.tso = s.tso /\ t.sent = Append(s.sent, DisableRequest(f))
  BY DEF disableTimeRegulation, send, IsState, InitialTime
<1>3. LocalOK(t)
  BY <1>2 DEF LocalOK
<1> QED
  BY <1>1, <1>2, <1>3

LEMMA enableTimeConstrainedSends ==
  ASSUME NEW f \in Federates, NEW s, IsState(s), s.con = "Disabled", LocalOK(s),
         NEW t, t = enableTimeConstrained(f, s)
  PROVE  /\ IsState(t) /\ LocalOK(t)
         /\ t.member = s.member /\ t.known = s.known /\ t.con = "EnablePending" /\ t.bounds = s.bounds
         /\ t.reg = s.reg /\ t.enableSet = s.enableSet /\ t.stamps = s.stamps
         /\ t.cTA = s.cTA /\ t.sent = Append(s.sent, ConstrainedNotify(f))
<1> DEFINE pend == <<s.now[1], 0>>
           r == [s EXCEPT !.con = "EnablePending", !.pend = pend]
           q == queueAt(r, pend, ConstrainedEnabled)
<1>1. pend \in TimePairs
  BY Fields, PairTypes DEF TimePairs
<1>2. IsState(r)
  <2>1. ASSUME NEW p \in TimePairs PROVE IsState([s EXCEPT !.con = "EnablePending", !.pend = p])
    BY DEF IsState, Modes
  <2> HIDE DEF pend
  <2> QED
    BY <1>1, <2>1
<1> HIDE DEF pend
<1>3. /\ r.member = s.member /\ r.known = s.known /\ r.con = "EnablePending" /\ r.bounds = s.bounds
      /\ r.reg = s.reg /\ r.enableSet = s.enableSet /\ r.stamps = s.stamps
      /\ r.cTA = s.cTA /\ r.out = s.out /\ r.tso = s.tso /\ r.sent = s.sent
  BY DEF IsState
<1> HIDE DEF r
<1>4. IsState(q)
  BY <1>1, <1>2, NotificationTypes, queueAtType
<1>5. /\ q.member = r.member /\ q.known = r.known /\ q.con = r.con /\ q.bounds = r.bounds
      /\ q.reg = r.reg /\ q.enableSet = r.enableSet /\ q.stamps = r.stamps
      /\ q.cTA = r.cTA /\ q.out = r.out /\ q.sent = r.sent
  BY <1>2 DEF queueAt, IsState
<1>6. Sorted(r.tso) /\ ~Some(r.tso, Calling("ConstrainedEnabled"))
  BY <1>3 DEF LocalOK
<1>7. /\ Sorted(q.tso)
      /\ Single(q.tso, Calling("ConstrainedEnabled"))
      /\ Some(q.tso, Calling("RegulationEnabled")) => Some(r.tso, Calling("RegulationEnabled"))
      /\ Single(r.tso, Calling("RegulationEnabled")) => Single(q.tso, Calling("RegulationEnabled"))
  <2>1. ConstrainedEnabled.type # "RegulationEnabled"
    BY DEF ConstrainedEnabled
  <2> QED
    BY <1>1, <1>2, <1>6, <2>1, NotificationTypes, queueAtKeeps
<1> HIDE DEF q
<1>8. t = send(q, ConstrainedNotify(f))
  BY DEF enableTimeConstrained, q, r, pend
<1>9. IsState(t)
  BY enableTimeConstrainedType
<1>10. /\ t.member = q.member /\ t.known = q.known /\ t.con = q.con /\ t.bounds = q.bounds
       /\ t.reg = q.reg /\ t.enableSet = q.enableSet /\ t.stamps = q.stamps
       /\ t.cTA = q.cTA /\ t.out = q.out /\ t.tso = q.tso /\ t.sent = Append(q.sent, ConstrainedNotify(f))
  BY <1>4, <1>8 DEF send, IsState
<1>11. LocalOK(t)
  BY <1>3, <1>5, <1>7, <1>10 DEF LocalOK
<1> QED
  BY <1>3, <1>5, <1>9, <1>10, <1>11

LEMMA disableTimeConstrainedSends ==
  ASSUME NEW f \in Federates, NEW s, IsState(s), s.con = "Enabled", LocalOK(s),
         NEW t, t = disableTimeConstrained(f, s)
  PROVE  /\ IsState(t) /\ LocalOK(t)
         /\ t.member = s.member /\ t.known = s.known /\ t.con = "Disabled" /\ t.bounds = s.bounds
         /\ t.reg = s.reg /\ t.enableSet = s.enableSet /\ t.stamps = s.stamps
         /\ t.cTA = s.cTA /\ t.sent = Append(s.sent, UnconstrainedNotify(f))
<1>1. IsState(t)
  BY disableTimeConstrainedType
<1>2. /\ t.member = s.member /\ t.known = s.known /\ t.con = "Disabled" /\ t.bounds = s.bounds
      /\ t.reg = s.reg /\ t.enableSet = s.enableSet /\ t.stamps = s.stamps
      /\ t.cTA = s.cTA /\ t.out = s.out /\ t.tso = s.tso
      /\ t.sent = Append(s.sent, UnconstrainedNotify(f))
  BY DEF disableTimeConstrained, send, IsState
<1>3. LocalOK(t)
  BY <1>2 DEF LocalOK
<1> QED
  BY <1>1, <1>2, <1>3

-----------------------------------------------------------------------------
(* The messages from the server: the change each one makes, before the checks at its end *)

LEMMA joinNotifyAlike ==
  ASSUME NEW f \in Federates, NEW s, IsState(s), LocalOK(s), NEW g \in Federates
  PROVE  \E t :
           /\ t = acceptJoinNotify(f, s, g)
           /\ Alike(s, t) /\ LocalOK(t)
           /\ t.known = s.known \cup {g} /\ t.bounds = s.bounds /\ t.stamps = s.stamps
           /\ f \in s.enableSet => t.enableSet = s.enableSet \cup {g}
           /\ f \notin s.enableSet => t.enableSet = s.enableSet
           /\ t.sent = s.sent
<1>0. PICK t : t = acceptJoinNotify(f, s, g)
  OBVIOUS
<1>1. IsState(t)
  BY <1>0, joinNotifyType
<1>2. /\ t.member = s.member /\ t.reg = s.reg /\ t.con = s.con
      /\ t.cTA = s.cTA /\ t.out = s.out /\ t.tso = s.tso
      /\ t.known = s.known \cup {g} /\ t.bounds = s.bounds /\ t.stamps = s.stamps
      /\ f \in s.enableSet => t.enableSet = s.enableSet \cup {g}
      /\ f \notin s.enableSet => t.enableSet = s.enableSet
      /\ t.sent = s.sent
  BY <1>0 DEF acceptJoinNotify, IsState
<1>3. Alike(s, t)
  BY <1>1, <1>2 DEF Alike
<1>4. LocalOK(t)
  BY <1>2, <1>3, AlikeLocal
<1> QED
  BY <1>0, <1>2, <1>3, <1>4

LEMMA resignNotifyAlike ==
  ASSUME NEW f \in Federates, NEW s, IsState(s), LocalOK(s), NEW g \in Federates
  PROVE  \E a :
           /\ Alike(s, a) /\ LocalOK(acceptResignNotify(f, s, g))
           /\ Steady(f, a, acceptResignNotify(f, s, g))
           /\ a.known = s.known \ {g} /\ a.enableSet = s.enableSet \ {g} /\ a.sent = s.sent
           /\ a.bounds = Drop(s.bounds, g) /\ a.stamps = Drop(s.stamps, g)
<1> DEFINE b == Drop(s.bounds, g)
           n == Drop(s.stamps, g)
           e == [s EXCEPT !.bounds = b, !.stamps = n, !.enableSet = @ \ {g}]
           c == IF g \in s.enableSet THEN checkTimeRegulationEnabled(f, e) ELSE e
           d == checkForPendingTimeAdvance(f, _sendLockedIfChanged(f, s, c), TRUE)
           a == [e EXCEPT !.known = @ \ {g}]
           r == [d EXCEPT !.known = @ \ {g}]
<1>1. IsMap(b, Federates, Commits) /\ IsMap(n, Federates, Nat)
  BY Fields, DropMap
<1> HIDE DEF b, n
<1>2. IsState(e)
  <2>1. ASSUME NEW x \in SUBSET Federates
        PROVE  IsState([s EXCEPT !.bounds = b, !.stamps = n, !.enableSet = x])
    BY <1>1 DEF IsState
  <2> QED
    BY <2>1, Fields
<1>3. /\ e.member = s.member /\ e.known = s.known /\ e.reg = s.reg /\ e.con = s.con
      /\ e.cTA = s.cTA /\ e.out = s.out /\ e.tso = s.tso /\ e.sent = s.sent
      /\ e.bounds = b /\ e.stamps = n /\ e.enableSet = s.enableSet \ {g}
  BY DEF IsState
<1> HIDE DEF e
<1>4. Alike(s, e)
  BY <1>2, <1>3 DEF Alike
<1>5. LocalOK(e)
  BY <1>3, <1>4, AlikeLocal
<1>6. Steady(f, e, c) /\ LocalOK(c)
  <2>1. CASE g \in s.enableSet
    <3>1. ~Some(e.tso, Calling("RegulationEnabled"))
      BY <1>3, <2>1 DEF LocalOK
    <3> QED
      BY <1>2, <1>5, <2>1, <3>1, checkTimeRegulationEnabledLocal
  <2>2. CASE g \notin s.enableSet
    BY <1>2, <1>5, <2>2, QuietRefl, QuietSteady
  <2> QED
    BY <2>1, <2>2
<1> HIDE DEF c
<1>7. Quiet(f, c, d)
  BY <1>6, checkedQuiet DEF Steady
<1> HIDE DEF d
<1>8. Steady(f, e, d) /\ LocalOK(d)
  BY <1>6, <1>7, QuietSteady, SteadyTrans, QuietLocal
<1>9. IsState(d) /\ d.known = e.known
  BY <1>8 DEF Steady
<1>10. ASSUME NEW x, IsState(x), NEW k \in SUBSET Federates PROVE IsState([x EXCEPT !.known = k])
  BY <1>10 DEF IsState
<1>11. s.known \ {g} \in SUBSET Federates
  BY Fields
<1>12. IsState(a) /\ IsState(r)
  BY <1>2, <1>3, <1>9, <1>10, <1>11
<1>13. /\ a.member = e.member /\ a.known = s.known \ {g} /\ a.reg = e.reg /\ a.con = e.con
       /\ a.cTA = e.cTA /\ a.out = e.out /\ a.tso = e.tso /\ a.sent = e.sent
       /\ a.bounds = e.bounds /\ a.stamps = e.stamps /\ a.enableSet = e.enableSet
  BY <1>2, <1>3 DEF IsState
<1>14. /\ r.member = d.member /\ r.known = s.known \ {g} /\ r.reg = d.reg /\ r.con = d.con
       /\ r.cTA = d.cTA /\ r.out = d.out /\ r.tso = d.tso /\ r.sent = d.sent
       /\ r.bounds = d.bounds /\ r.stamps = d.stamps /\ r.enableSet = d.enableSet
  BY <1>3, <1>9 DEF IsState
<1> HIDE DEF a, r
<1>15. Steady(f, a, r)
  BY <1>8, <1>12, <1>13, <1>14 DEF Steady
<1>16. LocalOK(r)
  BY <1>8, <1>14 DEF LocalOK
<1>17. acceptResignNotify(f, s, g) = r
  BY DEF acceptResignNotify, r, d, c, e, b, n, erase
<1>18. Alike(s, a)
  BY <1>3, <1>4, <1>12, <1>13 DEF Alike
<1> QED
  BY <1>3, <1>13, <1>15, <1>16, <1>17, <1>18 DEF b, n

LEMMA ownEnableRequestAlike ==
  ASSUME NEW f \in Federates, NEW s, IsState(s), LocalOK(s), s.reg = "EnablePending", f \in s.enableSet
  PROVE  \E a :
           /\ Alike(s, a) /\ LocalOK(acceptOwnEnableRequest(f, s))
           /\ Steady(f, a, acceptOwnEnableRequest(f, s))
           /\ a.known = s.known /\ a.enableSet = s.enableSet \ {f} /\ a.sent = s.sent
           /\ a.bounds = s.bounds /\ a.stamps = s.stamps
<1> DEFINE a == [s EXCEPT !.enableSet = @ \ {f}]
<1>1. IsState(a)
  BY Fields, enableSetType
<1>2. /\ a.member = s.member /\ a.known = s.known /\ a.reg = s.reg /\ a.con = s.con
      /\ a.cTA = s.cTA /\ a.out = s.out /\ a.tso = s.tso /\ a.sent = s.sent
      /\ a.bounds = s.bounds /\ a.stamps = s.stamps /\ a.enableSet = s.enableSet \ {f}
  BY DEF IsState
<1> HIDE DEF a
<1>3. Alike(s, a)
  BY <1>1, <1>2 DEF Alike
<1>4. LocalOK(a)
  BY <1>2, <1>3, AlikeLocal
<1>5. ~Some(a.tso, Calling("RegulationEnabled"))
  BY <1>2 DEF LocalOK
<1>6. Steady(f, a, checkTimeRegulationEnabled(f, a)) /\ LocalOK(checkTimeRegulationEnabled(f, a))
  BY <1>1, <1>4, <1>5, checkTimeRegulationEnabledLocal
<1>7. acceptOwnEnableRequest(f, s) = checkTimeRegulationEnabled(f, a)
  BY DEF acceptOwnEnableRequest, a
<1> QED
  BY <1>2, <1>3, <1>6, <1>7

\* A federate that has joined answers; the answer is the proposed time, or it is valid.
LEMMA enableRequestAlike ==
  ASSUME NEW f \in Federates, NEW s, IsState(s), LocalOK(s), NEW m \in EnableRequests
  PROVE  \E a, t, v :
           /\ Alike(s, a) /\ LocalOK(acceptEnableRequest(f, s, m))
           /\ Quiet(f, a, acceptEnableRequest(f, s, m))
           /\ a.known = s.known /\ a.enableSet = s.enableSet /\ a.stamps = s.stamps
           /\ t \in Nat /\ v \in BOOLEAN /\ (t = m.ts \/ (v /\ s.member = "in"))
           /\ EnableResponse(m.fed, f, t, v) \in EnableResponses
           /\ a.sent = (IF s.member = "in" THEN Append(s.sent, EnableResponse(m.fed, f, t, v)) ELSE s.sent)
           /\ DOMAIN a.bounds = DOMAIN s.bounds \cup {m.fed}
           /\ a.bounds[m.fed].ta = t
           /\ \A g \in DOMAIN s.bounds : g # m.fed => a.bounds[g] = s.bounds[g]
<1> DEFINE answer == s.member = "in"
           v == getTimeConstrainedEnabledOrPending(s)
           t == IF answer THEN _correctedTime(s, m.ts) ELSE m.ts
           r == EnableResponse(m.fed, f, t, v)
           c == [ta |-> t, nm |-> t, id |-> m.id, waitId |-> PreviousCommitId(s.commitId),
                 locked |-> FALSE]
           n == Put(s.bounds, m.fed, c)
           q == IF answer THEN Append(s.sent, r) ELSE s.sent
           a == [s EXCEPT !.bounds = n, !.sent = q]
<1>1. m.fed \in Federates /\ m.ts \in Nat /\ m.id \in CommitIds
  BY DEF EnableRequests
<1>2. t \in Nat /\ v \in BOOLEAN /\ (t = m.ts \/ (v /\ answer))
  <2>1. _toLogicalTime(s.pend) \in Nat
    BY Fields, PairTypes
  <2> QED
    BY <1>1, <2>1 DEF _correctedTime, Max2, getTimeConstrainedEnabledOrPending
<1>3. acceptEnableRequest(f, s, m) = _sendLockedIfChanged(f, s, a)
  <2>1. send(s, r) = [s EXCEPT !.sent = Append(s.sent, r)]
    BY DEF send
  <2> HIDE DEF v, r, t
  <2>2. acceptEnableRequest(f, s, m)
          = _sendLockedIfChanged(f, s,
              [(IF answer THEN send(s, r) ELSE s) EXCEPT !.bounds = Put(@, m.fed, c)])
    BY DEF acceptEnableRequest, insert, v, r, t
  <2>3. [(IF answer THEN send(s, r) ELSE s) EXCEPT !.bounds = Put(@, m.fed, c)] = a
    <3> HIDE DEF c
    <3>1. CASE answer
      <4>1. [send(s, r) EXCEPT !.bounds = Put(@, m.fed, c)] = [s EXCEPT !.bounds = n, !.sent = Append(s.sent, r)]
        BY <2>1 DEF IsState
      <4> QED
        BY <3>1, <4>1
    <3>2. CASE ~answer
      <4>1. [s EXCEPT !.bounds = Put(@, m.fed, c)] = [s EXCEPT !.bounds = n, !.sent = s.sent]
        BY DEF IsState
      <4> QED
        BY <3>2, <4>1
    <3> QED
      BY <3>1, <3>2
  <2> QED
    BY <2>2, <2>3
<1> HIDE DEF t, v
<1>4. r \in EnableResponses
  BY <1>1, <1>2 DEF EnableResponse, EnableResponses
<1>5. r \in ToServer
  BY <1>4 DEF Relayed, ToServer
<1> HIDE DEF r
<1>6. PreviousCommitId(s.commitId) \in CommitIds
  BY Fields, CommitIdTypes
<1>7. c \in Commits /\ c.ta = t
  BY <1>1, <1>2, <1>6 DEF Commits
<1> HIDE DEF c
<1>8. /\ IsMap(n, Federates, Commits) /\ DOMAIN n = DOMAIN s.bounds \cup {m.fed}
      /\ n[m.fed] = c /\ \A g \in DOMAIN s.bounds : g # m.fed => n[g] = s.bounds[g]
  <2>1. IsMap(s.bounds, Federates, Commits)
    BY Fields
  <2>2. IsMap(n, Federates, Commits)
    BY <1>1, <1>7, <2>1, PutMap
  <2>3. /\ DOMAIN n = DOMAIN s.bounds \cup {m.fed}
        /\ n[m.fed] = c /\ \A g \in DOMAIN s.bounds : g # m.fed => n[g] = s.bounds[g]
    BY DEF Put
  <2> QED
    BY <2>2, <2>3
<1>9. q \in Seq(ToServer)
  <2>1. s.sent \in Seq(ToServer) /\ Append(s.sent, r) \in Seq(ToServer)
    BY <1>5, Fields
  <2> QED
    BY <2>1
<1> HIDE DEF n, q
<1>10. IsState(a)
  BY <1>8, <1>9 DEF IsState
<1>11. /\ a.member = s.member /\ a.known = s.known /\ a.reg = s.reg /\ a.con = s.con
       /\ a.cTA = s.cTA /\ a.out = s.out /\ a.tso = s.tso /\ a.sent = q
       /\ a.bounds = n /\ a.stamps = s.stamps /\ a.enableSet = s.enableSet
  BY DEF IsState
<1> HIDE DEF a
<1>12. Alike(s, a)
  BY <1>10, <1>11 DEF Alike
<1>13. LocalOK(a)
  BY <1>11, <1>12, AlikeLocal
<1>14. Quiet(f, a, _sendLockedIfChanged(f, s, a))
  BY <1>10, sendLockedQuiet
<1>15. LocalOK(_sendLockedIfChanged(f, s, a))
  BY <1>13, <1>14, QuietLocal
<1>16. a.sent = (IF s.member = "in" THEN Append(s.sent, EnableResponse(m.fed, f, t, v)) ELSE s.sent)
  BY <1>11 DEF q, r
<1> QED
  BY <1>2, <1>3, <1>4, <1>7, <1>8, <1>11, <1>12, <1>14, <1>15, <1>16 DEF r

LEMMA enableResponseAlike ==
  ASSUME NEW f \in Federates, NEW s, IsState(s), LocalOK(s), s.reg = "EnablePending",
         s.enableSet # {}, NEW m \in EnableResponses
  PROVE  \E a :
           /\ Alike(s, a) /\ LocalOK(acceptEnableResponse(f, s, m))
           /\ Steady(f, a, acceptEnableResponse(f, s, m))
           /\ a.known = s.known /\ a.enableSet = s.enableSet \ {m.from} /\ a.sent = s.sent
           /\ a.bounds = s.bounds
           /\ a.stamps = (IF m.valid THEN Put(s.stamps, m.from, m.ts) ELSE s.stamps)
<1> DEFINE n == IF m.valid THEN Put(s.stamps, m.from, m.ts) ELSE s.stamps
           a == [s EXCEPT !.stamps = n, !.enableSet = @ \ {m.from}]
<1>1. m.from \in Federates /\ m.ts \in Nat
  BY DEF EnableResponses
<1>2. IsMap(n, Federates, Nat)
  BY <1>1, Fields, PutMap
<1>3. acceptEnableResponse(f, s, m) = checkTimeRegulationEnabled(f, a)
  BY DEF acceptEnableResponse
<1> HIDE DEF n
<1>4. IsState(a)
  <2>1. ASSUME NEW e \in SUBSET Federates
        PROVE  IsState([s EXCEPT !.stamps = n, !.enableSet = e])
    BY <1>2 DEF IsState
  <2> QED
    BY <2>1, Fields
<1>5. /\ a.member = s.member /\ a.known = s.known /\ a.reg = s.reg /\ a.con = s.con
      /\ a.cTA = s.cTA /\ a.out = s.out /\ a.tso = s.tso /\ a.sent = s.sent
      /\ a.bounds = s.bounds /\ a.stamps = n /\ a.enableSet = s.enableSet \ {m.from}
  BY DEF IsState
<1> HIDE DEF a
<1>6. Alike(s, a)
  BY <1>4, <1>5 DEF Alike
<1>7. LocalOK(a)
  BY <1>5, <1>6, AlikeLocal
<1>8. ~Some(a.tso, Calling("RegulationEnabled"))
  BY <1>5 DEF LocalOK
<1>9. Steady(f, a, checkTimeRegulationEnabled(f, a)) /\ LocalOK(checkTimeRegulationEnabled(f, a))
  BY <1>4, <1>7, <1>8, checkTimeRegulationEnabledLocal
<1> QED
  BY <1>3, <1>5, <1>6, <1>9 DEF n

LEMMA disableRequestAlike ==
  ASSUME NEW f \in Federates, NEW s, IsState(s), LocalOK(s), NEW m
  PROVE  \E a :
           /\ Alike(s, a) /\ LocalOK(acceptDisableRequest(f, s, m))
           /\ Quiet(f, a, acceptDisableRequest(f, s, m))
           /\ a.known = s.known /\ a.enableSet = s.enableSet /\ a.sent = s.sent
           /\ a.bounds = Drop(s.bounds, m.fed) /\ a.stamps = s.stamps
<1> DEFINE n == Drop(s.bounds, m.fed)
           a == [s EXCEPT !.bounds = n]
<1>1. IsMap(n, Federates, Commits)
  BY Fields, DropMap
<1>2. acceptDisableRequest(f, s, m) = checkForPendingTimeAdvance(f, _sendLockedIfChanged(f, s, a), TRUE)
  BY DEF acceptDisableRequest, erase
<1> HIDE DEF n
<1>3. IsState(a)
  BY <1>1, boundsType
<1>4. /\ a.member = s.member /\ a.known = s.known /\ a.reg = s.reg /\ a.con = s.con
      /\ a.cTA = s.cTA /\ a.out = s.out /\ a.tso = s.tso /\ a.sent = s.sent
      /\ a.bounds = n /\ a.stamps = s.stamps /\ a.enableSet = s.enableSet
  BY DEF IsState
<1> HIDE DEF a
<1>5. Alike(s, a)
  BY <1>3, <1>4 DEF Alike
<1>6. LocalOK(a)
  BY <1>4, <1>5, AlikeLocal
<1>7. Quiet(f, a, acceptDisableRequest(f, s, m))
  BY <1>2, <1>3, checkedQuiet
<1>8. LocalOK(acceptDisableRequest(f, s, m))
  BY <1>6, <1>7, QuietLocal
<1> QED
  BY <1>4, <1>5, <1>7, <1>8 DEF n

LEMMA commitAlike ==
  ASSUME NEW f \in Federates, NEW s, IsState(s), LocalOK(s), NEW m \in CommitMessages
  PROVE  \E a :
           /\ Alike(s, a) /\ LocalOK(acceptCommit(f, s, m))
           /\ Quiet(f, a, acceptCommit(f, s, m))
           /\ a.known = s.known /\ a.enableSet = s.enableSet /\ a.sent = s.sent
           /\ a.stamps = s.stamps /\ DOMAIN a.bounds = DOMAIN s.bounds
           /\ \A g \in DOMAIN s.bounds :
                a.bounds[g].ta = (IF g = m.fed /\ "TA" \in m.ct THEN m.ts ELSE s.bounds[g].ta)
<1> DEFINE c == Committed(s.bounds[m.fed], m.ts, m.ct, m.id)
           n == [s.bounds EXCEPT ![m.fed] = c]
           a == [s EXCEPT !.bounds = n]
           r == CommitResponse(m.fed, f, m.id)
           b == IF commitIdChanged(s.bounds, m.fed, m.id) /\ s.member = "in" THEN send(a, r) ELSE a
<1>1. m.fed \in Federates /\ m.ts \in Nat /\ m.id \in CommitIds
  BY DEF CommitMessages
<1>2. IsMap(s.bounds, Federates, Commits)
  BY Fields
<1>3. m.fed \in DOMAIN s.bounds =>
        c \in Commits /\ c.ta = (IF "TA" \in m.ct THEN m.ts ELSE s.bounds[m.fed].ta)
  <2> SUFFICES ASSUME m.fed \in DOMAIN s.bounds
               PROVE  c \in Commits /\ c.ta = (IF "TA" \in m.ct THEN m.ts ELSE s.bounds[m.fed].ta)
    OBVIOUS
  <2>1. PICK o : o = s.bounds[m.fed]
    OBVIOUS
  <2>2. o \in Commits
    BY <1>2, <2>1 DEF IsMap
  <2>3. Committed(o, m.ts, m.ct, m.id) \in Commits
    BY <1>1, <2>2 DEF Committed, Commits
  <2>4. Committed(o, m.ts, m.ct, m.id).ta = (IF "TA" \in m.ct THEN m.ts ELSE o.ta)
    BY <2>2 DEF Committed, Commits
  <2> QED
    BY <2>1, <2>3, <2>4
<1>4. acceptCommit(f, s, m) = checkForPendingTimeAdvance(f, _sendLockedIfChanged(f, s, b), TRUE)
  BY DEF acceptCommit, commit
<1> HIDE DEF c
<1>5. /\ IsMap(n, Federates, Commits) /\ DOMAIN n = DOMAIN s.bounds
      /\ \A g \in DOMAIN s.bounds :
           n[g].ta = (IF g = m.fed /\ "TA" \in m.ct THEN m.ts ELSE s.bounds[g].ta)
  BY <1>2, <1>3, updateMap
<1> HIDE DEF n
<1>6. IsState(a)
  BY <1>5, boundsType
<1>7. /\ a.member = s.member /\ a.known = s.known /\ a.reg = s.reg /\ a.con = s.con
      /\ a.cTA = s.cTA /\ a.out = s.out /\ a.tso = s.tso /\ a.sent = s.sent
      /\ a.bounds = n /\ a.stamps = s.stamps /\ a.enableSet = s.enableSet
  BY DEF IsState
<1> HIDE DEF a
<1>8. Alike(s, a)
  BY <1>6, <1>7 DEF Alike
<1>9. LocalOK(a)
  BY <1>7, <1>8, AlikeLocal
<1>10. r \in Minor(f, a.reg, a.cTA)
  <2>1. r \in CommitResponseMessages /\ r.type = "CommitResponse"
    BY <1>1 DEF CommitResponse, CommitResponseMessages
  <2> QED
    BY <2>1 DEF Minor, Relayed, ToServer
<1> HIDE DEF r
<1>11. Quiet(f, a, b)
  BY <1>6, <1>10, QuietSend, QuietRefl
<1> HIDE DEF b
<1>12. Quiet(f, b, acceptCommit(f, s, m))
  <2>1. IsState(b)
    BY <1>11 DEF Quiet
  <2> QED
    BY <1>4, <2>1, checkedQuiet
<1>13. Quiet(f, a, acceptCommit(f, s, m))
  BY <1>11, <1>12, QuietTrans
<1>14. LocalOK(acceptCommit(f, s, m))
  BY <1>9, <1>13, QuietLocal
<1> QED
  BY <1>5, <1>7, <1>8, <1>13, <1>14

-----------------------------------------------------------------------------
(* The callbacks *)

LEMMA SortedTail ==
  ASSUME NEW q \in Seq(Entries), q # <<>>, Sorted(q)
  PROVE  Sorted(Tail(q))
<1> DEFINE t == Tail(q)
<1>1. /\ DOMAIN t = 1 .. Len(q) - 1 /\ DOMAIN q = 1 .. Len(q) /\ Len(q) \in Nat \ {0}
      /\ \A i \in 1 .. Len(q) - 1 : t[i] = q[i + 1]
  BY TailAt
<1> HIDE DEF t
<1>2. ASSUME NEW i \in DOMAIN t, NEW j \in DOMAIN t, i < j PROVE PairLeq(t[i].at, t[j].at)
  <2>1. i + 1 \in DOMAIN q /\ j + 1 \in DOMAIN q /\ i + 1 < j + 1
    BY <1>1, <1>2
  <2>2. PairLeq(q[i + 1].at, q[j + 1].at)
    BY <2>1 DEF Sorted
  <2> QED
    BY <1>1, <2>2
<1>3. Sorted(t)
  BY <1>2 DEF Sorted
<1> QED
  BY <1>3 DEF t

\* The first callback is taken from the queue.
LEMMA callbackTaken ==
  ASSUME NEW f, NEW s, IsState(s), LocalOK(s), s.tso # <<>>,
         NEW t, t = [s EXCEPT !.tso = Tail(@)]
  PROVE  /\ Quiet(f, s, t) /\ LocalOK(t)
         /\ \A type \in Confirmations :
              Head(s.tso).msg.type = type =>
                Some(s.tso, Calling(type)) /\ ~Some(t.tso, Calling(type))
<1>1. s.tso \in Seq(Entries) /\ Tail(s.tso) \in Seq(Entries) /\ Head(s.tso) \in Entries
      /\ s.cTA \in Nat /\ s.sent \in Seq(ToServer)
  BY Fields, TailAt
<1>2. /\ t.member = s.member /\ t.known = s.known /\ t.reg = s.reg /\ t.con = s.con
      /\ t.enableSet = s.enableSet /\ t.stamps = s.stamps /\ t.bounds = s.bounds
      /\ t.cTA = s.cTA /\ t.out = s.out /\ t.tso = Tail(s.tso) /\ t.sent = s.sent
  BY DEF IsState
<1>3. IsState(t)
  <2>1. ASSUME NEW q \in Seq(Entries) PROVE IsState([s EXCEPT !.tso = q])
    BY DEF IsState, Entries
  <2> QED
    BY <1>1, <2>1
<1>4. ASSUME NEW X
      PROVE  /\ Some(s.tso, X) <=> Head(s.tso) \in X \/ Some(t.tso, X)
             /\ Single(s.tso, X) => Single(t.tso, X) /\ (Head(s.tso) \in X => ~Some(t.tso, X))
  BY <1>1, <1>2, SomeTail, SingleTail
<1>5. SameCallbacks(s.tso, t.tso)
  BY <1>1, <1>2, <1>4, SortedTail DEF SameCallbacks
<1>6. Extends(s.sent, t.sent, Minor(f, s.reg, t.cTA))
  BY <1>1, <1>2, ExtendsRefl
<1>7. Quiet(f, s, t)
  BY <1>1, <1>2, <1>3, <1>5, <1>6 DEF Quiet
<1>8. LocalOK(t)
  BY <1>7, QuietLocal
<1>9. ASSUME NEW type \in Confirmations, Head(s.tso).msg.type = type
      PROVE  Some(s.tso, Calling(type)) /\ ~Some(t.tso, Calling(type))
  <2>1. Head(s.tso) \in Calling(type)
    BY <1>1, <1>9 DEF Calling
  <2>2. Single(s.tso, Calling(type))
    BY DEF LocalOK, Confirmations
  <2> QED
    BY <1>4, <2>1, <2>2
<1> QED
  BY <1>7, <1>8, <1>9

\* A confirmation ends the pending request; any other callback changes no mode.
LEMMA callbackAlike ==
  ASSUME NEW f, NEW s, IsState(s), LocalOK(s), s.tso # <<>>
  PROVE  LET r == acceptCallback([s EXCEPT !.tso = Tail(@)], Head(s.tso).msg)
         IN  /\ IsState(r) /\ LocalOK(r)
             /\ \/ Quiet(f, s, r)
                \/ /\ s.reg = "EnablePending" /\ s.enableSet = {} /\ r.reg = "Enabled" /\ r.con = s.con
                   /\ r.member = s.member /\ r.known = s.known /\ r.enableSet = s.enableSet
                   /\ r.stamps = s.stamps /\ r.bounds = s.bounds /\ r.cTA = s.cTA /\ r.sent = s.sent
                \/ /\ s.con = "EnablePending" /\ r.con = "Enabled" /\ r.reg = s.reg
                   /\ r.member = s.member /\ r.known = s.known /\ r.enableSet = s.enableSet
                   /\ r.stamps = s.stamps /\ r.bounds = s.bounds /\ r.cTA = s.cTA /\ r.sent = s.sent
<1>1. PICK t : t = [s EXCEPT !.tso = Tail(@)]
  OBVIOUS
<1>2. /\ Quiet(f, s, t) /\ LocalOK(t) /\ IsState(t)
      /\ \A type \in Confirmations :
           Head(s.tso).msg.type = type => Some(s.tso, Calling(type)) /\ ~Some(t.tso, Calling(type))
  <2>1. /\ Quiet(f, s, t) /\ LocalOK(t)
        /\ \A type \in Confirmations :
             Head(s.tso).msg.type = type => Some(s.tso, Calling(type)) /\ ~Some(t.tso, Calling(type))
    BY <1>1, callbackTaken
  <2>2. IsState(t)
    BY <2>1 DEF Quiet
  <2> QED
    BY <2>1, <2>2
<1>3. /\ t.member = s.member /\ t.known = s.known /\ t.reg = s.reg /\ t.con = s.con
      /\ t.enableSet = s.enableSet /\ t.stamps = s.stamps /\ t.bounds = s.bounds
      /\ t.cTA = s.cTA /\ t.out = s.out /\ t.sent = s.sent
  BY <1>1 DEF IsState
<1>4. PICK r : r = acceptCallback(t, Head(s.tso).msg)
  OBVIOUS
<1>5. IsState(r)
  BY <1>2, <1>4, callbackType
<1>6. CASE Head(s.tso).msg.type = "RegulationEnabled"
  <2>1. r = [t EXCEPT !.reg = "Enabled", !.now = t.pend]
    BY <1>4, <1>6 DEF acceptCallback
  <2>2. /\ r.member = t.member /\ r.known = t.known /\ r.reg = "Enabled" /\ r.con = t.con
        /\ r.enableSet = t.enableSet /\ r.stamps = t.stamps /\ r.bounds = t.bounds
        /\ r.cTA = t.cTA /\ r.out = t.out /\ r.tso = t.tso /\ r.sent = t.sent
    BY <1>2, <2>1 DEF IsState
  <2>3. Some(s.tso, Calling("RegulationEnabled")) /\ ~Some(t.tso, Calling("RegulationEnabled"))
    BY <1>2, <1>6 DEF Confirmations
  <2>4. s.reg = "EnablePending" /\ s.enableSet = {}
    BY <2>3 DEF LocalOK
  <2>5. LocalOK(r)
    BY <1>2, <2>2, <2>3 DEF LocalOK
  <2> QED
    BY <1>1, <1>3, <1>4, <1>5, <2>2, <2>4, <2>5
<1>7. CASE Head(s.tso).msg.type = "ConstrainedEnabled"
  <2>1. r = [t EXCEPT !.con = "Enabled", !.now = t.pend]
    BY <1>4, <1>7 DEF acceptCallback
  <2>2. /\ r.member = t.member /\ r.known = t.known /\ r.reg = t.reg /\ r.con = "Enabled"
        /\ r.enableSet = t.enableSet /\ r.stamps = t.stamps /\ r.bounds = t.bounds
        /\ r.cTA = t.cTA /\ r.out = t.out /\ r.tso = t.tso /\ r.sent = t.sent
    BY <1>2, <2>1 DEF IsState
  <2>3. Some(s.tso, Calling("ConstrainedEnabled")) /\ ~Some(t.tso, Calling("ConstrainedEnabled"))
    BY <1>2, <1>7 DEF Confirmations
  <2>4. s.con = "EnablePending"
    BY <2>3 DEF LocalOK
  <2>5. LocalOK(r)
    BY <1>2, <2>2, <2>3 DEF LocalOK
  <2> QED
    BY <1>1, <1>3, <1>4, <1>5, <2>2, <2>4, <2>5
<1>8. CASE Head(s.tso).msg.type \notin Confirmations
  <2>1. r = t \/ r = acceptTimeAdvanceGranted(t)
    BY <1>4, <1>8 DEF acceptCallback, Confirmations
  <2>2. Quiet(f, t, r)
    BY <1>2, <2>1, QuietRefl, grantedQuiet
  <2>3. Quiet(f, s, r) /\ LocalOK(r)
    BY <1>2, <2>2, QuietTrans, QuietLocal
  <2> QED
    BY <1>1, <1>4, <1>5, <2>3
<1> QED
  BY <1>6, <1>7, <1>8 DEF Confirmations

-----------------------------------------------------------------------------
(* The federation: types *)

LEMMA startedType ==
  ASSUME NEW f \in Federates
  PROVE  IsState(NewTimeManagement) /\ IsState(Started(f))
<1>1. <<InitialTime, 0>> \in TimePairs /\ InitialTime \in Nat /\ InitialCommitId \in CommitIds
      /\ PreviousCommitId(InitialCommitId) \in CommitIds
  BY InitialPair, CommitIdTypes
<1>2. IsMap(EmptyMap, Federates, Commits) /\ IsMap(EmptyMap, Federates, Nat)
  BY DEF IsMap, EmptyMap
<1>3. <<>> \in Seq(ToServer) /\ <<>> \in Seq(DataMessages)
      /\ <<>> \in Seq([at : TimePairs, msg : Callbacks])
  OBVIOUS
<1>4. IsState(NewTimeManagement)
  <2> HIDE DEF EmptyMap
  <2> QED
    BY <1>1, <1>2, <1>3 DEF IsState, NewTimeManagement, Modes, AdvanceModes
<1> DEFINE regulates == f \in InitialRegulating
           bound == IF regulates THEN InitialLookahead ELSE InitialTime
           lookahead == IF regulates THEN InitialLookahead ELSE 0
           b == [g \in InitialRegulating \ {f} |->
                   [ta |-> InitialLookahead, nm |-> InitialLookahead, id |-> InitialCommitId,
                    waitId |-> PreviousCommitId(InitialCommitId), locked |-> FALSE]]
           k == InitialMembers \ {f}
           r == IF regulates THEN "Enabled" ELSE "Disabled"
           c == IF f \in InitialConstrained THEN "Enabled" ELSE "Disabled"
           p == <<bound, 0>>
<1>5. bound \in Nat /\ lookahead \in Nat /\ InitialLookahead \in Nat
  BY <1>1, FederationAssumption
<1>6. p \in TimePairs
  BY <1>5 DEF TimePairs
<1>7. IsMap(b, Federates, Commits)
  BY <1>1, <1>5, FederationAssumption DEF IsMap, Commits
<1>8. k \in SUBSET Federates
  BY FederationAssumption
<1>9. ASSUME NEW s, IsState(s), NEW x \in SUBSET Federates, NEW u \in Modes, NEW v \in Modes,
             NEW l \in Nat, NEW q \in TimePairs, NEW n \in Nat, NEW m, IsMap(m, Federates, Commits)
      PROVE  IsState([s EXCEPT !.member = "in", !.known = x, !.reg = u, !.con = v,
                               !.curLA = l, !.tgtLA = l, !.out = q, !.last = q,
                               !.cTA = n, !.cNM = n, !.bounds = m])
  BY <1>9 DEF IsState
<1>10. r \in Modes /\ c \in Modes
  BY DEF Modes
<1>11. IsState(Started(f))
  <2> HIDE DEF b, bound, lookahead, k, r, c, p
  <2>1. IsState([NewTimeManagement EXCEPT
           !.member = "in", !.known = k, !.reg = r, !.con = c,
           !.curLA = lookahead, !.tgtLA = lookahead,
           !.out = p, !.last = p, !.cTA = bound, !.cNM = bound, !.bounds = b])
    BY <1>4, <1>5, <1>6, <1>7, <1>8, <1>9, <1>10
  <2> QED
    BY <2>1 DEF Started, b, bound, lookahead, k, r, c, p
<1> QED
  BY <1>4, <1>11

LEMMA initType == Init => TypeOK
<1> SUFFICES ASSUME Init PROVE TypeOK
  OBVIOUS
<1>1. DOMAIN fed = Federates /\ \A f \in Federates : IsState(fed[f])
  BY startedType DEF Init
<1>2. toFed \in [Federates -> Seq(ToFederate)]
  <2>1. <<>> \in Seq(ToFederate)
    OBVIOUS
  <2> QED
    BY <2>1 DEF Init
<1>3. IsServer(server)
  BY FederationAssumption, CommitIdTypes DEF Init, IsServer, IsMap
<1>4. calls \in [Federates -> Nat] /\ \A g \in Federates : calls[g] <= MaxCalls[g]
  BY FederationAssumption DEF Init
<1> QED
  BY <1>1, <1>2, <1>3, <1>4 DEF TypeOK

-----------------------------------------------------------------------------
(* The calls *)

LEMMA calledType ==
  ASSUME TypeOK, NEW f \in Federates, NEW kind, May(f, kind), NEW s, IsState(s), Called(f, s)
  PROVE  TypeOK'
<1>1. DOMAIN fed' = Federates /\ \A g \in Federates : IsState(fed'[g])
  BY DEF TypeOK, Called
<1>2. calls' \in [Federates -> Nat] /\ \A g \in Federates : calls'[g] <= MaxCalls[g]
  <2>1. MaxCalls \in [Federates -> Nat]
    BY FederationAssumption
  <2>2. calls \in [Federates -> Nat] /\ \A g \in Federates : calls[g] <= MaxCalls[g]
    BY DEF TypeOK
  <2>3. calls[f] < MaxCalls[f] /\ calls' = [calls EXCEPT ![f] = @ + 1]
    BY DEF Called, May
  <2>4. calls' \in [Federates -> Nat]
    BY <2>2, <2>3
  <2>5. ASSUME NEW g \in Federates PROVE calls'[g] <= MaxCalls[g]
    <3>1. CASE g = f
      BY <2>1, <2>2, <2>3, <3>1
    <3>2. CASE g # f
      BY <2>2, <2>3, <3>2
    <3> QED
      BY <3>1, <3>2
  <2> QED
    BY <2>4, <2>5
<1> QED
  BY <1>1, <1>2 DEF TypeOK, Called, IsServer

LEMMA callType ==
  ASSUME TypeOK, NEW f \in Federates, Call(f)
  PROVE  TypeOK'
<1> DEFINE s == fed[f]
<1>1. IsState(s)
  BY DEF TypeOK
<1>2. s.now[1] \in Nat
  BY <1>1, Fields, PairTypes
<1>3. Times \subseteq Nat /\ Lookaheads \subseteq Nat
  BY FederationAssumption
<1>4. CASE EnableTimeRegulation(f)
  BY <1>1, <1>2, <1>3, <1>4, enableTimeRegulationType, calledType DEF EnableTimeRegulation
<1>5. CASE EnableTimeRegulationAt(f)
  BY <1>1, <1>3, <1>5, enableTimeRegulationType, calledType DEF EnableTimeRegulationAt
<1>6. CASE DisableTimeRegulation(f)
  BY <1>1, <1>6, disableTimeRegulationType, calledType DEF DisableTimeRegulation
<1>7. CASE EnableTimeConstrained(f)
  BY <1>1, <1>7, enableTimeConstrainedType, calledType DEF EnableTimeConstrained
<1>8. CASE DisableTimeConstrained(f)
  BY <1>1, <1>8, disableTimeConstrainedType, calledType DEF DisableTimeConstrained
<1>9. CASE \E mode \in AdvanceModes \ {"Granted"} : TimeAdvanceRequest(f, mode)
  BY <1>1, <1>3, <1>9, timeAdvanceRequestType, calledType DEF TimeAdvanceRequest
<1>10. CASE ModifyLookahead(f)
  BY <1>1, <1>3, <1>10, modifyLookaheadType, calledType DEF ModifyLookahead
<1>11. CASE SendTimeStamped(f)
  <2>1. PICK t \in Times :
          LET m == TimeStamped(f, t, IF s.reg = "Enabled" THEN "TSO" ELSE "RO")
          IN  Called(f, send(IF DeliverToSelf THEN acceptData(f, s, m) ELSE s, m))
    BY <1>11 DEF SendTimeStamped
  <2> DEFINE m == TimeStamped(f, t, IF s.reg = "Enabled" THEN "TSO" ELSE "RO")
             a == IF DeliverToSelf THEN acceptData(f, s, m) ELSE s
  <2>2. m \in DataMessages
    BY <1>3 DEF TimeStamped, DataMessages
  <2> HIDE DEF m
  <2>3. IsState(a)
    BY <1>1, <2>2, acceptDataType
  <2> HIDE DEF a
  <2>4. IsState(send(a, m))
    BY <2>2, <2>3, RelayedTypes, sendType
  <2>5. May(f, "Send") /\ Called(f, send(a, m))
    BY <1>11, <2>1 DEF SendTimeStamped, a, m
  <2> QED
    BY <2>4, <2>5, calledType
<1>12. CASE SwitchAsynchronousDelivery(f)
  <2>1. IsState([s EXCEPT !.async = ~s.async])
    BY <1>1 DEF IsState
  <2> QED
    BY <1>12, <2>1, calledType DEF SwitchAsynchronousDelivery
<1>13. CASE SwitchPendingTimeInNextMessageRequest(f)
  <2>1. IsState([s EXCEPT !.allowPend = ~s.allowPend])
    BY <1>1 DEF IsState
  <2> QED
    BY <1>13, <2>1, calledType DEF SwitchPendingTimeInNextMessageRequest
<1>14. CASE Resign(f)
  <2> DEFINE r == [type |-> "Resign", fed |-> f]
             n == [NewTimeManagement EXCEPT !.member = "resigned", !.sent = Append(s.sent, r)]
  <2>1. r \in ToServer
    BY DEF ToServer, Notices
  <2> HIDE DEF r
  <2>2. s.sent \in Seq(ToServer)
    BY <1>1, Fields
  <2>3. Append(s.sent, r) \in Seq(ToServer)
    BY <2>1, <2>2
  <2>4. ASSUME NEW b, IsState(b), NEW q \in Seq(ToServer)
        PROVE  IsState([b EXCEPT !.member = "resigned", !.sent = q])
    BY <2>4 DEF IsState
  <2>5. IsState(n)
    BY <2>3, <2>4, startedType
  <2>6. May(f, "Resign") /\ Called(f, n)
    BY <1>14 DEF Resign, r
  <2> QED
    BY <2>5, <2>6, calledType
<1> QED
  BY <1>4, <1>5, <1>6, <1>7, <1>8, <1>9, <1>10, <1>11, <1>12, <1>13, <1>14 DEF Call

-----------------------------------------------------------------------------
(* The server *)

LEMMA pushMembersType ==
  ASSUME TypeOK
  PROVE  PushMembers \in Seq(ToFederate)
<1> DEFINE N == [g \in server.members |-> [type |-> "JoinNotify", fed |-> g]]
           S == {[type |-> "JoinNotify", fed |-> g] : g \in server.members}
<1>1. server.members \in SUBSET Federates
  BY DEF TypeOK, IsServer
<1>2. IsFiniteSet(DOMAIN N)
  BY <1>1, FederatesFinite
<1>3. S = {N[g] : g \in DOMAIN N}
  OBVIOUS
<1>4. IsFiniteSet(S)
  <2> HIDE DEF N, S
  <2> QED
    BY <1>2, <1>3, ImageFinite
<1>5. S \in SUBSET ToFederate
  BY <1>1 DEF ToFederate, Notices
<1>6. SetToSeq(S) \in Seq(ToFederate)
  <2> HIDE DEF S
  <2> QED
    BY <1>4, <1>5, SetToSeqType
<1> QED
  BY <1>6 DEF PushMembers

LEMMA pushRegulatingType ==
  ASSUME TypeOK
  PROVE  PushRegulating \in Seq(ToFederate)
<1> DEFINE order == SetToSeq(server.regulating)
           g(i)  == order[(i + 1) \div 2]
           m(i)  == IF i % 2 = 1
                    THEN EnableRequest(g(i), server.ta[g(i)], server.id[g(i)])
                    ELSE CommitMessage(g(i), server.nm[g(i)], {"NM"}, server.id[g(i)])
<1>1. server.regulating \in SUBSET Federates
  BY DEF TypeOK, IsServer
<1>2. order \in Seq(server.regulating)
  BY <1>1, FederatesFinite, SetToSeqType
<1> HIDE DEF order
<1>3. Len(order) \in Nat /\ \A j \in 1 .. Len(order) : order[j] \in server.regulating
  BY <1>2
<1>4. ASSUME NEW i \in 1 .. 2 * Len(order) PROVE m(i) \in ToFederate
  <2>1. (i + 1) \div 2 \in 1 .. Len(order)
    BY <1>3, <1>4
  <2>2. g(i) \in server.regulating
    BY <1>3, <2>1
  <2> HIDE DEF g
  <2>3. g(i) \in Federates /\ server.ta[g(i)] \in Nat /\ server.nm[g(i)] \in Nat
        /\ server.id[g(i)] \in CommitIds
    BY <1>1, <2>2 DEF TypeOK, IsServer, IsMap
  <2>4. EnableRequest(g(i), server.ta[g(i)], server.id[g(i)]) \in EnableRequests
    BY <2>3 DEF EnableRequest, EnableRequests
  <2>5. CommitMessage(g(i), server.nm[g(i)], {"NM"}, server.id[g(i)]) \in CommitMessages
    BY <2>3, BothCommits DEF CommitMessage, CommitMessages
  <2> QED
    BY <2>4, <2>5 DEF Relayed, ToFederate
<1>5. [i \in 1 .. 2 * Len(order) |-> m(i)] \in [1 .. 2 * Len(order) -> ToFederate]
  BY <1>4
<1>6. [i \in 1 .. 2 * Len(order) |-> m(i)] \in Seq(ToFederate)
  <2> HIDE DEF m
  <2> QED
    BY <1>3, <1>5
<1> QED
  BY <1>6 DEF PushRegulating, order

LEMMA joinType ==
  ASSUME TypeOK, NEW f \in Federates, Join(f)
  PROVE  TypeOK'
<1> DEFINE r == [type |-> "JoinResponse", fed |-> f]
           n == [type |-> "JoinNotify", fed |-> f]
<1>1. r \in ToFederate /\ n \in ToFederate
  BY DEF ToFederate, Notices
<1> HIDE DEF r, n
<1>2. toFed' \in [Federates -> Seq(ToFederate)]
  <2>1. \A g \in Federates : toFed[g] \in Seq(ToFederate)
    BY DEF TypeOK
  <2>2. toFed[f] \o PushMembers \o PushRegulating \o <<r>> \in Seq(ToFederate)
    BY <1>1, <2>1, pushMembersType, pushRegulatingType
  <2>3. \A g \in Federates : Append(toFed[g], n) \in Seq(ToFederate)
    BY <1>1, <2>1
  <2> QED
    BY <2>1, <2>2, <2>3 DEF Join, r, n
<1>3. DOMAIN fed' = Federates /\ \A g \in Federates : IsState(fed'[g])
  <2>1. ASSUME NEW s, IsState(s) PROVE IsState([s EXCEPT !.member = "joining"])
    BY <2>1 DEF IsState
  <2> QED
    BY <2>1 DEF TypeOK, Join
<1>4. IsServer(server')
  BY DEF TypeOK, Join, IsServer
<1> QED
  BY <1>2, <1>3, <1>4 DEF TypeOK, Join

LEMMA takeType ==
  ASSUME TypeOK, NEW f \in Federates, Take(f)
  PROVE  /\ DOMAIN fed' = Federates /\ \A g \in Federates : IsState(fed'[g])
         /\ calls' \in [Federates -> Nat] /\ \A g \in Federates : calls'[g] <= MaxCalls[g]
         /\ Head(fed[f].sent) \in ToServer
<1>1. fed[f].sent \in Seq(ToServer) /\ fed[f].sent # <<>>
  BY Fields DEF TypeOK, Take
<1>2. Head(fed[f].sent) \in ToServer /\ Tail(fed[f].sent) \in Seq(ToServer)
  BY <1>1
<1>3. ASSUME NEW s, IsState(s), NEW q \in Seq(ToServer) PROVE IsState([s EXCEPT !.sent = q])
  BY <1>3 DEF IsState
<1>4. IsState([fed[f] EXCEPT !.sent = Tail(fed[f].sent)])
  BY <1>2, <1>3 DEF TypeOK
<1> QED
  BY <1>2, <1>4 DEF TypeOK, Take

LEMMA toAllType ==
  ASSUME TypeOK, NEW m \in ToFederate, NEW receivers, ToAll(m, receivers)
  PROVE  toFed' \in [Federates -> Seq(ToFederate)]
<1>1. \A f \in Federates : toFed[f] \in Seq(ToFederate) /\ Append(toFed[f], m) \in Seq(ToFederate)
  BY DEF TypeOK
<1> QED
  BY <1>1 DEF ToAll

\* The type of a message tells its fields.
LEMMA ToServerCases ==
  ASSUME NEW m \in ToServer
  PROVE  /\ m.type = "EnableReg" => m \in EnableRequests
         /\ m.type = "Commit" => m \in CommitMessages
         /\ m.type = "DisableReg" => m \in Notices({"DisableReg"})
         /\ m.type \in {"EnableRegResponse", "CommitResponse", "Locked", "Data"} => m \in Relayed
BY DEF ToServer, Relayed, Notices, EnableRequests, EnableResponses, CommitMessages,
       CommitResponseMessages, LockedMessages, DataMessages

LEMMA ServerFields ==
  ASSUME NEW s, IsServer(s)
  PROVE  /\ s.members \in SUBSET Federates /\ s.constrained \in SUBSET Federates
         /\ s.regulating \in SUBSET Federates
         /\ DOMAIN s.ta = s.regulating /\ IsMap(s.ta, Federates, Nat)
         /\ DOMAIN s.nm = s.regulating /\ IsMap(s.nm, Federates, Nat)
         /\ DOMAIN s.id = s.regulating /\ IsMap(s.id, Federates, CommitIds)
BY DEF IsServer

LEMMA regulatingType ==
  ASSUME NEW s, IsServer(s), NEW R \in SUBSET Federates, NEW a, NEW b, NEW c,
         DOMAIN a = R, IsMap(a, Federates, Nat), DOMAIN b = R, IsMap(b, Federates, Nat),
         DOMAIN c = R, IsMap(c, Federates, CommitIds)
  PROVE  IsServer([s EXCEPT !.regulating = R, !.ta = a, !.nm = b, !.id = c])
BY DEF IsServer

LEMMA regulateType ==
  ASSUME NEW s, IsServer(s), NEW f \in Federates, NEW t \in Nat, NEW i \in CommitIds
  PROVE  IsServer([s EXCEPT !.regulating = @ \cup {f}, !.ta = Put(@, f, t),
                            !.nm = Put(@, f, t), !.id = Put(@, f, i)])
<1> DEFINE R == s.regulating \cup {f}
           x == Put(s.ta, f, t)
           y == Put(s.nm, f, t)
           z == Put(s.id, f, i)
<1>1. /\ DOMAIN x = R /\ IsMap(x, Federates, Nat)
      /\ DOMAIN y = R /\ IsMap(y, Federates, Nat)
      /\ DOMAIN z = R /\ IsMap(z, Federates, CommitIds)
  <2>1. /\ DOMAIN s.ta = s.regulating /\ IsMap(s.ta, Federates, Nat)
        /\ DOMAIN s.nm = s.regulating /\ IsMap(s.nm, Federates, Nat)
        /\ DOMAIN s.id = s.regulating /\ IsMap(s.id, Federates, CommitIds)
    BY ServerFields
  <2>2. IsMap(x, Federates, Nat) /\ IsMap(y, Federates, Nat) /\ IsMap(z, Federates, CommitIds)
    BY <2>1 DEF IsMap, Put
  <2>3. DOMAIN x = R /\ DOMAIN y = R /\ DOMAIN z = R
    BY <2>1 DEF Put
  <2> QED
    BY <2>2, <2>3
<1>2. R \in SUBSET Federates
  BY ServerFields
<1> HIDE DEF x, y, z, R
<1>3. IsServer([s EXCEPT !.regulating = R, !.ta = x, !.nm = y, !.id = z])
  BY <1>1, <1>2, regulatingType
<1> QED
  BY <1>3 DEF x, y, z, R

LEMMA unregulateType ==
  ASSUME NEW s, IsServer(s), NEW f \in Federates
  PROVE  IsServer([s EXCEPT !.regulating = @ \ {f},
                            !.ta = Drop(@, f), !.nm = Drop(@, f), !.id = Drop(@, f)])
<1> DEFINE R == s.regulating \ {f}
           x == Drop(s.ta, f)
           y == Drop(s.nm, f)
           z == Drop(s.id, f)
<1>1. /\ DOMAIN x = R /\ IsMap(x, Federates, Nat)
      /\ DOMAIN y = R /\ IsMap(y, Federates, Nat)
      /\ DOMAIN z = R /\ IsMap(z, Federates, CommitIds)
  BY ServerFields, DropMap
<1>2. R \in SUBSET Federates
  BY ServerFields
<1> HIDE DEF x, y, z, R
<1>3. IsServer([s EXCEPT !.regulating = R, !.ta = x, !.nm = y, !.id = z])
  BY <1>1, <1>2, regulatingType
<1> QED
  BY <1>3 DEF x, y, z, R

LEMMA serverCommitType ==
  ASSUME NEW s, IsServer(s), NEW f \in s.regulating, NEW t \in Nat, NEW n \in Nat,
         NEW i \in CommitIds
  PROVE  IsServer([s EXCEPT !.ta[f] = t, !.nm[f] = n, !.id[f] = i])
<1> DEFINE x == [s.ta EXCEPT ![f] = t]
           y == [s.nm EXCEPT ![f] = n]
           z == [s.id EXCEPT ![f] = i]
<1>1. /\ DOMAIN x = s.regulating /\ IsMap(x, Federates, Nat)
      /\ DOMAIN y = s.regulating /\ IsMap(y, Federates, Nat)
      /\ DOMAIN z = s.regulating /\ IsMap(z, Federates, CommitIds)
  BY ServerFields DEF IsMap
<1> HIDE DEF x, y, z
<1>2. IsServer([s EXCEPT !.ta = x, !.nm = y, !.id = z])
  BY <1>1 DEF IsServer
<1> QED
  BY <1>2 DEF x, y, z

LEMMA membersType ==
  ASSUME NEW s, IsServer(s), NEW M \in SUBSET Federates, NEW C \in SUBSET Federates
  PROVE  /\ IsServer([s EXCEPT !.members = M])
         /\ IsServer([s EXCEPT !.constrained = C])
         /\ IsServer([s EXCEPT !.members = M, !.constrained = C])
BY DEF IsServer

LEMMA serveType ==
  ASSUME TypeOK, NEW f \in Federates, Serve(f)
  PROVE  TypeOK'
<1> DEFINE m == Head(fed[f].sent)
<1>1. Take(f)
  BY DEF Serve, ServeEnableTimeRegulation, ServeDisableTimeRegulation, ServeEnableTimeConstrained,
         ServeDisableTimeConstrained, ServeCommit, ServeResponse, ServeLocked, ServeData, ServeResign
<1>2. /\ DOMAIN fed' = Federates /\ \A g \in Federates : IsState(fed'[g])
      /\ calls' \in [Federates -> Nat] /\ \A g \in Federates : calls'[g] <= MaxCalls[g]
      /\ m \in ToServer
  BY <1>1, takeType
<1>3. IsServer(server) /\ toFed \in [Federates -> Seq(ToFederate)]
  BY DEF TypeOK
<1>4. SUFFICES toFed' \in [Federates -> Seq(ToFederate)] /\ IsServer(server')
  BY <1>2 DEF TypeOK
<1> HIDE DEF m
<1>5. CASE ServeEnableTimeRegulation(f)
  <2>1. m \in EnableRequests
    BY <1>2, <1>5, ToServerCases DEF ServeEnableTimeRegulation, Arrived, m
  <2>2. m \in ToFederate /\ m.ts \in Nat /\ m.id \in CommitIds
    BY <2>1 DEF ToFederate, Relayed, EnableRequests
  <2>3. toFed' \in [Federates -> Seq(ToFederate)]
    BY <1>5, <2>2, toAllType DEF ServeEnableTimeRegulation, m
  <2>4. IsServer([server EXCEPT !.regulating = @ \cup {f}, !.ta = Put(@, f, m.ts),
                                !.nm = Put(@, f, m.ts), !.id = Put(@, f, m.id)])
    BY <1>3, <2>2, regulateType
  <2> QED
    BY <1>5, <2>3, <2>4 DEF ServeEnableTimeRegulation, m
<1>6. CASE ServeDisableTimeRegulation(f)
  <2>1. m \in ToFederate
    BY <1>2, <1>6, ToServerCases DEF ServeDisableTimeRegulation, Arrived, ToFederate, Notices, m
  <2>2. toFed' \in [Federates -> Seq(ToFederate)]
    BY <1>6, <2>1, toAllType DEF ServeDisableTimeRegulation, m
  <2> QED
    BY <1>3, <1>6, <2>2, unregulateType DEF ServeDisableTimeRegulation
<1>7. CASE ServeEnableTimeConstrained(f)
  <2>1. server.constrained \cup {f} \in SUBSET Federates
    BY <1>3, ServerFields
  <2> QED
    BY <1>3, <1>7, <2>1, membersType DEF ServeEnableTimeConstrained
<1>8. CASE ServeDisableTimeConstrained(f)
  <2>1. server.constrained \ {f} \in SUBSET Federates
    BY <1>3, ServerFields
  <2> QED
    BY <1>3, <1>8, <2>1, membersType DEF ServeDisableTimeConstrained
<1>9. CASE ServeCommit(f)
  <2>1. m \in CommitMessages
    BY <1>2, <1>9, ToServerCases DEF ServeCommit, Arrived, m
  <2>2. m \in ToFederate /\ m.ts \in Nat /\ m.id \in CommitIds
    BY <2>1 DEF ToFederate, Relayed, CommitMessages
  <2>3. toFed' \in [Federates -> Seq(ToFederate)]
    BY <1>9, <2>2, toAllType DEF ServeCommit, m
  <2> DEFINE ta == IF "TA" \in m.ct THEN m.ts ELSE server.ta[f]
             nm == IF "NM" \in m.ct THEN m.ts ELSE server.nm[f]
  <2>4. f \in server.regulating
    BY <1>9 DEF ServeCommit
  <2>5. ta \in Nat /\ nm \in Nat
    BY <1>3, <2>2, <2>4, ServerFields DEF IsMap
  <2>6. server' = [server EXCEPT !.ta[f] = ta, !.nm[f] = nm, !.id[f] = m.id]
    BY <1>9 DEF ServeCommit, m
  <2> HIDE DEF ta, nm
  <2>7. IsServer([server EXCEPT !.ta[f] = ta, !.nm[f] = nm, !.id[f] = m.id])
    BY <1>3, <2>2, <2>4, <2>5, serverCommitType
  <2> QED
    BY <2>3, <2>6, <2>7
<1>10. CASE ServeResponse(f)
  <2>1. m \in ToFederate
    BY <1>2, <1>10, ToServerCases, RelayedTypes DEF ServeResponse, Arrived, m
  <2> QED
    BY <1>3, <1>10, <2>1, toAllType DEF ServeResponse, m
<1>11. CASE ServeLocked(f)
  <2>1. m \in ToFederate
    BY <1>2, <1>11, ToServerCases, RelayedTypes DEF ServeLocked, Arrived, m
  <2> QED
    BY <1>3, <1>11, <2>1, toAllType DEF ServeLocked, m
<1>12. CASE ServeData(f)
  <2>1. m \in ToFederate
    BY <1>2, <1>12, ToServerCases, RelayedTypes DEF ServeData, Arrived, m
  <2> QED
    BY <1>3, <1>12, <2>1, toAllType DEF ServeData, m
<1>13. CASE ServeResign(f)
  <2> DEFINE notify  == <<[type |-> "ResignNotify", fed |-> f]>>
             disable == IF f \in server.regulating THEN <<DisableRequest(f)>> ELSE <<>>
  <2>1. [type |-> "ResignNotify", fed |-> f] \in ToFederate /\ DisableRequest(f) \in ToFederate
    BY DEF ToFederate, Notices, DisableRequest
  <2>2. notify \in Seq(ToFederate) /\ disable \in Seq(ToFederate)
    BY <2>1
  <2> HIDE DEF notify, disable
  <2>3. \A g \in Federates : toFed[g] \o disable \o notify \in Seq(ToFederate)
    BY <1>3, <2>2
  <2>4. toFed' = [g \in Federates |->
           IF g = f THEN <<>>
           ELSE IF g \in server.members THEN toFed[g] \o disable \o notify
           ELSE toFed[g]]
    BY <1>13 DEF ServeResign, notify, disable
  <2>5. <<>> \in Seq(ToFederate)
    OBVIOUS
  <2>6. toFed' \in [Federates -> Seq(ToFederate)]
    BY <1>3, <2>3, <2>4, <2>5
  <2> DEFINE M == server.members \ {f}
             C == server.constrained \ {f}
             s == [server EXCEPT !.members = M, !.constrained = C]
  <2>7. M \in SUBSET Federates /\ C \in SUBSET Federates
    BY <1>3, ServerFields
  <2>8. IsServer(s)
    <3> HIDE DEF M, C
    <3> QED
      BY <1>3, <2>7, membersType
  <2>9. s.regulating = server.regulating /\ s.ta = server.ta /\ s.nm = server.nm /\ s.id = server.id
    BY <1>3 DEF IsServer
  <2>10. server' = [s EXCEPT !.regulating = @ \ {f},
                             !.ta = Drop(@, f), !.nm = Drop(@, f), !.id = Drop(@, f)]
    BY <1>3, <1>13 DEF ServeResign, IsServer
  <2> HIDE DEF s
  <2>11. IsServer(server')
    BY <2>8, <2>10, unregulateType
  <2> QED
    BY <2>6, <2>11
<1> QED
  BY <1>5, <1>6, <1>7, <1>8, <1>9, <1>10, <1>11, <1>12, <1>13 DEF Serve

-----------------------------------------------------------------------------
(* The ambassadors *)

LEMMA ToFederateCases ==
  ASSUME NEW m \in ToFederate
  PROVE  /\ m.type = "EnableReg" => m \in EnableRequests
         /\ m.type = "EnableRegResponse" => m \in EnableResponses
         /\ m.type = "Commit" => m \in CommitMessages
         /\ m.type = "CommitResponse" => m \in CommitResponseMessages
         /\ m.type = "Locked" => m \in LockedMessages
         /\ m.type = "Data" => m \in DataMessages
         /\ m.type \in {"JoinNotify", "ResignNotify"} => m.fed \in Federates
         /\ m.type \in {"EnableReg", "EnableRegResponse", "Commit", "CommitResponse", "Locked",
                        "Data", "DisableReg", "JoinNotify", "JoinResponse", "ResignNotify"}
BY DEF ToFederate, Relayed, Notices, EnableRequests, EnableResponses, CommitMessages,
       CommitResponseMessages, LockedMessages, DataMessages

LEMMA acceptInternalMessageType ==
  ASSUME NEW f \in Federates, NEW s, IsState(s), NEW m \in ToFederate
  PROVE  IsState(acceptInternalMessage(f, s, m))
<1>1. CASE m.type = "JoinNotify"
  BY <1>1, ToFederateCases, joinNotifyType DEF acceptInternalMessage
<1>2. CASE m.type = "JoinResponse"
  <2>1. IsState([s EXCEPT !.member = "in"])
    BY DEF IsState
  <2> QED
    BY <1>2, <2>1 DEF acceptInternalMessage
<1>3. CASE m.type = "ResignNotify"
  BY <1>3, ToFederateCases, resignNotifyType DEF acceptInternalMessage
<1>4. CASE m.type = "EnableReg"
  BY <1>4, ToFederateCases, enableRequestType, ownEnableRequestType DEF acceptInternalMessage
<1>5. CASE m.type = "EnableRegResponse"
  BY <1>5, ToFederateCases, enableResponseType DEF acceptInternalMessage
<1>6. CASE m.type = "DisableReg"
  BY <1>6, disableRequestType DEF acceptInternalMessage
<1>7. CASE m.type = "Commit"
  BY <1>7, ToFederateCases, commitType DEF acceptInternalMessage
<1>8. CASE m.type = "CommitResponse"
  BY <1>8, ToFederateCases, commitResponseType DEF acceptInternalMessage
<1>9. CASE m.type = "Locked"
  BY <1>9, ToFederateCases, acceptLockedType DEF acceptInternalMessage
<1>10. CASE m.type = "Data"
  BY <1>10, ToFederateCases, acceptDataType DEF acceptInternalMessage
<1> QED
  BY <1>1, <1>2, <1>3, <1>4, <1>5, <1>6, <1>7, <1>8, <1>9, <1>10, ToFederateCases

LEMMA acceptType ==
  ASSUME TypeOK, NEW f \in Federates, Accept(f)
  PROVE  TypeOK'
<1>1. toFed[f] \in Seq(ToFederate) /\ toFed[f] # <<>>
  BY DEF TypeOK, Accept, Receive
<1>2. Head(toFed[f]) \in ToFederate /\ Tail(toFed[f]) \in Seq(ToFederate)
  BY <1>1
<1>3. IsState(acceptInternalMessage(f, fed[f], Head(toFed[f])))
  BY <1>2, acceptInternalMessageType DEF TypeOK
<1>4. DOMAIN fed' = Federates /\ \A g \in Federates : IsState(fed'[g])
  BY <1>3 DEF TypeOK, Accept, Receive
<1>5. toFed' \in [Federates -> Seq(ToFederate)]
  BY <1>2 DEF TypeOK, Accept, Receive
<1> QED
  BY <1>4, <1>5 DEF TypeOK, Accept, Receive, IsServer

LEMMA dispatchType ==
  ASSUME TypeOK, NEW f \in Federates, DispatchReceiveOrder(f) \/ DispatchTimeStampOrder(f)
  PROVE  TypeOK'
<1>1. PICK s : IsState(s) /\ fed' = [fed EXCEPT ![f] = s] /\ UNCHANGED <<toFed, server, calls>>
  <2>1. CASE DispatchReceiveOrder(f)
    <3>1. fed[f].ro \in Seq(DataMessages) /\ fed[f].ro # <<>>
      BY <2>1, Fields DEF TypeOK, DispatchReceiveOrder, receiveOrderCallback
    <3>2. Tail(fed[f].ro) \in Seq(DataMessages)
      BY <3>1
    <3>3. ASSUME NEW s, IsState(s), NEW q \in Seq(DataMessages) PROVE IsState([s EXCEPT !.ro = q])
      BY <3>3 DEF IsState
    <3>4. IsState([fed[f] EXCEPT !.ro = Tail(fed[f].ro)])
      BY <3>2, <3>3 DEF TypeOK
    <3> QED
      BY <2>1, <3>4 DEF DispatchReceiveOrder
  <2>2. CASE DispatchTimeStampOrder(f)
    <3> DEFINE s == checkForPendingFlushQueue(fed[f])
               t == [s EXCEPT !.tso = Tail(s.tso)]
    <3>1. IsState(s)
      BY checkForPendingFlushQueueType DEF TypeOK
    <3>2. s.tso # <<>>
      BY <2>2 DEF DispatchTimeStampOrder, timeStampOrderCallback
    <3>3. fed' = [fed EXCEPT ![f] = acceptCallback(t, Head(s.tso).msg)]
          /\ UNCHANGED <<toFed, server, calls>>
      BY <2>2 DEF DispatchTimeStampOrder
    <3> HIDE DEF s
    <3>4. Tail(s.tso) \in Seq(Entries)
      BY <3>1, <3>2, leastType
    <3>5. ASSUME NEW q \in Seq(Entries) PROVE IsState([s EXCEPT !.tso = q])
      BY <3>1 DEF IsState, Entries
    <3>6. IsState(t)
      BY <3>4, <3>5
    <3> HIDE DEF t
    <3>7. IsState(acceptCallback(t, Head(s.tso).msg))
      BY <3>6, callbackType
    <3> QED
      BY <3>3, <3>7
  <2> QED
    BY <2>1, <2>2
<1>2. DOMAIN fed' = Federates /\ \A g \in Federates : IsState(fed'[g])
  BY <1>1 DEF TypeOK
<1> QED
  BY <1>1, <1>2 DEF TypeOK, IsServer

-----------------------------------------------------------------------------

\* Every ambassador, the server and every connect stay well formed, whatever the federates
\* call and in whichever order requests, commits, joins and resignations meet.
THEOREM TypeCorrect == Spec => []TypeOK
<1>1. Init => TypeOK
  BY initType
<1>2. TypeOK /\ [Next]_vars => TypeOK'
  <2> SUFFICES ASSUME TypeOK, [Next]_vars PROVE TypeOK'
    OBVIOUS
  <2>1. CASE Next
    <3>1. PICK f \in Federates :
            Call(f) \/ Join(f) \/ Serve(f) \/ Accept(f)
              \/ DispatchReceiveOrder(f) \/ DispatchTimeStampOrder(f)
      BY <2>1 DEF Next
    <3> QED
      BY <3>1, callType, joinType, serveType, acceptType, dispatchType
  <2>2. CASE UNCHANGED vars
    BY <2>2 DEF vars, TypeOK, IsServer
  <2> QED
    BY <2>1, <2>2
<1> QED
  BY <1>1, <1>2, PTL DEF Spec

-----------------------------------------------------------------------------
(* The protocol between the ambassadors and the server.  F, Q and S stand   *)
(* for fed, toFed and server.                                               *)

Messages == ToServer \cup ToFederate

Typed(type) == {m \in Messages : m.type = type}
Of(type, g) == {m \in Messages : m.type = type /\ m.fed = g}

\* What makes g regulating for a receiver, and what ends it
On(g) == Of("EnableReg", g)
Off(g) == Of("DisableReg", g) \cup Of("ResignNotify", g)

\* The answers to g's request, and those that h gives
AnswerTo(g) == {m \in Messages : m.type = "EnableRegResponse" /\ m.to = g}
AnswerOf(h) == {m \in Messages : m.type = "EnableRegResponse" /\ m.from = h}

\* The steps m of the automata: whether g regulates ...
RegStep(g, m, a, b) ==
  /\ m.type = "EnableReg" => m.fed = g /\ a = "off" /\ b = "on"
  /\ m.type = "DisableReg" => m.fed = g /\ a = "on" /\ b = "off"
  /\ m.type = "Commit" => m.fed = g /\ a = "on"
  /\ m.type = "Resign" => m.fed = g /\ b = "off"
  /\ m.type = "EnableRegResponse" => m.from = g /\ m.to # g
  /\ m.type \notin {"EnableReg", "DisableReg", "Resign"} => b = a

\* ... is constrained ...
ConStep(m, a, b) ==
  /\ m.type = "EnableCon" => a = "off" /\ b = "on"
  /\ m.type = "DisableCon" => a = "on" /\ b = "off"
  /\ m.type = "Resign" => b = "off"
  /\ m.type \notin {"EnableCon", "DisableCon", "Resign"} => b = a

\* ... may still send ...
OpenStep(m, a, b) == a = "on" /\ b = Switch(m.type # "Resign")

\* ... and has an entry in the map of a receiver.
MapStep(g, m, a, b) ==
  /\ m \in On(g) => a = "off" /\ b = "on"
  /\ m \in Off(g) => b = "off"
  /\ m \in Of("Commit", g) => a = "on"
  /\ m \notin On(g) \cup Off(g) => b = a

Steps == Messages \X States \X States
RegSteps(g) == {t \in Steps : RegStep(g, t[1], t[2], t[3])}
ConSteps == {t \in Steps : ConStep(t[1], t[2], t[3])}
OpenSteps == {t \in Steps : OpenStep(t[1], t[2], t[3])}
MapSteps(g) == {t \in Steps : MapStep(g, t[1], t[2], t[3])}

LEMMA StepsOf ==
  ASSUME NEW g, NEW m, NEW a, NEW b
  PROVE  /\ <<m, a, b>> \in RegSteps(g) <=> /\ m \in Messages /\ a \in States /\ b \in States
                                            /\ RegStep(g, m, a, b)
         /\ <<m, a, b>> \in ConSteps <=> /\ m \in Messages /\ a \in States /\ b \in States
                                         /\ ConStep(m, a, b)
         /\ <<m, a, b>> \in OpenSteps <=> /\ m \in Messages /\ a \in States /\ b \in States
                                          /\ OpenStep(m, a, b)
         /\ <<m, a, b>> \in MapSteps(g) <=> /\ m \in Messages /\ a \in States /\ b \in States
                                            /\ MapStep(g, m, a, b)
<1>1. <<m, a, b>>[1] = m /\ <<m, a, b>>[2] = a /\ <<m, a, b>>[3] = b
  OBVIOUS
<1>2. <<m, a, b>> \in Steps <=> m \in Messages /\ a \in States /\ b \in States
  BY DEF Steps
<1> QED
  BY <1>1, <1>2 DEF RegSteps, ConSteps, OpenSteps, MapSteps

\* The messages that g has on the way to the server lead from what the server knows of g to
\* the modes g is in, and one to resign is the last.
SenderOK(F, S, g) ==
  /\ Run(F[g].sent, RegSteps(g), Switch(g \in S.regulating), Switch(F[g].reg # "Disabled"))
  /\ Run(F[g].sent, ConSteps, Switch(g \in S.constrained), Switch(F[g].con # "Disabled"))
  /\ Run(F[g].sent, OpenSteps, Switch(F[g].member = "resigned" => g \in S.members),
                               Switch(F[g].member # "resigned"))
  /\ F[g].sent # <<>> => g \in S.members

\* The server knows who has joined, and tells nobody what he said himself but his request.
MemberOK(F, Q, S, g) ==
  /\ F[g].member \in {"joining", "in"} => g \in S.members
  /\ F[g].member = "out" => g \notin S.members /\ F[g] = NewTimeManagement
  /\ g \notin S.members => Q[g] = <<>> /\ g \notin S.regulating /\ g \notin S.constrained
  /\ g \notin DOMAIN F[g].bounds
  /\ ~Some(Q[g], Of("Commit", g)) /\ ~Some(Q[g], AnswerOf(g))

\* The messages on the way to f lead from the map of f to what the server knows of g.
ReceiverOK(F, Q, S, f, g) ==
  f # g /\ F[f].member # "resigned" =>
    Run(Q[f], MapSteps(g), Switch(g \in DOMAIN F[f].bounds), Switch(f \in S.members /\ g \in S.regulating))

\* The own request is on its way to the server or back only while it is pending, and only
\* once; it is waited for together with the answers of all that are known when it is sent.
OwnOK(F, Q, g) ==
  F[g].member # "resigned" =>
    /\ Some(F[g].sent, On(g)) =>
         /\ F[g].reg = "EnablePending" /\ F[g].known \cup {g} \subseteq F[g].enableSet
         /\ ~Some(Q[g], On(g))
    /\ Some(Q[g], On(g)) => F[g].reg = "EnablePending" /\ g \in F[g].enableSet
    /\ Single(F[g].sent, On(g))
    /\ Single(Q[g], On(g))

\* h has still to answer g's request: requests that come before the response to h's own join
\* are not answered.
Asked(F, Q, h, g) ==
  \/ F[h].member = "in" /\ Some(Q[h], On(g))
  \/ F[h].member = "joining" /\ SomeAfter(Q[h], Typed("JoinResponse"), On(g))

AskedOnce(F, Q, h, g) ==
  /\ F[h].member = "in" => Single(Q[h], On(g))
  /\ F[h].member = "joining" => SingleAfter(Q[h], Typed("JoinResponse"), On(g))

Answering(F, h, g) == Some(F[h].sent, AnswerTo(g))
Answered(Q, h, g) == Some(Q[g], AnswerOf(h))

\* g waits for h, or will do so before it can take its own request as served.
Awaited(F, Q, h, g) ==
  \/ h \in F[g].enableSet
  \/ g \in F[g].enableSet /\ Ahead(Q[g], Of("JoinNotify", h), On(g))

\* At every time there is at most one of: a request of g that h has to answer, an answer of h
\* on its way to the server, one on its way to g; and only while g waits for it.
TokenOK(F, Q, h, g) ==
  h # g /\ F[g].member # "resigned" =>
    /\ Asked(F, Q, h, g) \/ Answering(F, h, g) \/ Answered(Q, h, g) =>
         /\ F[g].reg = "EnablePending" /\ Awaited(F, Q, h, g)
         /\ ~Some(F[g].sent, On(g))
    /\ AskedOnce(F, Q, h, g) /\ Single(F[h].sent, AnswerTo(g)) /\ Single(Q[g], AnswerOf(h))
    /\ ~(Asked(F, Q, h, g) /\ Answering(F, h, g))
    /\ ~(Asked(F, Q, h, g) /\ Answered(Q, h, g))
    /\ ~(Answering(F, h, g) /\ Answered(Q, h, g))

\* g knows of every other member or will be told; it is told of a resignation only after it,
\* and after the last answer.
KnownOK(F, Q, S, h, g) ==
  /\ g # h /\ g \in S.members /\ h \in S.members /\ F[g].member # "resigned" =>
       h \in F[g].known \/ Some(Q[g], Of("JoinNotify", h))
  /\ Some(Q[g], Of("ResignNotify", h)) => h \notin S.members /\ F[h].member = "resigned"
  /\ ~SomeAfter(Q[g], Of("ResignNotify", h), AnswerOf(h))

Types(F, Q, S) ==
  /\ \A g \in Federates : IsState(F[g]) /\ Q[g] \in Seq(ToFederate)
  /\ IsServer(S)

Protocol(F, Q, S) ==
  /\ Types(F, Q, S)
  /\ \A g \in Federates : SenderOK(F, S, g) /\ MemberOK(F, Q, S, g) /\ OwnOK(F, Q, g)
  /\ \A f, g \in Federates : /\ ReceiverOK(F, Q, S, f, g)
                             /\ TokenOK(F, Q, f, g)
                             /\ KnownOK(F, Q, S, f, g)

\* Only what is said of f needs to be looked at when only f changes.
LEMMA OneChanges ==
  ASSUME NEW F, NEW Q, NEW S, Protocol(F, Q, S), NEW f \in Federates, NEW F2, NEW Q2,
         \A x \in Federates \ {f} : F2[x] = F[x] /\ Q2[x] = Q[x],
         IsState(F2[f]), Q2[f] \in Seq(ToFederate),
         SenderOK(F2, S, f), MemberOK(F2, Q2, S, f), OwnOK(F2, Q2, f),
         \A g \in Federates \ {f} : /\ ReceiverOK(F2, Q2, S, f, g)
                                    /\ TokenOK(F2, Q2, f, g) /\ TokenOK(F2, Q2, g, f)
                                    /\ KnownOK(F2, Q2, S, f, g) /\ KnownOK(F2, Q2, S, g, f),
         KnownOK(F2, Q2, S, f, f)
  PROVE  Protocol(F2, Q2, S)
<1>1. Types(F2, Q2, S)
  BY DEF Protocol, Types
<1>2. ASSUME NEW g \in Federates PROVE SenderOK(F2, S, g) /\ MemberOK(F2, Q2, S, g) /\ OwnOK(F2, Q2, g)
  <2>1. CASE g # f
    <3>1. F2[g] = F[g] /\ Q2[g] = Q[g] /\ SenderOK(F, S, g) /\ MemberOK(F, Q, S, g) /\ OwnOK(F, Q, g)
      BY <2>1 DEF Protocol
    <3> QED
      BY <3>1 DEF SenderOK, MemberOK, OwnOK
  <2> QED
    BY <2>1
<1>3. ASSUME NEW x \in Federates, NEW g \in Federates
      PROVE  /\ ReceiverOK(F2, Q2, S, x, g)
             /\ TokenOK(F2, Q2, x, g)
             /\ KnownOK(F2, Q2, S, x, g)
  <2>1. ReceiverOK(F2, Q2, S, x, g)
    <3>1. CASE x # f
      <4>1. F2[x] = F[x] /\ Q2[x] = Q[x] /\ ReceiverOK(F, Q, S, x, g)
        BY <3>1 DEF Protocol
      <4> QED
        BY <4>1 DEF ReceiverOK
    <3>2. CASE x = f /\ g = f
      BY <3>2 DEF ReceiverOK
    <3> QED
      BY <3>1, <3>2
  <2>2. TokenOK(F2, Q2, x, g)
    <3>1. CASE x # f /\ g # f
      <4>1. F2[x] = F[x] /\ Q2[x] = Q[x] /\ F2[g] = F[g] /\ Q2[g] = Q[g] /\ TokenOK(F, Q, x, g)
        BY <3>1 DEF Protocol
      <4> QED
        BY <4>1 DEF TokenOK, Asked, AskedOnce, Answering, Answered, Awaited
    <3>2. CASE x = f /\ g = f
      BY <3>2 DEF TokenOK
    <3> QED
      BY <3>1, <3>2
  <2>3. KnownOK(F2, Q2, S, x, g)
    <3>1. CASE x # f /\ g # f
      <4>1. F2[x] = F[x] /\ Q2[x] = Q[x] /\ F2[g] = F[g] /\ Q2[g] = Q[g] /\ KnownOK(F, Q, S, x, g)
        BY <3>1 DEF Protocol
      <4> QED
        BY <4>1 DEF KnownOK
    <3> QED
      BY <3>1
  <2> QED
    BY <2>1, <2>2, <2>3
<1> QED
  BY <1>1, <1>2, <1>3 DEF Protocol

-----------------------------------------------------------------------------
(* What a change of f's own state leaves alone *)

LEMMA MessageIn == ToServer \subseteq Messages /\ ToFederate \subseteq Messages
BY DEF Messages

\* What TokenOK says of h and g rests on the modes of both, the queues and what they have sent.
LEMMA TokenKept ==
  ASSUME NEW F, NEW Q, NEW h, NEW g, TokenOK(F, Q, h, g), NEW F2,
         F2[h].member = F[h].member, F2[g].member = F[g].member, F2[g].reg = F[g].reg,
         F2[g].enableSet = F[g].enableSet,
         Some(F2[h].sent, AnswerTo(g)) => Some(F[h].sent, AnswerTo(g)),
         Single(F[h].sent, AnswerTo(g)) => Single(F2[h].sent, AnswerTo(g)),
         Some(F2[g].sent, On(g)) => Some(F[g].sent, On(g))
  PROVE  TokenOK(F2, Q, h, g)
<1>1. Asked(F2, Q, h, g) <=> Asked(F, Q, h, g)
  BY DEF Asked
<1>2. AskedOnce(F2, Q, h, g) <=> AskedOnce(F, Q, h, g)
  BY DEF AskedOnce
<1>3. Answering(F2, h, g) => Answering(F, h, g)
  BY DEF Answering
<1>4. Awaited(F2, Q, h, g) <=> Awaited(F, Q, h, g)
  BY DEF Awaited
<1> QED
  BY <1>1, <1>2, <1>3, <1>4 DEF TokenOK

\* Minor messages are steps that lead nowhere.
LEMMA MinorSteps ==
  ASSUME NEW f \in Federates, NEW reg, NEW c, NEW m \in Minor(f, reg, c)
  PROVE  /\ <<m, Switch(reg # "Disabled"), Switch(reg # "Disabled")>> \in RegSteps(f)
         /\ \A b \in States : <<m, b, b>> \in ConSteps
         /\ <<m, "on", "on">> \in OpenSteps
         /\ \A g : m \notin On(g) /\ m \notin AnswerTo(g)
<1>1. /\ m \in Messages /\ m.type \in {"CommitResponse", "Locked", "Data", "Commit"}
      /\ m.type = "Commit" => m.fed = f /\ reg # "Disabled"
  BY MessageIn DEF Minor
<1>2. Switch(reg # "Disabled") \in States /\ (reg # "Disabled" => Switch(reg # "Disabled") = "on")
      /\ "on" \in States /\ Switch(TRUE) = "on"
  BY DEF Switch, States
<1>3. RegStep(f, m, Switch(reg # "Disabled"), Switch(reg # "Disabled"))
  BY <1>1, <1>2 DEF RegStep
<1>4. \A b \in States : ConStep(m, b, b)
  BY <1>1 DEF ConStep
<1>5. OpenStep(m, "on", "on")
  BY <1>1, <1>2 DEF OpenStep, Switch
<1>6. \A g : m \notin On(g) /\ m \notin AnswerTo(g)
  BY <1>1 DEF On, Of, AnswerTo
<1> QED
  BY <1>1, <1>2, <1>3, <1>4, <1>5, <1>6, StepsOf

\* A step of f that leaves its modes alone and sends only minor messages
LEMMA SteadyNet ==
  ASSUME NEW F, NEW Q, NEW S, Protocol(F, Q, S), NEW f \in Federates,
         f \in S.members, F[f].member # "resigned",
         NEW F2, \A x \in Federates \ {f} : F2[x] = F[x], Steady(f, F[f], F2[f])
  PROVE  Protocol(F2, Q, S)
<1> DEFINE s == F[f]
           t == F2[f]
           M == Minor(f, s.reg, t.cTA)
<1>1. /\ IsState(t) /\ t.member = s.member /\ t.known = s.known /\ t.reg = s.reg /\ t.con = s.con
      /\ t.enableSet = s.enableSet /\ DOMAIN t.bounds = DOMAIN s.bounds
      /\ Extends(s.sent, t.sent, M)
  BY DEF Steady
<1>2. s.sent \in Seq(ToServer) /\ t.sent \in Seq(ToServer) /\ Q[f] \in Seq(ToFederate)
  <2>1. IsState(s) /\ IsState(t) /\ Q[f] \in Seq(ToFederate)
    BY <1>1 DEF Protocol, Types
  <2> QED
    BY <2>1 DEF IsState
<1>3. /\ SenderOK(F, S, f) /\ MemberOK(F, Q, S, f) /\ OwnOK(F, Q, f)
      /\ \A g \in Federates : /\ ReceiverOK(F, Q, S, f, g)
                              /\ TokenOK(F, Q, f, g) /\ TokenOK(F, Q, g, f)
                              /\ KnownOK(F, Q, S, f, g) /\ KnownOK(F, Q, S, g, f)
  BY DEF Protocol
<1>4. /\ \A m \in M : <<m, Switch(s.reg # "Disabled"), Switch(s.reg # "Disabled")>> \in RegSteps(f)
      /\ \A m \in M : \A b \in States : <<m, b, b>> \in ConSteps
      /\ \A m \in M : <<m, "on", "on">> \in OpenSteps
      /\ \A g : M \cap On(g) = {} /\ M \cap AnswerTo(g) = {}
  BY MinorSteps
<1>5. SenderOK(F2, S, f)
  <2>1. Run(t.sent, RegSteps(f), Switch(f \in S.regulating), Switch(s.reg # "Disabled"))
    BY <1>1, <1>2, <1>3, <1>4, RunExtends, SwitchType DEF SenderOK
  <2>2. Run(t.sent, ConSteps, Switch(f \in S.constrained), Switch(s.con # "Disabled"))
    BY <1>1, <1>2, <1>3, <1>4, RunExtends, SwitchType DEF SenderOK
  <2>3. Run(t.sent, OpenSteps, Switch(s.member = "resigned" => f \in S.members), Switch(s.member # "resigned"))
    <3>1. Switch(s.member # "resigned") = "on" /\ "on" \in States
      BY DEF Switch, States
    <3> QED
      BY <3>1, <1>1, <1>2, <1>3, <1>4, RunExtends DEF SenderOK
  <2> QED
    BY <1>1, <2>1, <2>2, <2>3 DEF SenderOK
<1>6. MemberOK(F2, Q, S, f)
  BY <1>1, <1>3 DEF MemberOK
<1>7. \A g : /\ Some(t.sent, On(g)) <=> Some(s.sent, On(g))
             /\ Some(t.sent, AnswerTo(g)) <=> Some(s.sent, AnswerTo(g))
             /\ Single(s.sent, On(g)) => Single(t.sent, On(g))
             /\ Single(s.sent, AnswerTo(g)) => Single(t.sent, AnswerTo(g))
  BY <1>1, <1>2, <1>4, SomeExtends, SingleExtends
<1>8. OwnOK(F2, Q, f)
  BY <1>1, <1>3, <1>7 DEF OwnOK
<1>9. ASSUME NEW g \in Federates \ {f}
      PROVE  /\ ReceiverOK(F2, Q, S, f, g)
             /\ TokenOK(F2, Q, f, g) /\ TokenOK(F2, Q, g, f)
             /\ KnownOK(F2, Q, S, f, g) /\ KnownOK(F2, Q, S, g, f)
  <2>1. ReceiverOK(F2, Q, S, f, g)
    BY <1>1, <1>3 DEF ReceiverOK
  <2>2. F2[g] = F[g]
    OBVIOUS
  <2>3. TokenOK(F2, Q, f, g)
    BY <1>1, <1>3, <1>7, <2>2, TokenKept
  <2>4. TokenOK(F2, Q, g, f)
    BY <1>1, <1>3, <1>7, <2>2, TokenKept
  <2>5. KnownOK(F2, Q, S, f, g) /\ KnownOK(F2, Q, S, g, f)
    BY <1>1, <1>3, <2>2 DEF KnownOK
  <2> QED
    BY <2>1, <2>3, <2>4, <2>5
<1>10. KnownOK(F2, Q, S, f, f)
  BY <1>1, <1>3 DEF KnownOK
<1> QED
  BY <1>1, <1>2, <1>5, <1>6, <1>8, <1>9, <1>10, OneChanges

-----------------------------------------------------------------------------
(* The calls of the federates *)

\* A call of f that changes its modes and tells the server
LEMMA CallNet ==
  ASSUME NEW F, NEW Q, NEW S, Protocol(F, Q, S), NEW f \in Federates,
         f \in S.members, F[f].member # "resigned",
         NEW F2, \A x \in Federates \ {f} : F2[x] = F[x],
         IsState(F2[f]),
         F2[f].member = F[f].member, F2[f].known = F[f].known, F2[f].bounds = F[f].bounds,
         NEW m \in ToServer, m.type \notin {"Resign", "EnableRegResponse"},
         F2[f].sent = Append(F[f].sent, m),
         <<m, Switch(F[f].reg # "Disabled"), Switch(F2[f].reg # "Disabled")>> \in RegSteps(f),
         <<m, Switch(F[f].con # "Disabled"), Switch(F2[f].con # "Disabled")>> \in ConSteps,
         OwnOK(F2, Q, f), \A g \in Federates \ {f} : TokenOK(F2, Q, g, f)
  PROVE  Protocol(F2, Q, S)
<1> DEFINE s == F[f]
           t == F2[f]
<1>2. s.sent \in Seq(ToServer) /\ t.sent \in Seq(ToServer) /\ Q[f] \in Seq(ToFederate)
  <2>1. IsState(s) /\ IsState(t) /\ Q[f] \in Seq(ToFederate)
    BY DEF Protocol, Types
  <2> QED
    BY <2>1 DEF IsState
<1>3. /\ SenderOK(F, S, f) /\ MemberOK(F, Q, S, f) /\ OwnOK(F, Q, f)
      /\ \A g \in Federates : /\ ReceiverOK(F, Q, S, f, g)
                              /\ TokenOK(F, Q, f, g) /\ TokenOK(F, Q, g, f)
                              /\ KnownOK(F, Q, S, f, g) /\ KnownOK(F, Q, S, g, f)
  BY DEF Protocol
<1>5. SenderOK(F2, S, f)
  <2>1. Run(t.sent, RegSteps(f), Switch(f \in S.regulating), Switch(t.reg # "Disabled"))
    BY <1>2, <1>3, RunAppend, SwitchType DEF SenderOK
  <2>2. Run(t.sent, ConSteps, Switch(f \in S.constrained), Switch(t.con # "Disabled"))
    BY <1>2, <1>3, RunAppend, SwitchType DEF SenderOK
  <2>3. Run(t.sent, OpenSteps, Switch(s.member = "resigned" => f \in S.members), Switch(s.member # "resigned"))
    <3>1. Switch(s.member # "resigned") = "on" /\ "on" \in States /\ m \in Messages
      BY MessageIn DEF Switch, States
    <3>2. OpenStep(m, "on", "on")
      BY DEF OpenStep, Switch
    <3>3. <<m, "on", "on">> \in OpenSteps
      BY <3>1, <3>2, StepsOf
    <3> QED
      BY <3>1, <3>3, <1>2, <1>3, RunAppend DEF SenderOK
  <2> QED
    BY <2>1, <2>2, <2>3 DEF SenderOK
<1>6. MemberOK(F2, Q, S, f)
  BY <1>3 DEF MemberOK
<1>7. \A g : /\ Some(t.sent, AnswerTo(g)) <=> Some(s.sent, AnswerTo(g))
             /\ Single(s.sent, AnswerTo(g)) => Single(t.sent, AnswerTo(g))
  <2>1. \A g : m \notin AnswerTo(g)
    BY DEF AnswerTo
  <2> QED
    BY <1>2, <2>1, SomeAppend, SingleAppend
<1>9. ASSUME NEW g \in Federates \ {f}
      PROVE  /\ ReceiverOK(F2, Q, S, f, g)
             /\ TokenOK(F2, Q, f, g) /\ TokenOK(F2, Q, g, f)
             /\ KnownOK(F2, Q, S, f, g) /\ KnownOK(F2, Q, S, g, f)
  <2>1. ReceiverOK(F2, Q, S, f, g)
    BY <1>3 DEF ReceiverOK
  <2>2. F2[g] = F[g]
    OBVIOUS
  <2>3. TokenOK(F2, Q, f, g)
    BY <1>3, <1>7, <2>2, TokenKept
  <2>5. KnownOK(F2, Q, S, f, g) /\ KnownOK(F2, Q, S, g, f)
    BY <1>3, <2>2 DEF KnownOK
  <2> QED
    BY <2>1, <2>3, <2>5
<1>10. KnownOK(F2, Q, S, f, f)
  BY <1>3 DEF KnownOK
<1> QED
  BY <1>2, <1>5, <1>6, <1>9, <1>10, OneChanges

\* While g does not wait to regulate nobody has to answer it.
LEMMA NoTokens ==
  ASSUME NEW F, NEW Q, NEW h, NEW g, h # g, F[g].member # "resigned", TokenOK(F, Q, h, g),
         F[g].reg # "EnablePending" \/ ~Awaited(F, Q, h, g)
  PROVE  ~Asked(F, Q, h, g) /\ ~Answering(F, h, g) /\ ~Answered(Q, h, g)
BY DEF TokenOK

\* If none is left then nothing is said of the modes of g.
LEMMA TokenFree ==
  ASSUME NEW F, NEW Q, NEW h, NEW g, h # g, F[g].member # "resigned", TokenOK(F, Q, h, g),
         F[g].reg # "EnablePending" \/ ~Awaited(F, Q, h, g),
         NEW F2, F2[h] = F[h]
  PROVE  TokenOK(F2, Q, h, g)
<1>1. ~Asked(F2, Q, h, g) /\ ~Answering(F2, h, g) /\ ~Answered(Q, h, g)
  BY NoTokens DEF Asked, Answering, Answered
<1>2. AskedOnce(F2, Q, h, g) /\ Single(F2[h].sent, AnswerTo(g)) /\ Single(Q[g], AnswerOf(h))
  BY DEF TokenOK, AskedOnce
<1> QED
  BY <1>1, <1>2 DEF TokenOK

LEMMA EnableRegNet ==
  ASSUME NEW F, NEW Q, NEW S, Protocol(F, Q, S), NEW f \in Federates,
         f \in S.members, F[f].member # "resigned",
         NEW F2, \A x \in Federates \ {f} : F2[x] = F[x], IsState(F2[f]),
         F2[f].member = F[f].member, F2[f].known = F[f].known, F2[f].bounds = F[f].bounds,
         F2[f].con = F[f].con, F[f].reg = "Disabled", F2[f].reg = "EnablePending",
         f \in F2[f].enableSet, F[f].known \subseteq F2[f].enableSet,
         NEW m \in EnableRequests, m.fed = f, F2[f].sent = Append(F[f].sent, m)
  PROVE  Protocol(F2, Q, S)
<1>s. PICK s : s = F[f]
  OBVIOUS
<1>t. PICK t : t = F2[f]
  OBVIOUS
<1> USE <1>s, <1>t
<1>1. m \in ToServer /\ m \in Messages /\ m.type = "EnableReg" /\ m \in On(f)
  BY DEF EnableRequests, ToServer, Relayed, Messages, On, Of
<1>2. IsState(s) /\ s.sent \in Seq(ToServer) /\ OwnOK(F, Q, f)
  BY DEF Protocol, Types, IsState
<1>3. <<m, Switch(s.reg # "Disabled"), Switch(t.reg # "Disabled")>> \in RegSteps(f)
  <2>1. Switch(s.reg # "Disabled") = "off" /\ Switch(t.reg # "Disabled") = "on" /\ "on" \in States /\ "off" \in States
    BY DEF Switch, States
  <2>2. RegStep(f, m, "off", "on")
    BY <1>1 DEF RegStep
  <2> QED
    BY <1>1, <2>1, <2>2, StepsOf
<1>4. <<m, Switch(s.con # "Disabled"), Switch(t.con # "Disabled")>> \in ConSteps
  <2>1. Switch(s.con # "Disabled") \in States /\ Switch(t.con # "Disabled") = Switch(s.con # "Disabled")
    BY SwitchType
  <2>2. ConStep(m, Switch(s.con # "Disabled"), Switch(s.con # "Disabled"))
    BY <1>1 DEF ConStep
  <2> QED
    BY <1>1, <2>1, <2>2, StepsOf
<1>5. OwnOK(F2, Q, f)
  <2>1. ~Some(s.sent, On(f)) /\ ~Some(Q[f], On(f)) /\ Single(Q[f], On(f)) /\ Single(s.sent, On(f))
    BY <1>2 DEF OwnOK
  <2>2. Single(t.sent, On(f))
    <3>1. Single(Append(s.sent, m), On(f))
      BY <1>1, <1>2, <2>1, SingleAppend
    <3> QED
      BY <3>1
  <2> QED
    BY <2>1, <2>2 DEF OwnOK
<1>6. \A g \in Federates \ {f} : TokenOK(F2, Q, g, f)
  BY TokenFree DEF Protocol
<1>7. m.type \notin {"Resign", "EnableRegResponse"}
  BY <1>1
<1> QED
  BY <1>1, <1>3, <1>4, <1>5, <1>6, <1>7, CallNet

LEMMA DisableRegNet ==
  ASSUME NEW F, NEW Q, NEW S, Protocol(F, Q, S), NEW f \in Federates,
         f \in S.members, F[f].member # "resigned",
         NEW F2, \A x \in Federates \ {f} : F2[x] = F[x],
         NEW s, s = F[f], NEW t, t = F2[f], IsState(t),
         t.member = s.member, t.known = s.known, t.bounds = s.bounds, t.con = s.con,
         s.reg = "Enabled", t.reg = "Disabled", t.enableSet = s.enableSet,
         t.sent = Append(s.sent, DisableRequest(f))
  PROVE  Protocol(F2, Q, S)
<1> DEFINE m == DisableRequest(f)
<1>1. m \in ToServer /\ m \in Messages /\ m.type = "DisableReg" /\ m.fed = f /\ m \notin On(f)
  BY DEF DisableRequest, ToServer, Notices, Messages, On, Of
<1> HIDE DEF m
<1>2. IsState(s) /\ s.sent \in Seq(ToServer) /\ OwnOK(F, Q, f)
  BY DEF Protocol, Types, IsState
<1>3. <<m, Switch(s.reg # "Disabled"), Switch(t.reg # "Disabled")>> \in RegSteps(f)
  <2>1. Switch(s.reg # "Disabled") = "on" /\ Switch(t.reg # "Disabled") = "off" /\ "on" \in States /\ "off" \in States
    BY DEF Switch, States
  <2>2. RegStep(f, m, "on", "off")
    BY <1>1 DEF RegStep
  <2> QED
    BY <1>1, <2>1, <2>2, StepsOf
<1>4. <<m, Switch(s.con # "Disabled"), Switch(t.con # "Disabled")>> \in ConSteps
  <2>1. Switch(s.con # "Disabled") \in States /\ Switch(t.con # "Disabled") = Switch(s.con # "Disabled")
    BY SwitchType
  <2>2. ConStep(m, Switch(s.con # "Disabled"), Switch(s.con # "Disabled"))
    BY <1>1 DEF ConStep
  <2> QED
    BY <1>1, <2>1, <2>2, StepsOf
<1>5. OwnOK(F2, Q, f)
  <2>1. ~Some(s.sent, On(f)) /\ ~Some(Q[f], On(f)) /\ Single(Q[f], On(f)) /\ Single(s.sent, On(f))
    BY <1>2 DEF OwnOK
  <2>2. Single(t.sent, On(f)) /\ ~Some(t.sent, On(f))
    BY <1>1, <1>2, <2>1, SingleAppend, SomeAppend DEF m
  <2> QED
    BY <2>1, <2>2 DEF OwnOK
<1>6. \A g \in Federates \ {f} : TokenOK(F2, Q, g, f)
  BY TokenFree DEF Protocol
<1>7. m.type \notin {"Resign", "EnableRegResponse"}
  BY <1>1
<1> QED
  BY <1>1, <1>3, <1>4, <1>5, <1>6, <1>7, CallNet DEF m

\* enableTimeConstrained and disableTimeConstrained
LEMMA ConstrainedNet ==
  ASSUME NEW F, NEW Q, NEW S, Protocol(F, Q, S), NEW f \in Federates,
         f \in S.members, F[f].member # "resigned",
         NEW F2, \A x \in Federates \ {f} : F2[x] = F[x],
         NEW s, s = F[f], NEW t, t = F2[f], IsState(t),
         t.member = s.member, t.known = s.known, t.bounds = s.bounds, t.reg = s.reg,
         t.enableSet = s.enableSet,
         NEW m \in Notices({"EnableCon", "DisableCon"}), t.sent = Append(s.sent, m),
         m.type = "EnableCon" => s.con = "Disabled" /\ t.con # "Disabled",
         m.type = "DisableCon" => s.con # "Disabled" /\ t.con = "Disabled"
  PROVE  Protocol(F2, Q, S)
<1>1. m \in ToServer /\ m \in Messages /\ m.type \in {"EnableCon", "DisableCon"} /\ m \notin On(f)
  BY DEF ToServer, Notices, Messages, On, Of
<1>2. IsState(s) /\ s.sent \in Seq(ToServer) /\ OwnOK(F, Q, f)
  BY DEF Protocol, Types, IsState
<1>3. <<m, Switch(s.reg # "Disabled"), Switch(t.reg # "Disabled")>> \in RegSteps(f)
  BY <1>1, StepsOf, SwitchType DEF RegStep
<1>4. <<m, Switch(s.con # "Disabled"), Switch(t.con # "Disabled")>> \in ConSteps
  <2>1. ConStep(m, Switch(s.con # "Disabled"), Switch(t.con # "Disabled"))
    BY <1>1 DEF ConStep, Switch
  <2> QED
    BY <1>1, <2>1, StepsOf, SwitchType
<1>5. /\ Single(s.sent, On(f)) => Single(t.sent, On(f))
      /\ Some(t.sent, On(f)) <=> Some(s.sent, On(f))
  BY <1>1, <1>2, SingleAppend, SomeAppend
<1>6. OwnOK(F2, Q, f)
  BY <1>2, <1>5 DEF OwnOK
<1>7. \A g \in Federates \ {f} : TokenOK(F2, Q, g, f)
  BY <1>5, TokenKept DEF Protocol
<1>8. m.type \notin {"Resign", "EnableRegResponse"}
  BY <1>1
<1> QED
  BY <1>1, <1>3, <1>4, <1>6, <1>7, <1>8, CallNet

LEMMA ResignNet ==
  ASSUME NEW F, NEW Q, NEW S, Protocol(F, Q, S), NEW f \in Federates,
         f \in S.members, F[f].member # "resigned",
         NEW F2, \A x \in Federates \ {f} : F2[x] = F[x], IsState(F2[f]),
         F2[f].member = "resigned", F2[f].reg = "Disabled", F2[f].con = "Disabled",
         DOMAIN F2[f].bounds = {},
         F2[f].sent = Append(F[f].sent, [type |-> "Resign", fed |-> f])
  PROVE  Protocol(F2, Q, S)
<1> DEFINE s == F[f]
           t == F2[f]
           m == [type |-> "Resign", fed |-> f]
<1>1. m \in ToServer /\ m \in Messages /\ m.type = "Resign" /\ m.fed = f
  BY DEF ToServer, Notices, Messages
<1> HIDE DEF m
<1>2. s.sent \in Seq(ToServer) /\ t.sent \in Seq(ToServer) /\ Q[f] \in Seq(ToFederate)
  <2>1. IsState(s) /\ IsState(t) /\ Q[f] \in Seq(ToFederate)
    BY DEF Protocol, Types
  <2> QED
    BY <2>1 DEF IsState
<1>3. /\ SenderOK(F, S, f) /\ MemberOK(F, Q, S, f)
      /\ \A g \in Federates : /\ TokenOK(F, Q, f, g)
                              /\ KnownOK(F, Q, S, f, g) /\ KnownOK(F, Q, S, g, f)
  BY DEF Protocol
<1>4. /\ \A b \in States : <<m, b, "off">> \in RegSteps(f) /\ <<m, b, "off">> \in ConSteps
      /\ <<m, "on", "off">> \in OpenSteps
  <2>1. "off" \in States /\ "on" \in States
    BY DEF States
  <2>2. \A b \in States : RegStep(f, m, b, "off") /\ ConStep(m, b, "off")
    BY <1>1 DEF RegStep, ConStep
  <2>3. OpenStep(m, "on", "off")
    BY <1>1 DEF OpenStep, Switch
  <2> QED
    BY <1>1, <2>1, <2>2, <2>3, StepsOf
<1>5. SenderOK(F2, S, f)
  <2>0. "off" \in States /\ Switch(t.reg # "Disabled") = "off" /\ Switch(t.con # "Disabled") = "off"
        /\ Switch(t.member # "resigned") = "off" /\ Switch(s.member # "resigned") = "on"
        /\ Switch(s.member = "resigned" => f \in S.members) = "on"
        /\ Switch(t.member = "resigned" => f \in S.members) = "on"
    BY DEF Switch, States
  <2>1. Run(t.sent, RegSteps(f), Switch(f \in S.regulating), "off")
    <3>0. Run(s.sent, RegSteps(f), Switch(f \in S.regulating), Switch(s.reg # "Disabled"))
      BY <1>3 DEF SenderOK
    <3>1. PICK b \in States : Run(s.sent, RegSteps(f), Switch(f \in S.regulating), b)
      BY <3>0, SwitchType
    <3>2. <<m, b, "off">> \in RegSteps(f) /\ "off" \in States
      BY <1>4, <3>1, <2>0
    <3>3. t.sent = Append(s.sent, m)
      BY DEF m
    <3> QED
      BY <3>1, <3>2, <3>3, <1>1, <1>2, RunAppend
  <2>2. Run(t.sent, ConSteps, Switch(f \in S.constrained), "off")
    <3>0. Run(s.sent, ConSteps, Switch(f \in S.constrained), Switch(s.con # "Disabled"))
      BY <1>3 DEF SenderOK
    <3>1. PICK b \in States : Run(s.sent, ConSteps, Switch(f \in S.constrained), b)
      BY <3>0, SwitchType
    <3>2. <<m, b, "off">> \in ConSteps /\ "off" \in States
      BY <1>4, <3>1, <2>0
    <3>3. t.sent = Append(s.sent, m)
      BY DEF m
    <3> QED
      BY <3>1, <3>2, <3>3, <1>1, <1>2, RunAppend
  <2>3. Run(t.sent, OpenSteps, "on", "off")
    <3>1. Run(s.sent, OpenSteps, "on", "on")
      BY <1>3, <2>0 DEF SenderOK
    <3> QED
      BY <3>1, <2>0, <1>1, <1>2, <1>4, RunAppend DEF m
  <2> QED
    BY <2>0, <2>1, <2>2, <2>3 DEF SenderOK
<1>6. MemberOK(F2, Q, S, f)
  BY <1>3 DEF MemberOK
<1>7. \A g : /\ Some(t.sent, AnswerTo(g)) <=> Some(s.sent, AnswerTo(g))
             /\ Single(s.sent, AnswerTo(g)) => Single(t.sent, AnswerTo(g))
  <2>1. \A g : m \notin AnswerTo(g)
    BY <1>1 DEF AnswerTo
  <2> QED
    BY <1>1, <1>2, <2>1, SomeAppend, SingleAppend DEF m
<1>8. OwnOK(F2, Q, f)
  BY DEF OwnOK
<1>9. ASSUME NEW g \in Federates \ {f}
      PROVE  /\ ReceiverOK(F2, Q, S, f, g)
             /\ TokenOK(F2, Q, f, g) /\ TokenOK(F2, Q, g, f)
             /\ KnownOK(F2, Q, S, f, g) /\ KnownOK(F2, Q, S, g, f)
  <2>1. ReceiverOK(F2, Q, S, f, g)
    BY DEF ReceiverOK
  <2>2. F2[g] = F[g]
    OBVIOUS
  <2>3. TokenOK(F2, Q, f, g)
    <3>1. ~Asked(F2, Q, f, g) /\ AskedOnce(F2, Q, f, g)
      BY DEF Asked, AskedOnce
    <3>2. Answering(F2, f, g) <=> Answering(F, f, g)
      BY <1>7 DEF Answering
    <3>3. Awaited(F2, Q, f, g) <=> Awaited(F, Q, f, g)
      BY <2>2 DEF Awaited
    <3> QED
      BY <1>3, <1>7, <2>2, <3>1, <3>2, <3>3 DEF TokenOK
  <2>4. TokenOK(F2, Q, g, f)
    BY DEF TokenOK
  <2>5. KnownOK(F2, Q, S, f, g) /\ KnownOK(F2, Q, S, g, f)
    BY <1>3, <2>2 DEF KnownOK
  <2> QED
    BY <2>1, <2>3, <2>4, <2>5
<1>10. KnownOK(F2, Q, S, f, f)
  BY <1>3 DEF KnownOK
<1> QED
  BY <1>2, <1>5, <1>6, <1>8, <1>9, <1>10, OneChanges

\* The callbacks that complete a request of f
LEMMA CallbackNet ==
  ASSUME NEW F, NEW Q, NEW S, Protocol(F, Q, S), NEW f \in Federates,
         f \in S.members, F[f].member # "resigned",
         NEW F2, \A x \in Federates \ {f} : F2[x] = F[x], IsState(F2[f]),
         F2[f].member = F[f].member, F2[f].known = F[f].known, F2[f].bounds = F[f].bounds,
         F2[f].enableSet = F[f].enableSet, F2[f].sent = F[f].sent,
         F2[f].reg # "Disabled" <=> F[f].reg # "Disabled",
         F2[f].con # "Disabled" <=> F[f].con # "Disabled",
         F2[f].reg = F[f].reg \/ F[f].enableSet = {}
  PROVE  Protocol(F2, Q, S)
<1>2. Q[f] \in Seq(ToFederate)
  BY DEF Protocol, Types
<1>3. /\ SenderOK(F, S, f) /\ MemberOK(F, Q, S, f) /\ OwnOK(F, Q, f)
      /\ \A g \in Federates : /\ ReceiverOK(F, Q, S, f, g)
                              /\ TokenOK(F, Q, f, g) /\ TokenOK(F, Q, g, f)
                              /\ KnownOK(F, Q, S, f, g) /\ KnownOK(F, Q, S, g, f)
  BY DEF Protocol
<1>5. SenderOK(F2, S, f)
  <2>1. /\ Switch(F2[f].reg # "Disabled") = Switch(F[f].reg # "Disabled")
        /\ Switch(F2[f].con # "Disabled") = Switch(F[f].con # "Disabled")
    BY DEF Switch
  <2> QED
    BY <1>3, <2>1 DEF SenderOK
<1>6. MemberOK(F2, Q, S, f)
  BY <1>3 DEF MemberOK
<1>8. OwnOK(F2, Q, f)
  BY <1>3 DEF OwnOK
<1>9. ASSUME NEW g \in Federates \ {f}
      PROVE  /\ ReceiverOK(F2, Q, S, f, g)
             /\ TokenOK(F2, Q, f, g) /\ TokenOK(F2, Q, g, f)
             /\ KnownOK(F2, Q, S, f, g) /\ KnownOK(F2, Q, S, g, f)
  <2>1. ReceiverOK(F2, Q, S, f, g)
    BY <1>3 DEF ReceiverOK
  <2>2. F2[g] = F[g]
    OBVIOUS
  <2>3. TokenOK(F2, Q, f, g)
    BY <1>3, <2>2, TokenKept
  <2>4. TokenOK(F2, Q, g, f)
    <3>1. CASE F[f].enableSet = {}
      <4>1. ~Awaited(F, Q, g, f)
        BY <3>1 DEF Awaited
      <4> QED
        BY <1>3, <2>2, <4>1, TokenFree
    <3>2. CASE F2[f].reg = F[f].reg
      BY <1>3, <2>2, <3>2, TokenKept
    <3> QED
      BY <3>1, <3>2
  <2>5. KnownOK(F2, Q, S, f, g) /\ KnownOK(F2, Q, S, g, f)
    BY <1>3, <2>2 DEF KnownOK
  <2> QED
    BY <2>1, <2>3, <2>4, <2>5
<1>10. KnownOK(F2, Q, S, f, f)
  BY <1>3 DEF KnownOK
<1> QED
  BY <1>2, <1>5, <1>6, <1>8, <1>9, <1>10, OneChanges

-----------------------------------------------------------------------------
(* The ambassador of f accepts a message *)

\* f takes the oldest message from the server; F2 and Q2 are the states afterwards.
Taken(F, Q, S, f, F2, Q2) ==
  /\ Protocol(F, Q, S) /\ f \in Federates
  /\ F[f].member # "resigned" /\ Q[f] # <<>>
  /\ \A x \in Federates \ {f} : F2[x] = F[x] /\ Q2[x] = Q[x]
  /\ Q2[f] = Tail(Q[f]) /\ IsState(F2[f])

LEMMA TakenFacts ==
  ASSUME NEW F, NEW Q, NEW S, NEW f, NEW F2, NEW Q2, Taken(F, Q, S, f, F2, Q2)
  PROVE  /\ f \in Federates /\ f \in S.members /\ F[f].member \in {"joining", "in"}
         /\ F[f].sent \in Seq(ToServer)
         /\ Q[f] \in Seq(ToFederate) /\ Q[f] # <<>> /\ Q2[f] = Tail(Q[f]) /\ Q2[f] \in Seq(ToFederate)
         /\ Head(Q[f]) \in ToFederate /\ Head(Q[f]) \in Messages
         /\ SenderOK(F, S, f) /\ MemberOK(F, Q, S, f) /\ OwnOK(F, Q, f)
         /\ \A g \in Federates : /\ ReceiverOK(F, Q, S, f, g)
                                 /\ TokenOK(F, Q, f, g) /\ TokenOK(F, Q, g, f)
                                 /\ KnownOK(F, Q, S, f, g) /\ KnownOK(F, Q, S, g, f)
<1>1. f \in Federates /\ Q[f] # <<>> /\ Q2[f] = Tail(Q[f]) /\ F[f].member # "resigned" /\ Protocol(F, Q, S)
  BY DEF Taken
<1>2. IsState(F[f]) /\ Q[f] \in Seq(ToFederate)
  BY <1>1 DEF Protocol, Types
<1>3. F[f].sent \in Seq(ToServer) /\ F[f].member \in {"out", "joining", "in", "resigned"}
  BY <1>2 DEF IsState
<1>4. /\ SenderOK(F, S, f) /\ MemberOK(F, Q, S, f) /\ OwnOK(F, Q, f)
      /\ \A g \in Federates : /\ ReceiverOK(F, Q, S, f, g)
                              /\ TokenOK(F, Q, f, g) /\ TokenOK(F, Q, g, f)
                              /\ KnownOK(F, Q, S, f, g) /\ KnownOK(F, Q, S, g, f)
  BY <1>1 DEF Protocol
<1>5. f \in S.members /\ F[f].member \in {"joining", "in"}
  BY <1>1, <1>3, <1>4 DEF MemberOK
<1>6. Tail(Q[f]) \in Seq(ToFederate) /\ Head(Q[f]) \in ToFederate
  BY <1>1, <1>2, TailAt
<1> QED
  BY <1>1, <1>2, <1>3, <1>4, <1>5, <1>6, MessageIn

\* What has to be shown of the change
LEMMA AcceptNet ==
  ASSUME NEW F, NEW Q, NEW S, NEW f, NEW F2, NEW Q2, Taken(F, Q, S, f, F2, Q2),
         F2[f].member \in {"joining", "in"}, f \notin DOMAIN F2[f].bounds,
         SenderOK(F2, S, f), OwnOK(F2, Q2, f),
         \A g \in Federates \ {f} :
           /\ ReceiverOK(F2, Q2, S, f, g)
           /\ TokenOK(F2, Q2, f, g) /\ TokenOK(F2, Q2, g, f)
           /\ g \in F[f].known => g \in F2[f].known \/ g \notin S.members
           /\ Head(Q[f]) \in Of("JoinNotify", g) => g \in F2[f].known
  PROVE  Protocol(F2, Q2, S)
<1>1. /\ f \in Federates /\ f \in S.members /\ F[f].member \in {"joining", "in"}
      /\ Q[f] \in Seq(ToFederate) /\ Q[f] # <<>> /\ Q2[f] = Tail(Q[f]) /\ Q2[f] \in Seq(ToFederate)
      /\ MemberOK(F, Q, S, f)
      /\ \A g \in Federates : KnownOK(F, Q, S, f, g) /\ KnownOK(F, Q, S, g, f)
  BY TakenFacts
<1>2. Protocol(F, Q, S) /\ IsState(F2[f]) /\ \A x \in Federates \ {f} : F2[x] = F[x] /\ Q2[x] = Q[x]
  BY DEF Taken
<1>3. \A X : Some(Q2[f], X) => Some(Q[f], X)
  BY <1>1, SomeTail
<1>4. \A X, Y : SomeAfter(Q2[f], Y, X) => SomeAfter(Q[f], Y, X)
  BY <1>1, AfterTail
<1>5. MemberOK(F2, Q2, S, f)
  BY <1>1, <1>3 DEF MemberOK
<1>6. ASSUME NEW g \in Federates \ {f}
      PROVE  KnownOK(F2, Q2, S, f, g) /\ KnownOK(F2, Q2, S, g, f)
  <2>1. F2[g] = F[g] /\ Q2[g] = Q[g]
    BY <1>2
  <2>2. KnownOK(F2, Q2, S, f, g)
    BY <1>1, <2>1 DEF KnownOK
  <2>3. Some(Q[f], Of("JoinNotify", g)) => g \in F2[f].known \/ Some(Q2[f], Of("JoinNotify", g))
    BY <1>1, SomeTail
  <2>4. ~SomeAfter(Q2[f], Of("ResignNotify", g), AnswerOf(g))
    BY <1>1, <1>4 DEF KnownOK
  <2>5. Some(Q2[f], Of("ResignNotify", g)) => g \notin S.members /\ F2[g].member = "resigned"
    BY <1>1, <1>3, <2>1 DEF KnownOK
  <2>6. g \in S.members => g \in F2[f].known \/ Some(Q2[f], Of("JoinNotify", g))
    <3>1. g \in S.members => g \in F[f].known \/ Some(Q[f], Of("JoinNotify", g))
      BY <1>1 DEF KnownOK
    <3> QED
      BY <3>1, <2>3
  <2> QED
    BY <2>2, <2>4, <2>5, <2>6 DEF KnownOK
<1>7. KnownOK(F2, Q2, S, f, f)
  <2>1. ~SomeAfter(Q2[f], Of("ResignNotify", f), AnswerOf(f))
    BY <1>1, <1>4 DEF KnownOK
  <2>2. ~Some(Q2[f], Of("ResignNotify", f))
    BY <1>1, <1>3 DEF KnownOK
  <2> QED
    BY <2>1, <2>2 DEF KnownOK
<1>8. \A g \in Federates \ {f} : /\ ReceiverOK(F2, Q2, S, f, g)
                                  /\ TokenOK(F2, Q2, f, g) /\ TokenOK(F2, Q2, g, f)
                                  /\ KnownOK(F2, Q2, S, f, g) /\ KnownOK(F2, Q2, S, g, f)
  BY <1>6
<1>9. f \in Federates /\ Q2[f] \in Seq(ToFederate)
  BY <1>1
<1> QED
  BY <1>9, <1>2, <1>5, <1>8, <1>7, OneChanges

\* The map follows what is taken.
LEMMA ReceiverTail ==
  ASSUME NEW F, NEW Q, NEW S, NEW f, NEW F2, NEW Q2, Taken(F, Q, S, f, F2, Q2),
         NEW g \in Federates \ {f},
         Head(Q[f]) \in On(g) => g \in DOMAIN F2[f].bounds,
         Head(Q[f]) \in Off(g) => g \notin DOMAIN F2[f].bounds,
         Head(Q[f]) \notin On(g) \cup Off(g) => (g \in DOMAIN F2[f].bounds <=> g \in DOMAIN F[f].bounds)
  PROVE  ReceiverOK(F2, Q2, S, f, g)
<1> DEFINE a == Switch(g \in DOMAIN F[f].bounds)
           b == Switch(f \in S.members /\ g \in S.regulating)
           m == Head(Q[f])
<1>1. /\ Q[f] \in Seq(ToFederate) /\ Q[f] # <<>> /\ Q2[f] = Tail(Q[f])
      /\ F[f].member # "resigned" /\ ReceiverOK(F, Q, S, f, g)
  BY TakenFacts
<1>2. Run(Q[f], MapSteps(g), a, b)
  BY <1>1 DEF ReceiverOK
<1>3. PICK c \in States : <<m, a, c>> \in MapSteps(g) /\ Run(Q2[f], MapSteps(g), c, b)
  <2> HIDE DEF a, b, m
  <2>1. \E c \in States : <<Head(Q[f]), a, c>> \in MapSteps(g) /\ Run(Tail(Q[f]), MapSteps(g), c, b)
    BY <1>1, <1>2, RunTail
  <2> QED
    BY <1>1, <2>1 DEF m
<1>4. MapStep(g, m, a, c)
  BY <1>3, StepsOf
<1>5. c = Switch(g \in DOMAIN F2[f].bounds)
  BY <1>4 DEF MapStep, Switch
<1> QED
  BY <1>3, <1>5 DEF ReceiverOK

\* f's duties to answer, when f sends nothing and its queue gets shorter
LEMMA DutiesTail ==
  ASSUME NEW F, NEW Q, NEW S, NEW f, NEW F2, NEW Q2, Taken(F, Q, S, f, F2, Q2),
         NEW g \in Federates \ {f}, Head(Q[f]) \notin On(g), Head(Q[f]) \notin Typed("JoinResponse"),
         F2[f].member = F[f].member,
         Some(F2[f].sent, AnswerTo(g)) => Some(F[f].sent, AnswerTo(g)),
         Single(F[f].sent, AnswerTo(g)) => Single(F2[f].sent, AnswerTo(g))
  PROVE  TokenOK(F2, Q2, f, g)
<1>1. /\ Q[f] \in Seq(ToFederate) /\ Q[f] # <<>> /\ Q2[f] = Tail(Q[f])
      /\ TokenOK(F, Q, f, g)
  BY TakenFacts
<1>2. F2[g] = F[g] /\ Q2[g] = Q[g]
  BY DEF Taken
<1>3. Asked(F2, Q2, f, g) => Asked(F, Q, f, g)
  BY <1>1, SomeTail, AfterTail DEF Asked
<1>4. AskedOnce(F, Q, f, g) => AskedOnce(F2, Q2, f, g)
  BY <1>1, SingleTail, SingleAfterTail DEF AskedOnce
<1>5. /\ Answering(F2, f, g) => Answering(F, f, g)
      /\ Answered(Q2, f, g) <=> Answered(Q, f, g)
      /\ Awaited(F2, Q2, f, g) <=> Awaited(F, Q, f, g)
  BY <1>2 DEF Answering, Answered, Awaited
<1> QED
  BY <1>1, <1>2, <1>3, <1>4, <1>5 DEF TokenOK

\* What the others owe f
LEMMA ClaimsTail ==
  ASSUME NEW F, NEW Q, NEW S, NEW f, NEW F2, NEW Q2, Taken(F, Q, S, f, F2, Q2),
         NEW g \in Federates \ {f}, F2[f].reg = F[f].reg,
         Some(F2[f].sent, On(f)) => Some(F[f].sent, On(f)),
         (Asked(F, Q, g, f) \/ Answering(F, g, f) \/ Answered(Q2, g, f)) =>
           (Awaited(F, Q, g, f) => Awaited(F2, Q2, g, f))
  PROVE  TokenOK(F2, Q2, g, f)
<1>1. /\ Q[f] \in Seq(ToFederate) /\ Q[f] # <<>> /\ Q2[f] = Tail(Q[f])
      /\ TokenOK(F, Q, g, f) /\ F[f].member # "resigned"
  BY TakenFacts
<1>2. F2[g] = F[g] /\ Q2[g] = Q[g]
  BY DEF Taken
<1>3. /\ Asked(F2, Q2, g, f) <=> Asked(F, Q, g, f)
      /\ AskedOnce(F2, Q2, g, f) <=> AskedOnce(F, Q, g, f)
      /\ Answering(F2, g, f) <=> Answering(F, g, f)
  BY <1>2 DEF Asked, AskedOnce, Answering
<1>4. /\ Answered(Q2, g, f) => Answered(Q, g, f)
      /\ Single(Q[f], AnswerOf(g)) => Single(Q2[f], AnswerOf(g))
  BY <1>1, SomeTail, SingleTail DEF Answered
<1> QED
  BY <1>1, <1>2, <1>3, <1>4 DEF TokenOK

\* A message upon which f keeps its modes and sends nothing itself
LEMMA SilentNet ==
  ASSUME NEW F, NEW Q, NEW S, NEW f, NEW F2, NEW Q2, Taken(F, Q, S, f, F2, Q2),
         F2[f].member = F[f].member, F2[f].reg = F[f].reg, F2[f].con = F[f].con, F2[f].sent = F[f].sent,
         Head(Q[f]).type # "JoinResponse", f \notin DOMAIN F2[f].bounds, OwnOK(F2, Q2, f),
         \A g \in Federates \ {f} :
           /\ Head(Q[f]) \notin On(g)
           /\ Head(Q[f]) \in Off(g) => g \notin DOMAIN F2[f].bounds
           /\ Head(Q[f]) \notin Off(g) => (g \in DOMAIN F2[f].bounds <=> g \in DOMAIN F[f].bounds)
           /\ (Asked(F, Q, g, f) \/ Answering(F, g, f) \/ Answered(Q2, g, f)) =>
                (Awaited(F, Q, g, f) => Awaited(F2, Q2, g, f))
           /\ g \in F[f].known => g \in F2[f].known \/ g \notin S.members
           /\ Head(Q[f]) \in Of("JoinNotify", g) => g \in F2[f].known
  PROVE  Protocol(F2, Q2, S)
<1>1. /\ f \in Federates /\ F[f].member \in {"joining", "in"} /\ SenderOK(F, S, f)
  BY TakenFacts
<1>2. SenderOK(F2, S, f)
  BY <1>1 DEF SenderOK
<1>3. Head(Q[f]) \notin Typed("JoinResponse")
  BY DEF Typed
<1>4. ASSUME NEW g \in Federates \ {f}
      PROVE  ReceiverOK(F2, Q2, S, f, g) /\ TokenOK(F2, Q2, f, g) /\ TokenOK(F2, Q2, g, f)
  <2>1. ReceiverOK(F2, Q2, S, f, g)
    BY ReceiverTail
  <2>2. TokenOK(F2, Q2, f, g)
    BY <1>3, DutiesTail
  <2>3. TokenOK(F2, Q2, g, f)
    BY ClaimsTail
  <2> QED
    BY <2>1, <2>2, <2>3
<1>5. \A g \in Federates \ {f} :
           /\ ReceiverOK(F2, Q2, S, f, g)
           /\ TokenOK(F2, Q2, f, g) /\ TokenOK(F2, Q2, g, f)
           /\ g \in F[f].known => g \in F2[f].known \/ g \notin S.members
           /\ Head(Q[f]) \in Of("JoinNotify", g) => g \in F2[f].known
  BY <1>4
<1>6. F2[f].member \in {"joining", "in"}
  BY <1>1
<1> QED
  BY <1>2, <1>5, <1>6, AcceptNet

\* What does not touch the sets: data, commits and their responses, locks, and the end of a
\* regulation
LEMMA PlainNet ==
  ASSUME NEW F, NEW Q, NEW S, NEW f, NEW F2, NEW Q2, Taken(F, Q, S, f, F2, Q2),
         F2[f].member = F[f].member, F2[f].reg = F[f].reg, F2[f].con = F[f].con, F2[f].sent = F[f].sent,
         F2[f].known = F[f].known, F2[f].enableSet = F[f].enableSet,
         Head(Q[f]).type \in {"Commit", "CommitResponse", "Locked", "Data", "DisableReg"},
         DOMAIN F2[f].bounds = IF Head(Q[f]).type = "DisableReg"
                               THEN DOMAIN F[f].bounds \ {Head(Q[f]).fed} ELSE DOMAIN F[f].bounds
  PROVE  Protocol(F2, Q2, S)
<1> DEFINE m == Head(Q[f])
<1>1. /\ f \in Federates /\ OwnOK(F, Q, f) /\ MemberOK(F, Q, S, f)
      /\ Q[f] \in Seq(ToFederate) /\ Q[f] # <<>> /\ Q2[f] = Tail(Q[f]) /\ m \in Messages
  BY TakenFacts
<1>2. f \notin DOMAIN F2[f].bounds
  BY <1>1 DEF MemberOK
<1>3. /\ Some(Q2[f], On(f)) => Some(Q[f], On(f))
      /\ Single(Q[f], On(f)) => Single(Q2[f], On(f))
  BY <1>1, SomeTail, SingleTail
<1>4. OwnOK(F2, Q2, f)
  BY <1>1, <1>3 DEF OwnOK
<1>5. \A g : m \notin On(g) /\ m \notin Of("JoinNotify", g)
  BY DEF On, Of
<1>6. ASSUME NEW g \in Federates \ {f} PROVE Awaited(F, Q, g, f) => Awaited(F2, Q2, g, f)
  <2>1. Ahead(Q[f], Of("JoinNotify", g), On(f)) => Ahead(Q2[f], Of("JoinNotify", g), On(f))
    BY <1>1, <1>5, AheadTail
  <2> QED
    BY <2>1 DEF Awaited
<1>7. ASSUME NEW g \in Federates \ {f}
      PROVE  /\ m \in Off(g) => g \notin DOMAIN F2[f].bounds
             /\ m \notin Off(g) => (g \in DOMAIN F2[f].bounds <=> g \in DOMAIN F[f].bounds)
  BY <1>1 DEF Off, Of
<1>8. Head(Q[f]).type # "JoinResponse"
  OBVIOUS
<1>9. \A g \in Federates \ {f} :
           /\ Head(Q[f]) \notin On(g)
           /\ Head(Q[f]) \in Off(g) => g \notin DOMAIN F2[f].bounds
           /\ Head(Q[f]) \notin Off(g) => (g \in DOMAIN F2[f].bounds <=> g \in DOMAIN F[f].bounds)
           /\ (Asked(F, Q, g, f) \/ Answering(F, g, f) \/ Answered(Q2, g, f)) =>
                (Awaited(F, Q, g, f) => Awaited(F2, Q2, g, f))
           /\ g \in F[f].known => g \in F2[f].known \/ g \notin S.members
           /\ Head(Q[f]) \in Of("JoinNotify", g) => g \in F2[f].known
  BY <1>5, <1>6, <1>7
<1> QED
  BY <1>2, <1>4, <1>8, <1>9, SilentNet

LEMMA JoinNotifyNet ==
  ASSUME NEW F, NEW Q, NEW S, NEW f, NEW F2, NEW Q2, Taken(F, Q, S, f, F2, Q2),
         F2[f].member = F[f].member, F2[f].reg = F[f].reg, F2[f].con = F[f].con, F2[f].sent = F[f].sent,
         NEW k \in Federates, Head(Q[f]).type = "JoinNotify", Head(Q[f]).fed = k,
         F2[f].known = F[f].known \cup {k}, F2[f].bounds = F[f].bounds,
         F2[f].enableSet = IF f \in F[f].enableSet THEN F[f].enableSet \cup {k} ELSE F[f].enableSet
  PROVE  Protocol(F2, Q2, S)
<1> DEFINE m == Head(Q[f])
<1>1. /\ f \in Federates /\ OwnOK(F, Q, f) /\ MemberOK(F, Q, S, f)
      /\ Q[f] \in Seq(ToFederate) /\ Q[f] # <<>> /\ Q2[f] = Tail(Q[f]) /\ m \in Messages
  BY TakenFacts
<1>2. f \notin DOMAIN F2[f].bounds
  BY <1>1 DEF MemberOK
<1>3. /\ Some(Q2[f], On(f)) => Some(Q[f], On(f))
      /\ Single(Q[f], On(f)) => Single(Q2[f], On(f))
  BY <1>1, SomeTail, SingleTail
<1>4. OwnOK(F2, Q2, f)
  BY <1>1, <1>3 DEF OwnOK
<1>5. /\ \A g : m \notin On(g) /\ m \notin Off(g)
      /\ \A g : m \in Of("JoinNotify", g) => g = k
  BY DEF On, Of, Off
<1>6. ASSUME NEW g \in Federates \ {f} PROVE Awaited(F, Q, g, f) => Awaited(F2, Q2, g, f)
  <2>1. Ahead(Q[f], Of("JoinNotify", g), On(f)) => g = k \/ Ahead(Q2[f], Of("JoinNotify", g), On(f))
    BY <1>1, <1>5, AheadTail
  <2> QED
    BY <2>1 DEF Awaited
<1>8. Head(Q[f]).type # "JoinResponse"
  OBVIOUS
<1>9. \A g \in Federates \ {f} :
           /\ Head(Q[f]) \notin On(g)
           /\ Head(Q[f]) \in Off(g) => g \notin DOMAIN F2[f].bounds
           /\ Head(Q[f]) \notin Off(g) => (g \in DOMAIN F2[f].bounds <=> g \in DOMAIN F[f].bounds)
           /\ (Asked(F, Q, g, f) \/ Answering(F, g, f) \/ Answered(Q2, g, f)) =>
                (Awaited(F, Q, g, f) => Awaited(F2, Q2, g, f))
           /\ g \in F[f].known => g \in F2[f].known \/ g \notin S.members
           /\ Head(Q[f]) \in Of("JoinNotify", g) => g \in F2[f].known
  BY <1>5, <1>6
<1> QED
  BY <1>2, <1>4, <1>8, <1>9, SilentNet

\* Nobody who resigned owes an answer any more when f is told of it.
LEMMA ResignNotifyNet ==
  ASSUME NEW F, NEW Q, NEW S, NEW f, NEW F2, NEW Q2, Taken(F, Q, S, f, F2, Q2),
         F2[f].member = F[f].member, F2[f].reg = F[f].reg, F2[f].con = F[f].con, F2[f].sent = F[f].sent,
         NEW k \in Federates, Head(Q[f]).type = "ResignNotify", Head(Q[f]).fed = k,
         F2[f].known = F[f].known \ {k}, DOMAIN F2[f].bounds = DOMAIN F[f].bounds \ {k},
         F2[f].enableSet = F[f].enableSet \ {k}
  PROVE  Protocol(F2, Q2, S)
<1> DEFINE m == Head(Q[f])
<1>1. /\ f \in Federates /\ f \in S.members /\ OwnOK(F, Q, f) /\ MemberOK(F, Q, S, f)
      /\ Q[f] \in Seq(ToFederate) /\ Q[f] # <<>> /\ Q2[f] = Tail(Q[f]) /\ m \in Messages
      /\ KnownOK(F, Q, S, k, f)
  BY TakenFacts
<1>2. f \notin DOMAIN F2[f].bounds
  BY <1>1 DEF MemberOK
<1>3. /\ Some(Q2[f], On(f)) => Some(Q[f], On(f))
      /\ Single(Q[f], On(f)) => Single(Q2[f], On(f))
  BY <1>1, SomeTail, SingleTail
<1>4. m \in Of("ResignNotify", k) /\ Some(Q[f], Of("ResignNotify", k))
  <2>1. m \in Of("ResignNotify", k)
    BY <1>1 DEF Of
  <2> QED
    BY <1>1, <2>1, SomeTail
<1>5. k \notin S.members /\ F[k].member = "resigned" /\ k # f /\ ~Some(Q2[f], AnswerOf(k))
  <2>1. k \notin S.members /\ F[k].member = "resigned" /\ ~SomeAfter(Q[f], Of("ResignNotify", k), AnswerOf(k))
    BY <1>1, <1>4 DEF KnownOK
  <2>2. ~Some(Q2[f], AnswerOf(k))
    BY <1>1, <1>4, <2>1, AfterTail
  <2> QED
    BY <1>1, <2>1, <2>2
<1>6. ~Some(F[k].sent, AnswerTo(f))
  <2>1. SenderOK(F, S, k)
    BY DEF Taken, Protocol
  <2>2. F[k].sent = <<>>
    BY <1>5, <2>1 DEF SenderOK
  <2> QED
    BY <2>2, EmptyQueue DEF States
<1>7. OwnOK(F2, Q2, f)
  BY <1>1, <1>3, <1>5 DEF OwnOK
<1>8. /\ \A g : m \notin On(g) /\ m \notin Of("JoinNotify", g)
      /\ \A g : m \in Off(g) <=> g = k
  BY <1>1 DEF On, Of, Off
<1>9. ASSUME NEW g \in Federates \ {f},
             Asked(F, Q, g, f) \/ Answering(F, g, f) \/ Answered(Q2, g, f), Awaited(F, Q, g, f)
      PROVE  Awaited(F2, Q2, g, f)
  <2>1. g # k
    BY <1>5, <1>6, <1>9 DEF Asked, Answering, Answered
  <2>2. Ahead(Q[f], Of("JoinNotify", g), On(f)) => Ahead(Q2[f], Of("JoinNotify", g), On(f))
    BY <1>1, <1>8, AheadTail
  <2> QED
    BY <1>5, <1>9, <2>1, <2>2 DEF Awaited
<1>10. Head(Q[f]).type # "JoinResponse"
  OBVIOUS
<1>11. \A g \in Federates \ {f} :
           /\ Head(Q[f]) \notin On(g)
           /\ Head(Q[f]) \in Off(g) => g \notin DOMAIN F2[f].bounds
           /\ Head(Q[f]) \notin Off(g) => (g \in DOMAIN F2[f].bounds <=> g \in DOMAIN F[f].bounds)
           /\ (Asked(F, Q, g, f) \/ Answering(F, g, f) \/ Answered(Q2, g, f)) =>
                (Awaited(F, Q, g, f) => Awaited(F2, Q2, g, f))
           /\ g \in F[f].known => g \in F2[f].known \/ g \notin S.members
           /\ Head(Q[f]) \in Of("JoinNotify", g) => g \in F2[f].known
  BY <1>5, <1>8, <1>9
<1> QED
  BY <1>2, <1>7, <1>10, <1>11, SilentNet

\* The own request is back: those who joined before it are waited for by now.
LEMMA OwnRequestNet ==
  ASSUME NEW F, NEW Q, NEW S, NEW f, NEW F2, NEW Q2, Taken(F, Q, S, f, F2, Q2),
         F2[f].member = F[f].member, F2[f].reg = F[f].reg, F2[f].con = F[f].con, F2[f].sent = F[f].sent,
         Head(Q[f]).type = "EnableReg", Head(Q[f]).fed = f,
         F2[f].known = F[f].known, F2[f].bounds = F[f].bounds, F2[f].enableSet = F[f].enableSet \ {f}
  PROVE  Protocol(F2, Q2, S)
<1> DEFINE m == Head(Q[f])
<1>1. /\ f \in Federates /\ OwnOK(F, Q, f) /\ MemberOK(F, Q, S, f)
      /\ Q[f] \in Seq(ToFederate) /\ Q[f] # <<>> /\ Q2[f] = Tail(Q[f]) /\ m \in Messages
      /\ F[f].member # "resigned"
  BY TakenFacts
<1>2. f \notin DOMAIN F2[f].bounds
  BY <1>1 DEF MemberOK
<1>3. m \in On(f)
  BY <1>1 DEF On, Of
<1>4. Some(Q[f], On(f)) /\ Single(Q[f], On(f)) /\ ~Some(F[f].sent, On(f)) /\ Single(F[f].sent, On(f))
  <2>1. Some(Q[f], On(f))
    BY <1>1, <1>3, SomeTail
  <2> QED
    BY <1>1, <2>1 DEF OwnOK
<1>5. ~Some(Q2[f], On(f)) /\ Single(Q2[f], On(f))
  BY <1>1, <1>3, <1>4, SingleTail
<1>6. OwnOK(F2, Q2, f)
  BY <1>4, <1>5 DEF OwnOK
<1>7. \A g : m \notin Off(g) /\ m \notin Of("JoinNotify", g) /\ (g # f => m \notin On(g))
  BY DEF On, Of, Off
<1>8. ASSUME NEW g \in Federates \ {f}, Awaited(F, Q, g, f) PROVE Awaited(F2, Q2, g, f)
  <2>1. ~Ahead(Q[f], Of("JoinNotify", g), On(f))
    BY <1>1, <1>3, <1>7, AheadTail
  <2> QED
    BY <1>8, <2>1 DEF Awaited
<1>9. Head(Q[f]).type # "JoinResponse"
  OBVIOUS
<1>10. \A g \in Federates \ {f} :
           /\ Head(Q[f]) \notin On(g)
           /\ Head(Q[f]) \in Off(g) => g \notin DOMAIN F2[f].bounds
           /\ Head(Q[f]) \notin Off(g) => (g \in DOMAIN F2[f].bounds <=> g \in DOMAIN F[f].bounds)
           /\ (Asked(F, Q, g, f) \/ Answering(F, g, f) \/ Answered(Q2, g, f)) =>
                (Awaited(F, Q, g, f) => Awaited(F2, Q2, g, f))
           /\ g \in F[f].known => g \in F2[f].known \/ g \notin S.members
           /\ Head(Q[f]) \in Of("JoinNotify", g) => g \in F2[f].known
  BY <1>7, <1>8
<1> QED
  BY <1>2, <1>6, <1>9, <1>10, SilentNet

\* An answer comes only while f waits for it, and only once.
LEMMA ResponseWaited ==
  ASSUME NEW F, NEW Q, NEW S, NEW f, NEW F2, NEW Q2, Taken(F, Q, S, f, F2, Q2),
         NEW k \in Federates, Head(Q[f]).type = "EnableRegResponse", Head(Q[f]).from = k
  PROVE  /\ k # f /\ F[f].reg = "EnablePending" /\ F[f].enableSet # {} /\ ~Some(F[f].sent, On(f))
         /\ ~Asked(F, Q, k, f) /\ ~Answering(F, k, f) /\ ~Answered(Q2, k, f)
<1> DEFINE m == Head(Q[f])
<1>1. /\ f \in Federates /\ MemberOK(F, Q, S, f) /\ TokenOK(F, Q, k, f)
      /\ Q[f] \in Seq(ToFederate) /\ Q[f] # <<>> /\ Q2[f] = Tail(Q[f]) /\ m \in Messages
      /\ F[f].member # "resigned"
  BY TakenFacts
<1>2. m \in AnswerOf(k)
  BY <1>1 DEF AnswerOf
<1>3. Some(Q[f], AnswerOf(k))
  BY <1>1, <1>2, SomeTail
<1>4. k # f
  BY <1>1, <1>3 DEF MemberOK
<1>5. Answered(Q, k, f)
  BY <1>3 DEF Answered
<1>6. /\ F[f].reg = "EnablePending" /\ Awaited(F, Q, k, f) /\ ~Some(F[f].sent, On(f))
      /\ ~Asked(F, Q, k, f) /\ ~Answering(F, k, f) /\ Single(Q[f], AnswerOf(k))
  BY <1>1, <1>4, <1>5 DEF TokenOK
<1>7. F[f].enableSet # {}
  BY <1>6 DEF Awaited
<1>8. ~Answered(Q2, k, f)
  BY <1>1, <1>2, <1>6, SingleTail DEF Answered
<1> QED
  BY <1>4, <1>6, <1>7, <1>8

LEMMA ResponseNet ==
  ASSUME NEW F, NEW Q, NEW S, NEW f, NEW F2, NEW Q2, Taken(F, Q, S, f, F2, Q2),
         F2[f].member = F[f].member, F2[f].reg = F[f].reg, F2[f].con = F[f].con, F2[f].sent = F[f].sent,
         NEW k \in Federates, Head(Q[f]).type = "EnableRegResponse", Head(Q[f]).from = k,
         F2[f].known = F[f].known, F2[f].bounds = F[f].bounds, F2[f].enableSet = F[f].enableSet \ {k}
  PROVE  Protocol(F2, Q2, S)
<1> DEFINE m == Head(Q[f])
<1>1. /\ f \in Federates /\ OwnOK(F, Q, f) /\ MemberOK(F, Q, S, f)
      /\ Q[f] \in Seq(ToFederate) /\ Q[f] # <<>> /\ Q2[f] = Tail(Q[f]) /\ m \in Messages
      /\ F[f].member # "resigned"
  BY TakenFacts
<1>2. f \notin DOMAIN F2[f].bounds
  BY <1>1 DEF MemberOK
<1>3. /\ k # f /\ ~Some(F[f].sent, On(f))
      /\ ~Asked(F, Q, k, f) /\ ~Answering(F, k, f) /\ ~Answered(Q2, k, f)
  BY ResponseWaited
<1>4. /\ Some(Q2[f], On(f)) => Some(Q[f], On(f))
      /\ Single(Q[f], On(f)) => Single(Q2[f], On(f))
  BY <1>1, SomeTail, SingleTail
<1>5. OwnOK(F2, Q2, f)
  BY <1>1, <1>3, <1>4 DEF OwnOK
<1>6. \A g : m \notin Off(g) /\ m \notin Of("JoinNotify", g) /\ m \notin On(g)
  BY DEF On, Of, Off
<1>7. ASSUME NEW g \in Federates \ {f},
             Asked(F, Q, g, f) \/ Answering(F, g, f) \/ Answered(Q2, g, f), Awaited(F, Q, g, f)
      PROVE  Awaited(F2, Q2, g, f)
  <2>1. g # k
    BY <1>3, <1>7
  <2>2. Ahead(Q[f], Of("JoinNotify", g), On(f)) => Ahead(Q2[f], Of("JoinNotify", g), On(f))
    BY <1>1, <1>6, AheadTail
  <2> QED
    BY <1>3, <1>7, <2>1, <2>2 DEF Awaited
<1>9. Head(Q[f]).type # "JoinResponse"
  OBVIOUS
<1>10. \A g \in Federates \ {f} :
           /\ Head(Q[f]) \notin On(g)
           /\ Head(Q[f]) \in Off(g) => g \notin DOMAIN F2[f].bounds
           /\ Head(Q[f]) \notin Off(g) => (g \in DOMAIN F2[f].bounds <=> g \in DOMAIN F[f].bounds)
           /\ (Asked(F, Q, g, f) \/ Answering(F, g, f) \/ Answered(Q2, g, f)) =>
                (Awaited(F, Q, g, f) => Awaited(F2, Q2, g, f))
           /\ g \in F[f].known => g \in F2[f].known \/ g \notin S.members
           /\ Head(Q[f]) \in Of("JoinNotify", g) => g \in F2[f].known
  BY <1>6, <1>7
<1> QED
  BY <1>2, <1>5, <1>9, <1>10, SilentNet

\* A request of another: whoever has joined answers it.
LEMMA RequestNet ==
  ASSUME NEW F, NEW Q, NEW S, NEW f, NEW F2, NEW Q2, Taken(F, Q, S, f, F2, Q2),
         F2[f].member = F[f].member, F2[f].reg = F[f].reg, F2[f].con = F[f].con,
         F2[f].known = F[f].known, F2[f].enableSet = F[f].enableSet,
         NEW x \in Federates \ {f}, Head(Q[f]).type = "EnableReg", Head(Q[f]).fed = x,
         DOMAIN F2[f].bounds = DOMAIN F[f].bounds \cup {x},
         NEW r \in EnableResponses, r.to = x, r.from = f,
         F2[f].sent = IF F[f].member = "in" THEN Append(F[f].sent, r) ELSE F[f].sent
  PROVE  Protocol(F2, Q2, S)
<1> DEFINE m == Head(Q[f])
           s == F[f]
           t == F2[f]
<1>1. /\ f \in Federates /\ f \in S.members /\ s.member \in {"joining", "in"}
      /\ SenderOK(F, S, f) /\ OwnOK(F, Q, f) /\ MemberOK(F, Q, S, f)
      /\ Q[f] \in Seq(ToFederate) /\ Q[f] # <<>> /\ Q2[f] = Tail(Q[f]) /\ m \in Messages
      /\ s.sent \in Seq(ToServer)
      /\ \A g \in Federates : TokenOK(F, Q, f, g)
  BY TakenFacts
<1>2. /\ m \in On(x) /\ \A g : (g # x => m \notin On(g)) /\ m \notin Off(g) /\ m \notin Of("JoinNotify", g)
      /\ m \notin Typed("JoinResponse")
  BY <1>1 DEF On, Of, Off, Typed
<1>3. /\ r \in ToServer /\ r \in Messages /\ r.type = "EnableRegResponse" /\ r \in AnswerTo(x)
      /\ \A g : r \notin On(g) /\ (g # x => r \notin AnswerTo(g))
  BY DEF EnableResponses, ToServer, Relayed, Messages, On, Of, AnswerTo
<1>4. f \notin DOMAIN t.bounds
  BY <1>1 DEF MemberOK
<1>5. /\ \A b \in States : <<r, b, b>> \in RegSteps(f) /\ <<r, b, b>> \in ConSteps
      /\ <<r, "on", "on">> \in OpenSteps
  <2>1. \A b \in States : RegStep(f, r, b, b) /\ ConStep(r, b, b)
    BY <1>3 DEF RegStep, ConStep
  <2>2. OpenStep(r, "on", "on") /\ "on" \in States
    BY <1>3 DEF OpenStep, Switch, States
  <2> QED
    BY <1>3, <2>1, <2>2, StepsOf
<1>6. SenderOK(F2, S, f)
  <2>1. CASE s.member = "in"
    <3>0. t.sent = Append(s.sent, r)
      BY <2>1
    <3>1. Run(t.sent, RegSteps(f), Switch(f \in S.regulating), Switch(s.reg # "Disabled"))
      <4>1. PICK b : b = Switch(s.reg # "Disabled")
        OBVIOUS
      <4>2. b \in States
        BY <4>1, SwitchType
      <4>3. PICK a : a = Switch(f \in S.regulating)
        OBVIOUS
      <4>4. Run(s.sent, RegSteps(f), a, b)
        BY <1>1, <4>1, <4>3 DEF SenderOK
      <4>5. Run(Append(s.sent, r), RegSteps(f), a, b)
        BY <4>2, <4>4, <1>1, <1>3, <1>5, RunAppend
      <4> QED
        BY <3>0, <4>1, <4>3, <4>5
    <3>2. Run(t.sent, ConSteps, Switch(f \in S.constrained), Switch(s.con # "Disabled"))
      <4>1. PICK b : b = Switch(s.con # "Disabled")
        OBVIOUS
      <4>2. b \in States
        BY <4>1, SwitchType
      <4>3. PICK a : a = Switch(f \in S.constrained)
        OBVIOUS
      <4>4. Run(s.sent, ConSteps, a, b)
        BY <1>1, <4>1, <4>3 DEF SenderOK
      <4>5. Run(Append(s.sent, r), ConSteps, a, b)
        BY <4>2, <4>4, <1>1, <1>3, <1>5, RunAppend
      <4> QED
        BY <3>0, <4>1, <4>3, <4>5
    <3>3. Run(t.sent, OpenSteps, Switch(s.member = "resigned" => f \in S.members), Switch(s.member # "resigned"))
      <4>1. Switch(s.member # "resigned") = "on" /\ "on" \in States
        BY <2>1 DEF Switch, States
      <4> QED
        BY <4>1, <3>0, <1>1, <1>3, <1>5, RunAppend DEF SenderOK
    <3> QED
      BY <1>1, <3>1, <3>2, <3>3 DEF SenderOK
  <2>2. CASE s.member # "in"
    BY <1>1, <2>2 DEF SenderOK
  <2> QED
    BY <2>1, <2>2
<1>7. /\ \A g : Some(t.sent, On(g)) <=> Some(s.sent, On(g))
      /\ \A g : Single(s.sent, On(g)) => Single(t.sent, On(g))
      /\ \A g : g # x => (Some(t.sent, AnswerTo(g)) <=> Some(s.sent, AnswerTo(g)))
      /\ \A g : g # x /\ Single(s.sent, AnswerTo(g)) => Single(t.sent, AnswerTo(g))
  <2>1. CASE s.member = "in"
    BY <2>1, <1>1, <1>3, SomeAppend, SingleAppend
  <2>2. CASE s.member # "in"
    BY <2>2
  <2> QED
    BY <2>1, <2>2
<1>8. OwnOK(F2, Q2, f)
  <2>1. /\ Some(Q2[f], On(f)) => Some(Q[f], On(f))
        /\ Single(Q[f], On(f)) => Single(Q2[f], On(f))
    BY <1>1, SomeTail, SingleTail
  <2> QED
    BY <1>1, <1>7, <2>1 DEF OwnOK
<1>9. ASSUME NEW g \in Federates \ {f}
      PROVE  ReceiverOK(F2, Q2, S, f, g) /\ TokenOK(F2, Q2, g, f)
  <2>1. /\ m \in On(g) => g \in DOMAIN t.bounds
        /\ m \in Off(g) => g \notin DOMAIN t.bounds
        /\ m \notin On(g) \cup Off(g) => (g \in DOMAIN t.bounds <=> g \in DOMAIN s.bounds)
    BY <1>2
  <2>2. ReceiverOK(F2, Q2, S, f, g)
    BY <2>1, ReceiverTail
  <2>3. Awaited(F, Q, g, f) => Awaited(F2, Q2, g, f)
    <3>1. Ahead(Q[f], Of("JoinNotify", g), On(f)) => Ahead(Q2[f], Of("JoinNotify", g), On(f))
      BY <1>1, <1>2, AheadTail
    <3> QED
      BY <3>1 DEF Awaited
  <2>4. TokenOK(F2, Q2, g, f)
    BY <1>7, <2>3, ClaimsTail
  <2> QED
    BY <2>2, <2>4
<1>10. TokenOK(F2, Q2, f, x)
  <2>1. CASE s.member = "joining"
    <3>1. /\ Asked(F2, Q2, f, x) => Asked(F, Q, f, x)
          /\ AskedOnce(F, Q, f, x) => AskedOnce(F2, Q2, f, x)
      BY <2>1, <1>1, <1>2, SomeTail, AfterTail, SingleAfterTail DEF Asked, AskedOnce
    <3>2. F2[x] = F[x] /\ Q2[x] = Q[x] /\ t.sent = s.sent
      BY <2>1 DEF Taken
    <3>3. /\ Answering(F2, f, x) <=> Answering(F, f, x)
          /\ Answered(Q2, f, x) <=> Answered(Q, f, x)
          /\ Awaited(F2, Q2, f, x) <=> Awaited(F, Q, f, x)
      BY <3>2 DEF Answering, Answered, Awaited
    <3> QED
      BY <1>1, <3>1, <3>2, <3>3 DEF TokenOK
  <2>2. CASE s.member = "in"
    <3>1. Some(Q[f], On(x)) /\ t.sent = Append(s.sent, r)
      BY <2>2, <1>1, <1>2, SomeTail
    <3>2. Asked(F, Q, f, x)
      BY <2>2, <3>1 DEF Asked
    <3>3. F2[x] = F[x] /\ Q2[x] = Q[x]
      BY DEF Taken
    <3>4. CASE F[x].member = "resigned"
      BY <3>3, <3>4 DEF TokenOK
    <3>5. CASE F[x].member # "resigned"
      <4>1. /\ F[x].reg = "EnablePending" /\ Awaited(F, Q, f, x) /\ ~Some(F[x].sent, On(x))
            /\ AskedOnce(F, Q, f, x) /\ Single(s.sent, AnswerTo(x)) /\ Single(Q[x], AnswerOf(f))
            /\ ~Answering(F, f, x) /\ ~Answered(Q, f, x)
        BY <1>1, <3>2, <3>5 DEF TokenOK
      <4>2. Single(Q[f], On(x))
        BY <2>2, <4>1 DEF AskedOnce
      <4>3. ~Some(Q2[f], On(x)) /\ Single(Q2[f], On(x))
        BY <1>1, <1>2, <4>2, SingleTail
      <4>4. ~Asked(F2, Q2, f, x) /\ AskedOnce(F2, Q2, f, x)
        BY <2>2, <4>3 DEF Asked, AskedOnce
      <4>5. Single(t.sent, AnswerTo(x))
        BY <1>1, <1>3, <3>1, <4>1, SingleAppend DEF Answering
      <4>6. Awaited(F2, Q2, f, x) /\ ~Answered(Q2, f, x)
        BY <3>3, <4>1 DEF Awaited, Answered
      <4> QED
        BY <3>3, <4>1, <4>4, <4>5, <4>6 DEF TokenOK
    <3> QED
      BY <3>4, <3>5
  <2> QED
    BY <1>1, <2>1, <2>2
<1>11. ASSUME NEW g \in Federates \ {f} PROVE TokenOK(F2, Q2, f, g)
  <2>1. CASE g # x
    BY <1>2, <1>7, <2>1, DutiesTail
  <2> QED
    BY <1>10, <2>1
<1>12. \A g \in Federates \ {f} :
           /\ ReceiverOK(F2, Q2, S, f, g)
           /\ TokenOK(F2, Q2, f, g) /\ TokenOK(F2, Q2, g, f)
           /\ g \in F[f].known => g \in F2[f].known \/ g \notin S.members
           /\ Head(Q[f]) \in Of("JoinNotify", g) => g \in F2[f].known
  BY <1>2, <1>9, <1>11
<1>13. t.member \in {"joining", "in"}
  BY <1>1
<1> QED
  BY <1>4, <1>6, <1>8, <1>12, <1>13, AcceptNet

\* The response to f's join: what asks f from now on is answered.
LEMMA JoinResponseNet ==
  ASSUME NEW F, NEW Q, NEW S, NEW f, NEW F2, NEW Q2, Taken(F, Q, S, f, F2, Q2),
         F2[f].member = "in", F2[f].reg = F[f].reg, F2[f].con = F[f].con, F2[f].sent = F[f].sent,
         F2[f].known = F[f].known, F2[f].enableSet = F[f].enableSet, F2[f].bounds = F[f].bounds,
         Head(Q[f]).type = "JoinResponse"
  PROVE  Protocol(F2, Q2, S)
<1> DEFINE m == Head(Q[f])
           s == F[f]
           t == F2[f]
<1>1. /\ f \in Federates /\ f \in S.members /\ s.member \in {"joining", "in"}
      /\ SenderOK(F, S, f) /\ OwnOK(F, Q, f) /\ MemberOK(F, Q, S, f)
      /\ Q[f] \in Seq(ToFederate) /\ Q[f] # <<>> /\ Q2[f] = Tail(Q[f]) /\ m \in Messages
      /\ \A g \in Federates : TokenOK(F, Q, f, g)
  BY TakenFacts
<1>2. \A g : m \notin On(g) /\ m \notin Off(g) /\ m \notin Of("JoinNotify", g)
  BY DEF On, Of, Off
<1>3. m \in Typed("JoinResponse")
  BY <1>1 DEF Typed
<1>4. f \notin DOMAIN t.bounds
  BY <1>1 DEF MemberOK
<1>5. SenderOK(F2, S, f)
  <2>1. /\ Switch(t.member # "resigned") = Switch(s.member # "resigned")
        /\ Switch(t.member = "resigned" => f \in S.members) = Switch(s.member = "resigned" => f \in S.members)
    BY <1>1 DEF Switch
  <2> QED
    BY <1>1, <2>1 DEF SenderOK
<1>6. OwnOK(F2, Q2, f)
  <2>1. /\ Some(Q2[f], On(f)) => Some(Q[f], On(f))
        /\ Single(Q[f], On(f)) => Single(Q2[f], On(f))
    BY <1>1, SomeTail, SingleTail
  <2> QED
    BY <1>1, <2>1 DEF OwnOK
<1>7. ASSUME NEW g \in Federates \ {f}
      PROVE  ReceiverOK(F2, Q2, S, f, g) /\ TokenOK(F2, Q2, f, g) /\ TokenOK(F2, Q2, g, f)
  <2>1. ReceiverOK(F2, Q2, S, f, g)
    BY <1>2, ReceiverTail
  <2>2. Awaited(F, Q, g, f) => Awaited(F2, Q2, g, f)
    <3>1. Ahead(Q[f], Of("JoinNotify", g), On(f)) => Ahead(Q2[f], Of("JoinNotify", g), On(f))
      BY <1>1, <1>2, AheadTail
    <3> QED
      BY <3>1 DEF Awaited
  <2>3. TokenOK(F2, Q2, g, f)
    BY <2>2, ClaimsTail
  <2>4. Asked(F2, Q2, f, g) => Asked(F, Q, f, g)
    BY <1>1, <1>3, SomeTail, AfterTail DEF Asked
  <2>5. AskedOnce(F, Q, f, g) => AskedOnce(F2, Q2, f, g)
    BY <1>1, <1>3, SingleTail, SingleAfterTail DEF AskedOnce
  <2>6. F2[g] = F[g] /\ Q2[g] = Q[g]
    BY DEF Taken
  <2>7. /\ Answering(F2, f, g) <=> Answering(F, f, g)
        /\ Answered(Q2, f, g) <=> Answered(Q, f, g)
        /\ Awaited(F2, Q2, f, g) <=> Awaited(F, Q, f, g)
    BY <2>6 DEF Answering, Answered, Awaited
  <2>8. TokenOK(F2, Q2, f, g)
    BY <1>1, <2>4, <2>5, <2>6, <2>7 DEF TokenOK
  <2> QED
    BY <2>1, <2>3, <2>8
<1>8. \A g \in Federates \ {f} :
           /\ ReceiverOK(F2, Q2, S, f, g)
           /\ TokenOK(F2, Q2, f, g) /\ TokenOK(F2, Q2, g, f)
           /\ g \in F[f].known => g \in F2[f].known \/ g \notin S.members
           /\ Head(Q[f]) \in Of("JoinNotify", g) => g \in F2[f].known
  BY <1>2, <1>7
<1>9. t.member \in {"joining", "in"}
  OBVIOUS
<1> QED
  BY <1>4, <1>5, <1>6, <1>8, <1>9, AcceptNet

\* Whatever the message, f keeps to the protocol when it accepts it.
LEMMA AcceptStep ==
  ASSUME NEW F, NEW Q, NEW S, NEW f, NEW F2, NEW Q2, Taken(F, Q, S, f, F2, Q2), LocalOK(F[f]),
         F2[f] = acceptInternalMessage(f, F[f], Head(Q[f]))
  PROVE  Protocol(F2, Q2, S) /\ LocalOK(F2[f])
<1> DEFINE m == Head(Q[f])
           s == F[f]
           t == F2[f]
           G(a) == [x \in Federates |-> IF x = f THEN a ELSE F[x]]
<1>1. /\ f \in Federates /\ f \in S.members /\ s.member \in {"joining", "in"} /\ OwnOK(F, Q, f)
      /\ Q[f] \in Seq(ToFederate) /\ Q[f] # <<>> /\ Q2[f] = Tail(Q[f]) /\ m \in ToFederate /\ m \in Messages
  BY TakenFacts
<1>2. IsState(s) /\ IsState(t) /\ LocalOK(s)
  BY DEF Taken, Protocol, Types
<1>3. ASSUME NEW a, IsState(a) PROVE Taken(F, Q, S, f, G(a), Q2) /\ G(a)[f] = a
  <2>1. G(a)[f] = a /\ \A x \in Federates \ {f} : G(a)[x] = F[x]
    BY <1>1
  <2> HIDE DEF G
  <2> QED
    BY <1>3, <2>1 DEF Taken
<1>4. ASSUME NEW a, Protocol(G(a), Q2, S), a.member = s.member, Steady(f, a, t)
      PROVE  Protocol(F2, Q2, S)
  <2>1. G(a)[f] = a /\ \A x \in Federates \ {f} : F2[x] = G(a)[x]
    BY <1>1 DEF Taken
  <2>2. G(a)[f].member # "resigned" /\ Steady(f, G(a)[f], F2[f])
    BY <1>1, <1>4, <2>1
  <2> HIDE DEF G
  <2> QED
    BY <1>1, <1>4, <2>1, <2>2, SteadyNet
<1> HIDE DEF G
<1>5. CASE m.type = "JoinNotify"
  <2>1. m.fed \in Federates /\ t = acceptJoinNotify(f, s, m.fed)
    BY <1>1, <1>5, ToFederateCases DEF acceptInternalMessage
  <2>2. /\ Alike(s, t) /\ LocalOK(t)
        /\ t.known = s.known \cup {m.fed} /\ t.bounds = s.bounds
        /\ t.enableSet = (IF f \in s.enableSet THEN s.enableSet \cup {m.fed} ELSE s.enableSet)
        /\ t.sent = s.sent
    <3> HIDE DEF m, s, t
    <3>1. PICK u :
            /\ u = acceptJoinNotify(f, s, m.fed)
            /\ Alike(s, u) /\ LocalOK(u)
            /\ u.known = s.known \cup {m.fed} /\ u.bounds = s.bounds
            /\ f \in s.enableSet => u.enableSet = s.enableSet \cup {m.fed}
            /\ f \notin s.enableSet => u.enableSet = s.enableSet
            /\ u.sent = s.sent
      BY <1>1, <1>2, <2>1, joinNotifyAlike
    <3>2. t = u
      BY <2>1, <3>1
    <3> QED
      BY <3>1, <3>2
  <2>3. t.member = s.member /\ t.reg = s.reg /\ t.con = s.con
    BY <2>2 DEF Alike
  <2>4. Protocol(F2, Q2, S)
    BY <1>5, <2>1, <2>2, <2>3, JoinNotifyNet
  <2> QED
    BY <2>2, <2>4
<1>6. CASE m.type = "JoinResponse"
  <2>1. t = [s EXCEPT !.member = "in"]
    BY <1>6 DEF acceptInternalMessage
  <2>2. /\ t.member = "in" /\ t.known = s.known /\ t.bounds = s.bounds /\ t.enableSet = s.enableSet
        /\ t.sent = s.sent /\ t.reg = s.reg /\ t.con = s.con /\ t.tso = s.tso /\ t.cTA = s.cTA /\ t.out = s.out
    BY <1>2, <2>1 DEF IsState
  <2>3. LocalOK(t)
    BY <2>2 DEF LocalOK
  <2> QED
    BY <1>6, <2>2, <2>3, JoinResponseNet
<1>7. CASE m.type = "ResignNotify"
  <2>1. m.fed \in Federates /\ t = acceptResignNotify(f, s, m.fed)
    BY <1>1, <1>7, ToFederateCases DEF acceptInternalMessage
  <2>2. PICK a : /\ Alike(s, a) /\ LocalOK(t) /\ Steady(f, a, t)
                 /\ a.known = s.known \ {m.fed} /\ a.enableSet = s.enableSet \ {m.fed} /\ a.sent = s.sent
                 /\ a.bounds = Drop(s.bounds, m.fed)
    <3> HIDE DEF m, s, t
    <3> QED
      BY <1>1, <1>2, <2>1, resignNotifyAlike
  <2>3. IsState(a) /\ a.member = s.member /\ a.reg = s.reg /\ a.con = s.con
        /\ DOMAIN a.bounds = DOMAIN s.bounds \ {m.fed}
    BY <2>2 DEF Alike, Drop
  <2>4. Taken(F, Q, S, f, G(a), Q2) /\ G(a)[f] = a
    BY <1>3, <2>3
  <2>5. Protocol(G(a), Q2, S)
    BY <1>7, <2>1, <2>2, <2>3, <2>4, ResignNotifyNet
  <2> QED
    BY <1>4, <2>2, <2>3, <2>5
<1>8. CASE m.type = "EnableReg" /\ m.fed = f
  <2>1. t = acceptOwnEnableRequest(f, s)
    BY <1>8 DEF acceptInternalMessage
  <2>2. s.reg = "EnablePending" /\ f \in s.enableSet
    <3>1. m \in On(f)
      BY <1>1, <1>8 DEF On, Of
    <3>2. Some(Q[f], On(f))
      BY <1>1, <3>1, SomeTail
    <3> QED
      BY <1>1, <3>2 DEF OwnOK
  <2>3. PICK a : /\ Alike(s, a) /\ LocalOK(t) /\ Steady(f, a, t)
                 /\ a.known = s.known /\ a.enableSet = s.enableSet \ {f} /\ a.sent = s.sent
                 /\ a.bounds = s.bounds
    BY <1>1, <1>2, <2>1, <2>2, ownEnableRequestAlike
  <2>4. IsState(a) /\ a.member = s.member /\ a.reg = s.reg /\ a.con = s.con
    BY <2>3 DEF Alike
  <2>5. Taken(F, Q, S, f, G(a), Q2) /\ G(a)[f] = a
    BY <1>3, <2>4
  <2>6. Protocol(G(a), Q2, S)
    BY <1>8, <2>3, <2>4, <2>5, OwnRequestNet
  <2> QED
    BY <1>4, <2>3, <2>4, <2>6
<1>9. CASE m.type = "EnableReg" /\ m.fed # f
  <2>1. m \in EnableRequests /\ t = acceptEnableRequest(f, s, m)
    BY <1>1, <1>9, ToFederateCases DEF acceptInternalMessage
  <2>2. PICK a, u, v :
           /\ Alike(s, a) /\ LocalOK(t) /\ Quiet(f, a, t)
           /\ a.known = s.known /\ a.enableSet = s.enableSet
           /\ EnableResponse(m.fed, f, u, v) \in EnableResponses
           /\ a.sent = (IF s.member = "in" THEN Append(s.sent, EnableResponse(m.fed, f, u, v)) ELSE s.sent)
           /\ DOMAIN a.bounds = DOMAIN s.bounds \cup {m.fed}
    <3> HIDE DEF m, s, t
    <3> QED
      BY <1>1, <1>2, <2>1, enableRequestAlike
  <2>3. IsState(a) /\ a.member = s.member /\ a.reg = s.reg /\ a.con = s.con
    BY <2>2 DEF Alike
  <2>4. Taken(F, Q, S, f, G(a), Q2) /\ G(a)[f] = a
    BY <1>3, <2>3
  <2>5. PICK r : r = EnableResponse(m.fed, f, u, v)
    OBVIOUS
  <2>6. r \in EnableResponses /\ r.to = m.fed /\ r.from = f /\ m.fed \in Federates \ {f}
    BY <1>9, <2>1, <2>2, <2>5 DEF EnableResponse, EnableRequests
  <2>7. Protocol(G(a), Q2, S)
    BY <1>9, <2>2, <2>3, <2>4, <2>5, <2>6, RequestNet
  <2>8. Steady(f, a, t)
    BY <2>2, QuietSteady
  <2> QED
    BY <1>4, <2>2, <2>3, <2>7, <2>8
<1>10. CASE m.type = "EnableRegResponse"
  <2>1. m \in EnableResponses /\ t = acceptEnableResponse(f, s, m)
    BY <1>1, <1>10, ToFederateCases DEF acceptInternalMessage
  <2>2. m.from \in Federates
    BY <2>1 DEF EnableResponses
  <2>3. s.reg = "EnablePending" /\ s.enableSet # {}
    BY <1>10, <2>2, ResponseWaited
  <2>4. PICK a : /\ Alike(s, a) /\ LocalOK(t) /\ Steady(f, a, t)
                 /\ a.known = s.known /\ a.enableSet = s.enableSet \ {m.from} /\ a.sent = s.sent
                 /\ a.bounds = s.bounds
    BY <1>1, <1>2, <2>1, <2>3, enableResponseAlike
  <2>5. IsState(a) /\ a.member = s.member /\ a.reg = s.reg /\ a.con = s.con
    BY <2>4 DEF Alike
  <2>6. Taken(F, Q, S, f, G(a), Q2) /\ G(a)[f] = a
    BY <1>3, <2>5
  <2>7. Protocol(G(a), Q2, S)
    BY <1>10, <2>2, <2>4, <2>5, <2>6, ResponseNet
  <2> QED
    BY <1>4, <2>4, <2>5, <2>7
<1>11. CASE m.type = "DisableReg"
  <2>1. t = acceptDisableRequest(f, s, m)
    BY <1>11 DEF acceptInternalMessage
  <2>2. PICK a : /\ Alike(s, a) /\ LocalOK(t) /\ Quiet(f, a, t)
                 /\ a.known = s.known /\ a.enableSet = s.enableSet /\ a.sent = s.sent
                 /\ a.bounds = Drop(s.bounds, m.fed)
    <3> HIDE DEF m, s, t
    <3> QED
      BY <1>1, <1>2, <2>1, disableRequestAlike
  <2>3. IsState(a) /\ a.member = s.member /\ a.reg = s.reg /\ a.con = s.con
        /\ DOMAIN a.bounds = DOMAIN s.bounds \ {m.fed}
    BY <2>2 DEF Alike, Drop
  <2>4. Taken(F, Q, S, f, G(a), Q2) /\ G(a)[f] = a
    BY <1>3, <2>3
  <2>5. Protocol(G(a), Q2, S)
    BY <1>11, <2>2, <2>3, <2>4, PlainNet
  <2>6. Steady(f, a, t)
    BY <2>2, QuietSteady
  <2> QED
    BY <1>4, <2>2, <2>3, <2>5, <2>6
<1>12. CASE m.type = "Commit"
  <2>1. m \in CommitMessages /\ t = acceptCommit(f, s, m)
    BY <1>1, <1>12, ToFederateCases DEF acceptInternalMessage
  <2>2. PICK a : /\ Alike(s, a) /\ LocalOK(t) /\ Quiet(f, a, t)
                 /\ a.known = s.known /\ a.enableSet = s.enableSet /\ a.sent = s.sent
                 /\ DOMAIN a.bounds = DOMAIN s.bounds
    BY <1>1, <1>2, <2>1, commitAlike
  <2>3. IsState(a) /\ a.member = s.member /\ a.reg = s.reg /\ a.con = s.con
    BY <2>2 DEF Alike
  <2>4. Taken(F, Q, S, f, G(a), Q2) /\ G(a)[f] = a
    BY <1>3, <2>3
  <2>5. Protocol(G(a), Q2, S)
    BY <1>12, <2>2, <2>3, <2>4, PlainNet
  <2>6. Steady(f, a, t)
    BY <2>2, QuietSteady
  <2> QED
    BY <1>4, <2>2, <2>3, <2>5, <2>6
<1>13. CASE m.type \in {"CommitResponse", "Locked", "Data"}
  <2>1. Quiet(f, s, t)
    <3>1. CASE m.type = "CommitResponse"
      <4>1. m \in CommitResponseMessages /\ t = acceptCommitResponse(f, s, m)
        BY <1>1, <3>1, ToFederateCases DEF acceptInternalMessage
      <4> QED
        BY <1>1, <1>2, <4>1, commitResponseQuiet
    <3>2. CASE m.type = "Locked"
      <4>1. m \in LockedMessages /\ t = acceptLocked(f, s, m)
        BY <1>1, <3>2, ToFederateCases DEF acceptInternalMessage
      <4> QED
        BY <1>1, <1>2, <4>1, acceptLockedQuiet
    <3>3. CASE m.type = "Data"
      <4>1. m \in DataMessages /\ t = acceptData(f, s, m)
        BY <1>1, <3>3, ToFederateCases DEF acceptInternalMessage
      <4> QED
        BY <1>1, <1>2, <4>1, acceptDataQuiet
    <3> QED
      BY <1>13, <3>1, <3>2, <3>3
  <2>2. Taken(F, Q, S, f, G(s), Q2) /\ G(s)[f] = s
    BY <1>2, <1>3
  <2>3. Protocol(G(s), Q2, S)
    BY <1>13, <2>2, PlainNet
  <2>4. Steady(f, s, t) /\ LocalOK(t)
    BY <2>1, QuietSteady, QuietLocal
  <2> QED
    BY <1>4, <2>3, <2>4
<1> QED
  BY <1>1, <1>5, <1>6, <1>7, <1>8, <1>9, <1>10, <1>11, <1>12, <1>13, ToFederateCases

-----------------------------------------------------------------------------
(* The server takes a message *)

\* m is put at the end of a queue, or not.
Grown(q, p, m) == p = q \/ (m \in ToFederate /\ p = Append(q, m))

LEMMA GrownKeeps ==
  ASSUME NEW q \in Seq(ToFederate), NEW p, NEW m, Grown(q, p, m)
  PROVE  /\ p \in Seq(ToFederate)
         /\ \A X : m \notin X => (Some(p, X) <=> Some(q, X)) /\ (Single(q, X) => Single(p, X))
         /\ \A X, Y : Ahead(q, X, Y) => Ahead(p, X, Y)
         /\ \A X, Y : m \notin X => /\ SomeAfter(p, Y, X) <=> SomeAfter(q, Y, X)
                                    /\ SingleAfter(q, Y, X) => SingleAfter(p, Y, X)
<1>1. CASE p = q
  BY <1>1
<1>2. CASE m \in ToFederate /\ p = Append(q, m)
  <2>1. p \in Seq(ToFederate)
    BY <1>2, AppendAt
  <2>2. \A X : m \notin X => (Some(p, X) <=> Some(q, X)) /\ (Single(q, X) => Single(p, X))
    BY <1>2, SomeAppend, SingleAppend
  <2>3. \A X, Y : Ahead(q, X, Y) => Ahead(p, X, Y)
    BY <1>2, AheadAppend
  <2>4. \A X, Y : m \notin X => /\ SomeAfter(p, Y, X) <=> SomeAfter(q, Y, X)
                                /\ SingleAfter(q, Y, X) => SingleAfter(p, Y, X)
    BY <1>2, AfterAppend, SingleAfterAppend
  <2> QED
    BY <2>1, <2>2, <2>3, <2>4
<1> QED
  BY <1>1, <1>2 DEF Grown

\* The server takes the oldest message m of f, unless it is a resignation, follows the modes
\* of f, and passes m on to some members.
Served(F, Q, S, f, m, F2, Q2, S2) ==
  /\ Protocol(F, Q, S) /\ f \in Federates
  /\ F[f].sent # <<>> /\ m = Head(F[f].sent) /\ m.type # "Resign"
  /\ \A x \in Federates \ {f} : F2[x] = F[x]
  /\ IsState(F2[f]) /\ F2[f].sent = Tail(F[f].sent) /\ F2[f].member = F[f].member
  /\ F2[f].known = F[f].known /\ F2[f].reg = F[f].reg /\ F2[f].con = F[f].con
  /\ F2[f].enableSet = F[f].enableSet /\ F2[f].bounds = F[f].bounds
  /\ \A x \in Federates : Grown(Q[x], Q2[x], m) /\ (x \notin S.members => Q2[x] = Q[x])
  /\ IsServer(S2) /\ S2.members = S.members
  /\ \A x \in Federates \ {f} : /\ x \in S2.regulating <=> x \in S.regulating
                                /\ x \in S2.constrained <=> x \in S.constrained
  /\ f \in S2.regulating <=> m.type = "EnableReg" \/ (f \in S.regulating /\ m.type # "DisableReg")
  /\ f \in S2.constrained <=> m.type = "EnableCon" \/ (f \in S.constrained /\ m.type # "DisableCon")

\* What is known of a message that the server takes
LEMMA ServedFacts ==
  ASSUME NEW F, NEW Q, NEW S, NEW f, NEW m, NEW F2, NEW Q2, NEW S2, Served(F, Q, S, f, m, F2, Q2, S2)
  PROVE  /\ f \in Federates /\ f \in S.members /\ F[f].sent \in Seq(ToServer) /\ F[f].sent # <<>>
         /\ m = Head(F[f].sent) /\ F2[f].sent = Tail(F[f].sent)
         /\ m \in ToServer /\ m \in Messages
         /\ m.type \in {"EnableReg", "DisableReg", "Commit"} => m.fed = f
         /\ m.type = "EnableReg" => f \notin S.regulating
         /\ m.type \in {"DisableReg", "Commit"} => f \in S.regulating
         /\ m.type = "EnableRegResponse" => m.from = f /\ m.to # f
         /\ m.type = "EnableCon" => f \notin S.constrained
         /\ m.type = "DisableCon" => f \in S.constrained
<1>1. /\ f \in Federates /\ F[f].sent # <<>> /\ m = Head(F[f].sent) /\ F2[f].sent = Tail(F[f].sent)
      /\ Protocol(F, Q, S)
  BY DEF Served
<1>2. F[f].sent \in Seq(ToServer) /\ SenderOK(F, S, f)
  BY <1>1 DEF Protocol, Types, IsState
<1>3. m \in ToServer /\ m \in Messages
  BY <1>1, <1>2, TailAt, MessageIn
<1>4. f \in S.members
  BY <1>1, <1>2 DEF SenderOK
<1>5. PICK a : a = Switch(f \in S.regulating)
  OBVIOUS
<1>6. PICK c \in States : <<m, a, c>> \in RegSteps(f)
  <2>1. Run(F[f].sent, RegSteps(f), a, Switch(F[f].reg # "Disabled"))
    BY <1>2, <1>5 DEF SenderOK
  <2>2. PICK b : b = Switch(F[f].reg # "Disabled")
    OBVIOUS
  <2> QED
    BY <1>1, <1>2, <2>1, <2>2, RunTail
<1>7. RegStep(f, m, a, c)
  BY <1>6, StepsOf
<1>8. PICK d : d = Switch(f \in S.constrained)
  OBVIOUS
<1>9. PICK e \in States : <<m, d, e>> \in ConSteps
  <2>1. Run(F[f].sent, ConSteps, d, Switch(F[f].con # "Disabled"))
    BY <1>2, <1>8 DEF SenderOK
  <2>2. PICK b : b = Switch(F[f].con # "Disabled")
    OBVIOUS
  <2> QED
    BY <1>1, <1>2, <2>1, <2>2, RunTail
<1>10. ConStep(m, d, e)
  BY <1>9, StepsOf
<1>11. /\ m.type \in {"EnableReg", "DisableReg", "Commit"} => m.fed = f
       /\ m.type = "EnableReg" => f \notin S.regulating
       /\ m.type \in {"DisableReg", "Commit"} => f \in S.regulating
       /\ m.type = "EnableRegResponse" => m.from = f /\ m.to # f
  BY <1>5, <1>7 DEF RegStep, Switch
<1>12. /\ m.type = "EnableCon" => f \notin S.constrained
       /\ m.type = "DisableCon" => f \in S.constrained
  BY <1>8, <1>10 DEF ConStep, Switch
<1> QED
  BY <1>1, <1>2, <1>3, <1>4, <1>11, <1>12

LEMMA ServedSender ==
  ASSUME NEW F, NEW Q, NEW S, NEW f, NEW m, NEW F2, NEW Q2, NEW S2, Served(F, Q, S, f, m, F2, Q2, S2),
         NEW g \in Federates
  PROVE  SenderOK(F2, S2, g)
<1>1. /\ f \in Federates /\ f \in S.members /\ F[f].sent \in Seq(ToServer) /\ F[f].sent # <<>>
      /\ m = Head(F[f].sent) /\ F2[f].sent = Tail(F[f].sent)
  BY ServedFacts
<1>2. SenderOK(F, S, g)
  BY DEF Served, Protocol
<1>3. CASE g # f
  <2>1. F2[g] = F[g] /\ S2.members = S.members
    BY <1>3 DEF Served
  <2>2. (g \in S2.regulating <=> g \in S.regulating) /\ (g \in S2.constrained <=> g \in S.constrained)
    BY <1>3 DEF Served
  <2>3. /\ Switch(g \in S2.regulating) = Switch(g \in S.regulating)
        /\ Switch(g \in S2.constrained) = Switch(g \in S.constrained)
    BY <2>2 DEF Switch
  <2> QED
    BY <1>2, <2>1, <2>3 DEF SenderOK
<1>4. CASE g = f
  <2>0. /\ F2[f].reg = F[f].reg /\ F2[f].con = F[f].con /\ F2[f].member = F[f].member
        /\ S2.members = S.members /\ m.type # "Resign"
        /\ f \in S2.regulating <=> m.type = "EnableReg" \/ (f \in S.regulating /\ m.type # "DisableReg")
        /\ f \in S2.constrained <=> m.type = "EnableCon" \/ (f \in S.constrained /\ m.type # "DisableCon")
    BY DEF Served
  <2>1. Run(F2[f].sent, RegSteps(f), Switch(f \in S2.regulating), Switch(F2[f].reg # "Disabled"))
    <3>1. PICK a : a = Switch(f \in S.regulating)
      OBVIOUS
    <3>2. PICK b : b = Switch(F[f].reg # "Disabled")
      OBVIOUS
    <3>3. Run(F[f].sent, RegSteps(f), a, b)
      BY <1>2, <1>4, <3>1, <3>2 DEF SenderOK
    <3>4. PICK c \in States : <<m, a, c>> \in RegSteps(f) /\ Run(Tail(F[f].sent), RegSteps(f), c, b)
      BY <1>1, <3>3, RunTail
    <3>5. RegStep(f, m, a, c)
      BY <3>4, StepsOf
    <3>6. c = Switch(f \in S2.regulating)
      BY <2>0, <3>1, <3>5 DEF RegStep, Switch
    <3> QED
      BY <1>1, <2>0, <3>2, <3>4, <3>6
  <2>2. Run(F2[f].sent, ConSteps, Switch(f \in S2.constrained), Switch(F2[f].con # "Disabled"))
    <3>1. PICK a : a = Switch(f \in S.constrained)
      OBVIOUS
    <3>2. PICK b : b = Switch(F[f].con # "Disabled")
      OBVIOUS
    <3>3. Run(F[f].sent, ConSteps, a, b)
      BY <1>2, <1>4, <3>1, <3>2 DEF SenderOK
    <3>4. PICK c \in States : <<m, a, c>> \in ConSteps /\ Run(Tail(F[f].sent), ConSteps, c, b)
      BY <1>1, <3>3, RunTail
    <3>5. ConStep(m, a, c)
      BY <3>4, StepsOf
    <3>6. c = Switch(f \in S2.constrained)
      BY <2>0, <3>1, <3>5 DEF ConStep, Switch
    <3> QED
      BY <1>1, <2>0, <3>2, <3>4, <3>6
  <2>3. Run(F2[f].sent, OpenSteps, Switch(F[f].member = "resigned" => f \in S.members),
                                   Switch(F[f].member # "resigned"))
    <3>2. PICK b : b = Switch(F[f].member # "resigned")
      OBVIOUS
    <3>3. Run(F[f].sent, OpenSteps, "on", b)
      <4>1. Switch(F[f].member = "resigned" => f \in S.members) = "on"
        BY <1>1 DEF Switch
      <4> QED
        BY <1>2, <1>4, <3>2, <4>1 DEF SenderOK
    <3>4. PICK c \in States : <<m, "on", c>> \in OpenSteps /\ Run(Tail(F[f].sent), OpenSteps, c, b)
      BY <1>1, <3>3, RunTail
    <3>5. OpenStep(m, "on", c)
      BY <3>4, StepsOf
    <3>6. c = Switch(F[f].member = "resigned" => f \in S.members)
      BY <1>1, <2>0, <3>5 DEF OpenStep, Switch
    <3> QED
      BY <1>1, <2>0, <3>2, <3>4, <3>6
  <2> QED
    BY <1>1, <1>4, <2>0, <2>1, <2>2, <2>3 DEF SenderOK
<1> QED
  BY <1>3, <1>4

LEMMA ToServerKinds ==
  ASSUME NEW m \in ToServer
  PROVE  m.type \in {"EnableReg", "EnableRegResponse", "Commit", "CommitResponse", "Locked", "Data",
                     "DisableReg", "EnableCon", "DisableCon", "Resign"}
BY DEF ToServer, Relayed, Notices, EnableRequests, EnableResponses, CommitMessages,
       CommitResponseMessages, LockedMessages, DataMessages

\* A commit or an answer does not come back to its sender.
LEMMA ServedMember ==
  ASSUME NEW F, NEW Q, NEW S, NEW f, NEW m, NEW F2, NEW Q2, NEW S2, Served(F, Q, S, f, m, F2, Q2, S2),
         m.type \in {"Commit", "EnableRegResponse"} => Q2[f] = Q[f],
         NEW g \in Federates
  PROVE  MemberOK(F2, Q2, S2, g)
<1>1. /\ f \in Federates /\ f \in S.members
      /\ m.type = "Commit" => m.fed = f
      /\ m.type = "EnableRegResponse" => m.from = f
  BY ServedFacts
<1>2. /\ MemberOK(F, Q, S, g) /\ Q[g] \in Seq(ToFederate) /\ Grown(Q[g], Q2[g], m) /\ S2.members = S.members
      /\ (g \notin S.members => Q2[g] = Q[g])
      /\ F2[g].member = F[g].member /\ F2[g].bounds = F[g].bounds
  BY DEF Served, Protocol, Types
<1>3. g # f => /\ F2[g] = F[g]
               /\ g \in S2.regulating <=> g \in S.regulating
               /\ g \in S2.constrained <=> g \in S.constrained
  BY DEF Served
<1>4. ~Some(Q2[g], Of("Commit", g)) /\ ~Some(Q2[g], AnswerOf(g))
  <2>1. CASE m \notin Of("Commit", g) /\ m \notin AnswerOf(g)
    BY <1>2, <2>1, GrownKeeps DEF MemberOK
  <2>2. CASE m \in Of("Commit", g) \/ m \in AnswerOf(g)
    <3>1. g = f /\ m.type \in {"Commit", "EnableRegResponse"}
      BY <1>1, <2>2 DEF Of, AnswerOf
    <3> QED
      BY <3>1, <1>2 DEF MemberOK
  <2> QED
    BY <2>1, <2>2
<1>5. F[g].member = "out" => g # f
  BY <1>1, <1>2 DEF MemberOK
<1> QED
  BY <1>1, <1>2, <1>3, <1>4, <1>5 DEF MemberOK

LEMMA ServedKnown ==
  ASSUME NEW F, NEW Q, NEW S, NEW f, NEW m, NEW F2, NEW Q2, NEW S2, Served(F, Q, S, f, m, F2, Q2, S2),
         NEW h \in Federates, NEW g \in Federates
  PROVE  KnownOK(F2, Q2, S2, h, g)
<1>1. /\ f \in Federates /\ f \in S.members /\ m \in ToServer
      /\ m.type = "EnableRegResponse" => m.from = f
  BY ServedFacts
<1>2. /\ KnownOK(F, Q, S, h, g) /\ Q[g] \in Seq(ToFederate) /\ Grown(Q[g], Q2[g], m) /\ S2.members = S.members
      /\ F2[g].member = F[g].member /\ F2[g].known = F[g].known /\ F2[h].member = F[h].member
  BY DEF Served, Protocol, Types
<1>3. m.type \notin {"JoinNotify", "ResignNotify"}
  BY <1>1, ToServerKinds
<1>4. m \notin Of("JoinNotify", h) /\ m \notin Of("ResignNotify", h)
  BY <1>3 DEF Of
<1>5. /\ Some(Q2[g], Of("JoinNotify", h)) <=> Some(Q[g], Of("JoinNotify", h))
      /\ Some(Q2[g], Of("ResignNotify", h)) <=> Some(Q[g], Of("ResignNotify", h))
  BY <1>2, <1>4, GrownKeeps
<1>6. ~SomeAfter(Q2[g], Of("ResignNotify", h), AnswerOf(h))
  <2>1. CASE m \notin AnswerOf(h)
    BY <1>2, <2>1, GrownKeeps DEF KnownOK
  <2>2. CASE m \in AnswerOf(h)
    <3>1. h = f
      BY <1>1, <2>2 DEF AnswerOf
    <3>2. ~Some(Q[g], Of("ResignNotify", h)) /\ ~SomeAfter(Q[g], Of("ResignNotify", h), AnswerOf(h))
      BY <1>1, <1>2, <3>1 DEF KnownOK
    <3> QED
      BY <1>2, <3>2, AfterAppend DEF Grown
  <2> QED
    BY <2>1, <2>2
<1> QED
  BY <1>2, <1>5, <1>6 DEF KnownOK

\* Every other member learns when f starts or ends to regulate.
LEMMA ServedReceiver ==
  ASSUME NEW F, NEW Q, NEW S, NEW f, NEW m, NEW F2, NEW Q2, NEW S2, Served(F, Q, S, f, m, F2, Q2, S2),
         m.type \in {"EnableReg", "DisableReg"} =>
           \A x \in S.members \ {f} : m \in ToFederate /\ Q2[x] = Append(Q[x], m),
         NEW h \in Federates, NEW g \in Federates
  PROVE  ReceiverOK(F2, Q2, S2, h, g)
<1> SUFFICES ASSUME h # g, F2[h].member # "resigned"
             PROVE  Run(Q2[h], MapSteps(g), Switch(g \in DOMAIN F2[h].bounds), Switch(h \in S2.members /\ g \in S2.regulating))
  BY DEF ReceiverOK
<1>1. /\ f \in Federates /\ f \in S.members /\ m \in Messages
      /\ m.type \in {"EnableReg", "DisableReg", "Commit"} => m.fed = f
      /\ m.type = "EnableReg" => f \notin S.regulating
      /\ m.type \in {"DisableReg", "Commit"} => f \in S.regulating
      /\ m \in ToServer
  BY ServedFacts
<1>2. /\ ReceiverOK(F, Q, S, h, g) /\ Q[h] \in Seq(ToFederate) /\ Grown(Q[h], Q2[h], m) /\ S2.members = S.members
      /\ F2[h].member = F[h].member /\ F2[h].bounds = F[h].bounds
      /\ h \notin S.members => Q2[h] = Q[h]
      /\ g # f => (g \in S2.regulating <=> g \in S.regulating)
      /\ f \in S2.regulating <=> m.type = "EnableReg" \/ (f \in S.regulating /\ m.type # "DisableReg")
  BY DEF Served, Protocol, Types
<1>3. PICK a : a = Switch(g \in DOMAIN F[h].bounds)
  OBVIOUS
<1>4. PICK b : b = Switch(h \in S.members /\ g \in S.regulating)
  OBVIOUS
<1>5. PICK c : c = Switch(h \in S.members /\ g \in S2.regulating)
  OBVIOUS
<1>6. Run(Q[h], MapSteps(g), a, b)
  BY <1>2, <1>3, <1>4 DEF ReceiverOK
<1>7. Run(Q2[h], MapSteps(g), a, c)
  <2>1. CASE Q2[h] = Q[h]
    <3>1. c = b
      <4>1. CASE g # f
        BY <1>2, <1>4, <1>5, <4>1 DEF Switch
      <4>2. CASE g = f /\ m.type \notin {"EnableReg", "DisableReg"}
        BY <1>2, <1>4, <1>5, <4>2 DEF Switch
      <4>3. CASE g = f /\ m.type \in {"EnableReg", "DisableReg"}
        <5>1. h \notin S.members
          <6>1. h \in S.members => Q2[h] = Append(Q[h], m) /\ m \in ToFederate
            BY <4>3
          <6>2. m \in ToFederate => Append(Q[h], m) # Q[h]
            <7>1. m \in ToFederate => Len(Append(Q[h], m)) = Len(Q[h]) + 1 /\ Len(Q[h]) \in Nat
              BY <1>2, AppendAt
            <7> QED
              BY <7>1
          <6> QED
            BY <2>1, <6>1, <6>2
        <5> QED
          BY <1>4, <1>5, <5>1 DEF Switch
      <4> QED
        BY <4>1, <4>2, <4>3
    <3> QED
      BY <1>6, <2>1, <3>1
  <2>2. CASE m \in ToFederate /\ Q2[h] = Append(Q[h], m) /\ Q2[h] # Q[h]
    <3>1. h \in S.members
      BY <1>2, <2>2
    <3>2. b = Switch(g \in S.regulating) /\ c = Switch(g \in S2.regulating)
      BY <1>4, <1>5, <3>1 DEF Switch
    <3>3. m.type # "ResignNotify"
      BY <1>1, ToServerKinds
    <3>4. MapStep(g, m, b, c)
      <4>1. CASE g # f
        <5>1. b = c
          BY <1>2, <3>2, <4>1 DEF Switch
        <5>2. m \notin On(g) /\ m \notin Off(g) /\ m \notin Of("Commit", g)
          BY <1>1, <3>3, <4>1 DEF On, Off, Of
        <5> QED
          BY <5>1, <5>2 DEF MapStep
      <4>2. CASE g = f
        <5>1. /\ m \in On(g) <=> m.type = "EnableReg"
              /\ m \in Off(g) <=> m.type = "DisableReg"
              /\ m \in Of("Commit", g) <=> m.type = "Commit"
          BY <1>1, <3>3, <4>2 DEF On, Off, Of
        <5> QED
          BY <1>1, <1>2, <3>2, <4>2, <5>1 DEF MapStep, Switch
      <4> QED
        BY <4>1, <4>2
    <3>5. <<m, b, c>> \in MapSteps(g) /\ c \in States
      BY <1>1, <3>2, <3>4, StepsOf, SwitchType
    <3> QED
      BY <1>2, <1>6, <2>2, <3>5, RunAppend
  <2> QED
    BY <1>2, <2>1, <2>2 DEF Grown
<1> QED
  BY <1>2, <1>3, <1>5, <1>7

LEMMA ServedOwn ==
  ASSUME NEW F, NEW Q, NEW S, NEW f, NEW m, NEW F2, NEW Q2, NEW S2, Served(F, Q, S, f, m, F2, Q2, S2),
         NEW g \in Federates, m.type # "EnableReg" \/ g # f
  PROVE  OwnOK(F2, Q2, g)
<1>1. /\ f \in Federates /\ F[f].sent \in Seq(ToServer) /\ F[f].sent # <<>>
      /\ F2[f].sent = Tail(F[f].sent)
      /\ m.type = "EnableReg" => m.fed = f
  BY ServedFacts
<1>2. /\ OwnOK(F, Q, g) /\ Q[g] \in Seq(ToFederate) /\ Grown(Q[g], Q2[g], m)
      /\ F2[g].member = F[g].member /\ F2[g].known = F[g].known /\ F2[g].reg = F[g].reg
      /\ F2[g].enableSet = F[g].enableSet /\ (g # f => F2[g] = F[g])
  BY DEF Served, Protocol, Types
<1>3. m \notin On(g)
  BY <1>1 DEF On, Of
<1>4. /\ Some(Q2[g], On(g)) <=> Some(Q[g], On(g))
      /\ Single(Q[g], On(g)) => Single(Q2[g], On(g))
  BY <1>2, <1>3, GrownKeeps
<1>5. /\ Some(F2[g].sent, On(g)) => Some(F[g].sent, On(g))
      /\ Single(F[g].sent, On(g)) => Single(F2[g].sent, On(g))
  <2>1. CASE g = f
    BY <1>1, <2>1, SomeTail, SingleTail
  <2> QED
    BY <1>2, <2>1
<1> QED
  BY <1>2, <1>4, <1>5 DEF OwnOK

\* Requests and answers apart, nobody is asked and nobody answered.
LEMMA ServedToken ==
  ASSUME NEW F, NEW Q, NEW S, NEW f, NEW m, NEW F2, NEW Q2, NEW S2, Served(F, Q, S, f, m, F2, Q2, S2),
         NEW h \in Federates, NEW g \in Federates, m \notin On(g),
         m \notin AnswerOf(h) \/ Q2[g] = Q[g]
  PROVE  TokenOK(F2, Q2, h, g)
<1>1. /\ f \in Federates /\ F[f].sent \in Seq(ToServer) /\ F[f].sent # <<>>
      /\ F2[f].sent = Tail(F[f].sent)
  BY ServedFacts
<1>2. /\ TokenOK(F, Q, h, g) /\ Q[g] \in Seq(ToFederate) /\ Grown(Q[g], Q2[g], m)
      /\ Q[h] \in Seq(ToFederate) /\ Grown(Q[h], Q2[h], m)
      /\ F2[g].member = F[g].member /\ F2[g].reg = F[g].reg /\ F2[g].enableSet = F[g].enableSet
      /\ F2[h].member = F[h].member /\ (g # f => F2[g] = F[g]) /\ (h # f => F2[h] = F[h])
  BY DEF Served, Protocol, Types
<1>3. \A X : /\ Some(F2[h].sent, X) => Some(F[h].sent, X)
             /\ Single(F[h].sent, X) => Single(F2[h].sent, X)
             /\ Some(F2[g].sent, X) => Some(F[g].sent, X)
  <2>1. \A X : /\ Some(F2[f].sent, X) => Some(F[f].sent, X)
               /\ Single(F[f].sent, X) => Single(F2[f].sent, X)
    BY <1>1, SomeTail, SingleTail
  <2> QED
    BY <1>2, <2>1
<1>4. /\ Asked(F2, Q2, h, g) => Asked(F, Q, h, g)
      /\ AskedOnce(F, Q, h, g) => AskedOnce(F2, Q2, h, g)
  BY <1>2, GrownKeeps DEF Asked, AskedOnce
<1>5. /\ Answered(Q2, h, g) => Answered(Q, h, g)
      /\ Single(Q[g], AnswerOf(h)) => Single(Q2[g], AnswerOf(h))
  BY <1>2, GrownKeeps DEF Answered
<1>6. Awaited(F, Q, h, g) => Awaited(F2, Q2, h, g)
  BY <1>2, GrownKeeps DEF Awaited
<1>7. Answering(F2, h, g) => Answering(F, h, g)
  BY <1>3 DEF Answering
<1> QED
  BY <1>2, <1>3, <1>4, <1>5, <1>6, <1>7 DEF TokenOK

LEMMA ServedTypes ==
  ASSUME NEW F, NEW Q, NEW S, NEW f, NEW m, NEW F2, NEW Q2, NEW S2, Served(F, Q, S, f, m, F2, Q2, S2)
  PROVE  Types(F2, Q2, S2)
<1>1. ASSUME NEW g \in Federates PROVE IsState(F2[g]) /\ Q2[g] \in Seq(ToFederate)
  <2>1. IsState(F[g]) /\ Q[g] \in Seq(ToFederate) /\ Grown(Q[g], Q2[g], m)
        /\ IsState(F2[f]) /\ (g # f => F2[g] = F[g])
    BY DEF Served, Protocol, Types
  <2>2. Q2[g] \in Seq(ToFederate)
    BY <2>1, GrownKeeps
  <2> QED
    BY <2>1, <2>2
<1>2. IsServer(S2)
  BY DEF Served
<1> QED
  BY <1>1, <1>2 DEF Types

\* Everything but requests, answers and resignations
LEMMA ServePlain ==
  ASSUME NEW F, NEW Q, NEW S, NEW f, NEW m, NEW F2, NEW Q2, NEW S2, Served(F, Q, S, f, m, F2, Q2, S2),
         m.type \notin {"EnableReg", "EnableRegResponse"},
         m.type = "Commit" => Q2[f] = Q[f],
         m.type = "DisableReg" => \A x \in S.members \ {f} : m \in ToFederate /\ Q2[x] = Append(Q[x], m)
  PROVE  Protocol(F2, Q2, S2)
<1>1. ASSUME NEW g \in Federates PROVE SenderOK(F2, S2, g) /\ MemberOK(F2, Q2, S2, g) /\ OwnOK(F2, Q2, g)
  <2>1. SenderOK(F2, S2, g)
    BY ServedSender
  <2>2. MemberOK(F2, Q2, S2, g)
    BY ServedMember
  <2>3. OwnOK(F2, Q2, g)
    BY ServedOwn
  <2> QED
    BY <2>1, <2>2, <2>3
<1>2. ASSUME NEW h \in Federates, NEW g \in Federates
      PROVE  ReceiverOK(F2, Q2, S2, h, g) /\ TokenOK(F2, Q2, h, g) /\ KnownOK(F2, Q2, S2, h, g)
  <2>1. ReceiverOK(F2, Q2, S2, h, g)
    BY ServedReceiver
  <2>2. m \notin On(g) /\ m \notin AnswerOf(h)
    BY DEF On, Of, AnswerOf
  <2>3. TokenOK(F2, Q2, h, g)
    BY <2>2, ServedToken
  <2>4. KnownOK(F2, Q2, S2, h, g)
    BY ServedKnown
  <2> QED
    BY <2>1, <2>3, <2>4
<1> QED
  BY <1>1, <1>2, ServedTypes DEF Protocol

\* f's answer to x goes to x alone, or nowhere.
LEMMA ServeAnswer ==
  ASSUME NEW F, NEW Q, NEW S, NEW f, NEW m, NEW F2, NEW Q2, NEW S2, Served(F, Q, S, f, m, F2, Q2, S2),
         m.type = "EnableRegResponse", \A x \in Federates : x # m.to => Q2[x] = Q[x]
  PROVE  Protocol(F2, Q2, S2)
<1>0. /\ f \in Federates /\ F[f].sent \in Seq(ToServer) /\ F[f].sent # <<>>
      /\ m = Head(F[f].sent) /\ F2[f].sent = Tail(F[f].sent) /\ m \in Messages
      /\ m.from = f /\ m.to # f
  BY ServedFacts
<1>1. ASSUME NEW g \in Federates PROVE SenderOK(F2, S2, g) /\ MemberOK(F2, Q2, S2, g) /\ OwnOK(F2, Q2, g)
  <2>1. SenderOK(F2, S2, g)
    BY ServedSender
  <2>2. MemberOK(F2, Q2, S2, g)
    BY <1>0, ServedMember
  <2>3. OwnOK(F2, Q2, g)
    BY ServedOwn
  <2> QED
    BY <2>1, <2>2, <2>3
<1>2. ASSUME NEW h \in Federates, NEW g \in Federates
      PROVE  ReceiverOK(F2, Q2, S2, h, g) /\ TokenOK(F2, Q2, h, g) /\ KnownOK(F2, Q2, S2, h, g)
  <2>1. ReceiverOK(F2, Q2, S2, h, g)
    BY ServedReceiver
  <2>2. m \notin On(g) /\ (m \in AnswerOf(h) <=> h = f) /\ (m \in AnswerTo(g) <=> g = m.to)
    BY <1>0 DEF On, Of, AnswerOf, AnswerTo
  <2>3. TokenOK(F2, Q2, h, g)
    <3>1. CASE h # f \/ g # m.to
      BY <2>2, <3>1, ServedToken
    <3>2. CASE h = f /\ g = m.to /\ F2[g].member # "resigned"
      <4>1. /\ TokenOK(F, Q, f, g) /\ Q[g] \in Seq(ToFederate) /\ Grown(Q[g], Q2[g], m)
            /\ Q[f] \in Seq(ToFederate) /\ Grown(Q[f], Q2[f], m)
            /\ F2[g] = F[g] /\ F2[f].member = F[f].member
        BY <1>0, <3>2 DEF Served, Protocol, Types
      <4>2. Some(F[f].sent, AnswerTo(g))
        BY <1>0, <2>2, <3>2, SomeTail
      <4>3. Answering(F, f, g)
        BY <4>2 DEF Answering
      <4>4. /\ F[g].reg = "EnablePending" /\ Awaited(F, Q, f, g) /\ ~Some(F[g].sent, On(g))
            /\ AskedOnce(F, Q, f, g) /\ Single(F[f].sent, AnswerTo(g)) /\ Single(Q[g], AnswerOf(f))
            /\ ~Asked(F, Q, f, g) /\ ~Answered(Q, f, g)
        BY <1>0, <3>2, <4>1, <4>3 DEF TokenOK
      <4>5. ~Some(F2[f].sent, AnswerTo(g)) /\ Single(F2[f].sent, AnswerTo(g))
        BY <1>0, <2>2, <3>2, <4>4, SingleTail
      <4>6. ~Answering(F2, f, g)
        BY <4>5 DEF Answering
      <4>7. ~Asked(F2, Q2, f, g) /\ AskedOnce(F2, Q2, f, g)
        BY <2>2, <4>1, <4>4, GrownKeeps DEF Asked, AskedOnce
      <4>8. Single(Q2[g], AnswerOf(f))
        BY <4>1, <4>4, SingleAppend DEF Grown, Answered
      <4>9. Awaited(F2, Q2, f, g)
        BY <4>1, <4>4, GrownKeeps DEF Awaited
      <4> QED
        BY <3>2, <4>1, <4>4, <4>5, <4>6, <4>7, <4>8, <4>9 DEF TokenOK
    <3>3. CASE F2[g].member = "resigned"
      BY <3>3 DEF TokenOK
    <3> QED
      BY <3>1, <3>2, <3>3
  <2>4. KnownOK(F2, Q2, S2, h, g)
    BY ServedKnown
  <2> QED
    BY <2>1, <2>3, <2>4
<1> QED
  BY <1>1, <1>2, ServedTypes DEF Protocol

\* f's request goes to all members, itself included; each is asked from now on.
LEMMA ServeRequest ==
  ASSUME NEW F, NEW Q, NEW S, NEW f, NEW m, NEW F2, NEW Q2, NEW S2, Served(F, Q, S, f, m, F2, Q2, S2),
         m.type = "EnableReg", m \in ToFederate, \A x \in S.members : Q2[x] = Append(Q[x], m)
  PROVE  Protocol(F2, Q2, S2)
<1>0. /\ f \in Federates /\ f \in S.members /\ F[f].sent \in Seq(ToServer) /\ F[f].sent # <<>>
      /\ m = Head(F[f].sent) /\ F2[f].sent = Tail(F[f].sent) /\ m \in Messages
      /\ m.fed = f /\ Q2[f] = Append(Q[f], m)
  BY ServedFacts
<1>a. \A g : (m \in On(g) <=> g = f) /\ m \notin AnswerOf(g)
  BY <1>0 DEF On, Of, AnswerOf
<1>b. /\ OwnOK(F, Q, f) /\ Q[f] \in Seq(ToFederate)
      /\ F2[f].member = F[f].member /\ F2[f].known = F[f].known /\ F2[f].reg = F[f].reg
      /\ F2[f].enableSet = F[f].enableSet
  BY <1>0 DEF Served, Protocol, Types
<1>c. Some(F[f].sent, On(f))
  BY <1>0, <1>a, SomeTail
<1>d. F[f].member # "resigned" =>
        /\ F[f].reg = "EnablePending" /\ F[f].known \cup {f} \subseteq F[f].enableSet
        /\ ~Some(Q[f], On(f)) /\ Single(Q[f], On(f))
        /\ ~Some(F2[f].sent, On(f)) /\ Single(F2[f].sent, On(f))
  BY <1>0, <1>a, <1>b, <1>c, SingleTail DEF OwnOK
<1>1. ASSUME NEW g \in Federates PROVE SenderOK(F2, S2, g) /\ MemberOK(F2, Q2, S2, g) /\ OwnOK(F2, Q2, g)
  <2>1. SenderOK(F2, S2, g)
    BY ServedSender
  <2>2. MemberOK(F2, Q2, S2, g)
    BY ServedMember
  <2>3. OwnOK(F2, Q2, g)
    <3>1. CASE g # f
      BY <3>1, ServedOwn
    <3>2. CASE g = f
      <4>1. F[f].member # "resigned" => Single(Q2[f], On(f))
        BY <1>0, <1>b, <1>d, SingleAppend
      <4> QED
        BY <3>2, <1>b, <1>d, <4>1 DEF OwnOK
    <3> QED
      BY <3>1, <3>2
  <2> QED
    BY <2>1, <2>2, <2>3
<1>2. ASSUME NEW h \in Federates, NEW g \in Federates
      PROVE  ReceiverOK(F2, Q2, S2, h, g) /\ TokenOK(F2, Q2, h, g) /\ KnownOK(F2, Q2, S2, h, g)
  <2>1. ReceiverOK(F2, Q2, S2, h, g)
    BY ServedReceiver
  <2>3. TokenOK(F2, Q2, h, g)
    <3>1. CASE g # f
      BY <1>a, <3>1, ServedToken
    <3>2. CASE g = f /\ h # f /\ F[f].member # "resigned"
      <4>1. /\ TokenOK(F, Q, h, f) /\ KnownOK(F, Q, S, h, f) /\ MemberOK(F, Q, S, h)
            /\ Q[h] \in Seq(ToFederate) /\ Grown(Q[h], Q2[h], m)
            /\ F2[h] = F[h] /\ (h \notin S.members => Q2[h] = Q[h])
        BY <1>0, <3>2 DEF Served, Protocol, Types
      <4>2. ~Asked(F, Q, h, f) /\ ~Answering(F, h, f) /\ ~Answered(Q, h, f)
        BY <1>c, <3>2, <4>1 DEF TokenOK
      <4>3. /\ AskedOnce(F, Q, h, f) /\ Single(F[h].sent, AnswerTo(f)) /\ Single(Q[f], AnswerOf(h))
        BY <3>2, <4>1 DEF TokenOK
      <4>4. ~Answering(F2, h, f) /\ ~Answered(Q2, h, f) /\ Single(Q2[f], AnswerOf(h))
        BY <1>0, <1>a, <1>b, <4>1, <4>2, <4>3, SomeAppend, SingleAppend DEF Answering, Answered
      <4>5. AskedOnce(F2, Q2, h, f)
        <5>1. CASE Q2[h] = Q[h]
          BY <4>1, <4>3, <5>1 DEF AskedOnce
        <5>2. CASE Q2[h] = Append(Q[h], m)
          <6>1. F[h].member = "in" => Single(Q2[h], On(f))
            BY <4>1, <4>2, <4>3, <5>2, SingleAppend DEF Asked, AskedOnce
          <6>2. F[h].member = "joining" => SingleAfter(Q2[h], Typed("JoinResponse"), On(f))
            BY <4>1, <4>2, <4>3, <5>2, SingleAfterAppend DEF Asked, AskedOnce
          <6> QED
            BY <4>1, <6>1, <6>2 DEF AskedOnce
        <5> QED
          BY <4>1, <5>1, <5>2 DEF Grown
      <4>6. Asked(F2, Q2, h, f) => Awaited(F2, Q2, h, f)
        <5>1. CASE h \notin S.members
          BY <4>1, <4>2, <5>1 DEF Asked
        <5>2. CASE h \in F[f].known
          BY <1>b, <1>d, <3>2, <5>2 DEF Awaited
        <5>3. CASE Some(Q[f], Of("JoinNotify", h))
          <6>1. Ahead(Q[f], Of("JoinNotify", h), On(f))
            BY <1>d, <3>2, <5>3 DEF Some, Ahead
          <6>2. Ahead(Q2[f], Of("JoinNotify", h), On(f))
            BY <1>0, <1>b, <6>1, AheadAppend
          <6> QED
            BY <1>b, <1>d, <3>2, <6>2 DEF Awaited
        <5> QED
          BY <1>0, <3>2, <4>1, <5>1, <5>2, <5>3 DEF KnownOK
      <4> QED
        BY <1>b, <1>d, <3>2, <4>1, <4>3, <4>4, <4>5, <4>6 DEF TokenOK
    <3>3. CASE h = g \/ F2[g].member = "resigned"
      BY <3>3 DEF TokenOK
    <3> QED
      BY <1>b, <3>1, <3>2, <3>3
  <2>4. KnownOK(F2, Q2, S2, h, g)
    BY ServedKnown
  <2> QED
    BY <2>1, <2>3, <2>4
<1> QED
  BY <1>1, <1>2, ServedTypes DEF Protocol

\* What a member is told when f has resigned
ResignNotify(f) == [type |-> "ResignNotify", fed |-> f]

Told(q, f, regulates) ==
  IF regulates THEN Append(Append(q, DisableRequest(f)), ResignNotify(f)) ELSE Append(q, ResignNotify(f))

LEMMA ResignMessages ==
  ASSUME NEW f \in Federates
  PROVE  /\ DisableRequest(f) \in ToFederate /\ ResignNotify(f) \in ToFederate
         /\ \A g : DisableRequest(f) \notin On(g) /\ ResignNotify(f) \notin On(g)
         /\ \A g : DisableRequest(f) \in Off(g) <=> g = f
         /\ \A g : ResignNotify(f) \in Off(g) <=> g = f
         /\ \A g : DisableRequest(f) \notin AnswerOf(g) /\ ResignNotify(f) \notin AnswerOf(g)
         /\ \A g : DisableRequest(f) \notin Of("Commit", g) /\ ResignNotify(f) \notin Of("Commit", g)
         /\ \A g : DisableRequest(f) \notin Of("JoinNotify", g) /\ ResignNotify(f) \notin Of("JoinNotify", g)
         /\ \A g : DisableRequest(f) \notin Of("ResignNotify", g)
         /\ \A g : ResignNotify(f) \in Of("ResignNotify", g) <=> g = f
<1>1. DisableRequest(f) \in ToFederate /\ ResignNotify(f) \in ToFederate
  BY DEF DisableRequest, ResignNotify, ToFederate, Notices
<1>2. DisableRequest(f) \in Messages /\ ResignNotify(f) \in Messages
  BY <1>1, MessageIn
<1>3. /\ DisableRequest(f).type = "DisableReg" /\ DisableRequest(f).fed = f
      /\ ResignNotify(f).type = "ResignNotify" /\ ResignNotify(f).fed = f
  BY DEF DisableRequest, ResignNotify
<1> QED
  BY <1>1, <1>2, <1>3 DEF On, Off, Of, AnswerOf

LEMMA ToldKeeps ==
  ASSUME NEW q \in Seq(ToFederate), NEW f \in Federates, NEW regulates \in BOOLEAN, NEW p,
         p = q \/ p = Told(q, f, regulates)
  PROVE  /\ p \in Seq(ToFederate)
         /\ \A X : DisableRequest(f) \notin X /\ ResignNotify(f) \notin X =>
                     (Some(p, X) <=> Some(q, X)) /\ (Single(q, X) => Single(p, X))
         /\ \A X, Y : Ahead(q, X, Y) => Ahead(p, X, Y)
         /\ \A X, Y : DisableRequest(f) \notin X /\ ResignNotify(f) \notin X =>
                        /\ SomeAfter(p, Y, X) <=> SomeAfter(q, Y, X)
                        /\ SingleAfter(q, Y, X) => SingleAfter(p, Y, X)
<1>0. DisableRequest(f) \in ToFederate /\ ResignNotify(f) \in ToFederate
  BY ResignMessages
<1>1. PICK u : Grown(q, u, DisableRequest(f)) /\ Grown(u, p, ResignNotify(f))
  BY <1>0 DEF Grown, Told
<1>2. /\ u \in Seq(ToFederate)
      /\ \A X : DisableRequest(f) \notin X => (Some(u, X) <=> Some(q, X)) /\ (Single(q, X) => Single(u, X))
      /\ \A X, Y : Ahead(q, X, Y) => Ahead(u, X, Y)
      /\ \A X, Y : DisableRequest(f) \notin X => /\ SomeAfter(u, Y, X) <=> SomeAfter(q, Y, X)
                                                 /\ SingleAfter(q, Y, X) => SingleAfter(u, Y, X)
  BY <1>1, GrownKeeps
<1>3. /\ p \in Seq(ToFederate)
      /\ \A X : ResignNotify(f) \notin X => (Some(p, X) <=> Some(u, X)) /\ (Single(u, X) => Single(p, X))
      /\ \A X, Y : Ahead(u, X, Y) => Ahead(p, X, Y)
      /\ \A X, Y : ResignNotify(f) \notin X => /\ SomeAfter(p, Y, X) <=> SomeAfter(u, Y, X)
                                               /\ SingleAfter(u, Y, X) => SingleAfter(p, Y, X)
  BY <1>1, <1>2, GrownKeeps
<1> QED
  BY <1>2, <1>3

\* The server takes the resignation of f.
Resigned(F, Q, S, f, F2, Q2, S2) ==
  /\ Protocol(F, Q, S) /\ f \in Federates
  /\ F[f].sent # <<>> /\ Head(F[f].sent).type = "Resign"
  /\ \A x \in Federates \ {f} : F2[x] = F[x]
  /\ IsState(F2[f]) /\ F2[f].sent = Tail(F[f].sent) /\ F2[f].member = F[f].member
  /\ F2[f].reg = F[f].reg /\ F2[f].con = F[f].con /\ F2[f].bounds = F[f].bounds
  /\ Q2[f] = <<>>
  /\ \A x \in Federates \ {f} :
       Q2[x] = IF x \in S.members THEN Told(Q[x], f, f \in S.regulating) ELSE Q[x]
  /\ IsServer(S2) /\ S2.members = S.members \ {f} /\ S2.regulating = S.regulating \ {f}
  /\ S2.constrained = S.constrained \ {f}

LEMMA ResignedFacts ==
  ASSUME NEW F, NEW Q, NEW S, NEW f, NEW F2, NEW Q2, NEW S2, Resigned(F, Q, S, f, F2, Q2, S2)
  PROVE  /\ f \in Federates /\ f \in S.members
         /\ F2[f].sent = <<>> /\ F2[f].member = "resigned" /\ F2[f].reg = "Disabled" /\ F2[f].con = "Disabled"
<1>1. /\ f \in Federates /\ F[f].sent # <<>> /\ Head(F[f].sent).type = "Resign" /\ F2[f].sent = Tail(F[f].sent)
      /\ Protocol(F, Q, S) /\ F2[f].member = F[f].member /\ F2[f].reg = F[f].reg /\ F2[f].con = F[f].con
  BY DEF Resigned
<1>2. F[f].sent \in Seq(ToServer) /\ SenderOK(F, S, f)
  BY <1>1 DEF Protocol, Types, IsState
<1>3. f \in S.members
  BY <1>1, <1>2 DEF SenderOK
<1>4. PICK m : m = Head(F[f].sent)
  OBVIOUS
<1>5. PICK a : a = Switch(F[f].member = "resigned" => f \in S.members)
  OBVIOUS
<1>6. PICK b : b = Switch(F[f].member # "resigned")
  OBVIOUS
<1>7. PICK c \in States : <<m, a, c>> \in OpenSteps /\ Run(Tail(F[f].sent), OpenSteps, c, b)
  <2>1. Run(F[f].sent, OpenSteps, a, b)
    BY <1>2, <1>5, <1>6 DEF SenderOK
  <2> QED
    BY <1>1, <1>2, <1>4, <2>1, RunTail
<1>8. c = "off"
  <2>1. OpenStep(m, a, c)
    BY <1>7, StepsOf
  <2> QED
    BY <1>1, <1>4, <2>1 DEF OpenStep, Switch
<1>9. Tail(F[f].sent) \in Seq(ToServer)
  BY <1>1, <1>2, TailAt
<1>10. Tail(F[f].sent) = <<>>
  <2> SUFFICES ASSUME Tail(F[f].sent) # <<>> PROVE FALSE
    OBVIOUS
  <2>1. PICK d \in States : <<Head(Tail(F[f].sent)), c, d>> \in OpenSteps
    BY <1>7, <1>9, RunTail
  <2>2. OpenStep(Head(Tail(F[f].sent)), c, d)
    BY <2>1, StepsOf
  <2> QED
    BY <1>8, <2>2 DEF OpenStep
<1>11. F[f].member = "resigned"
  <2>1. Run(<<>>, OpenSteps, "off", b) /\ "off" \in States
    BY <1>7, <1>8, <1>10 DEF States
  <2>2. b = "off"
    BY <2>1, EmptyQueue
  <2> QED
    BY <1>6, <2>2 DEF Switch
<1>12. F[f].reg = "Disabled"
  <2>1. PICK u : u = Switch(f \in S.regulating)
    OBVIOUS
  <2>2. PICK v : v = Switch(F[f].reg # "Disabled")
    OBVIOUS
  <2>3. Run(F[f].sent, RegSteps(f), u, v)
    BY <1>2, <2>1, <2>2 DEF SenderOK
  <2>4. PICK w \in States : <<m, u, w>> \in RegSteps(f) /\ Run(<<>>, RegSteps(f), w, v)
    BY <1>1, <1>2, <1>4, <1>10, <2>3, RunTail
  <2>5. RegStep(f, m, u, w)
    BY <2>4, StepsOf
  <2>6. w = "off"
    BY <1>1, <1>4, <2>5 DEF RegStep
  <2>7. w = v
    BY <2>4, EmptyQueue
  <2> QED
    BY <2>2, <2>6, <2>7 DEF Switch
<1>13. F[f].con = "Disabled"
  <2>1. PICK u : u = Switch(f \in S.constrained)
    OBVIOUS
  <2>2. PICK v : v = Switch(F[f].con # "Disabled")
    OBVIOUS
  <2>3. Run(F[f].sent, ConSteps, u, v)
    BY <1>2, <2>1, <2>2 DEF SenderOK
  <2>4. PICK w \in States : <<m, u, w>> \in ConSteps /\ Run(<<>>, ConSteps, w, v)
    BY <1>1, <1>2, <1>4, <1>10, <2>3, RunTail
  <2>5. ConStep(m, u, w)
    BY <2>4, StepsOf
  <2>6. w = "off"
    BY <1>1, <1>4, <2>5 DEF ConStep
  <2>7. w = v
    BY <2>4, EmptyQueue
  <2> QED
    BY <2>2, <2>6, <2>7 DEF Switch
<1> QED
  BY <1>1, <1>3, <1>10, <1>11, <1>12, <1>13

\* The queues of the others, after f has resigned
LEMMA ResignedQueues ==
  ASSUME NEW F, NEW Q, NEW S, NEW f, NEW F2, NEW Q2, NEW S2, Resigned(F, Q, S, f, F2, Q2, S2),
         NEW g \in Federates \ {f}
  PROVE  /\ Q[g] \in Seq(ToFederate) /\ Q2[g] \in Seq(ToFederate)
         /\ \A X : DisableRequest(f) \notin X /\ ResignNotify(f) \notin X =>
                     (Some(Q2[g], X) <=> Some(Q[g], X)) /\ (Single(Q[g], X) => Single(Q2[g], X))
         /\ \A X, Y : Ahead(Q[g], X, Y) => Ahead(Q2[g], X, Y)
         /\ \A X, Y : DisableRequest(f) \notin X /\ ResignNotify(f) \notin X =>
                        /\ SomeAfter(Q2[g], Y, X) <=> SomeAfter(Q[g], Y, X)
                        /\ SingleAfter(Q[g], Y, X) => SingleAfter(Q2[g], Y, X)
<1>1. f \in Federates /\ Q[g] \in Seq(ToFederate) /\ (f \in S.regulating) \in BOOLEAN
  BY DEF Resigned, Protocol, Types
<1>2. Q2[g] = Q[g] \/ Q2[g] = Told(Q[g], f, f \in S.regulating)
  BY DEF Resigned
<1> QED
  BY <1>1, <1>2, ToldKeeps

LEMMA ResignedOne ==
  ASSUME NEW F, NEW Q, NEW S, NEW f, NEW F2, NEW Q2, NEW S2, Resigned(F, Q, S, f, F2, Q2, S2),
         NEW g \in Federates
  PROVE  /\ IsState(F2[g]) /\ Q2[g] \in Seq(ToFederate)
         /\ SenderOK(F2, S2, g) /\ MemberOK(F2, Q2, S2, g) /\ OwnOK(F2, Q2, g)
<1>1. /\ f \in Federates /\ f \in S.members
      /\ F2[f].sent = <<>> /\ F2[f].member = "resigned" /\ F2[f].reg = "Disabled" /\ F2[f].con = "Disabled"
  BY ResignedFacts
<1>2. /\ IsState(F2[f]) /\ F2[f].bounds = F[f].bounds /\ Q2[f] = <<>>
      /\ S2.members = S.members \ {f} /\ S2.regulating = S.regulating \ {f}
      /\ S2.constrained = S.constrained \ {f}
      /\ MemberOK(F, Q, S, f)
      /\ SenderOK(F, S, g) /\ MemberOK(F, Q, S, g) /\ OwnOK(F, Q, g) /\ IsState(F[g])
      /\ (g # f => F2[g] = F[g])
      /\ (g # f /\ g \notin S.members => Q2[g] = Q[g])
  BY DEF Resigned, Protocol, Types
<1>3. CASE g = f
  <2>1. SenderOK(F2, S2, f)
    <3>1. /\ Switch(f \in S2.regulating) = "off" /\ Switch(f \in S2.constrained) = "off"
          /\ Switch(F2[f].reg # "Disabled") = "off" /\ Switch(F2[f].con # "Disabled") = "off"
          /\ Switch(F2[f].member # "resigned") = "off"
          /\ Switch(F2[f].member = "resigned" => f \in S2.members) = "off" /\ "off" \in States
      BY <1>1, <1>2 DEF Switch, States
    <3>2. \A D : Run(<<>>, D, "off", "off")
      BY <3>1, EmptyQueue
    <3> QED
      BY <1>1, <3>1, <3>2 DEF SenderOK
  <2>2. \A X : ~Some(<<>>, X)
    BY DEF Some
  <2>3. MemberOK(F2, Q2, S2, f)
    BY <1>1, <1>2, <2>2 DEF MemberOK
  <2>4. OwnOK(F2, Q2, f)
    BY <1>1 DEF OwnOK
  <2>5. <<>> \in Seq(ToFederate)
    OBVIOUS
  <2> QED
    BY <1>2, <1>3, <2>1, <2>3, <2>4, <2>5
<1>4. CASE g # f
  <2>1. F2[g] = F[g] /\ IsState(F2[g])
    BY <1>2, <1>4
  <2>2. /\ Q2[g] \in Seq(ToFederate)
        /\ \A X : DisableRequest(f) \notin X /\ ResignNotify(f) \notin X =>
                     (Some(Q2[g], X) <=> Some(Q[g], X)) /\ (Single(Q[g], X) => Single(Q2[g], X))
    BY <1>4, ResignedQueues
  <2>3. /\ g \in S2.members <=> g \in S.members
        /\ g \in S2.regulating <=> g \in S.regulating
        /\ g \in S2.constrained <=> g \in S.constrained
    BY <1>2, <1>4
  <2>4. SenderOK(F2, S2, g)
    <3>1. /\ Switch(g \in S2.regulating) = Switch(g \in S.regulating)
          /\ Switch(g \in S2.constrained) = Switch(g \in S.constrained)
          /\ Switch(F[g].member = "resigned" => g \in S2.members) =
             Switch(F[g].member = "resigned" => g \in S.members)
      BY <2>3 DEF Switch
    <3> QED
      BY <1>2, <2>1, <2>3, <3>1 DEF SenderOK
  <2>5. /\ Some(Q2[g], Of("Commit", g)) <=> Some(Q[g], Of("Commit", g))
        /\ Some(Q2[g], AnswerOf(g)) <=> Some(Q[g], AnswerOf(g))
        /\ Some(Q2[g], On(g)) <=> Some(Q[g], On(g))
        /\ Single(Q[g], On(g)) => Single(Q2[g], On(g))
    BY <1>1, <2>2, ResignMessages
  <2>6. MemberOK(F2, Q2, S2, g)
    BY <1>2, <1>4, <2>1, <2>3, <2>5 DEF MemberOK
  <2>7. OwnOK(F2, Q2, g)
    BY <1>2, <2>1, <2>5 DEF OwnOK
  <2> QED
    BY <2>1, <2>2, <2>4, <2>6, <2>7
<1> QED
  BY <1>3, <1>4

\* The others forget f: the end of its regulation comes before the end of its membership.
LEMMA ResignedReceiver ==
  ASSUME NEW F, NEW Q, NEW S, NEW f, NEW F2, NEW Q2, NEW S2, Resigned(F, Q, S, f, F2, Q2, S2),
         NEW h \in Federates, NEW g \in Federates
  PROVE  ReceiverOK(F2, Q2, S2, h, g)
<1>1. f \in Federates /\ f \in S.members /\ F2[f].member = "resigned"
  BY ResignedFacts
<1> SUFFICES ASSUME h # g, F2[h].member # "resigned"
             PROVE  Run(Q2[h], MapSteps(g), Switch(g \in DOMAIN F2[h].bounds), Switch(h \in S2.members /\ g \in S2.regulating))
  BY DEF ReceiverOK
<1>2. h # f
  BY <1>1
<1>3. /\ ReceiverOK(F, Q, S, h, g) /\ Q[h] \in Seq(ToFederate) /\ F2[h] = F[h]
      /\ S2.members = S.members \ {f} /\ S2.regulating = S.regulating \ {f}
      /\ Q2[h] = IF h \in S.members THEN Told(Q[h], f, f \in S.regulating) ELSE Q[h]
  BY <1>2 DEF Resigned, Protocol, Types
<1>4. PICK a : a = Switch(g \in DOMAIN F[h].bounds)
  OBVIOUS
<1>5. PICK b : b = Switch(h \in S.members /\ g \in S.regulating)
  OBVIOUS
<1>6. PICK c : c = Switch(h \in S2.members /\ g \in S2.regulating)
  OBVIOUS
<1>7. Run(Q[h], MapSteps(g), a, b) /\ b \in States /\ c \in States
  BY <1>3, <1>4, <1>5, <1>6, SwitchType DEF ReceiverOK
<1>8. /\ DisableRequest(f) \in ToFederate /\ ResignNotify(f) \in ToFederate
      /\ DisableRequest(f) \in Messages /\ ResignNotify(f) \in Messages
  BY <1>1, ResignMessages, MessageIn
<1>9. Run(Q2[h], MapSteps(g), a, c)
  <2>1. CASE h \notin S.members
    <3>1. c = b
      BY <1>3, <1>5, <1>6, <2>1 DEF Switch
    <3> QED
      BY <1>3, <1>7, <2>1, <3>1
  <2>2. CASE h \in S.members /\ g # f
    <3>1. c = b
      BY <1>2, <1>3, <1>5, <1>6, <2>2 DEF Switch
    <3>2. MapStep(g, DisableRequest(f), b, b) /\ MapStep(g, ResignNotify(f), b, b)
      BY <1>1, <2>2, ResignMessages DEF MapStep
    <3>3. <<DisableRequest(f), b, b>> \in MapSteps(g) /\ <<ResignNotify(f), b, b>> \in MapSteps(g)
      BY <1>7, <1>8, <3>2, StepsOf
    <3>4. Run(Append(Q[h], ResignNotify(f)), MapSteps(g), a, b)
      BY <1>3, <1>7, <1>8, <3>3, RunAppend
    <3>5. Run(Append(Q[h], DisableRequest(f)), MapSteps(g), a, b) /\ Append(Q[h], DisableRequest(f)) \in Seq(ToFederate)
      BY <1>3, <1>7, <1>8, <3>3, RunAppend, AppendAt
    <3>6. Run(Append(Append(Q[h], DisableRequest(f)), ResignNotify(f)), MapSteps(g), a, b)
      BY <1>7, <1>8, <3>3, <3>5, RunAppend
    <3> QED
      BY <1>3, <2>2, <3>1, <3>4, <3>6 DEF Told
  <2>3. CASE h \in S.members /\ g = f
    <3>1. c = "off" /\ "off" \in States
      BY <1>3, <1>6, <2>3 DEF Switch, States
    <3>2. MapStep(f, ResignNotify(f), "off", "off") /\ MapStep(f, DisableRequest(f), b, "off")
      BY <1>1, ResignMessages DEF MapStep
    <3>3. <<DisableRequest(f), b, "off">> \in MapSteps(f) /\ <<ResignNotify(f), "off", "off">> \in MapSteps(f)
      BY <1>7, <1>8, <3>1, <3>2, StepsOf
    <3>4. CASE f \in S.regulating
      <4>1. Run(Append(Q[h], DisableRequest(f)), MapSteps(f), a, "off") /\ Append(Q[h], DisableRequest(f)) \in Seq(ToFederate)
        BY <1>3, <1>7, <1>8, <2>3, <3>1, <3>3, RunAppend, AppendAt
      <4>2. Run(Append(Append(Q[h], DisableRequest(f)), ResignNotify(f)), MapSteps(f), a, "off")
        BY <1>8, <3>1, <3>3, <4>1, RunAppend
      <4> QED
        BY <1>3, <2>3, <3>1, <3>4, <4>2 DEF Told
    <3>5. CASE f \notin S.regulating
      <4>1. b = "off"
        BY <1>5, <2>3, <3>5 DEF Switch
      <4>2. Run(Append(Q[h], ResignNotify(f)), MapSteps(f), a, "off")
        BY <1>3, <1>7, <1>8, <2>3, <3>1, <3>3, <4>1, RunAppend
      <4> QED
        BY <1>3, <2>3, <3>1, <3>5, <4>2 DEF Told
    <3> QED
      BY <3>4, <3>5
  <2> QED
    BY <2>1, <2>2, <2>3
<1> QED
  BY <1>3, <1>4, <1>6, <1>9

LEMMA ServeResigned ==
  ASSUME NEW F, NEW Q, NEW S, NEW f, NEW F2, NEW Q2, NEW S2, Resigned(F, Q, S, f, F2, Q2, S2)
  PROVE  Protocol(F2, Q2, S2)
<1>1. /\ f \in Federates /\ f \in S.members
      /\ F2[f].sent = <<>> /\ F2[f].member = "resigned"
  BY ResignedFacts
<1>2. /\ Q2[f] = <<>> /\ S2.members = S.members \ {f} /\ IsServer(S2)
      /\ \A x \in Federates \ {f} : F2[x] = F[x]
      /\ \A h, g \in Federates : TokenOK(F, Q, h, g) /\ KnownOK(F, Q, S, h, g)
      /\ \A x \in Federates \ {f} :
           Q2[x] = IF x \in S.members THEN Told(Q[x], f, f \in S.regulating) ELSE Q[x]
  BY DEF Resigned, Protocol
<1>3. ASSUME NEW h \in Federates, NEW g \in Federates PROVE TokenOK(F2, Q2, h, g)
  <2>1. CASE g = f
    BY <1>1, <2>1 DEF TokenOK
  <2>2. CASE g # f
    <3>1. F2[g] = F[g] /\ TokenOK(F, Q, h, g)
      BY <1>2, <2>2
    <3>2. /\ Some(Q2[g], AnswerOf(h)) <=> Some(Q[g], AnswerOf(h))
          /\ Single(Q[g], AnswerOf(h)) => Single(Q2[g], AnswerOf(h))
          /\ \A X, Y : Ahead(Q[g], X, Y) => Ahead(Q2[g], X, Y)
      <4>1. /\ \A X : DisableRequest(f) \notin X /\ ResignNotify(f) \notin X =>
                     (Some(Q2[g], X) <=> Some(Q[g], X)) /\ (Single(Q[g], X) => Single(Q2[g], X))
            /\ \A X, Y : Ahead(Q[g], X, Y) => Ahead(Q2[g], X, Y)
            /\ \A X, Y : DisableRequest(f) \notin X /\ ResignNotify(f) \notin X =>
                        /\ SomeAfter(Q2[g], Y, X) <=> SomeAfter(Q[g], Y, X)
                        /\ SingleAfter(Q[g], Y, X) => SingleAfter(Q2[g], Y, X)
        BY <2>2, ResignedQueues
      <4>2. DisableRequest(f) \notin AnswerOf(h) /\ ResignNotify(f) \notin AnswerOf(h)
        BY <1>1, ResignMessages
      <4> QED
        BY <4>1, <4>2
    <3>3. Awaited(F, Q, h, g) => Awaited(F2, Q2, h, g)
      BY <3>1, <3>2 DEF Awaited
    <3>4. Answered(Q2, h, g) <=> Answered(Q, h, g)
      BY <3>2 DEF Answered
    <3>5. CASE h = f
      <4>1. ~Asked(F2, Q2, h, g) /\ AskedOnce(F2, Q2, h, g)
        BY <1>1, <3>5 DEF Asked, AskedOnce
      <4>2. ~Answering(F2, h, g) /\ Single(F2[h].sent, AnswerTo(g))
        BY <1>1, <3>5 DEF Answering, Some, Single
      <4> QED
        BY <3>1, <3>2, <3>3, <3>4, <4>1, <4>2 DEF TokenOK
    <3>6. CASE h # f
      <4>1. F2[h] = F[h]
        BY <1>2, <3>6
      <4>2. /\ Some(Q2[h], On(g)) <=> Some(Q[h], On(g))
            /\ Single(Q[h], On(g)) => Single(Q2[h], On(g))
            /\ SomeAfter(Q2[h], Typed("JoinResponse"), On(g)) <=> SomeAfter(Q[h], Typed("JoinResponse"), On(g))
            /\ SingleAfter(Q[h], Typed("JoinResponse"), On(g)) => SingleAfter(Q2[h], Typed("JoinResponse"), On(g))
        BY <1>1, <3>6, ResignedQueues, ResignMessages
      <4>3. /\ Asked(F2, Q2, h, g) <=> Asked(F, Q, h, g)
            /\ AskedOnce(F, Q, h, g) => AskedOnce(F2, Q2, h, g)
            /\ Answering(F2, h, g) <=> Answering(F, h, g)
        BY <4>1, <4>2 DEF Asked, AskedOnce, Answering
      <4> QED
        BY <3>1, <3>2, <3>3, <3>4, <4>1, <4>3 DEF TokenOK
    <3> QED
      BY <3>5, <3>6
  <2> QED
    BY <2>1, <2>2
<1>4. ASSUME NEW h \in Federates, NEW g \in Federates PROVE KnownOK(F2, Q2, S2, h, g)
  <2>1. CASE g = f
    <3>1. ~Some(Q2[g], Of("ResignNotify", h)) /\ ~SomeAfter(Q2[g], Of("ResignNotify", h), AnswerOf(h))
      BY <1>2, <2>1 DEF Some, SomeAfter
    <3> QED
      BY <1>2, <2>1, <3>1 DEF KnownOK
  <2>2. CASE g # f
    <3>1. F2[g] = F[g] /\ KnownOK(F, Q, S, h, g)
      BY <1>2, <2>2
    <3>2. /\ SomeAfter(Q2[g], Of("ResignNotify", h), AnswerOf(h)) <=> SomeAfter(Q[g], Of("ResignNotify", h), AnswerOf(h))
          /\ Some(Q2[g], Of("JoinNotify", h)) <=> Some(Q[g], Of("JoinNotify", h))
          /\ h # f => (Some(Q2[g], Of("ResignNotify", h)) <=> Some(Q[g], Of("ResignNotify", h)))
      <4>1. /\ \A X : DisableRequest(f) \notin X /\ ResignNotify(f) \notin X =>
                     (Some(Q2[g], X) <=> Some(Q[g], X)) /\ (Single(Q[g], X) => Single(Q2[g], X))
            /\ \A X, Y : Ahead(Q[g], X, Y) => Ahead(Q2[g], X, Y)
            /\ \A X, Y : DisableRequest(f) \notin X /\ ResignNotify(f) \notin X =>
                        /\ SomeAfter(Q2[g], Y, X) <=> SomeAfter(Q[g], Y, X)
                        /\ SingleAfter(Q[g], Y, X) => SingleAfter(Q2[g], Y, X)
        BY <2>2, ResignedQueues
      <4>2. /\ DisableRequest(f) \notin AnswerOf(h) /\ ResignNotify(f) \notin AnswerOf(h)
            /\ DisableRequest(f) \notin Of("JoinNotify", h) /\ ResignNotify(f) \notin Of("JoinNotify", h)
            /\ h # f => DisableRequest(f) \notin Of("ResignNotify", h) /\ ResignNotify(f) \notin Of("ResignNotify", h)
        BY <1>1, ResignMessages
      <4>3. h # f => (Some(Q2[g], Of("ResignNotify", h)) <=> Some(Q[g], Of("ResignNotify", h)))
        BY <4>1, <4>2
      <4> QED
        BY <4>1, <4>2, <4>3
    <3>3. h # f => F2[h] = F[h]
      BY <1>2
    <3> QED
      BY <1>1, <1>2, <2>2, <3>1, <3>2, <3>3 DEF KnownOK
  <2> QED
    BY <2>1, <2>2
<1>5. ASSUME NEW g \in Federates
      PROVE  /\ IsState(F2[g]) /\ Q2[g] \in Seq(ToFederate)
             /\ SenderOK(F2, S2, g) /\ MemberOK(F2, Q2, S2, g) /\ OwnOK(F2, Q2, g)
  BY ResignedOne
<1>6. ASSUME NEW h \in Federates, NEW g \in Federates PROVE ReceiverOK(F2, Q2, S2, h, g)
  BY ResignedReceiver
<1> QED
  BY <1>2, <1>3, <1>4, <1>5, <1>6 DEF Protocol, Types

-----------------------------------------------------------------------------
(* A federate joins *)

JoinNotify(f) == [type |-> "JoinNotify", fed |-> f]

LEMMA JoinMessage ==
  ASSUME NEW f \in Federates
  PROVE  /\ JoinNotify(f) \in ToFederate /\ JoinNotify(f) \in Messages
         /\ \A g : JoinNotify(f) \notin On(g) /\ JoinNotify(f) \notin Off(g) /\ JoinNotify(f) \notin AnswerOf(g)
         /\ \A g : JoinNotify(f) \notin Of("Commit", g) /\ JoinNotify(f) \notin Of("ResignNotify", g)
         /\ \A g : JoinNotify(f) \in Of("JoinNotify", g) <=> g = f
<1>1. JoinNotify(f) \in ToFederate
  BY DEF JoinNotify, ToFederate, Notices
<1>2. JoinNotify(f) \in Messages
  BY <1>1, MessageIn
<1>3. JoinNotify(f).type = "JoinNotify" /\ JoinNotify(f).fed = f
  BY DEF JoinNotify
<1> QED
  BY <1>1, <1>2, <1>3 DEF On, Off, Of, AnswerOf

\* What the server pushes to the connect of f: all members, every regulating federate, and
\* nothing that has to be answered once the response is there.
Pushed(S, f, q) ==
  /\ q \in Seq(ToFederate)
  /\ \A g \in Federates : Run(q, MapSteps(g), "off", Switch(g \in S.regulating))
  /\ \A g \in S.members : Some(q, Of("JoinNotify", g))
  /\ ~Some(q, On(f)) /\ ~Some(q, Of("Commit", f))
  /\ \A g \in Federates : /\ ~Some(q, AnswerOf(g)) /\ ~Some(q, Of("ResignNotify", g))
                          /\ ~SomeAfter(q, Typed("JoinResponse"), On(g))

Joined(F, Q, S, f, F2, Q2, S2) ==
  /\ Protocol(F, Q, S) /\ f \in Federates /\ F[f].member = "out"
  /\ \A x \in Federates \ {f} : F2[x] = F[x]
  /\ IsState(F2[f]) /\ F2[f] = [F[f] EXCEPT !.member = "joining"]
  /\ Pushed(S, f, Q2[f])
  /\ \A x \in Federates \ {f} :
       Q2[x] = IF x \in S.members THEN Append(Q[x], JoinNotify(f)) ELSE Q[x]
  /\ IsServer(S2) /\ S2.members = S.members \cup {f}
  /\ S2.regulating = S.regulating /\ S2.constrained = S.constrained

\* What is known of a federate that joins
LEMMA JoinedFacts ==
  ASSUME NEW F, NEW Q, NEW S, NEW f, NEW F2, NEW Q2, NEW S2, Joined(F, Q, S, f, F2, Q2, S2)
  PROVE  /\ f \in Federates /\ f \notin S.members /\ f \notin S.regulating /\ f \notin S.constrained
         /\ F[f].reg = "Disabled" /\ F2[f].member = "joining" /\ F2[f].reg = "Disabled"
         /\ F2[f].con = "Disabled" /\ F2[f].sent = <<>> /\ F2[f].enableSet = {}
         /\ DOMAIN F2[f].bounds = {} /\ F[f].member = "out"
<1>1. /\ f \in Federates /\ F[f].member = "out" /\ MemberOK(F, Q, S, f) /\ IsState(F[f])
      /\ F2[f] = [F[f] EXCEPT !.member = "joining"]
  BY DEF Joined, Protocol, Types
<1>2. /\ f \notin S.members /\ f \notin S.regulating /\ f \notin S.constrained
      /\ F[f] = NewTimeManagement
  BY <1>1 DEF MemberOK
<1>3. /\ F2[f].member = "joining" /\ F2[f].reg = F[f].reg /\ F2[f].con = F[f].con
      /\ F2[f].sent = F[f].sent /\ F2[f].enableSet = F[f].enableSet /\ F2[f].bounds = F[f].bounds
  BY <1>1, <1>2 DEF NewTimeManagement
<1>4. /\ F[f].reg = "Disabled" /\ F[f].con = "Disabled" /\ F[f].sent = <<>> /\ F[f].enableSet = {}
      /\ DOMAIN F[f].bounds = {}
  BY <1>2 DEF NewTimeManagement, EmptyMap
<1> QED
  BY <1>1, <1>2, <1>3, <1>4

\* The queues of the others, after f has joined
LEMMA JoinedQueues ==
  ASSUME NEW F, NEW Q, NEW S, NEW f, NEW F2, NEW Q2, NEW S2, Joined(F, Q, S, f, F2, Q2, S2),
         NEW g \in Federates \ {f}
  PROVE  /\ Q[g] \in Seq(ToFederate) /\ Q2[g] \in Seq(ToFederate)
         /\ \A X : JoinNotify(f) \notin X =>
                     (Some(Q2[g], X) <=> Some(Q[g], X)) /\ (Single(Q[g], X) => Single(Q2[g], X))
         /\ \A X, Y : Ahead(Q[g], X, Y) => Ahead(Q2[g], X, Y)
         /\ \A X, Y : JoinNotify(f) \notin X =>
                        /\ SomeAfter(Q2[g], Y, X) <=> SomeAfter(Q[g], Y, X)
                        /\ SingleAfter(Q[g], Y, X) => SingleAfter(Q2[g], Y, X)
<1>1. f \in Federates /\ Q[g] \in Seq(ToFederate)
  BY DEF Joined, Protocol, Types
<1>2. JoinNotify(f) \in ToFederate
  BY <1>1, JoinMessage
<1>3. Q2[g] = Q[g] \/ Q2[g] = Append(Q[g], JoinNotify(f))
  BY DEF Joined
<1>4. Grown(Q[g], Q2[g], JoinNotify(f))
  BY <1>2, <1>3 DEF Grown
<1> QED
  BY <1>1, <1>4, GrownKeeps

LEMMA JoinedOne ==
  ASSUME NEW F, NEW Q, NEW S, NEW f, NEW F2, NEW Q2, NEW S2, Joined(F, Q, S, f, F2, Q2, S2),
         NEW g \in Federates
  PROVE  /\ IsState(F2[g]) /\ Q2[g] \in Seq(ToFederate)
         /\ SenderOK(F2, S2, g) /\ MemberOK(F2, Q2, S2, g) /\ OwnOK(F2, Q2, g)
<1>1. /\ f \in Federates /\ f \notin S.members /\ f \notin S.regulating /\ f \notin S.constrained
      /\ F[f].reg = "Disabled" /\ F2[f].member = "joining" /\ F2[f].reg = "Disabled"
      /\ F2[f].con = "Disabled" /\ F2[f].sent = <<>> /\ F2[f].enableSet = {}
      /\ DOMAIN F2[f].bounds = {}
  BY JoinedFacts
<1>2. /\ IsState(F2[f]) /\ Pushed(S, f, Q2[f])
      /\ S2.members = S.members \cup {f} /\ S2.regulating = S.regulating /\ S2.constrained = S.constrained
      /\ SenderOK(F, S, g) /\ MemberOK(F, Q, S, g) /\ OwnOK(F, Q, g) /\ IsState(F[g])
      /\ (g # f => F2[g] = F[g])
      /\ (g # f /\ g \notin S.members => Q2[g] = Q[g])
  BY DEF Joined, Protocol, Types
<1>3. CASE g = f
  <2>1. SenderOK(F2, S2, f)
    <3>1. /\ Switch(f \in S2.regulating) = "off" /\ Switch(f \in S2.constrained) = "off"
          /\ Switch(F2[f].reg # "Disabled") = "off" /\ Switch(F2[f].con # "Disabled") = "off"
          /\ Switch(F2[f].member # "resigned") = "on"
          /\ Switch(F2[f].member = "resigned" => f \in S2.members) = "on"
          /\ "off" \in States /\ "on" \in States
      BY <1>1, <1>2 DEF Switch, States
    <3>2. \A D : Run(<<>>, D, "off", "off") /\ Run(<<>>, D, "on", "on")
      BY <3>1, EmptyQueue
    <3> QED
      BY <1>1, <3>1, <3>2 DEF SenderOK
  <2>2. MemberOK(F2, Q2, S2, f)
    BY <1>1, <1>2 DEF MemberOK, Pushed
  <2>3. ~Some(F2[f].sent, On(f)) /\ ~Some(Q2[f], On(f))
    BY <1>1, <1>2 DEF Pushed, Some
  <2>4. OwnOK(F2, Q2, f)
    BY <2>3 DEF OwnOK, Some, Single
  <2> QED
    BY <1>2, <1>3, <2>1, <2>2, <2>4 DEF Pushed
<1>4. CASE g # f
  <2>1. F2[g] = F[g] /\ IsState(F2[g])
    BY <1>2, <1>4
  <2>2. /\ Q2[g] \in Seq(ToFederate)
        /\ \A X : JoinNotify(f) \notin X =>
                     (Some(Q2[g], X) <=> Some(Q[g], X)) /\ (Single(Q[g], X) => Single(Q2[g], X))
    BY <1>4, JoinedQueues
  <2>3. /\ g \in S2.members <=> g \in S.members
        /\ g \in S2.regulating <=> g \in S.regulating
        /\ g \in S2.constrained <=> g \in S.constrained
    BY <1>2, <1>4
  <2>4. SenderOK(F2, S2, g)
    <3>1. /\ Switch(g \in S2.regulating) = Switch(g \in S.regulating)
          /\ Switch(g \in S2.constrained) = Switch(g \in S.constrained)
          /\ Switch(F[g].member = "resigned" => g \in S2.members) =
             Switch(F[g].member = "resigned" => g \in S.members)
      BY <2>3 DEF Switch
    <3> QED
      BY <1>2, <2>1, <2>3, <3>1 DEF SenderOK
  <2>5. /\ Some(Q2[g], Of("Commit", g)) <=> Some(Q[g], Of("Commit", g))
        /\ Some(Q2[g], AnswerOf(g)) <=> Some(Q[g], AnswerOf(g))
        /\ Some(Q2[g], On(g)) <=> Some(Q[g], On(g))
        /\ Single(Q[g], On(g)) => Single(Q2[g], On(g))
    BY <1>1, <2>2, JoinMessage
  <2>6. MemberOK(F2, Q2, S2, g)
    BY <1>2, <1>4, <2>1, <2>3, <2>5 DEF MemberOK
  <2>7. OwnOK(F2, Q2, g)
    BY <1>2, <2>1, <2>5 DEF OwnOK
  <2> QED
    BY <2>1, <2>2, <2>4, <2>6, <2>7
<1> QED
  BY <1>3, <1>4

LEMMA JoinedReceiver ==
  ASSUME NEW F, NEW Q, NEW S, NEW f, NEW F2, NEW Q2, NEW S2, Joined(F, Q, S, f, F2, Q2, S2),
         NEW h \in Federates, NEW g \in Federates
  PROVE  ReceiverOK(F2, Q2, S2, h, g)
<1>1. /\ f \in Federates /\ f \notin S.members /\ DOMAIN F2[f].bounds = {}
  BY JoinedFacts
<1>2. /\ Pushed(S, f, Q2[f])
      /\ S2.members = S.members \cup {f} /\ S2.regulating = S.regulating
      /\ ReceiverOK(F, Q, S, h, g) /\ Q[h] \in Seq(ToFederate)
  BY DEF Joined, Protocol, Types
<1>3. CASE h = f
  <2>1. Switch(g \in DOMAIN F2[f].bounds) = "off"
        /\ Switch(f \in S2.members /\ g \in S2.regulating) = Switch(g \in S.regulating)
    BY <1>1, <1>2 DEF Switch
  <2>2. Run(Q2[f], MapSteps(g), "off", Switch(g \in S.regulating))
    BY <1>2 DEF Pushed
  <2> QED
    BY <1>3, <2>1, <2>2 DEF ReceiverOK
<1>4. CASE h # f
  <2> SUFFICES ASSUME h # g, F2[h].member # "resigned"
               PROVE  Run(Q2[h], MapSteps(g), Switch(g \in DOMAIN F2[h].bounds), Switch(h \in S2.members /\ g \in S2.regulating))
    BY DEF ReceiverOK
  <2>1. F2[h] = F[h] /\ Q2[h] = IF h \in S.members THEN Append(Q[h], JoinNotify(f)) ELSE Q[h]
    BY <1>4 DEF Joined
  <2>2. PICK a : a = Switch(g \in DOMAIN F[h].bounds)
    OBVIOUS
  <2>3. PICK b : b = Switch(h \in S.members /\ g \in S.regulating)
    OBVIOUS
  <2>4. Switch(h \in S2.members /\ g \in S2.regulating) = b /\ b \in States
    <3>1. h \in S2.members <=> h \in S.members
      BY <1>2, <1>4
    <3> QED
      BY <1>2, <2>3, <3>1, SwitchType DEF Switch
  <2>5. Run(Q[h], MapSteps(g), a, b)
    BY <1>2, <2>1, <2>2, <2>3 DEF ReceiverOK
  <2>6. JoinNotify(f) \in ToFederate /\ JoinNotify(f) \in Messages /\ MapStep(g, JoinNotify(f), b, b)
    BY <1>1, JoinMessage DEF MapStep
  <2>7. <<JoinNotify(f), b, b>> \in MapSteps(g)
    BY <2>4, <2>6, StepsOf
  <2>8. Run(Append(Q[h], JoinNotify(f)), MapSteps(g), a, b)
    BY <1>2, <2>4, <2>5, <2>6, <2>7, RunAppend
  <2> QED
    BY <2>1, <2>2, <2>4, <2>5, <2>8
<1> QED
  BY <1>3, <1>4

LEMMA JoinedToken ==
  ASSUME NEW F, NEW Q, NEW S, NEW f, NEW F2, NEW Q2, NEW S2, Joined(F, Q, S, f, F2, Q2, S2),
         NEW h \in Federates, NEW g \in Federates
  PROVE  TokenOK(F2, Q2, h, g)
<1>1. /\ f \in Federates /\ F[f].reg = "Disabled" /\ F[f].member = "out"
      /\ F2[f].member = "joining" /\ F2[f].sent = <<>>
  BY JoinedFacts
<1>2. /\ Pushed(S, f, Q2[f]) /\ TokenOK(F, Q, h, g)
      /\ (g # f => F2[g] = F[g]) /\ (h # f => F2[h] = F[h])
  BY DEF Joined, Protocol
<1> SUFFICES ASSUME h # g, F2[g].member # "resigned" PROVE TokenOK(F2, Q2, h, g)
  BY DEF TokenOK
<1>3. ASSUME h # f
      PROVE  /\ Asked(F2, Q2, h, g) <=> Asked(F, Q, h, g)
             /\ AskedOnce(F, Q, h, g) => AskedOnce(F2, Q2, h, g)
             /\ Answering(F2, h, g) <=> Answering(F, h, g)
  <2>1. /\ Some(Q2[h], On(g)) <=> Some(Q[h], On(g))
        /\ Single(Q[h], On(g)) => Single(Q2[h], On(g))
        /\ SomeAfter(Q2[h], Typed("JoinResponse"), On(g)) <=> SomeAfter(Q[h], Typed("JoinResponse"), On(g))
        /\ SingleAfter(Q[h], Typed("JoinResponse"), On(g)) => SingleAfter(Q2[h], Typed("JoinResponse"), On(g))
    <3>1. JoinNotify(f) \notin On(g)
      BY <1>1, JoinMessage
    <3>2. /\ \A X : JoinNotify(f) \notin X =>
                     (Some(Q2[h], X) <=> Some(Q[h], X)) /\ (Single(Q[h], X) => Single(Q2[h], X))
          /\ \A X, Y : JoinNotify(f) \notin X =>
                        /\ SomeAfter(Q2[h], Y, X) <=> SomeAfter(Q[h], Y, X)
                        /\ SingleAfter(Q[h], Y, X) => SingleAfter(Q2[h], Y, X)
      BY <1>3, JoinedQueues
    <3> QED
      BY <3>1, <3>2
  <2> QED
    BY <1>2, <1>3, <2>1 DEF Asked, AskedOnce, Answering
<1>4. ASSUME g # f
      PROVE  /\ Answered(Q2, h, g) <=> Answered(Q, h, g)
             /\ Single(Q[g], AnswerOf(h)) => Single(Q2[g], AnswerOf(h))
             /\ Awaited(F, Q, h, g) => Awaited(F2, Q2, h, g)
  <2>1. /\ Some(Q2[g], AnswerOf(h)) <=> Some(Q[g], AnswerOf(h))
        /\ Single(Q[g], AnswerOf(h)) => Single(Q2[g], AnswerOf(h))
        /\ \A X, Y : Ahead(Q[g], X, Y) => Ahead(Q2[g], X, Y)
    <3>1. JoinNotify(f) \notin AnswerOf(h)
      BY <1>1, JoinMessage
    <3>2. /\ \A X : JoinNotify(f) \notin X =>
                     (Some(Q2[g], X) <=> Some(Q[g], X)) /\ (Single(Q[g], X) => Single(Q2[g], X))
          /\ \A X, Y : Ahead(Q[g], X, Y) => Ahead(Q2[g], X, Y)
      BY <1>4, JoinedQueues
    <3> QED
      BY <3>1, <3>2
  <2> QED
    BY <1>2, <1>4, <2>1 DEF Answered, Awaited
<1>5. CASE h # f /\ g # f
  BY <1>2, <1>3, <1>4, <1>5 DEF TokenOK
<1>6. CASE g = f
  <2>1. ~Asked(F, Q, h, g) /\ ~Answering(F, h, g) /\ AskedOnce(F, Q, h, g) /\ Single(F[h].sent, AnswerTo(g))
    BY <1>1, <1>2, <1>6 DEF TokenOK
  <2>2. ~Some(Q2[g], AnswerOf(h))
    BY <1>2, <1>6 DEF Pushed
  <2>3. ~Answered(Q2, h, g) /\ Single(Q2[g], AnswerOf(h))
    BY <2>2 DEF Answered, Some, Single
  <2> QED
    BY <1>2, <1>3, <1>6, <2>1, <2>3 DEF TokenOK
<1>7. CASE h = f
  <2>1. ~SomeAfter(Q2[h], Typed("JoinResponse"), On(g))
    BY <1>2, <1>7 DEF Pushed
  <2>2. SingleAfter(Q2[h], Typed("JoinResponse"), On(g))
    BY <2>1 DEF SomeAfter, SingleAfter
  <2>3. ~Asked(F2, Q2, h, g) /\ AskedOnce(F2, Q2, h, g)
    BY <1>1, <1>7, <2>1, <2>2 DEF Asked, AskedOnce
  <2>4. ~Answering(F2, h, g) /\ Single(F2[h].sent, AnswerTo(g))
    BY <1>1, <1>7 DEF Answering, Some, Single
  <2> QED
    BY <1>2, <1>4, <1>7, <2>3, <2>4 DEF TokenOK
<1> QED
  BY <1>5, <1>6, <1>7

LEMMA JoinNet ==
  ASSUME NEW F, NEW Q, NEW S, NEW f, NEW F2, NEW Q2, NEW S2, Joined(F, Q, S, f, F2, Q2, S2)
  PROVE  Protocol(F2, Q2, S2)
<1>1. /\ f \in Federates /\ f \notin S.members /\ F[f].member = "out"
  BY JoinedFacts
<1>2. /\ IsServer(S2) /\ S2.members = S.members \cup {f} /\ Pushed(S, f, Q2[f])
      /\ \A h, g \in Federates : KnownOK(F, Q, S, h, g)
      /\ \A x \in Federates \ {f} : F2[x] = F[x]
      /\ \A x \in Federates \ {f} :
           Q2[x] = IF x \in S.members THEN Append(Q[x], JoinNotify(f)) ELSE Q[x]
  BY DEF Joined, Protocol
<1>3. ASSUME NEW h \in Federates, NEW g \in Federates PROVE KnownOK(F2, Q2, S2, h, g)
  <2>1. CASE g = f
    <3>1. ~Some(Q2[g], Of("ResignNotify", h)) /\ (h \in S.members => Some(Q2[g], Of("JoinNotify", h)))
      BY <1>2, <2>1 DEF Pushed
    <3>2. ~SomeAfter(Q2[g], Of("ResignNotify", h), AnswerOf(h))
      BY <3>1 DEF Some, SomeAfter
    <3> QED
      BY <1>2, <2>1, <3>1, <3>2 DEF KnownOK
  <2>2. CASE g # f
    <3>1. F2[g] = F[g] /\ KnownOK(F, Q, S, h, g) /\ (g \in S2.members <=> g \in S.members)
      BY <1>2, <2>2
    <3>2. /\ \A X : JoinNotify(f) \notin X => (Some(Q2[g], X) <=> Some(Q[g], X))
          /\ \A X, Y : JoinNotify(f) \notin X => (SomeAfter(Q2[g], Y, X) <=> SomeAfter(Q[g], Y, X))
          /\ Q[g] \in Seq(ToFederate)
      BY <2>2, JoinedQueues
    <3>3. /\ \A x : JoinNotify(f) \notin AnswerOf(x) /\ JoinNotify(f) \notin Of("ResignNotify", x)
          /\ \A x : JoinNotify(f) \in Of("JoinNotify", x) <=> x = f
          /\ JoinNotify(f) \in ToFederate
      BY <1>1, JoinMessage
    <3>4. /\ Some(Q2[g], Of("ResignNotify", h)) <=> Some(Q[g], Of("ResignNotify", h))
          /\ SomeAfter(Q2[g], Of("ResignNotify", h), AnswerOf(h)) <=> SomeAfter(Q[g], Of("ResignNotify", h), AnswerOf(h))
      BY <3>2, <3>3
    <3>5. h # f => (Some(Q2[g], Of("JoinNotify", h)) <=> Some(Q[g], Of("JoinNotify", h)))
      BY <3>2, <3>3
    <3>6. g \in S.members => Some(Q2[g], Of("JoinNotify", f))
      <4>1. Some(Append(Q[g], JoinNotify(f)), Of("JoinNotify", f))
        BY <3>2, <3>3, SomeAppend
      <4> QED
        BY <1>2, <2>2, <4>1
    <3>7. h # f => F2[h] = F[h] /\ (h \in S2.members <=> h \in S.members)
      BY <1>2
    <3>8. CASE h = f
      BY <1>1, <3>1, <3>4, <3>6, <3>8 DEF KnownOK
    <3>9. CASE h # f
      BY <3>1, <3>4, <3>5, <3>7, <3>9 DEF KnownOK
    <3> QED
      BY <3>8, <3>9
  <2> QED
    BY <2>1, <2>2
<1>4. ASSUME NEW g \in Federates
      PROVE  /\ IsState(F2[g]) /\ Q2[g] \in Seq(ToFederate)
             /\ SenderOK(F2, S2, g) /\ MemberOK(F2, Q2, S2, g) /\ OwnOK(F2, Q2, g)
  BY JoinedOne
<1>5. ASSUME NEW h \in Federates, NEW g \in Federates
      PROVE  ReceiverOK(F2, Q2, S2, h, g) /\ TokenOK(F2, Q2, h, g)
  BY JoinedReceiver, JoinedToken
<1> QED
  BY <1>2, <1>3, <1>4, <1>5 DEF Protocol, Types

\* The members are told, and nothing else.
LEMMA PushMembersAll ==
  ASSUME TypeOK
  PROVE  /\ PushMembers \in Seq(ToFederate)
         /\ \A i \in DOMAIN PushMembers : \E g \in server.members : PushMembers[i] = JoinNotify(g)
         /\ \A g \in server.members : Some(PushMembers, Of("JoinNotify", g))
<1> DEFINE N == [g \in server.members |-> JoinNotify(g)]
           M == {JoinNotify(g) : g \in server.members}
<1>1. server.members \in SUBSET Federates
  BY DEF TypeOK, IsServer
<1>2. IsFiniteSet(DOMAIN N)
  BY <1>1, FederatesFinite
<1>3. M = {N[g] : g \in DOMAIN N}
  OBVIOUS
<1>4. IsFiniteSet(M)
  <2> HIDE DEF N, M
  <2> QED
    BY <1>2, <1>3, ImageFinite
<1>5. PushMembers = SetToSeq(M)
  BY DEF PushMembers, JoinNotify
<1>6. M \subseteq M
  OBVIOUS
<1>7. /\ SetToSeq(M) \in Seq(M)
      /\ \A m \in M : \E i \in DOMAIN SetToSeq(M) : SetToSeq(M)[i] = m
  <2> HIDE DEF M
  <2> QED
    BY <1>4, <1>6, SetToSeqType, SetToSeqAll
<1>8. ASSUME NEW i \in DOMAIN PushMembers PROVE PushMembers[i] \in M
  <2> HIDE DEF M
  <2> QED
    BY <1>5, <1>7
<1>9. ASSUME NEW g \in server.members PROVE Some(PushMembers, Of("JoinNotify", g))
  <2>1. JoinNotify(g) \in M /\ JoinNotify(g) \in Of("JoinNotify", g)
    BY <1>1, JoinMessage
  <2> HIDE DEF M
  <2> QED
    BY <1>5, <1>7, <2>1 DEF Some
<1> QED
  BY <1>8, <1>9, pushMembersType

LEMMA Halves ==
  ASSUME NEW k \in Nat \ {0}, NEW i \in Nat
  PROVE  /\ i = 2 * k - 1 => i % 2 = 1 /\ (i + 1) \div 2 = k
         /\ i = 2 * k => i % 2 = 0
         /\ (i + 1) \div 2 = k => i = 2 * k - 1 \/ i = 2 * k
<1>1. i = 2 * k - 1 => i % 2 = 1
  OBVIOUS
<1>2. i = 2 * k - 1 => (i + 1) \div 2 = k
  OBVIOUS
<1>3. i = 2 * k => i % 2 = 0
  OBVIOUS
<1>4. (i + 1) \div 2 = k => i = 2 * k - 1 \/ i = 2 * k
  OBVIOUS
<1> QED
  BY <1>1, <1>2, <1>3, <1>4

\* For every regulating federate the request, then the commit
LEMMA PushRegulatingAt ==
  ASSUME TypeOK
  PROVE  /\ SetToSeq(server.regulating) \in Seq(server.regulating)
         /\ Len(SetToSeq(server.regulating)) \in Nat
         /\ \A x \in server.regulating : \E k \in 1 .. Len(SetToSeq(server.regulating)) : SetToSeq(server.regulating)[k] = x
         /\ \A k, l \in 1 .. Len(SetToSeq(server.regulating)) :
              SetToSeq(server.regulating)[k] = SetToSeq(server.regulating)[l] => k = l
         /\ DOMAIN PushRegulating = 1 .. 2 * Len(SetToSeq(server.regulating))
         /\ \A i \in 1 .. 2 * Len(SetToSeq(server.regulating)) :
              /\ (i + 1) \div 2 \in 1 .. Len(SetToSeq(server.regulating))
              /\ PushRegulating[i].fed = SetToSeq(server.regulating)[(i + 1) \div 2]
              /\ PushRegulating[i].type = IF i % 2 = 1 THEN "EnableReg" ELSE "Commit"
<1> DEFINE R == server.regulating
           order == SetToSeq(R)
<1>1. R \in SUBSET Federates /\ IsFiniteSet(R)
  BY FederatesFinite DEF TypeOK, IsServer
<1>2. order \in Seq(R)
  BY <1>1, SetToSeqType
<1>3. /\ \A x \in R : \E i \in DOMAIN order : order[i] = x
      /\ \A i, j \in DOMAIN order : order[i] = order[j] => i = j
  BY <1>1, SetToSeqAll
<1>4. DOMAIN order = 1 .. Len(order) /\ Len(order) \in Nat
  BY <1>2
<1>5. /\ DOMAIN PushRegulating = 1 .. 2 * Len(order)
      /\ \A i \in 1 .. 2 * Len(order) :
           PushRegulating[i] = IF i % 2 = 1
                 THEN EnableRequest(order[(i + 1) \div 2], server.ta[order[(i + 1) \div 2]], server.id[order[(i + 1) \div 2]])
                 ELSE CommitMessage(order[(i + 1) \div 2], server.nm[order[(i + 1) \div 2]], {"NM"}, server.id[order[(i + 1) \div 2]])
  BY DEF PushRegulating
<1> HIDE DEF order
<1>6. ASSUME NEW i \in 1 .. 2 * Len(order)
      PROVE  /\ (i + 1) \div 2 \in 1 .. Len(order)
             /\ PushRegulating[i].fed = order[(i + 1) \div 2]
             /\ PushRegulating[i].type = IF i % 2 = 1 THEN "EnableReg" ELSE "Commit"
  <2>1. (i + 1) \div 2 \in 1 .. Len(order)
    BY <1>4
  <2>2. \A g, t, id, ct : /\ EnableRequest(g, t, id).fed = g /\ EnableRequest(g, t, id).type = "EnableReg"
                          /\ CommitMessage(g, t, ct, id).fed = g /\ CommitMessage(g, t, ct, id).type = "Commit"
    BY DEF EnableRequest, CommitMessage
  <2>3. CASE i % 2 = 1
    BY <1>5, <2>1, <2>2, <2>3
  <2>4. CASE i % 2 # 1
    BY <1>5, <2>1, <2>2, <2>4
  <2> QED
    BY <2>3, <2>4
<1> QED
  BY <1>2, <1>3, <1>4, <1>5, <1>6 DEF order

\* It takes the map of the new federate to what the server knows.
LEMMA PushRegulatingRun ==
  ASSUME TypeOK, NEW g \in Federates
  PROVE  Run(PushRegulating, MapSteps(g), "off", Switch(g \in server.regulating))
<1>1. PICK R, order, n : R = server.regulating /\ order = SetToSeq(R) /\ n = Len(order)
  OBVIOUS
<1>2. /\ n \in Nat /\ DOMAIN PushRegulating = 1 .. 2 * n
      /\ \A x \in R : \E k \in 1 .. n : order[k] = x
      /\ \A k, l \in 1 .. n : order[k] = order[l] => k = l
      /\ \A k \in 1 .. n : order[k] \in R
      /\ \A i \in 1 .. 2 * n : /\ (i + 1) \div 2 \in 1 .. n
                               /\ PushRegulating[i].fed = order[(i + 1) \div 2]
                               /\ PushRegulating[i].type = IF i % 2 = 1 THEN "EnableReg" ELSE "Commit"
  BY <1>1, PushRegulatingAt
<1>3. PushRegulating \in Seq(ToFederate)
  BY pushRegulatingType
<1>4. Len(PushRegulating) = 2 * n
  BY <1>2, <1>3
<1>5. \A i \in 1 .. 2 * n : PushRegulating[i] \in Messages
  BY <1>2, <1>3, MessageIn
<1>6. "off" \in States /\ "on" \in States /\ Switch(FALSE) = "off" /\ Switch(TRUE) = "on"
  BY DEF States, Switch
<1>7. CASE g \notin R
  <2> DEFINE r == [i \in 0 .. 2 * n |-> "off"]
  <2>1. r \in [0 .. 2 * n -> States] /\ r[0] = "off" /\ r[2 * n] = "off"
    BY <1>2, <1>6
  <2>2. ASSUME NEW i \in 1 .. 2 * n PROVE <<PushRegulating[i], r[i - 1], r[i]>> \in MapSteps(g)
    <3>1. r[i - 1] = "off" /\ r[i] = "off"
      BY <1>2
    <3>2. PushRegulating[i].fed # g /\ PushRegulating[i] \in Messages
      <4>1. PICK j \in 1 .. n : j = (i + 1) \div 2 /\ PushRegulating[i].fed = order[j]
        BY <1>2
      <4> QED
        BY <1>2, <1>5, <1>7, <4>1
    <3>3. MapStep(g, PushRegulating[i], "off", "off")
      BY <3>2 DEF MapStep, On, Off, Of
    <3> QED
      BY <1>6, <3>1, <3>2, <3>3, StepsOf
  <2> HIDE DEF r
  <2>3. Run(PushRegulating, MapSteps(g), "off", "off")
    BY <1>2, <1>4, <2>1, <2>2 DEF Run
  <2> QED
    BY <1>1, <1>7, <2>3 DEF Switch
<1>8. CASE g \in R
  <2>1. PICK k \in 1 .. n : order[k] = g
    BY <1>2, <1>8
  <2> DEFINE r == [i \in 0 .. 2 * n |-> IF i < 2 * k - 1 THEN "off" ELSE "on"]
  <2>2. r \in [0 .. 2 * n -> States] /\ r[0] = "off" /\ r[2 * n] = "on"
    BY <1>2, <1>6, <2>1
  <2>3. ASSUME NEW i \in 1 .. 2 * n PROVE <<PushRegulating[i], r[i - 1], r[i]>> \in MapSteps(g)
    <3>0. /\ r[i - 1] \in States /\ r[i] \in States
          /\ r[i - 1] = (IF i - 1 < 2 * k - 1 THEN "off" ELSE "on") /\ r[i] = IF i < 2 * k - 1 THEN "off" ELSE "on"
      BY <1>2, <1>6
    <3> HIDE DEF r
    <3>1. PushRegulating[i].fed = g => (i + 1) \div 2 = k
      BY <1>2, <2>1
    <3>2. /\ i \in Nat /\ k \in Nat \ {0}
          /\ i = 2 * k - 1 => i % 2 = 1 /\ (i + 1) \div 2 = k
          /\ i = 2 * k => i % 2 = 0
          /\ (i + 1) \div 2 = k => i = 2 * k - 1 \/ i = 2 * k
      <4>1. i \in Nat /\ k \in Nat \ {0}
        BY <1>2, <2>1
      <4> QED
        BY <4>1, Halves
    <3>3. CASE i = 2 * k - 1
      <4>1. i % 2 = 1 /\ (i + 1) \div 2 = k /\ i - 1 < 2 * k - 1 /\ ~(i < 2 * k - 1)
        BY <3>2, <3>3
      <4>2. PushRegulating[i].type = "EnableReg" /\ PushRegulating[i].fed = g
        BY <1>2, <2>1, <4>1
      <4>3. r[i - 1] = "off" /\ r[i] = "on"
        BY <3>0, <4>1
      <4>4. MapStep(g, PushRegulating[i], r[i - 1], r[i])
        BY <1>5, <4>2, <4>3 DEF MapStep, On, Off, Of
      <4> QED
        BY <1>5, <3>0, <4>4, StepsOf
    <3>4. CASE i = 2 * k
      <4>1. i % 2 # 1
        BY <3>2, <3>4
      <4>2. PushRegulating[i].type = "Commit" /\ r[i - 1] = "on" /\ r[i] = "on"
        BY <1>2, <2>1, <3>0, <3>4, <4>1
      <4>3. MapStep(g, PushRegulating[i], r[i - 1], r[i])
        BY <4>2 DEF MapStep, On, Off, Of
      <4> QED
        BY <1>5, <3>0, <4>3, StepsOf
    <3>5. CASE i # 2 * k - 1 /\ i # 2 * k
      <4>1. PushRegulating[i].fed # g
        BY <3>1, <3>2, <3>5
      <4>2. r[i - 1] = r[i]
        BY <1>2, <2>1, <3>0, <3>5
      <4>3. MapStep(g, PushRegulating[i], r[i - 1], r[i])
        BY <4>1, <4>2 DEF MapStep, On, Off, Of
      <4> QED
        BY <1>5, <3>0, <4>3, StepsOf
    <3> QED
      BY <3>3, <3>4, <3>5
  <2> HIDE DEF r
  <2>4. Run(PushRegulating, MapSteps(g), "off", "on")
    BY <1>2, <1>4, <2>2, <2>3 DEF Run
  <2> QED
    BY <1>1, <1>8, <2>4 DEF Switch
<1> QED
  BY <1>7, <1>8

\* What the server pushes to f, up to the response
LEMMA PushedAll ==
  ASSUME TypeOK, NEW f \in Federates, f \notin server.members, f \notin server.regulating
  PROVE  Pushed(server, f, <<>> \o PushMembers \o PushRegulating \o <<[type |-> "JoinResponse", fed |-> f]>>)
<1>1. PICK r : r = [type |-> "JoinResponse", fed |-> f]
  OBVIOUS
<1>2. r \in ToFederate /\ r \in Messages /\ r.type = "JoinResponse"
  BY <1>1, MessageIn DEF ToFederate, Notices
<1>3. PICK p : p = PushMembers
  OBVIOUS
<1>4. PICK u : u = PushRegulating
  OBVIOUS
<1>5. PICK q : q = <<>> \o p \o u \o <<r>>
  OBVIOUS
<1>6. /\ p \in Seq(ToFederate)
      /\ \A i \in DOMAIN p : \E g \in server.members : p[i] = JoinNotify(g)
      /\ \A g \in server.members : Some(p, Of("JoinNotify", g))
  BY <1>3, PushMembersAll
<1>7. u \in Seq(ToFederate) /\ \A g \in Federates : Run(u, MapSteps(g), "off", Switch(g \in server.regulating))
  BY <1>4, pushRegulatingType, PushRegulatingRun
<1>8. \A i \in DOMAIN u : u[i].fed \in server.regulating /\ u[i].type \in {"EnableReg", "Commit"}
  <2>1. PICK R, order, n : R = server.regulating /\ order = SetToSeq(R) /\ n = Len(order)
    OBVIOUS
  <2>2. /\ order \in Seq(R) /\ n \in Nat /\ DOMAIN u = 1 .. 2 * n
        /\ \A i \in 1 .. 2 * n : /\ (i + 1) \div 2 \in 1 .. n
                                 /\ u[i].fed = order[(i + 1) \div 2]
                                 /\ u[i].type = IF i % 2 = 1 THEN "EnableReg" ELSE "Commit"
    BY <1>4, <2>1, PushRegulatingAt
  <2>3. \A k \in 1 .. n : order[k] \in R
    BY <2>1, <2>2
  <2>4. ASSUME NEW i \in DOMAIN u PROVE u[i].fed \in R /\ u[i].type \in {"EnableReg", "Commit"}
    <3>1. PICK k \in 1 .. n : k = (i + 1) \div 2 /\ u[i].fed = order[k]
      BY <2>2
    <3> QED
      BY <2>2, <2>3, <3>1
  <2> QED
    BY <2>1, <2>4
<1>9. PICK v : v = p \o u
  OBVIOUS
<1>10. v \in Seq(ToFederate) /\ q = Append(v, r)
  <2>1. v \in Seq(ToFederate) /\ <<>> \o p = p
    BY <1>6, <1>7, <1>9, ConcatAt, ConcatEmptySeq
  <2>2. Append(v, r) = v \o <<r>>
    BY <1>2, <2>1, AppendIsConcat
  <2> QED
    BY <1>5, <1>9, <2>1, <2>2
<1>11. server.members \subseteq Federates
  BY DEF TypeOK, IsServer
<1>12. \A i \in DOMAIN p : /\ p[i] \in Messages /\ p[i].type = "JoinNotify"
                           /\ \A g : p[i] \notin On(g) /\ p[i] \notin Off(g)
                           /\ \A g : p[i] \notin Of("Commit", g) /\ p[i] \notin AnswerOf(g) /\ p[i] \notin Of("ResignNotify", g)
  BY <1>6, <1>11, JoinMessage DEF JoinNotify
<1>13. \A X : Some(q, X) <=> Some(p, X) \/ Some(u, X) \/ r \in X
  BY <1>2, <1>6, <1>7, <1>9, <1>10, SomeAppend, SomeConcat
<1>14. ASSUME NEW g \in Federates PROVE Run(q, MapSteps(g), "off", Switch(g \in server.regulating))
  <2>1. PICK b : b = Switch(g \in server.regulating)
    OBVIOUS
  <2>2. b \in States /\ "off" \in States
    BY <2>1, SwitchType DEF States
  <2>3. Run(<<>>, MapSteps(g), "off", "off")
    BY <2>2, EmptyQueue
  <2>4. \A i \in DOMAIN p : <<p[i], "off", "off">> \in MapSteps(g)
    <3>1. \A i \in DOMAIN p : MapStep(g, p[i], "off", "off")
      BY <1>12 DEF MapStep
    <3> QED
      BY <1>12, <2>2, <3>1, StepsOf
  <2>5. Run(p, MapSteps(g), "off", "off")
    <3>1. DOMAIN p = 1 .. Len(p) /\ Len(p) \in Nat
      BY <1>6
    <3>2. [i \in 0 .. Len(p) |-> "off"] \in [0 .. Len(p) -> States]
      BY <2>2
    <3>3. /\ [i \in 0 .. Len(p) |-> "off"][0] = "off" /\ [i \in 0 .. Len(p) |-> "off"][Len(p)] = "off"
          /\ \A i \in DOMAIN p : [j \in 0 .. Len(p) |-> "off"][i - 1] = "off" /\ [j \in 0 .. Len(p) |-> "off"][i] = "off"
      BY <3>1
    <3>4. PICK o \in [0 .. Len(p) -> States] :
            o[0] = "off" /\ o[Len(p)] = "off" /\ \A i \in DOMAIN p : o[i - 1] = "off" /\ o[i] = "off"
      BY <3>2, <3>3
    <3> QED
      BY <2>4, <3>4 DEF Run
  <2>6. Run(u, MapSteps(g), "off", b)
    BY <1>7, <2>1
  <2>7. Run(v, MapSteps(g), "off", b)
    BY <1>6, <1>7, <1>9, <2>5, <2>6, RunConcat
  <2>8. MapStep(g, r, b, b)
    BY <1>2 DEF MapStep, On, Off, Of
  <2>9. <<r, b, b>> \in MapSteps(g)
    BY <1>2, <2>2, <2>8, StepsOf
  <2>10. Run(Append(v, r), MapSteps(g), "off", b)
    BY <1>2, <1>10, <2>2, <2>7, <2>9, RunAppend
  <2> QED
    BY <1>10, <2>1, <2>10
<1>15. ASSUME NEW g \in server.members PROVE Some(q, Of("JoinNotify", g))
  BY <1>6, <1>13
<1>16. ~Some(q, On(f)) /\ ~Some(q, Of("Commit", f))
  <2>1. ~Some(p, On(f)) /\ ~Some(p, Of("Commit", f))
    BY <1>12 DEF Some
  <2>2. ~Some(u, On(f)) /\ ~Some(u, Of("Commit", f))
    BY <1>8 DEF Some, On, Of
  <2>3. r \notin On(f) /\ r \notin Of("Commit", f)
    BY <1>2 DEF On, Of
  <2> QED
    BY <1>13, <2>1, <2>2, <2>3
<1>17. ASSUME NEW g \in Federates PROVE ~Some(q, AnswerOf(g)) /\ ~Some(q, Of("ResignNotify", g))
  <2>1. ~Some(p, AnswerOf(g)) /\ ~Some(p, Of("ResignNotify", g))
    BY <1>12 DEF Some
  <2>2. ~Some(u, AnswerOf(g)) /\ ~Some(u, Of("ResignNotify", g))
    BY <1>8 DEF Some, AnswerOf, Of
  <2>3. r \notin AnswerOf(g) /\ r \notin Of("ResignNotify", g)
    BY <1>2 DEF AnswerOf, Of
  <2> QED
    BY <1>13, <2>1, <2>2, <2>3
<1>18. ASSUME NEW g \in Federates PROVE ~SomeAfter(q, Typed("JoinResponse"), On(g))
  <2>1. ~Some(p, Typed("JoinResponse")) /\ ~Some(u, Typed("JoinResponse"))
    BY <1>8, <1>12 DEF Some, Typed
  <2>2. ~Some(v, Typed("JoinResponse"))
    BY <1>6, <1>7, <1>9, <2>1, SomeConcat
  <2>3. ~SomeAfter(v, Typed("JoinResponse"), On(g)) /\ r \notin On(g)
    BY <1>2, <2>2 DEF Some, SomeAfter, On, Of
  <2>4. ~SomeAfter(Append(v, r), Typed("JoinResponse"), On(g))
    BY <1>2, <1>10, <2>3, AfterAppend
  <2> QED
    BY <1>10, <2>4
<1>19. q \in Seq(ToFederate)
  BY <1>2, <1>10, AppendAt
<1>20. Pushed(server, f, q)
  BY <1>14, <1>15, <1>16, <1>17, <1>18, <1>19 DEF Pushed
<1> QED
  BY <1>1, <1>3, <1>4, <1>5, <1>20

-----------------------------------------------------------------------------
(* The steps of the federation *)

\* The inductive invariant
Consistent ==
  /\ TypeOK
  /\ \A g \in Federates : LocalOK(fed[g])
  /\ Protocol(fed, toFed, server)

Kept == (\A g \in Federates : LocalOK(fed'[g])) /\ Protocol(fed', toFed', server')

LEMMA fedChanges ==
  ASSUME TypeOK, NEW f \in Federates, NEW s, fed' = [fed EXCEPT ![f] = s]
  PROVE  fed'[f] = s /\ \A x \in Federates \ {f} : fed'[x] = fed[x]
BY DEF TypeOK

LEMMA memberFacts ==
  ASSUME Consistent, NEW f \in Federates, fed[f].member = "in"
  PROVE  f \in server.members /\ fed[f].member # "resigned" /\ IsState(fed[f]) /\ LocalOK(fed[f])
<1>1. MemberOK(fed, toFed, server, f)
  BY DEF Consistent, Protocol
<1> QED
  BY <1>1 DEF Consistent, TypeOK, MemberOK

\* A step of f alone that only sends minor messages
LEMMA quietStep ==
  ASSUME Consistent, NEW f \in Federates, fed[f].member = "in",
         NEW s, Quiet(f, fed[f], s),
         fed' = [fed EXCEPT ![f] = s], toFed' = toFed, server' = server
  PROVE  Kept
<1>1. fed'[f] = s /\ \A x \in Federates \ {f} : fed'[x] = fed[x]
  BY fedChanges DEF Consistent
<1>2. f \in server.members /\ fed[f].member # "resigned" /\ LocalOK(fed[f])
  BY memberFacts
<1>3. LocalOK(s) /\ Steady(f, fed[f], fed'[f])
  BY <1>1, <1>2, QuietLocal, QuietSteady
<1>4. Protocol(fed', toFed, server)
  BY <1>1, <1>2, <1>3, SteadyNet DEF Consistent
<1> QED
  BY <1>1, <1>3, <1>4 DEF Consistent, Kept

LEMMA enableRegulationStep ==
  ASSUME Consistent, NEW f \in Federates, fed[f].member = "in", fed[f].reg = "Disabled",
         NEW t \in Nat, NEW la \in Nat, Called(f, _enableTimeRegulation(f, fed[f], t, la))
  PROVE  Kept
<1>1. f \in server.members /\ fed[f].member # "resigned" /\ IsState(fed[f]) /\ LocalOK(fed[f])
  BY memberFacts
<1>2. PICK u : u = _enableTimeRegulation(f, fed[f], t, la)
  OBVIOUS
<1>3. /\ fed' = [fed EXCEPT ![f] = u] /\ toFed' = toFed /\ server' = server
      /\ fed'[f] = u /\ \A x \in Federates \ {f} : fed'[x] = fed[x]
  BY <1>2, fedChanges DEF Called, Consistent
<1>4. PICK s : s = fed[f]
  OBVIOUS
<1>5. PICK a, m :
           /\ IsState(a) /\ LocalOK(a) /\ Quiet(f, a, u)
           /\ a.member = s.member /\ a.known = s.known /\ a.con = s.con /\ a.bounds = s.bounds
           /\ a.reg = "EnablePending" /\ a.enableSet = s.known \cup {f} /\ a.stamps = s.stamps
           /\ m \in EnableRequests /\ m.fed = f /\ m.ts = a.cTA
           /\ a.sent = Append(s.sent, m)
  <2>1. IsState(s) /\ LocalOK(s) /\ s.reg = "Disabled" /\ u = _enableTimeRegulation(f, s, t, la)
    BY <1>1, <1>2, <1>4
  <2>2. Asks(f, s, u)
    BY <2>1, enableTimeRegulationAsks
  <2> QED
    BY <2>2 DEF Asks
<1>6. PICK F2 : F2 = [x \in Federates |-> IF x = f THEN a ELSE fed[x]]
  OBVIOUS
<1>7. F2[f] = a /\ (\A x \in Federates \ {f} : F2[x] = fed[x]) /\ s.reg = "Disabled"
  BY <1>4, <1>6
<1>8. Protocol(F2, toFed, server)
  <2>1. PICK F : F = fed
    OBVIOUS
  <2>2. /\ Protocol(F, toFed, server) /\ f \in server.members /\ F[f].member # "resigned"
        /\ \A x \in Federates \ {f} : F2[x] = F[x]
        /\ IsState(F2[f])
        /\ F2[f].member = F[f].member /\ F2[f].known = F[f].known /\ F2[f].bounds = F[f].bounds
        /\ F2[f].con = F[f].con /\ F[f].reg = "Disabled" /\ F2[f].reg = "EnablePending"
        /\ f \in F2[f].enableSet /\ F[f].known \subseteq F2[f].enableSet
        /\ m \in EnableRequests /\ m.fed = f /\ F2[f].sent = Append(F[f].sent, m)
    BY <1>1, <1>4, <1>5, <1>7, <2>1 DEF Consistent
  <2> QED
    BY <2>2, EnableRegNet
<1>9. LocalOK(u) /\ Steady(f, F2[f], fed'[f])
  BY <1>3, <1>5, <1>7, QuietLocal, QuietSteady
<1>10. F2[f].member # "resigned" /\ \A x \in Federates \ {f} : fed'[x] = F2[x]
  BY <1>1, <1>3, <1>4, <1>5, <1>7
<1>11. Protocol(fed', toFed, server)
  BY <1>1, <1>8, <1>9, <1>10, SteadyNet
<1> QED
  BY <1>3, <1>9, <1>11 DEF Consistent, Kept

LEMMA disableRegulationStep ==
  ASSUME Consistent, NEW f \in Federates, fed[f].member = "in", fed[f].reg = "Enabled",
         Called(f, disableTimeRegulation(f, fed[f]))
  PROVE  Kept
<1>1. f \in server.members /\ fed[f].member # "resigned" /\ IsState(fed[f]) /\ LocalOK(fed[f])
  BY memberFacts
<1>2. PICK t : t = disableTimeRegulation(f, fed[f])
  OBVIOUS
<1>3. /\ toFed' = toFed /\ server' = server
      /\ fed'[f] = t /\ \A x \in Federates \ {f} : fed'[x] = fed[x]
  BY <1>2, fedChanges DEF Called, Consistent
<1>4. PICK s : s = fed[f]
  OBVIOUS
<1>5. /\ IsState(t) /\ LocalOK(t)
      /\ t.member = s.member /\ t.known = s.known /\ t.con = s.con /\ t.bounds = s.bounds
      /\ t.reg = "Disabled" /\ t.enableSet = s.enableSet
      /\ t.sent = Append(s.sent, DisableRequest(f)) /\ s.reg = "Enabled"
  BY <1>1, <1>2, <1>4, disableTimeRegulationSends
<1>6. Protocol(fed', toFed, server)
  BY <1>1, <1>3, <1>4, <1>5, DisableRegNet DEF Consistent
<1> QED
  BY <1>3, <1>5, <1>6 DEF Consistent, Kept

LEMMA constrainedStep ==
  ASSUME Consistent, NEW f \in Federates, fed[f].member = "in",
         \/ fed[f].con = "Disabled" /\ Called(f, enableTimeConstrained(f, fed[f]))
         \/ fed[f].con = "Enabled" /\ Called(f, disableTimeConstrained(f, fed[f]))
  PROVE  Kept
<1>1. f \in server.members /\ fed[f].member # "resigned" /\ IsState(fed[f]) /\ LocalOK(fed[f])
  BY memberFacts
<1>2. PICK t : /\ Called(f, t)
               /\ \/ fed[f].con = "Disabled" /\ t = enableTimeConstrained(f, fed[f])
                  \/ fed[f].con = "Enabled" /\ t = disableTimeConstrained(f, fed[f])
  OBVIOUS
<1>3. /\ toFed' = toFed /\ server' = server
      /\ fed'[f] = t /\ \A x \in Federates \ {f} : fed'[x] = fed[x]
  BY <1>2, fedChanges DEF Called, Consistent
<1>4. PICK s : s = fed[f]
  OBVIOUS
<1>5. PICK m \in Notices({"EnableCon", "DisableCon"}) :
        /\ IsState(t) /\ LocalOK(t)
        /\ t.member = s.member /\ t.known = s.known /\ t.bounds = s.bounds
        /\ t.reg = s.reg /\ t.enableSet = s.enableSet
        /\ t.sent = Append(s.sent, m)
        /\ (m.type = "EnableCon" => s.con = "Disabled" /\ t.con # "Disabled")
        /\ (m.type = "DisableCon" => s.con # "Disabled" /\ t.con = "Disabled")
  <2>0. /\ ConstrainedNotify(f) \in Notices({"EnableCon", "DisableCon"}) /\ ConstrainedNotify(f).type = "EnableCon"
        /\ UnconstrainedNotify(f) \in Notices({"EnableCon", "DisableCon"}) /\ UnconstrainedNotify(f).type = "DisableCon"
    BY DEF ConstrainedNotify, UnconstrainedNotify, Notices
  <2>1. CASE s.con = "Disabled" /\ t = enableTimeConstrained(f, s)
    <3>1. /\ IsState(t) /\ LocalOK(t)
          /\ t.member = s.member /\ t.known = s.known /\ t.con = "EnablePending" /\ t.bounds = s.bounds
          /\ t.reg = s.reg /\ t.enableSet = s.enableSet
          /\ t.sent = Append(s.sent, ConstrainedNotify(f))
      BY <1>1, <1>4, <2>1, enableTimeConstrainedSends
    <3> QED
      BY <2>0, <2>1, <3>1
  <2>2. CASE s.con = "Enabled" /\ t = disableTimeConstrained(f, s)
    <3>1. /\ IsState(t) /\ LocalOK(t)
          /\ t.member = s.member /\ t.known = s.known /\ t.con = "Disabled" /\ t.bounds = s.bounds
          /\ t.reg = s.reg /\ t.enableSet = s.enableSet
          /\ t.sent = Append(s.sent, UnconstrainedNotify(f))
      BY <1>1, <1>4, <2>2, disableTimeConstrainedSends
    <3> QED
      BY <2>0, <2>2, <3>1
  <2> QED
    BY <1>2, <1>4, <2>1, <2>2
<1>6. Protocol(fed', toFed, server)
  BY <1>1, <1>3, <1>4, <1>5, ConstrainedNet DEF Consistent
<1> QED
  BY <1>3, <1>5, <1>6 DEF Consistent, Kept

LEMMA newLocal ==
  ASSUME NEW s, s.tso = <<>>, s.reg = "Disabled", s.cTA = 0
  PROVE  LocalOK(s)
<1>1. DOMAIN <<>> = {} /\ Len(<<>>) = 0
  OBVIOUS
<1> QED
  BY <1>1 DEF LocalOK, Sorted, Single, Some

LEMMA resignStep ==
  ASSUME Consistent, NEW f \in Federates, Resign(f)
  PROVE  Kept
<1>1. fed[f].member = "in"
  BY DEF Resign, May
<1>2. f \in server.members /\ fed[f].member # "resigned" /\ IsState(fed[f]) /\ LocalOK(fed[f])
  BY <1>1, memberFacts
<1>3. PICK q : q = Append(fed[f].sent, [type |-> "Resign", fed |-> f])
  OBVIOUS
<1>4. q \in Seq(ToServer)
  <2>1. fed[f].sent \in Seq(ToServer)
    BY <1>2, Fields
  <2>2. [type |-> "Resign", fed |-> f] \in ToServer
    BY DEF ToServer, Notices
  <2> QED
    BY <1>3, <2>1, <2>2, AppendAt
<1>5. PICK t : t = [NewTimeManagement EXCEPT !.member = "resigned", !.sent = q]
  OBVIOUS
<1>6. /\ toFed' = toFed /\ server' = server
      /\ fed'[f] = t /\ \A x \in Federates \ {f} : fed'[x] = fed[x]
  BY <1>3, <1>5, fedChanges DEF Resign, Called, Consistent
<1>7. /\ t.member = "resigned" /\ t.sent = q /\ t.reg = "Disabled" /\ t.con = "Disabled"
      /\ DOMAIN t.bounds = {} /\ t.tso = <<>> /\ t.cTA = 0
  BY <1>5 DEF NewTimeManagement, EmptyMap, InitialTime
<1>8. IsState(t)
  <2>1. Call(f)
    BY DEF Call
  <2>2. TypeOK'
    BY <2>1, callType DEF Consistent
  <2> QED
    BY <1>6, <2>2 DEF TypeOK
<1>9. Protocol(fed', toFed, server)
  BY <1>2, <1>3, <1>6, <1>7, <1>8, ResignNet DEF Consistent
<1>10. LocalOK(t)
  BY <1>7, newLocal
<1> QED
  BY <1>6, <1>9, <1>10 DEF Consistent, Kept

\* What a call of the user does to its federate: it switches a mode, resigns, or
\* sends minor messages only.
CallCases(f) ==
  \/ \E s : fed[f].member = "in" /\ Called(f, s) /\ Quiet(f, fed[f], s)
  \/ /\ fed[f].member = "in" /\ fed[f].reg = "Disabled"
     /\ \E t, la \in Nat : Called(f, _enableTimeRegulation(f, fed[f], t, la))
  \/ fed[f].member = "in" /\ fed[f].reg = "Enabled" /\ Called(f, disableTimeRegulation(f, fed[f]))
  \/ fed[f].member = "in" /\ fed[f].con = "Disabled" /\ Called(f, enableTimeConstrained(f, fed[f]))
  \/ fed[f].member = "in" /\ fed[f].con = "Enabled" /\ Called(f, disableTimeConstrained(f, fed[f]))
  \/ Resign(f)

LEMMA callCases ==
  ASSUME Consistent, NEW f \in Federates, Call(f)
  PROVE  CallCases(f)
<1>1. CASE EnableTimeRegulation(f)
  <2>1. fed[f].member = "in" /\ fed[f].reg = "Disabled" /\ fed[f].now[1] \in Nat
    BY <1>1, Fields, PairTypes DEF EnableTimeRegulation, May, Consistent, TypeOK
  <2>2. PICK la \in Nat : Called(f, _enableTimeRegulation(f, fed[f], fed[f].now[1], la))
    BY <1>1, FederationAssumption DEF EnableTimeRegulation
  <2> QED
    BY <2>1, <2>2 DEF CallCases
<1>2. CASE EnableTimeRegulationAt(f)
  <2>1. fed[f].member = "in" /\ fed[f].reg = "Disabled"
    BY <1>2 DEF EnableTimeRegulationAt, May
  <2>2. PICK t \in Nat, la \in Nat : Called(f, _enableTimeRegulation(f, fed[f], t, la))
    BY <1>2, FederationAssumption DEF EnableTimeRegulationAt
  <2> QED
    BY <2>1, <2>2 DEF CallCases
<1>3. CASE DisableTimeRegulation(f)
  BY <1>3 DEF DisableTimeRegulation, May, CallCases
<1>4. CASE EnableTimeConstrained(f)
  BY <1>4 DEF EnableTimeConstrained, May, CallCases
<1>5. CASE DisableTimeConstrained(f)
  BY <1>5 DEF DisableTimeConstrained, May, CallCases
<1>6. ASSUME fed[f].member = "in", NEW s, Called(f, s), Quiet(f, fed[f], s) PROVE CallCases(f)
  BY <1>6 DEF CallCases
<1>7. CASE \E mode \in AdvanceModes \ {"Granted"} : TimeAdvanceRequest(f, mode)
  <2>1. PICK mode \in AdvanceModes \ {"Granted"} : TimeAdvanceRequest(f, mode)
    BY <1>7
  <2>2. PICK t \in Nat : Called(f, timeAdvanceRequest(f, fed[f], t, mode))
    BY <2>1, FederationAssumption DEF TimeAdvanceRequest
  <2>3. fed[f].member = "in" /\ IsState(fed[f])
    BY <2>1 DEF TimeAdvanceRequest, May, Consistent, TypeOK
  <2>4. Quiet(f, fed[f], timeAdvanceRequest(f, fed[f], t, mode))
    BY <2>3, timeAdvanceRequestQuiet
  <2> QED
    BY <1>6, <2>2, <2>3, <2>4
<1>8. CASE ModifyLookahead(f)
  <2>1. PICK la \in Nat : Called(f, modifyLookahead(f, fed[f], la))
    BY <1>8, FederationAssumption DEF ModifyLookahead
  <2>2. fed[f].member = "in" /\ IsState(fed[f]) /\ fed[f].reg = "Enabled"
    BY <1>8 DEF ModifyLookahead, May, Consistent, TypeOK
  <2>3. Quiet(f, fed[f], modifyLookahead(f, fed[f], la))
    BY <2>2, modifyLookaheadQuiet
  <2> QED
    BY <1>6, <2>1, <2>2, <2>3
<1>9. CASE SendTimeStamped(f)
  <2> DEFINE data(t) == TimeStamped(f, t, IF fed[f].reg = "Enabled" THEN "TSO" ELSE "RO")
             to(t) == IF DeliverToSelf THEN acceptData(f, fed[f], data(t)) ELSE fed[f]
  <2>1. PICK t \in Nat : Called(f, send(to(t), data(t)))
    BY <1>9, FederationAssumption DEF SendTimeStamped
  <2>2. fed[f].member = "in" /\ IsState(fed[f])
    BY <1>9 DEF SendTimeStamped, May, Consistent, TypeOK
  <2>3. PICK m : m = data(t)
    OBVIOUS
  <2>4. m \in DataMessages /\ m.type = "Data" /\ m \in ToServer
    BY <2>3 DEF TimeStamped, DataMessages, ToServer, Relayed
  <2>5. PICK u : u = to(t)
    OBVIOUS
  <2>6. Quiet(f, fed[f], u) /\ IsState(u)
    <3>1. CASE DeliverToSelf
      <4>1. u = acceptData(f, fed[f], m)
        BY <2>3, <2>5, <3>1
      <4>2. Quiet(f, fed[f], u)
        BY <2>2, <2>4, <4>1, acceptDataQuiet
      <4> QED
        BY <4>2 DEF Quiet
    <3>2. CASE ~DeliverToSelf
      BY <2>2, <2>5, <3>2, QuietRefl
    <3> QED
      BY <3>1, <3>2
  <2>7. m \in Minor(f, u.reg, u.cTA)
    BY <2>4 DEF Minor
  <2>8. Quiet(f, fed[f], send(u, m))
    BY <2>6, <2>7, QuietSend, QuietTrans
  <2>9. Called(f, send(u, m))
    BY <2>1, <2>3, <2>5
  <2> HIDE DEF data, to
  <2> QED
    BY <1>6, <2>2, <2>8, <2>9
<1>10. CASE SwitchAsynchronousDelivery(f)
  <2>1. PICK s : s = [fed[f] EXCEPT !.async = ~@]
    OBVIOUS
  <2>2. Called(f, s) /\ fed[f].member = "in" /\ IsState(fed[f])
    BY <1>10, <2>1 DEF SwitchAsynchronousDelivery, May, Consistent, TypeOK
  <2>3. IsState(s)
    BY <2>1, <2>2 DEF IsState
  <2>4. /\ s.member = fed[f].member /\ s.known = fed[f].known /\ s.reg = fed[f].reg /\ s.con = fed[f].con
        /\ s.enableSet = fed[f].enableSet /\ s.stamps = fed[f].stamps /\ s.bounds = fed[f].bounds
        /\ s.cTA = fed[f].cTA /\ s.out = fed[f].out /\ s.tso = fed[f].tso /\ s.sent = fed[f].sent
    BY <2>1, <2>2 DEF IsState
  <2>5. Quiet(f, fed[f], s)
    BY <2>2, <2>3, <2>4, QuietSame
  <2> QED
    BY <1>6, <2>2, <2>5
<1>11. CASE SwitchPendingTimeInNextMessageRequest(f)
  <2>1. PICK s : s = [fed[f] EXCEPT !.allowPend = ~@]
    OBVIOUS
  <2>2. Called(f, s) /\ fed[f].member = "in" /\ IsState(fed[f])
    BY <1>11, <2>1 DEF SwitchPendingTimeInNextMessageRequest, May, Consistent, TypeOK
  <2>3. IsState(s)
    BY <2>1, <2>2 DEF IsState
  <2>4. /\ s.member = fed[f].member /\ s.known = fed[f].known /\ s.reg = fed[f].reg /\ s.con = fed[f].con
        /\ s.enableSet = fed[f].enableSet /\ s.stamps = fed[f].stamps /\ s.bounds = fed[f].bounds
        /\ s.cTA = fed[f].cTA /\ s.out = fed[f].out /\ s.tso = fed[f].tso /\ s.sent = fed[f].sent
    BY <2>1, <2>2 DEF IsState
  <2>5. Quiet(f, fed[f], s)
    BY <2>2, <2>3, <2>4, QuietSame
  <2> QED
    BY <1>6, <2>2, <2>5
<1>12. CASE Resign(f)
  BY <1>12 DEF CallCases
<1> QED
  BY <1>1, <1>2, <1>3, <1>4, <1>5, <1>7, <1>8, <1>9, <1>10, <1>11, <1>12 DEF Call

LEMMA callStep ==
  ASSUME Consistent, NEW f \in Federates, Call(f)
  PROVE  Kept
<1>1. CallCases(f)
  BY callCases
<1>2. ASSUME fed[f].member = "in", NEW s, Called(f, s), Quiet(f, fed[f], s) PROVE Kept
  <2>1. fed' = [fed EXCEPT ![f] = s] /\ toFed' = toFed /\ server' = server
    BY <1>2 DEF Called
  <2> QED
    BY <1>2, <2>1, quietStep
<1>3. ASSUME fed[f].member = "in", fed[f].reg = "Disabled", NEW t \in Nat, NEW la \in Nat,
             Called(f, _enableTimeRegulation(f, fed[f], t, la))
      PROVE  Kept
  BY <1>3, enableRegulationStep
<1> QED
  BY <1>1, <1>2, <1>3, disableRegulationStep, constrainedStep, resignStep DEF CallCases

LEMMA joinedState ==
  ASSUME Consistent, NEW f \in Federates, Join(f)
  PROVE  Joined(fed, toFed, server, f, fed', toFed', server')
<1>1. TypeOK /\ TypeOK' /\ fed[f].member = "out"
  BY joinType DEF Consistent, Join
<1>2. MemberOK(fed, toFed, server, f) /\ Protocol(fed, toFed, server)
  BY DEF Consistent, Protocol
<1>3. toFed[f] = <<>> /\ f \notin server.members /\ f \notin server.regulating
  BY <1>1, <1>2 DEF MemberOK
<1>4. toFed'[f] = <<>> \o PushMembers \o PushRegulating \o <<[type |-> "JoinResponse", fed |-> f]>>
  BY <1>3 DEF Join
<1>5. Pushed(server, f, toFed'[f])
  BY <1>1, <1>3, <1>4, PushedAll
<1>6. \A x \in Federates \ {f} :
        toFed'[x] = IF x \in server.members THEN Append(toFed[x], JoinNotify(f)) ELSE toFed[x]
  BY DEF Join, JoinNotify
<1>7. /\ server'.members = server.members \cup {f}
      /\ server'.regulating = server.regulating /\ server'.constrained = server.constrained
  BY <1>1 DEF Join, TypeOK, IsServer
<1>8. PICK t : t = [fed[f] EXCEPT !.member = "joining"]
  OBVIOUS
<1>9. fed'[f] = t /\ \A x \in Federates \ {f} : fed'[x] = fed[x]
  BY <1>1, <1>8, fedChanges DEF Join
<1>10. IsServer(server') /\ IsState(fed'[f])
  BY <1>1 DEF TypeOK
<1> QED
  BY <1>1, <1>2, <1>5, <1>6, <1>7, <1>8, <1>9, <1>10 DEF Joined

LEMMA joinStep ==
  ASSUME Consistent, NEW f \in Federates, Join(f)
  PROVE  Kept
<1>1. Joined(fed, toFed, server, f, fed', toFed', server')
  BY joinedState
<1>2. Protocol(fed', toFed', server')
  BY <1>1, JoinNet
<1>3. PICK t : t = [fed[f] EXCEPT !.member = "joining"]
  OBVIOUS
<1>4. fed'[f] = t /\ \A x \in Federates \ {f} : fed'[x] = fed[x]
  BY <1>1, <1>3 DEF Joined
<1>5. LocalOK(fed'[f])
  <2>1. LocalOK(fed[f]) /\ IsState(fed[f])
    BY DEF Consistent, TypeOK
  <2>2. /\ t.tso = fed[f].tso /\ t.reg = fed[f].reg /\ t.con = fed[f].con /\ t.enableSet = fed[f].enableSet
        /\ t.cTA = fed[f].cTA /\ t.out = fed[f].out
    BY <1>3, <2>1 DEF IsState
  <2>3. LocalOK(t)
    BY <2>1, <2>2 DEF LocalOK
  <2> QED
    BY <1>4, <2>3
<1> QED
  BY <1>2, <1>4, <1>5 DEF Consistent, Kept

LEMMA takenState ==
  ASSUME Consistent, NEW f \in Federates, Accept(f)
  PROVE  /\ Taken(fed, toFed, server, f, fed', toFed') /\ server' = server /\ LocalOK(fed[f])
         /\ fed'[f] = acceptInternalMessage(f, fed[f], Head(toFed[f]))
<1>1. TypeOK /\ TypeOK' /\ Protocol(fed, toFed, server) /\ LocalOK(fed[f])
  BY acceptType DEF Consistent
<1>2. /\ toFed[f] # <<>> /\ fed[f].member # "resigned" /\ server' = server
      /\ toFed'[f] = Tail(toFed[f]) /\ \A x \in Federates \ {f} : toFed'[x] = toFed[x]
  BY <1>1 DEF Accept, Receive, TypeOK
<1>3. /\ fed'[f] = acceptInternalMessage(f, fed[f], Head(toFed[f]))
      /\ \A x \in Federates \ {f} : fed'[x] = fed[x]
  BY <1>1, fedChanges DEF Accept
<1>4. IsState(fed'[f])
  BY <1>1 DEF TypeOK
<1> QED
  BY <1>1, <1>2, <1>3, <1>4 DEF Taken

LEMMA acceptStepKept ==
  ASSUME Consistent, NEW f \in Federates, Accept(f)
  PROVE  Kept
<1>1. /\ Taken(fed, toFed, server, f, fed', toFed') /\ server' = server /\ LocalOK(fed[f])
      /\ fed'[f] = acceptInternalMessage(f, fed[f], Head(toFed[f]))
  BY takenState
<1>2. Protocol(fed', toFed', server) /\ LocalOK(fed'[f])
  BY <1>1, AcceptStep
<1> QED
  BY <1>1, <1>2 DEF Consistent, Kept, Taken

\* What a callback does to its federate: beyond minor messages, it may be the one
\* that confirms a mode.
Confirms(s, r) ==
  /\ r.member = s.member /\ r.known = s.known /\ r.enableSet = s.enableSet
  /\ r.stamps = s.stamps /\ r.bounds = s.bounds /\ r.cTA = s.cTA /\ r.sent = s.sent
  /\ \/ /\ s.reg = "EnablePending" /\ s.enableSet = {} /\ r.reg = "Enabled" /\ r.con = s.con
     \/ s.con = "EnablePending" /\ r.con = "Enabled" /\ r.reg = s.reg

DispatchCases(f) ==
  /\ fed[f].member = "in" /\ toFed' = toFed /\ server' = server
  /\ \E s, r : /\ fed' = [fed EXCEPT ![f] = r] /\ IsState(r) /\ LocalOK(r)
               /\ Quiet(f, fed[f], s)
               /\ r = s \/ Confirms(s, r)

LEMMA dispatchCases ==
  ASSUME Consistent, NEW f \in Federates, DispatchReceiveOrder(f) \/ DispatchTimeStampOrder(f)
  PROVE  DispatchCases(f)
<1>1. CASE DispatchReceiveOrder(f)
  <2>1. IsState(fed[f]) /\ fed[f].ro # <<>> /\ fed[f].member = "in" /\ toFed' = toFed /\ server' = server
    BY <1>1 DEF DispatchReceiveOrder, receiveOrderCallback, Consistent, TypeOK
  <2>2. fed[f].ro \in Seq(DataMessages)
    BY <2>1, Fields
  <2>3. PICK q : q = Tail(fed[f].ro)
    OBVIOUS
  <2>4. q \in Seq(DataMessages)
    BY <2>1, <2>2, <2>3, TailAt
  <2>5. PICK s : s = [fed[f] EXCEPT !.ro = q]
    OBVIOUS
  <2>6. fed' = [fed EXCEPT ![f] = s]
    BY <1>1, <2>3, <2>5 DEF DispatchReceiveOrder
  <2>7. Quiet(f, fed[f], s)
    BY <2>1, <2>4, <2>5, roQuiet
  <2>8. IsState(s) /\ LocalOK(s)
    BY <2>1, <2>7, QuietLocal, memberFacts DEF Quiet
  <2> QED
    BY <2>1, <2>6, <2>7, <2>8 DEF DispatchCases
<1>2. CASE DispatchTimeStampOrder(f)
  <2>1. fed[f].member = "in" /\ toFed' = toFed /\ server' = server
    BY <1>2 DEF DispatchTimeStampOrder
  <2>2. f \in server.members /\ fed[f].member # "resigned" /\ IsState(fed[f]) /\ LocalOK(fed[f])
    BY <2>1, memberFacts
  <2>3. PICK s : s = checkForPendingFlushQueue(fed[f])
    OBVIOUS
  <2>4. PICK r : r = acceptCallback([s EXCEPT !.tso = Tail(@)], Head(s.tso).msg)
    OBVIOUS
  <2>5. s.tso # <<>> /\ fed' = [fed EXCEPT ![f] = r]
    BY <1>2, <2>3, <2>4 DEF DispatchTimeStampOrder, timeStampOrderCallback
  <2>6. Quiet(f, fed[f], s) /\ IsState(s)
    <3>1. Quiet(f, fed[f], s)
      BY <2>2, <2>3, checkForPendingFlushQueueQuiet
    <3> QED
      BY <3>1 DEF Quiet
  <2>7. LocalOK(s)
    BY <2>2, <2>6, QuietLocal
  <2>8. /\ IsState(r) /\ LocalOK(r)
        /\ \/ Quiet(f, s, r)
           \/ /\ s.reg = "EnablePending" /\ s.enableSet = {} /\ r.reg = "Enabled" /\ r.con = s.con
              /\ r.member = s.member /\ r.known = s.known /\ r.enableSet = s.enableSet
              /\ r.stamps = s.stamps /\ r.bounds = s.bounds /\ r.cTA = s.cTA /\ r.sent = s.sent
           \/ /\ s.con = "EnablePending" /\ r.con = "Enabled" /\ r.reg = s.reg
              /\ r.member = s.member /\ r.known = s.known /\ r.enableSet = s.enableSet
              /\ r.stamps = s.stamps /\ r.bounds = s.bounds /\ r.cTA = s.cTA /\ r.sent = s.sent
    BY <2>4, <2>5, <2>6, <2>7, callbackAlike
  <2>9. CASE Quiet(f, s, r)
    <3>1. Quiet(f, fed[f], r)
      BY <2>6, <2>9, QuietTrans
    <3> QED
      BY <2>1, <2>5, <2>8, <3>1 DEF DispatchCases
  <2>10. CASE ~Quiet(f, s, r)
    <3>1. Confirms(s, r)
      BY <2>8, <2>10 DEF Confirms
    <3> QED
      BY <2>1, <2>5, <2>6, <2>8, <3>1 DEF DispatchCases
  <2> QED
    BY <2>9, <2>10
<1> QED
  BY <1>1, <1>2

LEMMA dispatchStep ==
  ASSUME Consistent, NEW f \in Federates, DispatchReceiveOrder(f) \/ DispatchTimeStampOrder(f)
  PROVE  Kept
<1>1. DispatchCases(f)
  BY dispatchCases
<1>2. fed[f].member = "in" /\ toFed' = toFed /\ server' = server
  BY <1>1 DEF DispatchCases
<1>3. PICK s, r : /\ fed' = [fed EXCEPT ![f] = r] /\ IsState(r) /\ LocalOK(r)
                  /\ Quiet(f, fed[f], s)
                  /\ r = s \/ Confirms(s, r)
  BY <1>1 DEF DispatchCases
<1>4. f \in server.members /\ fed[f].member # "resigned"
  BY <1>2, memberFacts
<1>5. CASE r = s
  BY <1>2, <1>3, <1>5, quietStep
<1>6. CASE Confirms(s, r)
  <2>1. PICK F2 : F2 = [x \in Federates |-> IF x = f THEN s ELSE fed[x]]
    OBVIOUS
  <2>2. F2[f] = s /\ \A x \in Federates \ {f} : F2[x] = fed[x]
    BY <2>1
  <2>3. Steady(f, fed[f], F2[f])
    BY <1>3, <2>2, QuietSteady
  <2>4. Protocol(F2, toFed, server)
    BY <1>4, <2>2, <2>3, SteadyNet DEF Consistent
  <2>5. fed'[f] = r /\ \A x \in Federates \ {f} : fed'[x] = F2[x]
    BY <1>3, <2>2, fedChanges DEF Consistent
  <2>6. /\ fed'[f].member = F2[f].member /\ fed'[f].known = F2[f].known /\ fed'[f].bounds = F2[f].bounds
        /\ fed'[f].enableSet = F2[f].enableSet /\ fed'[f].sent = F2[f].sent
        /\ (fed'[f].reg # "Disabled" <=> F2[f].reg # "Disabled")
        /\ (fed'[f].con # "Disabled" <=> F2[f].con # "Disabled")
        /\ (fed'[f].reg = F2[f].reg \/ F2[f].enableSet = {})
        /\ IsState(fed'[f]) /\ F2[f].member # "resigned"
    <3>1. s.member = fed[f].member
      BY <1>3 DEF Quiet
    <3> QED
      BY <1>3, <1>4, <1>6, <2>2, <2>5, <3>1 DEF Confirms
  <2>7. Protocol(fed', toFed, server)
    BY <1>4, <2>4, <2>5, <2>6, CallbackNet
  <2> QED
    BY <1>2, <1>3, <2>2, <2>5, <2>7 DEF Consistent, Kept
<1> QED
  BY <1>3, <1>5, <1>6

\* The server takes a message of f.
LEMMA takenFields ==
  ASSUME Consistent, NEW f \in Federates, Take(f)
  PROVE  /\ fed[f].sent # <<>> /\ fed[f].sent \in Seq(ToServer) /\ Head(fed[f].sent) \in ToServer
         /\ IsState(fed'[f]) /\ fed'[f].sent = Tail(fed[f].sent) /\ fed'[f].member = fed[f].member
         /\ fed'[f].known = fed[f].known /\ fed'[f].reg = fed[f].reg /\ fed'[f].con = fed[f].con
         /\ fed'[f].enableSet = fed[f].enableSet /\ fed'[f].bounds = fed[f].bounds
         /\ fed'[f].cTA = fed[f].cTA /\ fed'[f].stamps = fed[f].stamps
         /\ \A x \in Federates \ {f} : fed'[x] = fed[x]
         /\ \A g \in Federates : LocalOK(fed'[g])
<1>1. TypeOK /\ IsState(fed[f]) /\ LocalOK(fed[f]) /\ fed[f].sent # <<>>
  BY DEF Consistent, TypeOK, Take
<1>2. Head(fed[f].sent) \in ToServer /\ fed[f].sent \in Seq(ToServer) /\ IsState(fed'[f])
  BY <1>1, takeType, Fields
<1>3. PICK q : q = Tail(fed[f].sent)
  OBVIOUS
<1>4. PICK t : t = [fed[f] EXCEPT !.sent = q]
  OBVIOUS
<1>5. fed'[f] = t /\ \A x \in Federates \ {f} : fed'[x] = fed[x]
  BY <1>1, <1>3, <1>4, fedChanges DEF Take
<1>6. /\ t.sent = q /\ t.member = fed[f].member
      /\ t.known = fed[f].known /\ t.reg = fed[f].reg /\ t.con = fed[f].con
      /\ t.enableSet = fed[f].enableSet /\ t.bounds = fed[f].bounds
      /\ t.tso = fed[f].tso /\ t.cTA = fed[f].cTA /\ t.out = fed[f].out /\ t.stamps = fed[f].stamps
  BY <1>1, <1>4 DEF IsState
<1>7. LocalOK(t)
  BY <1>1, <1>6 DEF LocalOK
<1> QED
  BY <1>1, <1>2, <1>3, <1>5, <1>6, <1>7 DEF Consistent

\* The server serves the message m of f: whom it passes it on to, and what becomes of
\* the bounds that it keeps for those who join later.
Relays(F, Q, S, f, m, F2, Q2, S2) ==
  /\ Served(F, Q, S, f, m, F2, Q2, S2)
  /\ F2[f].cTA = F[f].cTA /\ F2[f].stamps = F[f].stamps
  /\ m.type = "EnableReg" => m \in ToFederate /\ \A y \in S.members : Q2[y] = Append(Q[y], m)
  /\ m.type = "EnableRegResponse" =>
       /\ \A y \in Federates \ {m.to} : Q2[y] = Q[y]
       /\ m.to \in S.members => m \in ToFederate /\ Q2[m.to] = Append(Q[m.to], m)
  /\ m.type = "DisableReg" => \A y \in S.members \ {f} : m \in ToFederate /\ Q2[y] = Append(Q[y], m)
  /\ m.type = "Commit" => Q2[f] = Q[f]
  /\ \A g \in S2.regulating :
       \/ g \in S.regulating /\ S2.ta[g] = S.ta[g]
       \/ /\ g = f /\ S2.ta[f] = m.ts
          /\ m.type = "EnableReg" \/ (m.type = "Commit" /\ "TA" \in m.ct)

LEMMA RelaysNet ==
  ASSUME NEW F, NEW Q, NEW S, NEW f, NEW m, NEW F2, NEW Q2, NEW S2, Relays(F, Q, S, f, m, F2, Q2, S2)
  PROVE  Protocol(F2, Q2, S2)
<1>1. Served(F, Q, S, f, m, F2, Q2, S2)
  BY DEF Relays
<1>2. CASE m.type = "EnableReg"
  <2>1. m \in ToFederate /\ \A x \in S.members : Q2[x] = Append(Q[x], m)
    BY <1>2 DEF Relays
  <2> QED
    BY <1>1, <1>2, <2>1, ServeRequest
<1>3. CASE m.type = "EnableRegResponse"
  <2>1. \A x \in Federates : x # m.to => Q2[x] = Q[x]
    BY <1>3 DEF Relays
  <2> QED
    BY <1>1, <1>3, <2>1, ServeAnswer
<1>4. CASE m.type \notin {"EnableReg", "EnableRegResponse"}
  <2>1. /\ m.type = "Commit" => Q2[f] = Q[f]
        /\ m.type = "DisableReg" => \A x \in S.members \ {f} : m \in ToFederate /\ Q2[x] = Append(Q[x], m)
    BY DEF Relays
  <2> QED
    BY <1>1, <1>4, <2>1, ServePlain
<1> QED
  BY <1>2, <1>3, <1>4

LEMMA servedState ==
  ASSUME Consistent, TypeOK', NEW f \in Federates, Take(f),
         NEW m, m = Head(fed[f].sent), m.type # "Resign",
         \A x \in Federates : Grown(toFed[x], toFed'[x], m) /\ (x \notin server.members => toFed'[x] = toFed[x]),
         server'.members = server.members,
         \A x \in Federates \ {f} : /\ x \in server'.regulating <=> x \in server.regulating
                                    /\ x \in server'.constrained <=> x \in server.constrained,
         f \in server'.regulating <=> m.type = "EnableReg" \/ (f \in server.regulating /\ m.type # "DisableReg"),
         f \in server'.constrained <=> m.type = "EnableCon" \/ (f \in server.constrained /\ m.type # "DisableCon")
  PROVE  Served(fed, toFed, server, f, m, fed', toFed', server')
<1>1. /\ fed[f].sent # <<>> /\ fed[f].sent \in Seq(ToServer) /\ Head(fed[f].sent) \in ToServer
      /\ IsState(fed'[f]) /\ fed'[f].sent = Tail(fed[f].sent) /\ fed'[f].member = fed[f].member
      /\ fed'[f].known = fed[f].known /\ fed'[f].reg = fed[f].reg /\ fed'[f].con = fed[f].con
      /\ fed'[f].enableSet = fed[f].enableSet /\ fed'[f].bounds = fed[f].bounds
      /\ \A x \in Federates \ {f} : fed'[x] = fed[x]
  BY takenFields
<1>2. IsServer(server') /\ Protocol(fed, toFed, server)
  BY DEF Consistent, TypeOK
<1> QED
  BY <1>1, <1>2 DEF Served

\* m is passed on to some of the members.
LEMMA toAllGrows ==
  ASSUME TypeOK, NEW m \in ToFederate, NEW R, R \subseteq server.members, ToAll(m, R)
  PROVE  /\ \A x \in Federates : Grown(toFed[x], toFed'[x], m) /\ (x \notin server.members => toFed'[x] = toFed[x])
         /\ \A x \in Federates : x \in R => toFed'[x] = Append(toFed[x], m)
         /\ \A x \in Federates : x \notin R => toFed'[x] = toFed[x]
<1>1. \A x \in Federates : toFed'[x] = IF x \in R THEN Append(toFed[x], m) ELSE toFed[x]
  BY DEF ToAll
<1> QED
  BY <1>1 DEF Grown

LEMMA serveRegulationState ==
  ASSUME Consistent, NEW f \in Federates, ServeEnableTimeRegulation(f) \/ ServeDisableTimeRegulation(f)
  PROVE  \E m : Relays(fed, toFed, server, f, m, fed', toFed', server')
<1>1. Take(f) /\ Serve(f)
  BY DEF ServeEnableTimeRegulation, ServeDisableTimeRegulation, Serve
<1>2. TypeOK /\ TypeOK' /\ IsServer(server)
  BY <1>1, serveType DEF Consistent, TypeOK
<1>3. PICK m : m = Head(fed[f].sent)
  OBVIOUS
<1>4. m \in ToServer /\ fed'[f].cTA = fed[f].cTA /\ fed'[f].stamps = fed[f].stamps
  BY <1>1, <1>3, takenFields
<1>5. CASE ServeEnableTimeRegulation(f)
  <2>1. m.type = "EnableReg" /\ ToAll(m, server.members)
    BY <1>3, <1>5 DEF ServeEnableTimeRegulation, Arrived
  <2>2. m \in ToFederate
    BY <1>4, <2>1, ToServerCases DEF ToFederate, Relayed
  <2>3. PICK R : R = server.members
    OBVIOUS
  <2>4. /\ \A x \in Federates : Grown(toFed[x], toFed'[x], m) /\ (x \notin server.members => toFed'[x] = toFed[x])
        /\ \A x \in Federates : x \in R => toFed'[x] = Append(toFed[x], m)
    BY <1>2, <2>1, <2>2, <2>3, toAllGrows
  <2>5. /\ server'.members = server.members /\ server'.regulating = server.regulating \cup {f}
        /\ server'.constrained = server.constrained
    BY <1>2, <1>5 DEF ServeEnableTimeRegulation, IsServer
  <2>6. Served(fed, toFed, server, f, m, fed', toFed', server')
    BY <1>1, <1>2, <1>3, <2>1, <2>4, <2>5, servedState
  <2>7. \A x \in server.members : toFed'[x] = Append(toFed[x], m)
    BY <1>2, <2>3, <2>4, ServerFields
  <2>8. \A g \in server'.regulating :
          (g \in server.regulating /\ server'.ta[g] = server.ta[g]) \/ (g = f /\ server'.ta[f] = m.ts)
    <3>1. server'.ta = Put(server.ta, f, m.ts)
      BY <1>2, <1>3, <1>5 DEF ServeEnableTimeRegulation, IsServer
    <3>2. \A g \in DOMAIN server'.ta : server'.ta[g] = IF g = f THEN m.ts ELSE server.ta[g]
      BY <3>1 DEF Put
    <3> QED
      BY <1>2, <2>5, <3>2 DEF TypeOK, IsServer
  <2> QED
    BY <1>4, <2>1, <2>2, <2>6, <2>7, <2>8 DEF Relays
<1>6. CASE ServeDisableTimeRegulation(f)
  <2>1. m.type = "DisableReg" /\ ToAll(m, server.members \ {f})
    BY <1>3, <1>6 DEF ServeDisableTimeRegulation, Arrived
  <2>2. m \in ToFederate
    BY <1>4, <2>1, ToServerCases DEF ToFederate, Notices
  <2>3. PICK R : R = server.members \ {f}
    OBVIOUS
  <2>4. /\ \A x \in Federates : Grown(toFed[x], toFed'[x], m) /\ (x \notin server.members => toFed'[x] = toFed[x])
        /\ \A x \in Federates : x \in R => toFed'[x] = Append(toFed[x], m)
    BY <1>2, <2>1, <2>2, <2>3, toAllGrows
  <2>5. /\ server'.members = server.members /\ server'.regulating = server.regulating \ {f}
        /\ server'.constrained = server.constrained
    BY <1>2, <1>6 DEF ServeDisableTimeRegulation, IsServer
  <2>6. Served(fed, toFed, server, f, m, fed', toFed', server')
    BY <1>1, <1>2, <1>3, <2>1, <2>4, <2>5, servedState
  <2>7. \A x \in server.members \ {f} : m \in ToFederate /\ toFed'[x] = Append(toFed[x], m)
    BY <1>2, <2>2, <2>3, <2>4, ServerFields
  <2>8. \A g \in server'.regulating : g \in server.regulating /\ server'.ta[g] = server.ta[g]
    <3>1. server'.ta = Drop(server.ta, f)
      BY <1>2, <1>6 DEF ServeDisableTimeRegulation, IsServer
    <3>2. \A g \in DOMAIN server'.ta : server'.ta[g] = server.ta[g]
      BY <3>1 DEF Drop
    <3> QED
      BY <1>2, <2>5, <3>2 DEF TypeOK, IsServer
  <2> QED
    BY <1>4, <2>1, <2>6, <2>7, <2>8 DEF Relays
<1> QED
  BY <1>5, <1>6

LEMMA serveConstrainedState ==
  ASSUME Consistent, NEW f \in Federates, ServeEnableTimeConstrained(f) \/ ServeDisableTimeConstrained(f)
  PROVE  \E m : Relays(fed, toFed, server, f, m, fed', toFed', server')
<1>1. Take(f) /\ Serve(f) /\ toFed' = toFed
  BY DEF ServeEnableTimeConstrained, ServeDisableTimeConstrained, Serve
<1>2. TypeOK /\ TypeOK' /\ IsServer(server)
  BY <1>1, serveType DEF Consistent, TypeOK
<1>3. PICK m : m = Head(fed[f].sent)
  OBVIOUS
<1>4. m \in ToServer /\ fed'[f].cTA = fed[f].cTA /\ fed'[f].stamps = fed[f].stamps
  BY <1>1, <1>3, takenFields
<1>5. \A x \in Federates : Grown(toFed[x], toFed'[x], m) /\ (x \notin server.members => toFed'[x] = toFed[x])
  BY <1>1 DEF Grown
<1>6. /\ m.type \in {"EnableCon", "DisableCon"}
      /\ server'.members = server.members /\ server'.regulating = server.regulating /\ server'.ta = server.ta
      /\ (m.type = "EnableCon" => server'.constrained = server.constrained \cup {f})
      /\ (m.type = "DisableCon" => server'.constrained = server.constrained \ {f})
  BY <1>2, <1>3 DEF ServeEnableTimeConstrained, ServeDisableTimeConstrained, Arrived, IsServer
<1>7. Served(fed, toFed, server, f, m, fed', toFed', server')
  BY <1>1, <1>2, <1>3, <1>5, <1>6, servedState
<1> QED
  BY <1>4, <1>6, <1>7 DEF Relays

\* What is passed on does not change the modes that the server knows.
LEMMA serveRelayedState ==
  ASSUME Consistent, NEW f \in Federates,
         ServeCommit(f) \/ ServeResponse(f) \/ ServeLocked(f) \/ ServeData(f)
  PROVE  \E m : Relays(fed, toFed, server, f, m, fed', toFed', server')
<1>1. Take(f) /\ Serve(f)
  BY DEF ServeCommit, ServeResponse, ServeLocked, ServeData, Serve
<1>2. TypeOK /\ TypeOK' /\ IsServer(server)
  BY <1>1, serveType DEF Consistent, TypeOK
<1>3. PICK m : m = Head(fed[f].sent)
  OBVIOUS
<1>4. m \in ToServer /\ fed'[f].cTA = fed[f].cTA /\ fed'[f].stamps = fed[f].stamps
  BY <1>1, <1>3, takenFields
<1>5. PICK R : /\ R \subseteq server.members /\ ToAll(m, R)
               /\ m.type \in {"Commit", "EnableRegResponse", "CommitResponse", "Locked", "Data"}
               /\ m.type = "Commit" => f \notin R
               /\ m.type = "EnableRegResponse" => R = server.members \cap {m.to}
  <2>1. CASE ServeCommit(f)
    <3>1. m.type = "Commit" /\ ToAll(m, CommitReceivers(f))
      BY <1>3, <2>1 DEF ServeCommit, Arrived
    <3>2. server.constrained \subseteq server.members
      <4>1. \A g \in Federates : g \notin server.members => g \notin server.constrained
        BY DEF Consistent, Protocol, MemberOK
      <4> QED
        BY <1>2, <4>1, ServerFields
    <3>3. CommitReceivers(f) \subseteq server.members /\ f \notin CommitReceivers(f)
      BY <3>2 DEF CommitReceivers
    <3> QED
      BY <3>1, <3>3
  <2>2. CASE ServeResponse(f)
    <3>1. m.type \in {"EnableRegResponse", "CommitResponse"} /\ ToAll(m, server.members \cap {m.to})
      BY <1>3, <2>2 DEF ServeResponse, Arrived
    <3> QED
      BY <3>1
  <2>3. CASE ServeLocked(f)
    <3>1. m.type = "Locked" /\ ToAll(m, server.regulating \ {f})
      BY <1>3, <2>3 DEF ServeLocked, Arrived
    <3>2. server.regulating \subseteq server.members
      <4>1. \A g \in Federates : g \notin server.members => g \notin server.regulating
        BY DEF Consistent, Protocol, MemberOK
      <4> QED
        BY <1>2, <4>1, ServerFields
    <3> QED
      BY <3>1, <3>2
  <2>4. CASE ServeData(f)
    <3>1. m.type = "Data" /\ ToAll(m, server.members \ {f})
      BY <1>3, <2>4 DEF ServeData, Arrived
    <3> QED
      BY <3>1
  <2> QED
    BY <2>1, <2>2, <2>3, <2>4
<1>6. m \in ToFederate
  BY <1>4, <1>5, ToServerCases, RelayedTypes DEF Relayed
<1>7. /\ \A x \in Federates : Grown(toFed[x], toFed'[x], m) /\ (x \notin server.members => toFed'[x] = toFed[x])
      /\ \A x \in Federates : x \in R => toFed'[x] = Append(toFed[x], m)
      /\ \A x \in Federates : x \notin R => toFed'[x] = toFed[x]
  BY <1>2, <1>5, <1>6, toAllGrows
<1>8. /\ server'.members = server.members /\ server'.regulating = server.regulating
      /\ server'.constrained = server.constrained
  BY <1>2 DEF ServeCommit, ServeResponse, ServeLocked, ServeData, IsServer
<1>9. Served(fed, toFed, server, f, m, fed', toFed', server')
  BY <1>1, <1>2, <1>3, <1>5, <1>7, <1>8, servedState
<1>10. ASSUME NEW g \in server'.regulating
       PROVE  \/ g \in server.regulating /\ server'.ta[g] = server.ta[g]
              \/ g = f /\ server'.ta[f] = m.ts /\ m.type = "Commit" /\ "TA" \in m.ct
  <2>1. CASE ServeCommit(f)
    <3>1. m.type = "Commit" /\ server'.ta = [server.ta EXCEPT ![f] = IF "TA" \in m.ct THEN m.ts ELSE @]
      BY <1>2, <1>3, <2>1 DEF ServeCommit, Arrived, IsServer
    <3>2. g \in server.regulating /\ g \in DOMAIN server.ta
      BY <1>2, <1>8 DEF IsServer
    <3> QED
      BY <3>1, <3>2
  <2>2. CASE ~ServeCommit(f)
    BY <1>8, <2>2 DEF ServeResponse, ServeLocked, ServeData
  <2> QED
    BY <2>1, <2>2
<1>11. m.type = "EnableRegResponse" =>
         /\ \A y \in Federates \ {m.to} : toFed'[y] = toFed[y]
         /\ m.to \in server.members => m \in ToFederate /\ toFed'[m.to] = Append(toFed[m.to], m)
  BY <1>2, <1>5, <1>6, <1>7, ServerFields
<1>12. m.type = "Commit" => toFed'[f] = toFed[f]
  BY <1>5, <1>7
<1>13. m.type \notin {"EnableReg", "DisableReg"}
  BY <1>5
<1> QED
  BY <1>4, <1>9, <1>10, <1>11, <1>12, <1>13 DEF Relays

LEMMA resignedState ==
  ASSUME Consistent, NEW f \in Federates, ServeResign(f)
  PROVE  /\ Resigned(fed, toFed, server, f, fed', toFed', server')
         /\ \A g \in server'.regulating : server'.ta[g] = server.ta[g]
<1>1. Take(f) /\ Serve(f) /\ Head(fed[f].sent).type = "Resign"
  BY DEF ServeResign, Arrived, Serve
<1>2. TypeOK /\ TypeOK' /\ IsServer(server) /\ Protocol(fed, toFed, server) /\ IsServer(server')
  BY <1>1, serveType DEF Consistent, TypeOK
<1>3. /\ fed[f].sent # <<>>
      /\ IsState(fed'[f]) /\ fed'[f].sent = Tail(fed[f].sent) /\ fed'[f].member = fed[f].member
      /\ fed'[f].reg = fed[f].reg /\ fed'[f].con = fed[f].con /\ fed'[f].bounds = fed[f].bounds
      /\ \A x \in Federates \ {f} : fed'[x] = fed[x]
      /\ \A g \in Federates : LocalOK(fed'[g])
  BY <1>1, takenFields
<1>4. /\ server'.members = server.members \ {f} /\ server'.regulating = server.regulating \ {f}
      /\ server'.constrained = server.constrained \ {f}
  BY <1>2 DEF ServeResign, IsServer
<1>5. PICK disable : disable = IF f \in server.regulating THEN <<DisableRequest(f)>> ELSE <<>>
  OBVIOUS
<1>6. /\ toFed'[f] = <<>>
      /\ \A x \in Federates \ {f} :
           toFed'[x] = IF x \in server.members THEN toFed[x] \o disable \o <<ResignNotify(f)>> ELSE toFed[x]
  BY <1>5 DEF ServeResign, ResignNotify
<1>7. ASSUME NEW x \in Federates PROVE toFed[x] \o disable \o <<ResignNotify(f)>> = Told(toFed[x], f, f \in server.regulating)
  <2>1. toFed[x] \in Seq(ToFederate) /\ DisableRequest(f) \in ToFederate /\ ResignNotify(f) \in ToFederate
    BY <1>2, ResignMessages DEF TypeOK
  <2>2. CASE f \in server.regulating
    <3>1. toFed[x] \o disable = Append(toFed[x], DisableRequest(f))
      BY <1>5, <2>1, <2>2, AppendIsConcat
    <3>2. Append(toFed[x], DisableRequest(f)) \in Seq(ToFederate)
      BY <2>1, AppendAt
    <3>3. Append(toFed[x], DisableRequest(f)) \o <<ResignNotify(f)>> = Append(Append(toFed[x], DisableRequest(f)), ResignNotify(f))
      BY <2>1, <3>2, AppendIsConcat
    <3> QED
      BY <2>2, <3>1, <3>3 DEF Told
  <2>3. CASE f \notin server.regulating
    <3>1. toFed[x] \o disable = toFed[x]
      BY <1>5, <2>1, <2>3, ConcatEmptySeq
    <3>2. toFed[x] \o <<ResignNotify(f)>> = Append(toFed[x], ResignNotify(f))
      BY <2>1, AppendIsConcat
    <3> QED
      BY <2>3, <3>1, <3>2 DEF Told
  <2> QED
    BY <2>2, <2>3
<1>8. \A x \in Federates \ {f} :
        toFed'[x] = IF x \in server.members THEN Told(toFed[x], f, f \in server.regulating) ELSE toFed[x]
  BY <1>6, <1>7
<1>9. Resigned(fed, toFed, server, f, fed', toFed', server')
  BY <1>1, <1>2, <1>3, <1>4, <1>6, <1>8 DEF Resigned
<1>10. \A g \in server'.regulating : server'.ta[g] = server.ta[g]
  <2>1. server'.ta = Drop(server.ta, f)
    BY <1>2 DEF ServeResign, IsServer
  <2>2. \A g \in DOMAIN server'.ta : server'.ta[g] = server.ta[g]
    BY <2>1 DEF Drop
  <2> QED
    BY <1>2, <2>2 DEF IsServer
<1> QED
  BY <1>9, <1>10

LEMMA serveState ==
  ASSUME Consistent, NEW f \in Federates, Serve(f)
  PROVE  \/ ServeResign(f)
         \/ \E m : Relays(fed, toFed, server, f, m, fed', toFed', server')
BY serveRegulationState, serveConstrainedState, serveRelayedState DEF Serve

LEMMA serveStep ==
  ASSUME Consistent, NEW f \in Federates, Serve(f)
  PROVE  Kept
<1>1. Take(f)
  BY DEF Serve, ServeEnableTimeRegulation, ServeDisableTimeRegulation, ServeEnableTimeConstrained,
         ServeDisableTimeConstrained, ServeCommit, ServeResponse, ServeLocked, ServeData, ServeResign
<1>2. \A g \in Federates : LocalOK(fed'[g])
  BY <1>1, takenFields
<1>3. Protocol(fed', toFed', server')
  BY serveState, resignedState, ServeResigned, RelaysNet
<1> QED
  BY <1>2, <1>3 DEF Kept

-----------------------------------------------------------------------------
(* The start *)

LEMMA startedFields ==
  ASSUME Init, NEW f \in Federates, NEW s, s = fed[f]
  PROVE  /\ s.sent = <<>> /\ s.tso = <<>> /\ s.enableSet = {} /\ f \notin DOMAIN s.bounds
         /\ s.reg = (IF f \in InitialRegulating THEN "Enabled" ELSE "Disabled")
         /\ s.con = (IF f \in InitialConstrained THEN "Enabled" ELSE "Disabled")
         /\ f \in InitialMembers => /\ s.member = "in" /\ s.known = InitialMembers \ {f}
                                    /\ DOMAIN s.bounds = InitialRegulating \ {f}
         /\ f \notin InitialMembers => s = NewTimeManagement /\ s.member = "out" /\ DOMAIN s.bounds = {}
         /\ s.reg = "Disabled" => s.cTA = 0
<1>1. InitialRegulating \subseteq InitialMembers /\ InitialConstrained \subseteq InitialMembers
  BY FederationAssumption
<1>2. CASE f \in InitialMembers
  <2>1. s = Started(f)
    BY <1>2 DEF Init
  <2>2. /\ s.sent = <<>> /\ s.tso = <<>> /\ s.enableSet = {}
        /\ s.reg = (IF f \in InitialRegulating THEN "Enabled" ELSE "Disabled")
        /\ s.con = (IF f \in InitialConstrained THEN "Enabled" ELSE "Disabled")
        /\ s.member = "in" /\ s.known = InitialMembers \ {f}
    BY <2>1 DEF Started, NewTimeManagement
  <2>3. DOMAIN s.bounds = InitialRegulating \ {f}
    BY <2>1 DEF Started, NewTimeManagement
  <2>4. f \notin InitialRegulating => s.cTA = 0
    BY <2>1 DEF Started, NewTimeManagement, InitialTime
  <2> QED
    BY <1>2, <2>2, <2>3, <2>4
<1>3. CASE f \notin InitialMembers
  <2>1. s = NewTimeManagement
    BY <1>3 DEF Init
  <2>2. /\ s.sent = <<>> /\ s.tso = <<>> /\ s.enableSet = {} /\ DOMAIN s.bounds = {}
        /\ s.reg = "Disabled" /\ s.con = "Disabled" /\ s.member = "out" /\ s.cTA = 0
    BY <2>1 DEF NewTimeManagement, EmptyMap, InitialTime
  <2> QED
    BY <1>1, <1>3, <2>1, <2>2
<1> QED
  BY <1>2, <1>3

LEMMA initConsistent == Init => Consistent
<1> SUFFICES ASSUME Init PROVE Consistent
  OBVIOUS
<1>1. TypeOK
  BY initType
<1>2. /\ \A g \in Federates : toFed[g] = <<>>
      /\ server.members = InitialMembers /\ server.regulating = InitialRegulating
      /\ server.constrained = InitialConstrained
      /\ InitialRegulating \subseteq InitialMembers /\ InitialConstrained \subseteq InitialMembers
  BY FederationAssumption DEF Init
<1>3. /\ \A X : ~Some(<<>>, X) /\ Single(<<>>, X)
      /\ \A X, Y : ~SomeAfter(<<>>, Y, X) /\ SingleAfter(<<>>, Y, X)
      /\ \A D : \A a \in States : Run(<<>>, D, a, a)
  BY EmptyQueue DEF States
<1>4. ASSUME NEW g \in Federates
      PROVE  /\ LocalOK(fed[g])
             /\ SenderOK(fed, server, g) /\ MemberOK(fed, toFed, server, g) /\ OwnOK(fed, toFed, g)
  <2>1. PICK s : s = fed[g]
    OBVIOUS
  <2>2. /\ s.sent = <<>> /\ s.tso = <<>> /\ s.enableSet = {} /\ g \notin DOMAIN s.bounds
        /\ s.reg = (IF g \in InitialRegulating THEN "Enabled" ELSE "Disabled")
        /\ s.con = (IF g \in InitialConstrained THEN "Enabled" ELSE "Disabled")
        /\ (g \in InitialMembers => s.member = "in")
        /\ (g \notin InitialMembers => s = NewTimeManagement /\ s.member = "out")
        /\ (s.reg = "Disabled" => s.cTA = 0)
    BY <2>1, startedFields
  <2>3. Sorted(<<>>)
    BY DEF Sorted
  <2>4. LocalOK(s)
    BY <1>3, <2>2, <2>3 DEF LocalOK
  <2>5. SenderOK(fed, server, g)
    <3>1. /\ Switch(g \in server.regulating) = Switch(s.reg # "Disabled")
          /\ Switch(g \in server.constrained) = Switch(s.con # "Disabled")
          /\ Switch(s.member = "resigned" => g \in server.members) = Switch(s.member # "resigned")
      BY <1>2, <2>2 DEF Switch
    <3>2. /\ Run(<<>>, RegSteps(g), Switch(s.reg # "Disabled"), Switch(s.reg # "Disabled"))
          /\ Run(<<>>, ConSteps, Switch(s.con # "Disabled"), Switch(s.con # "Disabled"))
          /\ Run(<<>>, OpenSteps, Switch(s.member # "resigned"), Switch(s.member # "resigned"))
      BY <1>3, SwitchType
    <3> QED
      BY <2>1, <2>2, <3>1, <3>2 DEF SenderOK
  <2>6. MemberOK(fed, toFed, server, g)
    BY <1>2, <1>3, <2>1, <2>2 DEF MemberOK
  <2>7. OwnOK(fed, toFed, g)
    BY <1>2, <1>3, <2>1, <2>2 DEF OwnOK
  <2> QED
    BY <2>1, <2>4, <2>5, <2>6, <2>7
<1>5. ASSUME NEW h \in Federates, NEW g \in Federates
      PROVE  /\ ReceiverOK(fed, toFed, server, h, g)
             /\ TokenOK(fed, toFed, h, g)
             /\ KnownOK(fed, toFed, server, h, g)
  <2>1. /\ fed[h].sent = <<>> /\ fed[g].sent = <<>>
        /\ (g \in InitialMembers => fed[g].known = InitialMembers \ {g})
        /\ (h \in InitialMembers => DOMAIN fed[h].bounds = InitialRegulating \ {h})
        /\ (h \notin InitialMembers => DOMAIN fed[h].bounds = {})
    BY startedFields
  <2>2. ReceiverOK(fed, toFed, server, h, g)
    <3>1. h # g => Switch(g \in DOMAIN fed[h].bounds) = Switch(h \in server.members /\ g \in server.regulating)
      BY <1>2, <2>1 DEF Switch
    <3>2. PICK a : a = Switch(g \in DOMAIN fed[h].bounds)
      OBVIOUS
    <3>3. Run(<<>>, MapSteps(g), a, a)
      BY <1>3, <3>2, SwitchType
    <3> QED
      BY <1>2, <3>1, <3>2, <3>3 DEF ReceiverOK
  <2>3. TokenOK(fed, toFed, h, g)
    <3>1. ~Asked(fed, toFed, h, g) /\ AskedOnce(fed, toFed, h, g)
      BY <1>2, <1>3 DEF Asked, AskedOnce
    <3>2. ~Answering(fed, h, g) /\ ~Answered(toFed, h, g)
      BY <1>2, <1>3, <2>1 DEF Answering, Answered
    <3> QED
      BY <1>2, <1>3, <2>1, <3>1, <3>2 DEF TokenOK
  <2>4. KnownOK(fed, toFed, server, h, g)
    BY <1>2, <1>3, <2>1 DEF KnownOK
  <2> QED
    BY <2>2, <2>3, <2>4
<1>6. Types(fed, toFed, server)
  BY <1>1 DEF TypeOK, Types
<1> QED
  BY <1>1, <1>4, <1>5, <1>6 DEF Consistent, Protocol

-----------------------------------------------------------------------------
(* The theorem *)

LEMMA consistentServable ==
  ASSUME Consistent, NEW f \in Federates, fed[f].sent # <<>>
  PROVE  Servable(f, Head(fed[f].sent))
<1>1. fed[f].sent \in Seq(ToServer) /\ SenderOK(fed, server, f)
  BY Fields DEF Consistent, Protocol, TypeOK
<1>2. f \in server.members
  BY <1>1 DEF SenderOK
<1>3. PICK m : m = Head(fed[f].sent)
  OBVIOUS
<1>4. PICK a, b : a = Switch(f \in server.regulating) /\ b = Switch(fed[f].reg # "Disabled")
  OBVIOUS
<1>5. PICK c \in States : <<m, a, c>> \in RegSteps(f)
  <2>1. Run(fed[f].sent, RegSteps(f), a, b)
    BY <1>1, <1>4 DEF SenderOK
  <2> QED
    BY <1>1, <1>3, <2>1, RunTail
<1>6. PICK d, e : d = Switch(f \in server.constrained) /\ e = Switch(fed[f].con # "Disabled")
  OBVIOUS
<1>7. PICK o \in States : <<m, d, o>> \in ConSteps
  <2>1. Run(fed[f].sent, ConSteps, d, e)
    BY <1>1, <1>6 DEF SenderOK
  <2> QED
    BY <1>1, <1>3, <2>1, RunTail
<1>8. RegStep(f, m, a, c) /\ ConStep(m, d, o)
  BY <1>5, <1>7, StepsOf
<1>9. /\ m.type = "EnableReg" => f \notin server.regulating
      /\ m.type \in {"DisableReg", "Commit"} => f \in server.regulating
      /\ m.type = "EnableCon" => f \notin server.constrained
      /\ m.type = "DisableCon" => f \in server.constrained
  BY <1>4, <1>6, <1>8 DEF RegStep, ConStep, Switch
<1>10. Servable(f, m)
  BY <1>2, <1>9 DEF Servable
<1> QED
  BY <1>3, <1>10

LEMMA consistentAcceptable ==
  ASSUME Consistent, NEW f \in Federates, toFed[f] # <<>>, fed[f].member # "resigned"
  PROVE  Acceptable(f, Head(toFed[f]))
<1>1. toFed[f] \in Seq(ToFederate) /\ MemberOK(fed, toFed, server, f)
  BY DEF Consistent, Protocol, TypeOK
<1>2. PICK m : m = Head(toFed[f])
  OBVIOUS
<1>3. m \in ToFederate /\ m \in Messages
  BY <1>1, <1>2, TailAt, MessageIn
<1> SUFFICES ASSUME m.type \in {"Commit", "EnableReg"} PROVE Acceptable(f, m)
  BY <1>2 DEF Acceptable
<1>4. PICK g : g = m.fed
  OBVIOUS
<1>5. g \in Federates
  BY <1>3, <1>4, ToFederateCases DEF CommitMessages, EnableRequests
<1>6. CASE g = f
  <2>1. m.type # "Commit"
    <3>1. ~Some(toFed[f], Of("Commit", f))
      BY <1>1 DEF MemberOK
    <3>2. m \notin Of("Commit", f)
      BY <1>1, <1>2, <3>1, SomeTail
    <3> QED
      BY <1>3, <1>4, <1>6, <3>2 DEF Of
  <2>2. f \notin DOMAIN fed[f].bounds
    BY <1>1 DEF MemberOK
  <2> QED
    BY <1>4, <1>6, <2>1, <2>2 DEF Acceptable
<1>7. CASE g # f
  <2>1. PICK a, b : a = Switch(g \in DOMAIN fed[f].bounds) /\ b = Switch(f \in server.members /\ g \in server.regulating)
    OBVIOUS
  <2>2. Run(toFed[f], MapSteps(g), a, b)
    <3>1. ReceiverOK(fed, toFed, server, f, g)
      BY <1>5 DEF Consistent, Protocol
    <3> QED
      BY <1>7, <2>1, <3>1 DEF ReceiverOK
  <2>3. PICK c \in States : <<m, a, c>> \in MapSteps(g)
    BY <1>1, <1>2, <2>2, RunTail
  <2>4. MapStep(g, m, a, c)
    BY <2>3, StepsOf
  <2>5. /\ m.type = "EnableReg" => m \in On(g)
        /\ m.type = "Commit" => m \in Of("Commit", g)
    BY <1>3, <1>4 DEF On, Of
  <2>6. /\ m.type = "EnableReg" => g \notin DOMAIN fed[f].bounds
        /\ m.type = "Commit" => g \in DOMAIN fed[f].bounds
    BY <2>1, <2>4, <2>5 DEF MapStep, Switch
  <2> QED
    BY <1>4, <2>6 DEF Acceptable
<1> QED
  BY <1>6, <1>7

LEMMA consistentStep == Consistent /\ [Next]_vars => Consistent'
<1> SUFFICES ASSUME Consistent, [Next]_vars PROVE Consistent'
  OBVIOUS
<1>1. CASE Next
  <2>1. PICK f \in Federates :
          Call(f) \/ Join(f) \/ Serve(f) \/ Accept(f)
            \/ DispatchReceiveOrder(f) \/ DispatchTimeStampOrder(f)
    BY <1>1 DEF Next
  <2>2. TypeOK'
    BY <2>1, callType, joinType, serveType, acceptType, dispatchType DEF Consistent
  <2>3. Kept
    BY <2>1, callStep, joinStep, serveStep, acceptStepKept, dispatchStep
  <2> QED
    BY <2>2, <2>3 DEF Consistent, Kept
<1>2. CASE UNCHANGED vars
  <2>1. fed' = fed /\ toFed' = toFed /\ server' = server /\ TypeOK'
    BY <1>2 DEF vars, Consistent, TypeOK, IsServer
  <2> QED
    BY <2>1 DEF Consistent
<1> QED
  BY <1>1, <1>2

\* Whatever joins, resignations, requests and commits cross each other, the server never gets
\* a message for which FederationServer throws MessageError, and no ambassador a commit of a
\* federate that is not in its map or a second entry for one that is: for any number of
\* federates, any programs and any lookaheads.
THEOREM ProtocolErrorFree == Spec => []NoProtocolError
<1>1. Consistent => NoProtocolError
  BY consistentServable, consistentAcceptable DEF NoProtocolError
<1> QED
  BY <1>1, initConsistent, consistentStep, PTL DEF Spec

-----------------------------------------------------------------------------
(* Ordinary programs: they advance by time advance requests and flush queue *)
(* requests, one request at a time, and get no message of their own.        *)

Ordinary ==
  /\ ~DeliverToSelf
  /\ \A f \in Federates : Program[f] \cap {"NMR", "NMRA", "Overlap"} = {}

Each(q, X) == \A i \in DOMAIN q : q[i] \in X

\* Messages are due at their time stamps, callbacks at p.
Dated(p) ==
  {e \in Entries : \/ e.msg.type = "Data" /\ e.at[1] = e.msg.ts /\ e.at[2] = -1
                   \/ e.msg.type # "Data" /\ e.at = p}

\* No message before t
From(t) == {e \in Entries : e.msg.type = "Data" => t <= e.msg.ts}

\* One request is pending at a time, and only members are constrained.
ModesOK(s) ==
  /\ s.adv \notin {"NMR", "NMRA"}
  /\ s.reg = "EnablePending" => s.con # "EnablePending" /\ s.adv = "Granted"
  /\ s.con = "EnablePending" => s.adv = "Granted"
  /\ s.member # "in" => s.con = "Disabled"

\* The queue has one grant for a pending advance, but for a flush only once the queue is empty;
\* all callbacks are due at the pending time.
QueueOK(s) ==
  /\ Some(s.tso, Calling("Granted")) => s.adv # "Granted" /\ (s.con = "Enabled" => s.adv # "FQR")
  /\ Single(s.tso, Calling("Granted"))
  /\ Each(s.tso, Dated(s.pend))

\* What is committed is not beyond what may still be sent; in a flush, nor beyond what may be
\* sent once it is granted.
CommitOK(s) ==
  /\ s.reg # "Disabled" => s.cNM = s.cTA /\ s.cTA <= _toLogicalTime(s.out)
  /\ s.reg = "Enabled" /\ s.adv = "FQR" =>
       s.cTA <= s.pend[1] + s.tgtLA \/ s.cTA <= _toLogicalTime(s.last)

\* A constrained federate is not beyond what it has been promised, nor are its messages
\* in its past.
FloorOK(s) ==
  s.con = "Enabled" =>
    /\ _toLogicalTime(s.now) <= _toLogicalTime(s.pend)
    /\ \A g \in DOMAIN s.bounds : /\ _toLogicalTime(s.now) <= s.bounds[g].ta
                                  /\ s.adv = "FQR" => _toLogicalTime(s.pend) <= s.bounds[g].ta
    /\ Each(s.tso, From(_toLogicalTime(s.now)))

Timely(s) == ModesOK(s) /\ QueueOK(s) /\ CommitOK(s) /\ FloorOK(s)

\* The messages that carry a time stamp of g, those that promise one, and the data
TSO(g) == {m \in Messages : m.type = "Data" /\ m.from = g /\ m.order = "TSO"}
Advances(g) == {m \in Of("Commit", g) : "TA" \in m.ct}
Stamps(g) == Advances(g) \cup TSO(g)

\* A federate in the state t may send time stamps, none below what it has committed.
Promising(t) == t.reg = "Enabled" \/ (t.reg = "EnablePending" /\ t.enableSet = {})

Fresh(f, t) == {m \in Messages : \A h : m \in Stamps(h) => h = f /\ Promising(t) /\ t.cTA <= m.ts}

\* What a call, a message or a callback does to its federate
Goes(f, s, t) ==
  /\ Timely(t)
  /\ Extends(s.sent, t.sent, Fresh(f, t))
  /\ Len(s.tso) <= Len(t.tso)

-----------------------------------------------------------------------------

LEMMA StampTimes ==
  ASSUME NEW g, NEW m \in Stamps(g)
  PROVE  m \in Messages /\ m.ts \in Nat /\ m.type \in {"Commit", "Data"}
<1>1. m \in Messages /\ m.type \in {"Commit", "Data"}
  BY DEF Stamps, Advances, TSO, Of
<1>2. m.ts \in Nat
  BY <1>1 DEF Messages, ToServer, ToFederate, Relayed, Notices, EnableRequests, EnableResponses,
              CommitMessages, CommitResponseMessages, LockedMessages, DataMessages
<1> QED
  BY <1>1, <1>2

\* A callback or a message gets into the queue.
LEMMA queueAtEach ==
  ASSUME NEW s, IsState(s), NEW p \in TimePairs, NEW m \in Callbacks
  PROVE  /\ Len(queueAt(s, p, m).tso) = Len(s.tso) + 1
         /\ \A X : Each(s.tso, X) /\ (\A e \in Entries : e.at = p /\ e.msg = m => e \in X)
                     => Each(queueAt(s, p, m).tso, X)
<1> DEFINE q == s.tso
           notAfter(i) == i <= Len(q) /\ PairLeq(q[i].at, p)
           new == [i \in 1 .. Len(q) + 1 |->
                    IF notAfter(i) THEN q[i]
                    ELSE IF i = 1 \/ notAfter(i - 1) THEN [at |-> p, msg |-> m]
                    ELSE q[i - 1]]
<1>1. q \in Seq(Entries) /\ Len(q) \in Nat /\ DOMAIN q = 1 .. Len(q)
  <2>1. q \in Seq(Entries)
    BY Fields
  <2> QED
    BY <2>1, LenProperties
<1>2. queueAt(s, p, m).tso = new
  BY DEF queueAt, IsState
<1>3. PICK e : e = [at |-> p, msg |-> m]
  OBVIOUS
<1>4. e \in Entries /\ e.at = p /\ e.msg = m
  BY <1>3 DEF Entries
<1>5. ASSUME NEW i \in 1 .. Len(q) + 1 PROVE new[i] = e \/ \E j \in DOMAIN q : new[i] = q[j]
  <2>1. CASE notAfter(i)
    BY <1>1, <2>1
  <2>2. CASE ~notAfter(i)
    <3>1. CASE i = 1
      BY <1>3, <2>2, <3>1
    <3>2. CASE i # 1
      <4>1. i - 1 \in DOMAIN q
        BY <1>1, <3>2
      <4> QED
        BY <1>3, <2>2, <3>2, <4>1
    <3> QED
      BY <3>1, <3>2
  <2> QED
    BY <2>1, <2>2
<1>6. DOMAIN new = 1 .. Len(q) + 1 /\ Len(new) = Len(q) + 1
  <2>1. DOMAIN new = 1 .. Len(q) + 1
    OBVIOUS
  <2>2. Len(q) + 1 \in Nat
    BY <1>1
  <2> HIDE DEF new
  <2> QED
    BY <2>1, <2>2
<1> HIDE DEF new
<1>7. ASSUME NEW X, Each(q, X), \A y \in Entries : y.at = p /\ y.msg = m => y \in X
      PROVE  Each(new, X)
  BY <1>4, <1>5, <1>6, <1>7 DEF Each
<1> QED
  BY <1>2, <1>6, <1>7

LEMMA EachTail ==
  ASSUME NEW T, NEW q \in Seq(T), q # <<>>, NEW X, Each(q, X)
  PROVE  Head(q) \in X /\ Each(Tail(q), X)
<1>1. PICK t : t = Tail(q)
  OBVIOUS
<1>2. /\ Head(q) = q[1] /\ Len(q) \in Nat \ {0}
      /\ DOMAIN t = 1 .. Len(q) - 1 /\ DOMAIN q = 1 .. Len(q)
      /\ \A i \in 1 .. Len(q) - 1 : t[i] = q[i + 1]
  BY <1>1, TailAt
<1>3. \A i \in 1 .. Len(q) - 1 : i + 1 \in DOMAIN q
  BY <1>2
<1>4. Each(t, X)
  BY <1>2, <1>3 DEF Each
<1>5. Head(q) \in X
  BY <1>2 DEF Each
<1> QED
  BY <1>1, <1>4, <1>5

\* Only messages are in the queue when nothing is pending.
LEMMA NothingPending ==
  ASSUME NEW s, IsState(s), QueueOK(s), s.adv = "Granted",
         ~Some(s.tso, Calling("RegulationEnabled")), ~Some(s.tso, Calling("ConstrainedEnabled")),
         NEW p
  PROVE  Each(s.tso, Dated(p)) /\ ~Some(s.tso, Calling("Granted"))
<1>1. s.tso \in Seq(Entries)
  BY Fields
<1>2. ASSUME NEW i \in DOMAIN s.tso PROVE s.tso[i] \in Dated(p)
  <2>1. s.tso[i] \in Entries
    BY <1>1, ElementsIn
  <2>2. PICK e : e = s.tso[i]
    OBVIOUS
  <2>3. e \in Entries /\ e.msg \in Callbacks /\ e \in Dated(s.pend)
    BY <2>1, <2>2 DEF QueueOK, Each, Entries
  <2>4. e.msg.type \in {"Granted", "RegulationEnabled", "ConstrainedEnabled", "Data"}
    BY <2>3 DEF Callbacks, DataMessages
  <2>5. \A type : e.msg.type = type => Some(s.tso, Calling(type))
    BY <2>2, <2>3 DEF Calling, Some
  <2>6. e.msg.type = "Data"
    BY <2>4, <2>5 DEF QueueOK
  <2> QED
    BY <2>2, <2>3, <2>6 DEF Dated
<1> QED
  BY <1>2 DEF Each, QueueOK

LEMMA ToLogical ==
  ASSUME NEW p \in TimePairs
  PROVE  /\ _toLogicalTime(p) \in Nat /\ p[1] \in Nat /\ p[2] \in {-1, 0, 1}
         /\ p[2] = 1 => _toLogicalTime(p) = p[1] + 1
         /\ p[2] # 1 => _toLogicalTime(p) = p[1]
         /\ \A q \in TimePairs : PairLeq(p, q) => _toLogicalTime(p) <= _toLogicalTime(q)
BY DEF TimePairs, _toLogicalTime, nextAfter, PairLeq, PairLess

\* Nobody waits for next message federates.
LEMMA Unblocked ==
  ASSUME NEW f, NEW s, NEW a, s.adv \notin {"NMR", "NMRA"}, a.adv \notin {"NMR", "NMRA"}
  PROVE  checkForPendingTimeAdvance(f, _sendLockedIfChanged(f, s, a), TRUE) = a
<1>1. getLockedByNextMessage(s) = FALSE /\ getLockedByNextMessage(a) = FALSE
  BY DEF getLockedByNextMessage, getIsAnyNextMessageMode
<1>2. _sendLockedIfChanged(f, s, a) = a
  BY <1>1 DEF _sendLockedIfChanged
<1>3. ~getIsAnyNextMessageMode(a)
  BY DEF getIsAnyNextMessageMode
<1>4. checkForPendingTimeAdvance(f, a, TRUE) = a
  BY <1>3 DEF checkForPendingTimeAdvance
<1> QED
  BY <1>2, <1>4

-----------------------------------------------------------------------------
(* What the operations do to a timely federate *)

\* The fields of an ambassador that its promises depend on, but for the bounds and the queue
Level(s, t) ==
  /\ t.member = s.member /\ t.reg = s.reg /\ t.con = s.con /\ t.adv = s.adv
  /\ t.now = s.now /\ t.pend = s.pend /\ t.out = s.out /\ t.last = s.last
  /\ t.cTA = s.cTA /\ t.cNM = s.cNM /\ t.tgtLA = s.tgtLA

\* A constrained federate is within a bound.
Within(s, b) ==
  s.con = "Enabled" => /\ _toLogicalTime(s.now) <= b
                       /\ s.adv = "FQR" => _toLogicalTime(s.pend) <= b

LEMMA LevelTimely ==
  ASSUME NEW s, NEW t, Timely(s), Level(s, t), t.tso = s.tso,
         \A g \in DOMAIN t.bounds : Within(s, t.bounds[g].ta)
  PROVE  Timely(t)
BY DEF Timely, ModesOK, QueueOK, CommitOK, FloorOK, Level, Within

LEMMA BoundsWithin ==
  ASSUME NEW s, Timely(s), NEW g \in DOMAIN s.bounds
  PROVE  Within(s, s.bounds[g].ta)
BY DEF Timely, FloorOK, Within

\* Nothing with a time stamp is sent.
LEMMA PlainFresh ==
  ASSUME NEW f, NEW t, NEW m \in Messages, m.type \notin {"Commit", "Data"}
  PROVE  m \in Fresh(f, t)
BY DEF Fresh, Stamps, Advances, TSO, Of

\* An operation that sends nothing, or a plain message
LEMMA SilentGoes ==
  ASSUME NEW f, NEW s, NEW t, IsState(s), Timely(t), t.sent = s.sent, Len(s.tso) <= Len(t.tso)
  PROVE  Goes(f, s, t)
<1>1. s.sent \in Seq(ToServer)
  BY Fields
<1>2. Extends(s.sent, t.sent, Fresh(f, t))
  BY <1>1, ExtendsRefl
<1> QED
  BY <1>2 DEF Goes

LEMMA SendsGoes ==
  ASSUME NEW f, NEW s, NEW t, IsState(s), Timely(t), NEW m \in ToServer, m \in Fresh(f, t),
         t.sent = Append(s.sent, m), Len(s.tso) <= Len(t.tso)
  PROVE  Goes(f, s, t)
<1>1. s.sent \in Seq(ToServer)
  BY Fields
<1>2. Extends(s.sent, s.sent, Fresh(f, t))
  BY <1>1, ExtendsRefl
<1>3. Extends(s.sent, t.sent, Fresh(f, t))
  BY <1>1, <1>2, ExtendsAppend
<1> QED
  BY <1>3 DEF Goes

LEMMA SameLength == \A s : IsState(s) => Len(s.tso) <= Len(s.tso)
<1>1. ASSUME NEW s, IsState(s) PROVE Len(s.tso) <= Len(s.tso)
  <2>1. s.tso \in Seq(Entries)
    BY <1>1, Fields
  <2>2. Len(s.tso) \in Nat
    BY <2>1, LenProperties
  <2> QED
    BY <2>2
<1> QED
  BY <1>1

\* r is the queue q with m inserted, due at p.
Inserted(q, r, p, m) ==
  /\ Len(q) <= Len(r)
  /\ \A X : Each(q, X) /\ (\A e \in Entries : e.at = p /\ e.msg = m => e \in X) => Each(r, X)
  /\ \A type : m.type # type =>
       /\ Some(r, Calling(type)) => Some(q, Calling(type))
       /\ Single(q, Calling(type)) => Single(r, Calling(type))
  /\ \A type : ~Some(q, Calling(type)) => Single(r, Calling(type))

LEMMA CallbackQueued ==
  ASSUME NEW s, IsState(s), NEW p \in TimePairs, NEW m \in Callbacks, Sorted(s.tso),
         NEW t, t = queueAt(s, p, m)
  PROVE  /\ IsState(t) /\ Level(s, t)
         /\ t.bounds = s.bounds /\ t.enableSet = s.enableSet /\ t.sent = s.sent
         /\ Inserted(s.tso, t.tso, p, m)
<1>1. IsState(t)
  BY queueAtType
<1>2. Level(s, t) /\ t.bounds = s.bounds /\ t.enableSet = s.enableSet /\ t.sent = s.sent
  BY DEF queueAt, IsState, Level
<1>3. s.tso \in Seq(Entries)
  BY Fields
<1>4. Len(s.tso) \in Nat
  BY <1>3, LenProperties
<1>5. Len(s.tso) <= Len(t.tso)
  BY <1>4, queueAtEach
<1>6. \A X : Each(s.tso, X) /\ (\A e \in Entries : e.at = p /\ e.msg = m => e \in X)
                     => Each(t.tso, X)
  BY queueAtEach
<1>7. Sorted(t.tso)
      /\ \A type : m.type # type =>
              /\ Some(t.tso, Calling(type)) => Some(s.tso, Calling(type))
              /\ Single(s.tso, Calling(type)) => Single(t.tso, Calling(type))
  BY queueAtKeeps
<1>8. \A type : ~Some(s.tso, Calling(type)) => Single(t.tso, Calling(type))
  BY queueAtKeeps
<1>9. Inserted(s.tso, t.tso, p, m)
  BY <1>5, <1>6, <1>7, <1>8 DEF Inserted
<1> QED
  BY <1>1, <1>2, <1>9

\* A commit of f is not below what f has committed by then.
LEMMA CommitFresh ==
  ASSUME NEW f, NEW t, Promising(t), NEW m \in Messages, m.type = "Commit", m.fed = f,
         t.cTA <= m.ts
  PROVE  m \in Fresh(f, t)
BY DEF Fresh, Stamps, Advances, TSO, Of

LEMMA checkTimeRegulationEnabledGoes ==
  ASSUME NEW f \in Federates, NEW s, IsState(s), LocalOK(s), Timely(s),
         s.reg = "EnablePending" /\ s.enableSet = {} => ~Some(s.tso, Calling("RegulationEnabled"))
  PROVE  Goes(f, s, checkTimeRegulationEnabled(f, s))
<1>1. CASE s.reg # "EnablePending" \/ s.enableSet # {}
  BY <1>1, checkTimeRegulationEnabledSkips, SilentGoes, SameLength
<1>2. CASE s.reg = "EnablePending" /\ s.enableSet = {}
  <2> DEFINE larger == {s.stamps[g] : g \in DOMAIN s.stamps} \cup {s.out[1]}
             bound  == Max(larger)
             pend   == IF bound = s.out[1] THEN s.pend
                       ELSE PairMax(s.pend, <<bound - s.curLA, 0>>)
             type   == {"TA", "NM"}
             m      == CommitMessage(f, bound, type, s.commitId)
             c      == [s EXCEPT !.out = <<bound, 0>>, !.pend = pend, !.stamps = EmptyMap,
                                 !.cTA = bound, !.cNM = bound, !.sent = Append(@, m)]
  <2>1. s.out[1] \in Nat /\ s.curLA \in Nat /\ s.pend \in TimePairs /\ s.now \in TimePairs
        /\ s.commitId \in CommitIds /\ s.sent \in Seq(ToServer)
    BY Fields, PairTypes
  <2>2. IsMap(s.stamps, Federates, Nat)
    BY Fields
  <2>3. IsFiniteSet({s.stamps[g] : g \in DOMAIN s.stamps})
    BY <2>2, FederatesFinite, ImageFinite DEF IsMap
  <2>4. IsFiniteSet(larger) /\ larger \in SUBSET Nat /\ larger # {}
    BY <2>1, <2>2, <2>3, FS_AddElement DEF IsMap
  <2>5. bound \in Nat
    <3> HIDE DEF larger
    <3> QED
      BY <2>4, MaxNat
  <2>6. checkTimeRegulationEnabled(f, s) = queueAt(c, pend, RegulationEnabled)
    <3> DEFINE ready == [s EXCEPT !.out = <<bound, 0>>, !.pend = pend, !.stamps = EmptyMap]
    <3> HIDE DEF bound, pend
    <3>1. ready.commitId = s.commitId /\ ready.sent = s.sent
      BY DEF IsState
    <3>2. _sendCommitLowerBoundTimeStamp(f, ready, bound, type) = c
      <4>1. _sendCommitLowerBoundTimeStamp(f, ready, bound, type)
              = send([ready EXCEPT !.cTA = bound, !.cNM = bound, !.commitId = s.commitId], m)
        BY <3>1 DEF _sendCommitLowerBoundTimeStamp
      <4> HIDE DEF m
      <4> QED
        BY <4>1, ZenonT(60) DEF send, IsState
    <3> HIDE DEF ready, c
    <3>3. checkTimeRegulationEnabled(f, s)
            = queueAt(_sendCommitLowerBoundTimeStamp(f, ready, bound, type), pend, RegulationEnabled)
      BY <1>2 DEF checkTimeRegulationEnabled, ready, bound, pend
    <3> QED
      BY <3>2, <3>3
  <2> HIDE DEF bound
  <2>7. pend \in TimePairs /\ _toLogicalTime(s.pend) <= _toLogicalTime(pend)
        /\ (s.con = "Enabled" => _toLogicalTime(s.now) <= _toLogicalTime(pend))
    <3>1. pend \in TimePairs
      BY <2>1, <2>5, PairTypes
    <3>2. PairLeq(s.pend, pend)
      BY <2>1, <3>1 DEF PairLeq, PairMax, PairLess, TimePairs
    <3>3. _toLogicalTime(s.pend) <= _toLogicalTime(pend)
      BY <2>1, <3>1, <3>2, ToLogical
    <3> HIDE DEF pend
    <3>4. /\ _toLogicalTime(s.pend) \in Nat /\ _toLogicalTime(pend) \in Nat
          /\ _toLogicalTime(s.now) \in Nat
      BY <2>1, <3>1, PairTypes
    <3>5. s.con = "Enabled" => _toLogicalTime(s.now) <= _toLogicalTime(s.pend)
      BY DEF Timely, FloorOK
    <3> QED
      BY <3>1, <3>3, <3>4, <3>5
  <2> HIDE DEF pend
  <2>8. IsMap(EmptyMap, Federates, Nat)
    BY DEF IsMap, EmptyMap
  <2>9. <<bound, 0>> \in TimePairs
    BY <2>5 DEF TimePairs
  <2>10. m \in ToServer /\ m.type = "Commit" /\ m.fed = f /\ m.ct = type /\ m.ts = bound
    BY <2>1, <2>5, BothCommits, MessageTypes, RelayedTypes DEF CommitMessage
  <2> HIDE DEF m
  <2>11. IsState(c)
    <3>1. ASSUME NEW o \in TimePairs, NEW n \in TimePairs, NEW e, IsMap(e, Federates, Nat),
                 NEW q \in Seq(ToServer)
          PROVE  IsState([s EXCEPT !.out = o, !.pend = n, !.stamps = e, !.cTA = bound, !.cNM = bound,
                                   !.sent = q])
      BY <2>5, <3>1 DEF IsState
    <3>2. Append(s.sent, m) \in Seq(ToServer)
      BY <2>1, <2>10
    <3> QED
      BY <2>7, <2>8, <2>9, <3>1, <3>2
  <2>12. /\ c.member = s.member /\ c.reg = s.reg /\ c.con = s.con /\ c.adv = s.adv
         /\ c.now = s.now /\ c.pend = pend /\ c.enableSet = s.enableSet /\ c.bounds = s.bounds
         /\ c.cTA = bound /\ c.cNM = bound /\ c.out = <<bound, 0>> /\ c.tso = s.tso
         /\ c.sent = Append(s.sent, m)
    BY DEF IsState
  <2> HIDE DEF c
  <2>13. RegulationEnabled.type = "RegulationEnabled" /\ RegulationEnabled \in Callbacks
    BY NotificationTypes DEF RegulationEnabled
  <2>14. PICK r : r = RegulationEnabled
    OBVIOUS
  <2>15. PICK t : t = queueAt(c, pend, r)
    OBVIOUS
  <2>16. Sorted(c.tso)
    BY <2>12 DEF LocalOK
  <2>17. /\ IsState(t) /\ Level(c, t)
         /\ t.bounds = c.bounds /\ t.enableSet = c.enableSet /\ t.sent = c.sent
         /\ Inserted(c.tso, t.tso, pend, r)
    BY <2>7, <2>11, <2>13, <2>14, <2>15, <2>16, CallbackQueued
  <2>18. ModesOK(t) /\ t.adv = "Granted" /\ s.adv = "Granted" /\ s.con # "EnablePending"
    BY <1>2, <2>12, <2>17 DEF Timely, ModesOK, Level
  <2>19. ~Some(s.tso, Calling("ConstrainedEnabled"))
    BY <2>18 DEF LocalOK
  <2>20. Each(s.tso, Dated(pend)) /\ ~Some(s.tso, Calling("Granted"))
    BY <1>2, <2>18, <2>19, NothingPending DEF Timely
  <2>21. QueueOK(t)
    <3>1. \A e \in Entries : e.at = pend /\ e.msg = r => e \in Dated(pend)
      BY <2>13, <2>14 DEF Dated
    <3>2. Each(t.tso, Dated(pend))
      BY <2>12, <2>17, <2>20, <3>1 DEF Inserted
    <3>3. ~Some(t.tso, Calling("Granted"))
      BY <2>12, <2>13, <2>14, <2>17, <2>20 DEF Inserted
    <3>4. Single(t.tso, Calling("Granted"))
      BY <3>3 DEF Single, Some
    <3> QED
      BY <2>12, <2>17, <3>2, <3>3, <3>4 DEF QueueOK, Level
  <2>22. CommitOK(t)
    <3>1. _toLogicalTime(c.out) = bound /\ bound <= bound
      BY <2>5, <2>12 DEF _toLogicalTime
    <3> QED
      BY <1>2, <2>12, <2>17, <3>1 DEF CommitOK, Level
  <2>23. FloorOK(t)
    <3> SUFFICES ASSUME s.con = "Enabled" PROVE FloorOK(t)
      BY <2>12, <2>17 DEF FloorOK, Level
    <3>1. /\ \A g \in DOMAIN s.bounds : _toLogicalTime(s.now) <= s.bounds[g].ta
          /\ Each(s.tso, From(_toLogicalTime(s.now)))
      BY DEF Timely, FloorOK
    <3>2. \A e \in Entries : e.at = pend /\ e.msg = r => e \in From(_toLogicalTime(s.now))
      BY <2>13, <2>14 DEF From
    <3>3. Each(t.tso, From(_toLogicalTime(s.now)))
      BY <2>12, <2>17, <3>1, <3>2 DEF Inserted
    <3> QED
      BY <2>7, <2>12, <2>17, <2>18, <3>1, <3>3 DEF FloorOK, Level
  <2>24. Timely(t)
    BY <2>18, <2>21, <2>22, <2>23 DEF Timely
  <2>25. m \in Fresh(f, t)
    <3>1. Promising(t) /\ t.cTA <= m.ts
      BY <1>2, <2>5, <2>10, <2>12, <2>17 DEF Promising, Level
    <3> QED
      BY <2>10, <3>1, MessageIn, CommitFresh
  <2>26. t.sent = Append(s.sent, m) /\ Len(s.tso) <= Len(t.tso)
    BY <2>12, <2>17 DEF Inserted
  <2>27. Goes(f, s, t)
    BY <2>10, <2>24, <2>25, <2>26, SendsGoes
  <2> QED
    BY <2>6, <2>14, <2>15, <2>27
<1> QED
  BY <1>1, <1>2

\* Only the bounds change, and the federate is within them.
LEMMA LevelGoes ==
  ASSUME NEW f, NEW s, NEW t, IsState(s), Timely(s), Level(s, t), t.tso = s.tso, t.sent = s.sent,
         \A g \in DOMAIN t.bounds : Within(s, t.bounds[g].ta)
  PROVE  Goes(f, s, t)
<1>1. Timely(t)
  BY LevelTimely
<1> QED
  BY <1>1, SilentGoes, SameLength

LEMMA joinNotifyGoes ==
  ASSUME NEW f, NEW s, IsState(s), Timely(s), NEW g
  PROVE  Goes(f, s, acceptJoinNotify(f, s, g))
<1>1. PICK t : t = acceptJoinNotify(f, s, g)
  OBVIOUS
<1>2. Level(s, t) /\ t.tso = s.tso /\ t.sent = s.sent /\ t.bounds = s.bounds
  BY <1>1 DEF acceptJoinNotify, IsState, Level
<1>3. \A h \in DOMAIN t.bounds : Within(s, t.bounds[h].ta)
  BY <1>2, BoundsWithin
<1> QED
  BY <1>1, <1>2, <1>3, LevelGoes

LEMMA joinResponseGoes ==
  ASSUME NEW f, NEW s, IsState(s), Timely(s)
  PROVE  Goes(f, s, [s EXCEPT !.member = "in"])
<1>1. PICK t : t = [s EXCEPT !.member = "in"]
  OBVIOUS
<1>2. /\ t.member = "in" /\ t.reg = s.reg /\ t.con = s.con /\ t.adv = s.adv
      /\ t.now = s.now /\ t.pend = s.pend /\ t.out = s.out /\ t.last = s.last
      /\ t.cTA = s.cTA /\ t.cNM = s.cNM /\ t.tgtLA = s.tgtLA
      /\ t.tso = s.tso /\ t.sent = s.sent /\ t.bounds = s.bounds
  BY <1>1 DEF IsState
<1>3. Timely(t)
  BY <1>2 DEF Timely, ModesOK, QueueOK, CommitOK, FloorOK
<1>4. Goes(f, s, t)
  BY <1>2, <1>3, SilentGoes, SameLength
<1> QED
  BY <1>1, <1>4

LEMMA resignNotifyGoes ==
  ASSUME NEW f \in Federates, NEW s, IsState(s), LocalOK(s), Timely(s), NEW g \in Federates
  PROVE  Goes(f, s, acceptResignNotify(f, s, g))
<1> DEFINE b == Drop(s.bounds, g)
           n == Drop(s.stamps, g)
           e == [s EXCEPT !.bounds = b, !.stamps = n, !.enableSet = @ \ {g}]
           c == IF g \in s.enableSet THEN checkTimeRegulationEnabled(f, e) ELSE e
           r == [c EXCEPT !.known = @ \ {g}]
<1>1. IsMap(b, Federates, Commits) /\ IsMap(n, Federates, Nat)
  BY Fields, DropMap
<1>2. /\ DOMAIN b = DOMAIN s.bounds \ {g} /\ \A h \in DOMAIN b : b[h] = s.bounds[h]
  BY DEF Drop
<1> HIDE DEF b, n
<1>3. IsState(e)
  <2>1. ASSUME NEW x \in SUBSET Federates
        PROVE  IsState([s EXCEPT !.bounds = b, !.stamps = n, !.enableSet = x])
    BY <1>1 DEF IsState
  <2> QED
    BY <2>1, Fields
<1>4. /\ Level(s, e) /\ e.tso = s.tso /\ e.sent = s.sent /\ e.bounds = b
      /\ e.enableSet = s.enableSet \ {g}
  BY DEF IsState, Level
<1> HIDE DEF e
<1>5. \A h \in DOMAIN e.bounds : Within(s, e.bounds[h].ta)
  BY <1>2, <1>4, BoundsWithin
<1>6. Goes(f, s, e)
  BY <1>4, <1>5, LevelGoes
<1>7. IsState(c) /\ Goes(f, e, c)
  <2>1. CASE g \in s.enableSet
    <3>1. ~Some(e.tso, Calling("RegulationEnabled"))
      BY <1>4, <2>1 DEF LocalOK
    <3>2. LocalOK(e)
      BY <1>4, <2>1, <3>1 DEF LocalOK, Level
    <3>3. Timely(e)
      BY <1>6 DEF Goes
    <3> QED
      BY <1>3, <2>1, <3>1, <3>2, <3>3, checkTimeRegulationEnabledGoes, checkTimeRegulationEnabledType
  <2>2. CASE g \notin s.enableSet
    <3>1. Timely(e)
      BY <1>6 DEF Goes
    <3> QED
      BY <1>3, <2>2, <3>1, SilentGoes, SameLength
  <2> QED
    BY <2>1, <2>2
<1> HIDE DEF c
<1>8. Level(c, r) /\ r.tso = c.tso /\ r.sent = c.sent /\ r.bounds = c.bounds
  BY <1>7 DEF IsState, Level
<1> HIDE DEF r
<1>9. Timely(r)
  <2>1. Timely(c)
    BY <1>7 DEF Goes
  <2>2. \A h \in DOMAIN r.bounds : Within(c, r.bounds[h].ta)
    BY <1>8, <2>1, BoundsWithin
  <2> QED
    BY <1>8, <2>1, <2>2, LevelTimely
<1>10. Fresh(f, r) = Fresh(f, c)
  <2>1. r.enableSet = c.enableSet
    BY <1>7 DEF r, IsState
  <2> QED
    BY <1>8, <2>1 DEF Fresh, Promising, Level
<1>11. Goes(f, s, r)
  <2>1. Extends(s.sent, r.sent, Fresh(f, r))
    BY <1>4, <1>7, <1>8, <1>10 DEF Goes
  <2>2. Len(s.tso) <= Len(r.tso)
    BY <1>4, <1>7, <1>8 DEF Goes
  <2> QED
    BY <1>9, <2>1, <2>2 DEF Goes
<1>12. s.adv \notin {"NMR", "NMRA"} /\ c.adv \notin {"NMR", "NMRA"}
  BY <1>7 DEF Goes, Timely, ModesOK
<1>13. checkForPendingTimeAdvance(f, _sendLockedIfChanged(f, s, c), TRUE) = c
  BY <1>12, Unblocked
<1>14. acceptResignNotify(f, s, g) = r
  <2>1. acceptResignNotify(f, s, g)
          = [checkForPendingTimeAdvance(f, _sendLockedIfChanged(f, s, c), TRUE)
               EXCEPT !.known = @ \ {g}]
    BY DEF acceptResignNotify, c, e, b, n, erase
  <2> QED
    BY <1>13, <2>1 DEF r
<1> QED
  BY <1>11, <1>14

\* The change e that f makes at first, and what it does then
LEMMA GoesOn ==
  ASSUME NEW f, NEW s, NEW e, NEW t, IsState(s), IsState(e), Goes(f, e, t),
         e.tso = s.tso, e.sent = s.sent
  PROVE  Goes(f, s, t)
BY DEF Goes

LEMMA ownEnableRequestGoes ==
  ASSUME NEW f \in Federates, NEW s, IsState(s), LocalOK(s), Timely(s), s.enableSet # {}
  PROVE  Goes(f, s, acceptOwnEnableRequest(f, s))
<1>1. CASE s.reg # "EnablePending"
  <2>1. acceptOwnEnableRequest(f, s) = s
    BY <1>1 DEF acceptOwnEnableRequest
  <2> QED
    BY <2>1, SilentGoes, SameLength
<1>2. CASE s.reg = "EnablePending"
  <2>1. PICK e : e = [s EXCEPT !.enableSet = @ \ {f}]
    OBVIOUS
  <2>2. IsState(e)
    BY <2>1, Fields, enableSetType
  <2>3. Level(s, e) /\ e.tso = s.tso /\ e.sent = s.sent /\ e.bounds = s.bounds
    BY <2>1 DEF IsState, Level
  <2>4. \A h \in DOMAIN e.bounds : Within(s, e.bounds[h].ta)
    BY <2>3, BoundsWithin
  <2>5. Timely(e)
    BY <2>3, <2>4, LevelTimely
  <2>6. ~Some(e.tso, Calling("RegulationEnabled"))
    BY <2>3 DEF LocalOK
  <2>7. LocalOK(e)
    BY <2>3, <2>6 DEF LocalOK, Level
  <2>8. Goes(f, e, checkTimeRegulationEnabled(f, e))
    BY <2>2, <2>5, <2>6, <2>7, checkTimeRegulationEnabledGoes
  <2>9. acceptOwnEnableRequest(f, s) = checkTimeRegulationEnabled(f, e)
    BY <1>2, <2>1 DEF acceptOwnEnableRequest
  <2> QED
    BY <2>2, <2>3, <2>8, <2>9, GoesOn
<1> QED
  BY <1>1, <1>2

LEMMA enableResponseGoes ==
  ASSUME NEW f \in Federates, NEW s, IsState(s), LocalOK(s), Timely(s), s.enableSet # {},
         NEW m \in EnableResponses
  PROVE  Goes(f, s, acceptEnableResponse(f, s, m))
<1>1. CASE s.reg # "EnablePending"
  <2>1. acceptEnableResponse(f, s, m) = s
    BY <1>1 DEF acceptEnableResponse
  <2> QED
    BY <2>1, SilentGoes, SameLength
<1>2. CASE s.reg = "EnablePending"
  <2>1. PICK n : n = IF m.valid THEN Put(s.stamps, m.from, m.ts) ELSE s.stamps
    OBVIOUS
  <2>2. IsMap(n, Federates, Nat)
    <3>1. m.from \in Federates /\ m.ts \in Nat
      BY DEF EnableResponses
    <3> QED
      BY <2>1, <3>1, Fields, PutMap
  <2>3. PICK e : e = [s EXCEPT !.stamps = n, !.enableSet = @ \ {m.from}]
    OBVIOUS
  <2>4. IsState(e)
    <3>1. ASSUME NEW x \in SUBSET Federates PROVE IsState([s EXCEPT !.stamps = n, !.enableSet = x])
      BY <2>2 DEF IsState
    <3> QED
      BY <2>3, <3>1, Fields
  <2>5. Level(s, e) /\ e.tso = s.tso /\ e.sent = s.sent /\ e.bounds = s.bounds
    BY <2>3 DEF IsState, Level
  <2>6. \A h \in DOMAIN e.bounds : Within(s, e.bounds[h].ta)
    BY <2>5, BoundsWithin
  <2>7. Timely(e)
    BY <2>5, <2>6, LevelTimely
  <2>8. ~Some(e.tso, Calling("RegulationEnabled"))
    BY <2>5 DEF LocalOK
  <2>9. LocalOK(e)
    BY <2>5, <2>8 DEF LocalOK, Level
  <2>10. Goes(f, e, checkTimeRegulationEnabled(f, e))
    BY <2>4, <2>7, <2>8, <2>9, checkTimeRegulationEnabledGoes
  <2>11. acceptEnableResponse(f, s, m) = checkTimeRegulationEnabled(f, e)
    BY <1>2, <2>1, <2>3 DEF acceptEnableResponse
  <2> QED
    BY <2>4, <2>5, <2>10, <2>11, GoesOn
<1> QED
  BY <1>1, <1>2

LEMMA disableRequestGoes ==
  ASSUME NEW f \in Federates, NEW s, IsState(s), Timely(s), NEW m
  PROVE  Goes(f, s, acceptDisableRequest(f, s, m))
<1>1. PICK b : b = Drop(s.bounds, m.fed)
  OBVIOUS
<1>2. /\ DOMAIN b = DOMAIN s.bounds \ {m.fed} /\ \A h \in DOMAIN b : b[h] = s.bounds[h]
  BY <1>1 DEF Drop
<1>3. PICK e : e = [s EXCEPT !.bounds = b]
  OBVIOUS
<1>4. Level(s, e) /\ e.tso = s.tso /\ e.sent = s.sent /\ e.bounds = b
  BY <1>3 DEF IsState, Level
<1>5. \A h \in DOMAIN e.bounds : Within(s, e.bounds[h].ta)
  BY <1>2, <1>4, BoundsWithin
<1>6. Goes(f, s, e)
  BY <1>4, <1>5, LevelGoes
<1>7. s.adv \notin {"NMR", "NMRA"} /\ e.adv \notin {"NMR", "NMRA"}
  BY <1>4 DEF Level, Timely, ModesOK
<1>8. acceptDisableRequest(f, s, m) = checkForPendingTimeAdvance(f, _sendLockedIfChanged(f, s, e), TRUE)
  BY <1>1, <1>3 DEF acceptDisableRequest, erase
<1> QED
  BY <1>6, <1>7, <1>8, Unblocked

\* What g has told before f takes up a time stamp of g
Announced(s, m) ==
  s.con = "Enabled" =>
    \A g : m \in Stamps(g) => g \in DOMAIN s.bounds /\ s.bounds[g].ta <= m.ts

LEMMA WithinMore ==
  ASSUME NEW s, IsState(s), NEW a \in Nat, NEW b \in Nat, a <= b, Within(s, a)
  PROVE  Within(s, b)
<1>1. _toLogicalTime(s.now) \in Nat /\ _toLogicalTime(s.pend) \in Nat
  BY Fields, PairTypes
<1> QED
  BY <1>1 DEF Within

LEMMA commitGoes ==
  ASSUME NEW f \in Federates, NEW s, IsState(s), Timely(s), NEW m \in CommitMessages,
         Announced(s, m)
  PROVE  Goes(f, s, acceptCommit(f, s, m))
<1> DEFINE c == Committed(s.bounds[m.fed], m.ts, m.ct, m.id)
           n == [s.bounds EXCEPT ![m.fed] = c]
           a == [s EXCEPT !.bounds = n]
           r == CommitResponse(m.fed, f, m.id)
           b == IF commitIdChanged(s.bounds, m.fed, m.id) /\ s.member = "in" THEN send(a, r) ELSE a
<1>1. m.fed \in Federates /\ m.ts \in Nat /\ m.id \in CommitIds /\ m.type = "Commit"
      /\ m \in Messages
  BY DEF CommitMessages, Messages, ToServer, Relayed
<1>2. IsMap(s.bounds, Federates, Commits)
  BY Fields
<1>3. m.fed \in DOMAIN s.bounds => c.ta = (IF "TA" \in m.ct THEN m.ts ELSE s.bounds[m.fed].ta)
  <2> SUFFICES ASSUME m.fed \in DOMAIN s.bounds
               PROVE  c.ta = (IF "TA" \in m.ct THEN m.ts ELSE s.bounds[m.fed].ta)
    OBVIOUS
  <2>1. PICK o : o = s.bounds[m.fed]
    OBVIOUS
  <2>2. o \in Commits
    BY <1>2, <2>1 DEF IsMap
  <2>3. Committed(o, m.ts, m.ct, m.id).ta = (IF "TA" \in m.ct THEN m.ts ELSE o.ta)
    BY <2>2 DEF Committed, Commits
  <2> QED
    BY <2>1, <2>3
<1>4. acceptCommit(f, s, m) = checkForPendingTimeAdvance(f, _sendLockedIfChanged(f, s, b), TRUE)
  BY DEF acceptCommit, commit
<1> HIDE DEF c
<1>5. /\ DOMAIN n = DOMAIN s.bounds
      /\ \A g \in DOMAIN s.bounds :
           n[g].ta = (IF g = m.fed /\ "TA" \in m.ct THEN m.ts ELSE s.bounds[g].ta)
  BY <1>3
<1> HIDE DEF n
<1>6. \A g \in DOMAIN n : Within(s, n[g].ta)
  <2> SUFFICES ASSUME NEW g \in DOMAIN s.bounds PROVE Within(s, n[g].ta)
    BY <1>5
  <2>1. Within(s, s.bounds[g].ta) /\ s.bounds[g].ta \in Nat
    BY <1>2, BoundsWithin DEF IsMap, Commits
  <2>2. CASE g = m.fed /\ "TA" \in m.ct /\ s.con = "Enabled"
    <3>1. m \in Stamps(g)
      BY <1>1, <2>2 DEF Stamps, Advances, Of
    <3>2. s.bounds[g].ta <= m.ts
      BY <2>2, <3>1 DEF Announced
    <3> QED
      BY <1>1, <1>5, <2>1, <2>2, <3>2, WithinMore
  <2>3. CASE ~(g = m.fed /\ "TA" \in m.ct)
    BY <1>5, <2>1, <2>3
  <2>4. CASE s.con # "Enabled"
    BY <2>4 DEF Within
  <2> QED
    BY <2>2, <2>3, <2>4
<1>7. Level(s, a) /\ a.tso = s.tso /\ a.sent = s.sent /\ a.bounds = n
  BY DEF IsState, Level
<1>8. r \in CommitResponseMessages /\ r.type = "CommitResponse"
  BY <1>1 DEF CommitResponse, CommitResponseMessages
<1>9. r \in ToServer /\ r \in Messages
  BY <1>8 DEF Relayed, ToServer, Messages
<1> HIDE DEF r
<1>10. /\ Level(s, b) /\ b.tso = s.tso /\ b.bounds = n
       /\ b.sent = s.sent \/ b.sent = Append(s.sent, r)
  <2>1. CASE b = a
    BY <1>7, <2>1
  <2>2. CASE b = send(a, r)
    <3>1. send(a, r) = [s EXCEPT !.bounds = n, !.sent = Append(s.sent, r)]
      BY DEF send, IsState
    <3> HIDE DEF a, b
    <3> QED
      BY <2>2, <3>1 DEF Level, IsState
  <2> QED
    BY <2>1, <2>2
<1> HIDE DEF a, b
<1>11. Timely(b)
  BY <1>6, <1>10, LevelTimely
<1>12. r \in Fresh(f, b)
  BY <1>8, <1>9, PlainFresh
<1>13. Len(s.tso) <= Len(b.tso)
  BY <1>10, SameLength
<1>14. Goes(f, s, b)
  BY <1>9, <1>10, <1>11, <1>12, <1>13, SilentGoes, SendsGoes
<1>15. s.adv \notin {"NMR", "NMRA"} /\ b.adv \notin {"NMR", "NMRA"}
  BY <1>11 DEF Timely, ModesOK
<1> QED
  BY <1>4, <1>14, <1>15, Unblocked

\* A new bound is not below what a constrained federate relies on.
LEMMA enableRequestGoes ==
  ASSUME NEW f \in Federates, NEW s, IsState(s), Timely(s), NEW m \in EnableRequests
  PROVE  Goes(f, s, acceptEnableRequest(f, s, m))
<1> DEFINE answer == s.member = "in"
           t == IF answer THEN _correctedTime(s, m.ts) ELSE m.ts
           r == EnableResponse(m.fed, f, t, getTimeConstrainedEnabledOrPending(s))
           a == IF answer THEN send(s, r) ELSE s
           w == PreviousCommitId(s.commitId)
           v == [ta |-> t, nm |-> t, id |-> m.id, waitId |-> w, locked |-> FALSE]
           n == Put(s.bounds, m.fed, v)
           b == [a EXCEPT !.bounds = n]
<1>1. m.fed \in Federates /\ m.ts \in Nat
  BY DEF EnableRequests
<1>2. s.now \in TimePairs /\ s.pend \in TimePairs /\ _toLogicalTime(s.pend) \in Nat
      /\ _toLogicalTime(s.now) \in Nat
  BY Fields, PairTypes
<1>3. t \in Nat /\ (s.con = "Enabled" => _toLogicalTime(s.pend) <= t)
  <2>1. s.con = "Enabled" => answer
    BY DEF Timely, ModesOK
  <2> QED
    BY <1>1, <1>2, <2>1 DEF _correctedTime, Max2, getTimeConstrainedEnabledOrPending
<1>4. Within(s, t)
  <2>1. s.con = "Enabled" => _toLogicalTime(s.now) <= _toLogicalTime(s.pend)
    BY DEF Timely, FloorOK
  <2> HIDE DEF t
  <2> QED
    BY <1>2, <1>3, <2>1 DEF Within
<1>5. v.ta = t
  OBVIOUS
<1>6. acceptEnableRequest(f, s, m) = _sendLockedIfChanged(f, s, b)
  <2>1. a.bounds = s.bounds
    BY DEF send, IsState
  <2>2. acceptEnableRequest(f, s, m)
          = _sendLockedIfChanged(f, s, [a EXCEPT !.bounds = insert(@, m.fed, t, t, m.id, w)])
    BY DEF acceptEnableRequest
  <2>3. insert(a.bounds, m.fed, t, t, m.id, w) = n
    BY <2>1 DEF insert
  <2> HIDE DEF n, a, w, t
  <2> QED
    BY <2>2, <2>3
<1>7. r \in EnableResponses /\ r.type = "EnableRegResponse"
  <2> HIDE DEF t
  <2> QED
    BY <1>1, <1>3 DEF EnableResponse, EnableResponses, getTimeConstrainedEnabledOrPending
<1>8. r \in ToServer /\ r \in Messages
  <2> HIDE DEF r
  <2> QED
    BY <1>7 DEF Relayed, ToServer, Messages
<1> HIDE DEF t, r, v
<1>9. \A g \in DOMAIN n : Within(s, n[g].ta)
  <2> SUFFICES ASSUME NEW g \in DOMAIN n PROVE Within(s, n[g].ta)
    OBVIOUS
  <2>1. CASE g = m.fed
    <3>1. n[g] = v
      BY <2>1 DEF Put
    <3> QED
      BY <1>4, <1>5, <3>1
  <2>2. CASE g # m.fed
    <3>1. g \in DOMAIN s.bounds /\ n[g] = s.bounds[g]
      BY <2>2 DEF Put
    <3> QED
      BY <3>1, BoundsWithin
  <2> QED
    BY <2>1, <2>2
<1> HIDE DEF n
<1>10. /\ Level(s, b) /\ b.tso = s.tso /\ b.bounds = n
       /\ b.sent = s.sent \/ b.sent = Append(s.sent, r)
  <2>1. CASE ~answer
    BY <2>1 DEF Level, IsState
  <2>2. CASE answer
    <3>1. b = [s EXCEPT !.bounds = n, !.sent = Append(s.sent, r)]
      BY <2>2 DEF send, IsState
    <3> HIDE DEF a, b
    <3> QED
      BY <3>1 DEF Level, IsState
  <2> QED
    BY <2>1, <2>2
<1> HIDE DEF a, b
<1>11. Timely(b)
  BY <1>9, <1>10, LevelTimely
<1>12. r \in Fresh(f, b)
  BY <1>7, <1>8, PlainFresh
<1>13. Len(s.tso) <= Len(b.tso)
  BY <1>10, SameLength
<1>14. Goes(f, s, b)
  BY <1>8, <1>10, <1>11, <1>12, <1>13, SilentGoes, SendsGoes
<1>15. s.adv \notin {"NMR", "NMRA"} /\ b.adv \notin {"NMR", "NMRA"}
  BY <1>11 DEF Timely, ModesOK
<1>16. _sendLockedIfChanged(f, s, b) = b
  <2>1. getLockedByNextMessage(s) = FALSE /\ getLockedByNextMessage(b) = FALSE
    BY <1>15 DEF getLockedByNextMessage, getIsAnyNextMessageMode
  <2> QED
    BY <2>1 DEF _sendLockedIfChanged
<1> QED
  BY <1>6, <1>14, <1>16

\* Neither an acknowledgement nor the locked state is a bound.
LEMMA noticeGoes ==
  ASSUME NEW f \in Federates, NEW s, IsState(s), Timely(s), NEW n,
         DOMAIN n = DOMAIN s.bounds, \A g \in DOMAIN n : n[g].ta = s.bounds[g].ta,
         NEW e, e = [s EXCEPT !.bounds = n]
  PROVE  Goes(f, s, checkForPendingTimeAdvance(f, _sendLockedIfChanged(f, s, e), TRUE))
<1>1. Level(s, e) /\ e.tso = s.tso /\ e.sent = s.sent /\ e.bounds = n
  BY DEF IsState, Level
<1>2. \A h \in DOMAIN e.bounds : Within(s, e.bounds[h].ta)
  BY <1>1, BoundsWithin
<1>3. Goes(f, s, e)
  BY <1>1, <1>2, LevelGoes
<1>4. s.adv \notin {"NMR", "NMRA"} /\ e.adv \notin {"NMR", "NMRA"}
  BY <1>1 DEF Level, Timely, ModesOK
<1> QED
  BY <1>3, <1>4, Unblocked

LEMMA commitResponseGoes ==
  ASSUME NEW f \in Federates, NEW s, IsState(s), Timely(s), NEW m
  PROVE  Goes(f, s, acceptCommitResponse(f, s, m)) /\ Goes(f, s, acceptLocked(f, s, m))
<1>1. IsMap(s.bounds, Federates, Commits)
  BY Fields
<1>2. PICK a : a = setFederateWaitCommitId(s.bounds, m.from, m.id)
  OBVIOUS
<1>3. PICK b : b = setFederateLockedByNextMessage(s.bounds, m.from, m.locked)
  OBVIOUS
<1>4. DOMAIN a = DOMAIN s.bounds /\ \A g \in DOMAIN a : a[g].ta = s.bounds[g].ta
  BY <1>1, <1>2 DEF setFederateWaitCommitId, IsMap, Commits
<1>5. DOMAIN b = DOMAIN s.bounds /\ \A g \in DOMAIN b : b[g].ta = s.bounds[g].ta
  BY <1>1, <1>3 DEF setFederateLockedByNextMessage, IsMap, Commits
<1>6. acceptCommitResponse(f, s, m)
        = checkForPendingTimeAdvance(f, _sendLockedIfChanged(f, s, [s EXCEPT !.bounds = a]), TRUE)
  BY <1>2 DEF acceptCommitResponse
<1>7. acceptLocked(f, s, m)
        = checkForPendingTimeAdvance(f, _sendLockedIfChanged(f, s, [s EXCEPT !.bounds = b]), TRUE)
  BY <1>3 DEF acceptLocked
<1> QED
  BY <1>4, <1>5, <1>6, <1>7, noticeGoes, ZenonT(60)

\* A message is queued at its time stamp.
LEMMA dataGoes ==
  ASSUME NEW f \in Federates, NEW s, IsState(s), LocalOK(s), Timely(s), NEW m \in DataMessages,
         Announced(s, m)
  PROVE  Goes(f, s, acceptData(f, s, m))
<1>1. m.ts \in Nat /\ m \in Callbacks /\ m.type = "Data" /\ m \in Messages
  BY RelayedTypes DEF DataMessages, Messages
<1>2. CASE m.order # "TSO"
  <2>1. PICK t : t = acceptData(f, s, m)
    OBVIOUS
  <2>2. Level(s, t) /\ t.tso = s.tso /\ t.sent = s.sent /\ t.bounds = s.bounds
    BY <1>2, <2>1 DEF acceptData, IsState, Level
  <2>3. \A h \in DOMAIN t.bounds : Within(s, t.bounds[h].ta)
    BY <2>2, BoundsWithin
  <2> QED
    BY <2>1, <2>2, <2>3, LevelGoes
<1>3. CASE m.order = "TSO" /\ isIllegal(s, m.ts)
  <2>1. acceptData(f, s, m) = s
    BY <1>3 DEF acceptData, queueTimeStampedMessage
  <2> QED
    BY <2>1, SilentGoes, SameLength
<1>4. CASE m.order = "TSO" /\ ~isIllegal(s, m.ts)
  <2>1. PICK p : p = <<m.ts, -1>>
    OBVIOUS
  <2>2. p \in TimePairs /\ p[1] = m.ts /\ p[2] = -1
    BY <1>1, <2>1 DEF TimePairs
  <2>3. PICK t : t = queueAt(s, p, m)
    OBVIOUS
  <2>4. acceptData(f, s, m) = t
    <3>1. ~getIsAnyNextMessageMode(s)
      BY DEF Timely, ModesOK, getIsAnyNextMessageMode
    <3> QED
      BY <1>4, <2>1, <2>3, <3>1 DEF acceptData, queueTimeStampedMessage
  <2>5. Sorted(s.tso)
    BY DEF LocalOK
  <2>6. /\ IsState(t) /\ Level(s, t)
        /\ t.bounds = s.bounds /\ t.enableSet = s.enableSet /\ t.sent = s.sent
        /\ Inserted(s.tso, t.tso, p, m)
    BY <1>1, <2>2, <2>3, <2>5, CallbackQueued
  <2>7. QueueOK(t)
    <3>1. \A e \in Entries : e.at = p /\ e.msg = m => e \in Dated(s.pend)
      BY <1>1, <2>2 DEF Dated
    <3>2. Each(t.tso, Dated(s.pend))
      BY <2>6, <3>1 DEF Timely, QueueOK, Inserted
    <3>3. /\ Some(t.tso, Calling("Granted")) => Some(s.tso, Calling("Granted"))
          /\ Single(s.tso, Calling("Granted")) => Single(t.tso, Calling("Granted"))
      BY <1>1, <2>6 DEF Inserted
    <3> QED
      BY <2>6, <3>2, <3>3 DEF Timely, QueueOK, Level
  <2>8. FloorOK(t)
    <3> SUFFICES ASSUME s.con = "Enabled" PROVE FloorOK(t)
      BY <2>6 DEF FloorOK, Level
    <3>1. FloorOK(s)
      BY DEF Timely
    <3>2. _toLogicalTime(s.now) <= m.ts
      <4>1. PICK g : g = m.from
        OBVIOUS
      <4>2. m \in Stamps(g)
        BY <1>1, <1>4, <4>1 DEF Stamps, TSO
      <4>3. g \in DOMAIN s.bounds /\ s.bounds[g].ta <= m.ts
        BY <4>2 DEF Announced
      <4>4. s.bounds[g].ta \in Nat /\ _toLogicalTime(s.now) <= s.bounds[g].ta
        BY <3>1, <4>3, Fields DEF FloorOK, IsMap, Commits
      <4>5. _toLogicalTime(s.now) \in Nat
        BY Fields, PairTypes
      <4> QED
        BY <1>1, <4>3, <4>4, <4>5
    <3>3. \A e \in Entries : e.at = p /\ e.msg = m => e \in From(_toLogicalTime(s.now))
      BY <3>2 DEF From
    <3>4. Each(t.tso, From(_toLogicalTime(s.now)))
      BY <2>6, <3>1, <3>3 DEF FloorOK, Inserted
    <3> QED
      BY <2>6, <3>1, <3>4 DEF FloorOK, Level
  <2>9. Timely(t)
    BY <2>6, <2>7, <2>8 DEF Timely, ModesOK, CommitOK, Level
  <2>10. Len(s.tso) <= Len(t.tso)
    BY <2>6 DEF Inserted
  <2> QED
    BY <2>4, <2>6, <2>9, <2>10, SilentGoes
<1> QED
  BY <1>2, <1>3, <1>4

LEMMA acceptGoes ==
  ASSUME NEW f \in Federates, NEW s, IsState(s), LocalOK(s), Timely(s), NEW m \in ToFederate,
         Announced(s, m),
         m.type = "EnableRegResponse" \/ (m.type = "EnableReg" /\ m.fed = f) => s.enableSet # {}
  PROVE  Goes(f, s, acceptInternalMessage(f, s, m))
<1>1. CASE m.type = "JoinNotify"
  BY <1>1, joinNotifyGoes DEF acceptInternalMessage
<1>2. CASE m.type = "JoinResponse"
  BY <1>2, joinResponseGoes DEF acceptInternalMessage
<1>3. CASE m.type = "ResignNotify"
  BY <1>3, ToFederateCases, resignNotifyGoes DEF acceptInternalMessage
<1>4. CASE m.type = "EnableReg"
  BY <1>4, ToFederateCases, enableRequestGoes, ownEnableRequestGoes DEF acceptInternalMessage
<1>5. CASE m.type = "EnableRegResponse"
  BY <1>5, ToFederateCases, enableResponseGoes DEF acceptInternalMessage
<1>6. CASE m.type = "DisableReg"
  BY <1>6, disableRequestGoes DEF acceptInternalMessage
<1>7. CASE m.type = "Commit"
  BY <1>7, ToFederateCases, commitGoes DEF acceptInternalMessage
<1>8. CASE m.type = "CommitResponse"
  BY <1>8, commitResponseGoes DEF acceptInternalMessage
<1>9. CASE m.type = "Locked"
  BY <1>9, commitResponseGoes DEF acceptInternalMessage
<1>10. CASE m.type = "Data"
  BY <1>10, ToFederateCases, dataGoes DEF acceptInternalMessage
<1> QED
  BY <1>1, <1>2, <1>3, <1>4, <1>5, <1>6, <1>7, <1>8, <1>9, <1>10, ToFederateCases

=============================================================================
