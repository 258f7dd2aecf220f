--------------------------- MODULE TimeManagement ---------------------------
(***************************************************************************)
(* The time management of one federate ambassador: the class template      *)
(* TemplateTimeManagement with its base InternalTimeManagement and the     *)
(* guards that Ambassador puts in front of its calls.                      *)
(*                                                                         *)
(* The state of one ambassador is a record s; every operation of the class *)
(* is an operator that maps s (and the arguments of the call) to the state *)
(* after it.  f is the handle of the federate.                             *)
(*   member      "out", "joining", "in" or "resigned"                      *)
(*   known       the handles of the other joined federates it knows        *)
(*   reg, con    _timeRegulationMode, _timeConstrainedMode                 *)
(*   adv         _timeAdvanceMode                                          *)
(*   now, pend   _logicalTime, _pendingLogicalTime                         *)
(*   out, last   _outboundLowerBoundTimeStamp, _lastOutbound...            *)
(*   cTA, cNM    _committedOutbound..., _committedNextMessage...           *)
(*   curLA, tgtLA  _currentLookahead, _targetLookahead                     *)
(*   bounds      _federateLowerBoundMap                                    *)
(*   enableSet   _timeRegulationEnableFederateHandleSet                    *)
(*   stamps      _timeRegulationEnableFederateHandleTimeStampMap           *)
(*   sched       _timeAdvanceToBeScheduled                                 *)
(*   commitId    _commitId                                                 *)
(*   tso, ro     _logicalTimeMessageListMap, _receiveOrderMessages         *)
(*   async       _asynchronousDeliveryEnabled                              *)
(*   allowPend   _allowPendingTimeInNextMessageRequest                     *)
(*   sent        what was handed to the connect and the server did not     *)
(*               take yet, oldest first                                    *)
(* OpenRTIAssert is not part of an operation: it is empty in a release     *)
(* build.                                                                  *)
(***************************************************************************)
EXTENDS LowerBoundMap, SequencesExt, FiniteSets

CONSTANTS Federates,       \* the federate handles
          CommitIdModulus  \* Unsigned wraps around at this value

ASSUME FederatesAssumption == IsFiniteSet(Federates)

ASSUME ModulusAssumption == CommitIdModulus \in Nat \ {0} /\ 18 < CommitIdModulus

Modes == {"Disabled", "EnablePending", "Enabled"}
AdvanceModes == {"Granted", "TAR", "TARA", "NMR", "NMRA", "FQR"}

InitialTime == 0
InitialCommitId == CommitIdModulus - 17
NextCommitId(i) == (i + 1) % CommitIdModulus
PreviousCommitId(i) == (i + CommitIdModulus - 1) % CommitIdModulus

NewTimeManagement ==
  [member |-> "out", known |-> {},
   reg |-> "Disabled", con |-> "Disabled", adv |-> "Granted",
   now |-> <<InitialTime, 0>>, pend |-> <<InitialTime, 0>>,
   out |-> <<InitialTime, 0>>, last |-> <<InitialTime, 0>>,
   cTA |-> InitialTime, cNM |-> InitialTime, curLA |-> 0, tgtLA |-> 0,
   bounds |-> EmptyMap, enableSet |-> {}, stamps |-> EmptyMap,
   sched |-> FALSE, commitId |-> InitialCommitId,
   tso |-> <<>>, ro |-> <<>>, async |-> FALSE, allowPend |-> FALSE,
   sent |-> <<>>]

getTimeAdvancePending(s) == s.adv # "Granted"
getIsAnyAdvanceRequest(s) == s.adv \in {"TAR", "TARA"}
getIsAnyAvailableMode(s) == s.adv \in {"TARA", "NMRA", "FQR"}
getIsAnyNextMessageMode(s) == s.adv \in {"NMR", "NMRA"}
getTimeConstrainedEnabledOrPending(s) == s.con # "Disabled"

-----------------------------------------------------------------------------
(* Messages to the server *)

send(s, m) == [s EXCEPT !.sent = Append(@, m)]

EnableRequest(f, t, id) == [type |-> "EnableReg", fed |-> f, ts |-> t, id |-> id]
EnableResponse(g, f, t, valid) ==
  [type |-> "EnableRegResponse", to |-> g, from |-> f, ts |-> t, valid |-> valid]
DisableRequest(f) == [type |-> "DisableReg", fed |-> f]
ConstrainedNotify(f) == [type |-> "EnableCon", fed |-> f]
UnconstrainedNotify(f) == [type |-> "DisableCon", fed |-> f]
CommitMessage(f, t, type, id) ==
  [type |-> "Commit", fed |-> f, ts |-> t, ct |-> type, id |-> id]
CommitResponse(g, f, id) == [type |-> "CommitResponse", to |-> g, from |-> f, id |-> id]
LockedMessage(f, locked) == [type |-> "Locked", from |-> f, locked |-> locked]
TimeStamped(f, t, order) == [type |-> "Data", from |-> f, ts |-> t, order |-> order]

-----------------------------------------------------------------------------
(* Predicates on the state *)

getLockedByNextMessage(s) ==
  /\ s.con = "Enabled"
  /\ getIsAnyNextMessageMode(s)
  /\ mapLockedByNextMessage(s.bounds, s.commitId)

getIsSafeToAdvanceToNextMessage(s) ==
  getIsAnyNextMessageMode(s) /\ mapSafeToAdvanceToNextMessage(s.bounds, s.commitId)

_getPendingTimeSecondField(s) ==
  IF s.con = "Enabled" /\ ~getIsAnyAvailableMode(s) THEN 1 ELSE 0

_getOutboundLowerTimeStampSecondField(s, lookahead) ==
  IF s.reg = "Enabled" /\ ~getIsAnyAvailableMode(s) /\ lookahead = 0 THEN 1 ELSE 0

isLogicalTimeInThePast(s, t) == t < s.now[1]

\* The check for sendInteraction and updateAttributeValues
logicalTimeAlreadyPassed(s, t) ==
  LET bound == IF s.allowPend /\ getIsAnyNextMessageMode(s) THEN s.pend ELSE s.out
  IN  IF bound[2] # 0 THEN t <= bound[1] ELSE t < bound[1]

-----------------------------------------------------------------------------
(* Committing lower bounds *)

_sendCommitLowerBoundTimeStamp(f, s, t, type) ==
  LET ta == IF "TA" \in type THEN t ELSE s.cTA
      nm == IF "NM" \in type THEN t ELSE s.cNM
      id == IF "NM" \in type /\ ta # nm THEN NextCommitId(s.commitId) ELSE s.commitId
  IN  send([s EXCEPT !.cTA = ta, !.cNM = nm, !.commitId = id],
           CommitMessage(f, t, type, id))

\* Only what changes is committed, and never a time below the committed one.
_sendCommitIfChanged(f, s, t, type) ==
  LET changed == {c \in type : IF c = "TA" THEN s.cTA < t ELSE s.cNM # t}
  IN  IF t < s.cTA \/ changed = {}
      THEN s
      ELSE _sendCommitLowerBoundTimeStamp(f, s, t, changed)

\* The overload that adds the lookahead to t
_sendCommitPlusLookahead(f, s, t, lookahead, type) ==
  LET second == _getOutboundLowerTimeStampSecondField(s, lookahead)
      bound  == _toLogicalTime(<<t + lookahead, second>>)
  IN  _sendCommitIfChanged(f, s, Max2(bound, s.cTA), type)

\* Wrong: nobody is told
_sendLocked_Never(f, before, s) == s

\* Tell all regulating federates when the locked state differs from before's.
_sendLockedIfChanged(f, before, s) ==
  IF getLockedByNextMessage(before) # getLockedByNextMessage(s)
  THEN send(s, LockedMessage(f, getLockedByNextMessage(s)))
  ELSE s

\* Wrong: the new lookahead takes effect at once, even a smaller one
_setOutbound_NotKept(s, t, lastOutbound) ==
  [s EXCEPT !.out = <<t + s.tgtLA, _getOutboundLowerTimeStampSecondField(s, s.tgtLA)>>,
            !.curLA = s.tgtLA]

_setOutboundLowerTimeStampAndCurrentLookahead(s, t, lastOutbound) ==
  LET new == <<t + s.tgtLA, _getOutboundLowerTimeStampSecondField(s, s.tgtLA)>>
  IN  IF PairLess(new, lastOutbound)
      THEN [s EXCEPT !.out = lastOutbound, !.curLA = Min2(lastOutbound[1] - t, s.tgtLA)]
      ELSE [s EXCEPT !.out = new, !.curLA = s.tgtLA]

-----------------------------------------------------------------------------
(* The time stamp ordered queue *)

\* _logicalTimeMessageListMap as one sequence: ordered by time pair and, at the
\* same pair, by arrival.
queueAt(s, p, m) ==
  LET q == s.tso
      notAfter(i) == i <= Len(q) /\ PairLeq(q[i].at, p)
  IN  [s EXCEPT !.tso = [i \in 1 .. Len(q) + 1 |->
         IF notAfter(i) THEN q[i]
         ELSE IF i = 1 \/ notAfter(i - 1) THEN [at |-> p, msg |-> m]
         ELSE q[i - 1]]]

getLeastIncomingTimepair(s) == Head(s.tso).at

Granted == [type |-> "Granted"]
RegulationEnabled == [type |-> "RegulationEnabled"]
ConstrainedEnabled == [type |-> "ConstrainedEnabled"]

\* Schedule the grant, or promise more while the grant has to wait.
checkForPendingTimeAdvance(f, s, allowNextMessage) ==
  LET nextMessage == allowNextMessage /\ getIsSafeToAdvanceToNextMessage(s)
      reached == IF nextMessage
                 THEN canAdvanceToNextMessage(s.bounds, <<s.pend[1], 0>>)
                 ELSE canAdvanceTo(s.bounds, <<s.pend[1], 0>>)
      galt == IF nextMessage THEN getNextMessageGALT(s.bounds) ELSE getGALT(s.bounds)
      scheduled == queueAt([s EXCEPT !.sched = FALSE], s.pend, Granted)
  IN  IF ~s.sched \/ ~getIsAnyNextMessageMode(s) THEN s
      ELSE IF reached /\ s.reg = "Enabled"
           THEN _sendCommitPlusLookahead(f, scheduled, s.pend[1], s.tgtLA, {"TA", "NM"})
      ELSE IF reached THEN scheduled
      ELSE IF s.reg = "Enabled"
           THEN _sendCommitPlusLookahead(f, s, galt, s.tgtLA, {"TA"})
      ELSE s

checkForPendingFlushQueue(s) ==
  IF s.tso = <<>> /\ s.adv = "FQR" /\ s.sched
  THEN queueAt([s EXCEPT !.sched = FALSE], s.pend, Granted)
  ELSE s

\* Wrong: ignores the corrected times in the responses
checkTimeRegulationEnabled_Uncorrected(f, s) ==
  IF s.reg # "EnablePending" \/ s.enableSet # {} THEN s
  ELSE queueAt(_sendCommitLowerBoundTimeStamp(f, [s EXCEPT !.stamps = EmptyMap],
                                              s.out[1], {"TA", "NM"}),
               s.pend, RegulationEnabled)

\* All responses are in: take the largest corrected time, commit it, tell the federate.
checkTimeRegulationEnabled(f, s) ==
  LET larger == {s.stamps[g] : g \in DOMAIN s.stamps} \cup {s.out[1]}
      bound  == Max(larger)
      pend   == IF bound = s.out[1] THEN s.pend
                ELSE PairMax(s.pend, <<bound - s.curLA, 0>>)
      ready  == [s EXCEPT !.out = <<bound, 0>>, !.pend = pend, !.stamps = EmptyMap]
  IN  IF s.reg # "EnablePending" \/ s.enableSet # {} THEN s
      ELSE queueAt(_sendCommitLowerBoundTimeStamp(f, ready, bound, {"TA", "NM"}),
                   pend, RegulationEnabled)

\* What every next message federate is told by a federate that starts to regulate:
\* which of its commits has been seen (in an order that does not matter here).
CommitResponses(f, s) ==
  LET nm == getNextMessageFederates(s.bounds)
  IN  SetToSeq({CommitResponse(g, f, s.bounds[g].id) : g \in nm})

-----------------------------------------------------------------------------
(* Calls of the federate (the guards of Ambassador.h are in the module that *)
(* offers the calls)                                                        *)

_enableTimeRegulation(f, s, t, lookahead) ==
  LET pend  == PairMax(s.now, <<t, 0>>)
      bound == pend[1] + lookahead
      asked == send([s EXCEPT !.reg = "EnablePending", !.curLA = lookahead, !.tgtLA = lookahead,
                              !.pend = pend, !.out = <<bound, 0>>, !.last = <<bound, 0>>,
                              !.cTA = bound, !.cNM = bound,
                              !.enableSet = s.known \cup {f}],
                    EnableRequest(f, bound, s.commitId))
  IN  [asked EXCEPT !.sent = @ \o CommitResponses(f, s)]

disableTimeRegulation(f, s) ==
  send([s EXCEPT !.reg = "Disabled", !.curLA = s.tgtLA,
                 !.out = <<InitialTime, 0>>, !.last = <<InitialTime, 0>>,
                 !.cTA = InitialTime, !.cNM = InitialTime],
       DisableRequest(f))

enableTimeConstrained(f, s) ==
  LET pend == <<s.now[1], 0>>
  IN  send(queueAt([s EXCEPT !.con = "EnablePending", !.pend = pend],
                   pend, ConstrainedEnabled),
           ConstrainedNotify(f))

disableTimeConstrained(f, s) ==
  send([s EXCEPT !.con = "Disabled"], UnconstrainedNotify(f))

\* Wrong: the pending time is not kept at or after the logical time
_beginAdvance_NotAfterNow(s, t, mode) ==
  LET a == [s EXCEPT !.adv = mode]
      b == [a EXCEPT !.pend = <<t, _getPendingTimeSecondField(a)>>]
  IN  IF s.reg = "Enabled"
      THEN _setOutboundLowerTimeStampAndCurrentLookahead([b EXCEPT !.last = s.out], t, s.out)
      ELSE b

\* The state once the mode, the pending time and the outbound bound are set
_beginAdvance(s, t, mode) ==
  LET a == [s EXCEPT !.adv = mode]
      b == [a EXCEPT !.pend = PairMax(s.now, <<t, _getPendingTimeSecondField(a)>>)]
  IN  IF s.reg = "Enabled"
      THEN _setOutboundLowerTimeStampAndCurrentLookahead([b EXCEPT !.last = s.out], t, s.out)
      ELSE b

\* Do not advance beyond the least queued time stamp.
_pendingNotBeyondQueue(s) ==
  IF s.con = "Enabled" /\ s.tso # <<>>
  THEN [s EXCEPT !.pend = <<Min2(@[1], getLeastIncomingTimepair(s)[1]), @[2]>>]
  ELSE s

_advanceRequest(f, s) ==
  LET c == IF s.reg = "Enabled"
           THEN _sendCommitIfChanged(f, s, _toLogicalTime(s.out), {"TA", "NM"})
           ELSE s
  IN  queueAt(c, c.pend, Granted)

_nextMessageRequest(f, s) ==
  LET q == _pendingNotBeyondQueue(s)
      w == [q EXCEPT !.sched = TRUE]
      c == IF s.reg = "Enabled"
           THEN _sendCommitPlusLookahead(f, w, w.pend[1], w.tgtLA, {"NM"})
           ELSE w
  IN  IF s.con = "Enabled"
      THEN checkForPendingTimeAdvance(f, c, FALSE)
      ELSE queueAt(s, s.pend, Granted)

\* Wrong: flushes up to the requested time, whatever the others have promised
_flushQueueRequest_Unlimited(f, s) ==
  LET q == _pendingNotBeyondQueue(s)
      c == IF s.reg = "Enabled"
           THEN _sendCommitIfChanged(f, q, Max2(q.pend[1] + s.tgtLA, s.cTA), {"TA", "NM"})
           ELSE q
  IN  IF s.con = "Enabled" THEN [c EXCEPT !.sched = TRUE] ELSE queueAt(c, c.pend, Granted)

_flushQueueRequest(f, s) ==
  LET q == _pendingNotBeyondQueue(s)
      limited == s.con = "Enabled" /\ ~canAdvanceTo(s.bounds, <<q.pend[1], 0>>)
      p == IF limited
           THEN [q EXCEPT !.pend = PairMax(s.now, <<getGALT(s.bounds), @[2]>>)]
           ELSE q
      c == IF s.reg = "Enabled"
           THEN _sendCommitIfChanged(f, p, Max2(p.pend[1] + s.tgtLA, s.cTA), {"TA", "NM"})
           ELSE p
  IN  IF s.con = "Enabled" THEN [c EXCEPT !.sched = TRUE] ELSE queueAt(c, c.pend, Granted)

timeAdvanceRequest(f, s, t, mode) ==
  LET b == _beginAdvance(s, t, mode)
  IN  CASE mode \in {"TAR", "TARA"} -> _advanceRequest(f, b)
        [] mode \in {"NMR", "NMRA"} -> _nextMessageRequest(f, b)
        [] mode = "FQR"             -> _flushQueueRequest(f, b)

modifyLookahead(f, s, lookahead) ==
  LET b == _setOutboundLowerTimeStampAndCurrentLookahead(
             [s EXCEPT !.tgtLA = lookahead, !.last = s.out], s.now[1], s.out)
  IN  _sendCommitIfChanged(f, b, _toLogicalTime(b.out), {"TA", "NM"})

-----------------------------------------------------------------------------
(* Messages from the server: acceptInternalMessage *)

acceptJoinNotify(f, s, g) ==
  [s EXCEPT !.known = @ \cup {g},
            !.enableSet = IF f \in @ THEN @ \cup {g} ELSE @]

\* Wrong: does not look whether this was the last missing response
acceptResignNotify_NoCheck(f, s, g) ==
  LET e == [s EXCEPT !.bounds = erase(@, g), !.stamps = Drop(@, g), !.enableSet = @ \ {g}]
      d == checkForPendingTimeAdvance(f, _sendLockedIfChanged(f, s, e), TRUE)
  IN  [d EXCEPT !.known = @ \ {g}]

\* removeFederateFromTimeManagement, then the federate is forgotten.
acceptResignNotify(f, s, g) ==
  LET e == [s EXCEPT !.bounds = erase(@, g), !.stamps = Drop(@, g), !.enableSet = @ \ {g}]
      c == IF g \in s.enableSet THEN checkTimeRegulationEnabled(f, e) ELSE e
      d == checkForPendingTimeAdvance(f, _sendLockedIfChanged(f, s, c), TRUE)
  IN  [d EXCEPT !.known = @ \ {g}]

acceptOwnEnableRequest(f, s) ==
  IF s.reg # "EnablePending" THEN s
  ELSE checkTimeRegulationEnabled(f, [s EXCEPT !.enableSet = @ \ {f}])

\* Wrong: accepts the time that the requester proposes
_correctedTime_Proposed(s, t) == t

\* The least time the requester may use without breaking a guarantee s relies on
_correctedTime(s, t) ==
  IF getTimeConstrainedEnabledOrPending(s) THEN Max2(t, _toLogicalTime(s.pend)) ELSE t

acceptEnableRequest(f, s, m) ==
  LET answer == s.member = "in"
      t == IF answer THEN _correctedTime(s, m.ts) ELSE m.ts
      a == IF answer
           THEN send(s, EnableResponse(m.fed, f, t, getTimeConstrainedEnabledOrPending(s)))
           ELSE s
      b == [a EXCEPT !.bounds =
              insert(@, m.fed, t, t, m.id, PreviousCommitId(s.commitId))]
  IN  _sendLockedIfChanged(f, s, b)

acceptEnableResponse(f, s, m) ==
  LET a == [s EXCEPT !.stamps = IF m.valid THEN Put(@, m.from, m.ts) ELSE @,
                     !.enableSet = @ \ {m.from}]
  IN  IF s.reg # "EnablePending" THEN s ELSE checkTimeRegulationEnabled(f, a)

acceptDisableRequest(f, s, m) ==
  LET a == [s EXCEPT !.bounds = erase(@, m.fed)]
  IN  checkForPendingTimeAdvance(f, _sendLockedIfChanged(f, s, a), TRUE)

\* Wrong: a pending advance is not looked at when a bound goes up
acceptCommit_NoCheck(f, s, m) ==
  LET a == [s EXCEPT !.bounds = commit(@, m.fed, m.ts, m.ct, m.id)]
      b == IF commitIdChanged(s.bounds, m.fed, m.id) /\ s.member = "in"
           THEN send(a, CommitResponse(m.fed, f, m.id))
           ELSE a
  IN  _sendLockedIfChanged(f, s, b)

acceptCommit(f, s, m) ==
  LET a == [s EXCEPT !.bounds = commit(@, m.fed, m.ts, m.ct, m.id)]
      b == IF commitIdChanged(s.bounds, m.fed, m.id) /\ s.member = "in"
           THEN send(a, CommitResponse(m.fed, f, m.id))
           ELSE a
  IN  checkForPendingTimeAdvance(f, _sendLockedIfChanged(f, s, b), TRUE)

acceptCommitResponse(f, s, m) ==
  LET a == [s EXCEPT !.bounds = setFederateWaitCommitId(@, m.from, m.id)]
  IN  checkForPendingTimeAdvance(f, _sendLockedIfChanged(f, s, a), TRUE)

acceptLocked(f, s, m) ==
  LET a == [s EXCEPT !.bounds = setFederateLockedByNextMessage(@, m.from, m.locked)]
  IN  checkForPendingTimeAdvance(f, _sendLockedIfChanged(f, s, a), TRUE)

\* A time stamped message that comes too late is dropped.
isIllegal(s, t) == s.con = "Enabled" /\ PairLess(<<t, 1>>, s.now)

queueTimeStampedMessage(f, s, m) ==
  LET q == queueAt(s, <<m.ts, -1>>, m)
      p == IF s.now[1] <= m.ts THEN [q EXCEPT !.pend = <<m.ts, @[2]>>] ELSE q
      c == IF s.sched /\ s.reg = "Enabled"
           THEN _sendCommitPlusLookahead(f, p, p.pend[1], s.tgtLA, {"NM"})
           ELSE p
  IN  IF isIllegal(s, m.ts) THEN s
      ELSE IF getIsAnyNextMessageMode(s) /\ s.con = "Enabled" /\ m.ts < s.pend[1]
           THEN checkForPendingTimeAdvance(f, c, TRUE)
      ELSE q

acceptData(f, s, m) ==
  IF m.order = "TSO" THEN queueTimeStampedMessage(f, s, m)
  ELSE [s EXCEPT !.ro = Append(@, m)]

-----------------------------------------------------------------------------
(* Callbacks to the federate *)

\* Wrong: delivers what is due without looking at the promises of the others
_timeStampOrder_Unbounded(s) ==
  \/ s.adv = "FQR"
  \/ ~getTimeConstrainedEnabledOrPending(s)
  \/ PairLeq(getLeastIncomingTimepair(s), s.pend)

_timeStampOrderMessagesPermitted(s) ==
  \/ s.adv = "FQR"
  \/ ~getTimeConstrainedEnabledOrPending(s)
  \/ LET p == getLeastIncomingTimepair(s)
     IN  PairLeq(p, s.pend) /\ canAdvanceTo(s.bounds, p)

_receiveOrderMessagesPermitted(s) ==
  s.con # "Enabled" \/ s.async \/ getTimeAdvancePending(s)

receiveOrderCallback(s) == _receiveOrderMessagesPermitted(s) /\ s.ro # <<>>
timeStampOrderCallback(s) == s.tso # <<>> /\ _timeStampOrderMessagesPermitted(s)

acceptTimeAdvanceGranted(s) ==
  LET b == IF (getIsAnyNextMessageMode(s) \/ s.adv = "FQR") /\ s.reg = "Enabled"
           THEN _setOutboundLowerTimeStampAndCurrentLookahead(s, s.pend[1], s.last)
           ELSE s
  IN  [b EXCEPT !.now = s.pend, !.adv = "Granted"]

\* The callback for message m, which is no longer in the queue
acceptCallback(s, m) ==
  CASE m.type = "Granted"            -> acceptTimeAdvanceGranted(s)
    [] m.type = "RegulationEnabled"  -> [s EXCEPT !.reg = "Enabled", !.now = s.pend]
    [] m.type = "ConstrainedEnabled" -> [s EXCEPT !.con = "Enabled", !.now = s.pend]
    [] OTHER                         -> s

-----------------------------------------------------------------------------
(* Types *)

CommitIds == 0 .. CommitIdModulus - 1

Commits == [ta : Nat, nm : Nat, id : CommitIds, waitId : CommitIds, locked : BOOLEAN]

EnableRequests == [type : {"EnableReg"}, fed : Federates, ts : Nat, id : CommitIds]
EnableResponses ==
  [type : {"EnableRegResponse"}, to : Federates, from : Federates, ts : Nat, valid : BOOLEAN]
CommitMessages ==
  [type : {"Commit"}, fed : Federates, ts : Nat, ct : CommitTypes, id : CommitIds]
CommitResponseMessages ==
  [type : {"CommitResponse"}, to : Federates, from : Federates, id : CommitIds]
LockedMessages == [type : {"Locked"}, from : Federates, locked : BOOLEAN]
DataMessages == [type : {"Data"}, from : Federates, ts : Nat, order : {"TSO", "RO"}]
Notices(types) == [type : types, fed : Federates]

Relayed == EnableRequests \cup EnableResponses \cup CommitMessages
           \cup CommitResponseMessages \cup LockedMessages \cup DataMessages
ToServer == Relayed \cup Notices({"DisableReg", "EnableCon", "DisableCon", "Resign"})
ToFederate == Relayed \cup Notices({"DisableReg", "JoinNotify", "JoinResponse", "ResignNotify"})

Callbacks == [type : {"Granted", "RegulationEnabled", "ConstrainedEnabled"}] \cup DataMessages

\* s is the state of an ambassador.
IsState(s) ==
  /\ s \in [member : {"out", "joining", "in", "resigned"}, known : SUBSET Federates,
            reg : Modes, con : Modes, adv : AdvanceModes,
            now : TimePairs, pend : TimePairs, out : TimePairs, last : TimePairs,
            cTA : Nat, cNM : Nat, curLA : Nat, tgtLA : Nat,
            bounds : {s.bounds}, enableSet : SUBSET Federates,
            stamps : {s.stamps}, sched : BOOLEAN, commitId : CommitIds,
            tso : Seq([at : TimePairs, msg : Callbacks]), ro : Seq(DataMessages),
            async : BOOLEAN, allowPend : BOOLEAN, sent : Seq(ToServer)]
  /\ IsMap(s.bounds, Federates, Commits)
  /\ IsMap(s.stamps, Federates, Nat)

=============================================================================
