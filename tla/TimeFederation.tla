--------------------------- MODULE TimeFederation ---------------------------
(***************************************************************************)
(* A federation under time management: the ambassadors of TimeManagement   *)
(* connected to the root server (class FederationServer of ServerNode.cpp).*)
(* Every connect is a reliable FIFO in each direction: fed[f].sent towards *)
(* the server, toFed[f] back.  The server takes one message at a time; an  *)
(* ambassador accepts messages and dispatches callbacks in any interleaving*)
(* with the calls of its federate.                                         *)
(*                                                                         *)
(* Program[f] says which calls the program of federate f contains; a       *)
(* federate makes at most MaxCalls[f] calls.                               *)
(***************************************************************************)
EXTENDS TimeManagement

CONSTANTS InitialMembers,      \* the federates that are joined at the start
          InitialRegulating,   \* those that regulate time at the start ...
          InitialConstrained,  \* ... and those that are constrained
          InitialLookahead,    \* the lookahead of the first
          Program,             \* the kinds of calls each federate may make
          MaxCalls,            \* bound on the calls of each federate
          Times,               \* time arguments of the calls
          Lookaheads,          \* lookahead arguments of the calls
          DeliverToSelf        \* setInteractionClassDeliverToSelf is switched on

CallKinds == {"Join", "Resign", "EnableReg", "EnableRegAt", "DisableReg",
              "EnableCon", "DisableCon", "TAR", "TARA", "NMR", "NMRA", "FQR",
              "ModifyLookahead", "Send", "Async", "AllowPending",
              "Overlap"}

ASSUME FederationAssumption ==
  /\ InitialMembers \subseteq Federates
  /\ InitialRegulating \subseteq InitialMembers
  /\ InitialConstrained \subseteq InitialMembers
  /\ InitialLookahead \in Nat
  /\ Program \in [Federates -> SUBSET CallKinds]
  /\ MaxCalls \in [Federates -> Nat]
  /\ Times \subseteq Nat
  /\ Lookaheads \subseteq Nat
  /\ DeliverToSelf \in BOOLEAN

VARIABLES
  fed,     \* the state of each ambassador
  toFed,   \* the messages on the way from the server to each ambassador
  server,  \* the state of the FederationServer
  calls    \* how many calls each federate has made

vars == <<fed, toFed, server, calls>>

\* The start: some federates have joined, and some of these have completed
\* enableTimeRegulation and enableTimeConstrained at the initial time.
Started(f) ==
  LET regulates == f \in InitialRegulating
      bound == IF regulates THEN InitialLookahead ELSE InitialTime
      lookahead == IF regulates THEN InitialLookahead ELSE 0
  IN  [NewTimeManagement EXCEPT
         !.member = "in",
         !.known = InitialMembers \ {f},
         !.reg = IF regulates THEN "Enabled" ELSE "Disabled",
         !.con = IF f \in InitialConstrained THEN "Enabled" ELSE "Disabled",
         !.curLA = lookahead, !.tgtLA = lookahead,
         !.out = <<bound, 0>>, !.last = <<bound, 0>>, !.cTA = bound, !.cNM = bound,
         !.bounds = [g \in InitialRegulating \ {f} |->
                       [ta |-> InitialLookahead, nm |-> InitialLookahead, id |-> InitialCommitId,
                        waitId |-> PreviousCommitId(InitialCommitId), locked |-> FALSE]]]

Init ==
  /\ fed = [f \in Federates |-> IF f \in InitialMembers THEN Started(f) ELSE NewTimeManagement]
  /\ toFed = [f \in Federates |-> <<>>]
  /\ server = [members |-> InitialMembers,
               regulating |-> InitialRegulating, constrained |-> InitialConstrained,
               ta |-> [g \in InitialRegulating |-> InitialLookahead],
               nm |-> [g \in InitialRegulating |-> InitialLookahead],
               id |-> [g \in InitialRegulating |-> InitialCommitId]]
  /\ calls = [f \in Federates |-> 0]

-----------------------------------------------------------------------------
(* Calls of the federates, with the guards of Ambassador.h *)

May(f, kind) ==
  /\ kind \in Program[f]
  /\ calls[f] < MaxCalls[f]
  /\ fed[f].member = "in"

Called(f, s) ==
  /\ fed' = [fed EXCEPT ![f] = s]
  /\ calls' = [calls EXCEPT ![f] = @ + 1]
  /\ UNCHANGED <<toFed, server>>

\* Asserted by TimeManagement, not checked by Ambassador: no change of the time
\* regulation or constrained mode while another request is pending.  A program
\* with "Overlap" does not keep to that.
KeepsOrder(f) ==
  \/ "Overlap" \in Program[f]
  \/ /\ fed[f].reg # "EnablePending"
     /\ fed[f].con # "EnablePending"
     /\ ~getTimeAdvancePending(fed[f])

EnableTimeRegulation(f) ==
  /\ May(f, "EnableReg") /\ KeepsOrder(f)
  /\ fed[f].reg = "Disabled"
  /\ ~getTimeAdvancePending(fed[f])
  /\ \E la \in Lookaheads : Called(f, _enableTimeRegulation(f, fed[f], fed[f].now[1], la))

\* The variant with an explicit logical time
EnableTimeRegulationAt(f) ==
  /\ May(f, "EnableRegAt") /\ KeepsOrder(f)
  /\ fed[f].reg = "Disabled"
  /\ ~getTimeAdvancePending(fed[f])
  /\ \E t \in Times, la \in Lookaheads :
        /\ ~isLogicalTimeInThePast(fed[f], t)
        /\ Called(f, _enableTimeRegulation(f, fed[f], t, la))

DisableTimeRegulation(f) ==
  /\ May(f, "DisableReg") /\ KeepsOrder(f)
  /\ fed[f].reg = "Enabled"
  /\ Called(f, disableTimeRegulation(f, fed[f]))

EnableTimeConstrained(f) ==
  /\ May(f, "EnableCon") /\ KeepsOrder(f)
  /\ fed[f].con = "Disabled"
  /\ ~getTimeAdvancePending(fed[f])
  /\ Called(f, enableTimeConstrained(f, fed[f]))

DisableTimeConstrained(f) ==
  /\ May(f, "DisableCon") /\ KeepsOrder(f)
  /\ fed[f].con = "Enabled"
  /\ Called(f, disableTimeConstrained(f, fed[f]))

\* flushQueueRequest first accepts everything that has arrived: these are Accept steps, and
\* what is then left in toFed[f] is still on the network.
TimeAdvanceRequest(f, mode) ==
  /\ May(f, mode)
  /\ ~getTimeAdvancePending(fed[f])
  /\ fed[f].reg # "EnablePending"
  /\ fed[f].con # "EnablePending"
  /\ \E t \in Times :
        /\ ~isLogicalTimeInThePast(fed[f], t)
        /\ Called(f, timeAdvanceRequest(f, fed[f], t, mode))

ModifyLookahead(f) ==
  /\ May(f, "ModifyLookahead")
  /\ fed[f].reg = "Enabled"
  /\ ~getTimeAdvancePending(fed[f])
  /\ fed[f].con # "EnablePending"
  /\ \E la \in Lookaheads : Called(f, modifyLookahead(f, fed[f], la))

\* sendInteraction and updateAttributeValues with a time stamp
SendTimeStamped(f) ==
  /\ May(f, "Send")
  /\ \E t \in Times :
        LET s == fed[f]
            m == TimeStamped(f, t, IF s.reg = "Enabled" THEN "TSO" ELSE "RO")
        IN  /\ s.reg = "Enabled" => ~logicalTimeAlreadyPassed(s, t)
            /\ Called(f, send(IF DeliverToSelf THEN acceptData(f, s, m) ELSE s, m))

\* enableAsynchronousDelivery and disableAsynchronousDelivery; one that changes nothing throws.
SwitchAsynchronousDelivery(f) ==
  /\ May(f, "Async")
  /\ Called(f, [fed[f] EXCEPT !.async = ~@])

\* allow- and disallowPendingTimeInNextMessageRequest
SwitchPendingTimeInNextMessageRequest(f) ==
  /\ May(f, "AllowPending")
  /\ Called(f, [fed[f] EXCEPT !.allowPend = ~@])

\* The ambassador drops its time management with the request.
Resign(f) ==
  /\ May(f, "Resign")
  /\ Called(f, [NewTimeManagement EXCEPT
                  !.member = "resigned",
                  !.sent = Append(fed[f].sent, [type |-> "Resign", fed |-> f])])

Call(f) ==
  \/ EnableTimeRegulation(f)
  \/ EnableTimeRegulationAt(f)
  \/ DisableTimeRegulation(f)
  \/ EnableTimeConstrained(f)
  \/ DisableTimeConstrained(f)
  \/ \E mode \in AdvanceModes \ {"Granted"} : TimeAdvanceRequest(f, mode)
  \/ ModifyLookahead(f)
  \/ SendTimeStamped(f)
  \/ SwitchAsynchronousDelivery(f)
  \/ SwitchPendingTimeInNextMessageRequest(f)
  \/ Resign(f)

-----------------------------------------------------------------------------
(* The server *)

ToAll(m, receivers) ==
  toFed' = [f \in Federates |-> IF f \in receivers THEN Append(toFed[f], m) ELSE toFed[f]]

\* What pushFederation tells a new connect: the members, and of every regulating
\* federate the committed bounds.
PushMembers == SetToSeq({[type |-> "JoinNotify", fed |-> g] : g \in server.members})

\* Wrong: the commit of a federate before the request that makes it known
PushRegulating_CommitFirst ==
  LET order == SetToSeq(server.regulating)
      g(i)  == order[(i + 1) \div 2]
  IN  [i \in 1 .. 2 * Len(order) |->
         IF i % 2 = 0
         THEN EnableRequest(g(i), server.ta[g(i)], server.id[g(i)])
         ELSE CommitMessage(g(i), server.nm[g(i)], {"NM"}, server.id[g(i)])]

PushRegulating ==
  LET order == SetToSeq(server.regulating)
      g(i)  == order[(i + 1) \div 2]
  IN  [i \in 1 .. 2 * Len(order) |->
         IF i % 2 = 1
         THEN EnableRequest(g(i), server.ta[g(i)], server.id[g(i)])
         ELSE CommitMessage(g(i), server.nm[g(i)], {"NM"}, server.id[g(i)])]

\* Join at the root: the federation is pushed to the new connect, then the
\* response, and all others are notified.
Join(f) ==
  /\ "Join" \in Program[f] /\ fed[f].member = "out"
  /\ server' = [server EXCEPT !.members = @ \cup {f}]
  /\ fed' = [fed EXCEPT ![f].member = "joining"]
  /\ toFed' = [g \in Federates |->
       IF g = f THEN toFed[f] \o PushMembers \o PushRegulating \o <<[type |-> "JoinResponse", fed |-> f]>>
       ELSE IF g \in server.members
            THEN Append(toFed[g], [type |-> "JoinNotify", fed |-> f])
       ELSE toFed[g]]
  /\ UNCHANGED calls

\* Take the oldest message of f's connect.
Take(f) ==
  /\ fed[f].sent # <<>>
  /\ fed' = [fed EXCEPT ![f].sent = Tail(@)]
  /\ UNCHANGED calls

Arrived(f, type) == fed[f].sent # <<>> /\ Head(fed[f].sent).type = type

ServeEnableTimeRegulation(f) ==
  /\ Arrived(f, "EnableReg") /\ Take(f)
  /\ LET m == Head(fed[f].sent)
     IN  /\ f \in server.members \ server.regulating
         /\ server' = [server EXCEPT !.regulating = @ \cup {f}, !.ta = Put(@, f, m.ts),
                                     !.nm = Put(@, f, m.ts), !.id = Put(@, f, m.id)]
         /\ ToAll(m, server.members)

\* Wrong: the others are not told
ServeDisableTimeRegulation_Silent(f) ==
  /\ Arrived(f, "DisableReg") /\ Take(f)
  /\ f \in server.regulating
  /\ UNCHANGED toFed
  /\ server' = [server EXCEPT !.regulating = @ \ {f},
                              !.ta = Drop(@, f), !.nm = Drop(@, f), !.id = Drop(@, f)]

ServeDisableTimeRegulation(f) ==
  /\ Arrived(f, "DisableReg") /\ Take(f)
  /\ f \in server.regulating
  /\ ToAll(Head(fed[f].sent), server.members \ {f})
  /\ server' = [server EXCEPT !.regulating = @ \ {f},
                              !.ta = Drop(@, f), !.nm = Drop(@, f), !.id = Drop(@, f)]

\* The notifications are for the MOM; ambassadors ignore them.
ServeEnableTimeConstrained(f) ==
  /\ Arrived(f, "EnableCon") /\ Take(f)
  /\ f \in server.members \ server.constrained
  /\ server' = [server EXCEPT !.constrained = @ \cup {f}]
  /\ UNCHANGED toFed

ServeDisableTimeConstrained(f) ==
  /\ Arrived(f, "DisableCon") /\ Take(f)
  /\ f \in server.constrained
  /\ server' = [server EXCEPT !.constrained = @ \ {f}]
  /\ UNCHANGED toFed

CommitReceivers(f) ==
  (IF server.constrained = {} THEN server.members ELSE server.constrained) \ {f}

ServeCommit(f) ==
  /\ Arrived(f, "Commit") /\ Take(f)
  /\ f \in server.regulating
  /\ LET m == Head(fed[f].sent)
     IN  /\ server' = [server EXCEPT !.ta[f] = IF "TA" \in m.ct THEN m.ts ELSE @,
                                     !.nm[f] = IF "NM" \in m.ct THEN m.ts ELSE @,
                                     !.id[f] = m.id]
         /\ ToAll(m, CommitReceivers(f))

\* EnableTimeRegulationResponse and CommitLowerBoundTimeStampResponse
ServeResponse(f) ==
  /\ Arrived(f, "EnableRegResponse") \/ Arrived(f, "CommitResponse")
  /\ Take(f)
  /\ ToAll(Head(fed[f].sent), server.members \cap {Head(fed[f].sent).to})
  /\ UNCHANGED server

ServeLocked(f) ==
  /\ Arrived(f, "Locked") /\ Take(f)
  /\ ToAll(Head(fed[f].sent), server.regulating \ {f})
  /\ UNCHANGED server

\* Routing of data: every other federate is subscribed.
ServeData(f) ==
  /\ Arrived(f, "Data") /\ Take(f)
  /\ ToAll(Head(fed[f].sent), server.members \ {f})
  /\ UNCHANGED server

\* Wrong: the bounds of the federate stay behind, and nobody is told that they are gone
ServeResign_KeepsBounds(f) ==
  /\ Arrived(f, "Resign") /\ Take(f)
  /\ toFed' = [g \in Federates |->
       IF g = f THEN <<>>
       ELSE IF g \in server.members
            THEN Append(toFed[g], [type |-> "ResignNotify", fed |-> f])
       ELSE toFed[g]]
  /\ server' = [server EXCEPT !.members = @ \ {f}, !.regulating = @ \ {f},
                              !.constrained = @ \ {f}]

ServeResign(f) ==
  /\ Arrived(f, "Resign") /\ Take(f)
  /\ LET notify  == <<[type |-> "ResignNotify", fed |-> f]>>
         disable == IF f \in server.regulating THEN <<DisableRequest(f)>> ELSE <<>>
     IN  toFed' = [g \in Federates |->
           IF g = f THEN <<>>
           ELSE IF g \in server.members THEN toFed[g] \o disable \o notify
           ELSE toFed[g]]
  /\ server' = [server EXCEPT !.members = @ \ {f}, !.regulating = @ \ {f},
                              !.constrained = @ \ {f},
                              !.ta = Drop(@, f), !.nm = Drop(@, f), !.id = Drop(@, f)]

Serve(f) ==
  \/ ServeEnableTimeRegulation(f)
  \/ ServeDisableTimeRegulation(f)
  \/ ServeEnableTimeConstrained(f)
  \/ ServeDisableTimeConstrained(f)
  \/ ServeCommit(f)
  \/ ServeResponse(f)
  \/ ServeLocked(f)
  \/ ServeData(f)
  \/ ServeResign(f)

-----------------------------------------------------------------------------
(* The ambassadors *)

acceptInternalMessage(f, s, m) ==
  CASE m.type = "JoinNotify"        -> acceptJoinNotify(f, s, m.fed)
    [] m.type = "JoinResponse"      -> [s EXCEPT !.member = "in"]
    [] m.type = "ResignNotify"      -> acceptResignNotify(f, s, m.fed)
    [] m.type = "EnableReg"         -> IF m.fed = f THEN acceptOwnEnableRequest(f, s)
                                       ELSE acceptEnableRequest(f, s, m)
    [] m.type = "EnableRegResponse" -> acceptEnableResponse(f, s, m)
    [] m.type = "DisableReg"        -> acceptDisableRequest(f, s, m)
    [] m.type = "Commit"            -> acceptCommit(f, s, m)
    [] m.type = "CommitResponse"    -> acceptCommitResponse(f, s, m)
    [] m.type = "Locked"            -> acceptLocked(f, s, m)
    [] m.type = "Data"              -> acceptData(f, s, m)

\* Take the oldest message from the server.
Receive(f) ==
  /\ toFed[f] # <<>>
  /\ fed[f].member # "resigned"
  /\ toFed' = [toFed EXCEPT ![f] = Tail(@)]

Accept(f) ==
  /\ Receive(f)
  /\ fed' = [fed EXCEPT ![f] = acceptInternalMessage(f, fed[f], Head(toFed[f]))]
  /\ UNCHANGED <<server, calls>>

DispatchReceiveOrder(f) ==
  /\ fed[f].member = "in"
  /\ receiveOrderCallback(fed[f])
  /\ fed' = [fed EXCEPT ![f].ro = Tail(@)]
  /\ UNCHANGED <<toFed, server, calls>>

DispatchTimeStampOrder(f) ==
  LET s == checkForPendingFlushQueue(fed[f])
  IN  /\ fed[f].member = "in"
      /\ ~receiveOrderCallback(fed[f])
      /\ timeStampOrderCallback(s)
      /\ fed' = [fed EXCEPT ![f] = acceptCallback([s EXCEPT !.tso = Tail(@)], Head(s.tso).msg)]
      /\ UNCHANGED <<toFed, server, calls>>

Next ==
  \E f \in Federates :
    Call(f) \/ Join(f) \/ Serve(f) \/ Accept(f) \/ DispatchReceiveOrder(f) \/ DispatchTimeStampOrder(f)

Spec == Init /\ [][Next]_vars

\* The server goes on taking messages from every connect, every ambassador goes on
\* receiving and dispatching callbacks; no federate has to call.
Fairness ==
  \A f \in Federates :
    /\ WF_fed(Take(f))
    /\ WF_toFed(Receive(f))
    /\ WF_vars(DispatchReceiveOrder(f) \/ DispatchTimeStampOrder(f))

FairSpec == Spec /\ Fairness

-----------------------------------------------------------------------------
(* Properties *)

\* s is a state of the server: for each regulating federate, and for no other, it
\* has the bounds and the commit id that it tells to those who join.
IsServer(s) ==
  /\ s \in [members : SUBSET Federates, regulating : SUBSET Federates,
            constrained : SUBSET Federates, ta : {s.ta}, nm : {s.nm}, id : {s.id}]
  /\ s.regulating = DOMAIN s.ta /\ IsMap(s.ta, Federates, Nat)
  /\ s.regulating = DOMAIN s.nm /\ IsMap(s.nm, Federates, Nat)
  /\ s.regulating = DOMAIN s.id /\ IsMap(s.id, Federates, CommitIds)

\* The type invariant
TypeOK ==
  /\ DOMAIN fed = Federates /\ \A f \in Federates : IsState(fed[f])
  /\ toFed \in [Federates -> Seq(ToFederate)]
  /\ IsServer(server)
  /\ calls \in [Federates -> Nat] /\ \A f \in Federates : calls[f] <= MaxCalls[f]

IsTSO(m) == m.type = "Data" /\ m.order = "TSO"

\* The time stamps of the messages on the way to f
InTransit(f) ==
  {m.ts : m \in {n \in Range(toFed[f]) : IsTSO(n)}} \cup
  UNION {{m.ts : m \in {n \in Range(fed[g].sent) : IsTSO(n)}} : g \in Federates \ {f}}

\* A constrained federate has been told that nothing comes at t any more.
Late(s, t) == s.con = "Enabled" /\ t < _toLogicalTime(s.now)

\* The promise of time management: no time stamp ordered message is on its way to a
\* constrained federate that was already granted a time at or beyond its time stamp
\* (queueTimeStampedMessage would drop it or deliver it too late).
NoLateMessage == \A f \in Federates : \A t \in InTransit(f) : ~Late(fed[f], t)

\* A constrained federate gets its time stamp ordered messages in time stamp order,
\* counting those that other federates have sent and that have not arrived yet.
\* (A flush queue request gives that up.)
InOrderDelivery ==
  [][\A f \in Federates :
       LET s == fed[f]
       IN  /\ s.con = "Enabled" /\ s.adv # "FQR" /\ fed'[f].member = "in"
           /\ s.tso # <<>> /\ fed'[f].tso = Tail(s.tso)
           /\ IsTSO(Head(s.tso).msg)
           => \A t \in InTransit(f) : Head(s.tso).msg.ts <= t]_vars

\* A regulating federate never promises more than it keeps: what it committed is not
\* beyond the time stamps it may still send, in next message mode least of all
\* (the assertions of _sendCommitLowerBoundTimeStamp).
PromiseKept ==
  \A f \in Federates :
    LET s == fed[f]
    IN  s.reg = "Enabled" => s.cTA <= s.cNM /\ s.cNM <= _toLogicalTime(s.out)

\* What a federate knows of a regulating federate is never more than the latter promised,
\* whatever commits are still on their way.
BoundsSound ==
  \A f \in Federates : \A g \in DOMAIN fed[f].bounds :
    fed[g].reg = "Enabled" => fed[f].bounds[g].ta <= fed[g].cTA

\* Logical time never goes back while a federate is joined.
TimeMonotone ==
  [][\A f \in Federates : fed'[f].member = "in" => PairLeq(fed[f].now, fed'[f].now)]_vars

\* The server never meets a message for which it throws MessageError ...
Servable(f, m) ==
  CASE m.type = "EnableReg"               -> f \in server.members \ server.regulating
    [] m.type \in {"DisableReg", "Commit"} -> f \in server.regulating
    [] m.type = "EnableCon"               -> f \in server.members \ server.constrained
    [] m.type = "DisableCon"              -> f \in server.constrained
    [] OTHER                              -> f \in server.members

\* ... and an ambassador never gets a commit of a federate that is not in its map, nor
\* a second entry for one that is.
Acceptable(f, m) ==
  CASE m.type = "Commit"    -> m.fed \in DOMAIN fed[f].bounds
    [] m.type = "EnableReg" -> m.fed \notin DOMAIN fed[f].bounds
    [] OTHER                -> TRUE

\* Requests, commits, joins and resignations that cross each other on the connects never
\* reach the server or an ambassador in a state that has no answer to them.
NoProtocolError ==
  \A f \in Federates :
    /\ fed[f].sent # <<>> => Servable(f, Head(fed[f].sent))
    /\ toFed[f] # <<>> /\ fed[f].member # "resigned" => Acceptable(f, Head(toFed[f]))

CallbackAvailable(f) ==
  /\ fed[f].member = "in"
  /\ \/ receiveOrderCallback(fed[f])
     \/ timeStampOrderCallback(checkForPendingFlushQueue(fed[f]))

Quiescent ==
  \A f \in Federates : toFed[f] = <<>> /\ fed[f].sent = <<>> /\ ~CallbackAvailable(f)

Waits(f) ==
  \/ fed[f].reg = "EnablePending"
  \/ fed[f].con = "EnablePending"
  \/ getTimeAdvancePending(fed[f])

\* Never does every joined federate wait while nothing is on the way and no callback
\* is left: the next message protocol always lets one of them go on.
NoDeadlock ==
  Quiescent /\ server.members # {} => \E f \in server.members : ~Waits(f)

\* ServerNode.cpp:757: "non time constrained federates must be able to query the GALT for
\* itself, which is only possible if they know the time advances of each regulating federate,
\* thus just broadcast": when nothing is on its way, every joined federate has the bound that
\* each regulating federate has committed.
TimeAdvancesKnown ==
  Quiescent => \A f \in server.members : \A g \in server.regulating \ {f} :
                 g \in DOMAIN fed[f].bounds /\ fed[f].bounds[g].ta = fed[g].cTA

\* A federate that asks to regulate is told that it does, whoever joins, resigns or
\* asks the same in the meantime.
EnablingCompletes ==
  \A f \in Federates :
    fed[f].reg = "EnablePending" ~> fed[f].reg # "EnablePending"

\* g could go on, and has not promised enough yet for what f waits for.
HoldsBack(g, f) ==
  fed[g].reg = "Enabled" /\ ~Waits(g) /\ ~Admits(fed[f].pend, fed[g].cTA)

\* A requested advance is granted, or another federate that is free to go on holds it back.
AdvanceCompletes ==
  \A f \in Federates :
    getTimeAdvancePending(fed[f]) ~>
      \/ ~getTimeAdvancePending(fed[f])
      \/ \E g \in Federates \ {f} : HoldsBack(g, f)

=============================================================================
