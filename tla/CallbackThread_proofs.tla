------------------------ MODULE CallbackThread_proofs ------------------------
(***************************************************************************)
(* Proofs about CallbackThread, for every number of calls, connects,       *)
(* callbacks and switches.  That the thread has ended when the federate is *)
(* not connected follows from where it is started (by a connect, when no   *)
(* other thread is left) and where it is waited for (by the disconnect,    *)
(* after the connect has gone).                                            *)
(***************************************************************************)
EXTENDS CallbackThread, SequenceTheorems, TLAPS

\* The kinds of messages are disjoint, and none is the absence of a message.
LEMMA MessageTypes ==
  /\ \A k \in AllCalls : Answer(k) \in Messages
  /\ \A n \in Callbacks : Cause(n) \in Messages /\ Cause(n) \in Causes
  /\ \A m \in Causes : m \in Messages /\ m.id \in Callbacks
<1>1. \A k \in AllCalls : Answer(k) \in Messages
  BY DEF Messages
<1>2. \A n \in Callbacks : Cause(n) \in Messages /\ Cause(n) \in Causes
  BY DEF Messages, Causes
<1>3. \A m \in Causes : m \in Messages
  BY DEF Messages
<1>4. \A m \in Causes : m.id \in Callbacks
  BY DEF Causes, Cause
<1> QED
  BY <1>1, <1>2, <1>3, <1>4

\* The part of the type invariant about the callback thread, ...
ThreadOK ==
  /\ thread \in [pc : PCs, flush : BOOLEAN, msg : Messages \cup {NoMessage}]
  /\ thread.pc = "accept" => thread.msg \in Messages
  /\ thread.pc \in {"dispatched", "callback"} => thread.msg \in Causes

\* ... the one about the federate's thread, ...
FedOK ==
  /\ fed \in [pc : FedPCs, call : AllCalls \cup {"none"}, msg : Messages \cup {NoMessage}]
  /\ fed.pc = "received" => fed.msg \in Messages

\* ... and the rest.
SharedOK ==
  /\ conn \in BOOLEAN /\ enabled \in BOOLEAN /\ signaled \in BOOLEAN /\ done \in BOOLEAN
  /\ queue \in Seq(Messages) /\ list \in Seq(Causes) /\ requests \in Seq(AllCalls)
  /\ member \in [joined : BOOLEAN, pool : Nat]
  /\ outcome \in [Callbacks -> {"none", "sent", "delivered", "dropped"}]
  /\ used \in [calls : Nat, connects : Nat, switches : Nat]

\* A thread that goes to a place where it needs no message
LEMMA GotoType ==
  ASSUME ThreadOK, NEW pc \in PCs \ {"accept", "dispatched", "callback"}, Goto(pc)
  PROVE  ThreadOK'
  BY DEF ThreadOK, Goto

\* A thread that has received a message
LEMMA ReceivedType ==
  ASSUME ThreadOK, NEW m \in Messages, thread' = [thread EXCEPT !.pc = "accept", !.msg = m]
  PROVE  ThreadOK'
  BY DEF ThreadOK, PCs

\* The federate's thread goes to a place where it needs no message.
LEMMA AtType ==
  ASSUME FedOK, NEW pc \in FedPCs \ {"received"}, At(pc)
  PROVE  FedOK' /\ fed'.pc = pc
  BY DEF FedOK, At

\* A call of the federate ends.
LEMMA IdleType ==
  ASSUME FedOK, Idle
  PROVE  FedOK' /\ fed'.pc = "idle"
  BY DEF FedOK, Idle, FedPCs

\* acceptInternalMessage keeps the types of what it changes, whichever thread calls it.
LEMMA AcceptType ==
  ASSUME TypeOK, NEW m \in Messages, acceptInternalMessage(m)
  PROVE  /\ list' \in Seq(Causes) /\ signaled' \in BOOLEAN
         /\ member' \in [joined : BOOLEAN, pool : Nat]
<1>1. list' \in Seq(Causes)
  <2>1. CASE m \in Causes
    <3>1. list \in Seq(Causes) /\ list' = Append(list, m)
      BY <2>1 DEF TypeOK, acceptInternalMessage, queueCallback
    <3> QED
      BY <2>1, <3>1, AppendProperties
  <2>2. CASE m \notin Causes
    BY <2>2 DEF TypeOK, acceptInternalMessage, queueCallback
  <2> QED
    BY <2>1, <2>2
<1>2. signaled' \in BOOLEAN
  <2>1. CASE m \in Causes
    BY <2>1 DEF acceptInternalMessage, queueCallback
  <2>2. CASE m \notin Causes
    <3>1. queueCallback(m)
      BY DEF acceptInternalMessage
    <3>2. signaled' = signaled
      BY <2>2, <3>1 DEF queueCallback
    <3> QED
      BY <3>2 DEF TypeOK
  <2> QED
    BY <2>1, <2>2
<1>3. member' \in [joined : BOOLEAN, pool : Nat]
  <2>1. member \in [joined : BOOLEAN, pool : Nat]
    BY DEF TypeOK
  <2>2. updateFederate(m)
    BY DEF acceptInternalMessage
  <2> QED
    BY <2>1, <2>2 DEF updateFederate
<1> QED
  BY <1>1, <1>2, <1>3

\* A step of the callback thread
LEMMA ThreadStepType == TypeOK /\ ThreadStep => TypeOK'
<1> SUFFICES ASSUME TypeOK, ThreadStep PROVE TypeOK'
  OBVIOUS
<1> USE DEF TypeOK, shared, outside, Goto, PCs
<1>1. CASE CheckLoop
  BY <1>1 DEF CheckLoop
<1>2. CASE Wait
  BY <1>2 DEF Wait
<1>3. CASE CheckDone
  BY <1>3 DEF CheckDone
<1>4. CASE CheckEnabled
  BY <1>4 DEF CheckEnabled
<1>5. CASE CheckConnect
  BY <1>5 DEF CheckConnect
<1>6. CASE Receive
  <2>1. CASE queue # <<>>
    <3>1. Head(queue) \in Messages /\ Tail(queue) \in Seq(Messages)
      BY <2>1, HeadTailProperties
    <3>2. ThreadOK'
      BY <1>6, <2>1, <3>1, ReceivedType DEF Receive, ThreadOK
    <3>3. SharedOK' /\ FedOK'
      BY <1>6, <2>1, <3>1 DEF Receive, SharedOK, FedOK
    <3> QED
      BY <3>2, <3>3 DEF SharedOK, FedOK, ThreadOK
  <2>2. CASE queue = <<>>
    <3>1. ThreadOK'
      BY <1>6, <2>2, GotoType DEF Receive, ThreadOK
    <3>2. SharedOK' /\ FedOK'
      BY <1>6, <2>2 DEF Receive, SharedOK, FedOK
    <3> QED
      BY <3>1, <3>2 DEF SharedOK, FedOK, ThreadOK
  <2> QED
    BY <2>1, <2>2
<1>7. CASE ReceiveGone
  BY <1>7 DEF ReceiveGone, FedPCs
<1>8. CASE Accept
  BY <1>8, AcceptType DEF Accept
<1>9. CASE CheckFlushed
  BY <1>9 DEF CheckFlushed
<1>10. CASE Dispatch
  <2>1. CASE list # <<>>
    <3>1. Head(list) \in Causes /\ Tail(list) \in Seq(Causes)
      BY <2>1, HeadTailProperties
    <3>2. Head(list) \in Messages
      BY <3>1, MessageTypes
    <3> QED
      BY <1>10, <2>1, <3>1, <3>2 DEF Dispatch
  <2>2. CASE list = <<>>
    BY <1>10, <2>2 DEF Dispatch
  <2> QED
    BY <2>1, <2>2
<1>11. CASE acceptCallbackMessage
  <2>1. thread.pc = "dispatched" /\ thread.msg.id \in Callbacks
    BY <1>11, MessageTypes DEF acceptCallbackMessage
  <2>2. UNCHANGED <<conn, queue, list, enabled, signaled, done, fed, member, requests, used>>
    BY <1>11 DEF acceptCallbackMessage
  <2>3. CASE thread.msg.id \in FederateCallbacks /\ ~member.joined
    <3>1. Dispatched /\ outcome' = [outcome EXCEPT ![thread.msg.id] = "dropped"]
      BY <1>11, <2>3 DEF acceptCallbackMessage
    <3>2. outcome' \in [Callbacks -> {"none", "sent", "delivered", "dropped"}]
      BY <2>1, <3>1
    <3>3. ThreadOK'
      BY <3>1 DEF Dispatched, ThreadOK
    <3> QED
      BY <2>2, <3>2, <3>3 DEF ThreadOK
  <2>4. CASE ~(thread.msg.id \in FederateCallbacks /\ ~member.joined)
    <3>1. thread' = [thread EXCEPT !.pc = "callback"] /\ outcome' = outcome
      BY <1>11, <2>4 DEF acceptCallbackMessage
    <3>2. ThreadOK'
      BY <2>1, <3>1 DEF ThreadOK
    <3> QED
      BY <2>2, <3>1, <3>2 DEF ThreadOK
  <2> QED
    BY <2>3, <2>4
<1>12. CASE Return
  BY <1>12, MessageTypes DEF Return, Dispatched
<1> QED
  BY <1>1, <1>2, <1>3, <1>4, <1>5, <1>6, <1>7, <1>8, <1>9, <1>10, <1>11, <1>12 DEF ThreadStep

\* A step of the federate's thread that is none of the federate's own choice
LEMMA CallStepType == TypeOK /\ CallStep => TypeOK'
<1> SUFFICES ASSUME TypeOK, CallStep PROVE TypeOK'
  OBVIOUS
<1> USE DEF TypeOK, shared, outside, FedPCs
<1>1. CASE enableImmediateProcessing
  BY <1>1 DEF enableImmediateProcessing, Goto, PCs, Idle
<1>2. CASE Stop
  BY <1>2 DEF Stop, At
<1>3. CASE Signal
  BY <1>3 DEF Signal, At
<1>4. CASE JoinThread
  BY <1>4 DEF JoinThread, At
<1>5. CASE disableCallbacks
  BY <1>5 DEF disableCallbacks, At
<1>6. CASE ReceiveInCall
  <2>1. Head(queue) \in Messages /\ Tail(queue) \in Seq(Messages)
    BY <1>6, HeadTailProperties DEF ReceiveInCall
  <2> QED
    BY <1>6, <2>1 DEF ReceiveInCall
<1>7. CASE TakeAnswer
  <2>1. FedOK'
    BY <1>7, AtType DEF TakeAnswer, FedOK
  <2>2. member' \in [joined : BOOLEAN, pool : Nat]
    BY <1>7 DEF TakeAnswer, updateFederate
  <2> QED
    BY <1>7, <2>1, <2>2 DEF TakeAnswer, FedOK
<1>8. CASE Ignore
  BY <1>8 DEF Ignore, At
<1>9. CASE AcceptInCall
  <2>1. fed.msg \in Messages /\ acceptInternalMessage(fed.msg)
    BY <1>9 DEF AcceptInCall
  <2>2. SharedOK' /\ ThreadOK'
    BY <1>9, <2>1, AcceptType DEF AcceptInCall, SharedOK, ThreadOK
  <2>3. FedOK'
    <3>1. Idle \/ At("look") \/ At("waiting")
      BY <1>9 DEF AcceptInCall
    <3> QED
      BY <3>1, IdleType, AtType DEF FedOK
  <2> QED
    BY <2>2, <2>3 DEF SharedOK, FedOK, ThreadOK
<1>10. CASE Look
  <2>1. FedOK'
    <3>1. Idle \/ At("waiting")
      BY <1>10 DEF Look
    <3> QED
      BY <3>1, IdleType, AtType DEF FedOK
  <2>2. member' \in [joined : BOOLEAN, pool : Nat]
    <3>1. CASE member.pool > 0
      <4>1. member.pool - 1 \in Nat
        BY <3>1
      <4> QED
        BY <1>10, <3>1, <4>1 DEF Look
    <3>2. CASE ~(member.pool > 0)
      BY <1>10, <3>2 DEF Look
    <3> QED
      BY <3>1, <3>2
  <2> QED
    BY <1>10, <2>1, <2>2 DEF Look, FedOK
<1>11. CASE Timeout
  <2>1. FedOK'
    <3>1. Idle \/ At("expired")
      BY <1>11 DEF Timeout
    <3> QED
      BY <3>1, IdleType, AtType DEF FedOK
  <2> QED
    BY <1>11, <2>1 DEF Timeout, FedOK
<1>12. CASE enableCallbacks
  <2>1. FedOK'
    BY <1>12, IdleType DEF enableCallbacks, FedOK
  <2>2. member' \in [joined : BOOLEAN, pool : Nat]
    BY <1>12 DEF enableCallbacks
  <2>3. requests' \in Seq(AllCalls)
    <3>1. "Handles" \in AllCalls
      BY DEF AllCalls
    <3> QED
      BY <1>12, <3>1, AppendProperties DEF enableCallbacks
  <2> QED
    BY <1>12, <2>1, <2>2, <2>3 DEF enableCallbacks, FedOK
<1> QED
  BY <1>1, <1>2, <1>3, <1>4, <1>5, <1>6, <1>7, <1>8, <1>9, <1>10, <1>11, <1>12 DEF CallStep

\* The type invariant of the two threads, for every set of calls and every bound
THEOREM TypeInvariant == Spec => []TypeOK
<1>1. Init => TypeOK
  <2> SUFFICES ASSUME Init PROVE TypeOK
    OBVIOUS
  <2>1. ThreadOK
    BY DEF Init, ThreadOK, PCs
  <2>2. FedOK
    BY DEF Init, FedOK, FedPCs
  <2>3. SharedOK
    <3>1. outcome \in [Callbacks -> {"none", "sent", "delivered", "dropped"}]
      BY DEF Init
    <3>2. queue \in Seq(Messages) /\ list \in Seq(Causes) /\ requests \in Seq(AllCalls)
      BY DEF Init
    <3> QED
      BY <3>1, <3>2 DEF Init, SharedOK
  <2> QED
    BY <2>1, <2>2, <2>3 DEF TypeOK, ThreadOK, FedOK, SharedOK
<1>2. TypeOK /\ [Next]_vars => TypeOK'
  <2> SUFFICES ASSUME TypeOK, [Next]_vars PROVE TypeOK'
    OBVIOUS
  <2>1. CASE UNCHANGED vars
    BY <2>1 DEF TypeOK, vars, shared, outside
  <2>2. CASE AnswerRequest
    <3>1. Head(requests) \in AllCalls /\ Tail(requests) \in Seq(AllCalls)
      BY <2>2, HeadTailProperties DEF TypeOK, AnswerRequest
    <3>2. Answer(Head(requests)) \in Messages
      BY <3>1, MessageTypes
    <3> QED
      BY <2>2, <3>1, <3>2 DEF TypeOK, AnswerRequest, append
  <2>3. ASSUME NEW n \in Callbacks, CauseCallback(n) PROVE TypeOK'
    <3>1. Cause(n) \in Messages
      BY MessageTypes
    <3> QED
      BY <2>3, <3>1 DEF TypeOK, CauseCallback, append
  <2>4. CASE ThreadStep
    BY <2>4, ThreadStepType
  <2>5. CASE CallStep
    BY <2>5, CallStepType
  <2>6. CASE Connect
    <3>1. FedOK'
      BY <2>6, AtType DEF Connect, TypeOK, FedOK, FedPCs
    <3>2. SharedOK' /\ ThreadOK'
      <4>1. used' \in [calls : Nat, connects : Nat, switches : Nat]
        <5>1. used' = [used EXCEPT !.connects = @ + 1]
          BY <2>6 DEF Connect
        <5>2. used \in [calls : Nat, connects : Nat, switches : Nat]
          BY DEF TypeOK
        <5> QED
          BY <5>1, <5>2
      <4>2. queue' \in Seq(Messages) /\ requests' \in Seq(AllCalls)
        BY <2>6 DEF Connect
      <4> QED
        BY <2>6, <4>1, <4>2 DEF Connect, TypeOK, SharedOK, ThreadOK
    <3> QED
      BY <3>1, <3>2 DEF TypeOK, ThreadOK, FedOK, SharedOK
  <2>7. CASE Disconnect
    <3>1. FedOK'
      BY <2>7, AtType DEF Disconnect, TypeOK, FedOK, FedPCs
    <3>2. SharedOK' /\ ThreadOK'
      <4>1. outcome' \in [Callbacks -> {"none", "sent", "delivered", "dropped"}]
        BY <2>7 DEF Disconnect, TypeOK
      <4>2. queue' \in Seq(Messages) /\ requests' \in Seq(AllCalls)
        BY <2>7 DEF Disconnect
      <4> QED
        BY <2>7, <4>1, <4>2 DEF Disconnect, TypeOK, SharedOK, ThreadOK
    <3> QED
      BY <3>1, <3>2 DEF TypeOK, ThreadOK, FedOK, SharedOK
  <2>8. CASE SwitchCallbacks
    BY <2>8 DEF TypeOK, SwitchCallbacks
  <2>9. ASSUME NEW k \in Calls, Call(k) PROVE TypeOK'
    <3>1. k \in AllCalls
      BY CallbackThreadAssumption
    <3>2. FedOK'
      BY <2>9, <3>1 DEF Call, TypeOK, FedOK, FedPCs
    <3>3. requests' \in Seq(AllCalls)
      BY <2>9, <3>1, AppendProperties DEF Call, TypeOK
    <3>4. SharedOK' /\ ThreadOK'
      <4>1. used' \in [calls : Nat, connects : Nat, switches : Nat]
        <5>1. used' = [used EXCEPT !.calls = @ + 1]
          BY <2>9 DEF Call
        <5>2. used \in [calls : Nat, connects : Nat, switches : Nat]
          BY DEF TypeOK
        <5> QED
          BY <5>1, <5>2
      <4>2. UNCHANGED <<conn, queue, list, enabled, signaled, done, thread, member, outcome>>
        BY <2>9 DEF Call, shared
      <4> QED
        BY <3>3, <4>1, <4>2 DEF TypeOK, SharedOK, ThreadOK
    <3> QED
      BY <3>2, <3>4 DEF TypeOK, ThreadOK, FedOK, SharedOK
  <2> QED
    BY <2>1, <2>2, <2>3, <2>4, <2>5, <2>6, <2>7, <2>8, <2>9 DEF Next
<1> QED
  BY <1>1, <1>2, PTL DEF Spec

\* A federate that has just connected has a connect, and only then a thread is started.
ConnectedHasConnect == fed.pc = "connected" => conn

\* disconnect (RTIambassadorImplementation.cpp) returns only when the callback thread has ended,
\* and no thread runs without a connect or a disconnect that waits for it.
THEOREM CallbackThreadEnds == Spec => []NoCallbackWhenDisconnected
<1> DEFINE Inv == NoCallbackWhenDisconnected /\ ConnectedHasConnect
<1>1. Init => Inv
  BY DEF Init, NoCallbackWhenDisconnected, ConnectedHasConnect
<1>2. TypeOK /\ Inv /\ [Next]_vars => Inv'
  <2> SUFFICES ASSUME TypeOK, Inv, [Next]_vars PROVE Inv'
    OBVIOUS
  <2> USE DEF NoCallbackWhenDisconnected, ConnectedHasConnect, TypeOK
  <2>1. CASE UNCHANGED vars
    BY <2>1 DEF vars, shared
  <2>2. CASE AnswerRequest
    BY <2>2 DEF AnswerRequest
  <2>3. ASSUME NEW n \in Callbacks, CauseCallback(n) PROVE Inv'
    BY <2>3 DEF CauseCallback
  <2>4. CASE ThreadStep
    <3>1. thread.pc # "ended" /\ conn' = conn
      BY <2>4 DEF ThreadStep, CheckLoop, Wait, CheckDone, CheckEnabled, CheckConnect, Receive,
         ReceiveGone, Accept, CheckFlushed, Dispatch, acceptCallbackMessage, Return, shared
    <3>2. fed' = fed \/ fed'.pc = "crashed"
      BY <2>4 DEF ThreadStep, CheckLoop, Wait, CheckDone, CheckEnabled, CheckConnect, Receive,
         ReceiveGone, Accept, CheckFlushed, Dispatch, acceptCallbackMessage, Return
    <3> QED
      BY <3>1, <3>2
  <2>5. CASE CallStep
    <3> USE DEF At, Idle
    <3>1. CASE enableImmediateProcessing
      BY <3>1 DEF enableImmediateProcessing
    <3>2. CASE Stop \/ Signal
      BY <3>2 DEF Stop, Signal
    <3>3. CASE JoinThread
      BY <3>3 DEF JoinThread, shared
    <3>4. CASE disableCallbacks \/ ReceiveInCall \/ TakeAnswer \/ Ignore \/ AcceptInCall
      <4>1. /\ fed.pc \in {"sent", "waiting", "received"} /\ conn' = conn /\ thread' = thread
            /\ fed'.pc \in {"waiting", "received", "answered", "idle", "look"}
        BY <3>4 DEF disableCallbacks, ReceiveInCall, TakeAnswer, Ignore, AcceptInCall, shared
      <4> QED
        BY <4>1
    <3>5. CASE Look \/ Timeout \/ enableCallbacks
      <4>1. /\ fed.pc \in {"look", "waiting", "answered", "expired"} /\ conn' = conn
            /\ thread' = thread /\ fed'.pc \in {"idle", "waiting", "expired"}
        BY <3>5 DEF Look, Timeout, enableCallbacks, shared
      <4> QED
        BY <4>1
    <3> QED
      BY <2>5, <3>1, <3>2, <3>3, <3>4, <3>5 DEF CallStep
  <2>6. CASE Connect
    BY <2>6 DEF Connect, At
  <2>7. CASE Disconnect
    BY <2>7 DEF Disconnect, At
  <2>8. CASE SwitchCallbacks
    BY <2>8 DEF SwitchCallbacks
  <2>9. ASSUME NEW k \in Calls, Call(k) PROVE Inv'
    BY <2>9 DEF Call, shared
  <2> QED
    BY <2>1, <2>2, <2>3, <2>4, <2>5, <2>6, <2>7, <2>8, <2>9 DEF Next
<1> QED
  BY <1>1, <1>2, TypeInvariant, PTL DEF Spec

=============================================================================
