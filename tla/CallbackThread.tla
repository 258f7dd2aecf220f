--------------------------- MODULE CallbackThread ---------------------------
(***************************************************************************)
(* An ambassador that delivers callbacks with a thread of its own, the     *)
(* HLA_IMMEDIATE model (ImmediateCallbackDispatcher.cpp), beside the       *)
(* thread of the federate, whose calls wait for their answers at the same  *)
(* message queue (InternalAmbassador.cpp, Ambassador.h, MessageQueue.h).   *)
(*                                                                         *)
(* A step ends where another thread can come in between.  The callbacks of *)
(* time management are dispatched the way the list of callbacks is and are *)
(* left out, as are the calls that a federate makes within a callback.     *)
(***************************************************************************)
EXTENDS Naturals, Sequences

CONSTANTS Calls,        \* the calls that the federate makes
          MaxCalls,     \* bound on their number
          MaxConnects,  \* bound on the connects, one after the other
          MaxCallbacks, \* bound on the callbacks that are caused
          FederateCallbacks, \* those of them that are for a federate in a federation
          MaxSwitches   \* bound on the calls of enableCallbacks and disableCallbacks

\* The calls that wait for an answer: three of the life cycle, the resign, which waits until it
\* is told that the federation is erased, and a registration that has to ask for a handle.
AllCalls == {"Create", "Join", "Destroy", "Resign", "Handles"}

ASSUME CallbackThreadAssumption ==
  /\ Calls \subseteq AllCalls
  /\ MaxCalls \in Nat /\ MaxConnects \in Nat /\ MaxCallbacks \in Nat /\ MaxSwitches \in Nat
  /\ FederateCallbacks \subseteq 1 .. MaxCallbacks

\* A message is the answer to a call, or causes a callback.
Callbacks == 1 .. MaxCallbacks
Answer(k) == [type |-> "answer", call |-> k, id |-> 0]
Cause(n)  == [type |-> "callback", call |-> "none", id |-> n]
Causes    == {Cause(n) : n \in Callbacks}
Messages  == {Answer(k) : k \in AllCalls} \cup Causes
NoMessage == [type |-> "none", call |-> "none", id |-> 0]

VARIABLES
  conn,      \* _connect is valid
  queue,     \* the messages that have come, ThreadMessageQueue
  list,      \* _callbackMessageList
  enabled,   \* _callbacksEnabled
  signaled,  \* _signaled of the dispatcher's notification handle
  done,      \* _done of the dispatcher
  thread,    \* the callback thread: where it is, whether it flushes the queue, its message
  fed,       \* the federate's thread: where it is, its call, its message
  member,    \* the federate: whether it has joined, how many free object handles it has
  requests,  \* the requests that the server has not answered
  outcome,   \* what has become of each callback
  used       \* the calls, connects and switches made so far

shared == <<conn, queue, list, enabled, signaled, done>>
outside == <<requests, outcome, used>>
vars == <<shared, thread, fed, member, outside>>

Init ==
  /\ conn = FALSE /\ queue = <<>> /\ list = <<>> /\ enabled = TRUE
  /\ signaled = FALSE /\ done = FALSE
  /\ thread = [pc |-> "ended", flush |-> FALSE, msg |-> NoMessage]
  /\ fed = [pc |-> "out", call |-> "none", msg |-> NoMessage]
  /\ member = [joined |-> FALSE, pool |-> 0]
  /\ requests = <<>>
  /\ outcome = [n \in Callbacks |-> "none"]
  /\ used = [calls |-> 0, connects |-> 0, switches |-> 0]

-----------------------------------------------------------------------------
(* The server puts messages into the queue.                                *)

\* ThreadMessageQueue::append signals the handle that setNotificationHandle gave to the queue.
append(m) ==
  /\ queue' = Append(queue, m)
  /\ signaled' = (signaled \/ fed.pc # "connected")

AnswerRequest ==
  /\ conn /\ requests # <<>>
  /\ append(Answer(Head(requests)))
  /\ requests' = Tail(requests)
  /\ UNCHANGED <<conn, list, enabled, done, thread, fed, member, outcome, used>>

CauseCallback(n) ==
  /\ conn /\ outcome[n] = "none" /\ \A l \in 1 .. (n - 1) : outcome[l] # "none"
  /\ append(Cause(n))
  /\ outcome' = [outcome EXCEPT ![n] = "sent"]
  /\ UNCHANGED <<conn, list, enabled, done, thread, fed, member, requests, used>>

-----------------------------------------------------------------------------
(* acceptInternalMessage: a message that causes a callback is put into the *)
(* list, the answer to a join makes the federate (again), handles go to    *)
(* it, nobody expects the answer to a create, and the rest is ignored.     *)

Throws(m) == m = Answer("Create")

queueCallback(m) ==
  IF m \in Causes THEN list' = Append(list, m) /\ signaled' = TRUE
  ELSE UNCHANGED <<list, signaled>>

updateFederate(m) ==
  member' = CASE m = Answer("Join")                        -> [joined |-> TRUE, pool |-> 0]
              [] m = Answer("Handles") /\ member.joined    -> [member EXCEPT !.pool = @ + 1]
              [] OTHER                                     -> member

acceptInternalMessage(m) ==
  /\ queueCallback(m)
  /\ updateFederate(m)

-----------------------------------------------------------------------------
(* The callback thread, ImmediateCallbackDispatcher::run and, from "flush" *)
(* to "callback", Ambassador::dispatchCallback.                            *)

Goto(pc) == thread' = [pc |-> pc, flush |-> FALSE, msg |-> NoMessage]

\* while (!_done)
CheckLoop ==
  /\ thread.pc = "loop"
  /\ Goto(IF done THEN "ended" ELSE "wait")
  /\ UNCHANGED <<shared, fed, member, outside>>

\* Wrong: the wait takes the signal.
Wait_Reset ==
  /\ thread.pc = "wait" /\ signaled
  /\ Goto("woken")
  /\ signaled' = FALSE
  /\ UNCHANGED <<conn, queue, list, enabled, done, fed, member, outside>>

\* InternalNotificationHandle::Wait, which leaves the signal set
Wait ==
  /\ thread.pc = "wait" /\ signaled
  /\ Goto("woken")
  /\ UNCHANGED <<shared, fed, member, outside>>

\* if (_done) return
CheckDone ==
  /\ thread.pc = "woken"
  /\ Goto(IF done THEN "ended" ELSE "check")
  /\ UNCHANGED <<shared, fed, member, outside>>

\* if (_ambassador.getCallbacksEnabled())
CheckEnabled ==
  /\ thread.pc = "check"
  /\ Goto(IF enabled THEN "flush" ELSE "loop")
  /\ UNCHANGED <<shared, fed, member, outside>>

\* A message is received if the connect is valid, ...
CheckConnect ==
  /\ thread.pc \in {"flush", "single"}
  /\ thread' = [thread EXCEPT
       !.flush = (thread.pc = "flush"),
       !.pc = IF conn THEN "receive" ELSE IF thread.pc = "flush" THEN "flushed" ELSE "loop"]
  /\ UNCHANGED <<shared, fed, member, outside>>

Receive ==
  /\ thread.pc = "receive" /\ conn
  /\ IF queue # <<>> THEN /\ thread' = [thread EXCEPT !.pc = "accept", !.msg = Head(queue)]
                           /\ queue' = Tail(queue)
     ELSE Goto(IF thread.flush THEN "flushed" ELSE "loop") /\ UNCHANGED queue
  /\ UNCHANGED <<conn, list, enabled, signaled, done, fed, member, outside>>

\* ... which it may no longer be when it is used: undefined behaviour, the process crashes.
ReceiveGone ==
  /\ thread.pc = "receive" /\ ~conn
  /\ Goto("crashed")
  /\ fed' = [fed EXCEPT !.pc = "crashed"]
  /\ UNCHANGED <<shared, member, outside>>

\* An exception ends in run, which begins again.
Accept ==
  /\ thread.pc = "accept"
  /\ acceptInternalMessage(thread.msg)
  /\ Goto(IF Throws(thread.msg) THEN "loop" ELSE IF thread.flush THEN "flush" ELSE "dispatch")
  /\ UNCHANGED <<conn, queue, enabled, done, fed, requests, outcome, used>>

\* if (!_callbacksEnabled) return false
CheckFlushed ==
  /\ thread.pc = "flushed"
  /\ Goto(IF enabled THEN "dispatch" ELSE "loop")
  /\ UNCHANGED <<shared, fed, member, outside>>

\* _dispatchCallbackMessage
Dispatch ==
  /\ thread.pc = "dispatch"
  /\ thread' = IF list # <<>> THEN [thread EXCEPT !.pc = "dispatched", !.msg = Head(list)]
               ELSE [thread EXCEPT !.pc = "single"]
  /\ list' = IF list # <<>> THEN Tail(list) ELSE list
  /\ UNCHANGED <<conn, queue, enabled, signaled, done, fed, member, outside>>

\* If more callbacks are available, dispatchCallback is called again.
Dispatched == Goto(IF list # <<>> THEN "flush" ELSE "loop")

\* if (!_federate.valid()) return
acceptCallbackMessage ==
  /\ thread.pc = "dispatched"
  /\ IF thread.msg.id \in FederateCallbacks /\ ~member.joined
     THEN Dispatched /\ outcome' = [outcome EXCEPT ![thread.msg.id] = "dropped"]
     ELSE thread' = [thread EXCEPT !.pc = "callback"] /\ UNCHANGED outcome
  /\ UNCHANGED <<shared, fed, member, requests, used>>

\* The federate's callback returns.
Return ==
  /\ thread.pc = "callback"
  /\ outcome' = [outcome EXCEPT ![thread.msg.id] = "delivered"]
  /\ Dispatched
  /\ UNCHANGED <<shared, fed, member, requests, used>>

ThreadStep ==
  \/ CheckLoop \/ Wait \/ CheckDone \/ CheckEnabled \/ CheckConnect \/ Receive \/ ReceiveGone
  \/ Accept \/ CheckFlushed \/ Dispatch \/ acceptCallbackMessage \/ Return

-----------------------------------------------------------------------------
(* The federate's thread: connect and disconnect.                          *)

At(pc) == fed' = [fed EXCEPT !.pc = pc]
Idle == fed' = [fed EXCEPT !.pc = "idle", !.call = "none", !.msg = NoMessage]

Connect ==
  /\ fed.pc = "out" /\ used.connects < MaxConnects
  /\ conn' = TRUE /\ queue' = <<>> /\ requests' = <<>>
  /\ At("connected")
  /\ used' = [used EXCEPT !.connects = @ + 1]
  /\ UNCHANGED <<list, enabled, signaled, done, thread, member, outcome>>

\* A new dispatcher, whose handle is signaled at once if there is something to do
enableImmediateProcessing ==
  /\ fed.pc = "connected"
  /\ signaled' = (queue # <<>> \/ list # <<>>)
  /\ done' = FALSE
  /\ Goto("loop")
  /\ Idle
  /\ UNCHANGED <<conn, queue, list, enabled, member, outside>>

\* The connect goes first, with the messages that have come or are still to come.
Disconnect ==
  /\ fed.pc = "idle" /\ ~member.joined
  /\ conn' = FALSE /\ queue' = <<>> /\ requests' = <<>>
  /\ outcome' = [n \in Callbacks |-> IF \E i \in DOMAIN queue : queue[i] = Cause(n)
                                     THEN "dropped" ELSE outcome[n]]
  /\ At("stop")
  /\ UNCHANGED <<list, enabled, signaled, done, thread, member, used>>

\* disableImmediateProcessing, ImmediateCallbackDispatcher::stop
Stop ==
  /\ fed.pc = "stop"
  /\ done' = TRUE
  /\ At("signal")
  /\ UNCHANGED <<conn, queue, list, enabled, signaled, thread, member, outside>>

\* Wrong: the thread is not woken.
Signal_Not ==
  /\ fed.pc = "signal"
  /\ At("join")
  /\ UNCHANGED <<shared, thread, member, outside>>

Signal ==
  /\ fed.pc = "signal"
  /\ signaled' = TRUE
  /\ At("join")
  /\ UNCHANGED <<conn, queue, list, enabled, done, thread, member, outside>>

\* Wrong: nobody waits for the thread.
JoinThread_Not ==
  /\ fed.pc = "join"
  /\ At("out")
  /\ UNCHANGED <<shared, thread, member, outside>>

JoinThread ==
  /\ fed.pc = "join" /\ thread.pc = "ended"
  /\ At("out")
  /\ UNCHANGED <<shared, thread, member, outside>>

\* The federate holds callbacks back, or lets them go.
SwitchCallbacks ==
  /\ fed.pc = "idle" /\ used.switches < MaxSwitches
  /\ enabled' = ~enabled
  /\ used' = [used EXCEPT !.switches = @ + 1]
  /\ UNCHANGED <<conn, queue, list, signaled, done, thread, fed, member, requests, outcome>>

-----------------------------------------------------------------------------
(* A call sends its request, disables callbacks, receives messages until   *)
(* it has its answer or the time is over, and enables callbacks.  The      *)
(* registration leaves callbacks alone and waits for a free handle.        *)

Permitted(k) == CASE k = "Join" -> ~member.joined
                  [] k \in {"Resign", "Handles"} -> member.joined
                  [] OTHER -> TRUE

Call(k) ==
  /\ fed.pc = "idle" /\ used.calls < MaxCalls /\ Permitted(k)
  /\ requests' = Append(requests, k)
  /\ fed' = [fed EXCEPT !.pc = IF k = "Handles" THEN "look" ELSE "sent", !.call = k]
  /\ used' = [used EXCEPT !.calls = @ + 1]
  /\ UNCHANGED <<shared, thread, member, outcome>>

disableCallbacks ==
  /\ fed.pc = "sent"
  /\ enabled' = FALSE
  /\ At("waiting")
  /\ UNCHANGED <<conn, queue, list, signaled, done, thread, member, outside>>

ReceiveInCall ==
  /\ fed.pc = "waiting" /\ queue # <<>>
  /\ fed' = [fed EXCEPT !.pc = "received", !.msg = Head(queue)]
  /\ queue' = Tail(queue)
  /\ UNCHANGED <<conn, list, enabled, signaled, done, thread, member, outside>>

\* The functors: the message is the answer, ...
TakeAnswer ==
  /\ fed.pc = "received" /\ fed.msg = Answer(fed.call) /\ fed.call # "Handles"
  /\ updateFederate(fed.msg)
  /\ At("answered")
  /\ UNCHANGED <<shared, thread, outside>>

\* ... or of no interest to a call: a resign drops everything, a join late answers to a create, ...
Ignored == /\ fed.msg # Answer(fed.call)
           /\ fed.call = "Resign" \/ (fed.call = "Join" /\ fed.msg = Answer("Create"))

Ignore ==
  /\ fed.pc = "received" /\ Ignored
  /\ outcome' = [n \in Callbacks |-> IF fed.msg = Cause(n) THEN "dropped" ELSE outcome[n]]
  /\ At("waiting")
  /\ UNCHANGED <<shared, thread, member, requests, used>>

\* ... or is processed internally.  An exception leaves the call, and callbacks as they are.
AcceptInCall ==
  /\ fed.pc = "received" /\ ~Ignored /\ (fed.msg # Answer(fed.call) \/ fed.call = "Handles")
  /\ acceptInternalMessage(fed.msg)
  /\ IF Throws(fed.msg) THEN Idle ELSE At(IF fed.call = "Handles" THEN "look" ELSE "waiting")
  /\ UNCHANGED <<conn, queue, enabled, done, thread, requests, outcome, used>>

\* haveFreeObjectInstanceHandleNamePair, takeFreeObjectInstanceHandleNamePair
Look ==
  /\ fed.pc = "look"
  /\ IF member.pool > 0 THEN Idle /\ member' = [member EXCEPT !.pool = @ - 1]
     ELSE At("waiting") /\ UNCHANGED member
  /\ UNCHANGED <<shared, thread, outside>>

\* The timeout is looked at before each receive, and ends it.
Timeout ==
  /\ fed.pc = "waiting"
  /\ IF fed.call = "Handles" THEN Idle ELSE At("expired")
  /\ UNCHANGED <<shared, thread, member, outside>>

\* The call ends.  A join that timed out and a resign reset the federate; one that has joined asks
\* for a first supply of handles.
enableCallbacks ==
  /\ fed.pc \in {"answered", "expired"}
  /\ enabled' = TRUE
  /\ member' = IF <<fed.call, fed.pc>> \in {<<"Join", "expired">>, <<"Resign", "answered">>}
               THEN [joined |-> FALSE, pool |-> 0] ELSE member
  /\ requests' = IF fed.call = "Join" /\ fed.pc = "answered" THEN Append(requests, "Handles")
                 ELSE requests
  /\ Idle
  /\ UNCHANGED <<conn, queue, list, signaled, done, thread, outcome, used>>

\* What the federate's thread does by itself
CallStep ==
  \/ enableImmediateProcessing \/ Stop \/ Signal \/ JoinThread
  \/ disableCallbacks \/ ReceiveInCall \/ TakeAnswer \/ Ignore \/ AcceptInCall \/ Look \/ Timeout
  \/ enableCallbacks

Next ==
  \/ AnswerRequest
  \/ \E n \in Callbacks : CauseCallback(n)
  \/ ThreadStep
  \/ CallStep
  \/ Connect
  \/ Disconnect
  \/ SwitchCallbacks
  \/ \E k \in Calls : Call(k)

Spec == Init /\ [][Next]_vars

\* Both threads run.  A callback of the federate returns, and a call ends by its timeout at the
\* latest; the server need not answer, nor the federate call.
Fairness == WF_vars(ThreadStep) /\ WF_vars(CallStep)

FairSpec == Spec /\ Fairness

-----------------------------------------------------------------------------
(* Properties.                                                             *)

PCs == {"loop", "wait", "woken", "check", "flush", "single", "receive", "accept", "flushed",
        "dispatch", "dispatched", "callback", "ended", "crashed"}
FedPCs == {"out", "connected", "idle", "stop", "signal", "join", "sent", "waiting", "received",
           "answered", "expired", "look", "crashed"}

\* The state of the two threads, the queue and the list of callbacks keeps its types, and each
\* thread has a message of the kind that the place where it is requires.
TypeOK ==
  /\ conn \in BOOLEAN /\ enabled \in BOOLEAN /\ signaled \in BOOLEAN /\ done \in BOOLEAN
  /\ queue \in Seq(Messages) /\ list \in Seq(Causes)
  /\ thread \in [pc : PCs, flush : BOOLEAN, msg : Messages \cup {NoMessage}]
  /\ thread.pc = "accept" => thread.msg \in Messages
  /\ thread.pc \in {"dispatched", "callback"} => thread.msg \in Causes
  /\ fed \in [pc : FedPCs, call : AllCalls \cup {"none"}, msg : Messages \cup {NoMessage}]
  /\ fed.pc = "received" => fed.msg \in Messages
  /\ member \in [joined : BOOLEAN, pool : Nat]
  /\ requests \in Seq(AllCalls)
  /\ outcome \in [Callbacks -> {"none", "sent", "delivered", "dropped"}]
  /\ used \in [calls : Nat, connects : Nat, switches : Nat]

\* RTIambassadorImplementation.cpp:1659: when disconnect has returned, the federate may destroy
\* what is called back: the callback thread has ended, and never is without a connect or a
\* disconnect that waits for it.
NoCallbackWhenDisconnected ==
  /\ fed.pc \in {"out", "connected"} => thread.pc = "ended"
  /\ thread.pc # "ended" => conn \/ fed.pc \in {"stop", "signal", "join", "crashed"}

\* The federate itself holds callbacks back.
HeldBack == fed.pc = "idle" /\ ~enabled

\* ImmediateCallbackDispatcher.cpp:60: what causes a callback and has come is delivered as long as
\* the federate stays connected and does not hold callbacks back, also what comes, or is taken
\* from the queue, while a call has callbacks disabled, although nothing signals that they are
\* enabled again.  Only a resign drops what it takes, and a callback for a federate is dropped when
\* the federate is gone.
CallbacksDelivered ==
  \A n \in Callbacks :
    outcome[n] = "sent" ~> outcome[n] \in {"delivered", "dropped"} \/ ~conn \/ HeldBack

\* ImmediateCallbackDispatcher.cpp:46: disconnect stops the callback thread wherever it is, and
\* returns, unless the thread was using the connect.
DisconnectReturns == fed.pc = "stop" ~> fed.pc \in {"out", "crashed"}

\* InternalAmbassador.cpp:181, "Unexpected message in internal message processing!": the answer to a
\* call is received by the thread that called.
NoUnexpectedMessage ==
  /\ thread.pc = "accept" => ~Throws(thread.msg)
  /\ fed.pc = "received" /\ Throws(fed.msg) => fed.call = "Create" \/ Ignored

=============================================================================
