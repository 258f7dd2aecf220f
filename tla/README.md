# A TLA+ model of OpenRTI

OpenRTI is a run time infrastructure (RTI) of the High Level Architecture:
programs, called *federates*, join a *federation*, exchange interactions and
attribute updates through their *ambassador*, and advance a common logical time.
This directory models it in TLA+: the two protocols in which federates wait for
each other (time management, its hardest part, and synchronization points), the
life of a federation in a tree of servers with connects and processes that go
away, declarations and object instances with the handles that servers count and
reuse, and the threads inside a federate's process: the server thread and the
thread that delivers callbacks.

## 1. Inventory of the system

| Part | State | Operations | Interacts with |
|---|---|---|---|
| Time management of the ambassador (`TemplateTimeManagement.h`, `InternalTimeManagement.h`) | regulation and constrained mode, advance mode, logical, pending and outbound time, lookahead, committed bounds, commit id, the sets of awaited answers, queues of receive-order and time-stamped messages | enable and disable regulation and constraint, five kinds of advance requests, modifyLookahead, nine message handlers, callback dispatch | the ambassador calls it; it sends through the connect |
| Lower bound map (`FederateHandleLowerBoundTimeStampMap.h`) | per regulating federate a time advance commit, a next message commit, the commit id, the id waited for, the locked flag | insert, erase, commit, canAdvanceTo, deadlock detection of next message mode | a member of time management |
| Ambassador (`Ambassador.h`, `InternalAmbassador.cpp`, `Federate.cpp`) | the joined federate, its object instances, classes, regions, name reservations | the HLA services; the message pump | time management, the connect |
| Federation server (`FederationServer` in `ServerNode.cpp`, `ServerModel.cpp`) | members, who regulates and who is constrained, bounds, synchronization points, object instances, publications and subscriptions | one `accept` per message class: store, relay, answer | parent and child servers and ambassadors, over connects |
| Server node (`ServerNode` in `ServerNode.cpp`) | federations, connects, pending requests | create, join, resign and destroy federations; connects that come and go | federation servers, parent node |
| MOM (`mom/`) | a federate of its own in the root server | reports | the root federation server |
| Transport (`LeafServerThread`, `MessageQueue`, `NetworkServer`, `*StreamProtocol`, `*Socket*`) | queues, buffers, handshake state | send, receive, connect, close | operating system |
| Callback dispatcher (`ImmediateCallbackDispatcher.cpp`) | a thread and its notification handle | run, stop, signal | the ambassador |
| Message classes, codecs, object model files, bindings, tools | none that outlives a call | | |

Servers form a tree. An ambassador is a child of the server it is connected to;
every connect is a FIFO queue of messages in each direction. There is no lock
across parts: a server handles one message after the other, an ambassador
handles its messages and dispatches its callbacks from the federate's calls or,
with HLA_IMMEDIATE, from a thread of its own. What is hard is therefore the crossing of messages: requests, commits, joins,
resignations and data are on their way at the same time, and each part decides
from what it was told so far. `PROJECT.json` lists these hazards with their
source lines and the properties that watch them.

What makes each part correct:

* time management: a constrained federate never gets a message in its past, gets
  messages in order, and all waiting ends (modelled, checked);
* lower bound map: what it admits is within all bounds (modelled, proved);
* federation server, time relay: every request and commit finds a state that has
  an answer to it (modelled, checked);
* synchronization points: a federation is synchronized exactly when all federates
  of the point, without the resigned ones, have achieved it (modelled, checked);
* life cycle: a federate whose connect dies leaves no trace, nobody else's
  membership is touched; a handle is not reused while somebody may name it
  (modelled, checked);
* object instances: a handle and a name have one holder, live as long as somebody
  holds them, and no longer (modelled, checked);
* declaration management: who subscribes learns of the objects, gets their updates
  and the interactions, and hears of their end (modelled, checked);
* leaf server threads: whoever has a connect is served, no wakeup is lost, threads
  end (modelled, checked);
* callback thread: every callback is delivered, and none after a disconnect
  (modelled, checked, the latter proved); it leaves the answers to calls alone (it does
  not, see section 4).

## 2. The modules

| Module | What it is |
|---|---|
| `LogicalTime` | logical times, the pairs of a time and "0 or 1" by which the code tells "up to" from "up to and including", their order, partial functions |
| `LowerBoundMap` | the lower bound map as a function from regulating federates to commits, with the tests for advancing and for the deadlock of next message mode |
| `TimeManagement` | the time management state of one ambassador as a record, and every method and message handler as a function of that record |
| `TimeFederation` | ambassadors, the root server and the connects between them as a state machine: one action per service, per message class at the server, per message received, per callback; the properties |
| `ConservativeTime` | what time management promises, without messages: promises, granted times, undelivered time stamps |
| `TimeRefinement` | the refinement mapping from `TimeFederation` to `ConservativeTime` |
| `Synchronization` | synchronization points: ambassadors, leaf servers and the root as a state machine, one action per service, per callback and per message class at either kind of server; the properties |
| `FederationLifecycle` | create, join, resign and destroy through a tree of servers; connects that close, calls that time out, processes that die; handles of federations released in two phases and given out again |
| `ObjectInstances` | publications and subscriptions in a tree of servers, object instances inserted along them, names and handles with their holders |
| `LeafServers` | the registry of server threads in a process, connect and disconnect through a server's queue, its wakeup, its end, the shutdown: the steps of threads |
| `CallbackThread` | an ambassador with HLA_IMMEDIATE: the callback thread and the federate's thread at one message queue, the steps of both |
| `MCTimeFederation`, `MCCallbackThread`, `MCSynchronization`, `MCFederationLifecycle`, `MCObjectInstances`, `MCLeafServers` | instances for TLC |
| `Queues` | facts about sequences of messages: what is somewhere, after something else, at most once in a queue, and queues as runs of an automaton; what appending, joining and taking the head do to that; the greatest and the least of a set of naturals |
| `*_proofs` | the theorems about the module of that name, their lemmas and proofs; `TimeFederation_proofs` has those about `LowerBoundMap` and `TimeManagement` too |
| `Synchronization_invariant` | the first half of the proofs about `Synchronization`: its inductive invariant, and the steps other than the count of an answer and what a leaf server is told |

`TimeManagement` keeps the names of the code. The fields of the record are the
members of the class:

| Field | Member |
|---|---|
| `reg`, `con`, `adv` | `_timeRegulationMode`, `_timeConstrainedMode`, `_timeAdvanceMode` |
| `now`, `pend`, `sched` | `_logicalTime`, `_pendingLogicalTime`, `_timeAdvanceToBeScheduled` |
| `out`, `last` | `_outboundLowerBoundTimeStamp`, `_lastOutboundLowerBoundTimeStamp` |
| `cTA`, `cNM`, `commitId` | the two committed bounds, `_commitId` |
| `curLA`, `tgtLA` | `_currentLookahead`, `_targetLookahead` |
| `bounds` | `_federateLowerBoundMap` |
| `enableSet`, `stamps` | `_timeRegulationEnableFederateHandleSet`, `_timeRegulationEnableFederateHandleTimeStampMap` |
| `ro`, `tso` | the receive-order queue, `_logicalTimeMessageListMap` |
| `async`, `allowPend` | asynchronous delivery, `_allowPendingTimeInNextMessageRequest` |
| `sent` | what was given to the connect and the server has not taken |

A call of a federate, with the exceptions that refuse it as its guard, is one
step: the whole method, the messages it sends included. The server takes a
message, stores, and sends in one step. An ambassador accepts one message, with
everything its handler does, in one step; a dispatched callback is one step.
Calls, receipts and callbacks interleave freely, which contains what
`evokeCallback` and the callback thread do to time management.

In `Synchronization`, `srv[s]` is what the federation server of `s` keeps: `known` are the
federates it reaches through its children, `leaving` those with `_resignPending`
(they have lost their connect), `points` the `_synchronizationNameSynchronizationMap`
with the `waiting` and `achieved` maps of each label and `auto` for
`_addJoiningFederates`. `amb[f]` has the state of the federate's membership and
its `announced` labels; `due`, `done` and `made` record what its program has
been asked, has answered and has registered. An action `RootServe...` and
an action `LeafServe...` are the two branches of `isRootServer()` of one `accept`.

`FederationLifecycle` and `ObjectInstances` have the same shape. A message that is handled is
one step; the handler is a function from the server's state `t` (its node `n`, the
channels to its parent and children, an error flag) to the next one, with the
names of `ServerNode.cpp`. `ServeChild(c)` takes a message from child `c`,
`ServeParent(s)` one from the parent of `s`.

| Variable | Code |
|---|---|
| `srv[s].open` | the node's child connects |
| `srv[s].reg`, `srv[s].fedn` | `_federationNameFederationMap`, `_federationHandleFederationMap` |
| `fedn[h].conn` | the federation's connects, with `_active` |
| `fedn[h].fed` | its federates, with the connect they are behind and `_resignPending` |
| `srv[s].pend` | `_pendingMessageList`, the originators of forwarded requests |
| `amb[a].wait` | the `dispatchWait...` call an ambassador is in |
| `srv[s].pub`, `srv[s].sub` | `_publishedConnects` and `_subscribedConnects` per class |
| `srv[s].obj[h]` | an `ObjectInstance`: `ref` its `_connectHandleObjectInstanceConnectMap`, `rcv` the receivers of attribute 0, `upd` those of the attribute with values, `owner` the connect of its owner |
| `amb[a].pool`, `.res`, `.obj` | the free, the reserved and the used handles of `Federate` |

In `LeafServers`, `entry` is the `_urlServerMap` for one url, `mutex` its mutex, `servers[s]` a
server thread: `queue` its `_queue`, `batch` what exec has swapped out,
`woken` and `pipe` the flag and the pipe of `wakeUp`, `lock` the mutex of the queue
while it is held across the write to the pipe. `ops` are the `_ConnectOperation`s.
A step of a thread ends where another thread can see the difference.

In `CallbackThread`, `thread` is where the callback thread is in `run` and `dispatchCallback`, whether it
flushes the queue and which message it has; `fed` is the same for the federate's thread with
its call. `conn` is whether `_connect` is valid, `queue` the `ThreadMessageQueue`, `list` the
`_callbackMessageList`, `enabled` the `_callbacksEnabled`, `signaled` and `done` the flags of the
dispatcher; `member` has what the ambassador's `_federate` is asked for. `outcome` records what has
become of each callback. `FederateCallbacks` are those that `acceptCallbackMessage` drops when there is no
federate (most messages); the others, such as the response to a registration of a synchronization
point, call back in any case.

### Assumptions and abstractions

* Logical times are naturals. `nextAfter` adds one, as for the 64 bit integer
  time; the largest time is not reached.
* Every federate is a direct child of the root server, and every federate but the
  sender gets each interaction (all are subscribed; the class has time stamp
  order). Attribute updates take the same way.
* A payload is its time stamp and its order. What a callback does in the
  federate is not modelled: a federate may call at any time.
* The connects lose and reorder nothing (TCP or memory).
* `TimeManagement` asserts, and `Ambassador` does not check, that modes are not
  switched while another request is pending. The programs of the runs keep to
  that (`KeepsOrder`); the theorems of section 5 also cover programs that do not.
* The commit id is taken modulo `CommitIdModulus`, and starts 17 before its wrap
  as in the code. The runs are too short to reach the wrap.
* `Synchronization` has two levels: the root (`rtinode`), and the leaf servers that every
  process with ambassadors runs; an ambassador in the root's own process
  (`thread://`) is a child of the root. Servers in between are left out.
* What a leaf server is told of federates of other servers is left out: it has no
  points of theirs. The internal federate of the MOM is not inserted into points by
  the code and is left out.
* The callback queue of an ambassador and the connect before it are one queue:
  the messages of synchronization points go from one into the other unchanged.
* A federate joins once and its handle is not given to another one. Each leaf
  server has a federate that stays, so that it does not leave the federation.
* A program achieves a label once after it was announced.
* `FederationLifecycle` has one federation name and two levels of servers. The number `gen` of a
  creation goes with each handle so that `NoCrossTalk` can tell two federations with
  one handle apart; no step reads it. A leaf server that has lost its last child ends, as
  its thread does, and its channel is cut at any point. Modules are a verdict, consistent
  or not. The loss of the parent connect is not modelled.
* In `ObjectInstances` all federates have joined, and one stays at each leaf server
  (`StaysAssumption`). A class has attribute 0 and one with values, published and
  subscribed together. A federate that leaves does so by the loss of its connect;
  a resign does the same at the servers. `gen` numbers what a handle is given out for,
  `gone` and `late` mark an object that had been deleted when it was inserted,
  `dropped`, `lost` and `ignored` the cases that the properties name as exceptions; no
  step reads them.
* In `LeafServers` there is one url. Threads may be scheduled in any way; a timeout may
  expire at any time, `MaxExpired` times. Nobody connects while the shutdown
  goes on: the code would dereference the entry that the shutdown has emptied
  (`LeafServerThread.cpp:70`, `89`).
* In `CallbackThread` the federate has one thread of its own and a callback returns. What a join
  is answered with, the federation and the answer proper, is one message; the server answers in
  the order of the requests. The check for a valid connect and its use are two steps; a connect
  reset in between is a crash. A callback may be caused at any time while there is a connect, one for a
  federate also when none has joined. The callbacks of time management are dispatched as the
  others are, under a mutex of their own, and are left out.
* Not modelled: retraction of messages, erasing queued messages of an object
  instance, the queries (they change nothing), switching order types, float time.

## 3. What is checked

| Run | Instance | Properties |
|---|---|---|
| `advance` | two federates, regulating and constrained, without initial lookahead; time advance, next message and flush queue requests, changing lookahead, sends, to self too and while a request is pending; two calls each, times 1 and 2 | `NoLateMessage`, `NoDeadlock`, `PromiseKept`, `InOrderDelivery`, `TimeMonotone` |
| `modes` | regulation switched by one federate, constraint and asynchronous delivery by the other; three calls each | `BoundsSound`, `NoProtocolError` |
| `joining` | a federate joins a running federation, enables both modes and makes next message requests, the other one enables regulation, advances, sends and may resign; four and two calls | `TypeOK`, `NoProtocolError`, `Safe`, `ImplementsConservativeTime`, `EnablingCompletes`, `AdvanceCompletes` |
| `synchronization` | a federate at the root and two at a leaf server; two register the same label, for all and for a set; the third one joins and may resign at any time | `SuccessIsReal`, `AllAnnounced`, `NoMessageError`, `NotBeforeAll`, `SynchronizationCompletes` |
| `lifecycle` | two ambassadors at a leaf server, one at the root: the first creates, joins, resigns and closes, the second joins and may give up, the third destroys and creates; the leaf server's process may die | `TypeOK`, `NoMessageError`, `NoCrossTalk`, `MembersKnown`, `ViewsAgree`, `CallsReturn`, `HandleReleased` |
| `leaf_servers` | two clients, one of which connects twice, two server threads, of either kind, one expired timeout, a shutdown | `ConnectIsServed`, `Registered`, `ConnectAnswered`, `ThreadEnds`, `ShutdownReturns` |
| `objects` | two federates at a leaf server, one at the root; two object classes, one derived from the other, an interaction class, a name; six plans of calls: objects that come and go, an object of the root, reserved names, interactions, a registration that waits, both classes of the hierarchy | `NoMessageError`, `HandlesHeld`, `Discovered`, `Removed`, `Routed`, `NoLeak`, `NoStuckCall` |
| `callback_thread` | two connects, two calls out of create, join, resign and registration, each of which may time out, two callbacks, one of them for a federate, callbacks switched off or on once | `NoCallbackWhenDisconnected`, `CallbacksDelivered`, `DisconnectReturns` |

The properties in a sentence each:

* `NoLateMessage`: no time-stamped message is on its way to a constrained federate
  that was granted its time or a later one.
* `InOrderDelivery`: what a constrained federate gets next is not after anything
  that was sent and has not arrived (unless it flushes its queue).
* `PromiseKept`: what is committed is not beyond what may still be sent.
* `BoundsSound`: what others know of a bound is what was promised, or less.
* `TimeMonotone`: logical time does not go back.
* `NoProtocolError`: no message meets a state in which the server throws
  `MessageError`, or an ambassador has no entry for it.
* `NoDeadlock`: when nothing is on its way, not all federates wait. This is what the
  locked-by-next-message exchange is for: two federates without lookahead
  in next message requests hold each other back until both see it.
* `EnablingCompletes`, `AdvanceCompletes`: what is requested is granted; an advance may
  be held back only by a federate that is free to go on and does not.
* `ImplementsConservativeTime`: every step is a step of `ConservativeTime` or changes
  nothing there. `Safe` is what that specification guarantees (proved for all its
  instances), read on the federation: nothing in a queue or on its way, and nothing that
  may still be sent, is in the past of a constrained federate.
* `NotBeforeAll`: when the root drops a point, every joined federate to which the label
  was announced has achieved it.
* `SuccessIsReal`: a server counts a federate as successful only if it said so.
* `AllAnnounced`: when nothing is on its way, a joined federate has been told exactly the
  labels of the points it is in, also when it joined while they were registered.
* `NoMessageError`: no message of synchronization points reaches a server that throws
  `MessageError` for it.
* `SynchronizationCompletes`: a point that all its federates have achieved or left is
  synchronized.
* `NoCrossTalk`: a message about a federation is never taken for one about another
  that has got the same handle.
* `MembersKnown`: a federate whose join has returned is known, under its handle and through
  its connect, to its server and to the root until it resigns.
* `ViewsAgree`: when nothing is on its way, all servers and all ambassadors agree on the
  members, whoever resigned, closed or died.
* `CallsReturn`, `HandleReleased`: create, join, resign and destroy return without the
  help of a timeout; the handle of a destroyed federation becomes free, unless a new
  federation took the name first or a connect was lost (see below).
* `ConnectIsServed`, `Registered`: a client's connect is known to a server that goes on
  working; that server is the one the next client gets.
* `ConnectAnswered`, `ThreadEnds`, `ShutdownReturns`: a connect is answered without the help of
  its timeout, a leaf server that everyone has left ends, a shutdown returns.
* `HandlesHeld`: who has a handle holds it at its server and at the root, with the same
  meaning and name. So none is given out twice.
* `Discovered`, `Removed`: when nothing is on its way, a federate knows the objects it
  subscribes to, and of no object that is gone.
* `Routed`: when nothing is on its way, updates and interactions would come to those who
  subscribe, and updates to no one else.
* `NoLeak`, `NoStuckCall`: the root has given out no handle that nobody has; no
  registration waits when nothing is on its way.
* `NoCallbackWhenDisconnected`: after a disconnect has returned there is no callback thread,
  and there is none without a connect or a disconnect that waits for it.
* `CallbacksDelivered`: a callback whose message has come is delivered, unless the federate
  disconnects, holds callbacks back or resigns, or the callback is for a federate that is gone, also
  when a call took the message from the queue with callbacks disabled.
* `DisconnectReturns`: the thread ends wherever it is when it is stopped (or has crashed).
* `NoMessageError` in the three modules with a tree of servers: no handler throws
  `MessageError`, no `OpenRTIAssert` of the modelled code fails.

Bounds. The interesting cases need two federates that are in each other's way
for the deadlock detection too, two requests of
each, and two or three times: a message before, at and after a requested time.
`Program` limits which calls a run explores, `MaxCalls` how many, `Times`
and `Lookaheads` their arguments, `MaxTime` the times an abstract step is
looked for. For synchronization points the interesting cases need a leaf server
with two federates (its own decision that all have answered), a federate elsewhere,
and a join and a resignation in any order with them; a second label would only
run beside the first, since points do not touch each other. `Requests` limits what is
registered, `MayResign` who resigns. For the life cycle and for objects they are a
leaf server with two children, so that it goes on when one leaves, and a federate
elsewhere that destroys, or publishes, or subscribes; a handle that is given out a second
time (two creations; objects deleted and registered); and the crossing of one call of
each. A plan of `objects` has up to seven calls in all. For the threads they are
a server that ends while the next client connects, so two servers, and a
timeout that strikes a working server; for the callback thread, two callbacks of which one is
in the list while the other is in the queue, a call that disables callbacks meanwhile, and a
second connect that finds callbacks left from the first.

The type invariants of `Synchronization` and `ObjectInstances` describe their variables and are not among
the properties of a run.

With each property goes a mutant (a definition marked "Wrong" beside the right one,
listed in `PROJECT.json`) with which the same run fails, so the bounds are large
enough for the case the property is about. Federations come to rest when all
calls are made, so the runs do not ask for the absence of deadlock in TLC's
sense; `NoDeadlock` says what matters.

Fairness (`FairSpec`). Weak fairness of: the server taking a message from each
connect (its loop takes whatever arrives), each ambassador receiving, and each
ambassador dispatching callbacks (a federate must evoke callbacks, or have the
callback thread do so). No call is assumed to be made. `Synchronization` assumes
the same of its servers, of each connect in either direction, and of the callbacks.
`FederationLifecycle` assumes it of the servers and of an ambassador that waits in a call,
which receives messages itself; it is written out with the conditions that enable the
steps, which spares TLC the evaluation of `ENABLED`. `LeafServers` assumes that a thread that
can run does, the server threads, the clients inside `connect` and the one that shuts
down; neither that a client connects or closes nor that a timeout expires. `CallbackThread`
assumes that both threads run, a callback returns and a call ends by its timeout at the latest;
not that the server answers.

## 4. Where the code disagrees with its own statements

Four runs expect a violation; each states what the code says of itself.

* `close_while_joining` / `NoMessageError`: an ambassador's join times out and it
  disconnects; then the answer comes. The comment at `ServerNode.cpp:2714` says "if the connect
  has died in between, resign now again". The resign is handled with the handle of the
  parent connect, and `acceptUpstreamFederationMessage` refuses it with a `MessageError`. The
  federate stays in the federation, and the error closes the connection of the
  whole leaf server to its parent. (In `lifecycle` the one who gives up a join does not close.)
* `lost_discovery` / `AllDiscovered`: `Discovered` without its exceptions. An object
  inserted while its receiver unsubscribes is dropped without being
  released; the server takes it for known and does not insert it again with the next
  subscription, against the comment at `ServerNode.cpp:1191` "Insert all object instances that
  are now new to this connect". The handle is never released.
* `stolen_answer` / `NoUnexpectedMessage`: what the code itself calls "Unexpected message in internal
  message processing!" (`InternalAmbassador.cpp:181`). A call with HLA_IMMEDIATE sends its request,
  then disables callbacks to keep the callback thread away from the queue. The thread reads the flag
  and then empties the queue, so it may take the answer. The answer to a create makes it
  throw an exception that `run` ignores; that to a destroy it drops as "spurious, after
  disconnect?"; handles it stores, while the registration goes on waiting. The call
  waits for its timeout, or for ever if that is infinite.
* `missed_commit` / `TimeAdvancesKnown`: the comment at `ServerNode.cpp:758` wants commits at all
  federates, "thus just broadcast"; as soon as one is constrained only constrained ones get
  them. A federate that is not keeps an old bound, and still has it when it enables
  constraint: the server does not tell it the bounds then. Its next request waits for a
  commit that was sent before, so that `AdvanceCompletes` and `EnablingCompletes` do not
  hold when somebody was constrained before it; in `joining` nobody is. The whole federation may
  stop: two federates regulate without lookahead and f1 is constrained; f1 requests an advance to 2;
  then f2 enables constraint and requests 1. f1 waits for a later commit of f2, and f2 for the one
  of f1 that it has missed. `NoDeadlock` fails for these programs (f1 `TAR`, f2 `EnableCon` and `TAR`,
  initially both regulating and f1 constrained); in `advance` both are constrained from the start.

Further disagreements met while modelling, which no run is about:

* `allowPendingTimeInNextMessageRequest` with a lookahead lets a federate send below what it
  has committed (`TemplateTimeManagement.h:117`). With an initial lookahead of 2 (f1
  making next message requests and sending, f2 TARA, times 1..3) `NoLateMessage` fails, and
  the receiver drops the message. `advance` starts without lookahead, where it holds.
* With `setInteractionClassDeliverToSelf` or its equivalent for attributes a federate can get a message
  in its past. Constrained and granted a time advance request to t, it enables regulation without
  lookahead. The other constrained federates correct the time from which it may send (they
  answer with what they have been granted), it does not do so itself: its output time is t and
  not "after t", and its own message at t passes the test at `TemplateTimeManagement.h:693`, which
  drops only earlier ones. `Safe` fails then, with one federate that makes four calls (enable
  constraint, advance, enable regulation, send); the theorems of section 5 about `Ordinary` programs
  leave delivery to self out. In `advance` both federates regulate from the start.
* An assertion of `modifyLookahead` (`TemplateTimeManagement.h:433`) fails after any granted
  advance of a regulating federate. The model goes on as a build without assertions does.
* The root announces the synchronization points of all federates again whenever a federate
  joins (`ServerNode.cpp:159`). An ambassador at the root does not filter this; if its
  federate answers each time, the second answer may be refused.
* `unsubscribe` of a class releases the objects known by it even if a base class or a
  derived one is still subscribed (`Ambassador.h:866`). The server sees no change and does
  not insert them again; `Discovered` and `Routed` leave them out (`lost`).
* A handle of a federation is released upwards only when no federation has the name
  (`ServerNode.cpp:2622`, "FIXME better test for that"); one created meanwhile prevents it,
  and nobody asks again. Likewise a connect that is lost takes its release with
  it. `HandleReleased` excludes both.
* Handles on their way to a federate that has left are ignored by its server
  (`ServerNode.cpp:1341`), which counts on the root to release them; the root does not know.
  `NoLeak` leaves them out (`ignored`).
* Objects are pushed to new subscribers as long as somebody holds the handle, deleted or
  not. Who subscribes after the delete was handled and before the last release discovers an
  object that is gone and is not told. `Removed` leaves them out (`late`).
* A connect that times out makes the registry replace a server that may be only slow
  (`LeafServerThread.cpp:98`, "the server must be already stopped"); both then work
  side by side. `Registered` and `ThreadEnds` leave this out (`late`).
* The answer to a join of a federation that does not exist carries no federate name
  (`ServerNode.cpp:2660`), so a join with a name does not recognise it
  (`InternalAmbassador.cpp:671`) and waits for its timeout; the federates of
  `lifecycle` have no names, and for the same reason their join of a missing federation is
  recognised only by the empty name.
* `disconnect` resets `_connect` before it stops the callback thread
  (`RTIambassadorImplementation.cpp:1659`), which checks that it is valid and then uses it: a crash in
  `CallbackThread` (`ReceiveGone`). `_callbackMessageList.empty()`, `_callbacksEnabled` and
  `_done` are read without a lock as well; the model takes such a read for atomic.
* The calls that wait enable callbacks when they return, also if the federate had disabled them;
  one that is left by an exception (a late answer to a create while a destroy waits) leaves
  them disabled. `callback_thread` makes no destroy.
* A late answer to a join that was given up makes the ambassador a member
  (`Ambassador.h:4338`), so that it can no longer disconnect without a resign.
* Callbacks that are in the list at a disconnect are delivered after the next connect, those for a
  federate if one has joined by then.
* `acceptCallbackMessage` of `FederationSynchronizedMessage` checks `_federate`, calls the federate back and
  then uses `_federate` (`Ambassador.h:3997`-`4000`), which a resign of the federate's own thread may have
  reset meanwhile: undefined behaviour that `CallbackThread` does not have.

## 5. What is proved

TLAPS checks these for every value of the constants that satisfies the named
assumptions.

### Time management

`FederationAssumption`, `FederatesAssumption` (finitely many federates) and `ModulusAssumption`
are all that is assumed; programs, the number of calls, lookaheads and times are
arbitrary, and the programs need not keep to `KeepsOrder`. Only the four theorems about `Ordinary`
programs, below, assume more.

* `TimeFederation_proofs!TypeCorrect`: `Spec => []TypeOK`.
  `TypeOK` is inductive as it stands: one lemma per method or handler of
  `TimeManagement` says that it maps well-formed
  states to well-formed states and sends well-formed messages; the proof has one
  step per action. That the server has bounds for exactly the regulating
  federates is part of it.
* `TimeFederation_proofs!ProtocolErrorFree`: `Spec => []NoProtocolError`. The server throws no
  `MessageError`, and no ambassador is told of a bound of a federate that it does
  not have in its map, or to insert one that it has. The inductive invariant `Consistent`
  says, for every federate `g` and every pair `f`, `g`:
    - what `g` has on the way to the server is a run of a two-state automaton from
      what the server knows of `g` to the modes `g` is in (`SenderOK`, once for
      regulating, once for constrained, once for membership). An enable that the server has not
      got is thus always followed by the disable and never doubled;
    - what the server has on the way to `f` is a run from "`g` is in the map of `f`" to "the server
      has `g` regulating" (`ReceiverOK`). The requests, commits and disables of `g` are applied
      by `f` in the order in which the server relayed them, so each finds
      the map as it has to be;
    - of the request of `g` to `h` and the answer of `h` to `g` at most one is on its way, and
      only while `g` waits for `h` (`TokenOK`, `OwnOK`). Without this, a late answer to an earlier
      request could be taken for the answer to a later one. It needs that `g` knows of every
      member or will be told, and is told of a resignation after the last answer
      (`KnownOK`, `MemberOK`);
    - what one ambassador guarantees by itself (`LocalOK`): its queue of callbacks is in order and
      has a confirmation at most once, and only while the request is pending.
* `TimeRefinement_proofs!BoundsAreSound`: `Spec => []BoundsSound`: no federate advances by a bound that its
  owner has not promised. On top of `Consistent` the invariant `Guaranteed` has:
    - what is on its way from `g`, to the server or to `f`, and is not followed by
      a message that ends the regulation of `g`, is at most the promise of `g` (`Settled`, in
      `SentOK` and `ValueOK`). What is followed by one may be more: a federate that disables regulation
      and enables it again starts with a lower promise, while its old commits are still on the way;
    - what `f` knows of `g` is promised, or else `g` waits for regulation and `f` has told it the
      time it relies on: this correction is on its way, or is in the corrected times of `g`
      (`Covered`). `g` commits to the corrected times no later than when the last answer
      is in (`StampsOK`), hence before it can regulate.
* What time management is for, in `TimeRefinement_proofs`, for `Ordinary` programs:
    - `TimeManagementSafety`: `Ordinary` implies `Spec => []NoLateMessage`;
    - `DeliveryInOrder`: `Ordinary` implies `Spec => InOrderDelivery`;
    - `SynchronizationIsSafe`: `Ordinary` implies `Spec => []Safe`;
    - `PromisesAreKept`: `Ordinary` implies `Spec => []PromiseKept`.

  A program is `Ordinary` if it makes no next message requests, does not switch a mode while
  another request is pending (`KeepsOrder`, what the code asserts) and gets no messages of
  its own. It may do all the rest: time advance requests of both kinds, flush queue requests,
  switching regulation and constraint on and off, with a time or without, changing the lookahead,
  sending at any moment, joining, resigning. The program of `modes` is one. The inductive invariant
  `OnTime` adds to `Guaranteed`:
    - `Timely`, of each federate by itself. A constrained federate has been granted no more than its
      bounds, and its queue holds no message before its time (`FloorOK`); a grant is in the queue at
      most once, only while an advance is pending, for a flush only when the queue is empty, and
      is due at the pending time (`QueueOK`); what is committed is not beyond what may still be sent,
      in a flush not beyond what may be sent once it is granted either (`CommitOK`), as a flush
      may end before the time that was asked for;
    - `Punctual`, of the time stamps on their way. A federate sends none below what it has
      committed (`Sends`). When the receiver has accepted all that is ahead of a time stamp, at the
      server and in its own connect, it knows the sender, with a bound of at most that
      time stamp, and it knew it all the while (`Clean`). So a receiver that is in the
      middle of enabling, or has just joined and does not know the sender yet, is covered too.

  `NoLateMessage` by itself is not inductive: that a grant is not beyond a message on its way follows
  only from what will be known when the message arrives. One lemma per operation shows that it keeps a
  federate `Timely` and sends nothing below its commit (`Goes`, the operations in
  `TimeFederation_proofs`, the calls and callbacks in `TimeRefinement_proofs`); then each step of
  calls, server and connects keeps `Punctual`.
* `ConservativeTime_proofs!Safety`: `Spec => []Safe` if times are naturals with 0 among them
  (`TimeAssumption`). `TypeOK`, `NothingInThePast` and
  `WithinPromises` are inductive together and not one by one: a message that is sent
  is not in a granted past because the grant was within the sender's promise, and a
  grant is within the promises and before all that is undelivered.
* `TimeRefinement_proofs!RefinementIsSafe`: `ImplementsConservativeTime => []Safe`. The theorem above, under the
  refinement mapping: for the programs that are not `Ordinary`, what remains of a proof that the
  federation is safe is the refinement, which is model-checked.
* Of the lower bound map, in `TimeFederation_proofs`: `canAdvanceToSafe` (what the map admits is within every bound),
  `commitKeepsAdvance` and `eraseKeepsAdvance` (neither a commit that raises
  a bound nor a federate that goes withdraws an admission, so a grant may be
  delayed but does not become wrong).

### Synchronization points

`TreeAssumption` is all that is assumed: a tree of two levels with any number of leaf
servers, federates, labels and registrations. Federates join, register, answer and resign
at any time, and a label may be registered again once its point has ended.

* `Synchronization_proofs!SynchronizedAfterAll`: `Spec => NotBeforeAll`, the barrier itself. When the
  root ends a point, every joined federate to which the label was announced has achieved it.
* `SuccessIsOwn`: `Spec => []SuccessIsReal`. No server takes a federate for successful that did
  not say so.
* `EverybodyTold`: `Spec => []AllAnnounced`. When nothing is on its way, each joined federate
  knows exactly the labels of the points it is in.
* `TypesCorrect`: `Spec => []TypeOK`.

None of them is inductive. The invariant `IInv` of `Synchronization_invariant` has twelve parts:

* `Types`, and `Routed`: what is in a queue is about a federate that is behind it;
* `Membership`: where a federate is known as a function of its state and of the join,
  resignation and their answers on their way. It says when a level may know a federate that the
  one above does not;
* `Edges` and `Links`: the heart. A federate of a point is waited for, or has achieved it, at
  three levels: its ambassador, its server and the root. `LinkOK` relates two neighbouring
  levels and the queues between them, and is the same for an ambassador and its server and for a
  leaf server and the root. What is on its way down, announcements and ends of points
  with one label, is a run of an automaton (off, on) from what the lower level has to what the upper
  one has, so announcements and ends alternate and are never lost; an answer is on
  its way up only while the lower level has it and nothing on the way down concerns it;
* `Labelled`, `Pending`: a label an ambassador knows is due or done; an answer of a federate
  is one that its server waits for, there is one of them, and none after the resignation;
* `Fresh`: each answer of a leaf server has news for the root, i.e. a federate the root still waits
  for and no earlier message answers for. Without it an answer could count for
  a later point with the same label, and end it too early;
* `NotLeaving`, `ForAll`: nobody waits for a federate that has resigned; a point of all
  federates has all that are known;
* `Claims`, `SuccessIsReal`: an answer on its way that tells of success is the federate's own.

The lemmas about queues (`Queues`) tell how the truth of these parts changes when a queue
loses its head and gets messages at its end; each action is shown to be such a shift of the queues
(`Shift`), with one step per part.

### Threads

* `LeafServers_proofs`: `ConnectServed`, `Spec => []ConnectIsServed`, and `ServerRegistered`,
  `Spec => []Registered`, for any clients, servers, connects and timeouts
  (`LeafServersAssumption`). The argument is one of ownership: a connect that a server has given out is held
  by the client that got it, then by the operation that closes it, and by nobody else
  (`Holders`, `Closing`); a server that is done and was not shut down has no connects left
  (`ServersEnd`). So while a client holds a connect its handle is not given out again,
  and its server does not end. That a client is only refused by a server that is done, or after a
  timeout (`Refused`, `Answered`), is why the registry may then replace it.
* `CallbackThread_proofs`: `TypeInvariant` and `CallbackThreadEnds`, `Spec => []NoCallbackWhenDisconnected`, for
  any calls and bounds. The invariant needs in addition that a federate which has
  just connected has a connect (`ConnectedHasConnect`): that is where a thread is started, and
  the thread may outlive the connect only while a disconnect waits for it.

### Only model-checked

* Liveness, and what needs `ENABLED`: out of the prover's reach.
* `NoDeadlock`. It is not an invariant of every program, not even of every `Ordinary` one: a
  federate that enables constraint later may have missed a commit (`missed_commit`, section 4).
* `PromiseKept`, `NoLateMessage`, `InOrderDelivery` and `Safe` for programs that are not
  `Ordinary`. With next message requests an ambassador may, after it has raised its commit, lower the
  time it waits for because a message arrives. That this does not fall below the commit follows
  from the exchange of commit ids and locks by which such federates find out that they hold each other
  back, which `OnTime` does not describe. With `AllowPending` and a lookahead it is not true,
  and with delivery to self `Safe` is not (section 4).
  `advance` and `joining` check them with such programs.
* `TimeMonotone`. As an order of pairs it is not an invariant of every program: who switches
  constraint off and on after a time advance request to t is at "t, inclusive" before
  and at "t" afterwards. The logical time that the federate sees is the same.
* The refinement `ImplementsConservativeTime`. The abstract times end at `MaxTime`, which the
  programs of a theorem need not respect. What it is there for, `Safe`, is proved directly.
* `NoMessageError` of `Synchronization`. It does not hold for every set of
  registrations: a leaf server keeps a point with a fixed set whose federates at it have all
  resigned (`ServerNode.cpp:518`), and a second registration of the label, again with a fixed set,
  finds it there. The run has one registration with a fixed set. `LeafServeAnnounce` and the other
  actions have what the code demands as a guard, so the theorems are about what happens up to such
  an error.
* The properties of `FederationLifecycle` and `ObjectInstances`. Their handlers are folds over sets and
  sequences of federates and connects; what a fold yields is an induction over data.

## 6. What is not modelled, and the plan

`PROJECT.json` gives the reason per component. Most of the repository's lines have no
control of their own to model: the generated message classes and their codec
(`Message.*`, `TightBE1MessageEncoding.cpp`), the vendored xml parser, the C++ and Python
bindings that translate types and exceptions, the readers of object model files, data
encoding, and the tests. The state of the system is in the ambassador, the
time management, the server and the threads, which the modules above cover. Of
these, left out:

* time management: retraction, messages of deleted objects in the queues, the queries,
  order switches, the relay over leaf servers;
* life cycle: the loss of the parent connect (`ConnectionLost`), several federation names, merging
  of modules, the internal federate of the MOM;
* declarations and objects: single attributes, active and passive subscription, parameter and
  attribute filters, instance subscriptions, update requests, the late push of
  declarations to a server that joins, ownership queries, regions;
* transport: the handshake, stream buffers, compression;
* callback thread: calls from within a callback, the loss of the connection, the wait for a
  reserved name.

To follow, in order:

1. Proofs: the theorems about `Ordinary` programs with next message requests too, which takes an
   invariant of the commit ids; the invariants of `FederationLifecycle`.
2. An abstract specification of one barrier that `Synchronization` implements.
3. A federate that joins later in `ObjectInstances`, with what `pushFederation` tells it of
   declarations.
4. Parameter filters and instance subscriptions.
5. Time management over leaf servers, and the loss of the connection.
