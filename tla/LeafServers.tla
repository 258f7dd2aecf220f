----------------------------- MODULE LeafServers -----------------------------
(***************************************************************************)
(* The server threads inside a federate's process (LeafServerThread.cpp,   *)
(* AbstractServer.cpp, ThreadServer.cpp, NetworkServer.cpp): ambassadors   *)
(* that connect to the same url share a server thread, which ends with its *)
(* last connect.  There is one url; its servers are numbered as they are   *)
(* started.                                                                *)
(*                                                                         *)
(* A step is what a thread does between two points at which another one    *)
(* can observe it: taking a mutex, posting, writing to the wakeup pipe,    *)
(* waiting.  Messages of federations are left out; they are posted the way *)
(* operations are.                                                         *)
(***************************************************************************)
EXTENDS Naturals, Sequences, FiniteSets, FiniteSetsExt

CONSTANTS Clients,       \* the threads that connect and close, each on its own
          MaxConnects,   \* bound on the calls of connect by each client
          MaxServers,    \* bound on the server threads; a later one cannot be created
          Kinds,         \* subset of {"thread", "network"}, by the protocol of the url
          MaxExpired,    \* bound on the connects that time out
          ShutdownAllowed

Finalizer == "finalizer"   \* the thread that calls shutdown
Nobody    == "nobody"

ASSUME LeafServersAssumption ==
  /\ Clients \cap {Finalizer, Nobody} = {}
  /\ MaxConnects \in [Clients -> Nat] /\ MaxServers \in Nat /\ MaxExpired \in Nat
  /\ Kinds \subseteq {"thread", "network"} /\ ShutdownAllowed \in BOOLEAN

VARIABLES
  kind,    \* ThreadServer or NetworkServer
  mutex,   \* the thread that holds the mutex of the registry
  entry,   \* the server that the registry has for the url, 0 for none
  servers, \* the server threads started so far
  thread,  \* per client, and for the thread that shuts down: where it is, with which server
  ops,     \* the connect operations made so far: the result, and whether it is there; an
           \* operation that nobody looks at any more is Forgotten
  expired, \* the number of connects that have timed out
  late     \* a connect has timed out at a server that still worked

vars == <<kind, mutex, entry, servers, thread, ops, late, expired>>

Threads == Clients \cup {Finalizer}

\* The thread of a server runs the loop of exec, sleeps on its condition or polls.
NewServer == [pc |-> "run", done |-> FALSE, queue |-> <<>>, batch |-> <<>>, connects |-> {},
              lock |-> Nobody, woken |-> FALSE, pipe |-> FALSE]
Forgotten == [handle |-> 0, done |-> TRUE]
Outside == [pc |-> "out", at |-> 0, op |-> 0, handle |-> 0, fresh |-> FALSE, calls |-> 0]

Init ==
  /\ kind \in Kinds
  /\ mutex = Nobody
  /\ entry = 0
  /\ servers = <<>>
  /\ thread = [t \in Threads |-> Outside]
  /\ ops = <<>>
  /\ late = FALSE /\ expired = 0

-----------------------------------------------------------------------------
(* Posting to a server.                                                    *)

\* Condition::notify_one, and SocketEventDispatcher::wakeUp up to the write to the pipe
notify(g, t) ==
  IF kind = "thread" THEN [g EXCEPT !.pc = IF @ = "sleep" THEN "run" ELSE @]
  ELSE IF g.woken THEN g
  ELSE [g EXCEPT !.woken = TRUE, !.lock = t]

\* _postOperation and _postMessage: only a queue that was empty is announced.
post(s, t, op) ==
  LET g == servers[s]
      put == [g EXCEPT !.queue = Append(@, op)]
  IN  IF g.queue = <<>> THEN notify(put, t) ELSE put

\* The rest of wakeUp, and the release of the mutex of the queue.
WriteWakeup(t) == \E s \in DOMAIN servers :
  /\ servers[s].lock = t
  /\ servers' = [servers EXCEPT ![s].pipe = TRUE, ![s].lock = Nobody]
  /\ UNCHANGED <<kind, mutex, entry, thread, ops, late, expired>>

\* A thread in the middle of a wakeUp does nothing else.
Ready(t) == \A s \in DOMAIN servers : servers[s].lock # t

-----------------------------------------------------------------------------
(* Registry::connect.  The mutex of the registry is held to its end.       *)

Lock(c) ==
  /\ thread[c].pc = "out" /\ Ready(c) /\ thread[c].calls < MaxConnects[c]
  /\ thread[Finalizer].pc = "out"
  /\ mutex = Nobody
  /\ mutex' = c
  /\ thread' = [thread EXCEPT ![c] = [Outside EXCEPT
                  !.pc = IF entry = 0 THEN "create" ELSE "post", !.at = entry,
                  !.calls = thread[c].calls + 1]]
  /\ UNCHANGED <<kind, entry, servers, ops, late, expired>>

\* createServerNode and createServer, which may find no parent server
CreateServer(c) ==
  /\ thread[c].pc = "create" /\ Len(servers) < MaxServers
  /\ servers' = Append(servers, NewServer)
  /\ entry' = Len(servers) + 1
  /\ thread' = [thread EXCEPT ![c].pc = "post", ![c].at = Len(servers) + 1, ![c].fresh = TRUE]
  /\ UNCHANGED <<kind, mutex, ops, late, expired>>

CreateServerFails(c) ==
  /\ thread[c].pc = "create"
  /\ entry' = 0
  /\ mutex' = Nobody
  /\ thread' = [thread EXCEPT ![c].pc = "out", ![c].at = 0]
  /\ UNCHANGED <<kind, servers, ops, late, expired>>

\* postConnect of the server
PostConnect(c) ==
  LET s == thread[c].at IN
  /\ thread[c].pc = "post" /\ servers[s].lock = Nobody
  /\ ops' = Append(ops, [handle |-> 0, done |-> FALSE])
  /\ servers' = [servers EXCEPT ![s] = post(s, c, [op |-> "connect", id |-> Len(ops) + 1])]
  /\ thread' = [thread EXCEPT ![c].pc = "enter", ![c].op = Len(ops) + 1]
  /\ UNCHANGED <<kind, mutex, entry, late, expired>>

\* _ConnectOperation::wait looks at _done before it first waits, ...
EnterWait(c) ==
  /\ thread[c].pc = "enter" /\ Ready(c)
  /\ thread' = [thread EXCEPT ![c].pc = IF ops[thread[c].op].done THEN "read" ELSE "wait"]
  /\ UNCHANGED <<kind, mutex, entry, servers, ops, late, expired>>

\* ... after it has been notified ...
Notified(c) ==
  /\ thread[c].pc = "wait" /\ ops[thread[c].op].done
  /\ thread' = [thread EXCEPT ![c].pc = "read"]
  /\ UNCHANGED <<kind, mutex, entry, servers, ops, late, expired>>

\* ... and gives up when the time has expired, whether the result is there or not.
Expire(c) ==
  /\ thread[c].pc = "wait" /\ expired < MaxExpired
  /\ ops' = [ops EXCEPT ![thread[c].op].handle = 0]
  /\ thread' = [thread EXCEPT ![c].pc = "read"]
  /\ expired' = expired + 1
  /\ late' = (late \/ ~servers[thread[c].at].done)
  /\ UNCHANGED <<kind, mutex, entry, servers>>

\* getConnectHandle reads without the operation's mutex.  A server without an answer is
\* replaced; if it is the new one, the call fails.
ReadHandle(c) ==
  LET me == thread[c]
      h == ops[me.op].handle
  IN
  /\ me.pc = "read"
  /\ thread' = [thread EXCEPT ![c].handle = h, ![c].op = 0,
                              ![c].at = IF h = 0 /\ me.fresh THEN 0 ELSE @,
                              ![c].pc = IF h # 0 THEN "in" ELSE IF me.fresh THEN "out" ELSE "create"]
  /\ ops' = [ops EXCEPT ![me.op] = Forgotten]
  /\ mutex' = IF h # 0 \/ me.fresh THEN Nobody ELSE mutex
  /\ UNCHANGED <<kind, entry, servers, late, expired>>

\* The ambassador disconnects, _PostingMessageSender::close
Close(c) ==
  LET s == thread[c].at IN
  /\ thread[c].pc = "in" /\ servers[s].lock = Nobody
  /\ servers' = [servers EXCEPT ![s] = post(s, c, [op |-> "disconnect", id |-> thread[c].handle])]
  /\ thread' = [thread EXCEPT ![c].pc = "out", ![c].handle = 0, ![c].at = 0]
  /\ UNCHANGED <<kind, mutex, entry, ops, late, expired>>

-----------------------------------------------------------------------------
(* The server thread, LeafServerThread::run.                               *)

\* The loop of exec, under the mutex of the queue.  A batch is sent to its end, done or not.
ExecLoop(s) ==
  LET g == servers[s] IN
  /\ g.pc = "run" \/ (g.pc = "send" /\ g.batch = <<>>)
  /\ g.lock = Nobody
  /\ servers' = [servers EXCEPT ![s] =
       IF g.done THEN [g EXCEPT !.pc = "ended"]
       ELSE IF g.queue = <<>> THEN [g EXCEPT !.pc = IF kind = "thread" THEN "sleep" ELSE "poll"]
       ELSE [g EXCEPT !.pc = "send", !.batch = g.queue, !.queue = <<>>]]
  /\ UNCHANGED <<kind, mutex, entry, thread, ops, late, expired>>

\* SocketEventDispatcher::exec: the pipe is emptied, then the flag is taken back.
DrainPipe(s) ==
  /\ servers[s].pc = "poll" /\ servers[s].pipe
  /\ servers' = [servers EXCEPT ![s].pc = "drained", ![s].pipe = FALSE]
  /\ UNCHANGED <<kind, mutex, entry, thread, ops, late, expired>>

\* Wrong: the flag of the wakeup stays set.
ClearWoken_Kept(s) ==
  /\ servers[s].pc = "drained"
  /\ servers' = [servers EXCEPT ![s].pc = "run"]
  /\ UNCHANGED <<kind, mutex, entry, thread, ops, late, expired>>

ClearWoken(s) ==
  /\ servers[s].pc = "drained"
  /\ servers' = [servers EXCEPT ![s].pc = "run", ![s].woken = FALSE]
  /\ UNCHANGED <<kind, mutex, entry, thread, ops, late, expired>>

\* Wrong: a server that is done still takes connects.
SendConnect_Always(s) ==
  LET g == servers[s]
      h == Min(1..(Cardinality(g.connects) + 1) \ g.connects)
  IN
  /\ g.pc = "send" /\ g.batch # <<>> /\ Head(g.batch).op = "connect"
  /\ ops' = [ops EXCEPT ![Head(g.batch).id] = IF @ = Forgotten THEN @ ELSE [@ EXCEPT !.handle = h]]
  /\ servers' = [servers EXCEPT ![s].pc = "notify", ![s].connects = @ \cup {h}]
  /\ UNCHANGED <<kind, mutex, entry, thread, late, expired>>

\* _sendConnect: a server that is done gives no connect.
SendConnect(s) ==
  LET g == servers[s]
      h == IF g.done THEN 0 ELSE Min(1..(Cardinality(g.connects) + 1) \ g.connects)
  IN
  /\ g.pc = "send" /\ g.batch # <<>> /\ Head(g.batch).op = "connect"
  /\ ops' = [ops EXCEPT ![Head(g.batch).id] = IF @ = Forgotten THEN @ ELSE [@ EXCEPT !.handle = h]]
  /\ servers' = [servers EXCEPT ![s].pc = "notify", ![s].connects = @ \cup ({h} \ {0})]
  /\ UNCHANGED <<kind, mutex, entry, thread, late, expired>>

\* _ConnectOperation: the result is announced
NotifyConnect(s) ==
  LET g == servers[s] IN
  /\ g.pc = "notify"
  /\ ops' = [ops EXCEPT ![Head(g.batch).id].done = TRUE]
  /\ servers' = [servers EXCEPT ![s].pc = "send", ![s].batch = Tail(@)]
  /\ UNCHANGED <<kind, mutex, entry, thread, late, expired>>

\* ServerNode::isIdle: a server that is the root never is.
isIdle(connects) == kind = "network" /\ connects = {}

\* Wrong: the last connect closed does not end the server.
SendDisconnect_NotDone(s) ==
  LET g == servers[s] IN
  /\ g.pc = "send" /\ g.batch # <<>> /\ Head(g.batch).op = "disconnect"
  /\ servers' = [servers EXCEPT ![s].connects = @ \ {Head(g.batch).id}, ![s].batch = Tail(@)]
  /\ UNCHANGED <<kind, mutex, entry, thread, ops, late, expired>>

\* _sendDisconnect: the last one ends the server.
SendDisconnect(s) ==
  LET g == servers[s]
      left == g.connects \ {Head(g.batch).id}
  IN
  /\ g.pc = "send" /\ g.batch # <<>> /\ Head(g.batch).op = "disconnect"
  /\ servers' = [servers EXCEPT ![s].connects = left, ![s].batch = Tail(@),
                                ![s].done = @ \/ isIdle(left)]
  /\ UNCHANGED <<kind, mutex, entry, thread, ops, late, expired>>

\* _DoneOperation
SendDone(s) ==
  LET g == servers[s] IN
  /\ g.pc = "send" /\ g.batch # <<>> /\ Head(g.batch).op = "done"
  /\ servers' = [servers EXCEPT ![s].done = TRUE, ![s].batch = Tail(@)]
  /\ UNCHANGED <<kind, mutex, entry, thread, ops, late, expired>>

\* Wrong: whatever server is registered is removed.
Erase_Any(s) ==
  /\ servers[s].pc = "ended" /\ mutex = Nobody
  /\ servers' = [servers EXCEPT ![s].pc = "gone"]
  /\ entry' = 0
  /\ UNCHANGED <<kind, mutex, thread, ops, late, expired>>

\* Registry::erase: the entry is removed if it still is about this server.
Erase(s) ==
  /\ servers[s].pc = "ended" /\ mutex = Nobody
  /\ servers' = [servers EXCEPT ![s].pc = "gone"]
  /\ entry' = IF entry = s THEN 0 ELSE entry
  /\ UNCHANGED <<kind, mutex, thread, ops, late, expired>>

ServerStep(s) ==
  \/ ExecLoop(s) \/ DrainPipe(s) \/ ClearWoken(s) \/ SendConnect(s) \/ NotifyConnect(s)
  \/ SendDisconnect(s) \/ SendDone(s) \/ Erase(s)

-----------------------------------------------------------------------------
(* Registry::Finalize, the last use of the registry: a connect that begins before its end  *)
(* would find an entry without a server, and one after it starts with an empty registry.   *)

\* Wrong: the mutex is held until the server thread has ended.
Shutdown_Locked ==
  /\ ShutdownAllowed /\ thread[Finalizer].pc = "out" /\ mutex = Nobody /\ entry # 0
  /\ servers[entry].lock = Nobody
  /\ servers' = [servers EXCEPT ![entry] = post(entry, Finalizer, [op |-> "done", id |-> 0])]
  /\ thread' = [thread EXCEPT ![Finalizer].pc = "join", ![Finalizer].at = entry]
  /\ entry' = 0
  /\ mutex' = Finalizer
  /\ UNCHANGED <<kind, ops, late, expired>>

\* The entry's server is swapped out; the mutex is given back before anything else.
Shutdown ==
  /\ ShutdownAllowed /\ thread[Finalizer].pc = "out" /\ mutex = Nobody /\ entry # 0
  /\ servers[entry].lock = Nobody
  /\ servers' = [servers EXCEPT ![entry] = post(entry, Finalizer, [op |-> "done", id |-> 0])]
  /\ thread' = [thread EXCEPT ![Finalizer].pc = "join", ![Finalizer].at = entry]
  /\ entry' = 0
  /\ UNCHANGED <<kind, mutex, ops, late, expired>>

\* The thread has ended; the map is cleared.
ShutdownDone ==
  /\ thread[Finalizer].pc = "join" /\ Ready(Finalizer) /\ mutex = Nobody
  /\ servers[thread[Finalizer].at].pc = "gone"
  /\ thread' = [thread EXCEPT ![Finalizer].pc = "end"]
  /\ entry' = 0
  /\ UNCHANGED <<kind, mutex, servers, ops, late, expired>>

-----------------------------------------------------------------------------
ClientStep(c) ==
  \/ Lock(c) \/ CreateServer(c) \/ CreateServerFails(c) \/ PostConnect(c) \/ EnterWait(c)
  \/ Notified(c) \/ Expire(c) \/ ReadHandle(c) \/ Close(c)

Next ==
  \/ \E c \in Clients : ClientStep(c)
  \/ \E t \in Threads : WriteWakeup(t)
  \/ \E s \in DOMAIN servers : ServerStep(s)
  \/ Shutdown
  \/ ShutdownDone

Spec == Init /\ [][Next]_vars

\* A thread that can run does.  A client need not connect or close, and nothing is
\* assumed of timeouts: no property is owed to one.
Fairness ==
  /\ \A c \in Clients :
       WF_vars(\/ CreateServer(c) \/ CreateServerFails(c) \/ PostConnect(c) \/ EnterWait(c)
               \/ Notified(c) \/ ReadHandle(c) \/ WriteWakeup(c))
  /\ WF_vars(WriteWakeup(Finalizer) \/ ShutdownDone)
  /\ \A s \in 1..MaxServers : WF_vars(s \in DOMAIN servers /\ ServerStep(s))

FairSpec == Spec /\ Fairness

-----------------------------------------------------------------------------
(* Properties.                                                             *)

\* The server that the shutdown is about.
ShutDown(s) == thread[Finalizer].at = s

\* LeafServerThread.cpp:92, AbstractServer.cpp:429: the connect that a client got is known to
\* a server that goes on working for as long as the client keeps it, whatever connects are
\* opened, closed or abandoned meanwhile; only a shutdown takes it away.
ConnectIsServed ==
  \A c \in Clients : thread[c].pc = "in" /\ ~ShutDown(thread[c].at) =>
    /\ thread[c].handle \in servers[thread[c].at].connects
    /\ ~servers[thread[c].at].done
    /\ \A d \in Clients \ {c} : thread[d].pc = "in" /\ thread[d].at = thread[c].at
                                  => thread[d].handle # thread[c].handle

\* LeafServerThread.cpp:92,142: the server that works for a client is the one that the
\* registry gives to the next client, so those that use a url at the same time use one server,
\* unless a connect timed out at a server that was still working.
Registered ==
  late \/ \A c \in Clients : thread[c].pc = "in" /\ ~ShutDown(thread[c].at)
            => entry = thread[c].at

\* LeafServerThread.cpp:94: "If it is working it is guaranteed to get at least a connect":
\* a connect is answered without the help of its timeout, unless the server it has been
\* posted to has left its loop.  No wakeup is lost.
ConnectAnswered ==
  \A c \in Clients : thread[c].pc \in {"enter", "wait"}
    ~> \/ thread[c].pc \notin {"enter", "wait"}
       \/ servers[thread[c].at].pc \in {"ended", "gone"}

\* Nobody has a connect of server s, nor is about to get one.
Deserted(s) ==
  /\ s \in DOMAIN servers /\ ~late
  /\ \A c \in Clients : thread[c].at # s

\* AbstractServer.cpp:448: the thread of a leaf server that everyone has left ends, unless
\* someone connects again.
ThreadEnds ==
  \A s \in 1..MaxServers :
    kind = "network" /\ Deserted(s) ~> ~Deserted(s) \/ servers[s].pc \in {"ended", "gone"}

\* LeafServerThread.cpp:64: a shutdown ends the server thread and comes to an end itself,
\* although the server thread needs the registry to end.
ShutdownReturns == thread[Finalizer].pc = "join" ~> thread[Finalizer].pc = "end"

=============================================================================
