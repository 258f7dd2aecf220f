--------------------------- MODULE LeafServers_proofs ---------------------------
(***************************************************************************)
(* What a client of a leaf server may rely on, for every number of clients,*)
(* servers, connects and timeouts.                                         *)
(*                                                                         *)
(* The argument is one of ownership.  A connect handle that a server has   *)
(* given out is held by the client that got it, then by the operation that *)
(* closes it, and by nobody else; a server that is done has no connects    *)
(* left, unless it was shut down.  So the handle is given to no one else   *)
(* while it is held, and the server does not end.  (Queues is extended for  *)
(* its facts about the least of a set of naturals.)                        *)
(***************************************************************************)
EXTENDS LeafServers, Queues

Operations == [op : {"connect", "disconnect", "done"}, id : Nat]
ServerType ==
  [pc : {"run", "sleep", "poll", "drained", "send", "notify", "ended", "gone"}, done : BOOLEAN,
   queue : Seq(Operations), batch : Seq(Operations), connects : SUBSET (Nat \ {0}),
   lock : Threads \cup {Nobody}, woken : BOOLEAN, pipe : BOOLEAN]
Waiting == {"enter", "wait", "read"}
Busy == {"create", "post"} \cup Waiting
ThreadType ==
  [pc : {"out", "in", "join", "end"} \cup Busy, at : Nat, op : Nat, handle : Nat,
   fresh : BOOLEAN, calls : Nat]
Results == [handle : Nat, done : BOOLEAN]

\* The type invariant
TypeOK ==
  /\ kind \in {"thread", "network"}
  /\ mutex \in Threads \cup {Nobody}
  /\ entry \in {0} \cup DOMAIN servers
  /\ servers \in Seq(ServerType) /\ \A s \in DOMAIN servers : IsFiniteSet(servers[s].connects)
  /\ thread \in [Threads -> ThreadType]
  /\ ops \in Seq(Results)
  /\ expired \in Nat /\ late \in BOOLEAN

\* Where a client is, and what it then has: one that is in Registry::connect has the mutex
\* and works with the server that is registered.
Places ==
  /\ mutex # Finalizer
  /\ \A c \in Clients :
       /\ thread[c].pc \in {"out", "in"} \cup Busy
       /\ mutex = c <=> thread[c].pc \in Busy
       /\ thread[c].pc \in {"in", "post"} \cup Waiting => thread[c].at \in DOMAIN servers
       /\ thread[c].pc \in Busy => entry = thread[c].at
       /\ thread[c].pc \in Waiting => thread[c].op \in DOMAIN ops
       /\ thread[c].pc = "in" => thread[c].handle # 0

\* Nobody is in Registry::connect once the shutdown has begun.
Finalized ==
  /\ thread[Finalizer].pc \in {"out", "join", "end"}
  /\ thread[Finalizer].pc = "out" => thread[Finalizer].at = 0
  /\ thread[Finalizer].pc # "out" => mutex = Nobody /\ entry = 0 /\ thread[Finalizer].at # 0

\* What a server has still to do, oldest first
Work(s) == servers[s].batch \o servers[s].queue

\* A server that is done has no connects left, unless it was shut down.
ServersEnd ==
  \A s \in DOMAIN servers :
    /\ servers[s].pc \notin {"send", "notify"} => servers[s].batch = <<>>
    /\ servers[s].pc = "notify" => servers[s].batch # <<>> /\ Head(servers[s].batch).op = "connect"
    /\ servers[s].pc \in {"ended", "gone"} => servers[s].done
    /\ servers[s].done /\ ~ShutDown(s) => servers[s].connects = {}
    /\ \A i \in DOMAIN Work(s) : Work(s)[i].op = "done" => ShutDown(s)

\* Client c has, or is about to get, connect h of server s.
Holds(c, s, h) ==
  /\ thread[c].at = s /\ h # 0
  /\ \/ thread[c].pc = "in" /\ thread[c].handle = h
     \/ thread[c].pc \in Waiting /\ ops[thread[c].op].handle = h

\* A connect that is held is one of the server's, and has one holder: a client ...
Holders(s) ==
  \A c \in Clients, h \in Nat : Holds(c, s, h) =>
    h \in servers[s].connects /\ \A d \in Clients \ {c} : ~Holds(d, s, h)

\* ... or the operation that closes it.
Closing(s) ==
  \A i \in DOMAIN Work(s) : Work(s)[i].op = "disconnect" =>
    /\ Work(s)[i].id \in servers[s].connects
    /\ \A c \in Clients, h \in Nat : Holds(c, s, h) => h # Work(s)[i].id
    /\ \A j \in DOMAIN Work(s) \ {i} :
         Work(s)[j].op = "disconnect" => Work(s)[j].id # Work(s)[i].id

Ownership == \A s \in DOMAIN servers : Holders(s) /\ Closing(s)

\* A connect operation is the one its client waits for, at that server, or is forgotten.
Posted ==
  \A s \in DOMAIN servers : \A i \in DOMAIN Work(s) : Work(s)[i].op = "connect" =>
    /\ Work(s)[i].id \in DOMAIN ops
    /\ \/ ops[Work(s)[i].id] = Forgotten
       \/ \E c \in Clients : /\ thread[c].pc \in Waiting /\ thread[c].at = s
                             /\ thread[c].op = Work(s)[i].id

\* A client is refused by a server that is done, unless its time has expired before.
Refused ==
  \A c \in Clients :
    \/ /\ thread[c].pc \in Waiting /\ ops[thread[c].op].handle = 0
       /\ thread[c].pc = "read" \/ ops[thread[c].op].done
    \/ thread[c].pc = "create" /\ thread[c].at # 0
    => late \/ (thread[c].at \in DOMAIN servers /\ servers[thread[c].at].done)

\* Between the result of a connect and its announcement
Answered ==
  \A s \in DOMAIN servers : servers[s].pc = "notify" =>
    \/ ops[Head(servers[s].batch).id].handle # 0
    \/ ops[Head(servers[s].batch).id] = Forgotten
    \/ late \/ servers[s].done

IInv ==
  /\ TypeOK /\ Places /\ Finalized /\ ServersEnd /\ Ownership /\ Posted
  /\ Refused /\ Registered

-----------------------------------------------------------------------------
(* Types *)

LEMMA Disjoint ==
  /\ Finalizer \notin Clients /\ Nobody \notin Clients /\ Finalizer # Nobody
  /\ Finalizer \in Threads /\ Clients \subseteq Threads /\ Nobody \notin Threads
BY LeafServersAssumption DEF Finalizer, Nobody, Threads

LEMMA ServerFields ==
  ASSUME TypeOK, NEW s \in DOMAIN servers
  PROVE  /\ servers[s] \in ServerType /\ s \in Nat \ {0} /\ s \in 1 .. Len(servers)
         /\ servers[s].queue \in Seq(Operations) /\ servers[s].batch \in Seq(Operations)
         /\ servers[s].connects \subseteq Nat \ {0} /\ IsFiniteSet(servers[s].connects)
         /\ servers[s].done \in BOOLEAN
<1>1. servers \in Seq(ServerType)
  BY DEF TypeOK
<1>2. s \in 1 .. Len(servers) /\ s \in Nat \ {0} /\ servers[s] \in ServerType
  BY <1>1
<1>3. IsFiniteSet(servers[s].connects)
  BY DEF TypeOK
<1> QED
  BY <1>2, <1>3 DEF ServerType

LEMMA ServersType ==
  ASSUME TypeOK, NEW s \in DOMAIN servers, NEW g \in ServerType, IsFiniteSet(g.connects),
         servers' = [servers EXCEPT ![s] = g]
  PROVE  /\ servers' \in Seq(ServerType) /\ DOMAIN servers' = DOMAIN servers
         /\ \A r \in DOMAIN servers' : IsFiniteSet(servers'[r].connects)
         /\ servers'[s] = g /\ \A r \in DOMAIN servers : r # s => servers'[r] = servers[r]
BY DEF TypeOK

LEMMA ThreadFields ==
  ASSUME TypeOK
  PROVE  /\ entry \in Nat
         /\ \A t \in Threads : thread[t] \in ThreadType
         /\ \A t \in Threads : /\ thread[t].calls \in Nat /\ thread[t].at \in Nat
                               /\ thread[t].op \in Nat /\ thread[t].handle \in Nat
<1>1. DOMAIN servers \subseteq Nat
  BY DEF TypeOK
<1>2. \A t \in Threads : thread[t] \in ThreadType
  BY DEF TypeOK
<1> QED
  BY <1>1, <1>2 DEF TypeOK, ThreadType

LEMMA ThreadsType ==
  ASSUME TypeOK, NEW t \in Threads, NEW r \in ThreadType, thread' = [thread EXCEPT ![t] = r]
  PROVE  thread' \in [Threads -> ThreadType]
BY DEF TypeOK

\* Posting appends to the queue, and may wake the thread up; it changes nothing else that
\* matters here.
LEMMA postEffect ==
  ASSUME TypeOK, NEW s \in DOMAIN servers, NEW t \in Threads, NEW o \in Operations
  PROVE  LET g == servers[s]
             p == post(s, t, o)
         IN  /\ p \in ServerType /\ IsFiniteSet(p.connects)
             /\ p.queue = Append(g.queue, o) /\ p.batch = g.batch
             /\ p.connects = g.connects /\ p.done = g.done
             /\ p.pc = g.pc \/ (g.pc = "sleep" /\ p.pc = "run")
<1> DEFINE g == servers[s]
           put == [g EXCEPT !.queue = Append(g.queue, o)]
<1>1. g \in ServerType /\ IsFiniteSet(g.connects)
  BY ServerFields
<1>2. Append(g.queue, o) \in Seq(Operations)
  BY ServerFields, AppendProperties
<1>3. put \in ServerType /\ put.queue = Append(g.queue, o) /\ put.batch = g.batch
      /\ put.connects = g.connects /\ put.done = g.done /\ put.pc = g.pc
  BY <1>1, <1>2 DEF ServerType
<1> HIDE DEF put
<1>4. LET n == notify(put, t)
      IN  /\ n \in ServerType /\ n.queue = put.queue /\ n.batch = put.batch
          /\ n.connects = put.connects /\ n.done = put.done
          /\ n.pc = put.pc \/ (put.pc = "sleep" /\ n.pc = "run")
  BY <1>3 DEF notify, ServerType
<1>5. post(s, t, o) = put \/ post(s, t, o) = notify(put, t)
  BY DEF post, put
<1> QED
  BY <1>1, <1>3, <1>4, <1>5

LEMMA WorkType ==
  ASSUME TypeOK, NEW s \in DOMAIN servers
  PROVE  Work(s) \in Seq(Operations)
BY ServerFields, ConcatProperties DEF Work

-----------------------------------------------------------------------------
(* What keeps a part of the invariant *)

\* No connect is given or taken, no operation posted or served, no holder is new.
LEMMA SameOwnership ==
  ASSUME Ownership, DOMAIN servers' = DOMAIN servers,
         \A s \in DOMAIN servers : servers'[s].connects = servers[s].connects /\ Work(s)' = Work(s),
         \A c \in Clients : \A s, h : Holds(c, s, h)' => Holds(c, s, h)
  PROVE  Ownership'
<1> SUFFICES ASSUME NEW s \in DOMAIN servers PROVE Holders(s)' /\ Closing(s)'
  BY DEF Ownership
<1>1. Holders(s) /\ Closing(s)
  BY DEF Ownership
<1>2. Holders(s)'
  BY <1>1 DEF Holders
<1>3. Closing(s)'
  BY <1>1 DEF Closing
<1> QED
  BY <1>2, <1>3

LEMMA SamePosted ==
  ASSUME Posted, DOMAIN servers' = DOMAIN servers, DOMAIN ops \subseteq DOMAIN ops',
         \A s \in DOMAIN servers : Work(s)' = Work(s),
         \A i \in DOMAIN ops : ops[i] = Forgotten => ops'[i] = Forgotten,
         \A c \in Clients : thread[c].pc \in Waiting =>
            \/ thread'[c].pc \in Waiting /\ thread'[c].at = thread[c].at /\ thread'[c].op = thread[c].op
            \/ ops'[thread[c].op] = Forgotten
  PROVE  Posted'
<1> SUFFICES ASSUME NEW s \in DOMAIN servers, NEW i \in DOMAIN Work(s), Work(s)[i].op = "connect"
             PROVE  /\ Work(s)[i].id \in DOMAIN ops'
                    /\ \/ ops'[Work(s)[i].id] = Forgotten
                       \/ \E c \in Clients : /\ thread'[c].pc \in Waiting /\ thread'[c].at = s
                                             /\ thread'[c].op = Work(s)[i].id
  BY DEF Posted
<1>1. /\ Work(s)[i].id \in DOMAIN ops
      /\ \/ ops[Work(s)[i].id] = Forgotten
         \/ \E c \in Clients : /\ thread[c].pc \in Waiting /\ thread[c].at = s
                               /\ thread[c].op = Work(s)[i].id
  BY DEF Posted
<1> QED
  BY <1>1

LEMMA SameServersEnd ==
  ASSUME ServersEnd, UNCHANGED servers, thread'[Finalizer].at = thread[Finalizer].at
  PROVE  ServersEnd'
BY DEF ServersEnd, ShutDown, Work

\* Only the client that has the mutex is in Registry::connect.
LEMMA OnlyOne ==
  ASSUME TypeOK, Places, NEW c \in Clients, thread[c].pc \in Busy
  PROVE  /\ mutex = c
         /\ \A d \in Clients \ {c} : thread[d].pc \in {"out", "in"}
         /\ thread[Finalizer].pc = "out" \/ ~Finalized
BY Disjoint DEF Places, Finalized, TypeOK, ThreadType

\* A client that stays where it is has what it had.
LEMMA SameHolds ==
  ASSUME NEW d \in Clients, thread'[d] = thread[d], thread[d].pc \notin Waiting
  PROVE  \A s, h : Holds(d, s, h)' => Holds(d, s, h)
BY DEF Holds

-----------------------------------------------------------------------------
(* The steps that leave the servers alone *)

LEMMA LockInv ==
  ASSUME IInv, NEW c \in Clients, Lock(c)
  PROVE  IInv'
<1> USE DEF IInv
<1> DEFINE x == IF entry = 0 THEN "create" ELSE "post"
           k == thread[c].calls + 1
           n == [Outside EXCEPT !.pc = x, !.at = entry, !.calls = k]
<1>1. /\ thread' = [thread EXCEPT ![c] = n] /\ mutex' = c /\ mutex = Nobody
      /\ thread[c].pc = "out" /\ thread[Finalizer].pc = "out"
      /\ UNCHANGED <<kind, entry, servers, ops, late, expired>>
  BY DEF Lock
<1>2. n \in ThreadType /\ n.at = entry /\ n.pc = x /\ x = IF entry = 0 THEN "create" ELSE "post"
  <2>1. entry \in Nat /\ thread[c].calls \in Nat
    BY ThreadFields, Disjoint
  <2>2. x \in Busy /\ k \in Nat
    BY <2>1 DEF Busy
  <2> HIDE DEF x, k
  <2>3. n \in ThreadType /\ n.at = entry /\ n.pc = x
    BY <2>1, <2>2 DEF ThreadType, Outside
  <2> QED
    BY <2>3 DEF x
<1> HIDE DEF n, x
<1>3. c \in Threads /\ c # Finalizer /\ Finalizer \in Threads
  BY Disjoint
<1>4. /\ thread'[c] = n /\ thread'[Finalizer] = thread[Finalizer]
      /\ \A d \in Clients \ {c} : thread'[d] = thread[d]
  BY <1>1, <1>3, Disjoint DEF TypeOK
<1>5. \A d \in Clients : thread[d].pc \in {"out", "in"}
  BY <1>1, Disjoint DEF Places
<1>6. TypeOK'
  BY <1>1, <1>2, <1>3, ThreadsType, Disjoint DEF TypeOK
<1>7. Places' /\ Finalized'
  <2>1. entry # 0 => entry \in DOMAIN servers
    BY DEF TypeOK
  <2> QED
    BY <1>1, <1>2, <1>3, <1>4, <1>5, <2>1, Disjoint DEF Places, Finalized, Busy, Waiting
<1>8. ServersEnd'
  BY <1>1, <1>4, SameServersEnd
<1>9. Ownership' /\ Posted'
  <2>1. \A d \in Clients : thread[d].pc \notin Waiting
    BY <1>5 DEF Waiting
  <2>2. \A d \in Clients : \A s, h : Holds(d, s, h)' => Holds(d, s, h)
    BY <1>2, <1>4, <2>1, SameHolds DEF Holds, Waiting
  <2>3. \A s \in DOMAIN servers : Work(s)' = Work(s)
    BY <1>1 DEF Work
  <2> QED
    BY <1>1, <2>1, <2>2, <2>3, SameOwnership, SamePosted
<1>10. Refused'
  BY <1>1, <1>2, <1>4, <1>5 DEF Refused, Waiting
<1>11. Registered'
  BY <1>1, <1>2, <1>4 DEF Registered, ShutDown
<1> QED
  BY <1>6, <1>7, <1>8, <1>9, <1>10, <1>11

LEMMA ClientChange ==
  ASSUME TypeOK, NEW c \in Clients, NEW n \in ThreadType, thread' = [thread EXCEPT ![c] = n]
  PROVE  /\ thread' \in [Threads -> ThreadType]
         /\ thread'[c] = n /\ thread'[Finalizer] = thread[Finalizer]
         /\ \A d \in Clients \ {c} : thread'[d] = thread[d]
BY Disjoint DEF TypeOK

\* A client in Registry::connect goes on without a result, or leaves.
LEMMA QuietStep ==
  ASSUME IInv, NEW c \in Clients, NEW n \in ThreadType, thread[c].pc \in Busy,
         thread' = [thread EXCEPT ![c] = n],
         UNCHANGED <<kind, servers, ops, late, expired>>,
         n.pc \in Waiting => /\ thread[c].pc \in Waiting
                             /\ n.at = thread[c].at /\ n.op = thread[c].op,
         thread[c].pc \in Waiting => n.pc \in Waiting, n.pc \in Busy \cup {"out"}
  PROVE  ServersEnd' /\ Ownership' /\ Posted'
<1> USE DEF IInv
<1>1. /\ thread'[c] = n /\ thread'[Finalizer] = thread[Finalizer]
      /\ \A d \in Clients \ {c} : thread'[d] = thread[d]
  BY ClientChange
<1>2. \A d \in Clients \ {c} : thread[d].pc \notin Waiting
  BY OnlyOne DEF Waiting
<1>3. \A s, h : Holds(c, s, h)' => Holds(c, s, h)
  BY <1>1 DEF Holds, Busy, Waiting
<1>4. \A d \in Clients : \A s, h : Holds(d, s, h)' => Holds(d, s, h)
  BY <1>1, <1>2, <1>3, SameHolds
<1>5. \A s \in DOMAIN servers : Work(s)' = Work(s)
  BY DEF Work
<1>6. Ownership'
  BY <1>4, <1>5, SameOwnership
<1>7. Posted'
  BY <1>1, <1>2, <1>5, SamePosted
<1> QED
  BY <1>1, <1>6, <1>7, SameServersEnd

\* A new server is only started when no client is served by the one that is registered.
LEMMA NoneServed ==
  ASSUME IInv, NEW c \in Clients, thread[c].pc = "create", ~late,
         NEW d \in Clients, thread[d].pc = "in", ~ShutDown(thread[d].at)
  PROVE  FALSE
<1> USE DEF IInv
<1>1. entry = thread[d].at /\ thread[d].at \in DOMAIN servers /\ entry = thread[c].at
  BY DEF Registered, Places, Busy
<1>2. entry # 0
  BY <1>1, ServerFields
<1>3. servers[entry].done
  BY <1>1, <1>2 DEF Refused
<1>4. Holds(d, entry, thread[d].handle) /\ thread[d].handle \in Nat
  BY <1>1, ThreadFields, Disjoint DEF Places, Holds
<1>5. thread[d].handle \in servers[entry].connects
  BY <1>1, <1>4 DEF Ownership, Holders
<1> QED
  BY <1>1, <1>3, <1>5 DEF ServersEnd

LEMMA CreateServerFailsInv ==
  ASSUME IInv, NEW c \in Clients, CreateServerFails(c)
  PROVE  IInv'
<1> USE DEF IInv
<1> DEFINE n == [thread[c] EXCEPT !.pc = "out", !.at = 0]
<1>1. /\ thread' = [thread EXCEPT ![c] = n] /\ mutex' = Nobody /\ entry' = 0
      /\ thread[c].pc = "create" /\ UNCHANGED <<kind, servers, ops, late, expired>>
  BY Disjoint DEF CreateServerFails, TypeOK
<1>2. n \in ThreadType /\ n.at = 0 /\ n.pc = "out"
  BY ThreadFields, Disjoint DEF ThreadType
<1> HIDE DEF n
<1>3. /\ thread' \in [Threads -> ThreadType]
      /\ thread'[c] = n /\ thread'[Finalizer] = thread[Finalizer]
      /\ \A d \in Clients \ {c} : thread'[d] = thread[d]
  BY <1>1, <1>2, ClientChange
<1>4. \A d \in Clients \ {c} : thread[d].pc \in {"out", "in"}
  BY <1>1, OnlyOne DEF Busy
<1>5. TypeOK'
  BY <1>1, <1>3 DEF TypeOK
<1>6. Places' /\ Finalized'
  BY <1>1, <1>2, <1>3, <1>4, Disjoint DEF Places, Finalized, Busy, Waiting
<1>7. ServersEnd' /\ Ownership' /\ Posted'
  BY <1>1, <1>2, QuietStep DEF Busy, Waiting
<1>8. Refused'
  BY <1>1, <1>2, <1>3, <1>4 DEF Refused, Waiting
<1>9. Registered'
  <2> SUFFICES ASSUME ~late, NEW d \in Clients, thread'[d].pc = "in",
                      thread'[Finalizer].at # thread'[d].at
               PROVE  FALSE
    BY <1>1 DEF Registered, ShutDown
  <2>1. d # c /\ thread[d].pc = "in" /\ ~ShutDown(thread[d].at)
    BY <1>2, <1>3 DEF ShutDown
  <2> QED
    BY <1>1, <2>1, NoneServed
<1> QED
  BY <1>5, <1>6, <1>7, <1>8, <1>9

LEMMA EnterWaitInv ==
  ASSUME IInv, NEW c \in Clients, EnterWait(c) \/ Notified(c)
  PROVE  IInv'
<1> USE DEF IInv
<1> DEFINE x == IF ops[thread[c].op].done THEN "read" ELSE "wait"
           n == [thread[c] EXCEPT !.pc = x]
<1>1. /\ thread' = [thread EXCEPT ![c] = n] /\ thread[c].pc \in Waiting
      /\ UNCHANGED <<kind, mutex, entry, servers, ops, late, expired>>
  BY Disjoint DEF EnterWait, Notified, TypeOK, Waiting
<1>2. /\ n \in ThreadType /\ n.at = thread[c].at /\ n.op = thread[c].op /\ n.pc = x
      /\ x \in Waiting /\ (x = "read" => ops[thread[c].op].done)
  <2>1. x \in Waiting /\ x \in Busy /\ (x = "read" => ops[thread[c].op].done)
    BY DEF Waiting, Busy
  <2> HIDE DEF x
  <2>2. thread[c] \in ThreadType
    BY ThreadFields, Disjoint
  <2> QED
    BY <2>1, <2>2 DEF ThreadType
<1> HIDE DEF n, x
<1>3. /\ thread' \in [Threads -> ThreadType]
      /\ thread'[c] = n /\ thread'[Finalizer] = thread[Finalizer]
      /\ \A d \in Clients \ {c} : thread'[d] = thread[d]
  BY <1>1, <1>2, ClientChange
<1>4. thread[c].pc \in Busy /\ n.pc \in Busy
  BY <1>1, <1>2 DEF Busy
<1>5. TypeOK'
  BY <1>1, <1>3 DEF TypeOK
<1>6. Places' /\ Finalized'
  BY <1>1, <1>2, <1>3, <1>4, Disjoint DEF Places, Finalized, Waiting
<1>7. ServersEnd' /\ Ownership' /\ Posted'
  BY <1>1, <1>2, <1>4, QuietStep
<1>8. Refused'
  BY <1>1, <1>2, <1>3, <1>4 DEF Refused, Waiting
<1>9. Registered'
  BY <1>1, <1>2, <1>3 DEF Registered, ShutDown, Waiting
<1> QED
  BY <1>5, <1>6, <1>7, <1>8, <1>9

LEMMA ExpireInv ==
  ASSUME IInv, NEW c \in Clients, Expire(c)
  PROVE  IInv'
<1> USE DEF IInv
<1> DEFINE o == thread[c].op
           n == [thread[c] EXCEPT !.pc = "read"]
<1>1. /\ thread' = [thread EXCEPT ![c] = n] /\ thread[c].pc = "wait"
      /\ ops' = [ops EXCEPT ![o].handle = 0] /\ expired' = expired + 1
      /\ late' = (late \/ ~servers[thread[c].at].done)
      /\ UNCHANGED <<kind, mutex, entry, servers>>
  BY Disjoint DEF Expire, TypeOK
<1>2. n \in ThreadType /\ n.at = thread[c].at /\ n.op = o /\ n.pc = "read"
  <2>1. thread[c] \in ThreadType
    BY ThreadFields, Disjoint
  <2> QED
    BY <2>1 DEF ThreadType, Busy, Waiting
<1> HIDE DEF n
<1>3. /\ thread' \in [Threads -> ThreadType]
      /\ thread'[c] = n /\ thread'[Finalizer] = thread[Finalizer]
      /\ \A d \in Clients \ {c} : thread'[d] = thread[d]
  BY <1>1, <1>2, ClientChange
<1>4. /\ o \in DOMAIN ops /\ thread[c].at \in DOMAIN servers
      /\ \A d \in Clients \ {c} : thread[d].pc \in {"out", "in"}
  BY <1>1, OnlyOne DEF Places, Waiting, Busy
<1>5. /\ ops' \in Seq(Results) /\ DOMAIN ops' = DOMAIN ops /\ ops'[o].handle = 0
      /\ \A i \in DOMAIN ops : ops[i] = Forgotten => ops'[i] = Forgotten
  <2>2. ops \in Seq(Results)
    BY DEF TypeOK
  <2>1. [ops[o] EXCEPT !.handle = 0] \in Results /\ ops[o] \in Results
    <3>1. ops[o] \in Results
      BY <1>4, <2>2
    <3> QED
      BY <3>1 DEF Results
  <2>3. ops' = [ops EXCEPT ![o] = [ops[o] EXCEPT !.handle = 0]]
    BY <1>1, <1>4
  <2>4. ops' \in Seq(Results) /\ DOMAIN ops' = DOMAIN ops
    BY <1>4, <2>1, <2>2, <2>3
  <2>5. ops'[o] = [ops[o] EXCEPT !.handle = 0] /\ \A i \in DOMAIN ops \ {o} : ops'[i] = ops[i]
    BY <1>4, <2>2, <2>3
  <2>6. ops[o] = Forgotten => ops'[o] = Forgotten
    BY <2>5 DEF Forgotten
  <2>7. ops'[o].handle = 0
    BY <2>1, <2>5 DEF Results
  <2> QED
    BY <2>4, <2>5, <2>6, <2>7
<1>6. TypeOK'
  BY <1>1, <1>3, <1>5 DEF TypeOK
<1>7. Places' /\ Finalized'
  BY <1>1, <1>2, <1>3, <1>4, <1>5, Disjoint DEF Places, Finalized, Waiting, Busy
<1>8. \A d \in Clients : \A s, h : Holds(d, s, h)' => Holds(d, s, h)
  <2>1. \A s, h : ~Holds(c, s, h)'
    BY <1>2, <1>3, <1>5 DEF Holds
  <2> QED
    BY <1>3, <1>4, <2>1, SameHolds DEF Waiting
<1>9. \A s \in DOMAIN servers : Work(s)' = Work(s)
  BY <1>1 DEF Work
<1>10. Ownership'
  BY <1>1, <1>8, <1>9, SameOwnership
<1>11. Posted'
  BY <1>1, <1>2, <1>3, <1>4, <1>5, <1>9, SamePosted DEF Waiting
<1>12. ServersEnd'
  BY <1>1, <1>3, SameServersEnd
<1>13. Refused'
  <2>1. late' \/ (thread'[c].at \in DOMAIN servers' /\ servers'[thread'[c].at].done)
    BY <1>1, <1>2, <1>3, <1>4
  <2>2. \A d \in Clients \ {c} : thread'[d].pc \in {"out", "in"}
    BY <1>3, <1>4
  <2> QED
    BY <2>1, <2>2 DEF Refused, Waiting
<1>14. Registered'
  BY <1>1, <1>2, <1>3 DEF Registered, ShutDown
<1> QED
  BY <1>6, <1>7, <1>10, <1>11, <1>12, <1>13, <1>14

LEMMA ReadHandleInv ==
  ASSUME IInv, NEW c \in Clients, ReadHandle(c)
  PROVE  IInv'
<1> USE DEF IInv
<1> DEFINE o == thread[c].op
           h == ops[o].handle
           a == IF h = 0 /\ thread[c].fresh THEN 0 ELSE thread[c].at
           x == IF h # 0 THEN "in" ELSE IF thread[c].fresh THEN "out" ELSE "create"
           n == [thread[c] EXCEPT !.handle = h, !.op = 0, !.at = a, !.pc = x]
<1>1. /\ thread' = [thread EXCEPT ![c] = n] /\ thread[c].pc = "read"
      /\ ops' = [ops EXCEPT ![o] = Forgotten]
      /\ mutex' = IF h # 0 \/ thread[c].fresh THEN Nobody ELSE mutex
      /\ UNCHANGED <<kind, entry, servers, late, expired>>
  BY Disjoint DEF ReadHandle, TypeOK
<1>2. /\ o \in DOMAIN ops /\ thread[c].at \in DOMAIN servers /\ mutex = c
      /\ \A d \in Clients \ {c} : thread[d].pc \in {"out", "in"}
  BY <1>1, OnlyOne DEF Places, Waiting, Busy
<1>3. h \in Nat /\ thread[c] \in ThreadType /\ thread[c].at \in Nat /\ thread[c].fresh \in BOOLEAN
  <2>1. ops[o] \in Results
    BY <1>2 DEF TypeOK
  <2>2. thread[c] \in ThreadType
    BY ThreadFields, Disjoint
  <2> QED
    BY <2>1, <2>2 DEF Results, ThreadType
<1>4. /\ n \in ThreadType /\ n.at = a /\ n.pc = x /\ n.handle = h
      /\ h # 0 => x = "in" /\ a = thread[c].at /\ mutex' = Nobody
      /\ h = 0 /\ thread[c].fresh => x = "out" /\ a = 0 /\ mutex' = Nobody
      /\ h = 0 /\ ~thread[c].fresh => x = "create" /\ a = thread[c].at /\ mutex' = c
  <2>1. /\ a \in Nat /\ x \in {"in", "out", "create"}
        /\ h # 0 => x = "in" /\ a = thread[c].at /\ mutex' = Nobody
        /\ h = 0 /\ thread[c].fresh => x = "out" /\ a = 0 /\ mutex' = Nobody
        /\ h = 0 /\ ~thread[c].fresh => x = "create" /\ a = thread[c].at /\ mutex' = c
    BY <1>1, <1>2, <1>3
  <2> HIDE DEF a, x, h
  <2>2. n \in ThreadType /\ n.at = a /\ n.pc = x /\ n.handle = h
    BY <1>3, <2>1 DEF ThreadType, Busy
  <2> QED
    BY <2>1, <2>2
<1> HIDE DEF n, a, x
<1>5. /\ thread' \in [Threads -> ThreadType]
      /\ thread'[c] = n /\ thread'[Finalizer] = thread[Finalizer]
      /\ \A d \in Clients \ {c} : thread'[d] = thread[d]
  BY <1>1, <1>4, ClientChange
<1>6. /\ ops' \in Seq(Results) /\ DOMAIN ops' = DOMAIN ops /\ ops'[o] = Forgotten
      /\ \A i \in DOMAIN ops : ops[i] = Forgotten => ops'[i] = Forgotten
  <2>1. Forgotten \in Results /\ ops \in Seq(Results)
    BY DEF TypeOK, Results, Forgotten
  <2> QED
    BY <1>1, <1>2, <2>1
<1>7. TypeOK'
  BY <1>1, <1>2, <1>4, <1>5, <1>6, Disjoint DEF TypeOK
<1>8. Places' /\ Finalized'
  <2>1. CASE h # 0
    BY <1>1, <1>2, <1>4, <1>5, <2>1, Disjoint DEF Places, Finalized, Waiting, Busy
  <2>2. CASE h = 0 /\ thread[c].fresh
    BY <1>1, <1>2, <1>4, <1>5, <2>2, Disjoint DEF Places, Finalized, Waiting, Busy
  <2>3. CASE h = 0 /\ ~thread[c].fresh
    BY <1>1, <1>2, <1>4, <1>5, <2>3, Disjoint DEF Places, Finalized, Waiting, Busy
  <2> QED
    BY <1>3, <2>1, <2>2, <2>3
<1>9. \A d \in Clients : \A s, k : Holds(d, s, k)' => Holds(d, s, k)
  <2>1. \A s, k : Holds(c, s, k)' => Holds(c, s, k)
    BY <1>1, <1>4, <1>5 DEF Holds, Waiting
  <2> QED
    BY <1>2, <1>5, <2>1, SameHolds DEF Waiting
<1>10. \A s \in DOMAIN servers : Work(s)' = Work(s)
  BY <1>1 DEF Work
<1>11. Ownership'
  BY <1>1, <1>9, <1>10, SameOwnership
<1>12. Posted'
  BY <1>1, <1>2, <1>6, <1>10, SamePosted DEF Waiting
<1>13. ServersEnd'
  BY <1>1, <1>5, SameServersEnd
<1>14. Refused'
  <2>1. h = 0 => late \/ servers[thread[c].at].done
    BY <1>1 DEF Refused, Waiting
  <2> QED
    BY <1>1, <1>2, <1>4, <1>5, <2>1 DEF Refused, Waiting
<1>15. Registered'
  <2>1. entry = thread[c].at
    BY <1>1 DEF Places, Waiting, Busy
  <2> QED
    BY <1>1, <1>4, <1>5, <2>1 DEF Registered, ShutDown
<1> QED
  BY <1>7, <1>8, <1>11, <1>12, <1>13, <1>14, <1>15

LEMMA ShutdownDoneInv ==
  ASSUME IInv, ShutdownDone
  PROVE  IInv'
<1> USE DEF IInv
<1> DEFINE n == [thread[Finalizer] EXCEPT !.pc = "end"]
<1>1. /\ thread' = [thread EXCEPT ![Finalizer] = n] /\ thread[Finalizer].pc = "join"
      /\ entry' = 0 /\ UNCHANGED <<kind, mutex, servers, ops, late, expired>>
  BY Disjoint DEF ShutdownDone, TypeOK
<1>2. n \in ThreadType /\ n.at = thread[Finalizer].at /\ n.pc = "end"
  <2>1. thread[Finalizer] \in ThreadType
    BY ThreadFields, Disjoint
  <2> QED
    BY <2>1 DEF ThreadType
<1> HIDE DEF n
<1>3. /\ thread' \in [Threads -> ThreadType] /\ thread'[Finalizer] = n
      /\ \A d \in Clients : thread'[d] = thread[d]
  BY <1>1, <1>2, Disjoint DEF TypeOK
<1>4. entry = 0 /\ mutex = Nobody
  BY <1>1 DEF Finalized
<1>5. \A d \in Clients : thread[d].pc \notin Busy
  BY <1>4, Disjoint DEF Places
<1>6. TypeOK'
  BY <1>1, <1>3 DEF TypeOK
<1>7. Places' /\ Finalized'
  BY <1>1, <1>2, <1>3, <1>4, <1>5, Disjoint DEF Places, Finalized
<1>8. ServersEnd'
  BY <1>1, <1>2, <1>3, SameServersEnd
<1>9. Ownership' /\ Posted'
  <2>1. \A d \in Clients : thread[d].pc \notin Waiting
    BY <1>5 DEF Busy
  <2>2. \A d \in Clients : \A s, h : Holds(d, s, h)' => Holds(d, s, h)
    BY <1>3, <2>1, SameHolds
  <2>3. \A s \in DOMAIN servers : Work(s)' = Work(s)
    BY <1>1 DEF Work
  <2> QED
    BY <1>1, <2>1, <2>2, <2>3, SameOwnership, SamePosted
<1>10. Refused'
  BY <1>1, <1>3 DEF Refused
<1>11. Registered'
  BY <1>1, <1>2, <1>3, <1>4 DEF Registered, ShutDown
<1> QED
  BY <1>6, <1>7, <1>8, <1>9, <1>10, <1>11

-----------------------------------------------------------------------------
(* A new server *)

LEMMA CreateServerInv ==
  ASSUME IInv, NEW c \in Clients, CreateServer(c)
  PROVE  IInv'
<1> USE DEF IInv
<1>0. PICK k \in Nat : k = Len(servers) + 1
  BY DEF TypeOK
<1> DEFINE n == [thread[c] EXCEPT !.pc = "post", !.at = k, !.fresh = TRUE]
<1>1. /\ thread' = [thread EXCEPT ![c] = n] /\ thread[c].pc = "create"
      /\ servers' = Append(servers, NewServer) /\ entry' = k
      /\ UNCHANGED <<kind, mutex, ops, late, expired>>
  BY <1>0, Disjoint DEF CreateServer, TypeOK
<1>2. /\ NewServer \in ServerType /\ NewServer.connects = {} /\ NewServer.batch = <<>>
      /\ NewServer.queue = <<>> /\ ~NewServer.done /\ NewServer.pc = "run"
      /\ IsFiniteSet(NewServer.connects)
  <2>1. <<>> \in Seq(Operations)
    OBVIOUS
  <2>2. NewServer.connects = {}
    BY DEF NewServer
  <2>3. IsFiniteSet(NewServer.connects)
    BY <2>2, FS_EmptySet
  <2> QED
    BY <2>1, <2>2, <2>3, Disjoint DEF NewServer, ServerType
<1>3. /\ servers' \in Seq(ServerType) /\ k \in Nat \ {0} /\ k \notin DOMAIN servers
      /\ DOMAIN servers' = DOMAIN servers \cup {k} /\ servers'[k] = NewServer
      /\ \A s \in DOMAIN servers : servers'[s] = servers[s]
  <2>1. servers \in Seq(ServerType) /\ Len(servers) \in Nat /\ DOMAIN servers = 1 .. Len(servers)
    BY DEF TypeOK
  <2>2. servers' \in Seq(ServerType) /\ Len(servers') = k
        /\ servers'[k] = NewServer /\ \A s \in 1 .. Len(servers) : servers'[s] = servers[s]
    BY <1>0, <1>1, <1>2, <2>1, AppendProperties
  <2>3. DOMAIN servers' = 1 .. k
    BY <2>2
  <2> QED
    BY <1>0, <2>1, <2>2, <2>3
<1>4. n \in ThreadType /\ n.at = k /\ n.pc = "post"
  <2>1. thread[c] \in ThreadType
    BY ThreadFields, Disjoint
  <2> QED
    BY <1>3, <2>1 DEF ThreadType, Busy
<1> HIDE DEF n
<1>5. /\ thread' \in [Threads -> ThreadType]
      /\ thread'[c] = n /\ thread'[Finalizer] = thread[Finalizer]
      /\ \A d \in Clients \ {c} : thread'[d] = thread[d]
  BY <1>1, <1>4, ClientChange
<1>6. \A d \in Clients \ {c} : thread[d].pc \in {"out", "in"}
  BY <1>1, OnlyOne DEF Busy
<1>7. TypeOK'
  BY <1>1, <1>2, <1>3, <1>5 DEF TypeOK
<1>8. Places' /\ Finalized'
  BY <1>1, <1>3, <1>4, <1>5, <1>6, Disjoint DEF Places, Finalized, Busy, Waiting
<1>9. \A s \in DOMAIN servers : Work(s)' = Work(s)
  BY <1>3 DEF Work
<1>10. Work(k)' = <<>> /\ DOMAIN Work(k)' = {}
  <2>1. Work(k)' = <<>> \o <<>>
    BY <1>2, <1>3 DEF Work
  <2> QED
    BY <2>1
<1>11. ServersEnd'
  <2>1. \A s : ShutDown(s)' <=> ShutDown(s)
    BY <1>5 DEF ShutDown
  <2> QED
    BY <1>2, <1>3, <1>9, <1>10, <2>1 DEF ServersEnd
<1>12. \A d \in Clients : \A s, h : Holds(d, s, h)' => Holds(d, s, h) /\ s \in DOMAIN servers
  <2>1. \A s, h : ~Holds(c, s, h)'
    BY <1>4, <1>5 DEF Holds, Waiting
  <2>2. \A d \in Clients \ {c} : \A s, h : Holds(d, s, h)' => Holds(d, s, h)
    BY <1>5, <1>6, SameHolds DEF Waiting
  <2> QED
    BY <2>1, <2>2 DEF Holds, Places
<1>13. Ownership'
  <2>1. ASSUME NEW s \in DOMAIN servers PROVE Holders(s)' /\ Closing(s)'
    <3>1. Holders(s) /\ Closing(s) /\ Work(s)' = Work(s) /\ servers'[s] = servers[s]
      BY <1>3, <1>9 DEF Ownership
    <3>2. Holders(s)'
      BY <1>12, <3>1 DEF Holders
    <3>3. Closing(s)'
      BY <1>12, <3>1 DEF Closing
    <3> QED
      BY <3>2, <3>3
  <2>2. Holders(k)' /\ Closing(k)'
    BY <1>3, <1>10, <1>12 DEF Holders, Closing
  <2> QED
    BY <1>3, <2>1, <2>2 DEF Ownership
<1>14. Posted'
  <2>1. ASSUME NEW s \in DOMAIN servers, NEW i \in DOMAIN Work(s), Work(s)[i].op = "connect"
        PROVE  /\ Work(s)[i].id \in DOMAIN ops
               /\ \/ ops[Work(s)[i].id] = Forgotten
                  \/ \E d \in Clients : /\ thread'[d].pc \in Waiting /\ thread'[d].at = s
                                        /\ thread'[d].op = Work(s)[i].id
    BY <1>1, <1>5, <2>1 DEF Posted, Waiting
  <2> QED
    BY <1>1, <1>3, <1>9, <1>10, <2>1 DEF Posted
<1>15. Refused'
  BY <1>1, <1>3, <1>4, <1>5, <1>6 DEF Refused, Waiting
<1>16. Registered'
  <2> SUFFICES ASSUME ~late, NEW d \in Clients, thread'[d].pc = "in",
                      thread'[Finalizer].at # thread'[d].at
               PROVE  FALSE
    BY <1>1 DEF Registered, ShutDown
  <2>1. d # c /\ thread[d].pc = "in" /\ ~ShutDown(thread[d].at)
    BY <1>4, <1>5 DEF ShutDown
  <2> QED
    BY <1>1, <2>1, NoneServed
<1> QED
  BY <1>7, <1>8, <1>11, <1>13, <1>14, <1>15, <1>16

-----------------------------------------------------------------------------
(* The steps that post to a server *)

LEMMA ConcatAppend ==
  ASSUME NEW S, NEW a \in Seq(S), NEW b \in Seq(S), NEW x \in S
  PROVE  a \o Append(b, x) = Append(a \o b, x)
<1>1. Append(b, x) = b \o <<x>> /\ <<x>> \in Seq(S) /\ a \o b \in Seq(S)
  BY AppendIsConcat, ConcatProperties
<1>2. Append(a \o b, x) = (a \o b) \o <<x>>
  BY <1>1, AppendIsConcat
<1> QED
  BY <1>1, <1>2, ConcatAssociative

LEMMA AppendDomain ==
  ASSUME NEW S, NEW q \in Seq(S), NEW x
  PROVE  /\ DOMAIN Append(q, x) = DOMAIN q \cup {Len(q) + 1} /\ Len(q) + 1 \notin DOMAIN q
         /\ Append(q, x)[Len(q) + 1] = x /\ \A i \in DOMAIN q : Append(q, x)[i] = q[i]
OBVIOUS

LEMMA PostWork ==
  ASSUME TypeOK, NEW s \in DOMAIN servers, NEW t \in Threads, NEW o \in Operations,
         servers' = [servers EXCEPT ![s] = post(s, t, o)]
  PROVE  /\ servers' \in Seq(ServerType) /\ DOMAIN servers' = DOMAIN servers
         /\ \A r \in DOMAIN servers' : IsFiniteSet(servers'[r].connects)
         /\ \A r \in DOMAIN servers :
              /\ servers'[r].connects = servers[r].connects /\ servers'[r].done = servers[r].done
              /\ servers'[r].batch = servers[r].batch
              /\ \/ servers'[r].pc = servers[r].pc
                 \/ servers[r].pc = "sleep" /\ servers'[r].pc = "run"
         /\ Work(s)' = Append(Work(s), o)
         /\ \A r \in DOMAIN servers \ {s} : Work(r)' = Work(r)
<1>1. LET g == servers[s]
          p == post(s, t, o)
      IN  /\ p \in ServerType /\ IsFiniteSet(p.connects)
          /\ p.queue = Append(g.queue, o) /\ p.batch = g.batch
          /\ p.connects = g.connects /\ p.done = g.done
          /\ p.pc = g.pc \/ (g.pc = "sleep" /\ p.pc = "run")
  BY postEffect
<1>2. /\ servers' \in Seq(ServerType) /\ DOMAIN servers' = DOMAIN servers
      /\ \A r \in DOMAIN servers' : IsFiniteSet(servers'[r].connects)
      /\ servers'[s] = post(s, t, o)
      /\ \A r \in DOMAIN servers : r # s => servers'[r] = servers[r]
  BY <1>1, ServersType
<1>3. Work(s)' = Append(Work(s), o)
  <2>1. servers[s].batch \in Seq(Operations) /\ servers[s].queue \in Seq(Operations)
    BY ServerFields
  <2>2. servers'[s].batch = servers[s].batch /\ servers'[s].queue = Append(servers[s].queue, o)
    BY <1>1, <1>2
  <2>3. Work(s)' = servers[s].batch \o Append(servers[s].queue, o)
    BY <2>2 DEF Work
  <2>4. \A a, b \in Seq(Operations) : a \o Append(b, o) = Append(a \o b, o)
    BY ConcatAppend
  <2> QED
    BY <2>1, <2>3, <2>4 DEF Work
<1>4. \A r \in DOMAIN servers \ {s} : Work(r)' = Work(r)
  BY <1>2 DEF Work
<1> QED
  BY <1>1, <1>2, <1>3, <1>4

\* A post does not change which servers end, nor who holds a connect.
LEMMA PostKeeps ==
  ASSUME TypeOK, ServersEnd, Ownership, Posted,
         NEW s \in DOMAIN servers, NEW t \in Threads, NEW o \in Operations,
         servers' = [servers EXCEPT ![s] = post(s, t, o)],
         \A r : ShutDown(r) /\ r \in DOMAIN servers => ShutDown(r)',
         o.op = "done" => ShutDown(s)',
         \A c \in Clients : \A r, h : Holds(c, r, h)' => Holds(c, r, h),
         o.op = "disconnect" =>
           \E c \in Clients : Holds(c, s, o.id) /\ \A d \in Clients : ~Holds(d, s, o.id)',
         DOMAIN ops \subseteq DOMAIN ops',
         \A i \in DOMAIN ops : ops'[i] = ops[i],
         o.op = "connect" => /\ o.id \in DOMAIN ops'
                             /\ \E c \in Clients : /\ thread'[c].pc \in Waiting /\ thread'[c].at = s
                                                   /\ thread'[c].op = o.id,
         \A c \in Clients : thread[c].pc \in Waiting => thread'[c] = thread[c]
  PROVE  ServersEnd' /\ Ownership' /\ Posted'
<1>1. /\ DOMAIN servers' = DOMAIN servers
      /\ \A r \in DOMAIN servers :
           /\ servers'[r].connects = servers[r].connects /\ servers'[r].done = servers[r].done
           /\ servers'[r].batch = servers[r].batch
           /\ \/ servers'[r].pc = servers[r].pc
              \/ servers[r].pc = "sleep" /\ servers'[r].pc = "run"
      /\ Work(s)' = Append(Work(s), o)
      /\ \A r \in DOMAIN servers \ {s} : Work(r)' = Work(r)
  BY PostWork
<1>2. PICK k : /\ DOMAIN Append(Work(s), o) = DOMAIN Work(s) \cup {k} /\ k \notin DOMAIN Work(s)
               /\ Append(Work(s), o)[k] = o
               /\ \A i \in DOMAIN Work(s) : Append(Work(s), o)[i] = Work(s)[i]
  BY WorkType, AppendDomain
<1>3. ServersEnd'
  <2>1. ASSUME NEW r \in DOMAIN servers
        PROVE  /\ servers'[r].pc \notin {"send", "notify"} => servers'[r].batch = <<>>
               /\ servers'[r].pc = "notify"
                    => servers'[r].batch # <<>> /\ Head(servers'[r].batch).op = "connect"
               /\ servers'[r].pc \in {"ended", "gone"} => servers'[r].done
               /\ servers'[r].done /\ ~ShutDown(r)' => servers'[r].connects = {}
    BY <1>1 DEF ServersEnd
  <2>2. ASSUME NEW r \in DOMAIN servers \ {s}, NEW i \in DOMAIN Work(r), Work(r)[i].op = "done"
        PROVE  ShutDown(r)'
    BY <2>2 DEF ServersEnd
  <2>3. ASSUME NEW i \in DOMAIN Append(Work(s), o), Append(Work(s), o)[i].op = "done"
        PROVE  ShutDown(s)'
    BY <1>2, <2>3 DEF ServersEnd
  <2> QED
    BY <1>1, <2>1, <2>2, <2>3 DEF ServersEnd
<1>4. Ownership'
  <2>1. ASSUME NEW r \in DOMAIN servers PROVE Holders(r)'
    BY <1>1 DEF Ownership, Holders
  <2>2. ASSUME NEW r \in DOMAIN servers \ {s} PROVE Closing(r)'
    <3>1. Closing(r) /\ Work(r)' = Work(r) /\ servers'[r].connects = servers[r].connects
      BY <1>1 DEF Ownership
    <3> QED
      BY <3>1 DEF Closing
  <2>3. Closing(s)'
    <3> DEFINE W == Append(Work(s), o)
    <3>1. Closing(s) /\ Holders(s) /\ Work(s)' = W /\ servers'[s].connects = servers[s].connects
      BY <1>1 DEF Ownership
    <3>2. ASSUME NEW i \in DOMAIN Work(s), Work(s)[i].op = "disconnect"
          PROVE  /\ Work(s)[i].id \in servers[s].connects
                 /\ \A c \in Clients, h \in Nat : Holds(c, s, h)' => h # Work(s)[i].id
                 /\ \A j \in DOMAIN Work(s) \ {i} :
                      Work(s)[j].op = "disconnect" => Work(s)[j].id # Work(s)[i].id
      BY <3>1, <3>2 DEF Closing
    <3>3. ASSUME o.op = "disconnect"
          PROVE  /\ o.id \in servers[s].connects
                 /\ \A c \in Clients, h \in Nat : Holds(c, s, h)' => h # o.id
                 /\ \A i \in DOMAIN Work(s) : Work(s)[i].op = "disconnect" => Work(s)[i].id # o.id
      <4>1. PICK c \in Clients : Holds(c, s, o.id) /\ \A d \in Clients : ~Holds(d, s, o.id)'
        BY <3>3
      <4>2. o.id \in Nat
        BY DEF Operations
      <4> QED
        BY <3>1, <4>1, <4>2 DEF Closing, Holders
    <3> HIDE DEF W
    <3>4. /\ DOMAIN W = DOMAIN Work(s) \cup {k} /\ k \notin DOMAIN Work(s)
          /\ W[k] = o /\ \A i \in DOMAIN Work(s) : W[i] = Work(s)[i]
      BY <1>2 DEF W
    <3>5. ASSUME NEW i \in DOMAIN W, W[i].op = "disconnect"
          PROVE  /\ W[i].id \in servers[s].connects
                 /\ \A c \in Clients, h \in Nat : Holds(c, s, h)' => h # W[i].id
                 /\ \A j \in DOMAIN W \ {i} : W[j].op = "disconnect" => W[j].id # W[i].id
      <4>1. CASE i = k
        BY <3>3, <3>4, <3>5, <4>1
      <4>2. CASE i \in DOMAIN Work(s)
        BY <3>2, <3>3, <3>4, <3>5, <4>2
      <4> QED
        BY <3>4, <4>1, <4>2
    <3> QED
      BY <3>1, <3>5 DEF Closing
  <2> QED
    BY <1>1, <2>1, <2>2, <2>3 DEF Ownership
<1>5. Posted'
  <2>1. ASSUME NEW r \in DOMAIN servers, NEW i \in DOMAIN Work(r), Work(r)[i].op = "connect"
        PROVE  /\ Work(r)[i].id \in DOMAIN ops'
               /\ \/ ops'[Work(r)[i].id] = Forgotten
                  \/ \E c \in Clients : /\ thread'[c].pc \in Waiting /\ thread'[c].at = r
                                        /\ thread'[c].op = Work(r)[i].id
    BY <2>1 DEF Posted
  <2>2. ASSUME NEW i \in DOMAIN Append(Work(s), o), Append(Work(s), o)[i].op = "connect"
        PROVE  /\ Append(Work(s), o)[i].id \in DOMAIN ops'
               /\ \/ ops'[Append(Work(s), o)[i].id] = Forgotten
                  \/ \E c \in Clients : /\ thread'[c].pc \in Waiting /\ thread'[c].at = s
                                        /\ thread'[c].op = Append(Work(s), o)[i].id
    BY <1>2, <2>1, <2>2
  <2> QED
    BY <1>1, <2>1, <2>2 DEF Posted
<1> QED
  BY <1>3, <1>4, <1>5

LEMMA PostConnectInv ==
  ASSUME IInv, NEW c \in Clients, PostConnect(c)
  PROVE  IInv'
<1> USE DEF IInv
<1>0. PICK k \in Nat : k = Len(ops) + 1
  BY DEF TypeOK
<1>1. PICK s \in DOMAIN servers : s = thread[c].at
  BY DEF PostConnect, Places
<1> DEFINE o == [op |-> "connect", id |-> k]
           n == [thread[c] EXCEPT !.pc = "enter", !.op = k]
           fresh == [handle |-> 0, done |-> FALSE]
<1>2. /\ thread' = [thread EXCEPT ![c] = n] /\ thread[c].pc = "post"
      /\ servers' = [servers EXCEPT ![s] = post(s, c, o)] /\ ops' = Append(ops, fresh)
      /\ UNCHANGED <<kind, mutex, entry, late, expired>>
  BY <1>0, <1>1, Disjoint DEF PostConnect, TypeOK
<1>3. n \in ThreadType /\ n.at = s /\ n.pc = "enter" /\ n.op = k
  <2>1. thread[c] \in ThreadType
    BY ThreadFields, Disjoint
  <2> QED
    BY <1>0, <1>1, <2>1 DEF ThreadType, Busy, Waiting
<1>4. o \in Operations /\ o.op = "connect" /\ o.id = k
  BY <1>0 DEF Operations
<1> HIDE DEF n, o
<1>5. /\ thread' \in [Threads -> ThreadType]
      /\ thread'[c] = n /\ thread'[Finalizer] = thread[Finalizer]
      /\ \A d \in Clients \ {c} : thread'[d] = thread[d]
  BY <1>2, <1>3, ClientChange
<1>6. \A d \in Clients \ {c} : thread[d].pc \in {"out", "in"}
  BY <1>2, OnlyOne DEF Busy
<1>7. /\ ops' \in Seq(Results) /\ DOMAIN ops' = DOMAIN ops \cup {k} /\ ops'[k] = fresh
      /\ \A i \in DOMAIN ops : ops'[i] = ops[i]
  <2>1. fresh \in Results /\ ops \in Seq(Results)
    BY DEF Results, TypeOK
  <2> QED
    BY <1>0, <1>2, <2>1, AppendDomain
<1>8. /\ servers' \in Seq(ServerType) /\ DOMAIN servers' = DOMAIN servers
      /\ \A r \in DOMAIN servers' : IsFiniteSet(servers'[r].connects)
      /\ \A r \in DOMAIN servers : servers'[r].done = servers[r].done
  BY <1>2, <1>4, PostWork, Disjoint
<1>9. TypeOK'
  BY <1>2, <1>5, <1>7, <1>8 DEF TypeOK
<1>10. Places' /\ Finalized'
  BY <1>1, <1>2, <1>3, <1>5, <1>6, <1>7, <1>8, Disjoint DEF Places, Finalized, Busy, Waiting
<1>11. \A d \in Clients : \A r, h : Holds(d, r, h)' => Holds(d, r, h)
  <2>1. \A r, h : ~Holds(c, r, h)'
    BY <1>3, <1>5, <1>7 DEF Holds
  <2> QED
    BY <1>5, <1>6, <2>1, SameHolds DEF Waiting
<1>12. ServersEnd' /\ Ownership' /\ Posted'
  <2>1. \A r : ShutDown(r) => ShutDown(r)'
    BY <1>5 DEF ShutDown
  <2>2. k \in DOMAIN ops' /\ thread'[c].pc \in Waiting /\ thread'[c].at = s /\ thread'[c].op = k
    BY <1>3, <1>5, <1>7 DEF Waiting
  <2>3. \A d \in Clients : thread[d].pc \notin Waiting
    BY <1>2, <1>6 DEF Waiting
  <2>4. c \in Threads /\ o.op # "done" /\ o.op # "disconnect"
    BY <1>4, Disjoint
  <2>5. /\ o.id \in DOMAIN ops'
        /\ \E d \in Clients : /\ thread'[d].pc \in Waiting /\ thread'[d].at = s
                              /\ thread'[d].op = o.id
    BY <1>4, <2>2
  <2>6. DOMAIN ops \subseteq DOMAIN ops' /\ \A i \in DOMAIN ops : ops'[i] = ops[i]
    BY <1>7
  <2> QED
    BY <1>2, <1>4, <1>11, <2>1, <2>3, <2>4, <2>5, <2>6, PostKeeps
<1>13. Refused'
  BY <1>2, <1>3, <1>5, <1>6, <1>7 DEF Refused, Waiting
<1>14. Registered'
  BY <1>2, <1>3, <1>5 DEF Registered, ShutDown
<1> QED
  BY <1>9, <1>10, <1>12, <1>13, <1>14

LEMMA CloseInv ==
  ASSUME IInv, NEW c \in Clients, Close(c)
  PROVE  IInv'
<1> USE DEF IInv
<1>0. PICK h \in Nat : h = thread[c].handle
  BY ThreadFields, Disjoint
<1>1. PICK s \in DOMAIN servers : s = thread[c].at
  BY DEF Close, Places
<1> DEFINE o == [op |-> "disconnect", id |-> h]
           n == [thread[c] EXCEPT !.pc = "out", !.handle = 0, !.at = 0]
<1>2. /\ thread' = [thread EXCEPT ![c] = n] /\ thread[c].pc = "in"
      /\ servers' = [servers EXCEPT ![s] = post(s, c, o)]
      /\ UNCHANGED <<kind, mutex, entry, ops, late, expired>>
  BY <1>0, <1>1, Disjoint DEF Close, TypeOK
<1>3. n \in ThreadType /\ n.at = 0 /\ n.pc = "out"
  <2>1. thread[c] \in ThreadType
    BY ThreadFields, Disjoint
  <2> QED
    BY <2>1 DEF ThreadType
<1>4. o \in Operations /\ o.op = "disconnect" /\ o.id = h
  BY <1>0 DEF Operations
<1> HIDE DEF n, o
<1>5. /\ thread' \in [Threads -> ThreadType]
      /\ thread'[c] = n /\ thread'[Finalizer] = thread[Finalizer]
      /\ \A d \in Clients \ {c} : thread'[d] = thread[d]
  BY <1>2, <1>3, ClientChange
<1>6. /\ servers' \in Seq(ServerType) /\ DOMAIN servers' = DOMAIN servers
      /\ \A r \in DOMAIN servers' : IsFiniteSet(servers'[r].connects)
      /\ \A r \in DOMAIN servers : servers'[r].done = servers[r].done
  BY <1>2, <1>4, PostWork, Disjoint
<1>7. TypeOK'
  BY <1>2, <1>5, <1>6 DEF TypeOK
<1>8. Places' /\ Finalized'
  BY <1>2, <1>3, <1>5, <1>6, Disjoint DEF Places, Finalized, Busy, Waiting
<1>9. \A d \in Clients : \A r, g : Holds(d, r, g)' => Holds(d, r, g) /\ d # c
  <2>1. \A r, g : ~Holds(c, r, g)'
    BY <1>3, <1>5 DEF Holds, Waiting
  <2>2. \A d \in Clients \ {c} : \A r, g : Holds(d, r, g)' => Holds(d, r, g)
    BY <1>2, <1>5 DEF Holds
  <2> QED
    BY <2>1, <2>2
<1>10. Holds(c, s, h) /\ \A d \in Clients : ~Holds(d, s, h)'
  <2>1. Holds(c, s, h)
    BY <1>0, <1>1, <1>2 DEF Holds, Places
  <2> QED
    BY <1>0, <1>9, <2>1 DEF Ownership, Holders
<1>11. ServersEnd' /\ Ownership' /\ Posted'
  <2>1. \A r : ShutDown(r) => ShutDown(r)'
    BY <1>5 DEF ShutDown
  <2>2. \A d \in Clients : thread[d].pc \in Waiting => thread'[d] = thread[d]
    BY <1>2, <1>5 DEF Waiting
  <2>3. c \in Threads /\ o.op # "done" /\ o.op # "connect"
    BY <1>4, Disjoint
  <2> QED
    BY <1>2, <1>4, <1>9, <1>10, <2>1, <2>2, <2>3, PostKeeps
<1>12. Refused'
  BY <1>2, <1>3, <1>5, <1>6 DEF Refused, Waiting
<1>13. Registered'
  BY <1>2, <1>3, <1>5 DEF Registered, ShutDown
<1> QED
  BY <1>7, <1>8, <1>11, <1>12, <1>13

LEMMA ShutdownInv ==
  ASSUME IInv, Shutdown
  PROVE  IInv'
<1> USE DEF IInv
<1>1. PICK s \in DOMAIN servers : s = entry
  BY DEF Shutdown, TypeOK
<1> DEFINE o == [op |-> "done", id |-> 0]
           n == [thread[Finalizer] EXCEPT !.pc = "join", !.at = s]
<1>2. /\ thread' = [thread EXCEPT ![Finalizer] = n] /\ thread[Finalizer].pc = "out"
      /\ servers' = [servers EXCEPT ![s] = post(s, Finalizer, o)] /\ entry' = 0 /\ mutex = Nobody
      /\ UNCHANGED <<kind, mutex, ops, late, expired>>
  BY <1>1, Disjoint DEF Shutdown, TypeOK
<1>3. n \in ThreadType /\ n.at = s /\ n.pc = "join" /\ s # 0
  <2>1. thread[Finalizer] \in ThreadType /\ s \in Nat \ {0}
    BY ThreadFields, ServerFields, Disjoint
  <2> QED
    BY <2>1 DEF ThreadType
<1>4. o \in Operations /\ o.op = "done"
  BY DEF Operations
<1> HIDE DEF n, o
<1>5. /\ thread' \in [Threads -> ThreadType] /\ thread'[Finalizer] = n
      /\ \A d \in Clients : thread'[d] = thread[d]
  BY <1>2, <1>3, Disjoint DEF TypeOK
<1>6. /\ servers' \in Seq(ServerType) /\ DOMAIN servers' = DOMAIN servers
      /\ \A r \in DOMAIN servers' : IsFiniteSet(servers'[r].connects)
      /\ \A r \in DOMAIN servers : servers'[r].done = servers[r].done
  BY <1>2, <1>4, PostWork, Disjoint
<1>7. \A d \in Clients : thread[d].pc \notin Busy
  BY <1>2, Disjoint DEF Places
<1>8. TypeOK'
  BY <1>2, <1>5, <1>6 DEF TypeOK
<1>9. Places' /\ Finalized'
  BY <1>2, <1>3, <1>5, <1>6, <1>7, Disjoint DEF Places, Finalized
<1>10. ServersEnd' /\ Ownership' /\ Posted'
  <2>1. \A r \in DOMAIN servers : ~ShutDown(r)
    BY <1>2, ServerFields DEF ShutDown, Finalized
  <2>2. ShutDown(s)'
    BY <1>3, <1>5 DEF ShutDown
  <2>3. \A d \in Clients : thread[d].pc \notin Waiting
    BY <1>7 DEF Busy
  <2>4. \A d \in Clients : \A r, h : Holds(d, r, h)' => Holds(d, r, h)
    BY <1>5, <2>3, SameHolds
  <2>5. Finalizer \in Threads /\ o.op # "connect" /\ o.op # "disconnect"
    BY <1>4, Disjoint
  <2> QED
    BY <1>2, <1>4, <2>1, <2>2, <2>3, <2>4, <2>5, PostKeeps
<1>11. Refused'
  BY <1>2, <1>5, <1>6 DEF Refused
<1>12. Registered'
  <2>1. \A d \in Clients : thread[d].pc = "in" => thread[d].at \in DOMAIN servers
    BY DEF Places
  <2>2. \A r \in DOMAIN servers : ~ShutDown(r)
    BY <1>2, ServerFields DEF ShutDown, Finalized
  <2>3. late \/ \A d \in Clients : thread[d].pc = "in" => thread[d].at = s
    BY <1>1, <2>1, <2>2 DEF Registered
  <2> QED
    BY <1>2, <1>3, <1>5, <2>3 DEF Registered, ShutDown
<1> QED
  BY <1>8, <1>9, <1>10, <1>11, <1>12

-----------------------------------------------------------------------------
(* The steps of a server thread *)

LEMMA TailWork ==
  ASSUME NEW S, NEW a \in Seq(S), NEW b \in Seq(S), a # <<>>
  PROVE  /\ 1 \in DOMAIN (a \o b) /\ (a \o b)[1] = Head(a)
         /\ Tail(a) \in Seq(S) /\ Head(a) \in S
         /\ \A i \in DOMAIN (Tail(a) \o b) :
              /\ i + 1 \in DOMAIN (a \o b) /\ i + 1 # 1 /\ i \in Nat
              /\ (Tail(a) \o b)[i] = (a \o b)[i + 1]
<1>1. Tail(a) \in Seq(S) /\ Head(a) \in S /\ Len(Tail(a)) = Len(a) - 1 /\ Len(a) \in Nat \ {0}
      /\ Len(b) \in Nat /\ Head(a) = a[1]
  OBVIOUS
<1>2. \A i \in 1 .. Len(a) - 1 : Tail(a)[i] = a[i + 1]
  OBVIOUS
<1>3. /\ a \o b \in Seq(S) /\ Len(a \o b) = Len(a) + Len(b)
      /\ \A i \in 1 .. Len(a) + Len(b) :
           (a \o b)[i] = IF i <= Len(a) THEN a[i] ELSE b[i - Len(a)]
  BY ConcatProperties
<1> DEFINE t == Tail(a)
<1> HIDE DEF t
<1>4. /\ t \in Seq(S) /\ Len(t) = Len(a) - 1 /\ \A i \in 1 .. Len(a) - 1 : t[i] = a[i + 1]
  BY <1>1, <1>2 DEF t
<1>5. /\ t \o b \in Seq(S) /\ Len(t \o b) = Len(t) + Len(b)
      /\ \A i \in 1 .. Len(t) + Len(b) :
           (t \o b)[i] = IF i <= Len(t) THEN t[i] ELSE b[i - Len(t)]
  BY <1>4, ConcatProperties
<1>6. DOMAIN (a \o b) = 1 .. Len(a) + Len(b) /\ DOMAIN (t \o b) = 1 .. Len(a) - 1 + Len(b)
  BY <1>3, <1>4, <1>5
<1>7. ASSUME NEW i \in DOMAIN (t \o b)
      PROVE  /\ i + 1 \in DOMAIN (a \o b) /\ i + 1 # 1 /\ i \in Nat
             /\ (t \o b)[i] = (a \o b)[i + 1]
  <2>1. i \in 1 .. Len(a) - 1 + Len(b) /\ i + 1 \in 1 .. Len(a) + Len(b)
    BY <1>1, <1>6
  <2>2. CASE i <= Len(a) - 1
    BY <1>1, <1>3, <1>4, <1>5, <1>6, <2>1, <2>2
  <2>3. CASE ~(i <= Len(a) - 1)
    BY <1>1, <1>3, <1>4, <1>5, <1>6, <2>1, <2>3
  <2> QED
    BY <2>2, <2>3
<1>8. 1 \in DOMAIN (a \o b) /\ (a \o b)[1] = Head(a)
  BY <1>1, <1>3, <1>6
<1> QED
  BY <1>1, <1>7, <1>8 DEF t

\* A step that takes nothing from what the server has to do
LEMMA InnerStep ==
  ASSUME IInv, NEW s \in DOMAIN servers, NEW g \in ServerType,
         servers' = [servers EXCEPT ![s] = g],
         g.connects = servers[s].connects, g.done = servers[s].done,
         g.batch \o g.queue = Work(s),
         g.pc \notin {"send", "notify"} => g.batch = <<>>,
         g.pc = "notify" => g.batch # <<>> /\ Head(g.batch).op = "connect",
         g.pc \in {"ended", "gone"} => g.done,
         UNCHANGED <<kind, mutex, thread, ops, late, expired>>,
         entry' = entry \/ (entry' = 0 /\ mutex = Nobody /\ g.done /\ entry = s)
  PROVE  IInv'
<1> USE DEF IInv
<1>1. /\ servers' \in Seq(ServerType) /\ DOMAIN servers' = DOMAIN servers
      /\ \A r \in DOMAIN servers' : IsFiniteSet(servers'[r].connects)
      /\ servers'[s] = g /\ \A r \in DOMAIN servers : r # s => servers'[r] = servers[r]
  BY ServersType, ServerFields
<1>2. \A r \in DOMAIN servers : /\ servers'[r].connects = servers[r].connects
                                /\ servers'[r].done = servers[r].done /\ Work(r)' = Work(r)
  BY <1>1 DEF Work
<1>3. TypeOK'
  BY <1>1 DEF TypeOK
<1>4. Places' /\ Finalized'
  BY <1>1, Disjoint DEF Places, Finalized
<1>5. ServersEnd'
  BY <1>1, <1>2 DEF ServersEnd, ShutDown
<1>6. Ownership' /\ Posted'
  <2>1. \A c \in Clients : \A r, h : Holds(c, r, h)' => Holds(c, r, h)
    BY DEF Holds
  <2>2. Ownership'
    BY <1>1, <1>2, <2>1, SameOwnership
  <2>3. Posted'
    BY <1>1, <1>2, SamePosted
  <2> QED
    BY <2>2, <2>3
<1>7. Refused'
  BY <1>1, <1>2 DEF Refused
<1>8. Registered'
  <2>1. CASE entry' = entry
    BY <2>1 DEF Registered, ShutDown
  <2>2. CASE g.done /\ entry = s
    <3> SUFFICES ASSUME ~late, NEW c \in Clients, thread[c].pc = "in", ~ShutDown(thread[c].at)
                 PROVE  FALSE
      BY DEF Registered, ShutDown
    <3>1. thread[c].at = s
      BY <2>2 DEF Registered
    <3>2. Holds(c, s, thread[c].handle) /\ thread[c].handle \in Nat
      BY <3>1, ThreadFields, Disjoint DEF Places, Holds
    <3>3. thread[c].handle \in servers[s].connects
      BY <3>2 DEF Ownership, Holders
    <3> QED
      BY <2>2, <3>1, <3>3 DEF ServersEnd
  <2> QED
    BY <2>1, <2>2
<1> QED
  BY <1>3, <1>4, <1>5, <1>6, <1>7, <1>8

LEMMA InnerStepInv ==
  ASSUME IInv, NEW s \in DOMAIN servers,
         \/ /\ servers' = [servers EXCEPT ![s].pipe = TRUE, ![s].lock = Nobody]
            /\ UNCHANGED <<kind, mutex, entry, thread, ops, late, expired>>
         \/ ExecLoop(s) \/ DrainPipe(s) \/ ClearWoken(s) \/ Erase(s)
  PROVE  IInv'
<1> USE DEF IInv
<1> DEFINE g == servers[s]
<1>1. /\ g \in ServerType /\ g.queue \in Seq(Operations) /\ g.batch \in Seq(Operations)
      /\ Work(s) = g.batch \o g.queue /\ servers \in Seq(ServerType)
  BY ServerFields DEF Work, TypeOK
<1>2. /\ g.pc \notin {"send", "notify"} => g.batch = <<>>
      /\ g.pc = "notify" => g.batch # <<>> /\ Head(g.batch).op = "connect"
      /\ g.pc \in {"ended", "gone"} => g.done
  BY DEF ServersEnd
<1>3. CASE ExecLoop(s)
  <2>1. g.batch = <<>> /\ Work(s) = g.queue /\ g.queue \o <<>> = g.queue
    BY <1>1, <1>2, <1>3, ConcatEmptySeq DEF ExecLoop
  <2>2. CASE g.done
    <3> DEFINE n == [g EXCEPT !.pc = "ended"]
    <3>1. n \in ServerType /\ n.queue = g.queue /\ n.batch = g.batch /\ n.pc = "ended"
          /\ n.connects = g.connects /\ n.done = g.done
      BY <1>1 DEF ServerType
    <3>2. servers' = [servers EXCEPT ![s] = n]
          /\ UNCHANGED <<kind, mutex, thread, ops, late, expired, entry>>
      BY <1>3, <2>2 DEF ExecLoop
    <3> HIDE DEF n
    <3> QED
      BY <1>1, <2>1, <2>2, <3>1, <3>2, InnerStep
  <2>3. CASE ~g.done /\ g.queue = <<>>
    <3> DEFINE x == IF kind = "thread" THEN "sleep" ELSE "poll"
               n == [g EXCEPT !.pc = x]
    <3>1. servers' = [servers EXCEPT ![s] = n]
          /\ UNCHANGED <<kind, mutex, thread, ops, late, expired, entry>>
      BY <1>3, <2>3 DEF ExecLoop
    <3>2. x \in {"sleep", "poll"}
      OBVIOUS
    <3> HIDE DEF x
    <3>3. n \in ServerType /\ n.queue = g.queue /\ n.batch = g.batch /\ n.pc = x
          /\ n.connects = g.connects /\ n.done = g.done
      BY <1>1, <3>2 DEF ServerType
    <3> HIDE DEF n
    <3> QED
      BY <1>1, <2>1, <3>1, <3>2, <3>3, InnerStep
  <2>4. CASE ~g.done /\ g.queue # <<>>
    <3>0. PICK e \in Seq(Operations) : e = <<>>
      <4>1. <<>> \in Seq(Operations)
        OBVIOUS
      <4> QED
        BY <4>1, Zenon
    <3> DEFINE q == g.queue
               n == [g EXCEPT !.pc = "send", !.batch = q, !.queue = e]
    <3>1. n \in ServerType /\ n.queue = <<>> /\ n.batch = g.queue /\ n.pc = "send"
          /\ n.connects = g.connects /\ n.done = g.done
      <4>1. q \in Seq(Operations)
        BY <1>1
      <4> HIDE DEF q
      <4>2. n \in ServerType /\ n.queue = e /\ n.batch = q /\ n.pc = "send"
            /\ n.connects = g.connects /\ n.done = g.done
        BY <1>1, <4>1 DEF ServerType
      <4> QED
        BY <3>0, <4>2 DEF q
    <3>2. servers' = [servers EXCEPT ![s] = n]
          /\ UNCHANGED <<kind, mutex, thread, ops, late, expired, entry>>
      BY <1>3, <2>4, <3>0 DEF ExecLoop
    <3> HIDE DEF n
    <3> QED
      BY <1>1, <2>1, <3>1, <3>2, InnerStep
  <2> QED
    BY <2>2, <2>3, <2>4
<1>4. CASE Erase(s)
  <2> DEFINE n == [g EXCEPT !.pc = "gone"]
  <2>1. n \in ServerType /\ n.queue = g.queue /\ n.batch = g.batch /\ n.pc = "gone"
        /\ n.connects = g.connects /\ n.done = g.done
    BY <1>1 DEF ServerType
  <2>2. /\ servers' = [servers EXCEPT ![s] = n] /\ g.pc = "ended" /\ mutex = Nobody
        /\ entry' = IF entry = s THEN 0 ELSE entry
        /\ UNCHANGED <<kind, mutex, thread, ops, late, expired>>
    BY <1>1, <1>4 DEF Erase
  <2> HIDE DEF n
  <2> QED
    BY <1>1, <1>2, <2>1, <2>2, InnerStep
<1>5. CASE \/ DrainPipe(s) \/ ClearWoken(s)
           \/ /\ servers' = [servers EXCEPT ![s].pipe = TRUE, ![s].lock = Nobody]
              /\ UNCHANGED <<kind, mutex, entry, thread, ops, late, expired>>
  <2>1. PICK n : /\ n \in ServerType /\ n.queue = g.queue /\ n.batch = g.batch
                 /\ n.connects = g.connects /\ n.done = g.done
                 /\ n.pc = g.pc \/ (g.batch = <<>> /\ n.pc \in {"drained", "run"})
                 /\ servers' = [servers EXCEPT ![s] = n]
                 /\ UNCHANGED <<kind, mutex, thread, ops, late, expired, entry>>
    <3>1. CASE DrainPipe(s)
      <4> DEFINE n == [g EXCEPT !.pc = "drained", !.pipe = FALSE]
      <4>1. n \in ServerType /\ n.queue = g.queue /\ n.batch = g.batch /\ n.pc = "drained"
            /\ n.connects = g.connects /\ n.done = g.done
        BY <1>1 DEF ServerType
      <4>2. servers' = [servers EXCEPT ![s] = n] /\ g.batch = <<>>
        BY <1>1, <1>2, <3>1 DEF DrainPipe
      <4> HIDE DEF n
      <4> QED
        BY <3>1, <4>1, <4>2 DEF DrainPipe
    <3>2. CASE ClearWoken(s)
      <4> DEFINE n == [g EXCEPT !.pc = "run", !.woken = FALSE]
      <4>1. n \in ServerType /\ n.queue = g.queue /\ n.batch = g.batch /\ n.pc = "run"
            /\ n.connects = g.connects /\ n.done = g.done
        BY <1>1 DEF ServerType
      <4>2. servers' = [servers EXCEPT ![s] = n] /\ g.batch = <<>>
        BY <1>1, <1>2, <3>2 DEF ClearWoken
      <4> HIDE DEF n
      <4> QED
        BY <3>2, <4>1, <4>2 DEF ClearWoken
    <3>3. CASE /\ servers' = [servers EXCEPT ![s].pipe = TRUE, ![s].lock = Nobody]
               /\ UNCHANGED <<kind, mutex, entry, thread, ops, late, expired>>
      <4> DEFINE n == [g EXCEPT !.pipe = TRUE, !.lock = Nobody]
      <4>1. n \in ServerType /\ n.queue = g.queue /\ n.batch = g.batch /\ n.pc = g.pc
            /\ n.connects = g.connects /\ n.done = g.done
        BY <1>1 DEF ServerType
      <4>2. servers' = [servers EXCEPT ![s] = n]
        BY <1>1, <3>3
      <4> HIDE DEF n
      <4> QED
        BY <3>3, <4>1, <4>2
    <3> QED
      BY <1>5, <3>1, <3>2, <3>3
  <2> QED
    BY <1>1, <1>2, <2>1, InnerStep
<1> QED
  BY <1>3, <1>4, <1>5

\* The handle that HandleAllocator gives is not 0 and not in use.
LEMMA FreshHandle ==
  ASSUME NEW S \in SUBSET (Nat \ {0}), IsFiniteSet(S)
  PROVE  LET h == Min(1..(Cardinality(S) + 1) \ S)
         IN  h \in Nat \ {0} /\ h \notin S
<1>1. PICK k \in Nat : k = Cardinality(S)
  BY FS_CardinalityType
<1>2. IsFiniteSet(1 .. k + 1) /\ Cardinality(1 .. k + 1) = k + 1
  BY FS_Interval
<1> DEFINE F == 1 .. k + 1 \ S
<1>3. F # {}
  <2> SUFFICES ASSUME 1 .. k + 1 \subseteq S PROVE FALSE
    OBVIOUS
  <2>1. Cardinality(1 .. k + 1) <= k
    BY <1>1, FS_Subset
  <2> QED
    BY <1>1, <1>2, <2>1
<1>4. F \in SUBSET Nat
  OBVIOUS
<1>5. Min(F) \in F
  <2> HIDE DEF F
  <2> QED
    BY <1>3, <1>4, MinNat
<1> QED
  BY <1>1, <1>5

\* The head of the batch is the first thing that the server has to do.
LEMMA HeadIsFirst ==
  ASSUME TypeOK, NEW s \in DOMAIN servers, servers[s].batch # <<>>
  PROVE  /\ 1 \in DOMAIN Work(s) /\ Work(s)[1] = Head(servers[s].batch)
         /\ Head(servers[s].batch) \in Operations /\ Tail(servers[s].batch) \in Seq(Operations)
         /\ \A i \in DOMAIN (Tail(servers[s].batch) \o servers[s].queue) :
              /\ i + 1 \in DOMAIN Work(s) /\ i + 1 # 1 /\ i \in Nat
              /\ (Tail(servers[s].batch) \o servers[s].queue)[i] = Work(s)[i + 1]
<1>1. \A a, b \in Seq(Operations) : a # <<>> =>
         /\ 1 \in DOMAIN (a \o b) /\ (a \o b)[1] = Head(a)
         /\ Tail(a) \in Seq(Operations) /\ Head(a) \in Operations
         /\ \A i \in DOMAIN (Tail(a) \o b) :
              /\ i + 1 \in DOMAIN (a \o b) /\ i + 1 # 1 /\ i \in Nat
              /\ (Tail(a) \o b)[i] = (a \o b)[i + 1]
  BY TailWork
<1>2. servers[s].queue \in Seq(Operations) /\ servers[s].batch \in Seq(Operations)
  BY ServerFields
<1> QED
  BY <1>1, <1>2, Zenon DEF Work

\* The result of a connect: a handle that nobody holds goes to the client that waits for it.
LEMMA SendConnectInv ==
  ASSUME IInv, Answered, NEW s \in DOMAIN servers, SendConnect(s)
  PROVE  IInv' /\ Answered'
<1> USE DEF IInv
<1> DEFINE g == servers[s]
           o == Head(g.batch)
<1>1. /\ g \in ServerType /\ g.connects \subseteq Nat \ {0} /\ IsFiniteSet(g.connects)
      /\ g.pc = "send" /\ g.batch # <<>> /\ o.op = "connect" /\ g.done \in BOOLEAN
      /\ g.queue \in Seq(Operations) /\ g.batch \in Seq(Operations)
  BY ServerFields DEF SendConnect
<1>2. PICK h \in Nat : /\ h = IF g.done THEN 0 ELSE Min(1..(Cardinality(g.connects) + 1) \ g.connects)
                       /\ h \notin g.connects /\ (h = 0 <=> g.done)
  BY <1>1, FreshHandle
<1>3. 1 \in DOMAIN Work(s) /\ Work(s)[1] = o /\ o \in Operations
  BY <1>1, HeadIsFirst
<1>4. PICK k \in DOMAIN ops : k = o.id
  BY <1>1, <1>3 DEF Posted
<1>5. PICK new : new = IF ops[k] = Forgotten THEN ops[k] ELSE [ops[k] EXCEPT !.handle = h]
  OBVIOUS
<1>6. PICK C : C = g.connects \cup ({h} \ {0})
  OBVIOUS
<1> DEFINE n == [g EXCEPT !.pc = "notify", !.connects = C]
<1>7. /\ servers' = [servers EXCEPT ![s] = n] /\ ops' = [ops EXCEPT ![k] = new]
      /\ UNCHANGED <<kind, mutex, entry, thread, late, expired>>
  BY <1>2, <1>4, <1>5, <1>6 DEF SendConnect, TypeOK
<1>8. /\ n \in ServerType /\ n.pc = "notify" /\ n.connects = C /\ n.done = g.done
      /\ n.batch = g.batch /\ n.queue = g.queue /\ IsFiniteSet(C)
  <2>1. C \in SUBSET (Nat \ {0}) /\ IsFiniteSet(C)
    <3>1. CASE h = 0
      BY <1>1, <1>2, <1>6, <3>1
    <3>2. CASE h # 0
      <4>1. C = g.connects \cup {h}
        BY <1>6, <3>2
      <4> QED
        BY <1>1, <3>2, <4>1, FS_AddElement
    <3> QED
      BY <3>1, <3>2
  <2> QED
    BY <1>1, <2>1 DEF ServerType
<1> HIDE DEF n
<1>9. /\ servers' \in Seq(ServerType) /\ DOMAIN servers' = DOMAIN servers
      /\ \A r \in DOMAIN servers' : IsFiniteSet(servers'[r].connects)
      /\ servers'[s] = n /\ \A r \in DOMAIN servers : r # s => servers'[r] = servers[r]
  BY <1>7, <1>8, ServersType
<1>10. /\ ops' \in Seq(Results) /\ DOMAIN ops' = DOMAIN ops /\ ops'[k] = new
       /\ \A i \in DOMAIN ops : i # k => ops'[i] = ops[i]
  <2>1. ops \in Seq(Results) /\ ops[k] \in Results
    BY DEF TypeOK
  <2>2. new \in Results
    BY <1>2, <1>5, <2>1 DEF Results
  <2> QED
    BY <1>7, <2>1, <2>2
<1>11. \/ new = ops[k] /\ ops[k] = Forgotten
       \/ (new.handle = h /\ new.done = ops[k].done /\ ops[k] # Forgotten)
  <2>1. ops[k] \in Results
    BY DEF TypeOK
  <2> QED
    BY <1>5, <2>1 DEF Results
<1>12. TypeOK'
  BY <1>7, <1>9, <1>10 DEF TypeOK
<1>13. Places' /\ Finalized'
  BY <1>7, <1>9, <1>10 DEF Places, Finalized
<1>14. \A r \in DOMAIN servers : /\ Work(r)' = Work(r) /\ servers'[r].done = servers[r].done
                                 /\ servers[r].connects \subseteq servers'[r].connects
                                 /\ servers'[r].connects \subseteq servers[r].connects \cup {h}
                                 /\ servers[r].done => servers'[r].connects = servers[r].connects
  BY <1>1, <1>2, <1>6, <1>8, <1>9 DEF Work
<1>15. ServersEnd'
  BY <1>1, <1>7, <1>8, <1>9, <1>14 DEF ServersEnd, ShutDown
<1>16. Posted'
  BY <1>7, <1>9, <1>10, <1>11, <1>14, SamePosted
<1>17. \A d \in Clients : \A r \in DOMAIN servers, x \in Nat : Holds(d, r, x)' =>
          Holds(d, r, x) \/ (thread[d].pc \in Waiting /\ r = s /\ x = h /\ h # 0)
  <2> SUFFICES ASSUME NEW d \in Clients, NEW r \in DOMAIN servers, NEW x \in Nat, Holds(d, r, x)'
               PROVE  Holds(d, r, x) \/ (thread[d].pc \in Waiting /\ r = s /\ x = h /\ h # 0)
    OBVIOUS
  <2>1. CASE ~(thread[d].pc \in Waiting /\ thread[d].op = k) \/ new = ops[k]
    BY <1>7, <1>10, <2>1 DEF Holds, Places
  <2>2. CASE thread[d].pc \in Waiting /\ thread[d].op = k /\ new # ops[k]
    <3>1. PICK c \in Clients : thread[c].pc \in Waiting /\ thread[c].at = s /\ thread[c].op = k
      BY <1>1, <1>3, <1>4, <1>11, <2>2 DEF Posted
    <3>2. c = d
      BY <2>2, <3>1, OnlyOne DEF Busy, Waiting
    <3> QED
      BY <1>7, <1>10, <1>11, <2>2, <3>1, <3>2 DEF Holds, Waiting
  <2> QED
    BY <2>1, <2>2
<1>18. Ownership'
  <2> SUFFICES ASSUME NEW r \in DOMAIN servers PROVE Holders(r)' /\ Closing(r)'
    BY <1>9 DEF Ownership
  <2>1. Holders(r) /\ Closing(r)
    BY DEF Ownership
  <2>2. r = s => h \notin servers[r].connects /\ (h # 0 => h \in servers'[r].connects)
    BY <1>2, <1>6, <1>8, <1>9
  <2>3. \A c, d \in Clients : thread[c].pc \in Waiting /\ thread[d].pc \in Waiting => c = d
    BY OnlyOne DEF Busy, Waiting
  <2>4. Holders(r)'
    <3> SUFFICES ASSUME NEW c \in Clients, NEW x \in Nat, Holds(c, r, x)'
                 PROVE  x \in servers'[r].connects /\ \A d \in Clients \ {c} : ~Holds(d, r, x)'
      BY DEF Holders
    <3> QED
      BY <1>14, <1>17, <2>1, <2>2, <2>3 DEF Holders
  <2>5. Closing(r)'
    <3> SUFFICES ASSUME NEW i \in DOMAIN Work(r), Work(r)[i].op = "disconnect"
                 PROVE  /\ Work(r)[i].id \in servers'[r].connects
                        /\ \A c \in Clients, x \in Nat : Holds(c, r, x)' => x # Work(r)[i].id
                        /\ \A j \in DOMAIN Work(r) \ {i} :
                             Work(r)[j].op = "disconnect" => Work(r)[j].id # Work(r)[i].id
      BY <1>14 DEF Closing
    <3> QED
      BY <1>14, <1>17, <2>1, <2>2 DEF Closing
  <2> QED
    BY <2>4, <2>5
<1>19. Refused'
  <2> SUFFICES ASSUME NEW c \in Clients,
                      \/ /\ thread[c].pc \in Waiting /\ ops'[thread[c].op].handle = 0
                         /\ thread[c].pc = "read" \/ ops'[thread[c].op].done
                      \/ thread[c].pc = "create" /\ thread[c].at # 0
               PROVE  late \/ (thread[c].at \in DOMAIN servers /\ servers[thread[c].at].done)
    BY <1>7, <1>9, <1>14 DEF Refused
  <2>1. CASE ~(thread[c].pc \in Waiting /\ thread[c].op = k) \/ new = ops[k]
    BY <1>10, <2>1 DEF Refused, Places
  <2>2. CASE thread[c].pc \in Waiting /\ thread[c].op = k /\ new # ops[k]
    <3>1. PICK d \in Clients : thread[d].pc \in Waiting /\ thread[d].at = s /\ thread[d].op = k
      BY <1>1, <1>3, <1>4, <1>11, <2>2 DEF Posted
    <3>2. c = d
      BY <2>2, <3>1, OnlyOne DEF Busy, Waiting
    <3>3. h = 0
      BY <1>10, <1>11, <2>2 DEF Waiting
    <3> QED
      BY <1>2, <3>1, <3>2, <3>3
  <2> QED
    BY <2>1, <2>2
<1>20. Registered'
  BY <1>7 DEF Registered, ShutDown
<1>21. Answered'
  <2> SUFFICES ASSUME NEW r \in DOMAIN servers, servers'[r].pc = "notify"
               PROVE  \/ ops'[Head(servers'[r].batch).id].handle # 0
                      \/ ops'[Head(servers'[r].batch).id] = Forgotten
                      \/ late \/ servers'[r].done
    BY <1>7, <1>9 DEF Answered
  <2>1. CASE r = s
    BY <1>2, <1>4, <1>8, <1>9, <1>10, <1>11, <2>1
  <2>2. CASE r # s
    <3>0. servers'[r] = servers[r]
      BY <1>9, <2>2
    <3>1. servers'[r] = servers[r] /\ servers[r].batch # <<>> /\ Head(servers[r].batch).op = "connect"
      BY <3>0 DEF ServersEnd
    <3>5. 1 \in DOMAIN Work(r) /\ Work(r)[1] = Head(servers[r].batch)
      BY <3>1, HeadIsFirst
    <3>2. Head(servers[r].batch).id \in DOMAIN ops
      BY <3>1, <3>5 DEF Posted
    <3>3. CASE Head(servers[r].batch).id # k
      BY <1>10, <3>1, <3>2, <3>3 DEF Answered
    <3>4. CASE Head(servers[r].batch).id = k
      <4>1. CASE new = ops[k]
        BY <1>10, <3>1, <3>2, <3>4, <4>1 DEF Answered
      <4>2. CASE new # ops[k]
        <5>1. \E c \in Clients : thread[c].pc \in Waiting /\ thread[c].at = s /\ thread[c].op = k
          BY <1>1, <1>3, <1>4, <1>11, <4>2 DEF Posted
        <5>2. \E c \in Clients : thread[c].pc \in Waiting /\ thread[c].at = r /\ thread[c].op = k
          BY <1>11, <3>1, <3>4, <3>5, <4>2 DEF Posted
        <5>3. r = s
          BY <5>1, <5>2, OnlyOne DEF Busy, Waiting
        <5> QED
          BY <2>2, <5>3
      <4> QED
        BY <4>1, <4>2
    <3> QED
      BY <3>3, <3>4
  <2> QED
    BY <2>1, <2>2
<1> QED
  BY <1>12, <1>13, <1>15, <1>16, <1>18, <1>19, <1>20, <1>21

\* The server has done what its batch began with.
LEMMA TakeHead ==
  ASSUME IInv, NEW s \in DOMAIN servers, NEW g \in ServerType, servers[s].batch # <<>>,
         servers' = [servers EXCEPT ![s] = g], IsFiniteSet(g.connects),
         g.pc = "send", g.batch = Tail(servers[s].batch), g.queue = servers[s].queue,
         servers[s].done => g.done, g.done /\ ~ShutDown(s) => g.connects = {},
         g.connects = servers[s].connects \/
           (/\ Head(servers[s].batch).op = "disconnect"
            /\ g.connects = servers[s].connects \ {Head(servers[s].batch).id}),
         UNCHANGED <<kind, mutex, entry, thread, late, expired>>,
         ops' \in Seq(Results), DOMAIN ops' = DOMAIN ops,
         \A i \in DOMAIN ops : /\ ops'[i].handle = ops[i].handle
                               /\ ops[i] = Forgotten => ops'[i] = Forgotten
  PROVE  TypeOK' /\ Places' /\ Finalized' /\ ServersEnd' /\ Ownership' /\ Posted' /\ Registered'
<1> USE DEF IInv
<1>1. /\ servers' \in Seq(ServerType) /\ DOMAIN servers' = DOMAIN servers
      /\ \A r \in DOMAIN servers' : IsFiniteSet(servers'[r].connects)
      /\ servers'[s] = g /\ \A r \in DOMAIN servers : r # s => servers'[r] = servers[r]
  BY ServersType
<1>2. PICK w : w = Tail(servers[s].batch) \o servers[s].queue
  OBVIOUS
<1>3. /\ 1 \in DOMAIN Work(s) /\ Work(s)[1] = Head(servers[s].batch)
      /\ \A i \in DOMAIN w : i + 1 \in DOMAIN Work(s) /\ i + 1 # 1 /\ i \in Nat /\ w[i] = Work(s)[i + 1]
  BY <1>2, HeadIsFirst
<1>4. Work(s)' = w /\ \A r \in DOMAIN servers : r # s => Work(r)' = Work(r)
  BY <1>1, <1>2 DEF Work
<1>5. TypeOK'
  BY <1>1 DEF TypeOK
<1>6. Places' /\ Finalized'
  BY <1>1 DEF Places, Finalized
<1>7. ServersEnd'
  <2> SUFFICES ASSUME NEW r \in DOMAIN servers
               PROVE  /\ servers'[r].pc \notin {"send", "notify"} => servers'[r].batch = <<>>
                      /\ servers'[r].pc = "notify" => servers'[r].batch # <<>> /\ Head(servers'[r].batch).op = "connect"
                      /\ servers'[r].pc \in {"ended", "gone"} => servers'[r].done
                      /\ servers'[r].done /\ ~ShutDown(r) => servers'[r].connects = {}
                      /\ \A i \in DOMAIN Work(r)' : Work(r)'[i].op = "done" => ShutDown(r)
    BY <1>1 DEF ServersEnd, ShutDown
  <2>1. CASE r # s
    BY <1>1, <1>4, <2>1 DEF ServersEnd
  <2>2. CASE r = s
    BY <1>1, <1>3, <1>4, <2>2 DEF ServersEnd
  <2> QED
    BY <2>1, <2>2
<1>8. \A c \in Clients : \A r, x : Holds(c, r, x)' => Holds(c, r, x)
  BY DEF Holds, Places
<1>9. Ownership'
  <2> SUFFICES ASSUME NEW r \in DOMAIN servers PROVE Holders(r)' /\ Closing(r)'
    BY <1>1 DEF Ownership
  <2>1. Holders(r) /\ Closing(r)
    BY DEF Ownership
  <2>2. CASE r # s
    <3>1. servers'[r].connects = servers[r].connects /\ Work(r)' = Work(r)
      BY <1>1, <1>4, <2>2
    <3>2. Holders(r)'
      BY <1>8, <2>1, <3>1 DEF Holders
    <3>3. Closing(r)'
      BY <1>8, <2>1, <3>1 DEF Closing
    <3> QED
      BY <3>2, <3>3
  <2>3. CASE r = s
    <3>1. servers'[s].connects = g.connects
      BY <1>1
    <3>2. \A c \in Clients, x \in Nat : Holds(c, s, x) => x \in g.connects
      BY <1>3, <2>1, <2>3 DEF Holders, Closing
    <3>3. Holders(s)'
      BY <1>8, <2>1, <2>3, <3>1, <3>2 DEF Holders
    <3>4. Closing(s)'
      <4> SUFFICES ASSUME NEW i \in DOMAIN w, w[i].op = "disconnect"
                   PROVE  /\ w[i].id \in g.connects
                          /\ \A c \in Clients, x \in Nat : Holds(c, s, x)' => x # w[i].id
                          /\ \A j \in DOMAIN w \ {i} : w[j].op = "disconnect" => w[j].id # w[i].id
        BY <1>4, <3>1 DEF Closing
      <4>1. i + 1 \in DOMAIN Work(s) /\ i + 1 # 1 /\ w[i] = Work(s)[i + 1]
        BY <1>3
      <4>2. /\ w[i].id \in servers[s].connects
            /\ \A c \in Clients, x \in Nat : Holds(c, s, x) => x # w[i].id
            /\ \A j \in DOMAIN Work(s) \ {i + 1} :
                 Work(s)[j].op = "disconnect" => Work(s)[j].id # w[i].id
        BY <2>1, <2>3, <4>1 DEF Closing
      <4>3. w[i].id \in g.connects
        BY <1>3, <4>1, <4>2
      <4>4. \A j \in DOMAIN w \ {i} : w[j].op = "disconnect" => w[j].id # w[i].id
        <5> SUFFICES ASSUME NEW j \in DOMAIN w, j # i, w[j].op = "disconnect" PROVE w[j].id # w[i].id
          OBVIOUS
        <5>1. i \in Nat /\ j \in Nat /\ j + 1 \in DOMAIN Work(s) /\ w[j] = Work(s)[j + 1]
          BY <1>3
        <5>2. j + 1 # i + 1
          BY <5>1
        <5> QED
          BY <4>2, <5>1, <5>2
      <4> QED
        BY <1>8, <4>2, <4>3, <4>4
    <3> QED
      BY <2>3, <3>3, <3>4
  <2> QED
    BY <2>2, <2>3
<1>10. Posted'
  <2> SUFFICES ASSUME NEW r \in DOMAIN servers, NEW i \in DOMAIN Work(r)', Work(r)'[i].op = "connect"
               PROVE  /\ Work(r)'[i].id \in DOMAIN ops
                      /\ \/ ops'[Work(r)'[i].id] = Forgotten
                         \/ \E c \in Clients : /\ thread[c].pc \in Waiting /\ thread[c].at = r
                                               /\ thread[c].op = Work(r)'[i].id
    BY <1>1 DEF Posted
  <2>1. PICK j \in DOMAIN Work(r) : Work(r)'[i] = Work(r)[j]
    BY <1>3, <1>4
  <2> QED
    BY <2>1 DEF Posted
<1>11. Registered'
  BY DEF Registered, ShutDown
<1> QED
  BY <1>5, <1>6, <1>7, <1>9, <1>10, <1>11

\* A server that is not between a result and its announcement owes none.
LEMMA AnsweredElsewhere ==
  ASSUME IInv, Answered, UNCHANGED <<late>>, DOMAIN servers \subseteq DOMAIN servers',
         \A r \in DOMAIN servers' : servers'[r].pc = "notify" =>
           /\ r \in DOMAIN servers /\ servers[r].pc = "notify"
           /\ servers'[r].batch = servers[r].batch /\ servers'[r].done = servers[r].done,
         \A i \in DOMAIN ops : \/ ops'[i].handle = ops[i].handle /\ (ops[i] = Forgotten => ops'[i] = Forgotten)
                               \/ ops'[i] = Forgotten
  PROVE  Answered'
<1> USE DEF IInv
<1> SUFFICES ASSUME NEW r \in DOMAIN servers', servers'[r].pc = "notify"
             PROVE  \/ ops'[Head(servers'[r].batch).id].handle # 0
                    \/ ops'[Head(servers'[r].batch).id] = Forgotten
                    \/ late \/ servers'[r].done
  BY DEF Answered
<1>1. /\ r \in DOMAIN servers /\ servers[r].pc = "notify"
      /\ servers'[r].batch = servers[r].batch /\ servers'[r].done = servers[r].done
  OBVIOUS
<1>2. servers[r].batch # <<>> /\ Head(servers[r].batch).op = "connect"
  BY <1>1 DEF ServersEnd
<1>3. 1 \in DOMAIN Work(r) /\ Work(r)[1] = Head(servers[r].batch)
  BY <1>1, <1>2, HeadIsFirst
<1>4. Head(servers[r].batch).id \in DOMAIN ops
  BY <1>1, <1>2, <1>3 DEF Posted
<1> QED
  BY <1>1, <1>4 DEF Answered

LEMMA NotifyConnectInv ==
  ASSUME IInv, Answered, NEW s \in DOMAIN servers, NotifyConnect(s)
  PROVE  IInv' /\ Answered'
<1> USE DEF IInv
<1> DEFINE g == servers[s]
           o == Head(g.batch)
<1>1. /\ g \in ServerType /\ IsFiniteSet(g.connects) /\ g.pc = "notify"
      /\ g.queue \in Seq(Operations) /\ g.batch \in Seq(Operations)
  BY ServerFields DEF NotifyConnect
<1>2. g.batch # <<>> /\ o.op = "connect" /\ (g.done /\ ~ShutDown(s) => g.connects = {})
  BY <1>1 DEF ServersEnd
<1>3. 1 \in DOMAIN Work(s) /\ Work(s)[1] = o /\ o \in Operations /\ Tail(g.batch) \in Seq(Operations)
  BY <1>2, HeadIsFirst
<1>4. PICK k \in DOMAIN ops : k = o.id
  BY <1>2, <1>3 DEF Posted
<1>5. PICK b \in Seq(Operations) : b = Tail(g.batch)
  BY <1>3
<1> DEFINE n == [g EXCEPT !.pc = "send", !.batch = b]
           new == [ops[k] EXCEPT !.done = TRUE]
<1>6. /\ servers' = [servers EXCEPT ![s] = n] /\ ops' = [ops EXCEPT ![k] = new]
      /\ UNCHANGED <<kind, mutex, entry, thread, late, expired>>
  BY <1>4, <1>5 DEF NotifyConnect, TypeOK
<1>7. /\ n \in ServerType /\ n.pc = "send" /\ n.connects = g.connects /\ n.done = g.done
      /\ n.batch = b /\ n.queue = g.queue
  BY <1>1 DEF ServerType
<1>8. /\ new \in Results /\ new.handle = ops[k].handle /\ new.done = TRUE
      /\ ops[k] = Forgotten => new = Forgotten
  <2>1. ops[k] \in Results
    BY DEF TypeOK
  <2>2. new \in Results /\ new.handle = ops[k].handle /\ new.done = TRUE
    BY <2>1 DEF Results
  <2> HIDE DEF new
  <2>3. \A x \in Results : x.handle = 0 /\ x.done = TRUE => x = Forgotten
    BY DEF Results, Forgotten
  <2>4. Forgotten.handle = 0
    BY DEF Forgotten
  <2> QED
    BY <2>2, <2>3, <2>4
<1> HIDE DEF n, new
<1>9. /\ ops' \in Seq(Results) /\ DOMAIN ops' = DOMAIN ops /\ ops'[k] = new
      /\ \A i \in DOMAIN ops : i # k => ops'[i] = ops[i]
  <2>1. ops \in Seq(Results)
    BY DEF TypeOK
  <2> QED
    BY <1>6, <1>8, <2>1
<1>10. \A i \in DOMAIN ops : /\ ops'[i].handle = ops[i].handle
                             /\ ops[i] = Forgotten => ops'[i] = Forgotten
  BY <1>8, <1>9
<1>11. TypeOK' /\ Places' /\ Finalized' /\ ServersEnd' /\ Ownership' /\ Posted' /\ Registered'
  <2>1. /\ IsFiniteSet(n.connects) /\ (g.done => n.done)
        /\ (n.done /\ ~ShutDown(s) => n.connects = {}) /\ n.connects = g.connects
    BY <1>1, <1>2, <1>7
  <2> QED
    BY <1>1, <1>2, <1>5, <1>6, <1>7, <1>9, <1>10, <2>1, TakeHead
<1>12. /\ DOMAIN servers' = DOMAIN servers /\ servers'[s] = n
       /\ \A r \in DOMAIN servers : r # s => servers'[r] = servers[r]
  BY <1>1, <1>6, <1>7, ServersType
<1>13. Answered'
  BY <1>6, <1>7, <1>10, <1>12, AnsweredElsewhere
<1>14. Refused'
  <2> SUFFICES ASSUME NEW c \in Clients,
                      \/ /\ thread[c].pc \in Waiting /\ ops'[thread[c].op].handle = 0
                         /\ thread[c].pc = "read" \/ ops'[thread[c].op].done
                      \/ thread[c].pc = "create" /\ thread[c].at # 0
               PROVE  late \/ (thread[c].at \in DOMAIN servers /\ servers[thread[c].at].done)
    BY <1>6, <1>7, <1>12 DEF Refused
  <2>1. CASE ~(thread[c].pc \in Waiting /\ thread[c].op = k)
    BY <1>9, <2>1 DEF Refused, Places
  <2>2. CASE thread[c].pc \in Waiting /\ thread[c].op = k
    <3>1. ops[k].handle = 0
      BY <1>10, <2>2 DEF Waiting
    <3>2. ops[k] = Forgotten \/ late \/ g.done
      BY <1>1, <1>4, <3>1 DEF Answered
    <3>3. CASE ops[k] = Forgotten
      BY <2>2, <3>3 DEF Refused, Forgotten
    <3>4. CASE g.done /\ ops[k] # Forgotten
      <4>1. PICK d \in Clients : thread[d].pc \in Waiting /\ thread[d].at = s /\ thread[d].op = k
        BY <1>2, <1>3, <1>4, <3>4 DEF Posted
      <4>2. c = d
        BY <2>2, <4>1, OnlyOne DEF Busy, Waiting
      <4> QED
        BY <3>4, <4>1, <4>2
    <3> QED
      BY <3>2, <3>3, <3>4
  <2> QED
    BY <2>1, <2>2
<1> QED
  BY <1>11, <1>13, <1>14

LEMMA SendDisconnectInv ==
  ASSUME IInv, Answered, NEW s \in DOMAIN servers, SendDisconnect(s) \/ SendDone(s)
  PROVE  IInv' /\ Answered'
<1> USE DEF IInv
<1> DEFINE g == servers[s]
           o == Head(g.batch)
<1>1. /\ g \in ServerType /\ IsFiniteSet(g.connects) /\ g.pc = "send" /\ g.batch # <<>>
      /\ g.queue \in Seq(Operations) /\ g.batch \in Seq(Operations) /\ g.done \in BOOLEAN
      /\ g.connects \in SUBSET (Nat \ {0})
  BY ServerFields DEF SendDisconnect, SendDone
<1>2. g.done /\ ~ShutDown(s) => g.connects = {}
  BY DEF ServersEnd
<1>3. 1 \in DOMAIN Work(s) /\ Work(s)[1] = o /\ o \in Operations /\ Tail(g.batch) \in Seq(Operations)
  BY <1>1, HeadIsFirst
<1>5. PICK b \in Seq(Operations) : b = Tail(g.batch)
  BY <1>3
<1>6. PICK C \in SUBSET (Nat \ {0}), x \in BOOLEAN :
         /\ servers' = [servers EXCEPT ![s] = [g EXCEPT !.connects = C, !.batch = b, !.done = x]]
         /\ C = g.connects \/ (o.op = "disconnect" /\ C = g.connects \ {o.id})
         /\ (g.done => x) /\ (x /\ ~ShutDown(s) => C = {})
  <2>1. CASE SendDisconnect(s)
    <3>1. PICK C : C = g.connects \ {o.id}
      OBVIOUS
    <3>2. PICK x \in BOOLEAN : x = (g.done \/ isIdle(C))
      BY <1>1 DEF isIdle
    <3>3. servers' = [servers EXCEPT ![s] = [g EXCEPT !.connects = C, !.batch = b, !.done = x]]
          /\ o.op = "disconnect"
      BY <1>1, <1>5, <2>1, <3>1, <3>2 DEF SendDisconnect
    <3>4. x /\ ~ShutDown(s) => C = {}
      BY <1>2, <3>1, <3>2 DEF isIdle
    <3>5. C \in SUBSET (Nat \ {0}) /\ (g.done => x)
      BY <1>1, <3>1, <3>2
    <3> QED
      BY <3>1, <3>3, <3>4, <3>5
  <2>2. CASE SendDone(s)
    <3>1. ShutDown(s)
      BY <1>3, <2>2 DEF ServersEnd, SendDone
    <3>2. servers' = [servers EXCEPT ![s] = [g EXCEPT !.connects = g.connects, !.batch = b, !.done = TRUE]]
      BY <1>1, <1>5, <2>2 DEF SendDone, ServerType
    <3> QED
      BY <1>1, <3>1, <3>2
  <2> QED
    BY <2>1, <2>2
<1> DEFINE n == [g EXCEPT !.connects = C, !.batch = b, !.done = x]
<1>7. /\ n \in ServerType /\ n.pc = "send" /\ n.connects = C /\ n.done = x
      /\ n.batch = b /\ n.queue = g.queue
  BY <1>1 DEF ServerType
<1>8. IsFiniteSet(C)
  <2>1. C \subseteq g.connects
    BY <1>6
  <2> QED
    BY <1>1, <2>1, FS_Subset
<1>9. servers' = [servers EXCEPT ![s] = n] /\ UNCHANGED <<kind, mutex, entry, thread, late, expired, ops>>
  BY <1>6 DEF SendDisconnect, SendDone
<1> HIDE DEF n
<1>10. /\ ops' \in Seq(Results) /\ DOMAIN ops' = DOMAIN ops
       /\ \A i \in DOMAIN ops : /\ ops'[i].handle = ops[i].handle
                                /\ ops[i] = Forgotten => ops'[i] = Forgotten
  BY <1>9 DEF TypeOK
<1>11. TypeOK' /\ Places' /\ Finalized' /\ ServersEnd' /\ Ownership' /\ Posted' /\ Registered'
  <2>1. IsFiniteSet(n.connects) /\ (g.done => n.done) /\ (n.done /\ ~ShutDown(s) => n.connects = {})
        /\ (n.connects = g.connects \/ (o.op = "disconnect" /\ n.connects = g.connects \ {o.id}))
    BY <1>6, <1>7, <1>8
  <2> QED
    BY <1>1, <1>5, <1>7, <1>9, <1>10, <2>1, TakeHead
<1>12. /\ DOMAIN servers' = DOMAIN servers /\ servers'[s] = n
       /\ \A r \in DOMAIN servers : r # s => servers'[r] = servers[r]
  BY <1>7, <1>8, <1>9, ServersType
<1>13. Answered'
  <2>1. servers'[s].pc # "notify"
    BY <1>7, <1>12
  <2> QED
    BY <1>9, <1>10, <1>12, <2>1, AnsweredElsewhere
<1>14. Refused'
  <2>1. \A r \in DOMAIN servers : servers[r].done => servers'[r].done
    BY <1>6, <1>7, <1>12
  <2> QED
    BY <1>9, <1>12, <2>1 DEF Refused
<1> QED
  BY <1>11, <1>13, <1>14

-----------------------------------------------------------------------------
(* Results that are not announced yet *)

LEMMA AnsweredExpire ==
  ASSUME IInv, Answered, NEW c \in Clients, Expire(c)
  PROVE  Answered'
<1> USE DEF IInv
<1>1. PICK k \in DOMAIN ops : k = thread[c].op
  BY DEF Expire, Places, Waiting
<1>2. /\ ops' = [ops EXCEPT ![k] = [@ EXCEPT !.handle = 0]] /\ thread[c].pc = "wait"
      /\ late' = (late \/ ~servers[thread[c].at].done) /\ servers' = servers
  BY <1>1 DEF Expire
<1>3. \A i \in DOMAIN ops : i # k => ops'[i] = ops[i]
  BY <1>2 DEF TypeOK
<1> SUFFICES ASSUME NEW r \in DOMAIN servers, servers[r].pc = "notify", ~late'
             PROVE  \/ ops'[Head(servers[r].batch).id].handle # 0
                    \/ ops'[Head(servers[r].batch).id] = Forgotten
                    \/ servers[r].done
  BY <1>2 DEF Answered
<1>4. servers[r].batch # <<>> /\ Head(servers[r].batch).op = "connect"
  BY DEF ServersEnd
<1>5. 1 \in DOMAIN Work(r) /\ Work(r)[1] = Head(servers[r].batch)
  BY <1>4, HeadIsFirst
<1>6. Head(servers[r].batch).id \in DOMAIN ops
  BY <1>4, <1>5 DEF Posted
<1>7. CASE Head(servers[r].batch).id # k
  BY <1>2, <1>3, <1>6, <1>7 DEF Answered
<1>8. CASE Head(servers[r].batch).id = k /\ ops[k] = Forgotten
  <2>1. [Forgotten EXCEPT !.handle = 0] = Forgotten
    BY DEF Forgotten
  <2>2. ops'[k] = [ops[k] EXCEPT !.handle = 0]
    BY <1>2 DEF TypeOK
  <2> QED
    BY <1>8, <2>1, <2>2
<1>9. CASE Head(servers[r].batch).id = k /\ ops[k] # Forgotten
  <2>1. PICK d \in Clients : thread[d].pc \in Waiting /\ thread[d].at = r
    BY <1>4, <1>5, <1>9 DEF Posted
  <2>2. c = d
    BY <1>2, <2>1, OnlyOne DEF Busy, Waiting
  <2> QED
    BY <1>2, <2>1, <2>2
<1> QED
  BY <1>7, <1>8, <1>9

LEMMA AnsweredPost ==
  ASSUME IInv, Answered, (\E c \in Clients : PostConnect(c) \/ Close(c)) \/ Shutdown
  PROVE  Answered'
<1> USE DEF IInv
<1>1. PICK s \in DOMAIN servers, t \in Threads, o \in Operations :
        servers' = [servers EXCEPT ![s] = post(s, t, o)]
  <2>1. ASSUME NEW c \in Clients, PostConnect(c)
        PROVE  \E s \in DOMAIN servers, t \in Threads, o \in Operations :
                 servers' = [servers EXCEPT ![s] = post(s, t, o)]
    <3>1. [op |-> "connect", id |-> Len(ops) + 1] \in Operations
      BY DEF Operations, TypeOK
    <3>2. thread[c].at \in DOMAIN servers /\ c \in Threads
      BY <2>1, Disjoint DEF PostConnect, Places
    <3> QED
      BY <2>1, <3>1, <3>2 DEF PostConnect
  <2>2. ASSUME NEW c \in Clients, Close(c)
        PROVE  \E s \in DOMAIN servers, t \in Threads, o \in Operations :
                 servers' = [servers EXCEPT ![s] = post(s, t, o)]
    <3>0. thread[c].handle \in Nat
      BY ThreadFields, Disjoint
    <3>1. [op |-> "disconnect", id |-> thread[c].handle] \in Operations
      BY <3>0 DEF Operations
    <3>2. thread[c].at \in DOMAIN servers /\ c \in Threads
      BY <2>2, Disjoint DEF Close, Places
    <3> QED
      BY <2>2, <3>1, <3>2 DEF Close
  <2>3. CASE Shutdown
    <3>1. [op |-> "done", id |-> 0] \in Operations
      BY DEF Operations
    <3>2. entry \in DOMAIN servers /\ Finalizer \in Threads
      BY <2>3, Disjoint DEF Shutdown, TypeOK
    <3> QED
      BY <2>3, <3>1, <3>2 DEF Shutdown
  <2> QED
    BY <2>1, <2>2, <2>3
<1>2. /\ DOMAIN servers' = DOMAIN servers
      /\ \A r \in DOMAIN servers : /\ servers'[r].done = servers[r].done
                                   /\ servers'[r].batch = servers[r].batch
                                   /\ servers'[r].pc = "notify" => servers[r].pc = "notify"
  BY <1>1, PostWork
<1>3. late' = late /\ \A i \in DOMAIN ops : ops'[i] = ops[i]
  <2>1. ASSUME NEW c \in Clients, PostConnect(c) PROVE \A i \in DOMAIN ops : ops'[i] = ops[i]
    <3>1. ops \in Seq(Results) /\ [handle |-> 0, done |-> FALSE] \in Results
      BY DEF TypeOK, Results
    <3>2. ops' = Append(ops, [handle |-> 0, done |-> FALSE])
      BY <2>1 DEF PostConnect
    <3> QED
      BY <3>1, <3>2, AppendDomain
  <2> QED
    BY <2>1 DEF PostConnect, Close, Shutdown
<1> QED
  BY <1>2, <1>3, AnsweredElsewhere

LEMMA AnsweredRest ==
  ASSUME IInv, Answered,
         \/ \E c \in Clients : \/ Lock(c) \/ CreateServer(c) \/ CreateServerFails(c) \/ EnterWait(c)
                               \/ Notified(c) \/ ReadHandle(c)
         \/ ShutdownDone
  PROVE  Answered'
<1> USE DEF IInv
<1>1. ASSUME NEW c \in Clients, CreateServer(c) PROVE Answered'
  <2>1. servers \in Seq(ServerType) /\ NewServer.pc # "notify" /\ NewServer \in ServerType
    BY Disjoint DEF TypeOK, NewServer, ServerType
  <2>4. servers' = Append(servers, NewServer)
    BY <1>1 DEF CreateServer
  <2>2. DOMAIN servers' = DOMAIN servers \cup {Len(servers) + 1} /\ servers'[Len(servers) + 1] = NewServer
        /\ \A r \in DOMAIN servers : servers'[r] = servers[r]
    BY <2>1, <2>4, AppendDomain
  <2>3. late' = late /\ ops' = ops
    BY <1>1 DEF CreateServer
  <2> QED
    BY <2>1, <2>2, <2>3, AnsweredElsewhere
<1>2. ASSUME NEW c \in Clients, ReadHandle(c) PROVE Answered'
  <2>1. servers' = servers /\ late' = late /\ ops' = [ops EXCEPT ![thread[c].op] = Forgotten]
    BY <1>2 DEF ReadHandle
  <2>2. \A i \in DOMAIN ops : ops'[i] = ops[i] \/ ops'[i] = Forgotten
    BY <2>1 DEF TypeOK
  <2> QED
    BY <2>1, <2>2, AnsweredElsewhere
<1>3. ASSUME servers' = servers, late' = late, ops' = ops PROVE Answered'
  BY <1>3 DEF Answered
<1> QED
  BY <1>1, <1>2, <1>3 DEF Lock, CreateServerFails, EnterWait, Notified, ShutdownDone

LEMMA AnsweredInner ==
  ASSUME IInv, Answered, NEW s \in DOMAIN servers,
         \/ /\ servers' = [servers EXCEPT ![s].pipe = TRUE, ![s].lock = Nobody]
            /\ UNCHANGED <<kind, mutex, entry, thread, ops, late, expired>>
         \/ ExecLoop(s) \/ DrainPipe(s) \/ ClearWoken(s) \/ Erase(s)
  PROVE  Answered'
<1> USE DEF IInv
<1>1. servers \in Seq(ServerType) /\ servers[s] \in ServerType
  BY ServerFields DEF TypeOK
<1>2. late' = late /\ ops' = ops /\ DOMAIN servers' = DOMAIN servers
      /\ \A r \in DOMAIN servers : r # s => servers'[r] = servers[r]
  BY <1>1 DEF ExecLoop, DrainPipe, ClearWoken, Erase
<1>3. servers'[s].pc = "notify" => /\ servers[s].pc = "notify" /\ servers'[s].batch = servers[s].batch
                                   /\ servers'[s].done = servers[s].done
  <2>1. CASE ExecLoop(s)
    BY <1>1, <2>1 DEF ExecLoop, ServerType
  <2>2. CASE DrainPipe(s) \/ ClearWoken(s) \/ Erase(s)
    BY <1>1, <2>2 DEF DrainPipe, ClearWoken, Erase, ServerType
  <2>3. CASE servers' = [servers EXCEPT ![s].pipe = TRUE, ![s].lock = Nobody]
    BY <1>1, <2>3 DEF ServerType
  <2> QED
    BY <2>1, <2>2, <2>3
<1> QED
  BY <1>2, <1>3, AnsweredElsewhere

-----------------------------------------------------------------------------
(* The theorems *)

LEMMA InitInv == Init => IInv /\ Answered
<1> SUFFICES ASSUME Init PROVE IInv /\ Answered
  OBVIOUS
<1>1. servers = <<>> /\ ops = <<>> /\ DOMAIN servers = {} /\ entry = 0 /\ mutex = Nobody
      /\ late = FALSE /\ expired = 0 /\ kind \in {"thread", "network"}
  BY LeafServersAssumption DEF Init
<1>2. Outside \in ThreadType /\ Outside.pc = "out" /\ Outside.at = 0
  BY DEF Outside, ThreadType
<1>3. thread \in [Threads -> ThreadType] /\ \A t \in Threads : thread[t].pc = "out" /\ thread[t].at = 0
  BY <1>2 DEF Init
<1>4. TypeOK
  <2>1. <<>> \in Seq(ServerType) /\ <<>> \in Seq(Results)
    OBVIOUS
  <2> QED
    BY <1>1, <1>3, <2>1 DEF TypeOK
<1>5. Places /\ Finalized
  BY <1>1, <1>3, Disjoint DEF Places, Finalized, Busy, Waiting
<1>6. ServersEnd /\ Ownership /\ Posted /\ Answered
  BY <1>1 DEF ServersEnd, Ownership, Posted, Answered
<1>7. Refused /\ Registered
  BY <1>1, <1>3, Disjoint DEF Refused, Registered, Waiting
<1> QED
  BY <1>4, <1>5, <1>6, <1>7 DEF IInv

LEMMA NextInv == IInv /\ Answered /\ [Next]_vars => IInv' /\ Answered'
<1> SUFFICES ASSUME IInv, Answered, [Next]_vars PROVE IInv' /\ Answered'
  OBVIOUS
<1>1. ASSUME NEW c \in Clients, ClientStep(c) PROVE IInv' /\ Answered'
  BY <1>1, LockInv, CreateServerInv, CreateServerFailsInv, PostConnectInv, EnterWaitInv,
     ExpireInv, ReadHandleInv, CloseInv, AnsweredExpire, AnsweredPost, AnsweredRest DEF ClientStep
<1>2. ASSUME NEW t \in Threads, WriteWakeup(t) PROVE IInv' /\ Answered'
  BY <1>2, InnerStepInv, AnsweredInner DEF WriteWakeup
<1>3. ASSUME NEW s \in DOMAIN servers, ServerStep(s) PROVE IInv' /\ Answered'
  BY <1>3, InnerStepInv, AnsweredInner, SendConnectInv, NotifyConnectInv, SendDisconnectInv
     DEF ServerStep
<1>4. CASE Shutdown \/ ShutdownDone
  BY <1>4, ShutdownInv, ShutdownDoneInv, AnsweredPost, AnsweredRest
<1>5. CASE UNCHANGED vars
  <2>1. UNCHANGED <<kind, mutex, entry, servers, thread, ops, late, expired>>
    BY <1>5 DEF vars
  <2>2. TypeOK' /\ Places' /\ Finalized'
    BY <2>1 DEF IInv, TypeOK, Places, Finalized
  <2>3. ServersEnd'
    BY <2>1, SameServersEnd DEF IInv
  <2>4. \A s : Work(s)' = Work(s)
    BY <2>1 DEF Work
  <2>5. Ownership' /\ Posted'
    <3>1. \A c \in Clients : \A s, h : Holds(c, s, h)' => Holds(c, s, h)
      BY <2>1 DEF Holds
    <3> QED
      BY <2>1, <2>4, <3>1, SameOwnership, SamePosted DEF IInv
  <2>6. Refused' /\ Registered' /\ Answered'
    BY <2>1 DEF IInv, Refused, Registered, ShutDown, Answered
  <2> QED
    BY <2>2, <2>3, <2>5, <2>6 DEF IInv
<1> QED
  BY <1>1, <1>2, <1>3, <1>4, <1>5 DEF Next

LEMMA Invariant == Spec => [](IInv /\ Answered)
BY InitInv, NextInv, PTL DEF Spec

\* LeafServerThread.cpp:92, AbstractServer.cpp:429: however many clients share a server thread
\* and however they connect, time out and close, a connect that a client got stays known to a
\* server that works, and is nobody else's, until the client closes it or the process shuts
\* down.
THEOREM ConnectServed == Spec => []ConnectIsServed
<1>1. IInv => ConnectIsServed
  <2> SUFFICES ASSUME IInv, NEW c \in Clients, thread[c].pc = "in", ~ShutDown(thread[c].at)
               PROVE  /\ thread[c].handle \in servers[thread[c].at].connects
                      /\ ~servers[thread[c].at].done
                      /\ \A d \in Clients \ {c} : thread[d].pc = "in" /\ thread[d].at = thread[c].at
                                                    => thread[d].handle # thread[c].handle
    BY DEF ConnectIsServed
  <2> USE DEF IInv
  <2>1. /\ thread[c].at \in DOMAIN servers /\ thread[c].handle # 0 /\ thread[c].handle \in Nat
    BY ThreadFields, Disjoint DEF Places
  <2>2. Holds(c, thread[c].at, thread[c].handle)
    BY <2>1 DEF Holds
  <2>3. /\ thread[c].handle \in servers[thread[c].at].connects
        /\ \A d \in Clients \ {c} : ~Holds(d, thread[c].at, thread[c].handle)
    BY <2>1, <2>2 DEF Ownership, Holders
  <2>4. ~servers[thread[c].at].done
    BY <2>1, <2>3 DEF ServersEnd
  <2> QED
    BY <2>1, <2>3, <2>4 DEF Holds
<1> QED
  BY <1>1, Invariant, PTL

\* LeafServerThread.cpp:92,142: those that use a url at the same time use one server, the one
\* that is registered, unless a connect timed out at a server that was still working.
THEOREM ServerRegistered == Spec => []Registered
<1>1. IInv => Registered
  BY DEF IInv
<1> QED
  BY <1>1, Invariant, PTL

=============================================================================
