------------------------- MODULE FederationLifecycle -------------------------
(***************************************************************************)
(* The life of a federation execution (ServerNode.cpp, ServerModel.cpp,    *)
(* Ambassador.h, InternalAmbassador.cpp): federates create, join, resign   *)
(* and destroy it through a tree of servers, connects close and processes  *)
(* die.  There is one federation name.  A federation is known to servers   *)
(* by a handle of the root's allocator, which is given away again once all *)
(* have released it.                                                       *)
(*                                                                         *)
(* Connects are reliable FIFOs: up[n] from node n to its parent and        *)
(* down[n] back.  The number gen of a federation's creation is carried     *)
(* along with its handle; no step depends on it.                           *)
(***************************************************************************)
EXTENDS Naturals, SequencesExt

CONSTANTS Root, Leaves, Ambassadors,
          Parent,         \* the server that a leaf server or an ambassador is connected to
          FederateName,   \* the name an ambassador joins with, "" for none
          Program,        \* the kinds of calls, and of faults, of each ambassador
          MaxCalls,       \* bound on the calls of each ambassador
          Modules,        \* the verdicts on the object models that requests come with
          MayDie          \* the leaf servers whose process may die

Servers  == {Root} \cup Leaves
Nodes    == Leaves \cup Ambassadors
Kinds    == {"create", "destroy", "join", "resign", "close", "timeout", "persist"}
Children(s) == {c \in Nodes : Parent[c] = s}
Gone     == "gone"      \* no connect
Upstream == "upstream"  \* the connect to the parent

ASSUME TreeAssumption ==
  /\ Root \notin Nodes /\ Leaves \cap Ambassadors = {}
  /\ {Gone, Upstream} \cap Nodes = {}
  /\ Parent \in [Nodes -> Servers] /\ \A s \in Leaves : Parent[s] = Root
  /\ FederateName \in [Ambassadors -> STRING]
  /\ Program \in [Ambassadors -> SUBSET Kinds] /\ MaxCalls \in [Ambassadors -> Nat]
  /\ Modules \subseteq {"consistent", "inconsistent"} /\ MayDie \subseteq Leaves

VARIABLES
  srv,    \* per server: open child connects, the handle registered for the name (0: none),
          \* the federations by handle, the originators of the requests sent to the parent
  made,   \* the number of federations created so far
  amb,    \* per ambassador: its connect, the call it waits in, its federate
  up,     \* messages on the way to the parent
  down,   \* messages on the way from the parent
  failed  \* a server has met a message that it refuses with an error

vars == <<srv, made, amb, up, down, failed>>

Nothing == [x \in {} |-> 0]

NoServer   == [open |-> {}, reg |-> 0, fedn |-> Nothing, pend |-> <<>>]
NoFederate == [valid |-> FALSE, h |-> 0, gen |-> 0, fh |-> 0, others |-> {}]

Init ==
  /\ srv = [s \in Servers |-> [NoServer EXCEPT !.open = Children(s)]]
  /\ made = 0
  /\ amb = [a \in Ambassadors |-> [open |-> TRUE, wait |-> "none", fed |-> NoFederate,
                                   calls |-> 0, abandoned |-> FALSE]]
  /\ up = [n \in Nodes |-> <<>>]
  /\ down = [n \in Nodes |-> <<>>]
  /\ failed = FALSE

-----------------------------------------------------------------------------
(* Messages.  m.h and m.gen are the handle and the creation of a federation. *)

Request(kind, a, fdd) == [type |-> kind, name |-> FederateName[a], fdd |-> fdd]
Response(kind, result) == [type |-> kind, result |-> result]
JoinFailed(result, name) == [type |-> "JoinResponse", result |-> result, name |-> name, fh |-> 0]
Joined(F, fh) == [type |-> "JoinResponse", result |-> "success", name |-> F.fed[fh].name,
                  fh |-> fh, h |-> F.h, gen |-> F.gen]
JoinNotify(F, fh) == [type |-> "JoinNotify", name |-> F.fed[fh].name,
                      fh |-> fh, h |-> F.h, gen |-> F.gen]
About(type, F)          == [type |-> type, h |-> F.h, gen |-> F.gen]
AboutFed(type, F, fh)   == [type |-> type, fh |-> fh, h |-> F.h, gen |-> F.gen]
Close == [type |-> "Close"]

-----------------------------------------------------------------------------
(* The state t of a server s while it handles a message: its node n, its channel to  *)
(* the parent, the channels to its children, and whether it has met an error.        *)

Begin(s) == [root |-> s = Root, n |-> srv[s], made |-> made, err |-> FALSE,
             up |-> IF s = Root THEN <<>> ELSE up[s], down |-> [c \in Children(s) |-> down[c]]]

Fail(t, cond) == [t EXCEPT !.err = @ \/ cond]

Send(t, c, m) == IF c \in t.n.open THEN [t EXCEPT !.down[c] = Append(@, m)] ELSE t
sendToParent(t, m) == [t EXCEPT !.up = Append(@, m)]

\* FederationConnect::send: nothing is sent through an inactive connect
ActiveConnects(F) == {c \in DOMAIN F.conn : F.conn[c]}
broadcastToChildren(t, h, except, m) ==
  LET to == (ActiveConnects(t.n.fedn[h]) \ except) \cap t.n.open
  IN  [t EXCEPT !.down = [c \in DOMAIN @ |-> IF c \in to THEN Append(@[c], m) ELSE @[c]]]

Via(F, c) == {fh \in DOMAIN F.fed : F.fed[fh].via = c}
InOrder(S) == SetToSortSeq(S, <)
Without(f, x) == [y \in DOMAIN f \ {x} |-> f[y]]

NewFederation(h, gen) == [h |-> h, gen |-> gen, conn |-> Nothing, fed |-> Nothing]
insertFederation(t, h, gen) ==
  [t EXCEPT !.n.fedn = (h :> NewFederation(h, gen)) @@ @, !.n.reg = h]
eraseName(t, h) == [t EXCEPT !.n.reg = IF @ = h THEN 0 ELSE @]
erase(t, h) == [eraseName(t, h) EXCEPT !.n.fedn = Without(@, h)]

\* HandleAllocator: the smallest handle that is not in use
Free(used) == Min(1..(Cardinality(used) + 1) \ used)

insertFederate(t, h, fh, name, via) ==
  LET F == t.n.fedn[h]
  IN  [Fail(t, fh \in DOMAIN F.fed \/ \E g \in DOMAIN F.fed : F.fed[g].name = name)
         EXCEPT !.n.fedn[h].fed =
           (fh :> [name |-> name, via |-> via, leaving |-> via = Gone]) @@ @]

eraseFederate(t, h, fh) == [t EXCEPT !.n.fedn[h].fed = Without(@, fh)]

getOrInsertConnect(t, h, c) ==
  IF c \in DOMAIN t.n.fedn[h].conn THEN t
  ELSE [t EXCEPT !.n.fedn[h].conn = (c :> FALSE) @@ @]

\* Wrong: the federates that are there already are not told.
pushFederation_NoNotify(t, h, c) ==
  IF t.n.fedn[h].conn[c] THEN t
  ELSE Send([t EXCEPT !.n.fedn[h].conn[c] = TRUE], c, About("Insert", t.n.fedn[h]))

\* A connect that becomes active is told of the federation and of its federates.
pushFederation(t, h, c) ==
  LET F == t.n.fedn[h]
      known == InOrder(DOMAIN F.fed \ Via(F, c))
      told == <<About("Insert", F)>>
                \o [i \in 1..Len(known) |-> JoinNotify(F, known[i])]
  IN  IF F.conn[c] THEN t
      ELSE [t EXCEPT !.n.fedn[h].conn[c] = TRUE,
                     !.down[c] = IF c \in t.n.open THEN @ \o told ELSE @]

\* A connect without federates is told to forget them all, and the federation.
eraseFederationExecutionAtConnect(t, h, c) ==
  LET F == t.n.fedn[h]
      all == InOrder(DOMAIN F.fed)
      told == [i \in 1..Len(all) |-> AboutFed("ResignNotify", F, all[i])]
                \o <<About("Erase", F)>>
  IN  IF c \notin ActiveConnects(F) THEN t
      ELSE [Fail(t, Via(F, c) # {}) EXCEPT
              !.n.fedn[h].conn[c] = FALSE,
              !.down[c] = IF c \in t.n.open THEN @ \o told ELSE @]

broadcastEraseFederationExecution(t, h) ==
  FoldSet(LAMBDA c, u : eraseFederationExecutionAtConnect(u, h, c), t, DOMAIN t.n.fedn[h].conn)

-----------------------------------------------------------------------------
(* The requests that the root answers *)

acceptAsRootCreate(t, c, m) ==
  LET answer(u, r) == Send(u, c, Response("CreateResponse", r))
      h == Free(DOMAIN t.n.fedn)
  IN  IF t.n.reg # 0 THEN answer(t, "alreadyExists")
      ELSE IF m.fdd = "inconsistent" THEN answer(t, "inconsistentFDD")
      ELSE answer([insertFederation(t, h, t.made + 1) EXCEPT !.made = @ + 1], "success")

\* Wrong: the handle is given away before the children have released it.
acceptAsRootDestroy_AtOnce(t, c, m) ==
  LET h == t.n.reg
  IN  IF h = 0 \/ DOMAIN t.n.fedn[h].fed # {}
      THEN Send(t, c, Response("DestroyResponse", "doesNotExist"))
      ELSE Send(erase(broadcastEraseFederationExecution(t, h), h), c,
                Response("DestroyResponse", "success"))

acceptAsRootDestroy(t, c, m) ==
  LET answer(u, r) == Send(u, c, Response("DestroyResponse", r))
      h == t.n.reg
  IN  IF h = 0 THEN answer(t, "doesNotExist")
      ELSE IF DOMAIN t.n.fedn[h].fed # {} THEN answer(t, "federatesCurrentlyJoined")
      ELSE answer(IF DOMAIN t.n.fedn[h].conn # {}
                  THEN eraseName(broadcastEraseFederationExecution(t, h), h)
                  ELSE erase(t, h), "success")

\* A federate without a name gets one made from its handle.
FullName(name, fh) == IF name = "" THEN <<"HLAfederate", fh>> ELSE <<name, 0>>

acceptAsRootJoin(t, c, m) ==
  LET h    == t.n.reg
      F    == t.n.fedn[h]
      fh   == Free(DOMAIN F.fed)
      in   == insertFederate(t, h, fh, FullName(m.name, fh), c)
      push == pushFederation(getOrInsertConnect(in, h, c), h, c)
      G    == push.n.fedn[h]
  IN  IF h = 0 THEN Send(t, c, JoinFailed("doesNotExist", <<"", 0>>))
      ELSE IF m.name # "" /\ \E g \in DOMAIN F.fed : F.fed[g].name = <<m.name, 0>>
        THEN Send(t, c, JoinFailed("nameInUse", <<m.name, 0>>))
      ELSE IF m.fdd = "inconsistent"
        THEN Send(t, c, JoinFailed("inconsistentFDD", <<m.name, 0>>))
      ELSE broadcastToChildren(Send(push, c, Joined(G, fh)), h, {c}, JoinNotify(G, fh))

acceptAsRoot(t, c, m) ==
  CASE m.type = "create"  -> acceptAsRootCreate(t, c, m)
    [] m.type = "destroy" -> acceptAsRootDestroy(t, c, m)
    [] m.type = "join"    -> acceptAsRootJoin(t, c, m)

forwardUpstreamMessage(t, c, m) ==
  IF t.root THEN acceptAsRoot(t, c, m)
  ELSE sendToParent([t EXCEPT !.n.pend = Append(@, c)], m)

-----------------------------------------------------------------------------
(* Messages from a child: resign and the release of a handle *)

\* Wrong: a connect is erased with the first federate that leaves.
acceptResign_NotIdle(t, c, h, fh) ==
  LET F == t.n.fedn[h]
      gone == eraseFederate(broadcastToChildren(t, h, {}, AboutFed("ResignNotify", F, fh)), h, fh)
  IN  IF F.fed[fh].leaving THEN t
      ELSE IF ~t.root
        THEN sendToParent([t EXCEPT !.n.fedn[h].fed[fh].leaving = TRUE],
                          AboutFed("Resign", F, fh))
      ELSE eraseFederationExecutionAtConnect(gone, h, c)

acceptResign(t, c, h, fh) ==
  LET F    == t.n.fedn[h]
      gone == eraseFederate(broadcastToChildren(t, h, {}, AboutFed("ResignNotify", F, fh)), h, fh)
  IN  IF fh \notin DOMAIN F.fed THEN Fail(t, TRUE)
      ELSE IF F.fed[fh].leaving THEN t
      ELSE IF ~t.root
        THEN sendToParent([t EXCEPT !.n.fedn[h].fed[fh].leaving = TRUE],
                          AboutFed("Resign", F, fh))
      ELSE IF Via(gone.n.fedn[h], c) = {} THEN eraseFederationExecutionAtConnect(gone, h, c)
      ELSE gone

\* All federates of a connect leave.
resignConnect(t, h, c) ==
  FoldLeft(LAMBDA u, fh : acceptResign([u EXCEPT !.n.fedn[h].fed[fh].via = Gone], c, h, fh),
           t, InOrder(Via(t.n.fedn[h], c)))

\* Wrong: the ambassador that resigns is not told to erase the federation.
acceptShutdown_Silent(t, c, h) == t

acceptShutdown(t, c, h) ==
  IF Via(t.n.fedn[h], c) = {} THEN eraseFederationExecutionAtConnect(t, h, c) ELSE t

acceptResignLeaf(t, c, m) ==
  LET F == t.n.fedn[m.h]
  IN  IF m.h \notin DOMAIN t.n.fedn \/ c \notin DOMAIN F.conn \/ Via(F, c) # {m.fh}
      THEN Fail(t, TRUE)
      ELSE acceptShutdown(resignConnect(t, m.h, c), c, m.h)

\* Wrong: a release is taken although the connect has become active again.
acceptRelease_Active(t, c, m) ==
  LET left == [t EXCEPT !.n.fedn[m.h].conn = Without(@, c)]
  IN  IF m.h \notin DOMAIN t.n.fedn THEN Fail(t, TRUE)
      ELSE IF c \notin DOMAIN t.n.fedn[m.h].conn THEN t
      ELSE IF DOMAIN left.n.fedn[m.h].conn # {} \/ t.n.reg # 0 THEN left
      ELSE erase(IF t.root THEN left ELSE sendToParent(left, m), m.h)

acceptRelease(t, c, m) ==
  LET left == [t EXCEPT !.n.fedn[m.h].conn = Without(@, c)]
      last == /\ DOMAIN left.n.fedn[m.h].conn = {}
              /\ t.n.reg = 0
  IN  IF m.h \notin DOMAIN t.n.fedn THEN Fail(t, TRUE)
      ELSE IF c \notin DOMAIN t.n.fedn[m.h].conn \ ActiveConnects(t.n.fedn[m.h]) THEN t
      ELSE IF ~last THEN left
      ELSE erase(IF t.root THEN left ELSE sendToParent(left, m), m.h)

\* Wrong: the federations keep the connect.
removeConnect_Kept(t, c) == [t EXCEPT !.n.open = @ \ {c}, !.down[c] = <<>>]

removeConnect(t, c) ==
  LET leave(u, h) == [resignConnect(u, h, c) EXCEPT !.n.fedn[h].conn = Without(@, c)]
      in == {h \in DOMAIN t.n.fedn : c \in DOMAIN t.n.fedn[h].conn}
      u  == FoldSet(LAMBDA h, v : leave(v, h), t, in)
  IN  [u EXCEPT !.n.open = @ \ {c}, !.down[c] = <<>>,
                !.n.pend = [i \in DOMAIN @ |-> IF @[i] = c THEN Gone ELSE @[i]]]

acceptFromChild(t, c, m) ==
  CASE m.type \in {"create", "destroy", "join"} -> forwardUpstreamMessage(t, c, m)
    [] m.type = "Resign"  -> IF m.h \in DOMAIN t.n.fedn THEN acceptResign(t, c, m.h, m.fh)
                             ELSE Fail(t, TRUE)
    [] m.type = "ResignLeaf" -> acceptResignLeaf(t, c, m)
    [] m.type = "Release" -> acceptRelease(t, c, m)
    [] m.type = "Close"   -> removeConnect(t, c)

-----------------------------------------------------------------------------
(* Messages from the parent *)

forwardDownstreamMessage(t, m) ==
  IF t.n.pend = <<>> THEN Fail(t, TRUE)
  ELSE [(IF Head(t.n.pend) = Gone THEN t ELSE Send(t, Head(t.n.pend), m))
          EXCEPT !.n.pend = Tail(@)]

acceptInsert(t, m) ==
  IF t.n.reg # 0 THEN Fail(t, TRUE)
  ELSE IF m.h \in DOMAIN t.n.fedn THEN [t EXCEPT !.n.reg = m.h]
  ELSE insertFederation(t, m.h, m.gen)

\* Wrong: a federation without connects is erased, and its handle not released.
acceptErase_NoRelease(t, m) ==
  IF DOMAIN t.n.fedn[m.h].conn # {}
  THEN eraseName(broadcastEraseFederationExecution(t, m.h), m.h)
  ELSE erase(t, m.h)

acceptErase(t, m) ==
  IF m.h \notin DOMAIN t.n.fedn THEN Fail(t, TRUE)
  ELSE IF DOMAIN t.n.fedn[m.h].conn # {}
    THEN eraseName(broadcastEraseFederationExecution(t, m.h), m.h)
  ELSE erase(sendToParent(t, About("Release", t.n.fedn[m.h])), m.h)

acceptJoinNotify(t, m) ==
  IF m.h \notin DOMAIN t.n.fedn THEN Fail(t, TRUE)
  ELSE broadcastToChildren(insertFederate(t, m.h, m.fh, m.name, Upstream), m.h, {}, m)

acceptResignNotify(t, m) ==
  LET c == t.n.fedn[m.h].fed[m.fh].via
      u == eraseFederate(broadcastToChildren(t, m.h, {}, m), m.h, m.fh)
  IN  IF m.h \notin DOMAIN t.n.fedn \/ m.fh \notin DOMAIN t.n.fedn[m.h].fed THEN Fail(t, TRUE)
      ELSE IF c \in {Gone, Upstream} \/ Via(u.n.fedn[m.h], c) # {} THEN u
      ELSE eraseFederationExecutionAtConnect(u, m.h, c)

\* The federate whose connect has died while it joined is to resign again: that request is
\* handled as one from the parent, and refused.
acceptJoinResponse(t, m) ==
  LET c    == Head(t.n.pend)
      push == IF c = Gone THEN t ELSE pushFederation(getOrInsertConnect(t, m.h, c), m.h, c)
      in   == insertFederate(push, m.h, m.fh, m.name, c)
      told == broadcastToChildren(in, m.h, {c}, JoinNotify(in.n.fedn[m.h], m.fh))
  IN  IF t.n.pend = <<>> THEN Fail(t, TRUE)
      ELSE IF m.result # "success" THEN forwardDownstreamMessage(t, m)
      ELSE IF m.h \notin DOMAIN t.n.fedn THEN Fail(t, TRUE)
      ELSE Fail(forwardDownstreamMessage(told, m), c = Gone)

acceptFromParent(t, m) ==
  CASE m.type \in {"CreateResponse", "DestroyResponse"} -> forwardDownstreamMessage(t, m)
    [] m.type = "JoinResponse" -> acceptJoinResponse(t, m)
    [] m.type = "Insert"       -> acceptInsert(t, m)
    [] m.type = "Erase"        -> acceptErase(t, m)
    [] m.type = "JoinNotify"   -> acceptJoinNotify(t, m)
    [] m.type = "ResignNotify" -> acceptResignNotify(t, m)

-----------------------------------------------------------------------------
(* The steps of the servers *)

Alive(s) == srv[s].open # {}

\* What is left of a channel whose sender is gone: the end may be lost, then it closes.
Cut(q) == {SubSeq(q, 1, i) \o <<Close>> : i \in 0..Len(q)}

\* A leaf server without child connects is idle and ends.
Commit(s, t, in, out) ==
  LET ends == s # Root /\ t.n.open = {}
  IN  /\ srv' = [srv EXCEPT ![s] = IF ends THEN NoServer ELSE t.n]
      /\ made' = t.made
      /\ failed' = t.err
      /\ \E q \in IF ends THEN Cut(t.up) ELSE {t.up} :
           up' = [n \in Nodes |-> IF n = s THEN q ELSE in[n]]
      /\ down' = [n \in Nodes |-> IF n \in Children(s) THEN t.down[n]
                                  ELSE IF n = s /\ ends THEN <<>> ELSE out[n]]

ServeChild(c) ==
  LET s == Parent[c]
  IN  /\ ~failed /\ c \in srv[s].open /\ up[c] # <<>>
      /\ \E t \in {acceptFromChild(Begin(s), c, Head(up[c]))} :
           Commit(s, t, [up EXCEPT ![c] = Tail(@)], down)
      /\ UNCHANGED amb

ServeParent(s) ==
  /\ ~failed /\ Alive(s) /\ down[s] # <<>>
  /\ \E t \in {acceptFromParent(Begin(s), Head(down[s]))} :
       Commit(s, t, up, [down EXCEPT ![s] = Tail(@)])
  /\ UNCHANGED amb

\* A process with a leaf server and its ambassadors dies.
Die(s) ==
  /\ s \in MayDie /\ Alive(s)
  /\ srv' = [srv EXCEPT ![s] = NoServer]
  /\ amb' = [a \in Ambassadors |-> IF Parent[a] = s
                THEN [amb[a] EXCEPT !.open = FALSE, !.wait = "none", !.fed = NoFederate]
                ELSE amb[a]]
  /\ \E q \in Cut(up[s]) :
       up' = [n \in Nodes |-> IF n = s THEN q ELSE IF Parent[n] = s THEN <<>> ELSE up[n]]
  /\ down' = [n \in Nodes |-> IF n = s \/ Parent[n] = s THEN <<>> ELSE down[n]]
  /\ UNCHANGED <<made, failed>>

-----------------------------------------------------------------------------
(* The calls of an ambassador *)

Calls(a, kind, m, wait) ==
  /\ kind \in Program[a] /\ amb[a].calls < MaxCalls[a]
  /\ amb[a].open /\ amb[a].wait = "none"
  /\ amb' = [amb EXCEPT ![a].wait = wait, ![a].calls = @ + 1]
  /\ up' = [up EXCEPT ![a] = Append(@, m)]
  /\ UNCHANGED <<srv, made, down, failed>>

\* A program may go on after a join that has timed out.
GoesOn(a) == amb[a].abandoned => "persist" \in Program[a]

createFederationExecution(a) ==
  \E fdd \in Modules : Calls(a, "create", Request("create", a, fdd), "create")

destroyFederationExecution(a) ==
  Calls(a, "destroy", Request("destroy", a, "consistent"), "destroy")

joinFederationExecution(a) ==
  /\ ~amb[a].fed.valid /\ GoesOn(a)
  /\ \E fdd \in Modules : Calls(a, "join", Request("join", a, fdd), "join")

resignFederationExecution(a) ==
  /\ amb[a].fed.valid /\ GoesOn(a)
  /\ Calls(a, "resign", AboutFed("ResignLeaf", amb[a].fed, amb[a].fed.fh), "erase")

\* disconnect refuses a member, the destructor of the ambassador does not.
close(a) ==
  /\ "close" \in Program[a] /\ amb[a].open /\ amb[a].wait = "none"
  /\ amb' = [amb EXCEPT ![a].open = FALSE, ![a].fed = NoFederate]
  /\ up' = [up EXCEPT ![a] = Append(@, Close)]
  /\ UNCHANGED <<srv, made, down, failed>>

\* A wait for an answer of the root ends without one.
Timeout(a) ==
  /\ "timeout" \in Program[a] /\ amb[a].wait \in {"create", "destroy", "join"}
  /\ amb' = [amb EXCEPT ![a].wait = "none",
                ![a].abandoned = @ \/ amb[a].wait = "join",
                ![a].fed = IF amb[a].wait = "join" THEN NoFederate ELSE @]
  /\ UNCHANGED <<srv, made, up, down, failed>>

-----------------------------------------------------------------------------
(* What an ambassador does with a message *)

acceptInternalMessage(f, m) ==
  CASE m.type = "Insert" -> [NoFederate EXCEPT !.valid = TRUE, !.h = m.h, !.gen = m.gen]
    [] m.type = "JoinResponse" /\ f.valid -> [f EXCEPT !.fh = m.fh]
    [] m.type = "JoinNotify"   /\ f.valid -> [f EXCEPT !.others = @ \cup {m.fh}]
    [] m.type = "ResignNotify" /\ f.valid -> [f EXCEPT !.others = @ \ {m.fh}]
    [] OTHER -> f

\* The join call takes a response for its own by the federate name.
MatchesJoin(a, m) ==
  \/ m.name = <<FederateName[a], 0>>
  \/ FederateName[a] = "" /\ m.name[1] = "HLAfederate"

Receive(a) ==
  LET m == Head(down[a])
      w == amb[a].wait
      f == amb[a].fed
      ends == \/ w = "create" /\ m.type = "CreateResponse"
              \/ w = "destroy" /\ m.type = "DestroyResponse"
              \/ w = "join" /\ m.type = "JoinResponse" /\ MatchesJoin(a, m)
              \/ w = "erase" /\ m.type = "Erase"
  IN  /\ amb[a].open /\ down[a] # <<>>
      /\ down' = [down EXCEPT ![a] = Tail(@)]
      /\ amb' = [amb EXCEPT
           ![a].wait = IF ends THEN "none" ELSE @,
           ![a].fed = CASE w = "erase" -> IF ends THEN NoFederate ELSE f
                        [] w = "join" /\ ends /\ m.result # "success" -> NoFederate
                        [] OTHER -> acceptInternalMessage(f, m)]
      /\ up' = IF w = "erase" /\ ends THEN [up EXCEPT ![a] = Append(@, About("Release", m))] ELSE up
      /\ UNCHANGED <<srv, made, failed>>

-----------------------------------------------------------------------------

Next ==
  \/ \E c \in Nodes : ServeChild(c)
  \/ \E s \in Leaves : ServeParent(s) \/ Die(s)
  \/ \E a \in Ambassadors :
       \/ createFederationExecution(a) \/ destroyFederationExecution(a)
       \/ joinFederationExecution(a) \/ resignFederationExecution(a)
       \/ close(a) \/ Timeout(a) \/ Receive(a)

Spec == Init /\ [][Next]_vars

\* Servers handle what has arrived, and so does an ambassador that waits in a call; nobody
\* has to call, to look for messages outside of a call, to close or to die.  This is weak
\* fairness of ServeChild, ServeParent and Receive with what enables them written out.
ChildReady(c)  == ~failed /\ c \in srv[Parent[c]].open /\ up[c] # <<>>
ParentReady(s) == ~failed /\ Alive(s) /\ down[s] # <<>>
Waits(a)       == amb[a].wait # "none" /\ down[a] # <<>>

FairSpec ==
  /\ Spec
  /\ \A c \in Nodes : []<>~ChildReady(c) \/ []<><<ServeChild(c)>>_vars
  /\ \A s \in Leaves : []<>~ParentReady(s) \/ []<><<ServeParent(s)>>_vars
  /\ \A a \in Ambassadors : []<>~Waits(a) \/ []<><<Receive(a)>>_vars

-----------------------------------------------------------------------------
(* Properties *)

TypeOK ==
  /\ \A s \in Servers :
       /\ srv[s].open \subseteq Children(s)
       /\ srv[s].reg \in {0} \cup DOMAIN srv[s].fedn
       /\ srv[s].pend \in Seq(Children(s) \cup {Gone})
       /\ \A h \in DOMAIN srv[s].fedn :
            LET F == srv[s].fedn[h]
            IN  /\ F.h = h /\ F.gen \in 1..made
                /\ DOMAIN F.conn \subseteq srv[s].open
                /\ \A fh \in DOMAIN F.fed : F.fed[fh].via \in DOMAIN F.conn \cup {Gone, Upstream}
  /\ \A a \in Ambassadors : amb[a].wait \in {"none", "create", "destroy", "join", "erase"}
  /\ made \in Nat /\ failed \in BOOLEAN

\* No server meets a message that it has to refuse: none for a federation or a federate that
\* it does not know, none that introduces a known one, no answer without a request
\* (the MessageErrors of ServerNode.cpp), and its assertions hold.
NoMessageError == ~failed

\* A message is never taken for one of another federation that has got the same handle.
Concerns(q, fedn) ==
  (q # <<>> /\ "h" \in DOMAIN Head(q) /\ Head(q).h \in DOMAIN fedn)
    => fedn[Head(q).h].gen = Head(q).gen
NoCrossTalk ==
  /\ \A c \in Nodes : c \in srv[Parent[c]].open => Concerns(up[c], srv[Parent[c]].fedn)
  /\ \A s \in Leaves : Concerns(down[s], srv[s].fedn)

\* A federate whose join has returned is known to its server and to the root, under its
\* handle and through its connect, until it resigns: no destroy and nobody else's resign,
\* crash or release takes its federation away.
KnownAt(s, f, c) ==
  /\ f.h \in DOMAIN srv[s].fedn
  /\ LET F == srv[s].fedn[f.h]
     IN  /\ F.gen = f.gen /\ srv[s].reg = f.h
         /\ f.fh \in DOMAIN F.fed
         /\ F.fed[f.fh].via = c /\ ~F.fed[f.fh].leaving
         /\ c \in ActiveConnects(F)
MembersKnown ==
  \A a \in Ambassadors :
    (amb[a].wait # "erase" /\ amb[a].fed.fh # 0) =>
      /\ KnownAt(Parent[a], amb[a].fed, a)
      /\ Parent[a] # Root => KnownAt(Root, amb[a].fed, Parent[a])

\* When nothing is on the way and nobody waits, all agree on who is a member of the federation
\* that has the name: there are no federates left of those that resigned, closed or died, at no
\* server and no ambassador.
Quiet ==
  /\ \A n \in Nodes : up[n] = <<>> /\ down[n] = <<>>
  /\ \A a \in Ambassadors : amb[a].wait = "none"
Members(h) == {amb[a].fed.fh : a \in {b \in Ambassadors : amb[b].fed.h = h}} \ {0}
Abandoned == {a \in Ambassadors : amb[a].abandoned}
ViewsAgree ==
  Quiet /\ Abandoned = {} =>
    /\ \A s \in Servers : LET h == srv[s].reg IN h # 0 =>
         /\ h = srv[Root].reg
         /\ DOMAIN srv[s].fedn[h].fed = Members(h)
         /\ \A c \in DOMAIN srv[s].fedn[h].conn : Via(srv[s].fedn[h], c) # {}
    /\ \A a \in Ambassadors :
         LET f == amb[a].fed IN f.valid => f.others = Members(f.h) \ {f.fh}

\* Every call of an ambassador returns unless its process dies.
CallsReturn == \A a \in Ambassadors : amb[a].wait # "none" ~> amb[a].wait = "none"

\* The handle of a destroyed federation becomes free, if meanwhile no new federation has
\* taken the name and no connect has been lost.
Zombie(h) == h \in DOMAIN srv[Root].fedn /\ srv[Root].reg # h
Lost == \E a \in Ambassadors : ~amb[a].open
HandleReleased ==
  \A h \in 1..2 : Zombie(h) ~> (~Zombie(h) \/ srv[Root].reg # 0 \/ Lost)

=============================================================================
