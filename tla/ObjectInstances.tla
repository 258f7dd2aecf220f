--------------------------- MODULE ObjectInstances ---------------------------
(***************************************************************************)
(* Declarations and object instances of one federation (ServerNode.cpp,    *)
(* ServerModel.cpp, Ambassador.h, Federate.cpp): publications are made     *)
(* known to all servers, subscriptions are sent towards the publishers,    *)
(* and objects are inserted along the subscriptions.  Handles and names of *)
(* objects are given out by the root; every server counts, per connect,    *)
(* who holds a handle, and the root reuses it when nobody does.            *)
(*                                                                         *)
(* All federates have joined.  Connects are reliable FIFOs: up[n] from a   *)
(* node n to its parent and down[n] back.  An object class has two         *)
(* attributes: HLAprivilegeToDeleteObject, whose receivers learn of an     *)
(* object, and one with values, whose receivers get updates; both are      *)
(* published and subscribed together.  The number gen of the time that a   *)
(* handle was given out goes with it, gone and late record that an object  *)
(* had been deleted, dropped and lost that an ambassador no longer knows   *)
(* it; no step depends on them.                                            *)
(***************************************************************************)
EXTENDS Naturals, SequencesExt

CONSTANTS Root, Leaves, Ambassadors,
          Parent,               \* the server that a leaf server or an ambassador is connected to
          ObjectClasses, InteractionClasses,
          ParentClass,          \* the base class of a class, NoClass if there is none
          NoClass,
          Names,                \* the names of objects that are reserved
          Plans                 \* what the ambassadors do: the calls that each may make, with
                                \* their class or name, the bound on their number, and how many
                                \* handles it asks for when it joins

Servers  == {Root} \cup Leaves
Nodes    == Leaves \cup Ambassadors
Classes  == ObjectClasses \cup InteractionClasses
Children(s) == {c \in Nodes : Parent[c] = s}
None     == "none"      \* no connect
Upstream == "upstream"  \* the connect to the parent
Deletes  == <<"delete", "own">>
Resigns  == <<"resign", "self">>

Declarations == {"publish", "unpublish", "subscribe", "unsubscribe"} \X Classes
NameCalls    == {"reserve", "release"} \X Names

ASSUME TopologyAssumption ==
  /\ Root \notin Nodes /\ Leaves \cap Ambassadors = {}
  /\ {None, Upstream} \cap Nodes = {}
  /\ Parent \in [Nodes -> Servers] /\ \A s \in Leaves : Parent[s] = Root
  /\ ObjectClasses \cap InteractionClasses = {} /\ NoClass \notin Classes
  /\ \A c \in ObjectClasses : ParentClass[c] \in ObjectClasses \cup {NoClass}
  /\ \A c \in InteractionClasses : ParentClass[c] \in InteractionClasses \cup {NoClass}
  /\ "" \notin Names
  /\ \A p \in DOMAIN Plans : \A a \in Ambassadors :
       /\ Plans[p].handles[a] \in Nat /\ Plans[p].most[a] \in Nat
       /\ Plans[p].calls[a] \subseteq Declarations \cup NameCalls \cup {Deletes, Resigns}
                                        \cup ({"register", "registerNamed"} \X ObjectClasses)

\* Every leaf server keeps a federate.
ASSUME StaysAssumption ==
  \A p \in DOMAIN Plans : \A s \in Leaves : \E a \in Ambassadors :
    Parent[a] = s /\ Resigns \notin Plans[p].calls[a]

VARIABLES
  plan,   \* which of the plans is followed
  srv,    \* per server: its open child connects, the publishing and subscribing connects per
          \* class, the object instances by handle, its federates
  made,   \* how often the root has given out a handle
  amb,    \* per ambassador: what it has declared, its handles, its objects, the call it is in
  up,     \* messages on the way to the parent
  down,   \* messages on the way from the parent
  failed  \* a message has been met that is refused with an error, or an assertion was wrong

vars == <<plan, srv, made, amb, up, down, failed>>

Nothing == [x \in {} |-> 0]

Ancestors[c \in Classes] ==
  {c} \cup IF ParentClass[c] = NoClass THEN {} ELSE Ancestors[ParentClass[c]]

HandlesRequest(a, count) == [type |-> "HandlesRequest", a |-> a, count |-> count]

Init ==
  /\ plan \in DOMAIN Plans
  /\ srv = [s \in Servers |->
              [open |-> Children(s), obj |-> Nothing, ignored |-> {},
               pub |-> [c \in Classes |-> {}], sub |-> [c \in Classes |-> {}],
               fed |-> [a \in Ambassadors |-> "in"]]]
  /\ made = 0
  /\ amb = [a \in Ambassadors |->
              [in |-> TRUE, pub |-> {}, sub |-> {}, pool |-> Nothing, res |-> Nothing,
               obj |-> Nothing, dropped |-> {}, lost |-> {}, wait |-> NoClass, cb |-> <<>>, calls |-> 0]]
  /\ up = [n \in Nodes |-> IF n \in Ambassadors /\ Plans[plan].handles[n] > 0
                           THEN <<HandlesRequest(n, Plans[plan].handles[n])>> ELSE <<>>]
  /\ down = [n \in Nodes |-> <<>>]
  /\ failed = FALSE

-----------------------------------------------------------------------------
(* Messages *)

Publication(c, on)  == [type |-> "Publication", cls |-> c, on |-> on]
Subscription(c, on) == [type |-> "Subscription", cls |-> c, on |-> on]
Insert(h, o, c)     == [type |-> "Insert", h |-> h, gen |-> o.gen, name |-> o.name, cls |-> c,
                        late |-> o.gone]
Delete(h, gen)      == [type |-> "Delete", h |-> h, gen |-> gen]
Release(pairs)      == [type |-> "Release", pairs |-> pairs]   \* of handles and their gens

\* An ambassador does nothing with these.
Ignored == {"Publication", "Subscription", "ResignNotify"}

-----------------------------------------------------------------------------
(* The state t of a server while it handles a message *)

Begin(s) == [root |-> s = Root, n |-> srv[s], made |-> made, err |-> FALSE,
             up |-> IF s = Root THEN <<>> ELSE up[s], down |-> [c \in Children(s) |-> down[c]]]

Fail(t, cond) == [t EXCEPT !.err = @ \/ cond]

Connects(t) == t.n.open \cup (IF t.root THEN {} ELSE {Upstream})

Send(t, c, m) ==
  CASE c = Upstream -> [t EXCEPT !.up = Append(@, m)]
    [] c \in t.n.open /\ ~(c \in Ambassadors /\ m.type \in Ignored) ->
         [t EXCEPT !.down[c] = Append(@, m)]
    [] OTHER -> t
SendAll(t, S, m) == FoldSet(LAMBDA c, u : Send(u, c, m), t, S)

InOrder(S) == SetToSortSeq(S, <)
Without(f, S) == [x \in DOMAIN f \ S |-> f[x]]
Change(S, c, on) == IF on THEN S \cup {c} ELSE S \ {c}

\* HandleAllocator: the smallest handle that is not in use
Free(used) == Min(1..(Cardinality(used) + 1) \ used)

NewObject(gen, name) == [gen |-> gen, name |-> name, cls |-> NoClass, ref |-> {}, rcv |-> {},
                         upd |-> {}, owner |-> None, gone |-> FALSE]

NameInUse(n, name) == name # "" /\ \E h \in DOMAIN n.obj : n.obj[h].name = name

insertObjectInstance(t, h, gen, name) ==
  [Fail(t, h \in DOMAIN t.n.obj \/ NameInUse(t.n, name))
     EXCEPT !.n.obj = (h :> NewObject(gen, name)) @@ @]

reference(t, h, S) == [t EXCEPT !.n.obj[h].ref = @ \cup S]

-----------------------------------------------------------------------------
(* Publications and subscriptions *)

\* Wrong: the one connect that was not told by the first change is not told by the second.
Propagate_OnlyFirst(S, c, on, others) ==
  IF (c \in S) # on /\ S \ {c} = {} THEN others ELSE {}

\* BroadcastConnectHandleSet: whom a change by c concerns.  A connect is told whether anybody
\* else is in the set: all others when c is the only one, the one other when there are two.
Propagate(S, c, on, others) ==
  LET rest == S \ {c}
  IN  CASE (c \in S) = on        -> {}
        [] rest = {}             -> others
        [] Cardinality(rest) = 1 -> rest
        [] OTHER                 -> {}

Published(t, c, m) ==
  SendAll([t EXCEPT !.n.pub[m.cls] = Change(@, c, m.on)],
          Propagate(t.n.pub[m.cls], c, m.on, Connects(t) \ {c}), m)

\* A publisher is told of the subscriptions of the others.
changeObjectClassPublication(t, c, m) ==
  IF t.n.sub[m.cls] \ {c} = {} THEN Published(t, c, m)
  ELSE Send(Published(t, c, m), c, Subscription(m.cls, m.on))

changeInteractionClassPublication(t, c, m) ==
  IF ~m.on \/ t.n.sub[m.cls] \ {c} = {} THEN Published(t, c, m)
  ELSE Send(Published(t, c, m), c, Subscription(m.cls, TRUE))

\* The connects that subscribe to a class or to a base class of it
Cumulative(n, c) == UNION {n.sub[b] : b \in Ancestors[c]}

Subscribed(t, c, m, told) == SendAll([t EXCEPT !.n.sub[m.cls] = Change(@, c, m.on)], told, m)

changeInteractionClassSubscription(t, c, m) ==
  Subscribed(t, c, m, Propagate(t.n.sub[m.cls], c, m.on, t.n.pub[m.cls] \ {c}))

\* Wrong: an object that is pushed is not held for the connect.
Reroute_NotHeld(t, c, on, objs, new) ==
  [t EXCEPT !.n.obj = [h \in DOMAIN @ |->
     IF h \notin objs THEN @[h]
     ELSE [@[h] EXCEPT !.upd = Change(@, c, on), !.rcv = IF on THEN @ \cup {c} ELSE @]]]

\* Wrong: with its subscription a connect is also taken off the receivers of deletes.
Reroute_All(t, c, on, objs, new) ==
  [t EXCEPT !.n.obj = [h \in DOMAIN @ |->
     IF h \notin objs THEN @[h]
     ELSE [@[h] EXCEPT !.upd = Change(@, c, on), !.rcv = Change(@, c, on),
                       !.ref = IF h \in new /\ c # Upstream THEN @ \cup {c} ELSE @]]]

\* The objects of the classes whose subscription by c has changed are routed to c or no longer;
\* c learns of those that it does not know, and is never taken off the receivers of deletes.
Reroute(t, c, on, objs, new) ==
  [t EXCEPT !.n.obj = [h \in DOMAIN @ |->
     IF h \notin objs THEN @[h]
     ELSE [@[h] EXCEPT !.upd = Change(@, c, on),
                       !.rcv = IF on THEN @ \cup {c} ELSE @,
                       !.ref = IF h \in new /\ c # Upstream THEN @ \cup {c} ELSE @]]]

\* Wrong: objects of derived classes are not considered.
changeObjectClassSubscription_NotDerived(t, c, m) ==
  LET u    == Subscribed(t, c, m, Propagate(t.n.sub[m.cls], c, m.on, t.n.pub[m.cls] \ {c})
                                    \cap t.n.pub[m.cls])
      objs == {h \in DOMAIN t.n.obj : t.n.obj[h].cls = m.cls /\ t.n.obj[h].owner # c}
      new  == {h \in objs : m.on /\ c \notin t.n.obj[h].rcv}
  IN  FoldLeft(LAMBDA v, h : Send(v, c, Insert(h, t.n.obj[h], t.n.obj[h].cls)),
               Reroute(u, c, m.on, objs, new), InOrder(new))

changeObjectClassSubscription(t, c, m) ==
  LET u    == Subscribed(t, c, m, Propagate(t.n.sub[m.cls], c, m.on, t.n.pub[m.cls] \ {c})
                                    \cap t.n.pub[m.cls])
      changed == {k \in Classes : (c \in Cumulative(t.n, k)) # (c \in Cumulative(u.n, k))}
      objs == {h \in DOMAIN t.n.obj : t.n.obj[h].cls \in changed /\ t.n.obj[h].owner # c}
      new  == {h \in objs : m.on /\ c \notin t.n.obj[h].rcv}
  IN  FoldLeft(LAMBDA v, h : Send(v, c, Insert(h, t.n.obj[h], t.n.obj[h].cls)),
               Reroute(u, c, m.on, objs, new), InOrder(new))

acceptPublication(t, c, m) ==
  IF m.cls \in ObjectClasses THEN changeObjectClassPublication(t, c, m)
  ELSE changeInteractionClassPublication(t, c, m)

acceptSubscription(t, c, m) ==
  IF m.cls \in ObjectClasses THEN changeObjectClassSubscription(t, c, m)
  ELSE changeInteractionClassSubscription(t, c, m)

-----------------------------------------------------------------------------
(* Handles and names *)

\* The root gives a handle, with a name or without, to connect c.
Take(t, c, name) ==
  LET h == Free(DOMAIN t.n.obj)
  IN  reference([insertObjectInstance(t, h, t.made + 1, name) EXCEPT !.made = @ + 1], h, {c})

Taken(t, u) == [h \in DOMAIN u.n.obj \ DOMAIN t.n.obj |-> u.n.obj[h].gen]

acceptHandlesRequest(t, c, m) ==
  LET u == FoldLeft(LAMBDA v, i : Take(v, c, ""), t, [i \in 1..m.count |-> i])
  IN  IF ~t.root THEN Send(t, Upstream, m)
      ELSE Send(u, c, [type |-> "HandlesResponse", a |-> m.a, new |-> Taken(t, u)])

\* All names of a request are reserved, or none.
acceptReserveRequest(t, c, m) ==
  LET ok == \A x \in m.names : ~NameInUse(t.n, x)
      u  == IF ok THEN FoldSet(LAMBDA x, v : Take(v, c, x), t, m.names) ELSE t
      new == [h \in DOMAIN Taken(t, u) |-> [gen |-> u.n.obj[h].gen, name |-> u.n.obj[h].name]]
  IN  IF t.n.fed[m.a] = "out" THEN Fail(t, TRUE)
      ELSE IF ~t.root THEN Send(t, Upstream, m)
      ELSE Send(u, c, [type |-> "ReserveResponse", a |-> m.a, names |-> m.names, new |-> new])

\* A response to a federate that has left meanwhile is ignored.
GiveTo(t, m, named) ==
  LET hs == InOrder(DOMAIN m.new)
      u  == FoldLeft(LAMBDA v, h : reference(insertObjectInstance(v, h, named[h][1], named[h][2]),
                                             h, {m.a}), t, hs)
  IN  CASE t.n.fed[m.a] = "out"     -> Fail(t, TRUE)
        [] t.n.fed[m.a] = "leaving" -> [t EXCEPT !.n.ignored = @ \cup DOMAIN m.new]
        [] OTHER                    -> Send(u, m.a, m)

acceptHandlesResponse(t, m) == GiveTo(t, m, [h \in DOMAIN m.new |-> <<m.new[h], "">>])
acceptReserveResponse(t, m) == GiveTo(t, m, [h \in DOMAIN m.new |-> <<m.new[h].gen, m.new[h].name>>])

\* A connect no longer holds an object; whoever holds it last gives up the handle.
Forget(o, c) == [o EXCEPT !.ref = @ \ {c}, !.rcv = @ \ {c}, !.upd = @ \ {c},
                          !.owner = IF @ = c THEN None ELSE @]

\* Wrong: a released handle is free, whoever else holds it.
ReleaseAll_Any(t, c, hs) ==
  LET v == [t EXCEPT !.n.obj = Without(@, hs)]
  IN  IF t.root \/ hs = {} THEN v
      ELSE Send(v, Upstream, Release({<<h, t.n.obj[h].gen>> : h \in hs}))

ReleaseAll(t, c, hs) ==
  LET u    == [t EXCEPT !.n.obj = [h \in DOMAIN @ |-> IF h \in hs THEN Forget(@[h], c) ELSE @[h]]]
      free == {h \in hs : u.n.obj[h].ref = {}}
      v    == [u EXCEPT !.n.obj = Without(@, free)]
  IN  IF t.root \/ free = {} THEN v
      ELSE Send(v, Upstream, Release({<<h, t.n.obj[h].gen>> : h \in free}))

\* unreference asserts that the connect holds the object (ServerModel.cpp:201).
acceptRelease(t, c, m) ==
  LET hs == {p[1] : p \in m.pairs}
  IN  IF \E h \in hs : h \notin DOMAIN t.n.obj \/ c \notin t.n.obj[h].ref THEN Fail(t, TRUE)
      ELSE ReleaseAll(t, c, hs)

-----------------------------------------------------------------------------
(* Objects *)

\* Wrong: an object that nobody here holds is ignored.
acceptInsert_NotGivenBack(t, c, m) ==
  LET to    == Cumulative(t.n, m.cls) \ {c, Upstream}
      known == m.h \in DOMAIN t.n.obj
      u     == reference(IF known THEN t ELSE insertObjectInstance(t, m.h, m.gen, m.name), m.h, to)
      o     == u.n.obj[m.h]
      all   == IF o.cls = NoClass THEN Cumulative(t.n, m.cls) ELSE {}
      p     == [o EXCEPT !.cls = m.cls, !.rcv = (@ \cup all) \ {c}, !.upd = (@ \cup all) \ {c},
                         !.owner = c, !.gone = @ \/ m.late]
  IN  IF ~known /\ to = {} THEN t
      ELSE SendAll([u EXCEPT !.n.obj[m.h] = p], p.rcv, m)

\* An object that nobody here holds or wants to hold is given back to the parent.
acceptInsert(t, c, m) ==
  LET to    == Cumulative(t.n, m.cls) \ {c, Upstream}
      known == m.h \in DOMAIN t.n.obj
      u     == reference(IF known THEN t ELSE insertObjectInstance(t, m.h, m.gen, m.name), m.h, to)
      o     == u.n.obj[m.h]
      all   == IF o.cls = NoClass THEN Cumulative(t.n, m.cls) ELSE {}
      p     == [o EXCEPT !.cls = m.cls, !.rcv = (@ \cup all) \ {c}, !.upd = (@ \cup all) \ {c},
                         !.owner = c, !.gone = @ \/ m.late]
  IN  IF ~known /\ to = {}
      THEN Send(Fail(t, c # Upstream), Upstream, Release({<<m.h, m.gen>>}))
      ELSE SendAll([Fail(u, o.cls \notin {NoClass, m.cls} \/ o.ref = {})
                      EXCEPT !.n.obj[m.h] = p], p.rcv, m)

\* Also for a delete with a time stamp
acceptDelete(t, c, m) ==
  LET o == t.n.obj[m.h]
  IN  IF m.h \notin DOMAIN t.n.obj THEN t
      ELSE IF o.cls = NoClass \/ c \in o.rcv THEN Fail(t, TRUE)
      ELSE SendAll([t EXCEPT !.n.obj[m.h].gone = TRUE], o.rcv, m)

\* A federate leaves, with its subscriptions, its objects, its handles and its publications.
resignConnect(t, c) ==
  LET unsubscribed == FoldSet(LAMBDA k, v : acceptSubscription(v, c, Subscription(k, FALSE)), t,
                              {k \in Classes : c \in t.n.sub[k]})
      owned    == {h \in DOMAIN t.n.obj : t.n.obj[h].owner = c}
      deleted  == FoldLeft(LAMBDA v, h : acceptDelete(v, c, Delete(h, t.n.obj[h].gen)),
                           unsubscribed, InOrder(owned))
      released == ReleaseAll(deleted, c, {h \in DOMAIN t.n.obj : c \in t.n.obj[h].ref})
  IN  FoldSet(LAMBDA k, v : acceptPublication(v, c, Publication(k, FALSE)), released,
              {k \in Classes : c \in t.n.pub[k]})

\* The federate is erased by the root; the other servers hear of it from there.
acceptResign(t, a) ==
  IF t.root THEN SendAll([t EXCEPT !.n.fed[a] = "out"], t.n.open,
                         [type |-> "ResignNotify", a |-> a])
  ELSE Send([t EXCEPT !.n.fed[a] = "leaving"], Upstream, [type |-> "Resign", a |-> a])

removeConnect(t, a) ==
  LET u == acceptResign([resignConnect(t, a) EXCEPT !.n.open = @ \ {a}], a)
  IN  [u EXCEPT !.n.obj = [h \in DOMAIN @ |-> Forget(@[h], a)], !.down[a] = <<>>]

acceptResignNotify(t, m) == SendAll([t EXCEPT !.n.fed[m.a] = "out"], t.n.open, m)

accept(t, c, m) ==
  CASE m.type = "Publication"     -> acceptPublication(t, c, m)
    [] m.type = "Subscription"    -> acceptSubscription(t, c, m)
    [] m.type = "HandlesRequest"  -> acceptHandlesRequest(t, c, m)
    [] m.type = "HandlesResponse" -> acceptHandlesResponse(t, m)
    [] m.type = "ReserveRequest"  -> acceptReserveRequest(t, c, m)
    [] m.type = "ReserveResponse" -> acceptReserveResponse(t, m)
    [] m.type = "Release"         -> acceptRelease(t, c, m)
    [] m.type = "Insert"          -> acceptInsert(t, c, m)
    [] m.type = "Delete"          -> acceptDelete(t, c, m)
    [] m.type = "Resign"          -> acceptResign(t, m.a)
    [] m.type = "ResignNotify"    -> acceptResignNotify(t, m)
    [] m.type = "Close"           -> removeConnect(t, c)

-----------------------------------------------------------------------------
(* The steps of the servers *)

Commit(s, t, in, out) ==
  /\ srv' = [srv EXCEPT ![s] = t.n]
  /\ made' = t.made
  /\ failed' = t.err
  /\ up' = [n \in Nodes |-> IF n = s THEN t.up ELSE in[n]]
  /\ down' = [n \in Nodes |-> IF n \in Children(s) THEN t.down[n] ELSE out[n]]
  /\ UNCHANGED <<plan, amb>>

ServeChild(c) ==
  /\ ~failed /\ up[c] # <<>>
  /\ \E t \in {accept(Begin(Parent[c]), c, Head(up[c]))} :
       Commit(Parent[c], t, [up EXCEPT ![c] = Tail(@)], down)

ServeParent(s) ==
  /\ ~failed /\ down[s] # <<>>
  /\ \E t \in {accept(Begin(s), Upstream, Head(down[s]))} :
       Commit(s, t, up, [down EXCEPT ![s] = Tail(@)])

-----------------------------------------------------------------------------
(* The calls of an ambassador *)

\* Ambassador a makes a call: it changes its state to A and sends the messages ms.
Calls(a, call, A, ms) ==
  /\ ~failed /\ call \in Plans[plan].calls[a] /\ amb[a].calls < Plans[plan].most[a]
  /\ amb[a].in /\ amb[a].wait = NoClass
  /\ amb' = [amb EXCEPT ![a] = [A EXCEPT !.calls = @ + 1]]
  /\ up' = [up EXCEPT ![a] = @ \o ms]
  /\ UNCHANGED <<plan, srv, made, down, failed>>

publish(a, c) ==
  /\ c \notin amb[a].pub
  /\ Calls(a, <<"publish", c>>, [amb[a] EXCEPT !.pub = @ \cup {c}], <<Publication(c, TRUE)>>)

unpublish(a, c) ==
  /\ c \in amb[a].pub
  /\ Calls(a, <<"unpublish", c>>, [amb[a] EXCEPT !.pub = @ \ {c}], <<Publication(c, FALSE)>>)

subscribe(a, c) ==
  /\ c \notin amb[a].sub
  /\ Calls(a, <<"subscribe", c>>, [amb[a] EXCEPT !.sub = @ \cup {c}], <<Subscription(c, TRUE)>>)

\* The objects of others that are known as objects of the class are released, even when the
\* class of the object or another base class of it is still subscribed.
unsubscribe(a, c) ==
  LET A  == amb[a]
      hs == InOrder({h \in DOMAIN A.obj : A.obj[h].cls = c /\ ~A.obj[h].owned})
      other == \E k \in A.sub \ {c} : c \in Ancestors[k] \/ k \in Ancestors[c]
  IN  /\ c \in A.sub
      /\ Calls(a, <<"unsubscribe", c>>,
               [A EXCEPT !.sub = @ \ {c}, !.obj = Without(@, ToSet(hs)),
                         !.lost = IF other THEN @ \cup {<<h, A.obj[h].gen>> : h \in ToSet(hs)}
                                  ELSE @],
               <<Subscription(c, FALSE)>>
                 \o [i \in 1..Len(hs) |-> Release({<<hs[i], A.obj[hs[i]].gen>>})])

Owned(gen, name, c) == [gen |-> gen, name |-> name, cls |-> c, owned |-> TRUE, late |-> FALSE]

InsertOwn(h, o) == [type |-> "Insert", h |-> h, gen |-> o.gen, name |-> o.name, cls |-> o.cls,
                    late |-> FALSE]

\* A free handle of the pool is taken for a new object.
TakeFree(A, c) ==
  LET h == Min(DOMAIN A.pool)
  IN  [A EXCEPT !.obj = (h :> Owned(A.pool[h], "", c)) @@ @, !.pool = Without(@, {h}),
                !.wait = NoClass]

\* Wrong: another handle is asked for only when one has been taken.
registerObjectInstance_AsksLater(a, c) ==
  LET A == amb[a]
      h == Min(DOMAIN A.pool)
  IN  /\ c \in A.pub
      /\ IF DOMAIN A.pool = {}
         THEN Calls(a, <<"register", c>>, [A EXCEPT !.wait = c], <<>>)
         ELSE Calls(a, <<"register", c>>, TakeFree(A, c),
                    <<HandlesRequest(a, 1), InsertOwn(h, Owned(A.pool[h], "", c))>>)

\* For every object another handle is asked for; without a free one the call waits.
registerObjectInstance(a, c) ==
  LET A == amb[a]
      h == Min(DOMAIN A.pool)
  IN  /\ c \in A.pub
      /\ IF DOMAIN A.pool = {}
         THEN Calls(a, <<"register", c>>, [A EXCEPT !.wait = c], <<HandlesRequest(a, 1)>>)
         ELSE Calls(a, <<"register", c>>, TakeFree(A, c),
                    <<HandlesRequest(a, 1), InsertOwn(h, Owned(A.pool[h], "", c))>>)

registerNamedObjectInstance(a, c, name) ==
  LET A == amb[a]
      o == Owned(A.res[name].gen, name, c)
  IN  /\ c \in A.pub /\ name \in DOMAIN A.res
      /\ Calls(a, <<"registerNamed", c>>,
               [A EXCEPT !.res = Without(@, {name}), !.obj = (A.res[name].h :> o) @@ @],
               <<InsertOwn(A.res[name].h, o)>>)

reserveObjectInstanceName(a, name) ==
  Calls(a, <<"reserve", name>>, amb[a],
        <<[type |-> "ReserveRequest", a |-> a, names |-> {name}]>>)

releaseObjectInstanceName(a, name) ==
  LET A == amb[a]
  IN  /\ name \in DOMAIN A.res
      /\ Calls(a, <<"release", name>>, [A EXCEPT !.res = Without(@, {name})],
               <<Release({<<A.res[name].h, A.res[name].gen>>})>>)

deleteObjectInstance(a, h) ==
  LET A == amb[a]
  IN  /\ A.obj[h].owned
      /\ Calls(a, Deletes, [A EXCEPT !.obj = Without(@, {h})],
               <<Delete(h, A.obj[h].gen), Release({<<h, A.obj[h].gen>>})>>)

\* The federate resigns, or its connection closes.
resign(a) ==
  Calls(a, Resigns,
        [amb[a] EXCEPT !.in = FALSE, !.pub = {}, !.sub = {}, !.pool = Nothing, !.res = Nothing,
                       !.obj = Nothing, !.dropped = {}, !.lost = {}, !.cb = <<>>],
        <<[type |-> "Close"]>>)

-----------------------------------------------------------------------------
(* What an ambassador does with a message *)

\* The class as whose instance an object of class c is discovered: the nearest subscribed one
DiscoveredAs(A, c) ==
  LET known == Ancestors[c] \cap A.sub
  IN  IF known = {} THEN NoClass
      ELSE CHOOSE k \in known : known \subseteq Ancestors[k]

\* The state of the ambassador and the messages that it sends
acceptCallbackMessage(A, m) ==
  LET c == DiscoveredAs(A, m.cls)
      o == [gen |-> m.gen, name |-> m.name, cls |-> c, owned |-> FALSE, late |-> m.late]
      reserved == {m.new[h].name : h \in DOMAIN m.new}
      of(name) == CHOOSE h \in DOMAIN m.new : m.new[h].name = name
  IN  CASE m.type = "HandlesResponse" -> <<[A EXCEPT !.pool = m.new @@ @], <<>>>>
        [] m.type = "ReserveResponse" ->
             <<[A EXCEPT !.res = [x \in reserved |-> [h |-> of(x), gen |-> m.new[of(x)].gen]] @@ @],
               <<>>>>
        [] m.type = "Insert" /\ c = NoClass ->
             <<[A EXCEPT !.dropped = @ \cup {<<m.h, m.gen>>}], <<>>>>
        [] m.type = "Insert" /\ c # NoClass ->
             <<IF m.h \in DOMAIN A.obj THEN A ELSE [A EXCEPT !.obj = (m.h :> o) @@ @], <<>>>>
        [] m.type = "Delete" ->
             IF m.h \in DOMAIN A.obj
             THEN <<[A EXCEPT !.obj = Without(@, {m.h})],
                    <<Release({<<m.h, A.obj[m.h].gen>>})>>>>
             ELSE <<A, <<>>>>

\* While a call waits for a handle, callbacks are put off.
ReceiveInCall(a) ==
  LET A == amb[a]
      m == Head(down[a])
      B == [A EXCEPT !.pool = m.new @@ @]
      h == Min(DOMAIN B.pool)
  IN  /\ A.wait # NoClass /\ down[a] # <<>>
      /\ down' = [down EXCEPT ![a] = Tail(@)]
      /\ IF m.type = "HandlesResponse"
         THEN /\ amb' = [amb EXCEPT ![a] = TakeFree(B, A.wait)]
              /\ up' = [up EXCEPT ![a] = Append(@, InsertOwn(h, Owned(B.pool[h], "", A.wait)))]
         ELSE /\ amb' = [amb EXCEPT ![a].cb = Append(@, m)]
              /\ UNCHANGED up
      /\ UNCHANGED <<plan, srv, made, failed>>

evokeCallback(a) ==
  LET A   == amb[a]
      put == A.cb # <<>>
      res == acceptCallbackMessage(A, IF put THEN Head(A.cb) ELSE Head(down[a]))
  IN  /\ ~failed /\ A.in /\ A.wait = NoClass /\ (put \/ down[a] # <<>>)
      /\ amb' = [amb EXCEPT ![a] = IF put THEN [res[1] EXCEPT !.cb = Tail(@)] ELSE res[1]]
      /\ down' = IF put THEN down ELSE [down EXCEPT ![a] = Tail(@)]
      /\ up' = [up EXCEPT ![a] = @ \o res[2]]
      /\ UNCHANGED <<plan, srv, made, failed>>

-----------------------------------------------------------------------------

Next ==
  \/ \E c \in Nodes : ServeChild(c)
  \/ \E s \in Leaves : ServeParent(s)
  \/ \E a \in Ambassadors :
       \/ \E c \in Classes : publish(a, c) \/ unpublish(a, c) \/ subscribe(a, c) \/ unsubscribe(a, c)
       \/ \E c \in ObjectClasses :
            \/ registerObjectInstance(a, c)
            \/ \E x \in Names : registerNamedObjectInstance(a, c, x)
       \/ \E x \in Names : reserveObjectInstanceName(a, x) \/ releaseObjectInstanceName(a, x)
       \/ \E h \in DOMAIN amb[a].obj : deleteObjectInstance(a, h)
       \/ resign(a) \/ ReceiveInCall(a) \/ evokeCallback(a)

Spec == Init /\ [][Next]_vars

-----------------------------------------------------------------------------
(* Properties *)

TypeOK ==
  /\ \A s \in Servers :
       /\ srv[s].open \subseteq Children(s)
       /\ \A c \in Classes : srv[s].pub[c] \cup srv[s].sub[c] \subseteq srv[s].open \cup {Upstream}
       /\ \A h \in DOMAIN srv[s].obj :
            LET o == srv[s].obj[h]
            IN  /\ o.gen \in 1..made /\ o.name \in Names \cup {""}
                /\ o.cls \in ObjectClasses \cup {NoClass}
                /\ o.ref # {} /\ o.ref \subseteq srv[s].open
                /\ o.rcv \cup o.upd \subseteq srv[s].open \cup {Upstream}
                /\ o.owner \in srv[s].open \cup {None, Upstream}
  /\ \A a \in Ambassadors : amb[a].wait \in ObjectClasses \cup {NoClass}
  /\ failed \in BOOLEAN

\* No server meets a message that it has to refuse, no assertion fails: no handle is released
\* twice or by a connect that does not hold it, none is given out while it is known, no object
\* changes its class, no delete comes back to where it came from (MessageErrors and
\* OpenRTIAsserts of ServerNode.cpp and ServerModel.cpp).
NoMessageError == ~failed

\* Whoever has a handle, for an object, a reserved name or in its pool, holds it at its server and
\* so at the root: it is the same there, with the same name, until it is released.  So no
\* handle and no name is given out a second time while somebody still uses it.
Held(a) ==
  LET A == amb[a]
  IN  {<<h, A.pool[h], "">> : h \in DOMAIN A.pool}
        \cup {<<A.res[x].h, A.res[x].gen, x>> : x \in DOMAIN A.res}
        \cup {<<h, A.obj[h].gen, A.obj[h].name>> : h \in DOMAIN A.obj}
HeldAt(s, p, c) ==
  /\ p[1] \in DOMAIN srv[s].obj
  /\ LET o == srv[s].obj[p[1]] IN o.gen = p[2] /\ o.name = p[3] /\ c \in o.ref
HandlesHeld ==
  \A a \in Ambassadors : \A p \in Held(a) :
    /\ HeldAt(Parent[a], p, a)
    /\ Parent[a] # Root => HeldAt(Root, p, Parent[a])

Quiet ==
  /\ \A n \in Nodes : up[n] = <<>> /\ down[n] = <<>>
  /\ \A a \in Ambassadors : amb[a].wait = NoClass /\ amb[a].cb = <<>>

Live(a) == {h \in DOMAIN amb[a].obj : amb[a].obj[h].owned}

\* When nothing is on the way, b knows every object of a that it is to know: b subscribes to a
\* class of it that a publishes, or to any class of it if they are at the same server.  This
\* leaves out the objects whose insertion came to b while it had unsubscribed, and those that b, or
\* another one at its server, released with one of two subscriptions that had led to them.
ToDiscover(a, b, h) ==
  \E c \in Ancestors[amb[a].obj[h].cls] \cap amb[b].sub : c \in amb[a].pub \/ Parent[a] = Parent[b]
Lost(b) == UNION {amb[c].lost : c \in {d \in Ambassadors : Parent[d] = Parent[b]}}
Discovered ==
  Quiet => \A a, b \in Ambassadors : a # b =>
    \A h \in Live(a) :
      ToDiscover(a, b, h) =>
        \/ h \in DOMAIN amb[b].obj /\ amb[b].obj[h].gen = amb[a].obj[h].gen
        \/ <<h, amb[a].obj[h].gen>> \in amb[b].dropped \cup Lost(b)

\* Without these exceptions
AllDiscovered ==
  Quiet => \A a, b \in Ambassadors : a # b =>
    \A h \in Live(a) : ToDiscover(a, b, h) => h \in DOMAIN amb[b].obj

\* When nothing is on the way, an object that is known has an owner: everybody that has
\* discovered it has been told when it was deleted or its owner left, but those that have
\* subscribed only after their server had handled the delete.
Removed ==
  Quiet => \A b \in Ambassadors : \A h \in DOMAIN amb[b].obj :
    \/ amb[b].obj[h].late
    \/ \E a \in Ambassadors : h \in Live(a) /\ amb[a].obj[h].gen = amb[b].obj[h].gen

\* The connects to which a server passes what concerns an object or an interaction
Passes(s, x) == IF x \in InteractionClasses THEN Cumulative(srv[s], x)
                ELSE IF x \in DOMAIN srv[s].obj THEN srv[s].obj[x].upd ELSE {}

\* A message about x that ambassador a sends comes to b
Reaches(a, b, x) ==
  LET s == Parent[a]
      p == Parent[b]
  IN  IF s = p THEN b \in Passes(s, x)
      ELSE /\ s = Root \/ Upstream \in Passes(s, x)
           /\ p = Root \/ p \in Passes(Root, x)
           /\ b \in Passes(p, x)

\* When nothing is on the way, updates and interactions come to those who subscribe, and updates
\* to no one else, but for the objects that were released as above.
Routed ==
  Quiet => \A a, b \in Ambassadors : a # b =>
    /\ \A h \in Live(a) : amb[a].obj[h].cls \in amb[a].pub =>
         /\ ToDiscover(a, b, h) => Reaches(a, b, h) \/ <<h, amb[a].obj[h].gen>> \in Lost(b)
         /\ Reaches(a, b, h) => Ancestors[amb[a].obj[h].cls] \cap amb[b].sub # {}
    /\ \A i \in InteractionClasses \cap amb[a].pub :
         (\E c \in Ancestors[i] \cap amb[b].sub : c \in amb[a].pub \/ Parent[a] = Parent[b])
           => Reaches(a, b, i)

\* When nothing is on the way, the root has given out no handle that nobody has: the last one to
\* release it frees it.  This leaves out insertions that came to an ambassador that had
\* unsubscribed, and handles on their way to a federate that left.
NoLeak ==
  Quiet => \A h \in DOMAIN srv[Root].obj :
    \/ \E a \in Ambassadors : \E p \in Held(a) : p[1] = h
    \/ \E a \in Ambassadors : <<h, srv[Root].obj[h].gen>> \in amb[a].dropped
    \/ \E s \in Leaves : h \in srv[s].ignored

\* A call that waits for a free handle gets one: it does not wait when nothing is on the way.
NoStuckCall ==
  (\A n \in Nodes : up[n] = <<>> /\ down[n] = <<>>) =>
    \A a \in Ambassadors : amb[a].wait = NoClass

=============================================================================
