--------------------------- MODULE Synchronization ---------------------------
(***************************************************************************)
(* Synchronization points (class FederationServer of ServerNode.cpp, class *)
(* Synchronization of ServerModel.cpp, Ambassador.h).  A federate          *)
(* registers a label for a set of federates or for all of them, those that *)
(* join later included; every federate of the point is told, achieves it,  *)
(* and is told when all have.                                              *)
(*                                                                         *)
(* There are two levels of servers: the root, and leaf servers as there is *)
(* one in every process with ambassadors.  A federate is connected to a    *)
(* leaf server, or to the root if that is in its own process.  Connects    *)
(* are reliable FIFOs: up[n] from node n to its parent, down[n] back.  The *)
(* callback queue of an ambassador is the end of down[f].                  *)
(***************************************************************************)
EXTENDS Naturals, SequencesExt

CONSTANTS Root, Leaves,     \* the servers
          Federates,
          Parent,           \* the server that a federate is connected to
          Labels,
          InitialMembers,   \* the federates that have joined at the start
          MayResign,        \* those that may resign
          Requests          \* the registrations that each federate may ask for

Servers == {Root} \cup Leaves
Nodes   == Leaves \cup Federates
Points  == [label : Labels, set : SUBSET Federates]

\* Each leaf server has a federate that stays, so that it stays in the federation.
ASSUME TreeAssumption ==
  /\ Root \notin Nodes /\ Leaves \cap Federates = {}
  /\ Parent \in [Federates -> Servers]
  /\ InitialMembers \subseteq Federates /\ MayResign \subseteq Federates
  /\ Requests \in [Federates -> SUBSET Points]
  /\ \A s \in Leaves : \E f \in InitialMembers \ MayResign : Parent[f] = s

VARIABLES
  srv,   \* per server: the federates it reaches through a child connect, those of them
         \* that have resigned and are not gone yet, and its synchronization points
  amb,   \* per ambassador: membership, the labels announced to it; what its program did
  up,    \* messages on the way to the parent
  down   \* messages on the way from the parent

vars == <<srv, amb, up, down>>

Nothing == [x \in {} |-> FALSE]

\* The function with one value, and the one with the values of g where f has none
One(x, y) == [z \in {x} |-> y]
Over(f, g) == [x \in DOMAIN f \cup DOMAIN g |-> IF x \in DOMAIN f THEN f[x] ELSE g[x]]

\* The child connect of server s through which it reaches f
Toward(s, f) == IF Parent[f] = s THEN f ELSE Parent[f]

Init ==
  /\ srv = [s \in Servers |->
              [known |-> {f \in InitialMembers : s \in {Root, Parent[f]}},
               leaving |-> {}, points |-> Nothing]]
  /\ amb = [f \in Federates |->
              [member |-> IF f \in InitialMembers THEN "in" ELSE "out",
               announced |-> {}, due |-> {}, done |-> Nothing, made |-> {}]]
  /\ up = [n \in Nodes |-> <<>>]
  /\ down = [n \in Nodes |-> <<>>]

-----------------------------------------------------------------------------
(* Messages *)

JoinRequest(f)      == [type |-> "Join", fed |-> f]
ResignRequest(f)    == [type |-> "Resign", fed |-> f]
JoinResponse(f)     == [type |-> "JoinResponse", fed |-> f]
ResignNotify(f)     == [type |-> "ResignNotify", fed |-> f]
Register(f, r)      == [type |-> "Register", fed |-> f, label |-> r.label, set |-> r.set]
Response(m, ok)     == [type |-> "Response", fed |-> m.fed, label |-> m.label, ok |-> ok]
Announce(l, F, a)   == [type |-> "Announce", label |-> l, set |-> F, auto |-> a]
Achieved(l, pairs)  == [type |-> "Achieved", label |-> l, pairs |-> pairs]
Synchronized(l, pairs) == [type |-> "Synchronized", label |-> l, pairs |-> pairs]

-----------------------------------------------------------------------------
(* Calls of the federates *)

Send(f, m) == up' = [up EXCEPT ![f] = Append(@, m)]

joinFederationExecution(f) ==
  /\ amb[f].member = "out"
  /\ amb' = [amb EXCEPT ![f].member = "joining"]
  /\ Send(f, JoinRequest(f))
  /\ UNCHANGED <<srv, down>>

registerFederationSynchronizationPoint(f) ==
  \E r \in Requests[f] \ amb[f].made :
    /\ amb[f].member = "in"
    /\ amb' = [amb EXCEPT ![f].made = @ \cup {r}]
    /\ Send(f, Register(f, r))
    /\ UNCHANGED <<srv, down>>

\* Allowed for an announced label; a program calls it once for each announcement that it answers.
synchronizationPointAchieved(f) ==
  \E l \in amb[f].due \cap amb[f].announced, ok \in BOOLEAN :
    /\ amb[f].member = "in"
    /\ amb' = [amb EXCEPT ![f].due = @ \ {l}, ![f].done = Over(One(l, ok), @)]
    /\ Send(f, Achieved(l, One(f, ok)))
    /\ UNCHANGED <<srv, down>>

resignFederationExecution(f) ==
  /\ f \in MayResign
  /\ amb[f].member = "in"
  /\ amb' = [amb EXCEPT ![f].member = "resigned", ![f].announced = {}, ![f].due = {}]
  /\ Send(f, ResignRequest(f))
  /\ UNCHANGED <<srv, down>>

\* The callbacks of an ambassador
acceptCallbackMessage(f) ==
  LET m == Head(down[f])
      a == amb[f]
  IN  /\ down[f] # <<>> /\ a.member \in {"joining", "in"}
      /\ down' = [down EXCEPT ![f] = Tail(@)]
      /\ amb' = [amb EXCEPT ![f] =
           CASE m.type = "JoinResponse" -> [a EXCEPT !.member = "in"]
             [] m.type = "Response"     -> a
             [] m.type = "Announce"     ->
                  [a EXCEPT !.announced = @ \cup {m.label},
                            !.due = IF m.label \in a.announced THEN @ ELSE @ \cup {m.label}]
             [] m.type = "Synchronized" ->
                  [a EXCEPT !.announced = @ \ {m.label}, !.due = @ \ {m.label},
                            !.done = [l \in DOMAIN @ \ {m.label} |-> @[l]]]]
      /\ UNCHANGED <<srv, up>>

-----------------------------------------------------------------------------
(* The servers *)

\* The federates that s reaches through its connect to child n; one that resigned has no connect.
Reached(s, n) == {f \in srv[s].known \ srv[s].leaving : Toward(s, f) = n}

\* The children of s that take part in the federation
Children(s) ==
  (IF s = Root THEN Leaves ELSE {}) \cup {f \in Federates : f \in Reached(s, f)}

\* Server s takes the oldest message of its child c, and sends to its parent and its children.
FromChild(s, c, toParent, toChild) ==
  /\ up' = [n \in Nodes |-> IF n = c THEN Tail(up[c]) ELSE IF n = s THEN up[s] \o toParent ELSE up[n]]
  /\ down' = [n \in Nodes |-> IF n \in DOMAIN toChild THEN down[n] \o toChild[n] ELSE down[n]]
  /\ UNCHANGED amb

\* Leaf server s takes the oldest message of the root.
FromParent(s, toChild) ==
  /\ down' = [n \in Nodes |->
       IF n = s THEN Tail(down[s])
       ELSE IF n \in DOMAIN toChild THEN down[n] \o toChild[n] ELSE down[n]]
  /\ UNCHANGED <<amb, up>>

NoMessages == [n \in {} |-> <<>>]

Arrived(s, c, type) ==
  /\ up[c] # <<>> /\ Head(up[c]).type = type
  /\ s = IF c \in Leaves THEN Root ELSE Parent[c]

\* Synchronization::insert
insert(p, F) == [p EXCEPT !.waiting = @ \cup F]

\* Wrong: an answer of one federate of a leaf server is taken for the answer of all
achieved_All(p, pairs) ==
  [p EXCEPT !.waiting = {},
            !.achieved = Over(@, [f \in p.waiting |-> \A g \in DOMAIN pairs : pairs[g]])]

\* Synchronization::achieved, for each federate of pairs; the first answer counts.
achieved(p, pairs) ==
  [p EXCEPT !.waiting = @ \ DOMAIN pairs,
            !.achieved = Over(@, [f \in DOMAIN pairs \cap p.waiting |-> pairs[f]])]

\* The points of s after the federates of pairs have achieved the labels L
AfterAchieved(s, L, pairs) ==
  [l \in DOMAIN srv[s].points |->
     IF l \in L THEN achieved(srv[s].points[l], pairs) ELSE srv[s].points[l]]

Complete(points, L) == {l \in L : points[l].waiting = {}}

\* A leaf server tells the root when all its federates of a point have achieved it.
AchievedMessages(points, L) ==
  SetToSeq({Achieved(l, points[l].achieved) : l \in Complete(points, L)})

\* The root tells the children with federates of the point, and forgets the point.
SynchronizedMessages(points, L) ==
  [n \in Children(Root) |->
     SetToSeq({Synchronized(l, points[l].achieved) :
                 l \in {k \in Complete(points, L) :
                          Reached(Root, n) \cap DOMAIN points[k].achieved # {}}})]

Without(points, L) == [l \in DOMAIN points \ L |-> points[l]]

\* The entries of a federate go with it.
erase(points, f) ==
  [l \in DOMAIN points |->
     [points[l] EXCEPT !.waiting = @ \ {f},
                       !.achieved = [g \in DOMAIN @ \ {f} |-> @[g]]]]

LeafServeJoin(s, c) ==
  /\ s # Root /\ Arrived(s, c, "Join")
  /\ FromChild(s, c, <<Head(up[c])>>, NoMessages)
  /\ UNCHANGED srv

\* Wrong: a federate that joins is not added to the points of all federates
RootServeJoin_NotAdded(c) ==
  /\ Arrived(Root, c, "Join")
  /\ LET f    == Head(up[c]).fed
         auto == {l \in DOMAIN srv[Root].points : srv[Root].points[l].auto}
         announce == SetToSeq({Announce(l, {f}, TRUE) : l \in auto})
     IN  /\ srv' = [srv EXCEPT ![Root].known = @ \cup {f}]
         /\ FromChild(Root, c, <<>>,
              [n \in Children(Root) \cup {c} |->
                 IF n = c THEN <<JoinResponse(f)>> \o announce ELSE announce])

\* The new federate is added to the points of all federates; their announcement goes to all children.
RootServeJoin(c) ==
  /\ Arrived(Root, c, "Join")
  /\ LET f    == Head(up[c]).fed
         auto == {l \in DOMAIN srv[Root].points : srv[Root].points[l].auto}
         announce == SetToSeq({Announce(l, {f}, TRUE) : l \in auto})
     IN  /\ srv' = [srv EXCEPT
              ![Root].known = @ \cup {f},
              ![Root].points = [l \in DOMAIN @ |-> IF l \in auto THEN insert(@[l], {f}) ELSE @[l]]]
         /\ FromChild(Root, c, <<>>,
              [n \in Children(Root) \cup {c} |->
                 IF n = c THEN <<JoinResponse(f)>> \o announce ELSE announce])

LeafServeJoinResponse(s) ==
  LET f == Head(down[s]).fed
  IN  /\ down[s] # <<>> /\ Head(down[s]).type = "JoinResponse"
      /\ srv' = [srv EXCEPT ![s].known = @ \cup {f}]
      /\ FromParent(s, One(f, <<JoinResponse(f)>>))

LeafServeRegister(s, c) ==
  /\ s # Root /\ Arrived(s, c, "Register")
  /\ FromChild(s, c, <<Head(up[c])>>, NoMessages)
  /\ UNCHANGED srv

RootServeRegister(c) ==
  /\ Arrived(Root, c, "Register")
  /\ LET m == Head(up[c])
         auto == m.set = {}
         F == IF auto THEN srv[Root].known ELSE m.set \cap srv[Root].known
         announce(n) == IF Reached(Root, n) \cap F = {} THEN <<>>
                        ELSE <<Announce(m.label, Reached(Root, n) \cap F, auto)>>
     IN  IF m.label \in DOMAIN srv[Root].points
         THEN /\ FromChild(Root, c, <<>>, One(c, <<Response(m, FALSE)>>))
              /\ UNCHANGED srv
         ELSE /\ FromChild(Root, c, <<>>,
                   [n \in Children(Root) |->
                      (IF n = c THEN <<Response(m, TRUE)>> ELSE <<>>) \o announce(n)])
              /\ srv' = [srv EXCEPT ![Root].points =
                   Over(One(m.label, insert([waiting |-> {}, achieved |-> Nothing, auto |-> auto], F)), @)]

LeafServeResponse(s) ==
  LET f == Head(down[s]).fed
  IN  /\ down[s] # <<>> /\ Head(down[s]).type = "Response"
      /\ FromParent(s, [n \in {f} \cap Children(s) |-> <<Head(down[s])>>])
      /\ UNCHANGED srv

\* A label may be announced again only for a point of all federates.
MayAnnounce(s, m) ==
  m.label \in DOMAIN srv[s].points => srv[s].points[m.label].auto /\ m.auto

LeafServeAnnounce(s) ==
  LET m == Head(down[s])
      F == m.set \cap (srv[s].known \ srv[s].leaving)
      old == IF m.label \in DOMAIN srv[s].points THEN srv[s].points[m.label]
             ELSE [waiting |-> {}, achieved |-> Nothing, auto |-> m.auto]
  IN  /\ down[s] # <<>> /\ Head(down[s]).type = "Announce"
      /\ MayAnnounce(s, m)
      /\ srv' = [srv EXCEPT ![s].points = Over(One(m.label, insert(old, F)), @)]
      /\ FromParent(s, [f \in F |-> <<Announce(m.label, {f}, m.auto)>>])

LeafServeAchieved(s, c) ==
  /\ s # Root /\ Arrived(s, c, "Achieved")
  /\ LET m == Head(up[c])
         points == AfterAchieved(s, {m.label}, m.pairs)
     IN  /\ m.label \in DOMAIN srv[s].points
         /\ srv' = [srv EXCEPT ![s].points = points]
         /\ FromChild(s, c, AchievedMessages(points, {m.label}), NoMessages)

RootServeAchieved(c) ==
  /\ Arrived(Root, c, "Achieved")
  /\ LET m == Head(up[c])
         points == AfterAchieved(Root, {m.label}, m.pairs)
     IN  /\ m.label \in DOMAIN srv[Root].points
         /\ srv' = [srv EXCEPT ![Root].points = Without(points, Complete(points, {m.label}))]
         /\ FromChild(Root, c, <<>>, SynchronizedMessages(points, {m.label}))

\* Each child is told the outcome of its own federates.
LeafServeSynchronized(s) ==
  LET m == Head(down[s])
  IN  /\ down[s] # <<>> /\ Head(down[s]).type = "Synchronized"
      /\ m.label \in DOMAIN srv[s].points
      /\ srv' = [srv EXCEPT ![s].points = Without(@, {m.label})]
      /\ FromParent(s, [f \in DOMAIN m.pairs \cap Children(s) |->
                          <<Synchronized(m.label, One(f, m.pairs[f]))>>])

\* Wrong: a label that the federate has achieved is answered once more
WaitsFor_Any(s, f) ==
  {l \in DOMAIN srv[s].points :
     f \in srv[s].points[l].waiting \cup DOMAIN srv[s].points[l].achieved}

\* The labels that s still waits for f with
WaitsFor(s, f) == {l \in DOMAIN srv[s].points : f \in srv[s].points[l].waiting}

\* resignConnect: what the federate had not achieved, it has failed to achieve.
LeafServeResign(s, c) ==
  /\ s # Root /\ Arrived(s, c, "Resign")
  /\ LET f == Head(up[c]).fed
         points == AfterAchieved(s, WaitsFor(s, f), One(f, FALSE))
     IN  /\ f \in srv[s].known
         /\ srv' = [srv EXCEPT ![s].points = points, ![s].leaving = @ \cup {f}]
         /\ FromChild(s, c, AchievedMessages(points, WaitsFor(s, f)) \o <<ResignRequest(f)>>, NoMessages)

\* Wrong: a federate that resigns is forgotten without having answered
RootServeResign_NoAnswer(c) ==
  /\ Arrived(Root, c, "Resign")
  /\ LET f == Head(up[c]).fed
     IN  /\ f \in srv[Root].known
         /\ srv' = [srv EXCEPT ![Root].known = @ \ {f}, ![Root].points = erase(@, f)]
         /\ FromChild(Root, c, <<>>,
              [n \in Children(Root) |-> IF n = Parent[f] THEN <<ResignNotify(f)>> ELSE <<>>])

RootServeResign(c) ==
  /\ Arrived(Root, c, "Resign")
  /\ LET f == Head(up[c]).fed
         L == WaitsFor(Root, f)
         points == AfterAchieved(Root, L, One(f, FALSE))
         synchronized == SynchronizedMessages(points, L)
     IN  /\ f \in srv[Root].known
         /\ srv' = [srv EXCEPT ![Root].known = @ \ {f},
                               ![Root].points = erase(Without(points, Complete(points, L)), f)]
         /\ FromChild(Root, c, <<>>,
              [n \in Children(Root) |->
                 synchronized[n] \o IF n = Parent[f] THEN <<ResignNotify(f)>> ELSE <<>>])

LeafServeResignNotify(s) ==
  LET f == Head(down[s]).fed
  IN  /\ down[s] # <<>> /\ Head(down[s]).type = "ResignNotify"
      /\ f \in srv[s].known
      /\ srv' = [srv EXCEPT ![s].known = @ \ {f}, ![s].leaving = @ \ {f},
                            ![s].points = erase(@, f)]
      /\ FromParent(s, NoMessages)

-----------------------------------------------------------------------------

ServeFromChild(c) ==
  \/ RootServeJoin(c) \/ RootServeRegister(c) \/ RootServeAchieved(c) \/ RootServeResign(c)
  \/ \E s \in Leaves :
       LeafServeJoin(s, c) \/ LeafServeRegister(s, c) \/ LeafServeAchieved(s, c) \/ LeafServeResign(s, c)

ServeFromParent(s) ==
  \/ LeafServeJoinResponse(s) \/ LeafServeResponse(s) \/ LeafServeAnnounce(s)
  \/ LeafServeSynchronized(s) \/ LeafServeResignNotify(s)

Next ==
  \/ \E f \in Federates :
       \/ joinFederationExecution(f)
       \/ registerFederationSynchronizationPoint(f)
       \/ synchronizationPointAchieved(f)
       \/ resignFederationExecution(f)
       \/ acceptCallbackMessage(f)
  \/ \E c \in Nodes : ServeFromChild(c)
  \/ \E s \in Leaves : ServeFromParent(s)

Spec == Init /\ [][Next]_vars

\* Servers and ambassadors go on taking messages; nobody has to call.
Fairness ==
  /\ \A f \in Federates : WF_vars(acceptCallbackMessage(f))
  /\ \A c \in Nodes : WF_vars(ServeFromChild(c))
  /\ \A s \in Leaves : WF_vars(ServeFromParent(s))

FairSpec == Spec /\ Fairness

-----------------------------------------------------------------------------
(* Properties *)

PointsOf(F) == [waiting : SUBSET F, achieved : UNION {[A -> BOOLEAN] : A \in SUBSET F}, auto : BOOLEAN]

\* The type invariant: a server has points only of federates that it reaches, and a
\* federate of a point either has achieved it or is waited for.
TypeOK ==
  /\ \A s \in Servers :
       /\ srv[s].known \subseteq Federates /\ srv[s].leaving \subseteq srv[s].known
       /\ \A l \in DOMAIN srv[s].points :
            LET p == srv[s].points[l]
            IN  /\ l \in Labels /\ p \in PointsOf(srv[s].known)
                /\ p.waiting \cap DOMAIN p.achieved = {}
  /\ \A f \in Federates :
       /\ amb[f].member \in {"out", "joining", "in", "resigned"}
       /\ amb[f].due \subseteq amb[f].announced /\ amb[f].announced \subseteq Labels

Joined(f) == amb[f].member = "in"

\* A federation is synchronized when all have achieved the label, not earlier: when the
\* root forgets a point (and tells everybody), each joined federate to which the label was
\* announced has called synchronizationPointAchieved, whatever leaf servers, joins and
\* resignations were in between.
NotBeforeAll ==
  [][\A l \in DOMAIN srv[Root].points \ DOMAIN srv'[Root].points :
       \A f \in Federates : Joined(f) /\ l \in amb[f].announced => l \in DOMAIN amb[f].done]_vars

\* A federate counts as successful at a server only if it said so itself.
SuccessIsReal ==
  \A s \in Servers : \A l \in DOMAIN srv[s].points :
    LET p == srv[s].points[l]
    IN  \A f \in DOMAIN p.achieved :
          p.achieved[f] => l \in DOMAIN amb[f].done /\ amb[f].done[l]

Quiescent ==
  /\ \A n \in Nodes : up[n] = <<>>
  /\ \A n \in Nodes : n \in Leaves \/ amb[n].member # "resigned" => down[n] = <<>>

Of(p) == p.waiting \cup DOMAIN p.achieved

\* When nothing is on its way, every joined federate has been told exactly the labels of the
\* points it is in, those of points that were registered while it joined included.
AllAnnounced ==
  Quiescent =>
    \A f \in Federates : Joined(f) =>
      amb[f].announced = {l \in DOMAIN srv[Root].points : f \in Of(srv[Root].points[l])}

\* No message reaches a server that throws MessageError for it ("Inconsistent messages
\* reaching a server"): achieved or synchronized for an unknown label, an announcement for a
\* point with a fixed set, resignation of an unknown federate.
NoMessageError ==
  /\ \A c \in Nodes : up[c] # <<>> =>
       LET m == Head(up[c])
           s == IF c \in Leaves THEN Root ELSE Parent[c]
       IN  /\ m.type = "Achieved" => m.label \in DOMAIN srv[s].points
           /\ m.type = "Resign" => m.fed \in srv[s].known
  /\ \A s \in Leaves : down[s] # <<>> =>
       LET m == Head(down[s])
       IN  /\ m.type = "Synchronized" => m.label \in DOMAIN srv[s].points
           /\ m.type = "Announce" => MayAnnounce(s, m)
           /\ m.type = "ResignNotify" => m.fed \in srv[s].known

\* All for whom the root waits with label l have achieved it or resigned.
AllAnswered(l) ==
  /\ l \in DOMAIN srv[Root].points
  /\ \A f \in srv[Root].points[l].waiting : amb[f].member = "resigned" \/ l \in DOMAIN amb[f].done

\* A point that all its federates have achieved, or left, is synchronized (or a federate
\* joins that is waited for), whichever servers the answers have to pass.
SynchronizationCompletes ==
  \A l \in Labels : AllAnswered(l) ~> ~AllAnswered(l)

=============================================================================
