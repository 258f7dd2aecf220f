--------------------- MODULE Synchronization_invariant ----------------------
(***************************************************************************)
(* The invariant behind synchronization points, for every tree of two      *)
(* levels, every number of federates, labels and registrations, and for    *)
(* federates that join and resign at any time.                             *)
(*                                                                         *)
(* A federate of a point is waited for, or has achieved it, at three       *)
(* levels: in its ambassador, at its server, and at the root.  The         *)
(* invariant relates two neighbouring levels and the queues between them   *)
(* (LinkOK); it is the same for an ambassador and its server as for a leaf *)
(* server and the root.  That the root waits for someone as long as an     *)
(* answer is on its way (Fresh) is what keeps an answer from counting for  *)
(* a later point with the same label.                                      *)
(*                                                                         *)
(* Here are the invariant, how two levels and the queues between them may  *)
(* move, and that it is kept by the calls, the callbacks, the joins and    *)
(* resignations at the servers and the steps of the root other than the    *)
(* count of an answer; Synchronization_proofs has the rest.                *)
(***************************************************************************)
EXTENDS Synchronization, Queues

-----------------------------------------------------------------------------
(* Types *)

Answers == UNION {[A -> BOOLEAN] : A \in SUBSET Federates}
UpMessages ==
  [type : {"Join", "Resign"}, fed : Federates]
  \cup [type : {"Register"}, fed : Federates, label : Labels, set : SUBSET Federates]
  \cup [type : {"Achieved"}, label : Labels, pairs : Answers]
DownMessages ==
  [type : {"JoinResponse", "ResignNotify"}, fed : Federates]
  \cup [type : {"Response"}, fed : Federates, label : Labels, ok : BOOLEAN]
  \cup [type : {"Announce"}, label : Labels, set : SUBSET Federates, auto : BOOLEAN]
  \cup [type : {"Synchronized"}, label : Labels, pairs : Answers]

IsPoints(P, F) ==
  /\ DOMAIN P \subseteq Labels /\ IsFiniteSet(DOMAIN P)
  /\ \A l \in DOMAIN P : P[l] \in PointsOf(F) /\ P[l].waiting \cap DOMAIN P[l].achieved = {}

IsServer(x) ==
  /\ x \in [known : SUBSET Federates, leaving : SUBSET x.known, points : {x.points}]
  /\ IsPoints(x.points, x.known)

IsAmbassador(x) ==
  /\ x \in [member : {"out", "joining", "in", "resigned"}, announced : SUBSET Labels,
            due : SUBSET x.announced, done : {x.done}, made : SUBSET Points]
  /\ DOMAIN x.done \subseteq Labels /\ \A l \in DOMAIN x.done : x.done[l] \in BOOLEAN

Types ==
  /\ DOMAIN srv = Servers /\ \A s \in Servers : IsServer(srv[s])
  /\ DOMAIN amb = Federates /\ \A f \in Federates : IsAmbassador(amb[f])
  /\ up \in [Nodes -> Seq(UpMessages)]
  /\ down \in [Nodes -> Seq(DownMessages)]

-----------------------------------------------------------------------------
(* Who joins and resigns where *)

Resigned(f) == amb[f].member = "resigned"
JoinOf(f)     == {m \in UpMessages : m.type = "Join" /\ m.fed = f}
ResignOf(f)   == {m \in UpMessages : m.type = "Resign" /\ m.fed = f}
JoinedOf(f)   == {m \in DownMessages : m.type = "JoinResponse" /\ m.fed = f}
ResignedOf(f) == {m \in DownMessages : m.type = "ResignNotify" /\ m.fed = f}

\* What a federate sends is about itself, what a leaf server sends about its federates.
Below(n) == IF n \in Leaves THEN {f \in Federates : Parent[f] = n} ELSE {n}
UpOf(n) ==
  {m \in UpMessages :
     IF m.type = "Achieved" THEN DOMAIN m.pairs \subseteq Below(n) /\ DOMAIN m.pairs # {}
     ELSE m.fed \in Below(n)}
DownOf(n) ==
  {m \in DownMessages :
     /\ m.type = "JoinResponse" => m.fed \in Below(n)
     /\ m.type = "ResignNotify" => n \in Leaves /\ m.fed \in Below(n)
     /\ m.type = "Synchronized" /\ n \in Federates => n \in DOMAIN m.pairs}

Routed ==
  /\ \A n \in Nodes : /\ \A i \in DOMAIN up[n] : up[n][i] \in UpOf(n)
                      /\ \A i \in DOMAIN down[n] : down[n][i] \in DownOf(n)
  /\ \A s \in Leaves : srv[s].known \subseteq Below(s)
  /\ srv[Root].leaving = {}

Announcing(f) == {m \in DownMessages : m.type = "Announce" /\ f \in m.set}

\* The queues between a leaf server and the root, for a federate of the leaf server
UpAbove(f)   == IF Parent[f] = Root THEN <<>> ELSE up[Parent[f]]
DownAbove(f) == IF Parent[f] = Root THEN <<>> ELSE down[Parent[f]]

\* f has a member state; the root knows f (kr), its server does (kp) and knows that it leaves
\* (lv); pf, qf are the queues of f to and from its server, ps, qs those above.
\* There is one join on its way, as a request or as a response, and only while f joins; the
\* servers know f when it has passed them.  Only one who has resigned leaves, and its server
\* knows that before the root.
MemberOK(f, member, kr, kp, lv, pf, qf, ps, qs) ==
  /\ member = "out" => ~kr /\ ~kp
  /\ Some(pf, JoinOf(f)) \/ Some(ps, JoinOf(f)) \/ Some(qs, JoinedOf(f)) \/ Some(qf, JoinedOf(f))
     => member = "joining"
  /\ Some(pf, JoinOf(f)) => ~kr /\ ~kp /\ ~Some(ps, JoinOf(f))
                            /\ ~Some(qs, JoinedOf(f)) /\ ~Some(qf, JoinedOf(f))
  /\ Some(ps, JoinOf(f)) => ~kr /\ ~kp /\ ~Some(qs, JoinedOf(f)) /\ ~Some(qf, JoinedOf(f))
  /\ Some(qs, JoinedOf(f)) => ~kp /\ ~Some(qf, JoinedOf(f))
  /\ Single(pf, JoinOf(f)) /\ Single(ps, JoinOf(f))
  /\ Single(qf, JoinedOf(f)) /\ Single(qs, JoinedOf(f))
  /\ kr /\ ~kp => Some(qs, JoinedOf(f))
  /\ ~SomeAfter(qs, Announcing(f), JoinedOf(f))
  /\ lv \/ Some(pf, ResignOf(f)) \/ Some(ps, ResignOf(f)) \/ Some(qs, ResignedOf(f))
     => member = "resigned"
  /\ kp /\ (Some(ps, ResignOf(f)) \/ Some(qs, ResignedOf(f))) => lv
  /\ Some(qs, ResignedOf(f)) => ~kr

Member(f) ==
  MemberOK(f, amb[f].member, f \in srv[Root].known, f \in srv[Parent[f]].known,
           f \in srv[Parent[f]].leaving, up[f], down[f], UpAbove(f), DownAbove(f))
Membership == \A f \in Federates : Member(f)

-----------------------------------------------------------------------------
(* Two neighbouring levels *)

\* Announcements of label l to f, and the messages that end the point
AnnTo(f, l)  == {m \in DownMessages : m.type = "Announce" /\ m.label = l /\ f \in m.set}
EndOf(l)     == {m \in DownMessages : m.type = "Synchronized" /\ m.label = l}
EndTo(f, l)  == {m \in EndOf(l) : f \in DOMAIN m.pairs}
Touch(f, l)  == AnnTo(f, l) \cup EndOf(l)
\* The answers of f on label l
By(f, l)     == {m \in UpMessages : m.type = "Achieved" /\ m.label = l /\ f \in DOMAIN m.pairs}

\* An announcement finds f off and puts it on, the end of the point finds it on; one that ends
\* a point without f, or announces it to others, changes nothing.  A federate is told only of
\* points it is in (own).
Steps(f, l, own) ==
  {x \in DownMessages \X States \X States :
     LET m == x[1]
     IN  CASE m \in AnnTo(f, l) -> x[2] = "off" /\ x[3] = "on"
           [] m \in EndTo(f, l) -> x[2] = "on" /\ x[3] = "off"
           [] m \in EndOf(l) \ EndTo(f, l) -> ~own /\ x[2] = "off" /\ x[3] = "off"
           [] OTHER -> x[2] = x[3] /\ (own /\ m.type = "Announce" /\ m.label = l => x[2] = "on")}

\* The lower level waits for f (w) or has its answer (a), the upper one too (W, A); p is on
\* the way up and q on the way down.
LinkOK(f, l, own, w, a, W, A, p, q) ==
  /\ ~(w /\ a) /\ ~(W /\ A)
  /\ Run(q, Steps(f, l, own), Switch(w \/ a), Switch(W \/ A))
  /\ w => W /\ ~Some(q, Touch(f, l)) /\ ~Some(p, By(f, l))
  /\ Some(q, AnnTo(f, l)) =>
       W /\ ~SomeAfter(q, AnnTo(f, l), Touch(f, l)) /\ ~Some(p, By(f, l))
  /\ Some(p, By(f, l)) => a /\ ~Some(q, Touch(f, l))
  /\ A => a /\ ~Some(q, Touch(f, l))
  /\ (w \/ a) /\ (~(W \/ A) \/ Some(q, AnnTo(f, l))) => Some(q, EndOf(l))

\* Server s waits for f with label l, or has its answer.
Awaits(s, l, f) == l \in DOMAIN srv[s].points /\ f \in srv[s].points[l].waiting
Has(s, l, f)    == l \in DOMAIN srv[s].points /\ f \in DOMAIN srv[s].points[l].achieved

Edge(f, l) ==
  LinkOK(f, l, TRUE, l \in amb[f].due, l \in DOMAIN amb[f].done,
         Awaits(Parent[f], l, f), Has(Parent[f], l, f), up[f], down[f])
Edges == \A f \in Federates, l \in Labels : ~Resigned(f) => Edge(f, l)

\* f has not been seen to resign by server s.
Here(f) == Resigned(f) => f \in srv[Parent[f]].known \ srv[Parent[f]].leaving
Link(f, l) ==
  LinkOK(f, l, FALSE, Awaits(Parent[f], l, f), Has(Parent[f], l, f),
         Awaits(Root, l, f), Has(Root, l, f), up[Parent[f]], down[Parent[f]])
Links == \A f \in Federates, l \in Labels : Parent[f] # Root /\ Here(f) => Link(f, l)

\* What the ambassador knows of: each label is either to be achieved or done.
Labelled ==
  \A f \in Federates : ~Resigned(f) =>
    amb[f].announced = amb[f].due \cup DOMAIN amb[f].done /\ amb[f].due \cap DOMAIN amb[f].done = {}

\* An answer of f is one that its server waits for; nothing follows the resignation.
Answering(f, l) ==
  /\ Some(up[f], By(f, l)) => Awaits(Parent[f], l, f)
  /\ Single(up[f], By(f, l))
  /\ ~SomeAfter(up[f], ResignOf(f), By(f, l))
Pending == \A f \in Federates, l \in Labels : Answering(f, l)

\* Every answer of a leaf server has news for the root.
Awaited == {x \in Labels \X Federates : Awaits(Root, x[1], x[2])}
News(q, l, i, g) ==
  /\ q[i] \in By(g, l)
  /\ \A k \in DOMAIN q : k < i => q[k] \notin By(g, l) /\ q[k] \notin ResignOf(g)
HasNews(q, W, i) == \E g \in Federates : <<q[i].label, g>> \in W /\ News(q, q[i].label, i, g)
AllNews(q, W) == \A i \in DOMAIN q : q[i].type = "Achieved" => HasNews(q, W, i)
Fresh == \A s \in Leaves : AllNews(up[s], Awaited)

NotLeaving == \A s \in Leaves : \A f \in srv[s].leaving, l \in Labels : ~Awaits(s, l, f)

\* A point of all federates has all that are known.
ForAll ==
  \A l \in DOMAIN srv[Root].points :
    srv[Root].points[l].auto => srv[Root].known \subseteq Of(srv[Root].points[l])

\* An answer that tells of success is the federate's own.
Said(f, l) == l \in DOMAIN amb[f].done /\ amb[f].done[l]
Claim(m) ==
  m.type = "Achieved" => \A f \in DOMAIN m.pairs : m.pairs[f] => Said(f, m.label)
Claims == \A n \in Nodes : \A i \in DOMAIN up[n] : Claim(up[n][i])

IInv ==
  /\ Types /\ Routed /\ Membership
  /\ Edges /\ Links /\ Labelled /\ Pending /\ Fresh /\ NotLeaving /\ ForAll
  /\ Claims /\ SuccessIsReal

-----------------------------------------------------------------------------
(* How two levels move *)

\* Messages on the way down that are about label l
About(l) == {m \in DownMessages : m.type \in {"Announce", "Synchronized"} /\ m.label = l}

LEMMA StepsOf ==
  ASSUME NEW f, NEW l, NEW own, NEW m \in DownMessages, NEW x \in States, NEW y \in States
  PROVE  /\ m \in AnnTo(f, l) => (<<m, x, y>> \in Steps(f, l, own) <=> x = "off" /\ y = "on")
         /\ m \in EndTo(f, l) => (<<m, x, y>> \in Steps(f, l, own) <=> x = "on" /\ y = "off")
         /\ m \in EndOf(l) /\ m \notin EndTo(f, l) =>
              (<<m, x, y>> \in Steps(f, l, own) <=> ~own /\ x = "off" /\ y = "off")
         /\ m \notin Touch(f, l) =>
              (<<m, x, y>> \in Steps(f, l, own) <=> x = y /\ (own /\ m \in About(l) => x = "on"))
         /\ m \notin About(l) => m \notin Touch(f, l)
<1>1. m \in AnnTo(f, l) => m \notin EndOf(l)
  BY DEF AnnTo, EndOf
<1>2. m \in EndTo(f, l) => m \in EndOf(l)
  BY DEF EndTo
<1>3. m \notin About(l) => m \notin Touch(f, l)
  BY DEF Touch, AnnTo, EndOf, About
<1>4. m \notin EndOf(l) => (m \in About(l) <=> m.type = "Announce" /\ m.label = l)
  BY DEF EndOf, About
<1>5. <<m, x, y>> \in Steps(f, l, own) <=>
        CASE m \in AnnTo(f, l) -> x = "off" /\ y = "on"
          [] m \in EndTo(f, l) -> x = "on" /\ y = "off"
          [] m \in EndOf(l) \ EndTo(f, l) -> ~own /\ x = "off" /\ y = "off"
          [] OTHER -> x = y /\ (own /\ m.type = "Announce" /\ m.label = l => x = "on")
  BY DEF Steps
<1>6. CASE m \in AnnTo(f, l)
  BY <1>1, <1>2, <1>3, <1>5, <1>6 DEF Touch
<1>7. CASE m \in EndTo(f, l)
  BY <1>1, <1>2, <1>3, <1>5, <1>7 DEF Touch
<1>8. CASE m \in EndOf(l) /\ m \notin EndTo(f, l)
  BY <1>1, <1>2, <1>3, <1>5, <1>8 DEF Touch
<1>9. CASE m \notin AnnTo(f, l) /\ m \notin EndOf(l)
  BY <1>1, <1>2, <1>3, <1>4, <1>5, <1>9 DEF Touch
<1> QED
  BY <1>6, <1>7, <1>8, <1>9

LEMMA TouchAbout ==
  ASSUME NEW f, NEW l
  PROVE  Touch(f, l) \subseteq About(l)
BY DEF Touch, AnnTo, EndOf, About

LEMMA SwitchOf ==
  \A p : (Switch(p) = "on" <=> p) /\ (Switch(p) = "off" <=> ~p)
BY DEF Switch

LEMMA SomeTouch ==
  ASSUME NEW q, NEW f, NEW l
  PROVE  Some(q, Touch(f, l)) <=> Some(q, AnnTo(f, l)) \/ Some(q, EndOf(l))
BY DEF Some, Touch

\* The upper level has taken a message.
LEMMA LinkTakeUp ==
  ASSUME NEW f, NEW l, NEW own, NEW w, NEW a, NEW W, NEW A,
         NEW p \in Seq(UpMessages), NEW q, p # <<>>, LinkOK(f, l, own, w, a, W, A, p, q)
  PROVE  LinkOK(f, l, own, w, a, W, A, Tail(p), q)
<1>1. Some(Tail(p), By(f, l)) => Some(p, By(f, l))
  BY SomeTail
<1> QED
  BY <1>1 DEF LinkOK

\* The lower level has sent messages.
LEMMA LinkSendUp ==
  ASSUME NEW f, NEW l, NEW own, NEW w, NEW a, NEW W, NEW A,
         NEW p \in Seq(UpMessages), NEW q, NEW v \in Seq(UpMessages),
         LinkOK(f, l, own, w, a, W, A, p, q),
         Some(v, By(f, l)) => a /\ ~Some(q, Touch(f, l))
  PROVE  LinkOK(f, l, own, w, a, W, A, p \o v, q)
<1>1. Some(p \o v, By(f, l)) <=> Some(p, By(f, l)) \/ Some(v, By(f, l))
  BY SomeConcat
<1>2. Some(q, AnnTo(f, l)) => Some(q, Touch(f, l))
  BY SomeTouch
<1> QED
  BY <1>1, <1>2 DEF LinkOK

\* The lower level has got the answer of f.
LEMMA LinkAnswer ==
  ASSUME NEW f, NEW l, NEW own, NEW w, NEW a, NEW W, NEW A, NEW p, NEW q,
         LinkOK(f, l, own, w, a, W, A, p, q), w
  PROVE  LinkOK(f, l, own, FALSE, TRUE, W, A, p, q) /\ ~Some(q, Touch(f, l))
<1>1. Switch(w \/ a) = Switch(FALSE \/ TRUE)
  BY DEF Switch
<1> QED
  BY <1>1, SomeTouch DEF LinkOK

\* The lower level has taken a message that does not concern it.
LEMMA LinkPass ==
  ASSUME NEW f, NEW l, NEW own, NEW w, NEW a, NEW W, NEW A, NEW p,
         NEW q \in Seq(DownMessages), q # <<>>, LinkOK(f, l, own, w, a, W, A, p, q),
         Head(q) \notin Touch(f, l)
  PROVE  /\ LinkOK(f, l, own, w, a, W, A, p, Tail(q))
         /\ own /\ Head(q) \in About(l) => w \/ a
<1>1. PICK t, h : t = Tail(q) /\ h = Head(q)
  OBVIOUS
<1>2. h \in DownMessages /\ h \notin AnnTo(f, l) /\ h \notin EndOf(l)
  BY <1>1, TailAt DEF Touch
<1>3. Some(t, Touch(f, l)) <=> Some(q, Touch(f, l))
  BY <1>1, SomeTail
<1>4. Some(t, AnnTo(f, l)) <=> Some(q, AnnTo(f, l))
  BY <1>1, <1>2, SomeTail
<1>5. Some(t, EndOf(l)) <=> Some(q, EndOf(l))
  BY <1>1, <1>2, SomeTail
<1>6. SomeAfter(t, AnnTo(f, l), Touch(f, l)) => SomeAfter(q, AnnTo(f, l), Touch(f, l))
  BY <1>1, AfterTail
<1>7. Run(q, Steps(f, l, own), Switch(w \/ a), Switch(W \/ A))
  BY DEF LinkOK
<1>8. PICK c \in States : /\ <<h, Switch(w \/ a), c>> \in Steps(f, l, own)
                          /\ Run(t, Steps(f, l, own), c, Switch(W \/ A))
  BY <1>1, <1>7, RunTail
<1>9. c = Switch(w \/ a) /\ (own /\ h \in About(l) => Switch(w \/ a) = "on")
  BY <1>1, <1>2, <1>8, StepsOf, SwitchType
<1>10. LinkOK(f, l, own, w, a, W, A, p, t)
  BY <1>3, <1>4, <1>5, <1>6, <1>8, <1>9 DEF LinkOK
<1>11. own /\ h \in About(l) => w \/ a
  BY <1>9, SwitchOf
<1> QED
  BY <1>1, <1>10, <1>11

\* The lower level has taken an announcement.
LEMMA LinkAnnounced ==
  ASSUME NEW f, NEW l, NEW own, NEW w, NEW a, NEW W, NEW A, NEW p,
         NEW q \in Seq(DownMessages), q # <<>>, LinkOK(f, l, own, w, a, W, A, p, q),
         Head(q) \in AnnTo(f, l)
  PROVE  /\ ~w /\ ~a /\ W
         /\ LinkOK(f, l, own, TRUE, FALSE, W, A, p, Tail(q))
<1>1. PICK t, h : t = Tail(q) /\ h = Head(q)
  OBVIOUS
<1>2. h \in DownMessages /\ h \in AnnTo(f, l)
  BY <1>1, TailAt
<1>3. Some(q, AnnTo(f, l))
  BY <1>1, <1>2, SomeTail
<1>4. Run(q, Steps(f, l, own), Switch(w \/ a), Switch(W \/ A)) /\ W /\ ~A
      /\ ~SomeAfter(q, AnnTo(f, l), Touch(f, l)) /\ ~Some(p, By(f, l))
  BY <1>3 DEF LinkOK
<1>5. ~Some(t, Touch(f, l))
  BY <1>1, <1>2, <1>4, AfterTail
<1>6. PICK c \in States : /\ <<h, Switch(w \/ a), c>> \in Steps(f, l, own)
                          /\ Run(t, Steps(f, l, own), c, Switch(W \/ A))
  BY <1>1, <1>4, RunTail
<1>7. c = "on" /\ Switch(w \/ a) = "off"
  BY <1>2, <1>6, StepsOf, SwitchType
<1>8. ~w /\ ~a /\ Switch(TRUE \/ FALSE) = c
  BY <1>7, SwitchOf
<1>9. ~Some(t, AnnTo(f, l))
  BY <1>5, SomeTouch
<1>10. LinkOK(f, l, own, TRUE, FALSE, W, A, p, t)
  BY <1>4, <1>5, <1>6, <1>8, <1>9 DEF LinkOK
<1> QED
  BY <1>1, <1>4, <1>8, <1>10

\* The lower level has taken a message that ends the point.
LEMMA LinkEnded ==
  ASSUME NEW f, NEW l, NEW own, NEW w, NEW a, NEW W, NEW A, NEW p,
         NEW q \in Seq(DownMessages), q # <<>>, LinkOK(f, l, own, w, a, W, A, p, q),
         Head(q) \in EndOf(l)
  PROVE  /\ ~w /\ (a <=> Head(q) \in EndTo(f, l)) /\ ~Some(p, By(f, l)) /\ ~A
         /\ LinkOK(f, l, own, FALSE, FALSE, W, A, p, Tail(q))
<1>1. PICK t, h : t = Tail(q) /\ h = Head(q)
  OBVIOUS
<1>2. h \in DownMessages /\ h \in EndOf(l) /\ h \notin AnnTo(f, l)
  BY <1>1, TailAt DEF EndOf, AnnTo
<1>3. Some(q, EndOf(l)) /\ Some(q, Touch(f, l))
  BY <1>1, <1>2, SomeTail, SomeTouch
<1>4. /\ Run(q, Steps(f, l, own), Switch(w \/ a), Switch(W \/ A)) /\ ~w /\ ~A
      /\ ~Some(p, By(f, l))
      /\ Some(q, AnnTo(f, l)) => W /\ ~SomeAfter(q, AnnTo(f, l), Touch(f, l))
  BY <1>3 DEF LinkOK
<1>5. /\ Some(t, AnnTo(f, l)) <=> Some(q, AnnTo(f, l))
      /\ SomeAfter(t, AnnTo(f, l), Touch(f, l)) => SomeAfter(q, AnnTo(f, l), Touch(f, l))
  BY <1>1, <1>2, SomeTail, AfterTail
<1>6. PICK c \in States : /\ <<h, Switch(w \/ a), c>> \in Steps(f, l, own)
                          /\ Run(t, Steps(f, l, own), c, Switch(W \/ A))
  BY <1>1, <1>4, RunTail
<1>7. c = "off" /\ (Switch(w \/ a) = "on" <=> h \in EndTo(f, l))
  BY <1>2, <1>6, StepsOf, SwitchType
<1>8. Switch(FALSE \/ FALSE) = c /\ (a <=> h \in EndTo(f, l))
  BY <1>4, <1>7, SwitchOf
<1>9. LinkOK(f, l, own, FALSE, FALSE, W, A, p, t)
  BY <1>4, <1>5, <1>6, <1>8 DEF LinkOK
<1> QED
  BY <1>1, <1>4, <1>8, <1>9

\* The upper level has sent messages that do not concern f.
LEMMA LinkTell ==
  ASSUME NEW f, NEW l, NEW own, NEW w, NEW a, NEW W, NEW A, NEW p,
         NEW q \in Seq(DownMessages), NEW v \in Seq(DownMessages),
         LinkOK(f, l, own, w, a, W, A, p, q),
         \A i \in DOMAIN v : v[i] \notin Touch(f, l) /\ (own /\ v[i] \in About(l) => W \/ A)
  PROVE  LinkOK(f, l, own, w, a, W, A, p, q \o v)
<1>1. PICK t : t = q \o v
  OBVIOUS
<1>2. ~Some(v, Touch(f, l)) /\ ~Some(v, AnnTo(f, l)) /\ ~Some(v, EndOf(l))
  BY DEF Some, Touch
<1>3. /\ Some(t, Touch(f, l)) <=> Some(q, Touch(f, l))
      /\ Some(t, AnnTo(f, l)) <=> Some(q, AnnTo(f, l))
      /\ Some(t, EndOf(l)) <=> Some(q, EndOf(l))
  BY <1>1, <1>2, SomeConcat
<1>4. SomeAfter(t, AnnTo(f, l), Touch(f, l)) => SomeAfter(q, AnnTo(f, l), Touch(f, l))
  <2>1. ~SomeAfter(v, AnnTo(f, l), Touch(f, l))
    BY <1>2 DEF SomeAfter, Some
  <2> QED
    BY <1>1, <1>2, <2>1, AfterConcat
<1>5. PICK c : c = Switch(W \/ A)
  OBVIOUS
<1>6. c \in States
  BY <1>5, SwitchType
<1>7. ASSUME NEW i \in DOMAIN v PROVE <<v[i], c, c>> \in Steps(f, l, own)
  <2>1. v[i] \in DownMessages /\ v[i] \notin Touch(f, l) /\ (own /\ v[i] \in About(l) => c = "on")
    BY <1>5, SwitchOf, ElementsIn
  <2> QED
    BY <1>6, <2>1, StepsOf
<1>8. Run(v, Steps(f, l, own), c, c)
  BY <1>6, <1>7, RunIdle
<1>9. Run(q, Steps(f, l, own), Switch(w \/ a), c)
  BY <1>5 DEF LinkOK
<1>10. Run(t, Steps(f, l, own), Switch(w \/ a), c)
  BY <1>1, <1>8, <1>9, RunConcat
<1>11. LinkOK(f, l, own, w, a, W, A, p, t)
  BY <1>3, <1>4, <1>5, <1>10 DEF LinkOK
<1> QED
  BY <1>1, <1>11

\* Message k is the only one about label l.
Lone(v, l, k) == k \in DOMAIN v /\ \A j \in DOMAIN v : j # k => v[j] \notin About(l)

\* The upper level has announced the point to f.
LEMMA LinkAnnounce ==
  ASSUME NEW f, NEW l, NEW own, NEW w, NEW a, NEW W, NEW A, NEW p,
         NEW q \in Seq(DownMessages), NEW v \in Seq(DownMessages),
         LinkOK(f, l, own, w, a, W, A, p, q), ~W, ~A, ~Some(p, By(f, l)),
         NEW k, Lone(v, l, k), v[k] \in AnnTo(f, l)
  PROVE  LinkOK(f, l, own, w, a, TRUE, FALSE, p, q \o v)
<1>1. PICK t : t = q \o v
  OBVIOUS
<1>2. /\ k \in DOMAIN v /\ v[k] \in DownMessages
      /\ \A j \in DOMAIN v : v[j] \in DownMessages /\ (j # k => v[j] \notin Touch(f, l))
  BY TouchAbout, ElementsIn DEF Lone, AnnTo
<1>3. ~Some(q, AnnTo(f, l)) /\ ~w
  BY DEF LinkOK
<1>4. ~SomeAfter(v, AnnTo(f, l), Touch(f, l))
  <2> SUFFICES ASSUME NEW i \in DOMAIN v, NEW j \in DOMAIN v, j < i, v[j] \in AnnTo(f, l),
                      v[i] \in Touch(f, l)
               PROVE  FALSE
    BY DEF SomeAfter
  <2>1. v[j] \in Touch(f, l)
    BY DEF Touch
  <2>2. i = k /\ j = k
    BY <1>2, <2>1
  <2>3. k \in Int
    BY <1>2, LenProperties
  <2> QED
    BY <2>2, <2>3
<1>5. ~SomeAfter(t, AnnTo(f, l), Touch(f, l))
  <2> SUFFICES ASSUME SomeAfter(q \o v, AnnTo(f, l), Touch(f, l)) PROVE FALSE
    BY <1>1
  <2>1. SomeAfter(q, AnnTo(f, l), Touch(f, l)) => Some(q, AnnTo(f, l))
    BY DEF SomeAfter, Some
  <2> QED
    BY <1>3, <1>4, <2>1, AfterConcat
<1>6. Some(q, EndOf(l)) => Some(t, EndOf(l))
  BY <1>1, SomeConcat
<1>7. "off" \in States /\ "on" \in States
  BY DEF States
<1>8. <<v[k], "off", "on">> \in Steps(f, l, own)
  BY <1>2, <1>7, StepsOf
<1>9. ASSUME NEW j \in DOMAIN v, j # k
      PROVE  <<v[j], "off", "off">> \in Steps(f, l, own) /\ <<v[j], "on", "on">> \in Steps(f, l, own)
  <2>1. v[j] \in DownMessages /\ v[j] \notin About(l) /\ v[j] \notin Touch(f, l)
    BY <1>2, <1>9 DEF Lone
  <2> QED
    BY <1>7, <2>1, StepsOf
<1>10. Run(v, Steps(f, l, own), "off", "on")
  BY <1>2, <1>7, <1>8, <1>9, RunOnce
<1>11. Run(q, Steps(f, l, own), Switch(w \/ a), "off")
  <2>1. Switch(W \/ A) = "off"
    BY SwitchOf
  <2> QED
    BY <2>1 DEF LinkOK
<1>12. Run(t, Steps(f, l, own), Switch(w \/ a), "on")
  BY <1>1, <1>10, <1>11, RunConcat
<1>13. Switch(TRUE \/ FALSE) = "on"
  BY SwitchOf
<1>14. (w \/ a) => Some(q, EndOf(l))
  BY DEF LinkOK
<1>15. ~(w /\ a)
  BY DEF LinkOK
<1>16. LinkOK(f, l, own, w, a, TRUE, FALSE, p, t)
  BY <1>3, <1>5, <1>6, <1>12, <1>13, <1>14, <1>15 DEF LinkOK
<1> QED
  BY <1>1, <1>16

\* The upper level has told that the point is synchronized.
LEMMA LinkEnd ==
  ASSUME NEW f, NEW l, NEW own, NEW w, NEW a, NEW W, NEW A, NEW p,
         NEW q \in Seq(DownMessages), NEW v \in Seq(DownMessages),
         LinkOK(f, l, own, w, a, W, A, p, q), ~W, ~Some(p, By(f, l)),
         NEW k, Lone(v, l, k), v[k] \in EndOf(l), v[k] \in EndTo(f, l) <=> A,
         ~own \/ A
  PROVE  LinkOK(f, l, own, w, a, FALSE, FALSE, p, q \o v)
<1>1. PICK t : t = q \o v
  OBVIOUS
<1>2. /\ k \in DOMAIN v /\ v[k] \in DownMessages /\ v[k] \notin AnnTo(f, l)
      /\ \A j \in DOMAIN v : v[j] \in DownMessages /\ (j # k => v[j] \notin Touch(f, l))
  BY TouchAbout, ElementsIn DEF Lone, EndOf, AnnTo
<1>3. ~Some(q, AnnTo(f, l)) /\ ~w
  BY DEF LinkOK
<1>4. ~Some(v, AnnTo(f, l)) /\ Some(v, EndOf(l))
  BY <1>2 DEF Some, Touch
<1>5. ~Some(t, AnnTo(f, l)) /\ Some(t, EndOf(l))
  BY <1>1, <1>3, <1>4, SomeConcat
<1>6. PICK c : c = Switch(A)
  OBVIOUS
<1>7. "off" \in States /\ "on" \in States /\ c \in States /\ Switch(W \/ A) = c
  BY <1>6, SwitchType DEF States, Switch
<1>8. <<v[k], c, "off">> \in Steps(f, l, own)
  <2>1. CASE A
    <3>1. c = "on"
      BY <1>6, <2>1, SwitchOf
    <3> QED
      BY <1>2, <1>7, <2>1, <3>1, StepsOf
  <2>2. CASE ~A
    <3>1. c = "off" /\ ~own /\ v[k] \notin EndTo(f, l)
      BY <1>6, <2>2, SwitchOf
    <3> QED
      BY <1>2, <1>7, <3>1, StepsOf
  <2> QED
    BY <2>1, <2>2
<1>9. ASSUME NEW j \in DOMAIN v, j # k
      PROVE  <<v[j], c, c>> \in Steps(f, l, own) /\ <<v[j], "off", "off">> \in Steps(f, l, own)
  <2>1. v[j] \in DownMessages /\ v[j] \notin About(l) /\ v[j] \notin Touch(f, l)
    BY <1>2, <1>9 DEF Lone
  <2> QED
    BY <1>7, <2>1, StepsOf
<1>10. Run(v, Steps(f, l, own), c, "off")
  BY <1>2, <1>7, <1>8, <1>9, RunOnce
<1>11. Run(q, Steps(f, l, own), Switch(w \/ a), c)
  BY <1>7 DEF LinkOK
<1>12. Run(t, Steps(f, l, own), Switch(w \/ a), "off")
  BY <1>1, <1>10, <1>11, RunConcat
<1>13. Switch(FALSE \/ FALSE) = "off"
  BY SwitchOf
<1>14. LinkOK(f, l, own, w, a, FALSE, FALSE, p, t)
  BY <1>3, <1>5, <1>12, <1>13 DEF LinkOK
<1> QED
  BY <1>1, <1>14

-----------------------------------------------------------------------------
(* How queues move: the oldest message may be taken, and others are added. *)

Shifted(q, taken, v) == (IF taken THEN Tail(q) ELSE q) \o v

LEMMA ShiftType ==
  ASSUME NEW T, NEW q \in Seq(T), NEW taken, taken => q # <<>>, NEW v \in Seq(T)
  PROVE  /\ Shifted(q, taken, v) \in Seq(T)
         /\ Shifted(q, taken, <<>>) = IF taken THEN Tail(q) ELSE q
         /\ ~taken => Shifted(q, taken, v) = q \o v
<1>1. PICK t : t = IF taken THEN Tail(q) ELSE q
  OBVIOUS
<1>2. t \in Seq(T)
  BY <1>1, TailAt
<1>3. t \o v \in Seq(T) /\ t \o <<>> = t
  BY <1>2, ConcatProperties, ConcatEmptySeq
<1> QED
  BY <1>1, <1>3 DEF Shifted

LEMMA ShiftElements ==
  ASSUME NEW T, NEW q \in Seq(T), NEW taken, taken => q # <<>>, NEW v \in Seq(T), NEW X,
         \A i \in DOMAIN q : q[i] \in X, \A i \in DOMAIN v : v[i] \in X
  PROVE  \A i \in DOMAIN Shifted(q, taken, v) : Shifted(q, taken, v)[i] \in X
<1>1. PICK t : t = IF taken THEN Tail(q) ELSE q
  OBVIOUS
<1>2. t \in Seq(T) /\ \A i \in DOMAIN t : t[i] \in X
  <2>1. CASE ~taken
    BY <1>1, <2>1
  <2>2. CASE taken
    <3>1. /\ t \in Seq(T) /\ DOMAIN t = 1 .. Len(q) - 1 /\ DOMAIN q = 1 .. Len(q) /\ Len(q) \in Nat
          /\ \A i \in 1 .. Len(q) - 1 : t[i] = q[i + 1]
      BY <1>1, <2>2, TailAt
    <3>2. \A i \in 1 .. Len(q) - 1 : i + 1 \in DOMAIN q
      BY <3>1
    <3> QED
      BY <3>1, <3>2
  <2> QED
    BY <2>1, <2>2
<1>3. PICK r : r = t \o v
  OBVIOUS
<1>4. /\ DOMAIN r = 1 .. Len(t) + Len(v) /\ DOMAIN t = 1 .. Len(t) /\ DOMAIN v = 1 .. Len(v)
      /\ Len(t) \in Nat /\ Len(v) \in Nat
      /\ \A i \in 1 .. Len(t) : r[i] = t[i]
      /\ \A i \in 1 .. Len(v) : r[Len(t) + i] = v[i]
  BY <1>2, <1>3, ConcatAt
<1>5. ASSUME NEW i \in DOMAIN r PROVE r[i] \in X
  <2>1. CASE i <= Len(t)
    BY <1>2, <1>4, <2>1
  <2>2. CASE Len(t) < i
    <3>1. i - Len(t) \in 1 .. Len(v) /\ Len(t) + (i - Len(t)) = i
      BY <1>4, <2>2
    <3> QED
      BY <1>4, <3>1
  <2> QED
    BY <1>4, <2>1, <2>2
<1> QED
  BY <1>1, <1>3, <1>5 DEF Shifted

LEMMA ShiftSome ==
  ASSUME NEW T, NEW q \in Seq(T), NEW taken, taken => q # <<>>, NEW v \in Seq(T), NEW X
  PROVE  /\ Some(Shifted(q, taken, v), X) => Some(q, X) \/ Some(v, X)
         /\ Some(v, X) => Some(Shifted(q, taken, v), X)
         /\ Some(q, X) /\ (taken => Head(q) \notin X) => Some(Shifted(q, taken, v), X)
<1>1. PICK t : t = IF taken THEN Tail(q) ELSE q
  OBVIOUS
<1>2. t \in Seq(T) /\ (Some(t, X) => Some(q, X))
      /\ (Some(q, X) /\ (taken => Head(q) \notin X) => Some(t, X))
  BY <1>1, TailAt, SomeTail
<1>3. Some(t \o v, X) <=> Some(t, X) \/ Some(v, X)
  BY <1>2, SomeConcat
<1> QED
  BY <1>1, <1>2, <1>3 DEF Shifted

LEMMA ShiftSingle ==
  ASSUME NEW T, NEW q \in Seq(T), NEW taken, taken => q # <<>>, NEW v \in Seq(T), NEW X,
         Single(q, X), ~Some(v, X)
  PROVE  Single(Shifted(q, taken, v), X)
<1>1. PICK t : t = IF taken THEN Tail(q) ELSE q
  OBVIOUS
<1>2. t \in Seq(T) /\ Single(t, X)
  BY <1>1, TailAt, SingleTail
<1>3. PICK r : r = t \o v
  OBVIOUS
<1>4. /\ DOMAIN r = 1 .. Len(t) + Len(v) /\ DOMAIN t = 1 .. Len(t) /\ DOMAIN v = 1 .. Len(v)
      /\ Len(t) \in Nat /\ Len(v) \in Nat
      /\ \A i \in 1 .. Len(t) : r[i] = t[i]
      /\ \A i \in 1 .. Len(v) : r[Len(t) + i] = v[i]
  BY <1>2, <1>3, ConcatAt
<1>5. ASSUME NEW i \in DOMAIN r, r[i] \in X PROVE i \in DOMAIN t /\ t[i] \in X
  <2>1. CASE i <= Len(t)
    BY <1>4, <1>5, <2>1
  <2>2. CASE Len(t) < i
    <3>1. i - Len(t) \in 1 .. Len(v) /\ Len(t) + (i - Len(t)) = i
      BY <1>4, <2>2
    <3> QED
      BY <1>4, <1>5, <3>1 DEF Some
  <2> QED
    BY <1>4, <2>1, <2>2
<1>6. Single(r, X)
  BY <1>2, <1>5 DEF Single
<1> QED
  BY <1>1, <1>3, <1>6 DEF Shifted

LEMMA ShiftAfter ==
  ASSUME NEW T, NEW q \in Seq(T), NEW taken, taken => q # <<>>, NEW v \in Seq(T), NEW X, NEW Y,
         ~SomeAfter(q, Y, X), Some(v, X) => ~Some(q, Y) /\ ~SomeAfter(v, Y, X)
  PROVE  ~SomeAfter(Shifted(q, taken, v), Y, X)
<1>1. PICK t : t = IF taken THEN Tail(q) ELSE q
  OBVIOUS
<1>2. t \in Seq(T) /\ ~SomeAfter(t, Y, X) /\ (Some(t, Y) => Some(q, Y))
  BY <1>1, TailAt, AfterTail, SomeTail
<1>3. SomeAfter(v, Y, X) => Some(v, X)
  BY DEF SomeAfter, Some
<1>4. ~SomeAfter(t \o v, Y, X)
  <2> SUFFICES ASSUME SomeAfter(t \o v, Y, X) PROVE FALSE
    OBVIOUS
  <2>1. SomeAfter(t, Y, X) \/ SomeAfter(v, Y, X) \/ (Some(t, Y) /\ Some(v, X))
    BY <1>2, AfterConcat
  <2> QED
    BY <1>2, <1>3, <2>1
<1> QED
  BY <1>1, <1>4 DEF Shifted

\* Nothing that concerns f and label l has been taken or added.
LEMMA LinkShift ==
  ASSUME NEW f, NEW l, NEW own, NEW w, NEW a, NEW W, NEW A,
         NEW p \in Seq(UpMessages), NEW q \in Seq(DownMessages), NEW tp, NEW tq,
         NEW u \in Seq(UpMessages), NEW v \in Seq(DownMessages),
         tp => p # <<>>, tq => q # <<>> /\ Head(q) \notin Touch(f, l),
         LinkOK(f, l, own, w, a, W, A, p, q),
         ~Some(u, By(f, l)),
         \A i \in DOMAIN v : v[i] \notin Touch(f, l) /\ (own /\ v[i] \in About(l) => W \/ A)
  PROVE  LinkOK(f, l, own, w, a, W, A, Shifted(p, tp, u), Shifted(q, tq, v))
<1>1. PICK r, t : r = (IF tp THEN Tail(p) ELSE p) /\ t = IF tq THEN Tail(q) ELSE q
  OBVIOUS
<1>2. r \in Seq(UpMessages) /\ t \in Seq(DownMessages)
  BY <1>1, TailAt
<1>3. LinkOK(f, l, own, w, a, W, A, r, q)
  BY <1>1, LinkTakeUp
<1>4. LinkOK(f, l, own, w, a, W, A, r, t)
  BY <1>1, <1>3, LinkPass
<1>5. LinkOK(f, l, own, w, a, W, A, r \o u, t)
  BY <1>2, <1>4, LinkSendUp
<1>6. LinkOK(f, l, own, w, a, W, A, r \o u, t \o v)
  BY <1>2, <1>5, LinkTell
<1> QED
  BY <1>1, <1>6 DEF Shifted

\* What MemberOK says of a queue is kept.
SameUp(f, p, r) ==
  /\ Some(r, JoinOf(f)) <=> Some(p, JoinOf(f))
  /\ Single(p, JoinOf(f)) => Single(r, JoinOf(f))
  /\ Some(r, ResignOf(f)) => Some(p, ResignOf(f))
SameDown(f, q, t) ==
  /\ Some(t, JoinedOf(f)) <=> Some(q, JoinedOf(f))
  /\ Single(q, JoinedOf(f)) => Single(t, JoinedOf(f))
  /\ Some(t, ResignedOf(f)) => Some(q, ResignedOf(f))
  /\ SomeAfter(t, Announcing(f), JoinedOf(f)) => SomeAfter(q, Announcing(f), JoinedOf(f))

LEMMA MemberSame ==
  ASSUME NEW f, NEW member, NEW kr, NEW kp, NEW lv,
         NEW pf, NEW qf, NEW ps, NEW qs, NEW pf2, NEW qf2, NEW ps2, NEW qs2,
         MemberOK(f, member, kr, kp, lv, pf, qf, ps, qs),
         SameUp(f, pf, pf2), SameUp(f, ps, ps2), SameDown(f, qf, qf2), SameDown(f, qs, qs2)
  PROVE  MemberOK(f, member, kr, kp, lv, pf2, qf2, ps2, qs2)
BY DEF MemberOK, SameUp, SameDown

LEMMA ShiftSameUp ==
  ASSUME NEW f, NEW p \in Seq(UpMessages), NEW taken, taken => p # <<>> /\ Head(p) \notin JoinOf(f),
         NEW u \in Seq(UpMessages), ~Some(u, JoinOf(f)), ~Some(u, ResignOf(f))
  PROVE  SameUp(f, p, Shifted(p, taken, u))
<1>1. Some(Shifted(p, taken, u), JoinOf(f)) <=> Some(p, JoinOf(f))
  BY ShiftSome
<1>2. Some(Shifted(p, taken, u), ResignOf(f)) => Some(p, ResignOf(f))
  BY ShiftSome
<1>3. Single(p, JoinOf(f)) => Single(Shifted(p, taken, u), JoinOf(f))
  BY ShiftSingle
<1> QED
  BY <1>1, <1>2, <1>3 DEF SameUp

LEMMA ShiftSameDown ==
  ASSUME NEW f, NEW q \in Seq(DownMessages), NEW taken,
         taken => q # <<>> /\ Head(q) \notin JoinedOf(f),
         NEW v \in Seq(DownMessages), ~Some(v, JoinedOf(f)), ~Some(v, ResignedOf(f))
  PROVE  SameDown(f, q, Shifted(q, taken, v))
<1>1. Some(Shifted(q, taken, v), JoinedOf(f)) <=> Some(q, JoinedOf(f))
  BY ShiftSome
<1>2. Some(Shifted(q, taken, v), ResignedOf(f)) => Some(q, ResignedOf(f))
  BY ShiftSome
<1>3. Single(q, JoinedOf(f)) => Single(Shifted(q, taken, v), JoinedOf(f))
  BY ShiftSingle
<1>4. ~SomeAfter(q, Announcing(f), JoinedOf(f))
      => ~SomeAfter(Shifted(q, taken, v), Announcing(f), JoinedOf(f))
  BY ShiftAfter
<1> QED
  BY <1>1, <1>2, <1>3, <1>4 DEF SameDown

\* The upper level has taken an answer of f that it waited for.
LEMMA LinkAnswered ==
  ASSUME NEW f, NEW l, NEW own, NEW w, NEW a, NEW W, NEW A, NEW p, NEW q,
         LinkOK(f, l, own, w, a, W, A, p, q), Some(p, By(f, l)), W
  PROVE  LinkOK(f, l, own, w, a, FALSE, TRUE, p, q)
<1>1. Switch(W \/ A) = Switch(FALSE \/ TRUE)
  BY DEF Switch
<1>2. a /\ ~w /\ ~Some(q, Touch(f, l)) /\ ~Some(q, AnnTo(f, l))
  BY SomeTouch DEF LinkOK
<1> QED
  BY <1>1, <1>2 DEF LinkOK

\* The root waits for those of W until the answers of q are taken; an answer that is added has news.
NewsKept(q, taken, W, W2) ==
  \A l, g : <<l, g>> \in W /\ Some(q, By(g, l)) =>
    <<l, g>> \in W2 \/ (taken /\ (Head(q) \in By(g, l) \/ Head(q) \in ResignOf(g)))
NewsAdded(q, v, W2) ==
  \A i \in DOMAIN v : v[i].type = "Achieved" =>
    \E g \in Federates : /\ <<v[i].label, g>> \in W2 /\ News(v, v[i].label, i, g)
                        /\ ~Some(q, By(g, v[i].label)) /\ ~Some(q, ResignOf(g))

LEMMA NewsShift ==
  ASSUME NEW q \in Seq(UpMessages), NEW taken, taken => q # <<>>, NEW v \in Seq(UpMessages),
         NEW W, NEW W2, AllNews(q, W), NewsKept(q, taken, W, W2), NewsAdded(q, v, W2)
  PROVE  AllNews(Shifted(q, taken, v), W2)
<1>1. PICK t : t = IF taken THEN Tail(q) ELSE q
  OBVIOUS
<1>2. PICK d : d = IF taken THEN 1 ELSE 0
  OBVIOUS
<1>3. /\ t \in Seq(UpMessages) /\ DOMAIN t = 1 .. Len(t) /\ Len(t) \in Nat
      /\ d \in Nat /\ DOMAIN q = 1 .. Len(t) + d /\ \A i \in DOMAIN t : t[i] = q[i + d]
  <2>1. CASE taken
    BY <1>1, <1>2, <2>1, TailAt
  <2>2. CASE ~taken
    BY <1>1, <1>2, <2>2, LenProperties
  <2> QED
    BY <2>1, <2>2
<1>4. PICK r : r = t \o v
  OBVIOUS
<1>5. /\ DOMAIN r = 1 .. Len(t) + Len(v) /\ DOMAIN v = 1 .. Len(v) /\ Len(v) \in Nat
      /\ \A i \in 1 .. Len(t) : r[i] = t[i]
      /\ \A i \in 1 .. Len(v) : r[Len(t) + i] = v[i]
  BY <1>3, <1>4, ConcatAt
<1>6. ASSUME NEW i \in DOMAIN t, t[i].type = "Achieved" PROVE HasNews(r, W2, i)
  <2>1. i + d \in DOMAIN q /\ r[i] = q[i + d] /\ i \in Nat
    BY <1>3, <1>5
  <2>2. PICK g \in Federates : <<r[i].label, g>> \in W /\ News(q, r[i].label, i + d, g)
    BY <1>3, <1>6, <2>1 DEF AllNews, HasNews
  <2>3. PICK l : l = r[i].label
    OBVIOUS
  <2>4. /\ q[i + d] \in By(g, l)
        /\ \A k \in DOMAIN q : k < i + d => q[k] \notin By(g, l) /\ q[k] \notin ResignOf(g)
    BY <2>2, <2>3 DEF News
  <2>5. Some(q, By(g, l))
    BY <2>1, <2>4 DEF Some
  <2>6. taken => Head(q) \notin By(g, l) /\ Head(q) \notin ResignOf(g)
    <3> SUFFICES ASSUME taken PROVE Head(q) \notin By(g, l) /\ Head(q) \notin ResignOf(g)
      OBVIOUS
    <3>1. Head(q) = q[1] /\ 1 \in DOMAIN q /\ 1 < i + d
      BY <1>2, <1>3, TailAt
    <3> QED
      BY <2>4, <3>1
  <2>7. <<l, g>> \in W2
    BY <2>2, <2>3, <2>5, <2>6 DEF NewsKept
  <2>8. ASSUME NEW k \in DOMAIN r, k < i PROVE r[k] \notin By(g, l) /\ r[k] \notin ResignOf(g)
    <3>1. k \in DOMAIN t /\ k + d \in DOMAIN q /\ k + d < i + d /\ r[k] = q[k + d]
      BY <1>3, <1>5, <2>8
    <3> QED
      BY <2>4, <3>1
  <2>9. r[i] \in By(g, l)
    BY <2>1, <2>4
  <2>10. News(r, l, i, g)
    BY <2>8, <2>9 DEF News
  <2> QED
    BY <2>3, <2>7, <2>10 DEF HasNews
<1>7. ASSUME NEW i \in DOMAIN v, v[i].type = "Achieved" PROVE HasNews(r, W2, Len(t) + i)
  <2>1. PICK g \in Federates : /\ <<v[i].label, g>> \in W2 /\ News(v, v[i].label, i, g)
                               /\ ~Some(q, By(g, v[i].label)) /\ ~Some(q, ResignOf(g))
    BY <1>7 DEF NewsAdded
  <2>2. PICK l : l = v[i].label
    OBVIOUS
  <2>3. /\ v[i] \in By(g, l)
        /\ \A k \in DOMAIN v : k < i => v[k] \notin By(g, l) /\ v[k] \notin ResignOf(g)
    BY <2>1, <2>2 DEF News
  <2>4. \A k \in DOMAIN q : q[k] \notin By(g, l) /\ q[k] \notin ResignOf(g)
    BY <2>1, <2>2 DEF Some
  <2>5. r[Len(t) + i] = v[i] /\ i \in Nat
    BY <1>5
  <2>6. ASSUME NEW k \in DOMAIN r, k < Len(t) + i
        PROVE  r[k] \notin By(g, l) /\ r[k] \notin ResignOf(g)
    <3>1. CASE k <= Len(t)
      <4>1. k + d \in DOMAIN q /\ r[k] = q[k + d]
        BY <1>3, <1>5, <3>1
      <4> QED
        BY <2>4, <4>1
    <3>2. CASE Len(t) < k
      <4>1. k - Len(t) \in DOMAIN v /\ k - Len(t) < i /\ Len(t) + (k - Len(t)) = k
        BY <1>3, <1>5, <2>6, <3>2
      <4>2. r[k] = v[k - Len(t)]
        BY <1>5, <4>1
      <4> QED
        BY <2>3, <4>1, <4>2
    <3> QED
      BY <1>3, <1>5, <3>1, <3>2
  <2>7. News(r, l, Len(t) + i, g)
    BY <2>3, <2>5, <2>6 DEF News
  <2> QED
    BY <2>1, <2>2, <2>5, <2>7 DEF HasNews
<1>8. ASSUME NEW i \in DOMAIN r, r[i].type = "Achieved" PROVE HasNews(r, W2, i)
  <2>1. CASE i <= Len(t)
    BY <1>3, <1>5, <1>6, <1>8, <2>1
  <2>2. CASE Len(t) < i
    <3>1. i - Len(t) \in DOMAIN v /\ Len(t) + (i - Len(t)) = i
      BY <1>3, <1>5, <2>2
    <3>2. r[i] = v[i - Len(t)]
      BY <1>5, <3>1
    <3> QED
      BY <1>7, <1>8, <3>1, <3>2
  <2> QED
    BY <1>3, <1>5, <2>1, <2>2
<1> QED
  BY <1>1, <1>4, <1>8 DEF AllNews, Shifted

-----------------------------------------------------------------------------
(* The nodes of pu and pd lose the oldest message of their queue up or down, and U and V are
   added.  What this keeps, one lemma per part of the invariant. *)

Shift(pu, pd, U, V) ==
  /\ pu \subseteq Nodes /\ pd \subseteq Nodes
  /\ \A n \in pu : up[n] # <<>>
  /\ \A n \in pd : down[n] # <<>>
  /\ \A n \in Nodes : U[n] \in Seq(UpMessages) /\ V[n] \in Seq(DownMessages)
  /\ up' = [n \in Nodes |-> up'[n]] /\ down' = [n \in Nodes |-> down'[n]]
  /\ \A n \in Nodes : /\ up'[n] = Shifted(up[n], n \in pu, U[n])
                      /\ down'[n] = Shifted(down[n], n \in pd, V[n])

LEMMA Tree ==
  /\ Root \notin Nodes /\ Root \notin Leaves /\ Root \notin Federates
  /\ Root \in Servers /\ Leaves \subseteq Servers /\ Leaves \subseteq Nodes /\ Federates \subseteq Nodes
  /\ \A f \in Federates : /\ f \notin Leaves /\ f \notin Servers /\ Parent[f] \in Servers
                          /\ Parent[f] # f
                          /\ Parent[f] # Root => Parent[f] \in Leaves /\ Parent[f] \in Nodes
  /\ \A s \in Servers : s # Root => s \in Leaves
BY TreeAssumption DEF Nodes, Servers

LEMMA ShiftAt ==
  ASSUME Types, NEW pu, NEW pd, NEW U, NEW V, Shift(pu, pd, U, V), NEW n \in Nodes
  PROVE  /\ up[n] \in Seq(UpMessages) /\ down[n] \in Seq(DownMessages)
         /\ U[n] \in Seq(UpMessages) /\ V[n] \in Seq(DownMessages)
         /\ up'[n] = Shifted(up[n], n \in pu, U[n]) /\ down'[n] = Shifted(down[n], n \in pd, V[n])
         /\ n \in pu => up[n] # <<>>
         /\ n \in pd => down[n] # <<>>
BY DEF Types, Shift

LEMMA ShiftTypes ==
  ASSUME Types, NEW pu, NEW pd, NEW U, NEW V, Shift(pu, pd, U, V)
  PROVE  up' \in [Nodes -> Seq(UpMessages)] /\ down' \in [Nodes -> Seq(DownMessages)]
<1>1. ASSUME NEW n \in Nodes
      PROVE  /\ Shifted(up[n], n \in pu, U[n]) \in Seq(UpMessages)
             /\ Shifted(down[n], n \in pd, V[n]) \in Seq(DownMessages)
  <2>1. /\ up[n] \in Seq(UpMessages) /\ down[n] \in Seq(DownMessages)
        /\ U[n] \in Seq(UpMessages) /\ V[n] \in Seq(DownMessages)
        /\ n \in pu => up[n] # <<>>
        /\ n \in pd => down[n] # <<>>
    BY ShiftAt
  <2>2. Shifted(up[n], n \in pu, U[n]) \in Seq(UpMessages)
    BY <2>1, ShiftType
  <2>3. Shifted(down[n], n \in pd, V[n]) \in Seq(DownMessages)
    BY <2>1, ShiftType
  <2> QED
    BY <2>2, <2>3
<1> QED
  BY <1>1 DEF Shift

LEMMA ShiftRouted ==
  ASSUME Types, Routed, NEW pu, NEW pd, NEW U, NEW V, Shift(pu, pd, U, V),
         \A n \in Nodes : /\ \A i \in DOMAIN U[n] : U[n][i] \in UpOf(n)
                          /\ \A i \in DOMAIN V[n] : V[n][i] \in DownOf(n),
         \A s \in Leaves : srv'[s].known \subseteq Below(s), srv'[Root].leaving = {}
  PROVE  Routed'
<1>1. ASSUME NEW n \in Nodes
      PROVE  /\ \A i \in DOMAIN up'[n] : up'[n][i] \in UpOf(n)
             /\ \A i \in DOMAIN down'[n] : down'[n][i] \in DownOf(n)
  <2>1. /\ up[n] \in Seq(UpMessages) /\ down[n] \in Seq(DownMessages)
        /\ U[n] \in Seq(UpMessages) /\ V[n] \in Seq(DownMessages)
        /\ up'[n] = Shifted(up[n], n \in pu, U[n]) /\ down'[n] = Shifted(down[n], n \in pd, V[n])
        /\ n \in pu => up[n] # <<>>
        /\ n \in pd => down[n] # <<>>
    BY ShiftAt
  <2>2. /\ \A i \in DOMAIN up[n] : up[n][i] \in UpOf(n)
        /\ \A i \in DOMAIN down[n] : down[n][i] \in DownOf(n)
    BY DEF Routed
  <2>3. \A i \in DOMAIN up'[n] : up'[n][i] \in UpOf(n)
    BY <2>1, <2>2, ShiftElements
  <2>4. \A i \in DOMAIN down'[n] : down'[n][i] \in DownOf(n)
    BY <2>1, <2>2, ShiftElements
  <2> QED
    BY <2>3, <2>4
<1> QED
  BY <1>1 DEF Routed

LEMMA SameRefl == \A f, q : SameUp(f, q, q) /\ SameDown(f, q, q)
BY DEF SameUp, SameDown

LEMMA ShiftMember ==
  ASSUME Types, NEW pu, NEW pd, NEW U, NEW V, Shift(pu, pd, U, V), NEW f \in Federates, Member(f),
         amb'[f].member = amb[f].member,
         f \in srv'[Root].known <=> f \in srv[Root].known,
         f \in srv'[Parent[f]].known <=> f \in srv[Parent[f]].known,
         f \in srv'[Parent[f]].leaving <=> f \in srv[Parent[f]].leaving,
         \A n \in {f, Parent[f]} \ {Root} :
           /\ n \in pu => Head(up[n]) \notin JoinOf(f)
           /\ n \in pd => Head(down[n]) \notin JoinedOf(f)
           /\ ~Some(U[n], JoinOf(f)) /\ ~Some(U[n], ResignOf(f))
           /\ ~Some(V[n], JoinedOf(f)) /\ ~Some(V[n], ResignedOf(f))
  PROVE  Member(f)'
<1>1. ASSUME NEW n \in {f, Parent[f]} \ {Root}
      PROVE  SameUp(f, up[n], up'[n]) /\ SameDown(f, down[n], down'[n])
  <2>1. n \in Nodes
    BY Tree
  <2>2. /\ up[n] \in Seq(UpMessages) /\ down[n] \in Seq(DownMessages)
        /\ U[n] \in Seq(UpMessages) /\ V[n] \in Seq(DownMessages)
        /\ up'[n] = Shifted(up[n], n \in pu, U[n]) /\ down'[n] = Shifted(down[n], n \in pd, V[n])
        /\ n \in pu => up[n] # <<>>
        /\ n \in pd => down[n] # <<>>
    BY <2>1, ShiftAt
  <2>3. SameUp(f, up[n], up'[n])
    BY <2>2, ShiftSameUp
  <2>4. SameDown(f, down[n], down'[n])
    BY <2>2, ShiftSameDown
  <2> QED
    BY <2>3, <2>4
<1>2. SameUp(f, up[f], up'[f]) /\ SameDown(f, down[f], down'[f])
  BY <1>1, Tree
<1>3. SameUp(f, UpAbove(f), UpAbove(f)') /\ SameDown(f, DownAbove(f), DownAbove(f)')
  BY <1>1, SameRefl DEF UpAbove, DownAbove
<1>4. MemberOK(f, amb[f].member, f \in srv[Root].known, f \in srv[Parent[f]].known,
               f \in srv[Parent[f]].leaving, up'[f], down'[f], UpAbove(f)', DownAbove(f)')
  <2>1. MemberOK(f, amb[f].member, f \in srv[Root].known, f \in srv[Parent[f]].known,
               f \in srv[Parent[f]].leaving, up[f], down[f], UpAbove(f), DownAbove(f))
    BY DEF Member
  <2> QED
    BY <1>2, <1>3, <2>1, MemberSame
<1> QED
  BY <1>4 DEF Member

LEMMA ShiftEdge ==
  ASSUME Types, NEW pu, NEW pd, NEW U, NEW V, Shift(pu, pd, U, V),
         NEW f \in Federates, NEW l \in Labels, Edge(f, l),
         l \in amb'[f].due <=> l \in amb[f].due,
         l \in DOMAIN amb'[f].done <=> l \in DOMAIN amb[f].done,
         Awaits(Parent[f], l, f)' <=> Awaits(Parent[f], l, f),
         Has(Parent[f], l, f)' <=> Has(Parent[f], l, f),
         f \in pd => Head(down[f]) \notin Touch(f, l),
         ~Some(U[f], By(f, l)),
         \A i \in DOMAIN V[f] :
           /\ V[f][i] \notin Touch(f, l)
           /\ V[f][i] \in About(l) => Awaits(Parent[f], l, f) \/ Has(Parent[f], l, f)
  PROVE  Edge(f, l)'
<1>1. /\ up[f] \in Seq(UpMessages) /\ down[f] \in Seq(DownMessages)
      /\ U[f] \in Seq(UpMessages) /\ V[f] \in Seq(DownMessages)
      /\ up'[f] = Shifted(up[f], f \in pu, U[f]) /\ down'[f] = Shifted(down[f], f \in pd, V[f])
      /\ f \in pu => up[f] # <<>>
      /\ f \in pd => down[f] # <<>>
  BY ShiftAt, Tree
<1>2. PICK own, w, a, W, A :
        /\ own = TRUE /\ w = (l \in amb[f].due) /\ a = (l \in DOMAIN amb[f].done)
        /\ W = Awaits(Parent[f], l, f) /\ A = Has(Parent[f], l, f)
  OBVIOUS
<1>3. LinkOK(f, l, own, w, a, W, A, up[f], down[f])
  BY <1>2 DEF Edge
<1>4. \A i \in DOMAIN V[f] :
        V[f][i] \notin Touch(f, l) /\ (own /\ V[f][i] \in About(l) => W \/ A)
  BY <1>2
<1>5. LinkOK(f, l, own, w, a, W, A, up'[f], down'[f])
  <2>1. PICK tp, tq : tp = (f \in pu) /\ tq = (f \in pd)
    OBVIOUS
  <2>2. /\ up'[f] = Shifted(up[f], tp, U[f]) /\ down'[f] = Shifted(down[f], tq, V[f])
        /\ tp => up[f] # <<>>
        /\ tq => down[f] # <<>> /\ Head(down[f]) \notin Touch(f, l)
    BY <1>1, <2>1
  <2>3. LinkOK(f, l, own, w, a, W, A, Shifted(up[f], tp, U[f]), Shifted(down[f], tq, V[f]))
    BY <1>1, <1>3, <1>4, <2>2, LinkShift
  <2> QED
    BY <2>2, <2>3
<1>6. /\ own = TRUE /\ w = (l \in amb'[f].due) /\ a = (l \in DOMAIN amb'[f].done)
      /\ W = Awaits(Parent[f], l, f)' /\ A = Has(Parent[f], l, f)'
  BY <1>2 DEF Awaits, Has
<1> QED
  BY <1>5, <1>6 DEF Edge

LEMMA ShiftLink ==
  ASSUME Types, NEW pu, NEW pd, NEW U, NEW V, Shift(pu, pd, U, V),
         NEW f \in Federates, NEW l \in Labels, NEW s \in Leaves, Parent[f] = s, Link(f, l),
         Awaits(s, l, f)' <=> Awaits(s, l, f), Has(s, l, f)' <=> Has(s, l, f),
         Awaits(Root, l, f)' <=> Awaits(Root, l, f), Has(Root, l, f)' <=> Has(Root, l, f),
         s \in pd => Head(down[s]) \notin Touch(f, l),
         ~Some(U[s], By(f, l)),
         \A i \in DOMAIN V[s] : V[s][i] \notin Touch(f, l)
  PROVE  Link(f, l)'
<1>1. /\ up[s] \in Seq(UpMessages) /\ down[s] \in Seq(DownMessages)
      /\ U[s] \in Seq(UpMessages) /\ V[s] \in Seq(DownMessages)
      /\ up'[s] = Shifted(up[s], s \in pu, U[s]) /\ down'[s] = Shifted(down[s], s \in pd, V[s])
      /\ s \in pu => up[s] # <<>>
      /\ s \in pd => down[s] # <<>>
  BY ShiftAt, Tree
<1>2. PICK own, w, a, W, A :
        /\ own = FALSE /\ w = Awaits(s, l, f) /\ a = Has(s, l, f)
        /\ W = Awaits(Root, l, f) /\ A = Has(Root, l, f)
  OBVIOUS
<1>3. LinkOK(f, l, own, w, a, W, A, up[s], down[s])
  BY <1>2 DEF Link
<1>4. \A i \in DOMAIN V[s] :
        V[s][i] \notin Touch(f, l) /\ (own /\ V[s][i] \in About(l) => W \/ A)
  BY <1>2
<1>5. LinkOK(f, l, own, w, a, W, A, up'[s], down'[s])
  <2>1. PICK tp, tq : tp = (s \in pu) /\ tq = (s \in pd)
    OBVIOUS
  <2>2. /\ up'[s] = Shifted(up[s], tp, U[s]) /\ down'[s] = Shifted(down[s], tq, V[s])
        /\ tp => up[s] # <<>>
        /\ tq => down[s] # <<>> /\ Head(down[s]) \notin Touch(f, l)
    BY <1>1, <2>1
  <2>3. LinkOK(f, l, own, w, a, W, A, Shifted(up[s], tp, U[s]), Shifted(down[s], tq, V[s]))
    BY <1>1, <1>3, <1>4, <2>2, LinkShift
  <2> QED
    BY <2>2, <2>3
<1>6. /\ own = FALSE /\ w = Awaits(s, l, f)' /\ a = Has(s, l, f)'
      /\ W = Awaits(Root, l, f)' /\ A = Has(Root, l, f)'
  BY <1>2 DEF Awaits, Has
<1> QED
  BY <1>5, <1>6 DEF Link

LEMMA ShiftAnswering ==
  ASSUME Types, NEW pu, NEW pd, NEW U, NEW V, Shift(pu, pd, U, V),
         NEW f \in Federates, NEW l \in Labels, Answering(f, l),
         Awaits(Parent[f], l, f)
           => Awaits(Parent[f], l, f)' \/ (f \in pu /\ Head(up[f]) \in By(f, l) \cup ResignOf(f)),
         ~Some(U[f], By(f, l))
  PROVE  Answering(f, l)'
<1>1. PICK p, t, u : p = up[f] /\ t = up'[f] /\ u = U[f]
  OBVIOUS
<1>2. /\ p \in Seq(UpMessages) /\ u \in Seq(UpMessages) /\ t = Shifted(p, f \in pu, u)
      /\ f \in pu => p # <<>>
  BY <1>1, ShiftAt, Tree
<1>a. /\ Some(p, By(f, l)) => Awaits(Parent[f], l, f)
      /\ Single(p, By(f, l)) /\ ~SomeAfter(p, ResignOf(f), By(f, l)) /\ ~Some(u, By(f, l))
  BY <1>1 DEF Answering
<1>3. Single(t, By(f, l))
  BY <1>2, <1>a, ShiftSingle
<1>4. ~SomeAfter(t, ResignOf(f), By(f, l))
  BY <1>2, <1>a, ShiftAfter
<1>5. ASSUME Some(t, By(f, l)) PROVE Awaits(Parent[f], l, f)'
  <2>1. Some(p, By(f, l))
    BY <1>2, <1>a, <1>5, ShiftSome
  <2>2. Awaits(Parent[f], l, f)
    BY <1>a, <2>1
  <2>3. ASSUME f \in pu PROVE Head(p) \notin By(f, l) /\ Head(p) \notin ResignOf(f)
    <3>1. t = Tail(p) \o u /\ Tail(p) \in Seq(UpMessages) /\ u \in Seq(UpMessages)
      BY <1>2, <2>3, TailAt DEF Shifted
    <3>2. Some(Tail(p), By(f, l))
      BY <1>a, <1>5, <3>1, SomeConcat
    <3>3. Head(p) \notin By(f, l)
      BY <1>2, <1>a, <2>3, <3>2, SingleTail
    <3>4. Head(p) \notin ResignOf(f)
      BY <1>2, <1>a, <2>3, <3>2, AfterTail
    <3> QED
      BY <3>3, <3>4
  <2> QED
    BY <1>1, <2>2, <2>3
<1> QED
  BY <1>1, <1>3, <1>4, <1>5 DEF Answering

LEMMA ShiftClaims ==
  ASSUME Types, Claims, NEW pu, NEW pd, NEW U, NEW V, Shift(pu, pd, U, V),
         \A f \in Federates : \A l : Said(f, l) => Said(f, l)',
         \A n \in Nodes : \A i \in DOMAIN U[n] : Claim(U[n][i])'
  PROVE  Claims'
<1> DEFINE X == {m \in UpMessages : Claim(m)'}
<1>1. ASSUME NEW m \in UpMessages, Claim(m) PROVE Claim(m)'
  <2>1. m.type = "Achieved" => DOMAIN m.pairs \subseteq Federates
    BY DEF UpMessages, Answers
  <2> QED
    BY <1>1, <2>1 DEF Claim
<1>2. ASSUME NEW n \in Nodes PROVE \A i \in DOMAIN up'[n] : up'[n][i] \in X
  <2>1. /\ up[n] \in Seq(UpMessages) /\ U[n] \in Seq(UpMessages)
        /\ up'[n] = Shifted(up[n], n \in pu, U[n])
        /\ n \in pu => up[n] # <<>>
    BY ShiftAt
  <2>2. \A i \in DOMAIN up[n] : up[n][i] \in X
    BY <1>1, <2>1, ElementsIn DEF Claims
  <2>3. \A i \in DOMAIN U[n] : U[n][i] \in X
    BY <2>1, ElementsIn
  <2> HIDE DEF X
  <2> QED
    BY <2>1, <2>2, <2>3, ShiftElements
<1> QED
  BY <1>2 DEF Claims

LEMMA ShiftFresh ==
  ASSUME Types, Routed, Fresh, NEW pu, NEW pd, NEW U, NEW V, Shift(pu, pd, U, V), NEW s \in Leaves,
         \A l \in Labels, g \in Below(s) : Awaits(Root, l, g) =>
           \/ Awaits(Root, l, g)'
           \/ s \in pu /\ (Head(up[s]) \in By(g, l) \/ Head(up[s]) \in ResignOf(g)),
         NewsAdded(up[s], U[s], Awaited')
  PROVE  AllNews(up'[s], Awaited')
<1>1. PICK q, tp, v, W, W2 : /\ q = up[s] /\ tp = (s \in pu) /\ v = U[s]
                             /\ W = Awaited /\ W2 = Awaited'
  OBVIOUS
<1>2. /\ q \in Seq(UpMessages) /\ v \in Seq(UpMessages)
      /\ up'[s] = Shifted(q, tp, v) /\ (tp => q # <<>>)
  <2>1. /\ up[s] \in Seq(UpMessages) /\ U[s] \in Seq(UpMessages)
        /\ up'[s] = Shifted(up[s], s \in pu, U[s]) /\ (s \in pu => up[s] # <<>>)
    BY ShiftAt, Tree
  <2> QED
    BY <1>1, <2>1
<1>3. AllNews(q, W)
  BY <1>1 DEF Fresh
<1>4. ASSUME NEW l, NEW g, <<l, g>> \in W, Some(q, By(g, l))
      PROVE  <<l, g>> \in W2 \/ (tp /\ (Head(q) \in By(g, l) \/ Head(q) \in ResignOf(g)))
  <2>1. l \in Labels /\ g \in Federates /\ Awaits(Root, l, g)
    BY <1>1, <1>4 DEF Awaited
  <2>2. g \in Below(s)
    <3>1. PICK i \in DOMAIN q : q[i] \in By(g, l)
      BY <1>4 DEF Some
    <3>2. q[i] \in UpOf(s)
      BY <1>1, Tree DEF Routed
    <3> QED
      BY <3>1, <3>2 DEF UpOf, By
  <2>3. Awaits(Root, l, g)' => <<l, g>> \in W2
    BY <1>1, <2>1 DEF Awaited
  <2> QED
    BY <1>1, <2>1, <2>2, <2>3
<1>5. NewsKept(q, tp, W, W2) /\ NewsAdded(q, v, W2)
  BY <1>1, <1>4 DEF NewsKept
<1>6. AllNews(Shifted(q, tp, v), W2)
  BY <1>2, <1>3, <1>5, NewsShift
<1> QED
  BY <1>1, <1>2, <1>6

-----------------------------------------------------------------------------
(* How the actions move the queues *)

UpOnly(s, v) == [n \in Nodes |-> IF n = s THEN v ELSE <<>>]
Given(t)     == [n \in Nodes |-> IF n \in DOMAIN t THEN t[n] ELSE <<>>]

LEMMA OneOf ==
  ASSUME NEW T, NEW m \in T
  PROVE  /\ <<m>> \in Seq(T) /\ DOMAIN <<m>> = {1} /\ <<m>>[1] = m
         /\ \A X : Some(<<m>>, X) <=> m \in X
         /\ \A i \in DOMAIN <<m>> : <<m>>[i] = m
BY DEF Some

LEMMA ShiftOf ==
  ASSUME Types, NEW pu, NEW pd, NEW U, NEW V,
         pu \subseteq Nodes, pd \subseteq Nodes,
         \A n \in pu : up[n] # <<>>, \A n \in pd : down[n] # <<>>,
         \A n \in Nodes : U[n] \in Seq(UpMessages) /\ V[n] \in Seq(DownMessages),
         up' = [n \in Nodes |-> up'[n]], down' = [n \in Nodes |-> down'[n]],
         \A n \in Nodes :
           /\ up'[n] = (IF n \in pu THEN Tail(up[n]) ELSE up[n]) \o U[n]
           /\ down'[n] = (IF n \in pd THEN Tail(down[n]) ELSE down[n]) \o V[n]
  PROVE  Shift(pu, pd, U, V)
<1>1. \A n \in Nodes : /\ up'[n] = Shifted(up[n], n \in pu, U[n])
                       /\ down'[n] = Shifted(down[n], n \in pd, V[n])
  BY DEF Shifted
<1> QED
  BY <1>1 DEF Shift

LEMMA EmptyEnd ==
  ASSUME Types, NEW n \in Nodes
  PROVE  /\ up[n] \in Seq(UpMessages) /\ down[n] \in Seq(DownMessages)
         /\ up[n] \o <<>> = up[n] /\ down[n] \o <<>> = down[n]
         /\ up[n] # <<>> => Tail(up[n]) \o <<>> = Tail(up[n])
         /\ down[n] # <<>> => Tail(down[n]) \o <<>> = Tail(down[n])
         /\ <<>> \in Seq(UpMessages) /\ <<>> \in Seq(DownMessages)
<1>1. up[n] \in Seq(UpMessages) /\ down[n] \in Seq(DownMessages)
  BY DEF Types
<1>2. up[n] \o <<>> = up[n] /\ down[n] \o <<>> = down[n]
  BY <1>1, ConcatEmptySeq
<1>3. up[n] # <<>> => Tail(up[n]) \o <<>> = Tail(up[n])
  BY <1>1, TailAt, ConcatEmptySeq
<1>4. down[n] # <<>> => Tail(down[n]) \o <<>> = Tail(down[n])
  BY <1>1, TailAt, ConcatEmptySeq
<1> QED
  BY <1>1, <1>2, <1>3, <1>4, EmptySeq

LEMMA SendShift ==
  ASSUME Types, NEW f \in Federates, NEW m \in UpMessages, Send(f, m), down' = down
  PROVE  Shift({}, {}, UpOnly(f, <<m>>), Given(NoMessages))
<1>1. f \in Nodes /\ <<m>> \in Seq(UpMessages)
  BY Tree, OneOf
<1>2. up' = [n \in Nodes |-> up'[n]] /\ down' = [n \in Nodes |-> down'[n]]
  BY DEF Send, Types
<1>3. ASSUME NEW n \in Nodes
      PROVE  /\ up'[n] = (IF n \in {} THEN Tail(up[n]) ELSE up[n]) \o UpOnly(f, <<m>>)[n]
             /\ down'[n] = (IF n \in {} THEN Tail(down[n]) ELSE down[n]) \o Given(NoMessages)[n]
             /\ UpOnly(f, <<m>>)[n] \in Seq(UpMessages) /\ Given(NoMessages)[n] \in Seq(DownMessages)
  <2>1. up'[n] = IF n = f THEN Append(up[n], m) ELSE up[n]
    BY <1>1 DEF Send, Types
  <2>2. Append(up[n], m) = up[n] \o <<m>>
    BY EmptyEnd, AppendIsConcat
  <2>3. UpOnly(f, <<m>>)[n] = (IF n = f THEN <<m>> ELSE <<>>) /\ Given(NoMessages)[n] = <<>>
    BY DEF UpOnly, Given, NoMessages
  <2> QED
    BY <1>1, <2>1, <2>2, <2>3, EmptyEnd
<1> QED
  BY <1>2, <1>3, ShiftOf

LEMMA CallbackShift ==
  ASSUME Types, NEW f \in Federates, down[f] # <<>>, down' = [down EXCEPT ![f] = Tail(@)], up' = up
  PROVE  Shift({}, {f}, Given(NoMessages), Given(NoMessages))
<1>1. f \in Nodes
  BY Tree
<1>2. up' = [n \in Nodes |-> up'[n]] /\ down' = [n \in Nodes |-> down'[n]]
  BY DEF Types
<1>3. ASSUME NEW n \in Nodes
      PROVE  /\ up'[n] = (IF n \in {} THEN Tail(up[n]) ELSE up[n]) \o Given(NoMessages)[n]
             /\ down'[n] = (IF n \in {f} THEN Tail(down[n]) ELSE down[n]) \o Given(NoMessages)[n]
             /\ Given(NoMessages)[n] \in Seq(UpMessages) /\ Given(NoMessages)[n] \in Seq(DownMessages)
  <2>1. down'[n] = IF n = f THEN Tail(down[n]) ELSE down[n]
    BY <1>1 DEF Types
  <2>2. Given(NoMessages)[n] = <<>>
    BY DEF Given, NoMessages
  <2> QED
    BY <1>1, <2>1, <2>2, EmptyEnd
<1> QED
  BY <1>1, <1>2, <1>3, ShiftOf

LEMMA FromChildShift ==
  ASSUME Types, NEW s \in Servers, NEW c \in Nodes, s # c, up[c] # <<>>, NEW v, NEW t,
         FromChild(s, c, v, t), v \in Seq(UpMessages),
         \A n \in DOMAIN t : t[n] \in Seq(DownMessages)
  PROVE  Shift({c}, {}, UpOnly(s, v), Given(t))
<1>1. up' = [n \in Nodes |-> up'[n]] /\ down' = [n \in Nodes |-> down'[n]]
  BY DEF FromChild
<1>2. ASSUME NEW n \in Nodes
      PROVE  /\ up'[n] = (IF n \in {c} THEN Tail(up[n]) ELSE up[n]) \o UpOnly(s, v)[n]
             /\ down'[n] = (IF n \in {} THEN Tail(down[n]) ELSE down[n]) \o Given(t)[n]
             /\ UpOnly(s, v)[n] \in Seq(UpMessages) /\ Given(t)[n] \in Seq(DownMessages)
  <2>1. /\ up'[n] = IF n = c THEN Tail(up[c]) ELSE IF n = s THEN up[s] \o v ELSE up[n]
        /\ down'[n] = IF n \in DOMAIN t THEN down[n] \o t[n] ELSE down[n]
    BY DEF FromChild
  <2>2. /\ UpOnly(s, v)[n] = (IF n = s THEN v ELSE <<>>)
        /\ Given(t)[n] = IF n \in DOMAIN t THEN t[n] ELSE <<>>
    BY DEF UpOnly, Given
  <2>3. up'[n] = (IF n \in {c} THEN Tail(up[n]) ELSE up[n]) \o UpOnly(s, v)[n]
    <3>1. CASE n = c
      BY <2>1, <2>2, <3>1, EmptyEnd
    <3>2. CASE n # c
      BY <2>1, <2>2, <3>2, EmptyEnd
    <3> QED
      BY <3>1, <3>2
  <2>4. down'[n] = (IF n \in {} THEN Tail(down[n]) ELSE down[n]) \o Given(t)[n]
    BY <2>1, <2>2, EmptyEnd
  <2>5. UpOnly(s, v)[n] \in Seq(UpMessages) /\ Given(t)[n] \in Seq(DownMessages)
    BY <2>2, EmptyEnd
  <2> QED
    BY <2>3, <2>4, <2>5
<1> QED
  BY <1>1, <1>2, ShiftOf

LEMMA FromParentShift ==
  ASSUME Types, NEW s \in Leaves, down[s] # <<>>, NEW t, FromParent(s, t), s \notin DOMAIN t,
         \A n \in DOMAIN t : t[n] \in Seq(DownMessages)
  PROVE  Shift({}, {s}, Given(NoMessages), Given(t))
<1>1. up' = [n \in Nodes |-> up'[n]] /\ down' = [n \in Nodes |-> down'[n]] /\ s \in Nodes
  BY Tree DEF FromParent, Types
<1>2. ASSUME NEW n \in Nodes
      PROVE  /\ up'[n] = (IF n \in {} THEN Tail(up[n]) ELSE up[n]) \o Given(NoMessages)[n]
             /\ down'[n] = (IF n \in {s} THEN Tail(down[n]) ELSE down[n]) \o Given(t)[n]
             /\ Given(NoMessages)[n] \in Seq(UpMessages) /\ Given(t)[n] \in Seq(DownMessages)
  <2>1. /\ up'[n] = up[n]
        /\ down'[n] = IF n = s THEN Tail(down[s])
                      ELSE IF n \in DOMAIN t THEN down[n] \o t[n] ELSE down[n]
    BY DEF FromParent
  <2>2. /\ Given(NoMessages)[n] = <<>>
        /\ Given(t)[n] = IF n \in DOMAIN t THEN t[n] ELSE <<>>
    BY DEF NoMessages, Given
  <2> QED
    BY <2>1, <2>2, EmptyEnd
<1> QED
  BY <1>1, <1>2, ShiftOf

-----------------------------------------------------------------------------
(* Steps that carry no announcement, answer or end of a point *)

Tells(m) == m.type \in {"Announce", "Synchronized"}

LEMMA NotTold ==
  ASSUME NEW m \in DownMessages, ~Tells(m), NEW f, NEW l
  PROVE  m \notin Touch(f, l) /\ m \notin About(l) /\ m \notin Announcing(f)
BY DEF Tells, Touch, AnnTo, EndOf, About, Announcing

LEMMA NotAnswered ==
  ASSUME NEW v \in Seq(UpMessages), \A i \in DOMAIN v : v[i].type # "Achieved", NEW f, NEW l
  PROVE  ~Some(v, By(f, l))
BY DEF Some, By

LEMMA PointTypes ==
  ASSUME Types, NEW s \in Servers, NEW l \in Labels, NEW f
  PROVE  /\ Awaits(s, l, f) \/ Has(s, l, f) => f \in srv[s].known /\ f \in Federates
         /\ ~(Awaits(s, l, f) /\ Has(s, l, f))
<1>1. IsServer(srv[s])
  BY DEF Types
<1>2. PICK x : x = srv[s]
  OBVIOUS
<1>3. x.known \in SUBSET Federates /\ IsPoints(x.points, x.known)
  BY <1>1, <1>2 DEF IsServer
<1>4. l \in DOMAIN x.points => /\ x.points[l].waiting \subseteq x.known
                               /\ DOMAIN x.points[l].achieved \subseteq x.known
                               /\ x.points[l].waiting \cap DOMAIN x.points[l].achieved = {}
  BY <1>3 DEF IsPoints, PointsOf
<1> QED
  BY <1>2, <1>3, <1>4 DEF Awaits, Has

LEMMA Quiet ==
  ASSUME IInv, NEW pu, NEW pd, NEW U, NEW V, Shift(pu, pd, U, V),
         \A n \in pd : ~Tells(Head(down[n])),
         \A n \in Nodes : /\ \A i \in DOMAIN U[n] : U[n][i].type # "Achieved"
                          /\ \A i \in DOMAIN V[n] : ~Tells(V[n][i]),
         \A f \in Federates : /\ amb'[f].done = amb[f].done
                              /\ Resigned(f)' \/ (~Resigned(f) /\ amb'[f].due = amb[f].due)
                              /\ Parent[f] # Root /\ Here(f)' => Here(f),
         \A s \in Servers, l \in Labels, f \in Federates :
           /\ Awaits(s, l, f)' <=> Awaits(s, l, f)
           /\ (Has(s, l, f)' <=> Has(s, l, f)) \/ (s # Root /\ Parent[f] = s /\ ~Here(f)')
  PROVE  Edges' /\ Links' /\ Pending' /\ Fresh' /\ Claims'
<1>1. Types /\ Routed /\ Edges /\ Links /\ Pending /\ Fresh /\ Claims
  BY DEF IInv
<1>2. ASSUME NEW n \in Nodes, NEW f, NEW l
      PROVE  /\ ~Some(U[n], By(f, l))
             /\ \A i \in DOMAIN V[n] : V[n][i] \notin Touch(f, l) /\ V[n][i] \notin About(l)
             /\ n \in pd => Head(down[n]) \notin Touch(f, l)
  <2>1. /\ down[n] \in Seq(DownMessages) /\ U[n] \in Seq(UpMessages) /\ V[n] \in Seq(DownMessages)
        /\ n \in pd => down[n] # <<>>
    BY <1>1, ShiftAt
  <2>2. ~Some(U[n], By(f, l))
    BY <2>1, NotAnswered
  <2>3. \A i \in DOMAIN V[n] : V[n][i] \notin Touch(f, l) /\ V[n][i] \notin About(l)
    BY <2>1, ElementsIn, NotTold
  <2>4. n \in pd => Head(down[n]) \notin Touch(f, l)
    BY <2>1, TailAt, NotTold
  <2> QED
    BY <2>2, <2>3, <2>4
<1>3. Edges'
  <2> SUFFICES ASSUME NEW f \in Federates, NEW l \in Labels, ~Resigned(f)' PROVE Edge(f, l)'
    BY DEF Edges
  <2>1. /\ Edge(f, l) /\ f \in Nodes /\ Parent[f] \in Servers
        /\ l \in amb'[f].due <=> l \in amb[f].due
        /\ l \in DOMAIN amb'[f].done <=> l \in DOMAIN amb[f].done
    BY <1>1, Tree DEF Edges
  <2>2. Here(f)'
    BY DEF Here
  <2>3. /\ Awaits(Parent[f], l, f)' <=> Awaits(Parent[f], l, f)
        /\ Has(Parent[f], l, f)' <=> Has(Parent[f], l, f)
    BY <2>1, <2>2
  <2>4. /\ f \in pd => Head(down[f]) \notin Touch(f, l)
        /\ ~Some(U[f], By(f, l))
    BY <1>2, <2>1
  <2>5. \A i \in DOMAIN V[f] :
           /\ V[f][i] \notin Touch(f, l)
           /\ V[f][i] \in About(l) => Awaits(Parent[f], l, f) \/ Has(Parent[f], l, f)
    BY <1>2, <2>1
  <2> QED
    BY <1>1, <2>1, <2>3, <2>4, <2>5, ShiftEdge
<1>4. Links'
  <2> SUFFICES ASSUME NEW f \in Federates, NEW l \in Labels, Parent[f] # Root, Here(f)'
               PROVE  Link(f, l)'
    BY DEF Links
  <2>1. PICK s \in Leaves : s = Parent[f]
    BY Tree
  <2>2. Link(f, l) /\ s \in Nodes /\ s \in Servers /\ Root \in Servers
    BY <1>1, <2>1, Tree DEF Links
  <2>3. /\ Awaits(s, l, f)' <=> Awaits(s, l, f)
        /\ Has(s, l, f)' <=> Has(s, l, f)
        /\ Awaits(Root, l, f)' <=> Awaits(Root, l, f)
        /\ Has(Root, l, f)' <=> Has(Root, l, f)
    BY <2>1, <2>2
  <2>4. /\ s \in pd => Head(down[s]) \notin Touch(f, l)
        /\ ~Some(U[s], By(f, l))
        /\ \A i \in DOMAIN V[s] : V[s][i] \notin Touch(f, l)
    BY <1>2, <2>2
  <2> QED
    BY <1>1, <2>1, <2>2, <2>3, <2>4, ShiftLink
<1>5. Pending'
  <2> SUFFICES ASSUME NEW f \in Federates, NEW l \in Labels PROVE Answering(f, l)'
    BY DEF Pending
  <2>1. Answering(f, l) /\ f \in Nodes /\ Parent[f] \in Servers
    BY <1>1, Tree DEF Pending
  <2>2. Awaits(Parent[f], l, f)' <=> Awaits(Parent[f], l, f)
    BY <2>1
  <2>3. ~Some(U[f], By(f, l))
    BY <1>2, <2>1
  <2> QED
    BY <1>1, <2>1, <2>2, <2>3, ShiftAnswering
<1>6. Fresh'
  <2> SUFFICES ASSUME NEW s \in Leaves PROVE AllNews(up'[s], Awaited')
    BY DEF Fresh
  <2>1. s \in Nodes /\ Root \in Servers /\ Below(s) \subseteq Federates
    BY Tree DEF Below
  <2>2. \A l \in Labels, g \in Below(s) : Awaits(Root, l, g) => Awaits(Root, l, g)'
    BY <2>1
  <2>3. NewsAdded(up[s], U[s], Awaited')
    BY <2>1 DEF NewsAdded
  <2> QED
    BY <1>1, <2>2, <2>3, ShiftFresh
<1>7. Claims'
  <2>1. \A f \in Federates : \A l : Said(f, l) => Said(f, l)'
    BY DEF Said
  <2>2. \A n \in Nodes : \A i \in DOMAIN U[n] : Claim(U[n][i])'
    BY DEF Claim
  <2> QED
    BY <1>1, <2>1, <2>2, ShiftClaims
<1> QED
  BY <1>3, <1>4, <1>5, <1>6, <1>7

-----------------------------------------------------------------------------
(* The calls *)

LEMMA UpOnlyAt ==
  ASSUME NEW s, NEW v, NEW n \in Nodes
  PROVE  /\ UpOnly(s, v)[n] = IF n = s THEN v ELSE <<>>
         /\ n # s => DOMAIN UpOnly(s, v)[n] = {} /\ \A X : ~Some(UpOnly(s, v)[n], X)
BY DEF UpOnly, Some

LEMMA GivenAt ==
  ASSUME NEW t, NEW n \in Nodes
  PROVE  /\ Given(t)[n] = IF n \in DOMAIN t THEN t[n] ELSE <<>>
         /\ n \notin DOMAIN t => DOMAIN Given(t)[n] = {} /\ \A X : ~Some(Given(t)[n], X)
BY DEF Given, Some

LEMMA GivenNone ==
  ASSUME NEW n \in Nodes
  PROVE  /\ Given(NoMessages)[n] = <<>> /\ DOMAIN Given(NoMessages)[n] = {}
         /\ \A X : ~Some(Given(NoMessages)[n], X)
BY GivenAt DEF NoMessages

\* The servers stay as they are.
LEMMA ServersStay ==
  ASSUME IInv, srv' = srv
  PROVE  /\ DOMAIN srv' = Servers /\ \A s \in Servers : IsServer(srv'[s])
         /\ \A s \in Leaves : srv'[s].known \subseteq Below(s)
         /\ srv'[Root].leaving = {}
         /\ NotLeaving' /\ ForAll'
         /\ \A s, l, f : /\ Awaits(s, l, f)' <=> Awaits(s, l, f)
                         /\ Has(s, l, f)' <=> Has(s, l, f)
<1>1. Types /\ Routed /\ NotLeaving /\ ForAll
  BY DEF IInv
<1>2. \A s, l, f : (Awaits(s, l, f)' <=> Awaits(s, l, f)) /\ (Has(s, l, f)' <=> Has(s, l, f))
  BY DEF Awaits, Has
<1>3. NotLeaving'
  BY <1>1, <1>2 DEF NotLeaving
<1>4. ForAll'
  BY <1>1 DEF ForAll, Of
<1> QED
  BY <1>1, <1>2, <1>3, <1>4 DEF Types, Routed

LEMMA SuccessStays ==
  ASSUME Types, SuccessIsReal,
         \A s \in Servers : \A l \in DOMAIN srv'[s].points :
           \A f \in DOMAIN srv'[s].points[l].achieved :
             /\ f \in Federates
             /\ srv'[s].points[l].achieved[f] =>
                  \/ Said(f, l)'
                  \/ /\ l \in DOMAIN srv[s].points /\ f \in DOMAIN srv[s].points[l].achieved
                     /\ srv[s].points[l].achieved[f] /\ (Said(f, l) => Said(f, l)')
  PROVE  SuccessIsReal'
BY DEF SuccessIsReal, Said

LEMMA SuccessSame ==
  ASSUME IInv, srv' = srv, \A f \in Federates : \A l : Said(f, l) => Said(f, l)'
  PROVE  SuccessIsReal'
<1>1. Types /\ SuccessIsReal
  BY DEF IInv
<1>2. ASSUME NEW s \in Servers, NEW l \in DOMAIN srv[s].points, NEW f \in DOMAIN srv[s].points[l].achieved
      PROVE  f \in Federates
  <2>1. l \in Labels /\ Has(s, l, f)
    BY <1>1 DEF Has, Types, IsServer, IsPoints
  <2> QED
    BY <1>1, <2>1, PointTypes
<1> QED
  BY <1>1, <1>2, SuccessStays

\* Federate f sends message m.
LEMMA Call ==
  ASSUME IInv, NEW f \in Federates, NEW m \in UpOf(f), Send(f, m), srv' = srv, down' = down,
         DOMAIN amb' = Federates, IsAmbassador(amb'[f]),
         \A g \in Federates : g # f => amb'[g] = amb[g]
  PROVE  /\ Shift({}, {}, UpOnly(f, <<m>>), Given(NoMessages))
         /\ Types' /\ Routed' /\ NotLeaving' /\ ForAll'
         /\ \A g \in Federates : g # f => Member(g)'
<1>1. Types /\ Routed /\ Membership
  BY DEF IInv
<1>2. m \in UpMessages /\ <<m>> \in Seq(UpMessages) /\ DOMAIN <<m>> = {1} /\ <<m>>[1] = m
  BY OneOf DEF UpOf
<1>3. PICK U, V : U = UpOnly(f, <<m>>) /\ V = Given(NoMessages)
  OBVIOUS
<1>4. Shift({}, {}, U, V)
  BY <1>1, <1>2, <1>3, SendShift
<1>5. \A n \in Nodes : /\ n = f => U[n] = <<m>>
                       /\ n # f => DOMAIN U[n] = {} /\ \A X : ~Some(U[n], X)
                       /\ DOMAIN V[n] = {} /\ \A X : ~Some(V[n], X)
  BY <1>3, UpOnlyAt, GivenNone
<1>6. Types'
  <2>1. up' \in [Nodes -> Seq(UpMessages)] /\ down' \in [Nodes -> Seq(DownMessages)]
    BY <1>1, <1>4, ShiftTypes
  <2>2. \A g \in Federates : IsAmbassador(amb'[g])
    BY <1>1 DEF Types
  <2> QED
    BY <2>1, <2>2, ServersStay DEF Types
<1>7. Routed'
  <2>1. \A n \in Nodes : /\ \A i \in DOMAIN U[n] : U[n][i] \in UpOf(n)
                         /\ \A i \in DOMAIN V[n] : V[n][i] \in DownOf(n)
    BY <1>2, <1>5
  <2> QED
    BY <1>1, <1>4, <2>1, ServersStay, ShiftRouted
<1>8. ASSUME NEW g \in Federates, g # f PROVE Member(g)'
  <2>1. Member(g) /\ amb'[g].member = amb[g].member
    BY <1>1, <1>8 DEF Membership
  <2>2. ASSUME NEW n \in {g, Parent[g]} \ {Root}
        PROVE  ~Some(U[n], JoinOf(g)) /\ ~Some(U[n], ResignOf(g))
    <3>1. n \in Nodes /\ n # f
      BY <1>8, Tree
    <3> QED
      BY <1>5, <3>1
  <2>3. \A n \in {g, Parent[g]} \ {Root} :
           /\ n \in {} => Head(up[n]) \notin JoinOf(g)
           /\ n \in {} => Head(down[n]) \notin JoinedOf(g)
           /\ ~Some(U[n], JoinOf(g)) /\ ~Some(U[n], ResignOf(g))
           /\ ~Some(V[n], JoinedOf(g)) /\ ~Some(V[n], ResignedOf(g))
    BY <1>5, <2>2, Tree
  <2> QED
    BY <1>1, <1>4, <2>1, <2>3, ShiftMember
<1> QED
  BY <1>3, <1>4, <1>6, <1>7, <1>8, ServersStay

\* The same when it is no answer.
LEMMA QuietCall ==
  ASSUME IInv, NEW f \in Federates, NEW m \in UpOf(f), Send(f, m), srv' = srv, down' = down,
         DOMAIN amb' = Federates, IsAmbassador(amb'[f]),
         \A g \in Federates : g # f => amb'[g] = amb[g],
         m.type # "Achieved", amb[f].member # "resigned", amb'[f].done = amb[f].done,
         \/ amb'[f].member = "resigned"
         \/ amb'[f].due = amb[f].due /\ amb'[f].announced = amb[f].announced,
         Member(f)'
  PROVE  IInv'
<1>1. /\ Shift({}, {}, UpOnly(f, <<m>>), Given(NoMessages))
      /\ Types' /\ Routed' /\ NotLeaving' /\ ForAll'
      /\ \A g \in Federates : g # f => Member(g)'
  BY Call
<1>2. PICK U, V : U = UpOnly(f, <<m>>) /\ V = Given(NoMessages)
  OBVIOUS
<1>3. Shift({}, {}, U, V)
  BY <1>1, <1>2
<1>4. \A n \in Nodes : /\ \A i \in DOMAIN U[n] : U[n][i].type # "Achieved"
                       /\ \A i \in DOMAIN V[n] : ~Tells(V[n][i])
  <2>1. DOMAIN <<m>> = {1} /\ <<m>>[1] = m
    OBVIOUS
  <2> QED
    BY <1>2, <2>1, UpOnlyAt, GivenNone
<1>5. ASSUME NEW g \in Federates
      PROVE  /\ amb'[g].done = amb[g].done
             /\ Resigned(g)' \/ (~Resigned(g) /\ amb'[g].due = amb[g].due /\ amb'[g].announced = amb[g].announced)
             /\ Parent[g] # Root /\ Here(g)' => Here(g)
  <2>1. CASE g = f
    BY <2>1 DEF Resigned, Here
  <2>2. CASE g # f
    <3>1. amb'[g] = amb[g]
      BY <2>2
    <3>2. Resigned(g)' <=> Resigned(g)
      BY <3>1 DEF Resigned
    <3> QED
      BY <3>1, <3>2 DEF Here
  <2> QED
    BY <2>1, <2>2
<1>6. Edges' /\ Links' /\ Pending' /\ Fresh' /\ Claims'
  <2>1. \A n \in {} : ~Tells(Head(down[n]))
    OBVIOUS
  <2>2. \A g \in Federates : /\ amb'[g].done = amb[g].done
                             /\ Resigned(g)' \/ (~Resigned(g) /\ amb'[g].due = amb[g].due)
                             /\ Parent[g] # Root /\ Here(g)' => Here(g)
    BY <1>5
  <2>3. \A s \in Servers, l \in Labels, g \in Federates :
           /\ Awaits(s, l, g)' <=> Awaits(s, l, g)
           /\ (Has(s, l, g)' <=> Has(s, l, g)) \/ (s # Root /\ Parent[g] = s /\ ~Here(g)')
    BY ServersStay
  <2> QED
    BY <1>3, <1>4, <2>1, <2>2, <2>3, Quiet
<1>7. Membership'
  BY <1>1 DEF Membership
<1>8. Labelled'
  <2>1. Labelled
    BY DEF IInv
  <2> QED
    BY <1>5, <2>1 DEF Labelled
<1>9. SuccessIsReal'
  <2>1. \A g \in Federates : \A l : Said(g, l) => Said(g, l)'
    BY <1>5 DEF Said
  <2> QED
    BY <2>1, SuccessSame
<1> QED
  BY <1>1, <1>6, <1>7, <1>8, <1>9 DEF IInv

\* The state of f, as MemberOK tells it
LEMMA MemberNow ==
  ASSUME NEW f, Member(f)
  PROVE  MemberOK(f, amb[f].member, f \in srv[Root].known, f \in srv[Parent[f]].known,
                  f \in srv[Parent[f]].leaving, up[f], down[f], UpAbove(f), DownAbove(f))
BY DEF Member

LEMMA MemberJoins ==
  ASSUME NEW f, NEW kr, NEW kp, NEW lv, NEW pf \in Seq(UpMessages), NEW qf, NEW ps, NEW qs,
         NEW m \in JoinOf(f), MemberOK(f, "out", kr, kp, lv, pf, qf, ps, qs)
  PROVE  MemberOK(f, "joining", kr, kp, lv, Append(pf, m), qf, ps, qs)
<1>1. m \in UpMessages /\ m \notin ResignOf(f)
  BY DEF JoinOf, ResignOf
<1>2. /\ Some(Append(pf, m), JoinOf(f))
      /\ Some(Append(pf, m), ResignOf(f)) <=> Some(pf, ResignOf(f))
  BY <1>1, SomeAppend
<1>3. ~Some(pf, JoinOf(f)) /\ Single(pf, JoinOf(f))
  BY DEF MemberOK
<1>4. Single(Append(pf, m), JoinOf(f))
  BY <1>1, <1>3, SingleAppend
<1> QED
  BY <1>2, <1>3, <1>4 DEF MemberOK

LEMMA MemberResigns ==
  ASSUME NEW f, NEW kr, NEW kp, NEW lv, NEW pf \in Seq(UpMessages), NEW qf, NEW ps, NEW qs,
         NEW m \in ResignOf(f), MemberOK(f, "in", kr, kp, lv, pf, qf, ps, qs)
  PROVE  MemberOK(f, "resigned", kr, kp, lv, Append(pf, m), qf, ps, qs)
<1>1. m \in UpMessages /\ m \notin JoinOf(f)
  BY DEF JoinOf, ResignOf
<1>2. Some(Append(pf, m), JoinOf(f)) <=> Some(pf, JoinOf(f))
  BY <1>1, SomeAppend
<1>3. Single(pf, JoinOf(f))
  BY DEF MemberOK
<1>4. Single(Append(pf, m), JoinOf(f))
  BY <1>1, <1>3, SingleAppend
<1> QED
  BY <1>2, <1>4 DEF MemberOK

LEMMA MemberSends ==
  ASSUME NEW f, NEW member, NEW kr, NEW kp, NEW lv, NEW pf \in Seq(UpMessages), NEW qf, NEW ps, NEW qs,
         NEW m \in UpMessages, m \notin JoinOf(f), m \notin ResignOf(f),
         MemberOK(f, member, kr, kp, lv, pf, qf, ps, qs)
  PROVE  MemberOK(f, member, kr, kp, lv, Append(pf, m), qf, ps, qs)
<1>1. /\ Some(Append(pf, m), JoinOf(f)) <=> Some(pf, JoinOf(f))
      /\ Some(Append(pf, m), ResignOf(f)) <=> Some(pf, ResignOf(f))
  BY SomeAppend
<1>2. Single(pf, JoinOf(f))
  BY DEF MemberOK
<1>3. Single(Append(pf, m), JoinOf(f))
  BY <1>2, SingleAppend
<1> QED
  BY <1>1, <1>3 DEF MemberOK

\* What a call leaves alone around f
LEMMA SendAround ==
  ASSUME IInv, NEW f \in Federates, NEW m, Send(f, m), srv' = srv, down' = down
  PROVE  /\ up[f] \in Seq(UpMessages) /\ up'[f] = Append(up[f], m) /\ down'[f] = down[f]
         /\ UpAbove(f)' = UpAbove(f) /\ DownAbove(f)' = DownAbove(f)
         /\ Member(f) /\ IsAmbassador(amb[f]) /\ DOMAIN amb = Federates
<1>1. Types /\ Membership
  BY DEF IInv
<1>2. f \in Nodes /\ Parent[f] # f /\ (Parent[f] # Root => Parent[f] \in Nodes)
  BY Tree
<1>3. up'[f] = Append(up[f], m) /\ (Parent[f] # Root => up'[Parent[f]] = up[Parent[f]])
  BY <1>1, <1>2 DEF Send, Types
<1> QED
  BY <1>1, <1>2, <1>3 DEF UpAbove, DownAbove, Membership, Types

LEMMA JoinCall ==
  ASSUME IInv, NEW f \in Federates, joinFederationExecution(f)
  PROVE  IInv'
<1>1. PICK m : m = JoinRequest(f)
  OBVIOUS
<1>2. /\ amb[f].member = "out" /\ Send(f, m) /\ srv' = srv /\ down' = down
      /\ amb' = [amb EXCEPT ![f].member = "joining"]
  BY <1>1 DEF joinFederationExecution
<1>3. m \in UpOf(f) /\ m.type # "Achieved" /\ m \in JoinOf(f)
  BY <1>1, Tree DEF JoinRequest, UpOf, UpMessages, Below, JoinOf
<1>4. /\ up[f] \in Seq(UpMessages) /\ up'[f] = Append(up[f], m) /\ down'[f] = down[f]
      /\ UpAbove(f)' = UpAbove(f) /\ DownAbove(f)' = DownAbove(f)
      /\ Member(f) /\ IsAmbassador(amb[f]) /\ DOMAIN amb = Federates
  BY <1>2, SendAround
<1>5. /\ DOMAIN amb' = Federates /\ amb'[f] = [amb[f] EXCEPT !.member = "joining"]
      /\ \A g \in Federates : g # f => amb'[g] = amb[g]
  BY <1>2, <1>4
<1>6. /\ amb'[f].member = "joining" /\ amb'[f].done = amb[f].done /\ amb'[f].due = amb[f].due
      /\ amb'[f].announced = amb[f].announced /\ IsAmbassador(amb'[f])
  BY <1>4, <1>5 DEF IsAmbassador
<1>7. Member(f)'
  <2>1. MemberOK(f, "out", f \in srv[Root].known, f \in srv[Parent[f]].known,
                 f \in srv[Parent[f]].leaving, up[f], down[f], UpAbove(f), DownAbove(f))
    BY <1>2, <1>4, MemberNow
  <2>2. MemberOK(f, "joining", f \in srv[Root].known, f \in srv[Parent[f]].known,
                 f \in srv[Parent[f]].leaving, Append(up[f], m), down[f], UpAbove(f), DownAbove(f))
    BY <1>3, <1>4, <2>1, MemberJoins
  <2> QED
    BY <1>2, <1>4, <1>6, <2>2 DEF Member
<1> QED
  BY <1>2, <1>3, <1>5, <1>6, <1>7, QuietCall

LEMMA RegisterCall ==
  ASSUME IInv, NEW f \in Federates, registerFederationSynchronizationPoint(f)
  PROVE  IInv'
<1>1. PICK r \in Requests[f] : /\ amb[f].member = "in" /\ Send(f, Register(f, r))
                               /\ srv' = srv /\ down' = down
                               /\ amb' = [amb EXCEPT ![f].made = @ \cup {r}]
  BY DEF registerFederationSynchronizationPoint
<1>2. r \in Points
  BY TreeAssumption
<1>3. PICK m : m = Register(f, r)
  OBVIOUS
<1>4. m \in UpOf(f) /\ m.type # "Achieved" /\ m \notin JoinOf(f) /\ m \notin ResignOf(f) /\ m \in UpMessages
  <2>1. m \in [type : {"Register"}, fed : Federates, label : Labels, set : SUBSET Federates]
    BY <1>2, <1>3 DEF Register, Points
  <2> QED
    BY <1>3, <2>1, Tree DEF Register, UpOf, UpMessages, Below, JoinOf, ResignOf
<1>5. /\ up[f] \in Seq(UpMessages) /\ up'[f] = Append(up[f], m) /\ down'[f] = down[f]
      /\ UpAbove(f)' = UpAbove(f) /\ DownAbove(f)' = DownAbove(f)
      /\ Member(f) /\ IsAmbassador(amb[f]) /\ DOMAIN amb = Federates
  BY <1>1, <1>3, SendAround
<1>6. /\ DOMAIN amb' = Federates /\ amb'[f] = [amb[f] EXCEPT !.made = @ \cup {r}]
      /\ \A g \in Federates : g # f => amb'[g] = amb[g]
  BY <1>1, <1>5
<1>7. /\ amb'[f].member = amb[f].member /\ amb'[f].done = amb[f].done /\ amb'[f].due = amb[f].due
      /\ amb'[f].announced = amb[f].announced /\ IsAmbassador(amb'[f])
  BY <1>2, <1>5, <1>6 DEF IsAmbassador
<1>8. Member(f)'
  <2>1. MemberOK(f, amb[f].member, f \in srv[Root].known, f \in srv[Parent[f]].known,
                 f \in srv[Parent[f]].leaving, up[f], down[f], UpAbove(f), DownAbove(f))
    BY <1>5, MemberNow
  <2>2. MemberOK(f, amb[f].member, f \in srv[Root].known, f \in srv[Parent[f]].known,
                 f \in srv[Parent[f]].leaving, Append(up[f], m), down[f], UpAbove(f), DownAbove(f))
    BY <1>4, <1>5, <2>1, MemberSends
  <2> QED
    BY <1>1, <1>5, <1>7, <2>2 DEF Member
<1> QED
  BY <1>1, <1>3, <1>4, <1>6, <1>7, <1>8, QuietCall

LEMMA ResignCall ==
  ASSUME IInv, NEW f \in Federates, resignFederationExecution(f)
  PROVE  IInv'
<1>1. PICK m : m = ResignRequest(f)
  OBVIOUS
<1>2. /\ amb[f].member = "in" /\ Send(f, m) /\ srv' = srv /\ down' = down
      /\ amb' = [amb EXCEPT ![f].member = "resigned", ![f].announced = {}, ![f].due = {}]
  BY <1>1 DEF resignFederationExecution
<1>3. m \in UpOf(f) /\ m.type # "Achieved" /\ m \in ResignOf(f)
  BY <1>1, Tree DEF ResignRequest, UpOf, UpMessages, Below, ResignOf
<1>4. /\ up[f] \in Seq(UpMessages) /\ up'[f] = Append(up[f], m) /\ down'[f] = down[f]
      /\ UpAbove(f)' = UpAbove(f) /\ DownAbove(f)' = DownAbove(f)
      /\ Member(f) /\ IsAmbassador(amb[f]) /\ DOMAIN amb = Federates
  BY <1>2, SendAround
<1>5. /\ DOMAIN amb' = Federates
      /\ amb'[f] = [amb[f] EXCEPT !.member = "resigned", !.announced = {}, !.due = {}]
      /\ \A g \in Federates : g # f => amb'[g] = amb[g]
  BY <1>2, <1>4
<1>6. amb'[f].member = "resigned" /\ amb'[f].done = amb[f].done /\ IsAmbassador(amb'[f])
  BY <1>4, <1>5 DEF IsAmbassador
<1>7. Member(f)'
  <2>1. MemberOK(f, "in", f \in srv[Root].known, f \in srv[Parent[f]].known,
                 f \in srv[Parent[f]].leaving, up[f], down[f], UpAbove(f), DownAbove(f))
    BY <1>2, <1>4, MemberNow
  <2>2. MemberOK(f, "resigned", f \in srv[Root].known, f \in srv[Parent[f]].known,
                 f \in srv[Parent[f]].leaving, Append(up[f], m), down[f], UpAbove(f), DownAbove(f))
    BY <1>3, <1>4, <2>1, MemberResigns
  <2> QED
    BY <1>2, <1>4, <1>6, <2>2 DEF Member
<1> QED
  BY <1>2, <1>3, <1>5, <1>6, <1>7, QuietCall

LEMMA OneAt ==
  ASSUME NEW x, NEW y
  PROVE  DOMAIN One(x, y) = {x} /\ One(x, y)[x] = y
BY DEF One

LEMMA OverAt ==
  ASSUME NEW f, NEW g
  PROVE  /\ DOMAIN Over(f, g) = DOMAIN f \cup DOMAIN g
         /\ \A x \in DOMAIN f \cup DOMAIN g : Over(f, g)[x] = IF x \in DOMAIN f THEN f[x] ELSE g[x]
BY DEF Over

LEMMA OneAnswer ==
  ASSUME NEW f \in Federates, NEW l \in Labels, NEW ok \in BOOLEAN, NEW m, m = Achieved(l, One(f, ok))
  PROVE  /\ m \in UpMessages /\ m \in UpOf(f) /\ m.type = "Achieved" /\ m.label = l
         /\ DOMAIN m.pairs = {f} /\ m.pairs[f] = ok
         /\ m \notin JoinOf(f) /\ m \notin ResignOf(f) /\ m \in By(f, l)
         /\ \A g, k : m \in By(g, k) => g = f /\ k = l
<1>1. One(f, ok) \in Answers
  BY DEF One, Answers
<1>2. m.type = "Achieved" /\ m.label = l /\ m.pairs = One(f, ok)
      /\ m \in [type : {"Achieved"}, label : Labels, pairs : Answers]
  BY <1>1 DEF Achieved
<1>3. m \in UpMessages
  BY <1>2 DEF UpMessages
<1>4. DOMAIN m.pairs = {f} /\ m.pairs[f] = ok
  BY <1>2 DEF One
<1>5. Below(f) = {f}
  BY Tree DEF Below
<1> QED
  BY <1>2, <1>3, <1>4, <1>5 DEF UpOf, JoinOf, ResignOf, By

LEMMA AchieveCall ==
  ASSUME IInv, NEW f \in Federates, synchronizationPointAchieved(f)
  PROVE  IInv'
<1>1. PICK l \in amb[f].due, ok \in BOOLEAN :
        /\ amb[f].member = "in" /\ Send(f, Achieved(l, One(f, ok))) /\ srv' = srv /\ down' = down
        /\ amb' = [amb EXCEPT ![f].due = @ \ {l}, ![f].done = Over(One(l, ok), @)]
  BY DEF synchronizationPointAchieved
<1>2. PICK m : m = Achieved(l, One(f, ok))
  OBVIOUS
<1>3. Types /\ Routed /\ Membership /\ Edges /\ Links /\ Labelled /\ Pending /\ Fresh /\ Claims
  BY DEF IInv
<1>4. /\ up[f] \in Seq(UpMessages) /\ up'[f] = Append(up[f], m) /\ down'[f] = down[f]
      /\ UpAbove(f)' = UpAbove(f) /\ DownAbove(f)' = DownAbove(f)
      /\ Member(f) /\ IsAmbassador(amb[f]) /\ DOMAIN amb = Federates
  BY <1>1, <1>2, SendAround
<1>5. l \in Labels /\ ~Resigned(f)
  BY <1>1, <1>4 DEF IsAmbassador, Resigned
<1>6. /\ m \in UpMessages /\ m \in UpOf(f) /\ m.type = "Achieved" /\ m.label = l
      /\ DOMAIN m.pairs = {f} /\ m.pairs[f] = ok
      /\ m \notin JoinOf(f) /\ m \notin ResignOf(f) /\ m \in By(f, l)
      /\ \A g, k : m \in By(g, k) => g = f /\ k = l
  BY <1>2, <1>5, OneAnswer
<1>7. /\ DOMAIN amb' = Federates
      /\ amb'[f] = [amb[f] EXCEPT !.due = @ \ {l}, !.done = Over(One(l, ok), @)]
      /\ \A g \in Federates : g # f => amb'[g] = amb[g]
  BY <1>1, <1>4
<1>8. /\ amb'[f].member = amb[f].member /\ amb'[f].announced = amb[f].announced
      /\ amb'[f].due = amb[f].due \ {l} /\ amb'[f].done = Over(One(l, ok), amb[f].done)
      /\ amb'[f].made = amb[f].made
      /\ amb'[f] \in [member : {"out", "joining", "in", "resigned"}, announced : SUBSET Labels,
                      due : SUBSET amb'[f].announced, done : {amb'[f].done}, made : SUBSET Points]
  BY <1>4, <1>7 DEF IsAmbassador
<1>9. /\ DOMAIN amb'[f].done = DOMAIN amb[f].done \cup {l} /\ amb'[f].done[l] = ok
      /\ \A k \in DOMAIN amb[f].done : k # l => amb'[f].done[k] = amb[f].done[k]
  <2>1. PICK o, d : o = One(l, ok) /\ d = amb[f].done
    OBVIOUS
  <2>2. DOMAIN o = {l} /\ o[l] = ok /\ amb'[f].done = Over(o, d)
    BY <1>8, <2>1 DEF One
  <2>3. DOMAIN Over(o, d) = {l} \cup DOMAIN d
    BY <2>2, OverAt
  <2>4. Over(o, d)[l] = o[l] /\ \A k \in DOMAIN d : k # l => Over(o, d)[k] = d[k]
    BY <2>2 DEF Over
  <2> QED
    BY <2>1, <2>2, <2>3, <2>4
<1>10. IsAmbassador(amb'[f])
  BY <1>4, <1>5, <1>8, <1>9 DEF IsAmbassador
<1>11. \A g \in Federates : Resigned(g)' <=> Resigned(g)
  BY <1>7, <1>8 DEF Resigned
<1>12. /\ Shift({}, {}, UpOnly(f, <<m>>), Given(NoMessages))
       /\ Types' /\ Routed' /\ NotLeaving' /\ ForAll'
       /\ \A g \in Federates : g # f => Member(g)'
  BY <1>1, <1>2, <1>6, <1>7, <1>10, Call
<1>13. PICK U, V : U = UpOnly(f, <<m>>) /\ V = Given(NoMessages)
  OBVIOUS
<1>14. Shift({}, {}, U, V)
  BY <1>12, <1>13
<1>15. \A n \in Nodes : /\ n = f => U[n] = <<m>>
                        /\ n # f => DOMAIN U[n] = {} /\ \A X : ~Some(U[n], X)
                        /\ DOMAIN V[n] = {} /\ \A X : ~Some(V[n], X)
  BY <1>13, UpOnlyAt, GivenNone
<1>16. <<m>> \in Seq(UpMessages) /\ DOMAIN <<m>> = {1} /\ <<m>>[1] = m /\ \A X : Some(<<m>>, X) <=> m \in X
  BY <1>6, OneOf
<1>17. ASSUME NEW n \in Nodes, NEW g, NEW k, g # f \/ k # l PROVE ~Some(U[n], By(g, k))
  BY <1>6, <1>15, <1>16, <1>17
<1>18. \A s, k, g : /\ Awaits(s, k, g)' <=> Awaits(s, k, g)
                    /\ Has(s, k, g)' <=> Has(s, k, g)
  BY <1>1, ServersStay
<1>20. l \notin DOMAIN amb[f].done
  BY <1>1, <1>3, <1>5 DEF Labelled
\* Between f and its server
<1>21. /\ Awaits(Parent[f], l, f) /\ ~Some(up[f], By(f, l)) /\ Edge(f, l)'
  <2>1. PICK own, w, a, W, A :
          /\ own = TRUE /\ w = (l \in amb[f].due) /\ a = (l \in DOMAIN amb[f].done)
          /\ W = Awaits(Parent[f], l, f) /\ A = Has(Parent[f], l, f)
    OBVIOUS
  <2>2. LinkOK(f, l, own, w, a, W, A, up[f], down[f])
    BY <1>3, <1>5, <2>1 DEF Edges, Edge
  <2>3. w
    BY <1>1, <2>1
  <2>4. W /\ ~Some(up[f], By(f, l)) /\ ~Some(down[f], Touch(f, l))
    BY <2>2, <2>3 DEF LinkOK
  <2>5. LinkOK(f, l, own, FALSE, TRUE, W, A, up[f], down[f])
    BY <2>2, <2>3, LinkAnswer
  <2>6. LinkOK(f, l, own, FALSE, TRUE, W, A, up[f] \o <<m>>, down[f])
    BY <1>4, <1>16, <2>4, <2>5, LinkSendUp
  <2>7. up'[f] = up[f] \o <<m>>
    BY <1>4, <1>6, AppendIsConcat
  <2>8. /\ own = TRUE /\ FALSE = (l \in amb'[f].due) /\ TRUE = (l \in DOMAIN amb'[f].done)
        /\ W = Awaits(Parent[f], l, f)' /\ A = Has(Parent[f], l, f)'
    BY <1>8, <1>9, <1>18, <2>1 DEF Awaits, Has
  <2>9. Edge(f, l)'
    BY <1>1, <2>6, <2>7, <2>8 DEF Edge
  <2> QED
    BY <2>1, <2>4, <2>9
<1>22. Edges'
  <2> SUFFICES ASSUME NEW g \in Federates, NEW k \in Labels, ~Resigned(g)' PROVE Edge(g, k)'
    BY DEF Edges
  <2>1. CASE g = f /\ k = l
    BY <1>21, <2>1
  <2>2. CASE g # f \/ k # l
    <3>1. Edge(g, k) /\ g \in Nodes
      BY <1>3, <1>11, Tree DEF Edges
    <3>2. /\ k \in amb'[g].due <=> k \in amb[g].due
          /\ k \in DOMAIN amb'[g].done <=> k \in DOMAIN amb[g].done
      BY <1>7, <1>8, <1>9, <2>2
    <3>3. /\ g \in {} => Head(down[g]) \notin Touch(g, k)
          /\ ~Some(U[g], By(g, k))
      BY <1>17, <2>2, <3>1
    <3>4. \A i \in DOMAIN V[g] :
           /\ V[g][i] \notin Touch(g, k)
           /\ V[g][i] \in About(k) => Awaits(Parent[g], k, g) \/ Has(Parent[g], k, g)
      BY <1>15, <3>1
    <3> QED
      BY <1>3, <1>14, <1>18, <3>1, <3>2, <3>3, <3>4, ShiftEdge
  <2> QED
    BY <2>1, <2>2
<1>23. Links'
  <2> SUFFICES ASSUME NEW g \in Federates, NEW k \in Labels, Parent[g] # Root, Here(g)'
               PROVE  Link(g, k)'
    BY DEF Links
  <2>1. PICK s \in Leaves : s = Parent[g]
    BY Tree
  <2>2. Here(g)
    BY <1>1, <1>11 DEF Here
  <2>3. Link(g, k) /\ s \in Nodes /\ s # f
    BY <1>3, <2>1, <2>2, Tree DEF Links
  <2>4. /\ s \in {} => Head(down[s]) \notin Touch(g, k)
        /\ ~Some(U[s], By(g, k))
        /\ \A i \in DOMAIN V[s] : V[s][i] \notin Touch(g, k)
    BY <1>15, <2>3
  <2> QED
    BY <1>3, <1>14, <1>18, <2>1, <2>3, <2>4, ShiftLink
<1>24. Pending'
  <2> SUFFICES ASSUME NEW g \in Federates, NEW k \in Labels PROVE Answering(g, k)'
    BY DEF Pending
  <2>1. Answering(g, k) /\ g \in Nodes
    BY <1>3, Tree DEF Pending
  <2>2. CASE g = f /\ k = l
    <3>1. ~Some(up[f], ResignOf(f))
      BY <1>1, <1>4, MemberNow DEF MemberOK
    <3>2. ~SomeAfter(up[f], ResignOf(f), By(f, l)) /\ Single(up[f], By(f, l))
      BY <2>1, <2>2 DEF Answering
    <3>3. ~SomeAfter(Append(up[f], m), ResignOf(f), By(f, l))
      BY <1>4, <1>6, <3>1, <3>2, AfterAppend
    <3>4. Single(Append(up[f], m), By(f, l))
      BY <1>4, <1>6, <1>21, <3>2, SingleAppend
    <3>5. Awaits(Parent[f], l, f)'
      BY <1>18, <1>21
    <3> QED
      BY <1>4, <2>2, <3>3, <3>4, <3>5 DEF Answering
  <2>3. CASE g # f \/ k # l
    <3>1. ~Some(U[g], By(g, k))
      BY <1>17, <2>1, <2>3
    <3> QED
      BY <1>3, <1>14, <1>18, <2>1, <3>1, ShiftAnswering
  <2> QED
    BY <2>2, <2>3
<1>25. Fresh'
  <2> SUFFICES ASSUME NEW s \in Leaves PROVE AllNews(up'[s], Awaited')
    BY DEF Fresh
  <2>1. s \in Nodes /\ s # f
    BY Tree
  <2>2. \A k \in Labels, g \in Below(s) : Awaits(Root, k, g) => Awaits(Root, k, g)'
    BY <1>18
  <2>3. NewsAdded(up[s], U[s], Awaited')
    BY <1>15, <2>1 DEF NewsAdded
  <2> QED
    BY <1>3, <1>14, <2>2, <2>3, ShiftFresh
<1>26. \A g \in Federates : \A k : Said(g, k) => Said(g, k)'
  BY <1>7, <1>9, <1>20 DEF Said
<1>27. Claims'
  <2>1. Claim(m)'
    BY <1>6, <1>9 DEF Claim, Said
  <2>2. \A n \in Nodes : \A i \in DOMAIN U[n] : Claim(U[n][i])'
    BY <1>15, <1>16, <2>1
  <2> QED
    BY <1>3, <1>14, <1>26, <2>2, ShiftClaims
<1>28. Membership'
  <2>1. MemberOK(f, amb[f].member, f \in srv[Root].known, f \in srv[Parent[f]].known,
                 f \in srv[Parent[f]].leaving, up[f], down[f], UpAbove(f), DownAbove(f))
    BY <1>4, MemberNow
  <2>2. MemberOK(f, amb[f].member, f \in srv[Root].known, f \in srv[Parent[f]].known,
                 f \in srv[Parent[f]].leaving, Append(up[f], m), down[f], UpAbove(f), DownAbove(f))
    BY <1>4, <1>6, <2>1, MemberSends
  <2>3. Member(f)'
    BY <1>1, <1>4, <1>8, <2>2 DEF Member
  <2> QED
    BY <1>12, <2>3 DEF Membership
<1>29. Labelled'
  <2> SUFFICES ASSUME NEW g \in Federates, ~Resigned(g)'
               PROVE  /\ amb'[g].announced = amb'[g].due \cup DOMAIN amb'[g].done
                      /\ amb'[g].due \cap DOMAIN amb'[g].done = {}
    BY DEF Labelled
  <2>1. /\ amb[g].announced = amb[g].due \cup DOMAIN amb[g].done
        /\ amb[g].due \cap DOMAIN amb[g].done = {}
    BY <1>3, <1>11 DEF Labelled
  <2>2. CASE g = f
    <3>1. PICK D, N, E : D = amb[f].due /\ N = DOMAIN amb[f].done /\ E = DOMAIN amb'[f].done
      OBVIOUS
    <3>2. /\ l \in D /\ amb'[f].due = D \ {l} /\ E = N \cup {l}
          /\ amb'[f].announced = D \cup N /\ D \cap N = {}
      BY <1>1, <1>8, <1>9, <2>1, <2>2, <3>1
    <3> QED
      BY <2>2, <3>1, <3>2
  <2>3. CASE g # f
    BY <1>7, <2>1, <2>3
  <2> QED
    BY <2>2, <2>3
<1>30. SuccessIsReal'
  BY <1>1, <1>26, SuccessSame
<1> QED
  BY <1>12, <1>22, <1>23, <1>24, <1>25, <1>27, <1>28, <1>29, <1>30 DEF IInv

-----------------------------------------------------------------------------
(* The callbacks *)

\* Ambassador f takes its oldest message.
LEMMA Callback ==
  ASSUME IInv, NEW f \in Federates, down[f] # <<>>, down' = [down EXCEPT ![f] = Tail(@)],
         up' = up, srv' = srv, DOMAIN amb' = Federates, IsAmbassador(amb'[f]),
         \A g \in Federates : g # f => amb'[g] = amb[g],
         amb[f].member # "resigned", amb'[f].member # "resigned"
  PROVE  /\ Shift({}, {f}, Given(NoMessages), Given(NoMessages))
         /\ Types' /\ Routed' /\ NotLeaving' /\ ForAll' /\ Links' /\ Pending' /\ Fresh'
         /\ \A g \in Federates : g # f => Member(g)'
         /\ amb'[f].member = amb[f].member /\ Head(down[f]) \notin JoinedOf(f) => Member(f)'
         /\ \A g \in Federates, k \in Labels :
              \/ Resigned(g)'
              \/ Edge(g, k)'
              \/ g = f /\ ~(/\ k \in amb'[f].due <=> k \in amb[f].due
                            /\ k \in DOMAIN amb'[f].done <=> k \in DOMAIN amb[f].done
                            /\ Head(down[f]) \notin Touch(f, k))
<1>1. Types /\ Routed /\ Membership /\ Edges /\ Links /\ Pending /\ Fresh
  BY DEF IInv
<1>2. PICK U, pd : U = Given(NoMessages) /\ pd = {f}
  OBVIOUS
<1>3. Shift({}, pd, U, U)
  BY <1>1, <1>2, CallbackShift
<1>4. \A n \in Nodes : DOMAIN U[n] = {} /\ \A X : ~Some(U[n], X)
  BY <1>2, GivenNone
<1>5. \A s, k, g : /\ Awaits(s, k, g)' <=> Awaits(s, k, g)
                   /\ Has(s, k, g)' <=> Has(s, k, g)
  BY ServersStay
<1>6. \A g \in Federates : (Resigned(g)' <=> Resigned(g)) /\ (Here(g)' <=> Here(g))
  <2>1. \A g \in Federates : Resigned(g)' <=> Resigned(g)
    BY DEF Resigned
  <2> QED
    BY <2>1 DEF Here
<1>7. Types'
  <2>1. up' \in [Nodes -> Seq(UpMessages)] /\ down' \in [Nodes -> Seq(DownMessages)]
    BY <1>1, <1>3, ShiftTypes
  <2>2. \A g \in Federates : IsAmbassador(amb'[g])
    BY <1>1 DEF Types
  <2> QED
    BY <2>1, <2>2, ServersStay DEF Types
<1>8. Routed'
  <2>1. \A n \in Nodes : /\ \A i \in DOMAIN U[n] : U[n][i] \in UpOf(n)
                         /\ \A i \in DOMAIN U[n] : U[n][i] \in DownOf(n)
    BY <1>4
  <2> QED
    BY <1>1, <1>3, <2>1, ServersStay, ShiftRouted
<1>9. ASSUME NEW g \in Federates, amb'[g].member = amb[g].member,
             g # f \/ Head(down[f]) \notin JoinedOf(f)
      PROVE  Member(g)'
  <2>1. Member(g)
    BY <1>1 DEF Membership
  <2>2. \A n \in {g, Parent[g]} \ {Root} :
           /\ n \in {} => Head(up[n]) \notin JoinOf(g)
           /\ n \in pd => Head(down[n]) \notin JoinedOf(g)
           /\ ~Some(U[n], JoinOf(g)) /\ ~Some(U[n], ResignOf(g))
           /\ ~Some(U[n], JoinedOf(g)) /\ ~Some(U[n], ResignedOf(g))
    <3> SUFFICES ASSUME NEW n \in {g, Parent[g]} \ {Root}
                 PROVE  /\ n \in Nodes
                        /\ n \in pd => Head(down[n]) \notin JoinedOf(g)
      BY <1>4
    <3>1. n \in Nodes /\ (n = f => g = f)
      BY Tree
    <3> QED
      BY <1>2, <1>9, <3>1
  <2> QED
    BY <1>1, <1>3, <1>9, <2>1, <2>2, ShiftMember
<1>10. Links'
  <2> SUFFICES ASSUME NEW g \in Federates, NEW k \in Labels, Parent[g] # Root, Here(g)'
               PROVE  Link(g, k)'
    BY DEF Links
  <2>1. PICK s \in Leaves : s = Parent[g]
    BY Tree
  <2>2. Link(g, k) /\ s \in Nodes /\ s # f
    BY <1>1, <1>6, <2>1, Tree DEF Links
  <2>3. /\ s \in pd => Head(down[s]) \notin Touch(g, k)
        /\ ~Some(U[s], By(g, k))
        /\ \A i \in DOMAIN U[s] : U[s][i] \notin Touch(g, k)
    BY <1>2, <1>4, <2>2
  <2> QED
    BY <1>1, <1>3, <1>5, <2>1, <2>2, <2>3, ShiftLink
<1>11. Pending'
  <2> SUFFICES ASSUME NEW g \in Federates, NEW k \in Labels PROVE Answering(g, k)'
    BY DEF Pending
  <2>1. Answering(g, k) /\ ~Some(U[g], By(g, k))
    BY <1>1, <1>4, Tree DEF Pending
  <2> QED
    BY <1>1, <1>3, <1>5, <2>1, ShiftAnswering
<1>12. Fresh'
  <2> SUFFICES ASSUME NEW s \in Leaves PROVE AllNews(up'[s], Awaited')
    BY DEF Fresh
  <2>1. s \in Nodes
    BY Tree
  <2>2. \A k \in Labels, g \in Below(s) : Awaits(Root, k, g) => Awaits(Root, k, g)'
    BY <1>5
  <2>3. NewsAdded(up[s], U[s], Awaited')
    BY <1>4, <2>1 DEF NewsAdded
  <2> QED
    BY <1>1, <1>3, <2>2, <2>3, ShiftFresh
<1>13. ASSUME NEW g \in Federates, NEW k \in Labels, ~Resigned(g)',
              \/ g # f
              \/ /\ k \in amb'[f].due <=> k \in amb[f].due
                 /\ k \in DOMAIN amb'[f].done <=> k \in DOMAIN amb[f].done
                 /\ Head(down[f]) \notin Touch(f, k)
       PROVE  Edge(g, k)'
  <2>1. Edge(g, k) /\ g \in Nodes
    BY <1>1, <1>6, <1>13, Tree DEF Edges
  <2>2. /\ k \in amb'[g].due <=> k \in amb[g].due
        /\ k \in DOMAIN amb'[g].done <=> k \in DOMAIN amb[g].done
        /\ g \in pd => Head(down[g]) \notin Touch(g, k)
    BY <1>2, <1>13
  <2>3. ~Some(U[g], By(g, k))
    BY <1>4, <2>1
  <2>4. \A i \in DOMAIN U[g] :
           /\ U[g][i] \notin Touch(g, k)
           /\ U[g][i] \in About(k) => Awaits(Parent[g], k, g) \/ Has(Parent[g], k, g)
    BY <1>4, <2>1
  <2> QED
    BY <1>1, <1>3, <1>5, <2>1, <2>2, <2>3, <2>4, ShiftEdge
<1> QED
  BY <1>2, <1>3, <1>7, <1>8, <1>9, <1>10, <1>11, <1>12, <1>13, ServersStay

LEMMA MemberJoined ==
  ASSUME NEW f, NEW member, NEW kr, NEW kp, NEW lv, NEW pf, NEW qf \in Seq(DownMessages), NEW ps, NEW qs,
         qf # <<>>, Head(qf) \in JoinedOf(f), MemberOK(f, member, kr, kp, lv, pf, qf, ps, qs)
  PROVE  MemberOK(f, "in", kr, kp, lv, pf, Tail(qf), ps, qs)
<1>1. Some(qf, JoinedOf(f)) /\ (Some(Tail(qf), JoinedOf(f)) => Some(qf, JoinedOf(f)))
  BY SomeTail
<1>2. Single(qf, JoinedOf(f))
  BY DEF MemberOK
<1>3. Single(Tail(qf), JoinedOf(f)) /\ ~Some(Tail(qf), JoinedOf(f))
  BY <1>2, SingleTail
<1>4. member = "joining" /\ ~Some(pf, JoinOf(f)) /\ ~Some(ps, JoinOf(f)) /\ ~Some(qs, JoinedOf(f))
  BY <1>1 DEF MemberOK
<1> QED
  BY <1>1, <1>3, <1>4 DEF MemberOK

\* What acceptCallbackMessage has in common for all messages
LEMMA Accepted ==
  ASSUME IInv, NEW f \in Federates, acceptCallbackMessage(f)
  PROVE  /\ down[f] # <<>> /\ down' = [down EXCEPT ![f] = Tail(@)] /\ up' = up /\ srv' = srv
         /\ amb[f].member \in {"joining", "in"}
         /\ DOMAIN amb' = Federates /\ \A g \in Federates : g # f => amb'[g] = amb[g]
         /\ Head(down[f]) \in DownOf(f) /\ Head(down[f]) \in DownMessages
         /\ IsAmbassador(amb[f]) /\ f \in Nodes /\ down[f] \in Seq(DownMessages)
         /\ Head(down[f]).type \in {"JoinResponse", "Response", "Announce", "Synchronized"}
         /\ Head(down[f]).type = "JoinResponse" => amb'[f] = [amb[f] EXCEPT !.member = "in"]
         /\ Head(down[f]).type = "Response" => amb'[f] = amb[f]
         /\ Head(down[f]).type = "Announce" =>
              amb'[f] = [amb[f] EXCEPT
                           !.announced = @ \cup {Head(down[f]).label},
                           !.due = IF Head(down[f]).label \in amb[f].announced THEN @
                                   ELSE @ \cup {Head(down[f]).label}]
         /\ Head(down[f]).type = "Synchronized" =>
              amb'[f] = [amb[f] EXCEPT
                           !.announced = @ \ {Head(down[f]).label}, !.due = @ \ {Head(down[f]).label},
                           !.done = [l \in DOMAIN @ \ {Head(down[f]).label} |-> @[l]]]
<1>1. Types /\ Routed
  BY DEF IInv
<1>2. f \in Nodes /\ f \notin Leaves
  BY Tree
<1>3. PICK m : m = Head(down[f])
  OBVIOUS
<1>4. /\ down[f] # <<>> /\ down' = [down EXCEPT ![f] = Tail(@)] /\ up' = up /\ srv' = srv
      /\ amb[f].member \in {"joining", "in"}
      /\ amb' = [amb EXCEPT ![f] =
           CASE m.type = "JoinResponse" -> [amb[f] EXCEPT !.member = "in"]
             [] m.type = "Response"     -> amb[f]
             [] m.type = "Announce"     ->
                  [amb[f] EXCEPT !.announced = @ \cup {m.label},
                            !.due = IF m.label \in amb[f].announced THEN @ ELSE @ \cup {m.label}]
             [] m.type = "Synchronized" ->
                  [amb[f] EXCEPT !.announced = @ \ {m.label}, !.due = @ \ {m.label},
                            !.done = [l \in DOMAIN @ \ {m.label} |-> @[l]]]]
  BY <1>3 DEF acceptCallbackMessage
<1>5. down[f] \in Seq(DownMessages) /\ DOMAIN amb = Federates /\ IsAmbassador(amb[f])
  BY <1>1, <1>2 DEF Types
<1>6. m \in DownMessages /\ m = down[f][1] /\ 1 \in DOMAIN down[f]
  BY <1>3, <1>4, <1>5, TailAt
<1>7. m \in DownOf(f)
  BY <1>1, <1>2, <1>6 DEF Routed
<1>8. m.type \in {"JoinResponse", "Response", "Announce", "Synchronized"}
  <2>1. m.type # "ResignNotify"
    BY <1>2, <1>7 DEF DownOf
  <2> QED
    BY <1>6, <2>1 DEF DownMessages
<1>9. DOMAIN amb' = Federates /\ \A g \in Federates : g # f => amb'[g] = amb[g]
  BY <1>4, <1>5
<1>10. /\ m.type = "JoinResponse" => amb'[f] = [amb[f] EXCEPT !.member = "in"]
       /\ m.type = "Response" => amb'[f] = amb[f]
       /\ m.type = "Announce" =>
            amb'[f] = [amb[f] EXCEPT
                         !.announced = @ \cup {m.label},
                         !.due = IF m.label \in amb[f].announced THEN @ ELSE @ \cup {m.label}]
       /\ m.type = "Synchronized" =>
            amb'[f] = [amb[f] EXCEPT
                         !.announced = @ \ {m.label}, !.due = @ \ {m.label},
                         !.done = [l \in DOMAIN @ \ {m.label} |-> @[l]]]
  BY <1>4, <1>5
<1> QED
  BY <1>2, <1>3, <1>4, <1>5, <1>6, <1>7, <1>8, <1>9, <1>10

\* What follows from Callback when nothing is unsaid
LEMMA CallbackRest ==
  ASSUME IInv, NEW f \in Federates, srv' = srv, DOMAIN amb' = Federates,
         Shift({}, {f}, Given(NoMessages), Given(NoMessages)),
         \A g \in Federates : g # f => amb'[g] = amb[g],
         \A l : Said(f, l) => Said(f, l)'
  PROVE  Claims' /\ SuccessIsReal'
<1>1. Types /\ Claims
  BY DEF IInv
<1>2. \A g \in Federates : \A l : Said(g, l) => Said(g, l)'
  BY DEF Said
<1>3. PICK U : U = Given(NoMessages)
  OBVIOUS
<1>4. \A n \in Nodes : \A i \in DOMAIN U[n] : Claim(U[n][i])'
  BY <1>3, GivenNone
<1>5. Claims'
  BY <1>1, <1>2, <1>3, <1>4, ShiftClaims
<1> QED
  BY <1>2, <1>5, SuccessSame

LEMMA AcceptOther ==
  ASSUME IInv, NEW f \in Federates, acceptCallbackMessage(f),
         Head(down[f]).type \in {"JoinResponse", "Response"}
  PROVE  IInv'
<1>1. PICK m : m = Head(down[f])
  OBVIOUS
<1>2. /\ down[f] # <<>> /\ down' = [down EXCEPT ![f] = Tail(@)] /\ up' = up /\ srv' = srv
      /\ amb[f].member \in {"joining", "in"}
      /\ DOMAIN amb' = Federates /\ \A g \in Federates : g # f => amb'[g] = amb[g]
      /\ m \in DownOf(f) /\ m \in DownMessages
      /\ IsAmbassador(amb[f]) /\ f \in Nodes /\ down[f] \in Seq(DownMessages)
      /\ m.type = "JoinResponse" => amb'[f] = [amb[f] EXCEPT !.member = "in"]
      /\ m.type = "Response" => amb'[f] = amb[f]
  BY <1>1, Accepted
<1>3. /\ IsAmbassador(amb'[f]) /\ amb'[f].member \in {"joining", "in"}
      /\ amb'[f].due = amb[f].due /\ amb'[f].done = amb[f].done /\ amb'[f].announced = amb[f].announced
  BY <1>1, <1>2 DEF IsAmbassador
<1>4. /\ Shift({}, {f}, Given(NoMessages), Given(NoMessages))
      /\ Types' /\ Routed' /\ NotLeaving' /\ ForAll' /\ Links' /\ Pending' /\ Fresh'
      /\ \A g \in Federates : g # f => Member(g)'
      /\ amb'[f].member = amb[f].member /\ m \notin JoinedOf(f) => Member(f)'
      /\ \A g \in Federates, k \in Labels :
           \/ Resigned(g)'
           \/ Edge(g, k)'
           \/ g = f /\ ~(/\ k \in amb'[f].due <=> k \in amb[f].due
                         /\ k \in DOMAIN amb'[f].done <=> k \in DOMAIN amb[f].done
                         /\ m \notin Touch(f, k))
  BY <1>1, <1>2, <1>3, Callback
<1>5. Edges'
  <2>1. \A k : m \notin Touch(f, k)
    BY <1>1, <1>2, NotTold DEF Tells
  <2> QED
    BY <1>3, <1>4, <2>1 DEF Edges
<1>6. Member(f)'
  <2>1. CASE m.type = "Response"
    BY <1>2, <1>4, <2>1 DEF JoinedOf
  <2>2. CASE m.type = "JoinResponse"
    <3>1. m \in JoinedOf(f)
      BY <1>2, <2>2, Tree DEF JoinedOf, DownOf, Below
    <3>2. MemberOK(f, amb[f].member, f \in srv[Root].known, f \in srv[Parent[f]].known,
                   f \in srv[Parent[f]].leaving, up[f], down[f], UpAbove(f), DownAbove(f))
      BY MemberNow DEF IInv, Membership
    <3>3. MemberOK(f, "in", f \in srv[Root].known, f \in srv[Parent[f]].known,
                   f \in srv[Parent[f]].leaving, up[f], Tail(down[f]), UpAbove(f), DownAbove(f))
      BY <1>1, <1>2, <3>1, <3>2, MemberJoined
    <3>4. /\ down'[f] = Tail(down[f]) /\ UpAbove(f)' = UpAbove(f) /\ DownAbove(f)' = DownAbove(f)
          /\ amb'[f].member = "in"
      <4>1. Types
        BY DEF IInv
      <4>2. Parent[f] # f /\ (Parent[f] # Root => Parent[f] \in Nodes)
        BY Tree
      <4>3. down'[f] = Tail(down[f]) /\ (Parent[f] # Root => down'[Parent[f]] = down[Parent[f]])
        BY <1>2, <4>1, <4>2 DEF Types
      <4> QED
        BY <1>2, <2>2, <4>3 DEF UpAbove, DownAbove, IsAmbassador
    <3> QED
      BY <1>2, <3>3, <3>4 DEF Member
  <2> QED
    BY <1>1, <2>1, <2>2
<1>7. Membership'
  BY <1>4, <1>6 DEF Membership
<1>8. Labelled'
  <2>1. Labelled
    BY DEF IInv
  <2>2. ~Resigned(f)
    BY <1>2 DEF Resigned
  <2> QED
    BY <1>2, <1>3, <2>1, <2>2 DEF Labelled, Resigned
<1>9. Claims' /\ SuccessIsReal'
  <2>1. \A l : Said(f, l) => Said(f, l)'
    BY <1>3 DEF Said
  <2> QED
    BY <1>2, <1>4, <2>1, CallbackRest
<1> QED
  BY <1>4, <1>5, <1>7, <1>8, <1>9 DEF IInv

LEMMA AcceptAnnounce ==
  ASSUME IInv, NEW f \in Federates, acceptCallbackMessage(f), Head(down[f]).type = "Announce"
  PROVE  IInv'
<1>1. PICK m, l : m = Head(down[f]) /\ l = m.label
  OBVIOUS
<1>2. /\ down[f] # <<>> /\ down' = [down EXCEPT ![f] = Tail(@)] /\ up' = up /\ srv' = srv
      /\ amb[f].member \in {"joining", "in"}
      /\ DOMAIN amb' = Federates /\ \A g \in Federates : g # f => amb'[g] = amb[g]
      /\ m \in DownOf(f) /\ m \in DownMessages /\ m.type = "Announce"
      /\ IsAmbassador(amb[f]) /\ f \in Nodes /\ down[f] \in Seq(DownMessages)
      /\ amb'[f] = [amb[f] EXCEPT !.announced = @ \cup {l},
                                  !.due = IF l \in amb[f].announced THEN @ ELSE @ \cup {l}]
  BY <1>1, Accepted
<1>3. l \in Labels
  BY <1>1, <1>2 DEF DownMessages
<1>4. /\ amb'[f].member = amb[f].member /\ amb'[f].done = amb[f].done
      /\ amb'[f].announced = amb[f].announced \cup {l}
      /\ amb'[f].due = IF l \in amb[f].announced THEN amb[f].due ELSE amb[f].due \cup {l}
  BY <1>2 DEF IsAmbassador
<1>5. IsAmbassador(amb'[f])
  BY <1>2, <1>3, <1>4 DEF IsAmbassador
<1>6. /\ Shift({}, {f}, Given(NoMessages), Given(NoMessages))
      /\ Types' /\ Routed' /\ NotLeaving' /\ ForAll' /\ Links' /\ Pending' /\ Fresh'
      /\ \A g \in Federates : g # f => Member(g)'
      /\ amb'[f].member = amb[f].member /\ m \notin JoinedOf(f) => Member(f)'
      /\ \A g \in Federates, k \in Labels :
           \/ Resigned(g)'
           \/ Edge(g, k)'
           \/ g = f /\ ~(/\ k \in amb'[f].due <=> k \in amb[f].due
                         /\ k \in DOMAIN amb'[f].done <=> k \in DOMAIN amb[f].done
                         /\ m \notin Touch(f, k))
  BY <1>1, <1>2, <1>4, <1>5, Callback
<1>7. /\ ~Resigned(f) /\ ~Resigned(f)'
      /\ amb[f].announced = amb[f].due \cup DOMAIN amb[f].done /\ amb[f].due \cap DOMAIN amb[f].done = {}
  BY <1>2, <1>4 DEF Resigned, IInv, Labelled
<1>8. Edge(f, l)'
  <2>1. PICK own, w, a, W, A :
          /\ own = TRUE /\ w = (l \in amb[f].due) /\ a = (l \in DOMAIN amb[f].done)
          /\ W = Awaits(Parent[f], l, f) /\ A = Has(Parent[f], l, f)
    OBVIOUS
  <2>2. LinkOK(f, l, own, w, a, W, A, up[f], down[f])
    BY <1>3, <1>7, <2>1 DEF IInv, Edges, Edge
  <2>3. W = Awaits(Parent[f], l, f)' /\ A = Has(Parent[f], l, f)'
    BY <1>2, <2>1 DEF Awaits, Has
  <2>4. down'[f] = Tail(down[f])
    <3>1. Types
      BY DEF IInv
    <3> QED
      BY <1>2, <3>1 DEF Types
  <2>5. CASE m \in AnnTo(f, l)
    <3>1. ~w /\ ~a /\ LinkOK(f, l, own, TRUE, FALSE, W, A, up[f], Tail(down[f]))
      BY <1>1, <1>2, <2>2, <2>5, LinkAnnounced
    <3>2. l \notin amb[f].announced
      BY <1>7, <2>1, <3>1
    <3>4. l \in amb'[f].due /\ l \notin DOMAIN amb'[f].done
      BY <1>4, <2>1, <3>1, <3>2
    <3>5. own = TRUE
      BY <2>1
    <3>3. TRUE = (l \in amb'[f].due) /\ FALSE = (l \in DOMAIN amb'[f].done) /\ own = TRUE
      BY <3>4, <3>5
    <3> QED
      BY <1>2, <2>3, <2>4, <3>1, <3>3 DEF Edge
  <2>6. CASE m \notin AnnTo(f, l)
    <3>1. m \notin Touch(f, l) /\ m \in About(l)
      BY <1>1, <1>2, <2>6 DEF Touch, EndOf, About
    <3>2. own
      BY <2>1
    <3>6. Head(down[f]) \notin Touch(f, l) /\ Head(down[f]) \in About(l)
      BY <1>1, <3>1
    <3>7. /\ LinkOK(f, l, own, w, a, W, A, up[f], Tail(down[f]))
          /\ own /\ Head(down[f]) \in About(l) => w \/ a
      BY <1>2, <2>2, <3>6, LinkPass
    <3>3. (w \/ a) /\ LinkOK(f, l, own, w, a, W, A, up[f], Tail(down[f]))
      BY <3>2, <3>6, <3>7
    <3>4. l \in amb[f].announced
      BY <1>7, <2>1, <3>3
    <3>5. w = (l \in amb'[f].due) /\ a = (l \in DOMAIN amb'[f].done) /\ own = TRUE
      BY <1>4, <2>1, <3>4
    <3> QED
      BY <1>2, <2>3, <2>4, <3>3, <3>5 DEF Edge
  <2> QED
    BY <2>5, <2>6
<1>9. Edges'
  <2> SUFFICES ASSUME NEW g \in Federates, NEW k \in Labels, ~Resigned(g)' PROVE Edge(g, k)'
    BY DEF Edges
  <2>1. CASE g = f /\ k = l
    BY <1>8, <2>1
  <2>2. CASE g # f
    BY <1>6, <2>2
  <2>3. CASE g = f /\ k # l
    <3>1. m \notin Touch(f, k)
      BY <1>1, <1>2, <2>3, TouchAbout DEF About
    <3>2. /\ k \in amb'[f].due <=> k \in amb[f].due
          /\ k \in DOMAIN amb'[f].done <=> k \in DOMAIN amb[f].done
      BY <1>4, <2>3
    <3> QED
      BY <1>6, <2>3, <3>1, <3>2
  <2> QED
    BY <2>1, <2>2, <2>3
<1>10. Membership'
  BY <1>2, <1>4, <1>6 DEF Membership, JoinedOf
<1>11. Labelled'
  <2> SUFFICES ASSUME NEW g \in Federates, ~Resigned(g)'
               PROVE  /\ amb'[g].announced = amb'[g].due \cup DOMAIN amb'[g].done
                      /\ amb'[g].due \cap DOMAIN amb'[g].done = {}
    BY DEF Labelled
  <2>1. CASE g = f
    <3>1. PICK N, D : N = DOMAIN amb[f].done /\ D = amb[f].due
      OBVIOUS
    <3>2. /\ DOMAIN amb'[f].done = N /\ amb[f].announced = D \cup N /\ D \cap N = {}
          /\ amb'[f].announced = D \cup N \cup {l}
          /\ amb'[f].due = IF l \in D \cup N THEN D ELSE D \cup {l}
      BY <1>4, <1>7, <3>1
    <3> QED
      BY <2>1, <3>2
  <2>2. CASE g # f
    BY <1>2, <2>2 DEF IInv, Labelled, Resigned
  <2> QED
    BY <2>1, <2>2
<1>12. Claims' /\ SuccessIsReal'
  <2>1. \A k : Said(f, k) => Said(f, k)'
    BY <1>4 DEF Said
  <2> QED
    BY <1>2, <1>6, <2>1, CallbackRest
<1> QED
  BY <1>6, <1>9, <1>10, <1>11, <1>12 DEF IInv

LEMMA AcceptSynchronized ==
  ASSUME IInv, NEW f \in Federates, acceptCallbackMessage(f), Head(down[f]).type = "Synchronized"
  PROVE  IInv'
<1>0. /\ Types /\ Routed /\ Membership /\ Edges /\ Links /\ Labelled /\ Claims /\ SuccessIsReal
  BY DEF IInv
<1>1. PICK m, l : m = Head(down[f]) /\ l = m.label
  OBVIOUS
<1>2. /\ down[f] # <<>> /\ down' = [down EXCEPT ![f] = Tail(@)] /\ up' = up /\ srv' = srv
      /\ amb[f].member \in {"joining", "in"}
      /\ DOMAIN amb' = Federates /\ \A g \in Federates : g # f => amb'[g] = amb[g]
      /\ m \in DownOf(f) /\ m \in DownMessages /\ m.type = "Synchronized"
      /\ IsAmbassador(amb[f]) /\ f \in Nodes /\ down[f] \in Seq(DownMessages)
      /\ amb'[f] = [amb[f] EXCEPT !.announced = @ \ {l}, !.due = @ \ {l},
                                  !.done = [k \in DOMAIN @ \ {l} |-> @[k]]]
  BY <1>1, Accepted
<1>3. l \in Labels
  BY <1>1, <1>2 DEF DownMessages
<1>4. /\ amb'[f].member = amb[f].member /\ amb'[f].announced = amb[f].announced \ {l}
      /\ amb'[f].due = amb[f].due \ {l}
      /\ DOMAIN amb'[f].done = DOMAIN amb[f].done \ {l}
      /\ \A k \in DOMAIN amb'[f].done : amb'[f].done[k] = amb[f].done[k]
  BY <1>2 DEF IsAmbassador
<1>5. IsAmbassador(amb'[f])
  BY <1>2, <1>3, <1>4 DEF IsAmbassador
<1>6. /\ Shift({}, {f}, Given(NoMessages), Given(NoMessages))
      /\ Types' /\ Routed' /\ NotLeaving' /\ ForAll' /\ Links' /\ Pending' /\ Fresh'
      /\ \A g \in Federates : g # f => Member(g)'
      /\ amb'[f].member = amb[f].member /\ m \notin JoinedOf(f) => Member(f)'
      /\ \A g \in Federates, k \in Labels :
           \/ Resigned(g)'
           \/ Edge(g, k)'
           \/ g = f /\ ~(/\ k \in amb'[f].due <=> k \in amb[f].due
                         /\ k \in DOMAIN amb'[f].done <=> k \in DOMAIN amb[f].done
                         /\ m \notin Touch(f, k))
  BY <1>1, <1>2, <1>4, <1>5, Callback
<1>7. ~Resigned(f) /\ ~Resigned(f)' /\ Here(f)
  BY <1>2, <1>4 DEF Resigned, Here
<1>8. m \in EndOf(l) /\ m \in EndTo(f, l)
  BY <1>1, <1>2, Tree DEF EndOf, EndTo, DownOf
<1>9. Edge(f, l)' /\ ~Some(up[f], By(f, l)) /\ ~Has(Parent[f], l, f)
  <2>1. PICK own, w, a, W, A :
          /\ own = TRUE /\ w = (l \in amb[f].due) /\ a = (l \in DOMAIN amb[f].done)
          /\ W = Awaits(Parent[f], l, f) /\ A = Has(Parent[f], l, f)
    OBVIOUS
  <2>2. LinkOK(f, l, own, w, a, W, A, up[f], down[f])
    BY <1>0, <1>3, <1>7, <2>1 DEF Edges, Edge
  <2>3. ~Some(up[f], By(f, l)) /\ ~A /\ LinkOK(f, l, own, FALSE, FALSE, W, A, up[f], Tail(down[f]))
    BY <1>1, <1>2, <1>8, <2>2, LinkEnded
  <2>4. W = Awaits(Parent[f], l, f)' /\ A = Has(Parent[f], l, f)'
    BY <1>2, <2>1 DEF Awaits, Has
  <2>5. down'[f] = Tail(down[f])
    BY <1>0, <1>2 DEF Types
  <2>6. l \notin amb'[f].due /\ l \notin DOMAIN amb'[f].done
    BY <1>4
  <2>7. own = TRUE
    BY <2>1
  <2>8. FALSE = (l \in amb'[f].due) /\ FALSE = (l \in DOMAIN amb'[f].done) /\ own = TRUE
    BY <2>6, <2>7
  <2>9. Edge(f, l)'
    BY <1>2, <2>3, <2>4, <2>5, <2>8 DEF Edge
  <2> QED
    BY <2>1, <2>3, <2>9
<1>10. ASSUME Parent[f] # Root
       PROVE  ~Some(up[Parent[f]], By(f, l)) /\ ~Has(Root, l, f)
  <2>1. PICK own, w, a, W, A :
          /\ own = FALSE /\ w = Awaits(Parent[f], l, f) /\ a = Has(Parent[f], l, f)
          /\ W = Awaits(Root, l, f) /\ A = Has(Root, l, f)
    OBVIOUS
  <2>2. LinkOK(f, l, own, w, a, W, A, up[Parent[f]], down[Parent[f]])
    BY <1>0, <1>3, <1>7, <1>10, <2>1 DEF Links, Link
  <2>3. ~a
    BY <1>9, <2>1
  <2>4. ~Some(up[Parent[f]], By(f, l)) /\ ~A
    BY <2>2, <2>3 DEF LinkOK
  <2> QED
    BY <2>1, <2>4
<1>11. Edges'
  <2> SUFFICES ASSUME NEW g \in Federates, NEW k \in Labels, ~Resigned(g)' PROVE Edge(g, k)'
    BY DEF Edges
  <2>1. CASE g = f /\ k = l
    BY <1>9, <2>1
  <2>2. CASE g # f
    BY <1>6, <2>2
  <2>3. CASE g = f /\ k # l
    <3>1. m \notin Touch(f, k)
      BY <1>1, <1>2, <2>3, TouchAbout DEF About
    <3>2. /\ k \in amb'[f].due <=> k \in amb[f].due
          /\ k \in DOMAIN amb'[f].done <=> k \in DOMAIN amb[f].done
      BY <1>4, <2>3
    <3> QED
      BY <1>6, <2>3, <3>1, <3>2
  <2> QED
    BY <2>1, <2>2, <2>3
<1>12. Membership'
  BY <1>2, <1>4, <1>6 DEF Membership, JoinedOf
<1>13. Labelled'
  <2> SUFFICES ASSUME NEW g \in Federates, ~Resigned(g)'
               PROVE  /\ amb'[g].announced = amb'[g].due \cup DOMAIN amb'[g].done
                      /\ amb'[g].due \cap DOMAIN amb'[g].done = {}
    BY DEF Labelled
  <2>1. CASE g = f
    <3>1. PICK N, D : N = DOMAIN amb[f].done /\ D = amb[f].due
      OBVIOUS
    <3>2. /\ DOMAIN amb'[f].done = N \ {l} /\ D \cap N = {}
          /\ amb'[f].announced = (D \cup N) \ {l} /\ amb'[f].due = D \ {l}
      BY <1>0, <1>4, <1>7, <3>1 DEF Labelled
    <3> QED
      BY <2>1, <3>2
  <2>2. CASE g # f
    BY <1>0, <1>2, <2>2 DEF Labelled, Resigned
  <2> QED
    BY <2>1, <2>2
<1>14. ASSUME NEW g \in Federates, NEW k, Said(g, k), g # f \/ k # l PROVE Said(g, k)'
  BY <1>2, <1>4, <1>14 DEF Said
<1>15. Claims'
  <2>1. ASSUME NEW n \in Nodes, NEW i \in DOMAIN up[n], NEW x, x = up[n][i], x.type = "Achieved",
               NEW g \in DOMAIN x.pairs, x.pairs[g]
        PROVE  Said(g, x.label)'
    <3>1. Said(g, x.label)
      BY <1>0, <2>1 DEF Claims, Claim
    <3>2. x \in UpOf(n) /\ x \in UpMessages /\ g \in Below(n)
      BY <1>0, <2>1 DEF Routed, UpOf
    <3>3. g \in Federates
      BY <3>2 DEF Below, Nodes
    <3>4. CASE g = f /\ x.label = l
      <4>1. x \in By(f, l)
        BY <2>1, <3>2, <3>4 DEF By
      <4>2. Some(up[n], By(f, l))
        BY <2>1, <4>1 DEF Some
      <4>3. n = f \/ (Parent[f] # Root /\ n = Parent[f])
        BY <3>2, <3>4, Tree DEF Below
      <4> QED
        BY <1>9, <1>10, <4>2, <4>3
    <3>5. CASE g # f \/ x.label # l
      BY <1>14, <3>1, <3>3, <3>5
    <3> QED
      BY <3>4, <3>5
  <2>2. up' = up
    BY <1>2
  <2> QED
    BY <2>1, <2>2 DEF Claims, Claim, Said
<1>16. SuccessIsReal'
  <2>1. ASSUME NEW s \in Servers, NEW k \in DOMAIN srv[s].points,
               NEW g \in DOMAIN srv[s].points[k].achieved
        PROVE  g \in Federates /\ (g # f \/ k # l)
    <3>1. k \in Labels /\ Has(s, k, g)
      BY <1>0 DEF Has, Types, IsServer, IsPoints
    <3>2. g \in srv[s].known /\ g \in Federates
      BY <1>0, <3>1, PointTypes
    <3>3. ASSUME g = f, k = l PROVE FALSE
      <4>1. s = Root \/ s = Parent[f]
        BY <1>0, <3>2, <3>3, Tree DEF Routed, Below
      <4> QED
        BY <1>9, <1>10, <3>1, <3>3, <4>1
    <3> QED
      BY <3>2, <3>3
  <2>2. \A s \in Servers : \A k \in DOMAIN srv'[s].points :
          \A g \in DOMAIN srv'[s].points[k].achieved :
            /\ g \in Federates
            /\ srv'[s].points[k].achieved[g] =>
                 \/ Said(g, k)'
                 \/ /\ k \in DOMAIN srv[s].points /\ g \in DOMAIN srv[s].points[k].achieved
                    /\ srv[s].points[k].achieved[g] /\ (Said(g, k) => Said(g, k)')
    <3>1. srv' = srv
      BY <1>2
    <3> QED
      BY <1>14, <2>1, <3>1
  <2> QED
    BY <1>0, <2>2, SuccessStays
<1> QED
  BY <1>6, <1>11, <1>12, <1>13, <1>15, <1>16 DEF IInv

LEMMA AcceptCall ==
  ASSUME IInv, NEW f \in Federates, acceptCallbackMessage(f)
  PROVE  IInv'
<1>1. Head(down[f]).type \in {"JoinResponse", "Response", "Announce", "Synchronized"}
  BY Accepted
<1> QED
  BY <1>1, AcceptOther, AcceptAnnounce, AcceptSynchronized

-----------------------------------------------------------------------------
(* How a join and a resignation pass the servers *)

LEMMA SingleConcat ==
  ASSUME NEW T, NEW q \in Seq(T), NEW v \in Seq(T), NEW X, ~Some(q, X), Single(v, X)
  PROVE  Single(q \o v, X)
<1>1. PICK r : r = q \o v
  OBVIOUS
<1>2. /\ DOMAIN r = 1 .. Len(q) + Len(v) /\ DOMAIN q = 1 .. Len(q) /\ DOMAIN v = 1 .. Len(v)
      /\ Len(q) \in Nat /\ Len(v) \in Nat
      /\ \A i \in 1 .. Len(q) : r[i] = q[i]
      /\ \A i \in 1 .. Len(v) : r[Len(q) + i] = v[i]
  BY <1>1, ConcatAt
<1>3. ASSUME NEW i \in DOMAIN r, r[i] \in X PROVE i - Len(q) \in DOMAIN v /\ v[i - Len(q)] = r[i]
  <2>1. Len(q) < i
    BY <1>2, <1>3 DEF Some
  <2>2. i - Len(q) \in 1 .. Len(v) /\ Len(q) + (i - Len(q)) = i
    BY <1>2, <2>1
  <2> QED
    BY <1>2, <2>2
<1>4. ASSUME NEW i \in DOMAIN r, NEW j \in DOMAIN r, r[i] \in X, r[j] \in X PROVE i = j
  <2>1. i - Len(q) = j - Len(q)
    BY <1>3, <1>4 DEF Single
  <2> QED
    BY <1>2, <2>1
<1> QED
  BY <1>1, <1>4 DEF Single

\* The leaf server has passed the join on.
LEMMA MemberJoinUp ==
  ASSUME NEW f, NEW member, NEW kr, NEW kp, NEW lv, NEW pf \in Seq(UpMessages), NEW qf,
         NEW ps \in Seq(UpMessages), NEW qs, NEW v \in Seq(UpMessages), pf # <<>>,
         MemberOK(f, member, kr, kp, lv, pf, qf, ps, qs), Head(pf) \in JoinOf(f),
         Some(v, JoinOf(f)), Single(v, JoinOf(f)), ~Some(v, ResignOf(f))
  PROVE  MemberOK(f, member, kr, kp, lv, Tail(pf), qf, ps \o v, qs)
<1>1. Some(pf, JoinOf(f)) /\ (Some(Tail(pf), ResignOf(f)) => Some(pf, ResignOf(f)))
  BY SomeTail
<1>2. /\ member = "joining" /\ ~kr /\ ~kp /\ ~Some(ps, JoinOf(f)) /\ Single(pf, JoinOf(f))
      /\ ~Some(qs, JoinedOf(f)) /\ ~Some(qf, JoinedOf(f))
  BY <1>1 DEF MemberOK
<1>3. ~Some(Tail(pf), JoinOf(f)) /\ Single(Tail(pf), JoinOf(f))
  BY <1>2, SingleTail
<1>4. Some(ps \o v, JoinOf(f)) /\ (Some(ps \o v, ResignOf(f)) => Some(ps, ResignOf(f)))
  BY SomeConcat
<1>5. Single(ps \o v, JoinOf(f))
  BY <1>2, SingleConcat
<1> QED
  BY <1>1, <1>2, <1>3, <1>4, <1>5 DEF MemberOK

\* The messages that the root sends for a join
Welcome(v, f) ==
  /\ Some(v, JoinedOf(f)) /\ Single(v, JoinedOf(f)) /\ ~Some(v, ResignedOf(f))
  /\ ~SomeAfter(v, Announcing(f), JoinedOf(f))

LEMMA MemberJoinRoot ==
  ASSUME NEW f, NEW member, NEW kr, NEW kp, NEW lv, NEW pf, NEW qf,
         NEW ps \in Seq(UpMessages), NEW qs \in Seq(DownMessages), NEW v \in Seq(DownMessages),
         ps # <<>>, MemberOK(f, member, kr, kp, lv, pf, qf, ps, qs), Head(ps) \in JoinOf(f),
         Welcome(v, f), ~Some(qs, Announcing(f))
  PROVE  MemberOK(f, member, TRUE, kp, lv, pf, qf, Tail(ps), qs \o v)
<1>1. Some(ps, JoinOf(f)) /\ (Some(Tail(ps), ResignOf(f)) => Some(ps, ResignOf(f)))
  BY SomeTail
<1>2. /\ member = "joining" /\ ~kr /\ ~kp /\ ~Some(pf, JoinOf(f)) /\ Single(ps, JoinOf(f))
      /\ ~Some(qs, JoinedOf(f)) /\ ~Some(qf, JoinedOf(f)) /\ ~Some(qs, ResignedOf(f))
      /\ ~Some(ps, ResignOf(f))
  BY <1>1 DEF MemberOK
<1>3. ~Some(Tail(ps), JoinOf(f)) /\ Single(Tail(ps), JoinOf(f))
  BY <1>2, SingleTail
<1>4. Some(qs \o v, JoinedOf(f)) /\ ~Some(qs \o v, ResignedOf(f))
  BY <1>2, SomeConcat DEF Welcome
<1>5. Single(qs \o v, JoinedOf(f))
  BY <1>2, SingleConcat DEF Welcome
<1>6. ~SomeAfter(qs \o v, Announcing(f), JoinedOf(f))
  <2> SUFFICES ASSUME SomeAfter(qs \o v, Announcing(f), JoinedOf(f)) PROVE FALSE
    OBVIOUS
  <2>1. SomeAfter(qs, Announcing(f), JoinedOf(f)) => Some(qs, Announcing(f))
    BY DEF SomeAfter, Some
  <2> QED
    BY <2>1, AfterConcat DEF Welcome
<1> QED
  BY <1>1, <1>2, <1>3, <1>4, <1>5, <1>6 DEF MemberOK

LEMMA MemberJoinNear ==
  ASSUME NEW f, NEW member, NEW kr, NEW kp, NEW lv, NEW pf \in Seq(UpMessages),
         NEW qf \in Seq(DownMessages), NEW ps, NEW qs, NEW v \in Seq(DownMessages),
         pf # <<>>, MemberOK(f, member, kr, kp, lv, pf, qf, ps, qs), Head(pf) \in JoinOf(f),
         Some(v, JoinedOf(f)), Single(v, JoinedOf(f))
  PROVE  MemberOK(f, member, TRUE, TRUE, lv, Tail(pf), qf \o v, ps, qs)
<1>1. Some(pf, JoinOf(f)) /\ (Some(Tail(pf), ResignOf(f)) => Some(pf, ResignOf(f)))
  BY SomeTail
<1>2. /\ member = "joining" /\ ~Some(ps, JoinOf(f)) /\ Single(pf, JoinOf(f))
      /\ ~Some(qs, JoinedOf(f)) /\ ~Some(qf, JoinedOf(f)) /\ ~Some(qs, ResignedOf(f))
      /\ ~Some(ps, ResignOf(f)) /\ ~lv
  BY <1>1 DEF MemberOK
<1>3. ~Some(Tail(pf), JoinOf(f)) /\ Single(Tail(pf), JoinOf(f))
  BY <1>2, SingleTail
<1>4. Some(qf \o v, JoinedOf(f))
  BY SomeConcat
<1>5. Single(qf \o v, JoinedOf(f))
  BY <1>2, SingleConcat
<1> QED
  BY <1>1, <1>2, <1>3, <1>4, <1>5 DEF MemberOK

\* The leaf server has passed the response on.
LEMMA MemberJoinDown ==
  ASSUME NEW f, NEW member, NEW kr, NEW kp, NEW lv, NEW pf, NEW qf \in Seq(DownMessages), NEW ps,
         NEW qs \in Seq(DownMessages), NEW v \in Seq(DownMessages),
         qs # <<>>, MemberOK(f, member, kr, kp, lv, pf, qf, ps, qs), Head(qs) \in JoinedOf(f),
         Some(v, JoinedOf(f)), Single(v, JoinedOf(f))
  PROVE  MemberOK(f, member, kr, TRUE, lv, pf, qf \o v, ps, Tail(qs))
<1>1. /\ Some(qs, JoinedOf(f)) /\ (Some(Tail(qs), ResignedOf(f)) => Some(qs, ResignedOf(f)))
      /\ SomeAfter(Tail(qs), Announcing(f), JoinedOf(f)) => SomeAfter(qs, Announcing(f), JoinedOf(f))
  BY SomeTail, AfterTail
<1>2. /\ member = "joining" /\ ~Some(ps, JoinOf(f)) /\ ~Some(pf, JoinOf(f)) /\ Single(qs, JoinedOf(f))
      /\ ~Some(qf, JoinedOf(f)) /\ ~Some(qs, ResignedOf(f))
      /\ ~Some(ps, ResignOf(f)) /\ ~lv
  BY <1>1 DEF MemberOK
<1>3. ~Some(Tail(qs), JoinedOf(f)) /\ Single(Tail(qs), JoinedOf(f))
  BY <1>2, SingleTail
<1>4. Some(qf \o v, JoinedOf(f))
  BY SomeConcat
<1>5. Single(qf \o v, JoinedOf(f))
  BY <1>2, SingleConcat
<1> QED
  BY <1>1, <1>2, <1>3, <1>4, <1>5 DEF MemberOK

\* The leaf server has seen that f resigns.
LEMMA MemberResignUp ==
  ASSUME NEW f, NEW member, NEW kr, NEW kp, NEW lv, NEW pf \in Seq(UpMessages), NEW qf,
         NEW ps \in Seq(UpMessages), NEW qs, NEW v \in Seq(UpMessages), pf # <<>>,
         MemberOK(f, member, kr, kp, lv, pf, qf, ps, qs), Head(pf) \in ResignOf(f),
         ~Some(v, JoinOf(f))
  PROVE  MemberOK(f, member, kr, kp, TRUE, Tail(pf), qf, ps \o v, qs)
<1>1. Some(pf, ResignOf(f)) /\ (Some(Tail(pf), JoinOf(f)) => Some(pf, JoinOf(f)))
  BY SomeTail
<1>2. member = "resigned" /\ Single(pf, JoinOf(f)) /\ Single(ps, JoinOf(f))
  BY <1>1 DEF MemberOK
<1>3. /\ ~Some(pf, JoinOf(f)) /\ ~Some(ps, JoinOf(f)) /\ ~Some(qs, JoinedOf(f)) /\ ~Some(qf, JoinedOf(f))
      /\ Single(Tail(pf), JoinOf(f))
  BY <1>2, SingleTail DEF MemberOK
<1>4. ~Some(ps \o v, JoinOf(f)) /\ Single(ps \o v, JoinOf(f))
  BY <1>3, SomeConcat DEF Single, Some
<1> QED
  BY <1>1, <1>2, <1>3, <1>4 DEF MemberOK

\* The root has forgotten f.
LEMMA MemberResignRoot ==
  ASSUME NEW f, NEW member, NEW kr, NEW kp, NEW lv, NEW pf, NEW qf,
         NEW ps \in Seq(UpMessages), NEW qs \in Seq(DownMessages), NEW v \in Seq(DownMessages),
         ps # <<>>, MemberOK(f, member, kr, kp, lv, pf, qf, ps, qs), Head(ps) \in ResignOf(f),
         ~Some(v, JoinedOf(f))
  PROVE  MemberOK(f, member, FALSE, kp, lv, pf, qf, Tail(ps), qs \o v)
<1>1. /\ Some(ps, ResignOf(f)) /\ (Some(Tail(ps), JoinOf(f)) => Some(ps, JoinOf(f)))
      /\ (Some(Tail(ps), ResignOf(f)) => Some(ps, ResignOf(f)))
  BY SomeTail
<1>2. member = "resigned" /\ Single(ps, JoinOf(f)) /\ Single(qs, JoinedOf(f)) /\ (kp => lv)
      /\ ~SomeAfter(qs, Announcing(f), JoinedOf(f))
  BY <1>1 DEF MemberOK
<1>3. /\ ~Some(pf, JoinOf(f)) /\ ~Some(ps, JoinOf(f)) /\ ~Some(qs, JoinedOf(f)) /\ ~Some(qf, JoinedOf(f))
      /\ Single(Tail(ps), JoinOf(f))
  BY <1>2, SingleTail DEF MemberOK
<1>4. ~Some(qs \o v, JoinedOf(f))
  BY <1>3, SomeConcat
<1>5. Single(qs \o v, JoinedOf(f)) /\ ~SomeAfter(qs \o v, Announcing(f), JoinedOf(f))
  BY <1>4 DEF Single, Some, SomeAfter
<1> QED
  BY <1>1, <1>2, <1>3, <1>4, <1>5 DEF MemberOK

LEMMA MemberResignNear ==
  ASSUME NEW f, NEW member, NEW kr, NEW kp, NEW lv, NEW pf \in Seq(UpMessages),
         NEW qf \in Seq(DownMessages), NEW ps, NEW qs, NEW v \in Seq(DownMessages),
         pf # <<>>, MemberOK(f, member, kr, kp, lv, pf, qf, ps, qs), Head(pf) \in ResignOf(f),
         ~Some(v, JoinedOf(f))
  PROVE  MemberOK(f, member, FALSE, FALSE, lv, Tail(pf), qf \o v, ps, qs)
<1>1. /\ Some(pf, ResignOf(f)) /\ (Some(Tail(pf), JoinOf(f)) => Some(pf, JoinOf(f)))
      /\ (Some(Tail(pf), ResignOf(f)) => Some(pf, ResignOf(f)))
  BY SomeTail
<1>2. member = "resigned" /\ Single(pf, JoinOf(f)) /\ Single(qf, JoinedOf(f))
  BY <1>1 DEF MemberOK
<1>3. /\ ~Some(pf, JoinOf(f)) /\ ~Some(ps, JoinOf(f)) /\ ~Some(qs, JoinedOf(f)) /\ ~Some(qf, JoinedOf(f))
      /\ Single(Tail(pf), JoinOf(f))
  BY <1>2, SingleTail DEF MemberOK
<1>4. ~Some(qf \o v, JoinedOf(f))
  BY <1>3, SomeConcat
<1>5. Single(qf \o v, JoinedOf(f))
  BY <1>4 DEF Single, Some
<1> QED
  BY <1>1, <1>2, <1>3, <1>4, <1>5 DEF MemberOK

\* The leaf server has forgotten f.
LEMMA MemberGone ==
  ASSUME NEW f, NEW member, NEW kr, NEW kp, NEW lv, NEW pf, NEW qf, NEW ps,
         NEW qs \in Seq(DownMessages),
         qs # <<>>, MemberOK(f, member, kr, kp, lv, pf, qf, ps, qs), Head(qs) \in ResignedOf(f)
  PROVE  MemberOK(f, member, kr, FALSE, FALSE, pf, qf, ps, Tail(qs))
<1>1. /\ Some(qs, ResignedOf(f)) /\ (Some(Tail(qs), ResignedOf(f)) => Some(qs, ResignedOf(f)))
      /\ Some(Tail(qs), JoinedOf(f)) => Some(qs, JoinedOf(f))
      /\ SomeAfter(Tail(qs), Announcing(f), JoinedOf(f)) => SomeAfter(qs, Announcing(f), JoinedOf(f))
  BY SomeTail, AfterTail
<1>2. Single(qs, JoinedOf(f))
  BY DEF MemberOK
<1>3. Single(Tail(qs), JoinedOf(f))
  BY <1>2, SingleTail
<1> QED
  BY <1>1, <1>3 DEF MemberOK

-----------------------------------------------------------------------------
(* The servers: joins, registrations and responses *)

LEMMA ArrivedAt ==
  ASSUME IInv, NEW c \in Nodes, NEW s, NEW type, Arrived(s, c, type)
  PROVE  /\ up[c] # <<>> /\ up[c] \in Seq(UpMessages) /\ Head(up[c]).type = type
         /\ Head(up[c]) \in UpOf(c) /\ Head(up[c]) \in UpMessages
         /\ s \in Servers /\ s # c
         /\ s # Root => /\ c \in Federates /\ c # Root /\ Parent[c] = s /\ s \in Leaves /\ s \in Nodes
                        /\ Below(c) = {c}
         /\ s = Root => c \in Leaves \/ (c \in Federates /\ Parent[c] = Root /\ Below(c) = {c})
<1>1. /\ up[c] # <<>> /\ Head(up[c]).type = type
      /\ s = IF c \in Leaves THEN Root ELSE Parent[c]
  BY DEF Arrived
<1>2. up[c] \in Seq(UpMessages)
  BY DEF IInv, Types
<1>3. Head(up[c]) \in UpMessages /\ Head(up[c]) = up[c][1] /\ 1 \in DOMAIN up[c]
  BY <1>1, <1>2, TailAt
<1>4. Head(up[c]) \in UpOf(c)
  BY <1>3 DEF IInv, Routed
<1>5. c \notin Leaves => c \in Federates /\ Below(c) = {c}
  BY DEF Nodes, Below
<1> QED
  BY <1>1, <1>2, <1>3, <1>4, <1>5, Tree

LEMMA FromRoot ==
  ASSUME IInv, NEW s \in Leaves, down[s] # <<>>
  PROVE  /\ down[s] \in Seq(DownMessages) /\ s \in Nodes /\ s \in Servers /\ s # Root
         /\ Head(down[s]) \in DownOf(s) /\ Head(down[s]) \in DownMessages
         /\ Below(s) = {f \in Federates : Parent[f] = s}
<1>1. s \in Nodes /\ down[s] \in Seq(DownMessages)
  BY Tree DEF IInv, Types
<1>2. Head(down[s]) \in DownMessages /\ Head(down[s]) = down[s][1] /\ 1 \in DOMAIN down[s]
  BY <1>1, TailAt
<1>3. Head(down[s]) \in DownOf(s)
  BY <1>1, <1>2 DEF IInv, Routed
<1> QED
  BY <1>1, <1>2, <1>3, Tree DEF Below

\* A step of a server: the ambassadors stay as they are.
LEMMA ServeTypes ==
  ASSUME Types, Routed, NEW pu, NEW pd, NEW U, NEW V, Shift(pu, pd, U, V), amb' = amb,
         DOMAIN srv' = Servers, \A s \in Servers : IsServer(srv'[s]),
         \A s \in Leaves : srv'[s].known \subseteq Below(s), srv'[Root].leaving = {},
         \A n \in Nodes : /\ \A i \in DOMAIN U[n] : U[n][i] \in UpOf(n)
                          /\ \A i \in DOMAIN V[n] : V[n][i] \in DownOf(n)
  PROVE  Types' /\ Routed'
<1>1. up' \in [Nodes -> Seq(UpMessages)] /\ down' \in [Nodes -> Seq(DownMessages)]
  BY ShiftTypes
<1>2. Types'
  BY <1>1 DEF Types
<1>3. Routed'
  BY ShiftRouted
<1> QED
  BY <1>2, <1>3

LEMMA AmbStays ==
  ASSUME amb' = amb, IInv
  PROVE  /\ \A f : Resigned(f)' <=> Resigned(f)
         /\ \A f, l : Said(f, l)' <=> Said(f, l)
         /\ Labelled'
BY DEF Resigned, Said, IInv, Labelled

\* A server passes on what is no announcement, answer or end of a point.
LEMMA QuietServe ==
  ASSUME IInv, NEW pu, NEW pd, NEW U, NEW V, Shift(pu, pd, U, V), amb' = amb,
         \A n \in pd : ~Tells(Head(down[n])),
         \A n \in Nodes : /\ \A i \in DOMAIN U[n] : U[n][i].type # "Achieved" /\ U[n][i] \in UpOf(n)
                          /\ \A i \in DOMAIN V[n] : ~Tells(V[n][i]) /\ V[n][i] \in DownOf(n),
         DOMAIN srv' = Servers, \A s \in Servers : IsServer(srv'[s]),
         \A s \in Leaves : srv'[s].known \subseteq Below(s), srv'[Root].leaving = {},
         \A f \in Federates : Parent[f] # Root /\ Here(f)' => Here(f),
         \A s \in Servers, l \in Labels, f \in Federates :
           /\ Awaits(s, l, f)' <=> Awaits(s, l, f)
           /\ (Has(s, l, f)' <=> Has(s, l, f)) \/ (s # Root /\ Parent[f] = s /\ ~Here(f)'),
         Membership', NotLeaving', ForAll', SuccessIsReal'
  PROVE  IInv'
<1>1. Types' /\ Routed'
  BY ServeTypes DEF IInv
<1>2. \A f \in Federates : /\ amb'[f].done = amb[f].done
                           /\ Resigned(f)' \/ (~Resigned(f) /\ amb'[f].due = amb[f].due)
                           /\ Parent[f] # Root /\ Here(f)' => Here(f)
  BY AmbStays
<1>3. \A n \in Nodes : /\ \A i \in DOMAIN U[n] : U[n][i].type # "Achieved"
                       /\ \A i \in DOMAIN V[n] : ~Tells(V[n][i])
  OBVIOUS
<1>4. Edges' /\ Links' /\ Pending' /\ Fresh' /\ Claims'
  BY <1>2, <1>3, Quiet
<1> QED
  BY <1>1, <1>4, AmbStays DEF IInv

\* The same if the servers stay as they are, and nobody joins or resigns.
LEMMA PassOn ==
  ASSUME IInv, NEW pu, NEW pd, NEW U, NEW V, Shift(pu, pd, U, V), amb' = amb, srv' = srv,
         \A n \in pd : ~Tells(Head(down[n])),
         \A n \in Nodes : /\ \A i \in DOMAIN U[n] : U[n][i].type # "Achieved" /\ U[n][i] \in UpOf(n)
                          /\ \A i \in DOMAIN V[n] : ~Tells(V[n][i]) /\ V[n][i] \in DownOf(n),
         Membership'
  PROVE  IInv'
<1>1. \A f \in Federates : Here(f)' <=> Here(f)
  BY AmbStays DEF Here
<1>2. SuccessIsReal'
  BY AmbStays, SuccessSame
<1>3. /\ DOMAIN srv' = Servers /\ \A s \in Servers : IsServer(srv'[s])
      /\ \A s \in Leaves : srv'[s].known \subseteq Below(s)
      /\ srv'[Root].leaving = {}
      /\ NotLeaving' /\ ForAll'
      /\ \A s, l, f : /\ Awaits(s, l, f)' <=> Awaits(s, l, f)
                      /\ Has(s, l, f)' <=> Has(s, l, f)
  BY ServersStay
<1> QED
  BY <1>1, <1>2, <1>3, QuietServe

LEMMA LeafPasses ==
  ASSUME IInv, NEW s, NEW c \in Nodes, NEW type, type \in {"Join", "Register"},
         s # Root, Arrived(s, c, type), FromChild(s, c, <<Head(up[c])>>, NoMessages), srv' = srv
  PROVE  IInv'
<1>0. Types /\ Membership
  BY DEF IInv
<1>1. /\ up[c] # <<>> /\ up[c] \in Seq(UpMessages) /\ Head(up[c]).type = type
      /\ Head(up[c]) \in UpOf(c) /\ Head(up[c]) \in UpMessages /\ s \in Servers /\ s # c
      /\ c \in Federates /\ c # Root /\ Parent[c] = s /\ s \in Leaves /\ s \in Nodes
      /\ Below(c) = {c}
  BY ArrivedAt
<1>2. PICK m, v, U, V, pu : /\ m = Head(up[c]) /\ v = <<m>> /\ pu = {c}
                            /\ U = UpOnly(s, v) /\ V = Given(NoMessages)
  OBVIOUS
<1>3. v \in Seq(UpMessages) /\ DOMAIN v = {1} /\ v[1] = m /\ \A X : Some(v, X) <=> m \in X
  BY <1>1, <1>2, OneOf
<1>4. Shift(pu, {}, U, V)
  <2>1. \A n \in DOMAIN NoMessages : NoMessages[n] \in Seq(DownMessages)
    BY DEF NoMessages
  <2> QED
    BY <1>0, <1>1, <1>2, <1>3, <2>1, FromChildShift
<1>5. \A n \in Nodes : /\ n = s => U[n] = v
                       /\ n # s => DOMAIN U[n] = {} /\ \A X : ~Some(U[n], X)
                       /\ DOMAIN V[n] = {} /\ \A X : ~Some(V[n], X)
  BY <1>2, UpOnlyAt, GivenNone
<1>6. m.fed = c /\ m \in UpOf(s) /\ m.type # "Achieved" /\ m \notin ResignOf(c)
      /\ \A g : g # c => m \notin JoinOf(g) /\ m \notin ResignOf(g)
  BY <1>1, <1>2 DEF UpOf, Below, ResignOf, JoinOf
<1>7. ASSUME NEW g \in Federates, g # c \/ m \notin JoinOf(g) PROVE Member(g)'
  <2>1. Member(g) /\ amb'[g].member = amb[g].member
    BY <1>0 DEF Membership, FromChild
  <2>2. m \notin JoinOf(g) /\ m \notin ResignOf(g)
    BY <1>6, <1>7
  <2>3. \A n \in {g, Parent[g]} \ {Root} :
           /\ n \in pu => Head(up[n]) \notin JoinOf(g)
           /\ n \in {} => Head(down[n]) \notin JoinedOf(g)
           /\ ~Some(U[n], JoinOf(g)) /\ ~Some(U[n], ResignOf(g))
           /\ ~Some(V[n], JoinedOf(g)) /\ ~Some(V[n], ResignedOf(g))
    <3> SUFFICES ASSUME NEW n \in {g, Parent[g]} \ {Root}
                 PROVE  /\ n \in Nodes
                        /\ n \in pu => Head(up[n]) \notin JoinOf(g)
                        /\ ~Some(U[n], JoinOf(g)) /\ ~Some(U[n], ResignOf(g))
      BY <1>5
    <3>1. n \in Nodes
      BY Tree
    <3> QED
      BY <1>2, <1>3, <1>5, <2>2, <3>1
  <2> QED
    BY <1>0, <1>4, <2>1, <2>3, ShiftMember
<1>8. ASSUME m \in JoinOf(c) PROVE Member(c)'
  <2>1. MemberOK(c, amb[c].member, c \in srv[Root].known, c \in srv[s].known,
                 c \in srv[s].leaving, up[c], down[c], up[s], down[s])
    BY <1>0, <1>1, MemberNow DEF Membership, UpAbove, DownAbove
  <2>2. up[s] \in Seq(UpMessages)
    BY <1>0, <1>1 DEF Types
  <2>3. Single(v, JoinOf(c)) /\ Some(v, JoinOf(c)) /\ ~Some(v, ResignOf(c))
    BY <1>3, <1>6, <1>8 DEF Single
  <2>4. MemberOK(c, amb[c].member, c \in srv[Root].known, c \in srv[s].known,
                 c \in srv[s].leaving, Tail(up[c]), down[c], up[s] \o v, down[s])
    BY <1>1, <1>2, <1>3, <1>8, <2>1, <2>2, <2>3, MemberJoinUp
  <2>5. up'[c] = Tail(up[c]) /\ up'[s] = up[s] \o v /\ down'[c] = down[c] /\ down'[s] = down[s] /\ amb' = amb
    BY <1>1, <1>2 DEF FromChild, NoMessages
  <2> QED
    BY <1>1, <2>4, <2>5 DEF Member, UpAbove, DownAbove
<1>9. Membership'
  BY <1>7, <1>8 DEF Membership
<1>10. \A n \in Nodes : /\ \A i \in DOMAIN U[n] : U[n][i].type # "Achieved" /\ U[n][i] \in UpOf(n)
                        /\ \A i \in DOMAIN V[n] : ~Tells(V[n][i]) /\ V[n][i] \in DownOf(n)
  BY <1>3, <1>5, <1>6
<1>11. amb' = amb /\ \A n \in {} : ~Tells(Head(down[n]))
  BY DEF FromChild
<1> QED
  BY <1>4, <1>9, <1>10, <1>11, PassOn

LEMMA ServeLeafJoin ==
  ASSUME IInv, NEW s, NEW c \in Nodes, LeafServeJoin(s, c) \/ LeafServeRegister(s, c)
  PROVE  IInv'
BY LeafPasses DEF LeafServeJoin, LeafServeRegister

LEMMA PointType ==
  ASSUME NEW F, NEW p
  PROVE  p \in PointsOf(F) <=>
           /\ p = [waiting |-> p.waiting, achieved |-> p.achieved, auto |-> p.auto]
           /\ p.waiting \subseteq F /\ DOMAIN p.achieved \subseteq F
           /\ p.achieved \in [DOMAIN p.achieved -> BOOLEAN] /\ p.auto \in BOOLEAN
<1>1. PICK A, W, b : A = p.achieved /\ W = p.waiting /\ b = p.auto
  OBVIOUS
<1>2. A \in UNION {[D -> BOOLEAN] : D \in SUBSET F}
      <=> DOMAIN A \subseteq F /\ A \in [DOMAIN A -> BOOLEAN]
  OBVIOUS
<1>3. p \in PointsOf(F) <=>
        /\ p = [waiting |-> W, achieved |-> A, auto |-> b]
        /\ W \in SUBSET F /\ A \in UNION {[D -> BOOLEAN] : D \in SUBSET F} /\ b \in BOOLEAN
  BY <1>1 DEF PointsOf
<1> QED
  BY <1>1, <1>2, <1>3

LEMMA PointsGrow ==
  ASSUME NEW P, NEW F, NEW G, IsPoints(P, F), F \subseteq G
  PROVE  IsPoints(P, G)
<1>1. ASSUME NEW p, p \in PointsOf(F) PROVE p \in PointsOf(G)
  BY <1>1, PointType
<1> QED
  BY <1>1 DEF IsPoints

\* What erase makes of points
LEMMA Erased ==
  ASSUME NEW P, NEW F, NEW f, IsPoints(P, F)
  PROVE  /\ IsPoints(erase(P, f), F \ {f}) /\ DOMAIN erase(P, f) = DOMAIN P
         /\ \A l \in DOMAIN P :
              /\ erase(P, f)[l].waiting = P[l].waiting \ {f}
              /\ DOMAIN erase(P, f)[l].achieved = DOMAIN P[l].achieved \ {f}
              /\ \A g \in DOMAIN P[l].achieved \ {f} :
                   erase(P, f)[l].achieved[g] = P[l].achieved[g]
              /\ erase(P, f)[l].auto = P[l].auto
<1>1. PICK Q : Q = erase(P, f)
  OBVIOUS
<1>2. DOMAIN Q = DOMAIN P
  BY <1>1 DEF erase
<1>3. ASSUME NEW l \in DOMAIN P
      PROVE  /\ Q[l].waiting = P[l].waiting \ {f}
             /\ DOMAIN Q[l].achieved = DOMAIN P[l].achieved \ {f}
             /\ \A g \in DOMAIN P[l].achieved \ {f} : Q[l].achieved[g] = P[l].achieved[g]
             /\ Q[l].auto = P[l].auto
             /\ Q[l] \in PointsOf(F \ {f}) /\ Q[l].waiting \cap DOMAIN Q[l].achieved = {}
  <2>1. PICK p, W, A, b : p = P[l] /\ W = p.waiting /\ A = p.achieved /\ b = p.auto
    OBVIOUS
  <2>2. p \in PointsOf(F) /\ W \cap DOMAIN A = {}
    BY <2>1 DEF IsPoints
  <2>3. /\ p = [waiting |-> W, achieved |-> A, auto |-> b]
        /\ W \subseteq F /\ DOMAIN A \subseteq F /\ A \in [DOMAIN A -> BOOLEAN] /\ b \in BOOLEAN
    BY <2>1, <2>2, PointType
  <2>4. PICK B : B = [g \in DOMAIN A \ {f} |-> A[g]]
    OBVIOUS
  <2>5. Q[l] = [p EXCEPT !.waiting = W \ {f}, !.achieved = B]
    BY <1>1, <2>1, <2>4 DEF erase
  <2>6. Q[l] = [waiting |-> W \ {f}, achieved |-> B, auto |-> b]
    BY <2>3, <2>5
  <2>7. DOMAIN B = DOMAIN A \ {f} /\ (\A g \in DOMAIN A \ {f} : B[g] = A[g]) /\ B \in [DOMAIN B -> BOOLEAN]
    BY <2>3, <2>4
  <2>8. Q[l].waiting = W \ {f} /\ Q[l].achieved = B /\ Q[l].auto = b
        /\ Q[l] = [waiting |-> Q[l].waiting, achieved |-> Q[l].achieved, auto |-> Q[l].auto]
    BY <2>6
  <2>9. Q[l] \in PointsOf(F \ {f})
    BY <2>3, <2>7, <2>8, PointType
  <2> QED
    BY <2>1, <2>2, <2>7, <2>8, <2>9
<1>4. IsPoints(Q, F \ {f})
  BY <1>2, <1>3 DEF IsPoints
<1> QED
  BY <1>1, <1>2, <1>3, <1>4

\* The children of a server, and whom it reaches through them
LEMMA ChildrenOf ==
  ASSUME NEW s \in Servers
  PROVE  /\ Children(s) \subseteq Nodes /\ s \notin Children(s)
         /\ s # Root => Children(s) \subseteq Federates
         /\ \A f \in Federates :
              /\ f \in Children(s) <=> f \in srv[s].known \ srv[s].leaving /\ Parent[f] = s
              /\ \A n : f \in Reached(s, n) <=> f \in srv[s].known \ srv[s].leaving /\ n = Toward(s, f)
         /\ Leaves \subseteq Children(Root)
<1>1. \A f \in Federates : \A n : f \in Reached(s, n) <=> f \in srv[s].known \ srv[s].leaving /\ n = Toward(s, f)
  BY DEF Reached
<1>2. \A f \in Federates : Toward(s, f) = f <=> Parent[f] = s
  BY Tree DEF Toward
<1>3. Children(s) = (IF s = Root THEN Leaves ELSE {}) \cup {f \in Federates : f \in Reached(s, f)}
  BY DEF Children
<1>4. Leaves \subseteq Children(Root)
  BY DEF Children
<1> QED
  BY <1>1, <1>2, <1>3, <1>4, Tree

LEMMA ServeResponse ==
  ASSUME IInv, NEW s \in Leaves, LeafServeResponse(s)
  PROVE  IInv'
<1>0. Types /\ Membership
  BY DEF IInv
<1>1. PICK m, t : m = Head(down[s]) /\ t = [n \in {m.fed} \cap Children(s) |-> <<m>>]
  OBVIOUS
<1>2. down[s] # <<>> /\ m.type = "Response" /\ FromParent(s, t) /\ srv' = srv
  BY <1>1 DEF LeafServeResponse
<1>3. s \in Nodes /\ s \in Servers /\ s # Root /\ m \in DownMessages
  BY <1>1, <1>2, FromRoot
<1>4. DOMAIN t \subseteq Federates /\ s \notin DOMAIN t /\ \A n \in DOMAIN t : t[n] = <<m>>
  BY <1>1, <1>3, ChildrenOf
<1>5. PICK U, V, pd : U = Given(NoMessages) /\ V = Given(t) /\ pd = {s}
  OBVIOUS
<1>6. <<m>> \in Seq(DownMessages) /\ DOMAIN <<m>> = {1} /\ <<m>>[1] = m /\ \A X : Some(<<m>>, X) <=> m \in X
  BY <1>3, OneOf
<1>7. Shift({}, pd, U, V)
  <2>1. \A n \in DOMAIN t : t[n] \in Seq(DownMessages)
    BY <1>4, <1>6
  <2> QED
    BY <1>0, <1>2, <1>4, <1>5, <2>1, FromParentShift
<1>8. \A n \in Nodes : /\ n \in DOMAIN t => V[n] = <<m>>
                       /\ n \notin DOMAIN t => DOMAIN V[n] = {} /\ \A X : ~Some(V[n], X)
                       /\ DOMAIN U[n] = {} /\ \A X : ~Some(U[n], X)
  <2> SUFFICES ASSUME NEW n \in Nodes
               PROVE  /\ n \in DOMAIN t => V[n] = <<m>>
                      /\ n \notin DOMAIN t => DOMAIN V[n] = {} /\ \A X : ~Some(V[n], X)
    BY <1>5, GivenNone
  <2> QED
    BY <1>4, <1>5, GivenAt
<1>9. /\ \A g : m \notin JoinedOf(g) /\ m \notin ResignedOf(g)
      /\ \A n : m \in DownOf(n)
      /\ ~Tells(m)
  BY <1>2, <1>3 DEF JoinedOf, ResignedOf, DownOf, Tells
<1>10. Membership'
  <2> SUFFICES ASSUME NEW g \in Federates PROVE Member(g)'
    BY DEF Membership
  <2>1. Member(g) /\ amb'[g].member = amb[g].member
    BY <1>0, <1>2 DEF Membership, FromParent
  <2>2. \A n \in {g, Parent[g]} \ {Root} :
           /\ n \in {} => Head(up[n]) \notin JoinOf(g)
           /\ n \in pd => Head(down[n]) \notin JoinedOf(g)
           /\ ~Some(U[n], JoinOf(g)) /\ ~Some(U[n], ResignOf(g))
           /\ ~Some(V[n], JoinedOf(g)) /\ ~Some(V[n], ResignedOf(g))
    <3> SUFFICES ASSUME NEW n \in {g, Parent[g]} \ {Root}
                 PROVE  /\ n \in Nodes
                        /\ n \in pd => Head(down[n]) \notin JoinedOf(g)
                        /\ ~Some(V[n], JoinedOf(g)) /\ ~Some(V[n], ResignedOf(g))
      BY <1>8
    <3>1. n \in Nodes
      BY Tree
    <3> QED
      BY <1>1, <1>5, <1>6, <1>8, <1>9, <3>1
  <2> QED
    BY <1>0, <1>2, <1>7, <2>1, <2>2, ShiftMember
<1>11. \A n \in Nodes : /\ \A i \in DOMAIN U[n] : U[n][i].type # "Achieved" /\ U[n][i] \in UpOf(n)
                        /\ \A i \in DOMAIN V[n] : ~Tells(V[n][i]) /\ V[n][i] \in DownOf(n)
  BY <1>6, <1>8, <1>9
<1>12. amb' = amb /\ \A n \in pd : ~Tells(Head(down[n]))
  BY <1>1, <1>2, <1>5, <1>9 DEF FromParent
<1> QED
  BY <1>2, <1>7, <1>10, <1>11, <1>12, PassOn

LEMMA ServeJoinResponse ==
  ASSUME IInv, NEW s \in Leaves, LeafServeJoinResponse(s)
  PROVE  IInv'
<1>0. Types /\ Routed /\ Membership /\ NotLeaving /\ ForAll /\ SuccessIsReal
  BY DEF IInv
<1>1. PICK m, f, r, t : /\ m = Head(down[s]) /\ f = m.fed /\ r = JoinResponse(f) /\ t = One(f, <<r>>)
  OBVIOUS
<1>2. /\ down[s] # <<>> /\ m.type = "JoinResponse" /\ FromParent(s, t)
      /\ srv' = [srv EXCEPT ![s].known = @ \cup {f}]
  BY <1>1 DEF LeafServeJoinResponse
<1>3. /\ down[s] \in Seq(DownMessages) /\ s \in Nodes /\ s \in Servers /\ s # Root
      /\ m \in DownMessages /\ m \in DownOf(s) /\ Below(s) = {g \in Federates : Parent[g] = s}
  BY <1>1, <1>2, FromRoot
<1>4. f \in Federates /\ Parent[f] = s /\ f \in Nodes /\ f # s /\ f \notin Leaves /\ m \in JoinedOf(f)
      /\ \A g : g # f => m \notin JoinedOf(g)
  BY <1>1, <1>2, <1>3, Tree DEF DownOf, JoinedOf
<1>5. /\ r.type = "JoinResponse" /\ r.fed = f /\ r \in DownMessages /\ r \in DownOf(f)
      /\ \A g : r \in JoinedOf(g) <=> g = f
      /\ \A g : r \notin ResignedOf(g)
  <2>1. r \in [type : {"JoinResponse", "ResignNotify"}, fed : Federates] /\ r.type = "JoinResponse" /\ r.fed = f
    BY <1>1, <1>4 DEF JoinResponse
  <2>2. Below(f) = {f}
    BY <1>4 DEF Below
  <2> QED
    BY <2>1, <2>2 DEF DownMessages, DownOf, JoinedOf, ResignedOf
<1>6. <<r>> \in Seq(DownMessages) /\ DOMAIN <<r>> = {1} /\ <<r>>[1] = r /\ \A X : Some(<<r>>, X) <=> r \in X
  BY <1>5, OneOf
<1>7. DOMAIN t = {f} /\ t[f] = <<r>>
  BY <1>1, OneAt
<1>8. PICK U, V, pd : U = Given(NoMessages) /\ V = Given(t) /\ pd = {s}
  OBVIOUS
<1>9. Shift({}, pd, U, V)
  <2>1. s \notin DOMAIN t /\ \A n \in DOMAIN t : t[n] \in Seq(DownMessages)
    BY <1>4, <1>6, <1>7
  <2> QED
    BY <1>0, <1>2, <1>8, <2>1, FromParentShift
<1>10. \A n \in Nodes : /\ n = f => V[n] = <<r>>
                        /\ n # f => DOMAIN V[n] = {} /\ \A X : ~Some(V[n], X)
                        /\ DOMAIN U[n] = {} /\ \A X : ~Some(U[n], X)
  <2> SUFFICES ASSUME NEW n \in Nodes
               PROVE  /\ n = f => V[n] = <<r>>
                      /\ n # f => DOMAIN V[n] = {} /\ \A X : ~Some(V[n], X)
    BY <1>8, GivenNone
  <2> QED
    BY <1>7, <1>8, GivenAt
\* The servers
<1>11. /\ DOMAIN srv' = Servers /\ \A x \in Servers : x # s => srv'[x] = srv[x]
       /\ srv'[s].known = srv[s].known \cup {f} /\ srv'[s].leaving = srv[s].leaving
       /\ srv'[s].points = srv[s].points
       /\ srv'[s] = [known |-> srv'[s].known, leaving |-> srv'[s].leaving, points |-> srv'[s].points]
  BY <1>0, <1>2, <1>3 DEF Types, IsServer
<1>12. IsServer(srv'[s]) /\ srv'[s].known \subseteq Below(s)
  <2>1. /\ srv[s].known \subseteq Federates /\ srv[s].leaving \subseteq srv[s].known
        /\ IsPoints(srv[s].points, srv[s].known)
    BY <1>0, <1>3 DEF Types, IsServer
  <2>2. IsPoints(srv'[s].points, srv'[s].known)
    BY <1>11, <2>1, PointsGrow
  <2>3. srv[s].known \subseteq Below(s)
    BY <1>0 DEF Routed
  <2> QED
    BY <1>3, <1>4, <1>11, <2>1, <2>2, <2>3 DEF IsServer
<1>13. \A x \in Servers : \A l, g :
         /\ Awaits(x, l, g)' <=> Awaits(x, l, g)
         /\ Has(x, l, g)' <=> Has(x, l, g)
  BY <1>11 DEF Awaits, Has
<1>14. MemberOK(f, amb[f].member, f \in srv[Root].known, f \in srv[s].known, f \in srv[s].leaving,
                up[f], down[f], up[s], down[s])
  BY <1>0, <1>3, <1>4, MemberNow DEF Membership, UpAbove, DownAbove
<1>15. amb' = amb /\ up' = up
  BY <1>2 DEF FromParent
<1>16. Member(f)'
  <2>1. down[f] \in Seq(DownMessages)
    BY <1>0, <1>4 DEF Types
  <2>2. Some(<<r>>, JoinedOf(f)) /\ Single(<<r>>, JoinedOf(f))
    BY <1>5, <1>6 DEF Single
  <2>3. MemberOK(f, amb[f].member, f \in srv[Root].known, TRUE, f \in srv[s].leaving,
                 up[f], down[f] \o <<r>>, up[s], Tail(down[s]))
    BY <1>1, <1>2, <1>3, <1>4, <1>6, <1>14, <2>1, <2>2, MemberJoinDown
  <2>4. down'[f] = down[f] \o <<r>> /\ down'[s] = Tail(down[s])
    BY <1>2, <1>3, <1>4, <1>7 DEF FromParent
  <2>5. f \in srv'[s].known
    BY <1>11
  <2>6. TRUE = (f \in srv'[s].known) /\ srv'[Root] = srv[Root]
    BY <1>3, <1>11, <2>5, Tree
  <2> QED
    BY <1>3, <1>4, <1>11, <1>15, <2>3, <2>4, <2>6 DEF Member, UpAbove, DownAbove
<1>17. Membership'
  <2> SUFFICES ASSUME NEW g \in Federates, g # f PROVE Member(g)'
    BY <1>16 DEF Membership
  <2>1. Member(g) /\ amb'[g].member = amb[g].member
    BY <1>0, <1>15 DEF Membership
  <2>2. /\ g \in srv'[Root].known <=> g \in srv[Root].known
        /\ g \in srv'[Parent[g]].known <=> g \in srv[Parent[g]].known
        /\ g \in srv'[Parent[g]].leaving <=> g \in srv[Parent[g]].leaving
    BY <1>11, Tree
  <2>3. \A n \in {g, Parent[g]} \ {Root} :
           /\ n \in {} => Head(up[n]) \notin JoinOf(g)
           /\ n \in pd => Head(down[n]) \notin JoinedOf(g)
           /\ ~Some(U[n], JoinOf(g)) /\ ~Some(U[n], ResignOf(g))
           /\ ~Some(V[n], JoinedOf(g)) /\ ~Some(V[n], ResignedOf(g))
    <3> SUFFICES ASSUME NEW n \in {g, Parent[g]} \ {Root}
                 PROVE  /\ n \in Nodes
                        /\ n \in pd => Head(down[n]) \notin JoinedOf(g)
                        /\ ~Some(V[n], JoinedOf(g)) /\ ~Some(V[n], ResignedOf(g))
      BY <1>10
    <3>1. n \in Nodes
      BY Tree
    <3> QED
      BY <1>1, <1>4, <1>5, <1>6, <1>8, <1>10, <3>1
  <2> QED
    BY <1>0, <1>9, <2>1, <2>2, <2>3, ShiftMember
<1>18. NotLeaving'
  BY <1>0, <1>3, <1>11, <1>13, Tree DEF NotLeaving
<1>19. ForAll' /\ srv'[Root].leaving = {} /\ \A x \in Leaves : srv'[x].known \subseteq Below(x)
  <2>1. srv'[Root] = srv[Root]
    BY <1>3, <1>11, Tree
  <2> QED
    BY <1>0, <1>11, <1>12, <2>1, Tree DEF ForAll, Routed, Of
<1>20. SuccessIsReal'
  <2>1. \A x \in Servers : srv'[x].points = srv[x].points
    BY <1>11
  <2> QED
    BY <1>0, <1>15, <2>1 DEF SuccessIsReal
<1>21. \A n \in Nodes : /\ \A i \in DOMAIN U[n] : U[n][i].type # "Achieved" /\ U[n][i] \in UpOf(n)
                        /\ \A i \in DOMAIN V[n] : ~Tells(V[n][i]) /\ V[n][i] \in DownOf(n)
  BY <1>5, <1>6, <1>10 DEF Tells
<1>22. \A n \in pd : ~Tells(Head(down[n]))
  BY <1>1, <1>2, <1>8 DEF Tells
<1>23. \A g \in Federates : Parent[g] # Root /\ Here(g)' => Here(g)
  <2> SUFFICES ASSUME NEW g \in Federates, Here(g)' PROVE Here(g)
    OBVIOUS
  <2>1. CASE g = f
    <3>1. amb[f].member = "joining"
      <4>1. Some(down[s], JoinedOf(f))
        BY <1>1, <1>2, <1>3, <1>4, SomeTail
      <4> QED
        BY <1>14, <4>1 DEF MemberOK
    <3> QED
      BY <2>1, <3>1 DEF Here, Resigned
  <2>2. CASE g # f
    BY <1>11, <1>15, <2>2, Tree DEF Here, Resigned
  <2> QED
    BY <2>1, <2>2
<1>24. \A x \in Servers : IsServer(srv'[x])
  BY <1>0, <1>11, <1>12 DEF Types
<1> QED
  BY <1>9, <1>11, <1>13, <1>15, <1>17, <1>18, <1>19, <1>20, <1>21, <1>22, <1>23, <1>24, QuietServe

LEMMA ServeResignNotify ==
  ASSUME IInv, NEW s \in Leaves, LeafServeResignNotify(s)
  PROVE  IInv'
<1>0. Types /\ Routed /\ Membership /\ NotLeaving /\ ForAll /\ SuccessIsReal
  BY DEF IInv
<1>1. PICK m, f : m = Head(down[s]) /\ f = m.fed
  OBVIOUS
<1>2. /\ down[s] # <<>> /\ m.type = "ResignNotify" /\ FromParent(s, NoMessages) /\ f \in srv[s].known
      /\ srv' = [srv EXCEPT ![s].known = @ \ {f}, ![s].leaving = @ \ {f}, ![s].points = erase(@, f)]
  BY <1>1 DEF LeafServeResignNotify
<1>3. /\ down[s] \in Seq(DownMessages) /\ s \in Nodes /\ s \in Servers /\ s # Root
      /\ m \in DownMessages /\ m \in DownOf(s) /\ Below(s) = {g \in Federates : Parent[g] = s}
  BY <1>1, <1>2, FromRoot
<1>4. f \in Federates /\ Parent[f] = s /\ f \in Nodes /\ f # s /\ m \in ResignedOf(f)
      /\ \A g : m \notin JoinedOf(g)
  BY <1>1, <1>2, <1>3, Tree DEF DownOf, JoinedOf, ResignedOf
<1>5. PICK U, pd : U = Given(NoMessages) /\ pd = {s}
  OBVIOUS
<1>6. Shift({}, pd, U, U)
  <2>1. s \notin DOMAIN NoMessages /\ \A n \in DOMAIN NoMessages : NoMessages[n] \in Seq(DownMessages)
    BY DEF NoMessages
  <2> QED
    BY <1>0, <1>2, <1>5, <2>1, FromParentShift
<1>7. \A n \in Nodes : DOMAIN U[n] = {} /\ \A X : ~Some(U[n], X)
  BY <1>5, GivenNone
<1>8. /\ srv[s].known \subseteq Federates /\ srv[s].leaving \subseteq srv[s].known
      /\ IsPoints(srv[s].points, srv[s].known) /\ srv[s].known \subseteq Below(s)
      /\ DOMAIN srv = Servers
      /\ srv[s] = [known |-> srv[s].known, leaving |-> srv[s].leaving, points |-> srv[s].points]
  BY <1>0, <1>3 DEF Types, IsServer, Routed
<1>9. /\ DOMAIN srv' = Servers /\ \A x \in Servers : x # s => srv'[x] = srv[x]
      /\ srv'[s].known = srv[s].known \ {f} /\ srv'[s].leaving = srv[s].leaving \ {f}
      /\ srv'[s].points = erase(srv[s].points, f)
      /\ srv'[s] = [known |-> srv'[s].known, leaving |-> srv'[s].leaving, points |-> srv'[s].points]
  BY <1>2, <1>3, <1>8
<1>10. PICK P, Q : P = srv[s].points /\ Q = srv'[s].points
  OBVIOUS
<1>11. /\ IsPoints(Q, srv'[s].known) /\ DOMAIN Q = DOMAIN P
       /\ \A l \in DOMAIN P :
            /\ Q[l].waiting = P[l].waiting \ {f}
            /\ DOMAIN Q[l].achieved = DOMAIN P[l].achieved \ {f}
            /\ \A g \in DOMAIN P[l].achieved \ {f} : Q[l].achieved[g] = P[l].achieved[g]
  <2>1. PICK F : F = srv[s].known
    OBVIOUS
  <2>2. IsPoints(P, F) /\ Q = erase(P, f) /\ srv'[s].known = F \ {f}
    BY <1>8, <1>9, <1>10, <2>1
  <2>3. /\ IsPoints(erase(P, f), F \ {f}) /\ DOMAIN erase(P, f) = DOMAIN P
        /\ \A l \in DOMAIN P :
             /\ erase(P, f)[l].waiting = P[l].waiting \ {f}
             /\ DOMAIN erase(P, f)[l].achieved = DOMAIN P[l].achieved \ {f}
             /\ \A g \in DOMAIN P[l].achieved \ {f} :
                  erase(P, f)[l].achieved[g] = P[l].achieved[g]
    BY <2>2, Erased
  <2> QED
    BY <2>2, <2>3
<1>12. IsServer(srv'[s]) /\ srv'[s].known \subseteq Below(s)
  BY <1>8, <1>9, <1>10, <1>11 DEF IsServer
<1>13. MemberOK(f, amb[f].member, f \in srv[Root].known, f \in srv[s].known, f \in srv[s].leaving,
                up[f], down[f], up[s], down[s])
  BY <1>0, <1>3, <1>4, MemberNow DEF Membership, UpAbove, DownAbove
<1>14. Resigned(f) /\ f \in srv[s].leaving
  <2>1. Some(down[s], ResignedOf(f))
    BY <1>1, <1>2, <1>3, <1>4, SomeTail
  <2> QED
    BY <1>2, <1>13, <2>1 DEF MemberOK, Resigned
<1>15. amb' = amb /\ up' = up
  BY <1>2 DEF FromParent
<1>16. \A x \in Servers, l \in Labels, g \in Federates :
         /\ Awaits(x, l, g)' <=> Awaits(x, l, g)
         /\ (Has(x, l, g)' <=> Has(x, l, g)) \/ (x # Root /\ Parent[g] = x /\ ~Here(g)')
  <2> SUFFICES ASSUME NEW x \in Servers, NEW l \in Labels, NEW g \in Federates
               PROVE  /\ Awaits(x, l, g)' <=> Awaits(x, l, g)
                      /\ (Has(x, l, g)' <=> Has(x, l, g)) \/ (x # Root /\ Parent[g] = x /\ ~Here(g)')
    OBVIOUS
  <2>1. CASE x # s
    BY <1>9, <2>1 DEF Awaits, Has
  <2>2. CASE x = s /\ g # f
    BY <1>9, <1>10, <1>11, <2>2 DEF Awaits, Has
  <2>3. CASE x = s /\ g = f
    <3>1. ~Awaits(s, l, f)
      BY <1>0, <1>14 DEF NotLeaving
    <3>2. ~Awaits(s, l, f)'
      BY <1>10, <1>11 DEF Awaits
    <3>3. ~Here(f)'
      BY <1>4, <1>9, <1>14, <1>15 DEF Here, Resigned
    <3> QED
      BY <1>3, <1>4, <2>3, <3>1, <3>2, <3>3
  <2> QED
    BY <2>1, <2>2, <2>3
<1>17. Member(f)'
  <2>1. MemberOK(f, amb[f].member, f \in srv[Root].known, FALSE, FALSE,
                 up[f], down[f], up[s], Tail(down[s]))
    BY <1>1, <1>2, <1>3, <1>4, <1>13, MemberGone
  <2>2. down'[f] = down[f] /\ down'[s] = Tail(down[s])
    BY <1>2, <1>3, <1>4 DEF FromParent, NoMessages
  <2>3. f \notin srv'[s].known /\ f \notin srv'[s].leaving
    BY <1>9
  <2>4. FALSE = (f \in srv'[s].known) /\ FALSE = (f \in srv'[s].leaving) /\ srv'[Root] = srv[Root]
    BY <1>3, <1>9, <2>3, Tree
  <2> QED
    BY <1>3, <1>4, <1>15, <2>1, <2>2, <2>4 DEF Member, UpAbove, DownAbove
<1>18. Membership'
  <2> SUFFICES ASSUME NEW g \in Federates, g # f PROVE Member(g)'
    BY <1>17 DEF Membership
  <2>1. Member(g) /\ amb'[g].member = amb[g].member
    BY <1>0, <1>15 DEF Membership
  <2>2. /\ g \in srv'[Root].known <=> g \in srv[Root].known
        /\ g \in srv'[Parent[g]].known <=> g \in srv[Parent[g]].known
        /\ g \in srv'[Parent[g]].leaving <=> g \in srv[Parent[g]].leaving
    BY <1>9, Tree
  <2>3. \A n \in {g, Parent[g]} \ {Root} :
           /\ n \in {} => Head(up[n]) \notin JoinOf(g)
           /\ n \in pd => Head(down[n]) \notin JoinedOf(g)
           /\ ~Some(U[n], JoinOf(g)) /\ ~Some(U[n], ResignOf(g))
           /\ ~Some(U[n], JoinedOf(g)) /\ ~Some(U[n], ResignedOf(g))
    <3> SUFFICES ASSUME NEW n \in {g, Parent[g]} \ {Root}
                 PROVE  n \in Nodes /\ (n \in pd => Head(down[n]) \notin JoinedOf(g))
      BY <1>7
    <3> QED
      BY <1>1, <1>4, <1>5, Tree
  <2> QED
    BY <1>0, <1>6, <2>1, <2>2, <2>3, ShiftMember
<1>19. NotLeaving'
  <2>1. \A x \in Leaves : srv'[x].leaving \subseteq srv[x].leaving /\ srv[x].leaving \subseteq Federates
    BY <1>0, <1>9, Tree DEF Types, IsServer
  <2> QED
    BY <1>0, <1>16, <2>1, Tree DEF NotLeaving
<1>20. ForAll' /\ srv'[Root].leaving = {} /\ \A x \in Leaves : srv'[x].known \subseteq Below(x)
  <2>1. srv'[Root] = srv[Root]
    BY <1>3, <1>9, Tree
  <2> QED
    BY <1>0, <1>9, <1>12, <2>1, Tree DEF ForAll, Routed, Of
<1>21. SuccessIsReal'
  <2> SUFFICES ASSUME NEW x \in Servers, NEW l \in DOMAIN srv'[x].points,
                      NEW g \in DOMAIN srv'[x].points[l].achieved, srv'[x].points[l].achieved[g]
               PROVE  l \in DOMAIN amb'[g].done /\ amb'[g].done[l]
    BY DEF SuccessIsReal
  <2>1. /\ l \in DOMAIN srv[x].points /\ g \in DOMAIN srv[x].points[l].achieved
        /\ srv[x].points[l].achieved[g]
    <3>1. CASE x # s
      BY <1>9, <3>1
    <3>2. CASE x = s
      BY <1>9, <1>10, <1>11, <3>2
    <3> QED
      BY <3>1, <3>2
  <2> QED
    BY <1>0, <1>15, <2>1 DEF SuccessIsReal
<1>22. \A n \in Nodes : /\ \A i \in DOMAIN U[n] : U[n][i].type # "Achieved" /\ U[n][i] \in UpOf(n)
                        /\ \A i \in DOMAIN U[n] : ~Tells(U[n][i]) /\ U[n][i] \in DownOf(n)
  BY <1>7
<1>23. \A n \in pd : ~Tells(Head(down[n]))
  BY <1>1, <1>2, <1>5 DEF Tells
<1>24. \A g \in Federates : Parent[g] # Root /\ Here(g)' => Here(g)
  <2> SUFFICES ASSUME NEW g \in Federates, Here(g)' PROVE Here(g)
    OBVIOUS
  <2>1. CASE g = f
    BY <1>4, <1>9, <1>14, <1>15, <2>1 DEF Here, Resigned
  <2>2. CASE g # f
    BY <1>9, <1>15, <2>2, Tree DEF Here, Resigned
  <2> QED
    BY <2>1, <2>2
<1>25. \A x \in Servers : IsServer(srv'[x])
  BY <1>0, <1>9, <1>12 DEF Types
<1> QED
  BY <1>6, <1>9, <1>15, <1>16, <1>18, <1>19, <1>20, <1>21, <1>22, <1>23, <1>24, <1>25, QuietServe

-----------------------------------------------------------------------------
(* The steps of the root *)

\* The federates for which the invariant relates the root with the level below
Active(g) == IF Parent[g] = Root THEN ~Resigned(g) ELSE Here(g)

\* The step keeps the relation of the root with the level below, whatever the state of that.
Kept(g, l) ==
  \A own, w, a :
    (own <=> Parent[g] = Root)
    /\ LinkOK(g, l, own, w, a, Awaits(Root, l, g), Has(Root, l, g),
              up[Toward(Root, g)], down[Toward(Root, g)])
    => LinkOK(g, l, own, w, a, Awaits(Root, l, g)', Has(Root, l, g)',
              up'[Toward(Root, g)], down'[Toward(Root, g)])

\* The root takes a message of c; it goes on waiting for those of whom that is no answer.
KeepsWaiting(c) ==
  \A l \in Labels, g \in Federates : Awaits(Root, l, g) =>
    Awaits(Root, l, g)' \/ (c = Toward(Root, g) /\ Head(up[c]) \in By(g, l) \cup ResignOf(g))

LEMMA TowardRoot ==
  ASSUME NEW g \in Federates
  PROVE  /\ Toward(Root, g) = (IF Parent[g] = Root THEN g ELSE Parent[g]) /\ Toward(Root, g) \in Nodes
         /\ g \in Below(Toward(Root, g))
         /\ \A s \in Leaves : g \in Below(s) <=> Toward(Root, g) = s
BY Tree DEF Toward, Below

LEMMA RootStep ==
  ASSUME IInv, NEW c \in Nodes, NEW type, Arrived(Root, c, type), NEW V,
         Shift({c}, {}, Given(NoMessages), V), amb' = amb,
         DOMAIN srv' = Servers, \A s \in Leaves : srv'[s] = srv[s],
         IsServer(srv'[Root]), srv'[Root].leaving = {},
         \A n \in Nodes : \A i \in DOMAIN V[n] : V[n][i] \in DownOf(n),
         \A g \in Federates : Parent[g] # Root => DOMAIN V[g] = {},
         KeepsWaiting(c),
         \A g \in Federates, l \in Labels : Active(g) => Kept(g, l),
         Membership', ForAll', SuccessIsReal'
  PROVE  IInv'
<1>0. Types /\ Routed /\ Edges /\ Links /\ Pending /\ Fresh /\ NotLeaving /\ Claims
  BY DEF IInv
<1>1. PICK U, pu : U = Given(NoMessages) /\ pu = {c}
  OBVIOUS
<1>2. Shift(pu, {}, U, V)
  BY <1>1
<1>3. \A n \in Nodes : DOMAIN U[n] = {} /\ \A X : ~Some(U[n], X)
  BY <1>1, GivenNone
<1>4. \A s \in Servers : s # Root => srv'[s] = srv[s]
  BY Tree
<1>5. Types' /\ Routed'
  <2>1. /\ \A s \in Servers : IsServer(srv'[s])
        /\ \A s \in Leaves : srv'[s].known \subseteq Below(s)
    BY <1>0, <1>4 DEF Types, Routed
  <2>2. \A n \in Nodes : /\ \A i \in DOMAIN U[n] : U[n][i] \in UpOf(n)
                         /\ \A i \in DOMAIN V[n] : V[n][i] \in DownOf(n)
    BY <1>3
  <2> QED
    BY <1>0, <1>2, <2>1, <2>2, ServeTypes
<1>6. \A g \in Federates : /\ Resigned(g)' <=> Resigned(g)
                           /\ Parent[g] # Root => (Here(g)' <=> Here(g))
  BY AmbStays, Tree DEF Here
<1>7. \A g \in Federates : \A l : Parent[g] # Root =>
        /\ Awaits(Parent[g], l, g)' <=> Awaits(Parent[g], l, g)
        /\ Has(Parent[g], l, g)' <=> Has(Parent[g], l, g)
  <2> SUFFICES ASSUME NEW g \in Federates, NEW l, Parent[g] # Root
               PROVE  /\ Awaits(Parent[g], l, g)' <=> Awaits(Parent[g], l, g)
                      /\ Has(Parent[g], l, g)' <=> Has(Parent[g], l, g)
    OBVIOUS
  <2>1. srv'[Parent[g]] = srv[Parent[g]]
    BY Tree
  <2> QED
    BY <2>1 DEF Awaits, Has
<1>8. Edges'
  <2> SUFFICES ASSUME NEW g \in Federates, NEW l \in Labels, ~Resigned(g)' PROVE Edge(g, l)'
    BY DEF Edges
  <2>1. Edge(g, l) /\ ~Resigned(g)
    BY <1>0, <1>6 DEF Edges
  <2>2. CASE Parent[g] = Root
    <3>1. PICK own, w, a, W, A, W2, A2, p, q, p2, q2 :
            /\ own = TRUE /\ w = (l \in amb[g].due) /\ a = (l \in DOMAIN amb[g].done)
            /\ W = Awaits(Root, l, g) /\ A = Has(Root, l, g)
            /\ W2 = Awaits(Root, l, g)' /\ A2 = Has(Root, l, g)'
            /\ p = up[g] /\ q = down[g] /\ p2 = up'[g] /\ q2 = down'[g]
      OBVIOUS
    <3>2. LinkOK(g, l, own, w, a, W, A, p, q)
      BY <2>1, <2>2, <3>1 DEF Edge
    <3>3. Kept(g, l) /\ Toward(Root, g) = g
      BY <2>1, <2>2, TowardRoot DEF Active
    <3>4. own
      BY <3>1
    <3>5. LinkOK(g, l, own, w, a, W2, A2, p2, q2)
      BY <2>2, <3>1, <3>2, <3>3, <3>4 DEF Kept
    <3>6. w = (l \in amb'[g].due) /\ a = (l \in DOMAIN amb'[g].done)
      BY <3>1
    <3> QED
      BY <2>2, <3>1, <3>5, <3>6 DEF Edge, Awaits, Has
  <2>3. CASE Parent[g] # Root
    <3>1. /\ l \in amb'[g].due <=> l \in amb[g].due
          /\ l \in DOMAIN amb'[g].done <=> l \in DOMAIN amb[g].done
          /\ g \in Nodes
      BY Tree
    <3>2. /\ g \in {} => Head(down[g]) \notin Touch(g, l)
          /\ ~Some(U[g], By(g, l))
          /\ \A i \in DOMAIN V[g] :
               /\ V[g][i] \notin Touch(g, l)
               /\ V[g][i] \in About(l) => Awaits(Parent[g], l, g) \/ Has(Parent[g], l, g)
      BY <1>3, <2>3, <3>1
    <3> QED
      BY <1>0, <1>2, <1>7, <2>1, <2>3, <3>1, <3>2, ShiftEdge
  <2> QED
    BY <2>2, <2>3
<1>9. Links'
  <2> SUFFICES ASSUME NEW g \in Federates, NEW l \in Labels, Parent[g] # Root, Here(g)'
               PROVE  Link(g, l)'
    BY DEF Links
  <2>1. Link(g, l) /\ Kept(g, l) /\ Toward(Root, g) = Parent[g]
    BY <1>0, <1>6, TowardRoot DEF Links, Active
  <2>2. PICK own, w, a, W, A, W2, A2, p, q, p2, q2 :
          /\ own = FALSE /\ w = Awaits(Parent[g], l, g) /\ a = Has(Parent[g], l, g)
          /\ W = Awaits(Root, l, g) /\ A = Has(Root, l, g)
          /\ W2 = Awaits(Root, l, g)' /\ A2 = Has(Root, l, g)'
          /\ p = up[Parent[g]] /\ q = down[Parent[g]] /\ p2 = up'[Parent[g]] /\ q2 = down'[Parent[g]]
    OBVIOUS
  <2>3. LinkOK(g, l, own, w, a, W, A, p, q)
    BY <2>1, <2>2 DEF Link
  <2>4. ~own
    BY <2>2
  <2>5. LinkOK(g, l, own, w, a, W2, A2, p2, q2)
    BY <2>1, <2>2, <2>3, <2>4 DEF Kept
  <2>6. w = Awaits(Parent[g], l, g)' /\ a = Has(Parent[g], l, g)'
    <3>1. srv'[Parent[g]] = srv[Parent[g]]
      BY Tree
    <3> QED
      BY <2>2, <3>1 DEF Awaits, Has
  <2> QED
    BY <2>2, <2>5, <2>6 DEF Link, Awaits, Has
<1>10. Pending'
  <2> SUFFICES ASSUME NEW g \in Federates, NEW l \in Labels PROVE Answering(g, l)'
    BY DEF Pending
  <2>1. Answering(g, l) /\ ~Some(U[g], By(g, l))
    BY <1>0, <1>3, Tree DEF Pending
  <2>2. Awaits(Parent[g], l, g) =>
          Awaits(Parent[g], l, g)' \/ (g \in pu /\ Head(up[g]) \in By(g, l) \cup ResignOf(g))
    <3>1. CASE Parent[g] = Root
      <4>1. Awaits(Root, l, g) =>
              Awaits(Root, l, g)' \/ (g = c /\ Head(up[g]) \in By(g, l) \cup ResignOf(g))
        BY <3>1, TowardRoot DEF KeepsWaiting
      <4>2. Awaits(Root, l, g)' <=> Awaits(Parent[g], l, g)'
        BY <3>1 DEF Awaits
      <4> QED
        BY <1>1, <3>1, <4>1, <4>2
    <3>2. CASE Parent[g] # Root
      BY <1>7, <3>2
    <3> QED
      BY <3>1, <3>2
  <2> QED
    BY <1>0, <1>2, <2>1, <2>2, ShiftAnswering
<1>11. Fresh'
  <2> SUFFICES ASSUME NEW s \in Leaves PROVE AllNews(up'[s], Awaited')
    BY DEF Fresh
  <2>1. s \in Nodes /\ \A g \in Below(s) : g \in Federates /\ Toward(Root, g) = s
    BY TowardRoot, Tree DEF Below
  <2>2. \A l \in Labels, g \in Below(s) : Awaits(Root, l, g) =>
           \/ Awaits(Root, l, g)'
           \/ s \in pu /\ (Head(up[s]) \in By(g, l) \/ Head(up[s]) \in ResignOf(g))
    BY <1>1, <2>1 DEF KeepsWaiting
  <2>3. NewsAdded(up[s], U[s], Awaited')
    BY <1>3, <2>1 DEF NewsAdded
  <2> QED
    BY <1>0, <1>2, <2>2, <2>3, ShiftFresh
<1>12. Claims'
  <2>1. \A n \in Nodes : \A i \in DOMAIN U[n] : Claim(U[n][i])'
    BY <1>3
  <2>2. \A g \in Federates : \A l : Said(g, l) => Said(g, l)'
    BY AmbStays
  <2> QED
    BY <1>0, <1>2, <2>1, <2>2, ShiftClaims
<1>13. NotLeaving'
  BY <1>0 DEF NotLeaving, Awaits
<1> QED
  BY <1>5, <1>8, <1>9, <1>10, <1>11, <1>12, <1>13, AmbStays DEF IInv

\* The root has taken the message of c and sends V.
RootSends(c, V) == IInv /\ c \in Nodes /\ Shift({c}, {}, Given(NoMessages), V)

Grows(q2, q, v) == q2 = q \o v /\ q \in Seq(DownMessages) /\ v \in Seq(DownMessages)

LEMMA RootTakes ==
  ASSUME NEW c, NEW V, RootSends(c, V), NEW n \in Nodes
  PROVE  /\ up'[n] = (IF n = c THEN Tail(up[n]) ELSE up[n])
         /\ up[n] \in Seq(UpMessages) /\ up'[n] \in Seq(UpMessages)
         /\ Grows(down'[n], down[n], V[n])
         /\ n = c => up[n] # <<>>
<1>1. Types
  BY DEF IInv, RootSends
<1>2. PICK U, pu : U = Given(NoMessages) /\ pu = {c}
  OBVIOUS
<1>3. Shift(pu, {}, U, V)
  BY <1>2 DEF RootSends
<1>4. /\ up[n] \in Seq(UpMessages) /\ down[n] \in Seq(DownMessages) /\ V[n] \in Seq(DownMessages)
      /\ up'[n] = Shifted(up[n], n \in pu, U[n]) /\ down'[n] = Shifted(down[n], n \in {}, V[n])
      /\ n \in pu => up[n] # <<>>
  BY <1>1, <1>3, ShiftAt
<1>5. U[n] = <<>>
  BY <1>1, <1>2, GivenNone
<1>6. up'[n] = (IF n = c THEN Tail(up[n]) ELSE up[n])
  <2>1. n = c => Tail(up[n]) \o <<>> = Tail(up[n])
    BY <1>1, <1>2, <1>4, EmptyEnd
  <2>2. up[n] \o <<>> = up[n]
    BY <1>1, EmptyEnd
  <2> QED
    BY <1>2, <1>4, <1>5, <2>1, <2>2 DEF Shifted
<1>7. down'[n] = down[n] \o V[n]
  BY <1>4 DEF Shifted
<1>8. up'[n] \in Seq(UpMessages)
  BY <1>2, <1>4, <1>6, TailAt
<1> QED
  BY <1>2, <1>4, <1>6, <1>7, <1>8 DEF Grows

LEMMA RootTakesSome ==
  ASSUME NEW c, NEW V, RootSends(c, V), NEW n \in Nodes, NEW X, Some(up'[n], X)
  PROVE  Some(up[n], X)
<1>1. /\ up'[n] = (IF n = c THEN Tail(up[n]) ELSE up[n])
      /\ up[n] \in Seq(UpMessages)
      /\ n = c => up[n] # <<>>
  BY RootTakes
<1> QED
  BY <1>1, SomeTail

\* The root waits for g (W), or has its answer (A), when it has looked at the message of c.
Looked(c, g, l, W, A) ==
  /\ W \in BOOLEAN /\ A \in BOOLEAN
  /\ \/ W = Awaits(Root, l, g) /\ A = Has(Root, l, g)
     \/ /\ Awaits(Root, l, g) /\ c = Toward(Root, g) /\ Head(up[c]) \in By(g, l)
        /\ W = FALSE /\ A = TRUE

LEMMA LookedAt ==
  ASSUME NEW c, NEW V, RootSends(c, V), NEW g \in Federates, NEW n \in Nodes, n = Toward(Root, g),
         NEW l, NEW W, NEW A, Looked(c, g, l, W, A), NEW own, NEW w, NEW a,
         LinkOK(g, l, own, w, a, Awaits(Root, l, g), Has(Root, l, g), up[n], down[n])
  PROVE  LinkOK(g, l, own, w, a, W, A, up'[n], down[n])
<1>1. PICK W1, A1, p, q : W1 = Awaits(Root, l, g) /\ A1 = Has(Root, l, g) /\ p = up[n] /\ q = down[n]
  OBVIOUS
<1>2. LinkOK(g, l, own, w, a, W1, A1, p, q)
  BY <1>1
<1>3. LinkOK(g, l, own, w, a, W, A, p, q)
  <2>1. CASE W = Awaits(Root, l, g) /\ A = Has(Root, l, g)
    BY <1>1, <1>2, <2>1
  <2>2. CASE /\ Awaits(Root, l, g) /\ c = Toward(Root, g) /\ Head(up[c]) \in By(g, l)
             /\ W = FALSE /\ A = TRUE
    <3>1. p \in Seq(UpMessages) /\ p # <<>> /\ Head(p) \in By(g, l)
      BY <1>1, <2>2, RootTakes
    <3>2. Some(p, By(g, l))
      BY <3>1, SomeTail
    <3>3. W1
      BY <1>1, <2>2
    <3>4. LinkOK(g, l, own, w, a, FALSE, TRUE, p, q)
      BY <1>2, <3>2, <3>3, LinkAnswered
    <3> QED
      BY <2>2, <3>4
  <2> QED
    BY <2>1, <2>2 DEF Looked
<1>4. /\ p \in Seq(UpMessages)
      /\ n = c => p # <<>>
      /\ up'[n] = IF n = c THEN Tail(p) ELSE p
  BY <1>1, RootTakes
<1>5. p # <<>> => LinkOK(g, l, own, w, a, W, A, Tail(p), q)
  BY <1>3, <1>4, LinkTakeUp
<1> QED
  BY <1>1, <1>3, <1>4, <1>5

\* No message of v is to f about label l, and if f is the receiver, only while it is on.
Spared(v, f, l, on) ==
  \A i \in DOMAIN v : v[i] \notin Touch(f, l) /\ (Parent[f] = Root /\ v[i] \in About(l) => on)

Becomes(g, l, W, A) == Awaits(Root, l, g)' = W /\ Has(Root, l, g)' = A

LEMMA KeptSame ==
  ASSUME NEW c, NEW V, RootSends(c, V), NEW g \in Federates, NEW n \in Nodes, n = Toward(Root, g),
         NEW l, NEW W, NEW A, Looked(c, g, l, W, A),
         Becomes(g, l, W, A), Spared(V[n], g, l, W \/ A)
  PROVE  Kept(g, l)
<1> SUFFICES ASSUME NEW own, NEW w, NEW a, own <=> Parent[g] = Root,
                    LinkOK(g, l, own, w, a, Awaits(Root, l, g), Has(Root, l, g), up[n], down[n])
             PROVE  LinkOK(g, l, own, w, a, Awaits(Root, l, g)', Has(Root, l, g)', up'[n], down'[n])
  BY DEF Kept
<1>1. PICK p2, q, q2, v : p2 = up'[n] /\ q = down[n] /\ q2 = down'[n] /\ v = V[n]
  OBVIOUS
<1>2. LinkOK(g, l, own, w, a, W, A, p2, q)
  BY <1>1, LookedAt
<1>3. q2 = q \o v /\ q \in Seq(DownMessages) /\ v \in Seq(DownMessages)
  <2>1. Grows(down'[n], down[n], V[n])
    BY RootTakes
  <2> QED
    BY <1>1, <2>1 DEF Grows
<1>4. \A i \in DOMAIN v : v[i] \notin Touch(g, l) /\ (own /\ v[i] \in About(l) => W \/ A)
  <2>1. W \in BOOLEAN /\ A \in BOOLEAN
    BY DEF Looked
  <2>2. Spared(v, g, l, W \/ A)
    BY <1>1
  <2> QED
    BY <2>1, <2>2 DEF Spared
<1>5. LinkOK(g, l, own, w, a, W, A, p2, q \o v)
  BY <1>2, <1>3, <1>4, LinkTell
<1> QED
  BY <1>1, <1>3, <1>5 DEF Becomes

LEMMA KeptAnnounce ==
  ASSUME NEW c, NEW V, RootSends(c, V), NEW g \in Federates, NEW n \in Nodes, n = Toward(Root, g),
         NEW l, ~Awaits(Root, l, g), ~Has(Root, l, g),
         Awaits(Root, l, g)', ~Has(Root, l, g)', ~Some(up'[n], By(g, l)),
         NEW k, Lone(V[n], l, k), V[n][k] \in AnnTo(g, l)
  PROVE  Kept(g, l)
<1> SUFFICES ASSUME NEW own, NEW w, NEW a, own <=> Parent[g] = Root,
                    LinkOK(g, l, own, w, a, Awaits(Root, l, g), Has(Root, l, g), up[n], down[n])
             PROVE  LinkOK(g, l, own, w, a, Awaits(Root, l, g)', Has(Root, l, g)', up'[n], down'[n])
  BY DEF Kept
<1>1. PICK p2, q, q2, v : p2 = up'[n] /\ q = down[n] /\ q2 = down'[n] /\ v = V[n]
  OBVIOUS
<1>2. Looked(c, g, l, FALSE, FALSE)
  BY DEF Looked, Awaits, Has
<1>3. LinkOK(g, l, own, w, a, FALSE, FALSE, p2, q)
  BY <1>1, <1>2, LookedAt
<1>4. q2 = q \o v /\ q \in Seq(DownMessages) /\ v \in Seq(DownMessages)
  <2>1. Grows(down'[n], down[n], V[n])
    BY RootTakes
  <2> QED
    BY <1>1, <2>1 DEF Grows
<1>5. ~Some(p2, By(g, l)) /\ Lone(v, l, k) /\ v[k] \in AnnTo(g, l)
  BY <1>1
<1>6. LinkOK(g, l, own, w, a, TRUE, FALSE, p2, q \o v)
  BY <1>3, <1>4, <1>5, LinkAnnounce
<1>7. Awaits(Root, l, g)' = TRUE /\ Has(Root, l, g)' = FALSE
  BY DEF Awaits, Has
<1> QED
  BY <1>1, <1>4, <1>6, <1>7

LEMMA KeptEnd ==
  ASSUME NEW c, NEW V, RootSends(c, V), NEW g \in Federates, NEW n \in Nodes, n = Toward(Root, g),
         NEW l, NEW A, Looked(c, g, l, FALSE, A),
         ~Awaits(Root, l, g)', ~Has(Root, l, g)', ~Some(up'[n], By(g, l)),
         NEW k, Lone(V[n], l, k), V[n][k] \in EndOf(l), V[n][k] \in EndTo(g, l) <=> A,
         Parent[g] = Root => A
  PROVE  Kept(g, l)
<1> SUFFICES ASSUME NEW own, NEW w, NEW a, own <=> Parent[g] = Root,
                    LinkOK(g, l, own, w, a, Awaits(Root, l, g), Has(Root, l, g), up[n], down[n])
             PROVE  LinkOK(g, l, own, w, a, Awaits(Root, l, g)', Has(Root, l, g)', up'[n], down'[n])
  BY DEF Kept
<1>1. PICK p2, q, q2, v : p2 = up'[n] /\ q = down[n] /\ q2 = down'[n] /\ v = V[n]
  OBVIOUS
<1>2. LinkOK(g, l, own, w, a, FALSE, A, p2, q)
  BY <1>1, LookedAt
<1>3. q2 = q \o v /\ q \in Seq(DownMessages) /\ v \in Seq(DownMessages)
  <2>1. Grows(down'[n], down[n], V[n])
    BY RootTakes
  <2> QED
    BY <1>1, <2>1 DEF Grows
<1>4. /\ ~Some(p2, By(g, l)) /\ Lone(v, l, k) /\ v[k] \in EndOf(l) /\ (v[k] \in EndTo(g, l) <=> A)
      /\ ~own \/ A
  BY <1>1
<1>5. LinkOK(g, l, own, w, a, FALSE, FALSE, p2, q \o v)
  <2>1. A \in BOOLEAN
    BY DEF Looked
  <2>2. CASE A = TRUE
    <3>1. LinkOK(g, l, own, w, a, FALSE, TRUE, p2, q) /\ v[k] \in EndTo(g, l)
      BY <1>2, <1>4, <2>2
    <3> QED
      BY <1>3, <1>4, <3>1, LinkEnd
  <2>3. CASE A = FALSE
    <3>1. LinkOK(g, l, own, w, a, FALSE, FALSE, p2, q) /\ v[k] \notin EndTo(g, l) /\ ~own
      BY <1>2, <1>4, <2>3
    <3> QED
      BY <1>3, <1>4, <3>1, LinkEnd
  <2> QED
    BY <2>1, <2>2, <2>3
<1>6. Awaits(Root, l, g)' = FALSE /\ Has(Root, l, g)' = FALSE
  BY DEF Awaits, Has
<1> QED
  BY <1>1, <1>3, <1>5, <1>6

\* Messages that are told, one for each label of L, in any order
LEMMA ConcatIn ==
  ASSUME NEW T, NEW u \in Seq(T), NEW v \in Seq(T), NEW X,
         \A i \in DOMAIN u : u[i] \in X, \A i \in DOMAIN v : v[i] \in X
  PROVE  \A i \in DOMAIN (u \o v) : (u \o v)[i] \in X
<1>1. PICK t : t = u \o v
  OBVIOUS
<1>2. /\ Len(u) \in Nat /\ Len(v) \in Nat
      /\ DOMAIN u = 1 .. Len(u) /\ DOMAIN v = 1 .. Len(v) /\ DOMAIN t = 1 .. Len(u) + Len(v)
      /\ \A i \in 1 .. Len(u) : t[i] = u[i]
      /\ \A i \in 1 .. Len(v) : t[Len(u) + i] = v[i]
  BY <1>1, ConcatAt
<1>3. ASSUME NEW i \in DOMAIN t PROVE t[i] \in X
  <2>1. CASE i <= Len(u)
    BY <1>2, <2>1
  <2>2. CASE ~(i <= Len(u))
    <3>1. i - Len(u) \in 1 .. Len(v) /\ i = Len(u) + (i - Len(u))
      BY <1>2, <2>2
    <3> QED
      BY <1>2, <3>1
  <2> QED
    BY <2>1, <2>2
<1> QED
  BY <1>1, <1>3

OnePerLabel(S) == \A m, k \in S : m.label = k.label => m = k

LEMMA LoneOf ==
  ASSUME NEW S, S \subseteq DownMessages, IsFiniteSet(S), OnePerLabel(S), NEW m \in S
  PROVE  \E i : Lone(SetToSeq(S), m.label, i) /\ SetToSeq(S)[i] = m
<1>1. PICK v : v = SetToSeq(S)
  OBVIOUS
<1>2. v \in Seq(S)
  BY <1>1, SetToSeqType
<1>3. \A i \in DOMAIN v : v[i] \in S
  BY <1>2, ElementsIn
<1>4. PICK i \in DOMAIN v : v[i] = m
  BY <1>1, SetToSeqAll
<1>5. \A j \in DOMAIN v : v[j] = v[i] => j = i
  BY <1>1, <1>4, SetToSeqAll
<1>6. ASSUME NEW j \in DOMAIN v, j # i PROVE v[j] \notin About(m.label)
  <2>1. v[j] \in S /\ v[j] # m
    BY <1>3, <1>4, <1>5, <1>6
  <2>2. v[j].label # m.label
    BY <2>1 DEF OnePerLabel
  <2> QED
    BY <2>2 DEF About
<1>7. Lone(v, m.label, i)
  BY <1>4, <1>6 DEF Lone
<1> QED
  BY <1>1, <1>4, <1>7

LEMMA LoneBefore ==
  ASSUME NEW t, NEW u, NEW v, Grows(t, u, v), NEW l, NEW k, Lone(u, l, k), ~Some(v, About(l))
  PROVE  Lone(t, l, k) /\ t[k] = u[k]
<1>1. /\ Len(u) \in Nat /\ Len(v) \in Nat
      /\ DOMAIN u = 1 .. Len(u) /\ DOMAIN v = 1 .. Len(v) /\ DOMAIN t = 1 .. Len(u) + Len(v)
      /\ \A i \in 1 .. Len(u) : t[i] = u[i]
      /\ \A i \in 1 .. Len(v) : t[Len(u) + i] = v[i]
  BY ConcatAt DEF Grows
<1>2. k \in DOMAIN t /\ t[k] = u[k]
  BY <1>1 DEF Lone
<1>3. ASSUME NEW i \in DOMAIN t, i # k PROVE t[i] \notin About(l)
  <2>1. CASE i <= Len(u)
    BY <1>1, <1>3, <2>1 DEF Lone
  <2>2. CASE ~(i <= Len(u))
    <3>1. i - Len(u) \in 1 .. Len(v) /\ i = Len(u) + (i - Len(u))
      BY <1>1, <2>2
    <3> QED
      BY <1>1, <3>1 DEF Some
  <2> QED
    BY <2>1, <2>2
<1>4. Lone(t, l, k)
  BY <1>2, <1>3 DEF Lone
<1> QED
  BY <1>2, <1>4

LEMMA LoneBehind ==
  ASSUME NEW t, NEW u, NEW v, Grows(t, u, v), NEW l, NEW k, Lone(v, l, k), ~Some(u, About(l))
  PROVE  Lone(t, l, Len(u) + k) /\ t[Len(u) + k] = v[k]
<1>1. /\ Len(u) \in Nat /\ Len(v) \in Nat
      /\ DOMAIN u = 1 .. Len(u) /\ DOMAIN v = 1 .. Len(v) /\ DOMAIN t = 1 .. Len(u) + Len(v)
      /\ \A i \in 1 .. Len(u) : t[i] = u[i]
      /\ \A i \in 1 .. Len(v) : t[Len(u) + i] = v[i]
  BY ConcatAt DEF Grows
<1>2. k \in 1 .. Len(v) /\ Len(u) + k \in DOMAIN t /\ t[Len(u) + k] = v[k]
  BY <1>1 DEF Lone
<1>3. ASSUME NEW i \in DOMAIN t, i # Len(u) + k PROVE t[i] \notin About(l)
  <2>1. CASE i <= Len(u)
    BY <1>1, <2>1 DEF Some
  <2>2. CASE ~(i <= Len(u))
    <3>1. i - Len(u) \in 1 .. Len(v) /\ i = Len(u) + (i - Len(u)) /\ i - Len(u) # k
      BY <1>1, <1>2, <1>3, <2>2
    <3> QED
      BY <1>1, <3>1 DEF Lone
  <2> QED
    BY <2>1, <2>2
<1>4. Lone(t, l, Len(u) + k)
  BY <1>2, <1>3 DEF Lone
<1> QED
  BY <1>2, <1>4

LEMMA RootShift ==
  ASSUME IInv, NEW c \in Nodes, NEW type, Arrived(Root, c, type), NEW t,
         FromChild(Root, c, <<>>, t), \A n \in DOMAIN t : t[n] \in Seq(DownMessages)
  PROVE  /\ Shift({c}, {}, Given(NoMessages), Given(t)) /\ RootSends(c, Given(t)) /\ amb' = amb
<1>1. Types /\ Root \in Servers /\ Root # c /\ up[c] # <<>> /\ <<>> \in Seq(UpMessages)
  BY ArrivedAt, Tree, EmptyEnd DEF IInv
<1>2. Shift({c}, {}, UpOnly(Root, <<>>), Given(t))
  BY <1>1, FromChildShift
<1>3. UpOnly(Root, <<>>) = Given(NoMessages)
  BY DEF UpOnly, Given, NoMessages
<1> QED
  BY <1>2, <1>3 DEF RootSends, FromChild

LEMMA RootServer ==
  ASSUME IInv
  PROVE  /\ srv[Root].known \subseteq Federates /\ IsPoints(srv[Root].points, srv[Root].known)
         /\ srv[Root].leaving = {} /\ DOMAIN srv = Servers /\ Root \in Servers
         /\ srv[Root] = [known |-> srv[Root].known, leaving |-> srv[Root].leaving,
                         points |-> srv[Root].points]
BY Tree DEF IInv, Types, Routed, IsServer

LEMMA RootMember ==
  ASSUME NEW c, NEW V, RootSends(c, V), amb' = amb, \A s \in Leaves : srv'[s] = srv[s],
         srv'[Root].leaving = {}, NEW g \in Federates,
         g \in srv'[Root].known <=> g \in srv[Root].known,
         Head(up[c]) \notin JoinOf(g),
         \A n \in {g, Parent[g]} \ {Root} : ~Some(V[n], JoinedOf(g)) /\ ~Some(V[n], ResignedOf(g))
  PROVE  Member(g)'
<1>1. Types /\ Routed /\ Member(g)
  BY DEF RootSends, IInv, Membership
<1>2. PICK U, pu : U = Given(NoMessages) /\ pu = {c}
  OBVIOUS
<1>3. Shift(pu, {}, U, V)
  BY <1>2 DEF RootSends
<1>4. \A n \in Nodes : \A X : ~Some(U[n], X)
  BY <1>2, GivenNone
<1>5. /\ g \in srv'[Parent[g]].known <=> g \in srv[Parent[g]].known
      /\ g \in srv'[Parent[g]].leaving <=> g \in srv[Parent[g]].leaving
  BY <1>1, Tree DEF Routed
<1>6. \A n \in {g, Parent[g]} \ {Root} :
           /\ n \in pu => Head(up[n]) \notin JoinOf(g)
           /\ n \in {} => Head(down[n]) \notin JoinedOf(g)
           /\ ~Some(U[n], JoinOf(g)) /\ ~Some(U[n], ResignOf(g))
           /\ ~Some(V[n], JoinedOf(g)) /\ ~Some(V[n], ResignedOf(g))
  BY <1>2, <1>4, Tree
<1>7. amb'[g].member = amb[g].member
  OBVIOUS
<1> QED
  BY <1>1, <1>3, <1>5, <1>6, <1>7, ShiftMember

\* A label that is known is not registered again.
LEMMA RootRefuses ==
  ASSUME IInv, NEW c \in Nodes, RootServeRegister(c), Head(up[c]).label \in DOMAIN srv[Root].points
  PROVE  IInv'
<1>1. PICK m : m = Head(up[c])
  OBVIOUS
<1>2. Arrived(Root, c, "Register") /\ FromChild(Root, c, <<>>, One(c, <<Response(m, FALSE)>>)) /\ srv' = srv
  BY <1>1 DEF RootServeRegister
<1>3. m \in UpMessages /\ m.type = "Register"
  BY <1>1, <1>2, ArrivedAt
<1>4. m \in [type : {"Register"}, fed : Federates, label : Labels, set : SUBSET Federates]
      /\ \A g : m \notin JoinOf(g)
  BY <1>3 DEF UpMessages, JoinOf
<1>5. PICK r, t : r = Response(m, FALSE) /\ t = One(c, <<r>>)
  OBVIOUS
<1>6. /\ r \in DownMessages /\ r.type = "Response" /\ r \in DownOf(c)
      /\ \A g : r \notin JoinedOf(g) /\ r \notin ResignedOf(g)
  <2>1. r \in [type : {"Response"}, fed : Federates, label : Labels, ok : BOOLEAN]
    BY <1>4, <1>5 DEF Response
  <2> QED
    BY <2>1 DEF DownMessages, DownOf, JoinedOf, ResignedOf
<1>7. <<r>> \in Seq(DownMessages) /\ \A i \in DOMAIN <<r>> : <<r>>[i] = r
      /\ \A X : Some(<<r>>, X) <=> r \in X
  BY <1>6, OneOf
<1>8. DOMAIN t = {c} /\ t[c] = <<r>>
  BY <1>5, OneAt
<1>9. PICK U, V, pu : U = Given(NoMessages) /\ V = Given(t) /\ pu = {c}
  OBVIOUS
<1>10. Shift(pu, {}, U, V) /\ RootSends(c, V) /\ amb' = amb
  <2>1. FromChild(Root, c, <<>>, t) /\ \A n \in DOMAIN t : t[n] \in Seq(DownMessages)
    BY <1>2, <1>5, <1>7, <1>8
  <2> QED
    BY <1>2, <1>9, <2>1, RootShift
<1>11. \A n \in Nodes : /\ n = c => V[n] = <<r>>
                        /\ n # c => DOMAIN V[n] = {} /\ \A X : ~Some(V[n], X)
                        /\ DOMAIN U[n] = {}
  <2> SUFFICES ASSUME NEW n \in Nodes
               PROVE  /\ n = c => V[n] = <<r>>
                      /\ n # c => DOMAIN V[n] = {} /\ \A X : ~Some(V[n], X)
    BY <1>9, GivenNone
  <2> QED
    BY <1>8, <1>9, GivenAt
<1>12. \A n \in Nodes : /\ \A i \in DOMAIN U[n] : U[n][i].type # "Achieved" /\ U[n][i] \in UpOf(n)
                        /\ \A i \in DOMAIN V[n] : ~Tells(V[n][i]) /\ V[n][i] \in DownOf(n)
  BY <1>6, <1>7, <1>11 DEF Tells
<1>13. Membership'
  <2> SUFFICES ASSUME NEW g \in Federates PROVE Member(g)'
    BY DEF Membership
  <2>1. \A n \in {g, Parent[g]} \ {Root} : ~Some(V[n], JoinedOf(g)) /\ ~Some(V[n], ResignedOf(g))
    BY <1>6, <1>7, <1>11, Tree
  <2>2. srv'[Root].leaving = {} /\ (g \in srv'[Root].known <=> g \in srv[Root].known)
    BY <1>2, RootServer
  <2>3. Head(up[c]) \notin JoinOf(g) /\ \A s \in Leaves : srv'[s] = srv[s]
    BY <1>1, <1>2, <1>4
  <2> QED
    BY <1>10, <2>1, <2>2, <2>3, RootMember
<1>14. \A n \in {} : ~Tells(Head(down[n]))
  OBVIOUS
<1> QED
  BY <1>2, <1>10, <1>12, <1>13, <1>14, PassOn

\* The root has nobody's answer on its way to it that it does not wait for.
LEMMA NoAnswer ==
  ASSUME IInv, NEW g \in Federates, NEW l \in Labels, Active(g),
         ~Awaits(Root, l, g), ~Has(Root, l, g)
  PROVE  ~Some(up[Toward(Root, g)], By(g, l))
<1>1. CASE Parent[g] = Root
  <2>1. Answering(g, l) /\ Toward(Root, g) = g
    BY <1>1, TowardRoot DEF IInv, Pending
  <2> QED
    BY <1>1, <2>1 DEF Answering
<1>2. CASE Parent[g] # Root
  <2>1. Link(g, l) /\ Toward(Root, g) = Parent[g]
    BY <1>2, TowardRoot DEF IInv, Links, Active
  <2>2. PICK own, w, a, W, A, p, q :
          /\ own = FALSE /\ w = Awaits(Parent[g], l, g) /\ a = Has(Parent[g], l, g)
          /\ W = Awaits(Root, l, g) /\ A = Has(Root, l, g)
          /\ p = up[Parent[g]] /\ q = down[Parent[g]]
    OBVIOUS
  <2>3. LinkOK(g, l, own, w, a, W, A, p, q)
    BY <2>1, <2>2 DEF Link
  <2>4. ~W /\ ~A
    BY <2>2
  <2>5. Some(q, EndOf(l)) => Some(q, Touch(g, l))
    BY SomeTouch
  <2>6. ~Some(p, By(g, l))
    BY <2>3, <2>4, <2>5 DEF LinkOK
  <2> QED
    BY <2>1, <2>2, <2>6
<1> QED
  BY <1>1, <1>2

\* A response and an announcement, each if there is one
Answered(v, r, m, G) == \E x \in {<<>>, <<r>>} : v = x \o (IF G = {} THEN <<>> ELSE <<m>>)

LEMMA ResponseAndAnnounce ==
  ASSUME NEW r \in DownMessages, r.type = "Response",
         NEW m \in DownMessages, NEW l, m \in About(l), NEW G,
         NEW v, Answered(v, r, m, G)
  PROVE  /\ v \in Seq(DownMessages)
         /\ \A i \in DOMAIN v : v[i] = r \/ (G # {} /\ v[i] = m)
         /\ G # {} => \E k : Lone(v, l, k) /\ v[k] = m
<1>0. PICK x, y : x \in {<<>>, <<r>>} /\ y = (IF G = {} THEN <<>> ELSE <<m>>) /\ v = x \o y
  BY DEF Answered
<1>1. /\ x \in Seq(DownMessages) /\ \A i \in DOMAIN x : x[i] = r
      /\ y \in Seq(DownMessages) /\ \A i \in DOMAIN y : G # {} /\ y[i] = m
      /\ G # {} => DOMAIN y = {1} /\ y[1] = m
  <2>1. <<>> \in Seq(DownMessages) /\ DOMAIN <<>> = {}
    OBVIOUS
  <2>2. <<r>> \in Seq(DownMessages) /\ \A i \in DOMAIN <<r>> : <<r>>[i] = r
    BY OneOf
  <2>3. <<m>> \in Seq(DownMessages) /\ DOMAIN <<m>> = {1} /\ <<m>>[1] = m
        /\ \A i \in DOMAIN <<m>> : <<m>>[i] = m
    BY OneOf
  <2> QED
    BY <1>0, <2>1, <2>2, <2>3
<1>2. PICK t : Grows(t, x, y) /\ t = v
  BY <1>0, <1>1 DEF Grows
<1>3. t \in Seq(DownMessages)
  <2>1. x \o y \in Seq(DownMessages)
    BY <1>1, ConcatAt
  <2> QED
    BY <1>2, <2>1 DEF Grows
<1>4. \A i \in DOMAIN t : t[i] = r \/ (G # {} /\ t[i] = m)
  <2>1. PICK X : X = {z \in DownMessages : z = r \/ (G # {} /\ z = m)}
    OBVIOUS
  <2>2. (\A i \in DOMAIN x : x[i] \in X) /\ (\A i \in DOMAIN y : y[i] \in X)
    BY <1>1, <2>1
  <2>3. \A i \in DOMAIN (x \o y) : (x \o y)[i] \in X
    BY <1>1, <2>2, ConcatIn
  <2> QED
    BY <1>2, <2>1, <2>3 DEF Grows
<1>5. ASSUME G # {} PROVE \E k : Lone(t, l, k) /\ t[k] = m
  <2>1. ~Some(x, About(l))
    BY <1>1 DEF Some, About
  <2>2. Lone(y, l, 1) /\ y[1] = m
    BY <1>1, <1>5 DEF Lone
  <2>3. Grows(t, x, y)
    BY <1>2
  <2>4. Lone(t, l, Len(x) + 1) /\ t[Len(x) + 1] = y[1]
    BY <2>1, <2>2, <2>3, LoneBehind
  <2> QED
    BY <2>2, <2>4
<1> QED
  BY <1>2, <1>3, <1>4, <1>5

\* What the root sends when a label is registered for F, or for all: an announcement to each
\* child with federates of F
RegisterAnswers(c, m, F, auto) ==
  [n \in Children(Root) |->
     (IF n = c THEN <<Response(m, TRUE)>> ELSE <<>>)
     \o (IF Reached(Root, n) \cap F = {} THEN <<>>
         ELSE <<Announce(m.label, Reached(Root, n) \cap F, auto)>>)]

Announces(v, l, G, auto) ==
  /\ v \in Seq(DownMessages)
  /\ \A i \in DOMAIN v :
       \/ v[i] \in DownMessages /\ v[i].type = "Response"
       \/ v[i] = Announce(l, G, auto) /\ G # {}
  /\ G # {} => \E k : Lone(v, l, k) /\ v[k] = Announce(l, G, auto)

IsRegister(m) == m \in [type : {"Register"}, fed : Federates, label : Labels, set : SUBSET Federates]

LEMMA RegisterMessages ==
  ASSUME IInv, NEW c \in Nodes, NEW m, IsRegister(m),
         NEW F, F \subseteq srv[Root].known, NEW auto \in BOOLEAN, NEW n \in Children(Root)
  PROVE  Announces(RegisterAnswers(c, m, F, auto)[n], m.label, Reached(Root, n) \cap F, auto)
<1>0. m \in [type : {"Register"}, fed : Federates, label : Labels, set : SUBSET Federates]
  BY DEF IsRegister
<1>1. PICK r, G, x, v, l :
        /\ r = Response(m, TRUE) /\ G = Reached(Root, n) \cap F /\ x = Announce(m.label, G, auto)
        /\ v = RegisterAnswers(c, m, F, auto)[n] /\ l = m.label
  OBVIOUS
<1>2. r \in DownMessages /\ r.type = "Response"
  <2>1. r \in [type : {"Response"}, fed : Federates, label : Labels, ok : BOOLEAN]
    BY <1>0, <1>1 DEF Response
  <2> QED
    BY <2>1 DEF DownMessages
<1>3. x \in DownMessages /\ x \in About(l)
  <2>1. G \subseteq Federates
    BY <1>1, RootServer
  <2>2. x \in [type : {"Announce"}, label : Labels, set : SUBSET Federates, auto : BOOLEAN]
        /\ x.label = l
    BY <1>0, <1>1, <2>1 DEF Announce
  <2> QED
    BY <2>2 DEF DownMessages, About
<1>4. Answered(v, r, x, G)
  BY <1>1 DEF RegisterAnswers, Answered
<1>5. /\ v \in Seq(DownMessages)
      /\ \A i \in DOMAIN v : v[i] = r \/ (G # {} /\ v[i] = x)
      /\ G # {} => \E k : Lone(v, l, k) /\ v[k] = x
  BY <1>2, <1>3, <1>4, ResponseAndAnnounce
<1>6. \A i \in DOMAIN v : \/ v[i] \in DownMessages /\ v[i].type = "Response"
                          \/ v[i] = x /\ G # {}
  BY <1>2, <1>5
<1>7. x = Announce(l, G, auto)
  BY <1>1
<1>8. Announces(v, l, G, auto)
  BY <1>5, <1>6, <1>7 DEF Announces
<1> QED
  BY <1>1, <1>8

\* The points after a registration
NewPoint(F, auto) == insert([waiting |-> {}, achieved |-> Nothing, auto |-> auto], F)

Registered(P, K, l, F, auto, Q) ==
  /\ IsPoints(Q, K) /\ DOMAIN Q = DOMAIN P \cup {l}
  /\ \A k \in DOMAIN P : Q[k] = P[k] /\ k # l
  /\ Q[l].waiting = F /\ DOMAIN Q[l].achieved = {} /\ Q[l].auto = auto

LEMMA PointsRegistered ==
  ASSUME NEW P, NEW K, IsPoints(P, K), NEW l \in Labels, l \notin DOMAIN P,
         NEW F, F \subseteq K, NEW auto \in BOOLEAN, NEW Q,
         Q = Over(One(l, NewPoint(F, auto)), P)
  PROVE  Registered(P, K, l, F, auto, Q)
<1>1. PICK p, o : p = NewPoint(F, auto) /\ o = One(l, p)
  OBVIOUS
<1>2. /\ p = [waiting |-> p.waiting, achieved |-> p.achieved, auto |-> p.auto]
      /\ p.waiting = F /\ p.achieved = Nothing /\ p.auto = auto
  BY <1>1 DEF insert, NewPoint
<1>3. p \in PointsOf(K) /\ DOMAIN p.achieved = {}
  <2>1. DOMAIN Nothing = {} /\ Nothing \in [DOMAIN Nothing -> BOOLEAN]
    BY DEF Nothing
  <2> QED
    BY <1>2, <2>1, PointType
<1>4. DOMAIN o = {l} /\ o[l] = p
  BY <1>1, OneAt
<1>5. Q = Over(o, P)
  BY <1>1
<1>6. DOMAIN Q = {l} \cup DOMAIN P /\ Q[l] = p /\ \A k \in DOMAIN P : Q[k] = P[k]
  <2>1. /\ DOMAIN Over(o, P) = DOMAIN o \cup DOMAIN P
        /\ \A x \in DOMAIN o \cup DOMAIN P : Over(o, P)[x] = IF x \in DOMAIN o THEN o[x] ELSE P[x]
    BY OverAt
  <2> QED
    BY <1>4, <1>5, <2>1
<1>7. IsFiniteSet(DOMAIN Q)
  <2>1. IsFiniteSet({l}) /\ IsFiniteSet(DOMAIN P)
    BY FS_Singleton DEF IsPoints
  <2> QED
    BY <1>6, <2>1, FS_Union
<1>8. IsPoints(Q, K)
  BY <1>3, <1>6, <1>7 DEF IsPoints
<1> QED
  BY <1>2, <1>3, <1>6, <1>8 DEF Registered

LEMMA RootRegisters ==
  ASSUME IInv, NEW c \in Nodes, RootServeRegister(c), Head(up[c]).label \notin DOMAIN srv[Root].points
  PROVE  IInv'
<1>0. ForAll /\ SuccessIsReal
  BY DEF IInv
<1>1. PICK m, l, K, P, F, auto, t :
        /\ m = Head(up[c]) /\ l = m.label /\ K = srv[Root].known /\ P = srv[Root].points
        /\ auto = (m.set = {}) /\ F = (IF auto THEN K ELSE m.set \cap K)
        /\ t = RegisterAnswers(c, m, F, auto)
  OBVIOUS
<1>2. /\ Arrived(Root, c, "Register") /\ FromChild(Root, c, <<>>, t)
      /\ srv' = [srv EXCEPT ![Root].points =
           Over(One(l, NewPoint(F, auto)), @)]
  BY <1>1 DEF RootServeRegister, RegisterAnswers, NewPoint
<1>3. m \in [type : {"Register"}, fed : Federates, label : Labels, set : SUBSET Federates]
      /\ (\A g : m \notin JoinOf(g)) /\ (\A g, k : m \notin By(g, k))
  <2>1. m \in UpMessages /\ m.type = "Register"
    BY <1>1, <1>2, ArrivedAt
  <2> QED
    BY <2>1 DEF UpMessages, JoinOf, By
<1>4. /\ K \subseteq Federates /\ IsPoints(P, K) /\ srv[Root].leaving = {}
      /\ DOMAIN srv = Servers /\ Root \in Servers
      /\ srv[Root] = [known |-> K, leaving |-> {}, points |-> P]
  BY <1>1, RootServer
<1>5. l \in Labels /\ l \notin DOMAIN P /\ F \subseteq K /\ auto \in BOOLEAN
  BY <1>1, <1>3
\* The server
<1>6. PICK Q : Q = srv'[Root].points
  OBVIOUS
<1>7. /\ DOMAIN srv' = Servers /\ \A s \in Leaves : srv'[s] = srv[s]
      /\ srv'[Root].known = K /\ srv'[Root].leaving = {}
      /\ srv'[Root] = [known |-> srv'[Root].known, leaving |-> srv'[Root].leaving, points |-> Q]
      /\ Q = Over(One(l, NewPoint(F, auto)), P)
  BY <1>1, <1>2, <1>4, <1>6, Tree
<1>8. /\ IsPoints(Q, K) /\ DOMAIN Q = DOMAIN P \cup {l}
      /\ \A k \in DOMAIN P : Q[k] = P[k] /\ k # l
      /\ Q[l].waiting = F /\ DOMAIN Q[l].achieved = {} /\ Q[l].auto = auto
  <2>1. IsPoints(P, K) /\ F \subseteq K /\ Q = Over(One(l, NewPoint(F, auto)), P)
    BY <1>4, <1>5, <1>7
  <2>2. Registered(P, K, l, F, auto, Q)
    BY <1>5, <2>1, PointsRegistered
  <2> QED
    BY <2>2 DEF Registered
<1>9. IsServer(srv'[Root])
  BY <1>4, <1>6, <1>7, <1>8 DEF IsServer
<1>10. \A k, g : /\ k # l => (Awaits(Root, k, g)' <=> Awaits(Root, k, g))
                             /\ (Has(Root, k, g)' <=> Has(Root, k, g))
                 /\ Awaits(Root, l, g)' <=> g \in F
                 /\ ~Has(Root, l, g)' /\ ~Awaits(Root, l, g) /\ ~Has(Root, l, g)
  <2>1. P = srv[Root].points /\ Q = srv'[Root].points
    BY <1>1, <1>6
  <2>2. \A k, g : k # l => (Awaits(Root, k, g)' <=> Awaits(Root, k, g))
    BY <1>8, <2>1 DEF Awaits
  <2>3. \A k, g : k # l => (Has(Root, k, g)' <=> Has(Root, k, g))
    BY <1>8, <2>1 DEF Has
  <2>4. \A g : (Awaits(Root, l, g)' <=> g \in F) /\ ~Awaits(Root, l, g)
    BY <1>5, <1>8, <2>1 DEF Awaits
  <2>5. \A g : ~Has(Root, l, g)' /\ ~Has(Root, l, g)
    BY <1>5, <1>8, <2>1 DEF Has
  <2> QED
    BY <2>2, <2>3, <2>4, <2>5
\* The messages
<1>11. PICK V : V = Given(t)
  OBVIOUS
<1>12. DOMAIN t = Children(Root)
  BY <1>1 DEF RegisterAnswers
<1>13. ASSUME NEW n \in DOMAIN t PROVE Announces(t[n], l, Reached(Root, n) \cap F, auto)
  <2>1. IsRegister(m)
    BY <1>3 DEF IsRegister
  <2>2. F \subseteq srv[Root].known /\ auto \in BOOLEAN /\ n \in Children(Root)
    BY <1>1, <1>5, <1>12, <1>13
  <2>3. Announces(RegisterAnswers(c, m, F, auto)[n], m.label, Reached(Root, n) \cap F, auto)
    BY <2>1, <2>2, RegisterMessages
  <2> QED
    BY <1>1, <2>3
<1>14. Shift({c}, {}, Given(NoMessages), V) /\ RootSends(c, V) /\ amb' = amb
  <2>1. \A n \in DOMAIN t : t[n] \in Seq(DownMessages)
    BY <1>13 DEF Announces
  <2> QED
    BY <1>2, <1>11, <2>1, RootShift
<1>15. /\ \A n \in Nodes : n \notin Children(Root) => DOMAIN V[n] = {} /\ \A X : ~Some(V[n], X)
       /\ \A n \in Children(Root) : n \in Nodes /\ V[n] = t[n]
  <2>1. Children(Root) \subseteq Nodes
    BY <1>4, ChildrenOf
  <2> QED
    BY <1>11, <1>12, <2>1, GivenAt
<1>16. ASSUME NEW n \in Nodes, NEW i \in DOMAIN V[n]
       PROVE  /\ V[n][i] \in DownMessages /\ V[n][i].type \in {"Response", "Announce"}
              /\ V[n][i] \in DownOf(n)
              /\ \A k : k # l => V[n][i] \notin About(k)
              /\ V[n][i] \in About(l) => V[n][i].set = Reached(Root, n) \cap F
                                         /\ Reached(Root, n) \cap F # {}
              /\ V[n][i] \notin EndOf(l)
  <2>1. n \in DOMAIN t /\ V[n] = t[n]
    BY <1>12, <1>15, <1>16
  <2>2. PICK x : x = V[n][i]
    OBVIOUS
  <2>3. CASE x \in DownMessages /\ x.type = "Response"
    BY <2>2, <2>3 DEF DownOf, About, EndOf
  <2>4. CASE x = Announce(l, Reached(Root, n) \cap F, auto) /\ Reached(Root, n) \cap F # {}
    <3>1. x \in [type : {"Announce"}, label : Labels, set : SUBSET Federates, auto : BOOLEAN]
          /\ x.label = l /\ x.set = Reached(Root, n) \cap F
      BY <1>4, <1>5, <2>4 DEF Announce
    <3>2. x \in DownMessages /\ x.type = "Announce"
      BY <3>1 DEF DownMessages
    <3> QED
      BY <2>2, <2>4, <3>1, <3>2 DEF DownOf, About, EndOf
  <2> QED
    BY <1>13, <1>16, <2>1, <2>2, <2>3, <2>4 DEF Announces
<1>17. \A n \in Nodes : \A i \in DOMAIN V[n] : V[n][i] \in DownOf(n)
  BY <1>16
<1>18. \A g \in Federates : Parent[g] # Root => DOMAIN V[g] = {}
  BY <1>4, <1>15, ChildrenOf, Tree
<1>19. KeepsWaiting(c)
  BY <1>10 DEF KeepsWaiting
<1>20. ASSUME NEW g \in Federates, NEW k \in Labels, Active(g) PROVE Kept(g, k)
  <2>1. PICK n : n = Toward(Root, g)
    OBVIOUS
  <2>2. n \in Nodes
    BY <2>1, TowardRoot
  <2>3. CASE k # l
    <3>1. PICK W, A : W = Awaits(Root, k, g) /\ A = Has(Root, k, g)
      OBVIOUS
    <3>2. Looked(c, g, k, W, A) /\ Becomes(g, k, W, A)
      <4>1. W \in BOOLEAN /\ A \in BOOLEAN
        BY <3>1 DEF Awaits, Has
      <4>2. Awaits(Root, k, g)' = W /\ Has(Root, k, g)' = A
        BY <1>10, <2>3, <3>1 DEF Awaits, Has
      <4> QED
        BY <3>1, <4>1, <4>2 DEF Looked, Becomes
    <3>3. Spared(V[n], g, k, W \/ A)
      BY <1>16, <2>2, <2>3, TouchAbout DEF Spared
    <3> QED
      BY <1>14, <2>1, <2>2, <3>2, <3>3, KeptSame
  <2>4. CASE k = l /\ g \notin F
    <3>1. Looked(c, g, l, FALSE, FALSE)
      <4>1. FALSE = Awaits(Root, l, g) /\ FALSE = Has(Root, l, g)
        BY <1>10
      <4> QED
        BY <4>1 DEF Looked
    <3>2. Becomes(g, l, FALSE, FALSE)
      BY <1>10, <2>4 DEF Becomes, Awaits, Has
    <3>3. Spared(V[n], g, l, FALSE \/ FALSE)
      <4> SUFFICES ASSUME NEW i \in DOMAIN V[n], V[n][i] \in About(l)
                   PROVE  V[n][i] \notin Touch(g, l) /\ Parent[g] # Root
        BY TouchAbout DEF Spared
      <4>1. /\ V[n][i].set = Reached(Root, n) \cap F /\ Reached(Root, n) \cap F # {}
            /\ V[n][i] \notin EndOf(l)
        BY <1>16, <2>2
      <4>2. V[n][i] \notin Touch(g, l)
        BY <2>4, <4>1 DEF Touch, AnnTo
      <4>3. ASSUME Parent[g] = Root PROVE FALSE
        <5>1. PICK x \in F : x \in Reached(Root, g)
          BY <2>1, <4>1, <4>3, TowardRoot
        <5>2. x \in Federates /\ Toward(Root, x) = g
          BY <1>4, <1>5, <5>1 DEF Reached
        <5>3. x = g
          BY <4>3, <5>2, TowardRoot, Tree
        <5> QED
          BY <2>4, <5>1, <5>3
      <4> QED
        BY <4>2, <4>3
    <3>4. Kept(g, l)
      BY <1>14, <2>1, <2>2, <3>1, <3>2, <3>3, KeptSame
    <3> QED
      BY <2>4, <3>4
  <2>5. CASE k = l /\ g \in F
    <3>1. g \in Reached(Root, n)
      BY <1>1, <1>4, <1>5, <2>1, <2>5, ChildrenOf
    <3>2. n \in Children(Root)
      <4>1. CASE Parent[g] = Root
        <5>1. n = g /\ g \in srv[Root].known \ srv[Root].leaving /\ Root \in Servers
          BY <1>1, <1>4, <1>5, <2>1, <2>5, <4>1, TowardRoot
        <5> QED
          BY <4>1, <5>1, ChildrenOf
      <4>2. CASE Parent[g] # Root
        BY <1>4, <2>1, <4>2, ChildrenOf, TowardRoot, Tree
      <4> QED
        BY <4>1, <4>2
    <3>3. PICK j : Lone(V[n], l, j) /\ V[n][j] = Announce(l, Reached(Root, n) \cap F, auto)
      BY <1>12, <1>13, <1>15, <2>5, <3>1, <3>2 DEF Announces
    <3>4. V[n][j] \in AnnTo(g, l)
      <4>1. V[n][j] \in DownMessages
        BY <1>16, <2>2, <3>3 DEF Lone
      <4> QED
        BY <2>5, <3>1, <3>3, <4>1 DEF AnnTo, Announce
    <3>5. ~Some(up'[n], By(g, l))
      <4>1. ~Some(up[n], By(g, l))
        BY <1>5, <1>10, <1>20, <2>1, NoAnswer
      <4> QED
        BY <1>14, <2>2, <4>1, RootTakesSome
    <3>6. ~Awaits(Root, l, g) /\ ~Has(Root, l, g) /\ Awaits(Root, l, g)' /\ ~Has(Root, l, g)'
      BY <1>10, <2>5
    <3>7. Lone(V[n], l, j)
      BY <3>3
    <3>8. Kept(g, l)
      BY <1>14, <2>1, <2>2, <3>4, <3>5, <3>6, <3>7, KeptAnnounce
    <3> QED
      BY <2>5, <3>8
  <2> QED
    BY <2>3, <2>4, <2>5
<1>21. Membership'
  <2> SUFFICES ASSUME NEW g \in Federates PROVE Member(g)'
    BY DEF Membership
  <2>1. \A n \in {g, Parent[g]} \ {Root} : ~Some(V[n], JoinedOf(g)) /\ ~Some(V[n], ResignedOf(g))
    <3> SUFFICES ASSUME NEW n \in {g, Parent[g]} \ {Root}
                 PROVE  ~Some(V[n], JoinedOf(g)) /\ ~Some(V[n], ResignedOf(g))
      OBVIOUS
    <3>1. n \in Nodes
      BY Tree
    <3> QED
      BY <1>16, <3>1 DEF Some, JoinedOf, ResignedOf
  <2>2. g \in srv'[Root].known <=> g \in srv[Root].known
    BY <1>1, <1>7
  <2>3. Head(up[c]) \notin JoinOf(g)
    BY <1>1, <1>3
  <2> QED
    BY <1>7, <1>14, <2>1, <2>2, <2>3, RootMember
<1>22. ForAll'
  <2> SUFFICES ASSUME NEW k \in DOMAIN Q, Q[k].auto PROVE K \subseteq Of(Q[k])
    BY <1>6, <1>7 DEF ForAll, Of
  <2>1. CASE k = l
    BY <1>1, <1>8, <2>1 DEF Of
  <2>2. CASE k # l
    BY <1>0, <1>1, <1>8, <2>2 DEF ForAll
  <2> QED
    BY <2>1, <2>2
<1>23. SuccessIsReal'
  <2> SUFFICES ASSUME NEW s \in Servers, NEW k \in DOMAIN srv'[s].points,
                      NEW g \in DOMAIN srv'[s].points[k].achieved, srv'[s].points[k].achieved[g]
               PROVE  k \in DOMAIN amb'[g].done /\ amb'[g].done[k]
    BY DEF SuccessIsReal
  <2>1. /\ k \in DOMAIN srv[s].points /\ g \in DOMAIN srv[s].points[k].achieved
        /\ srv[s].points[k].achieved[g]
    <3>1. CASE s = Root
      <4>1. k \in DOMAIN P
        BY <1>6, <1>8, <3>1
      <4> QED
        BY <1>1, <1>6, <1>8, <3>1, <4>1
    <3>2. CASE s # Root
      BY <1>7, <3>2, Tree
    <3> QED
      BY <3>1, <3>2
  <2> QED
    BY <1>0, <1>14, <2>1 DEF SuccessIsReal
<1> QED
  BY <1>2, <1>7, <1>9, <1>14, <1>17, <1>18, <1>19, <1>20, <1>21, <1>22, <1>23, RootStep

LEMMA ServeRootRegister ==
  ASSUME IInv, NEW c \in Nodes, RootServeRegister(c)
  PROVE  IInv'
BY RootRefuses, RootRegisters

\* One message D[l] for each label, in any order
EachOnce(u, D) ==
  /\ u \in Seq(DownMessages)
  /\ \A i \in DOMAIN u : \E l \in DOMAIN D : u[i] = D[l]
  /\ \A l \in DOMAIN D : \E k : Lone(u, l, k) /\ u[k] = D[l]

LEMMA InAnyOrder ==
  ASSUME NEW L, IsFiniteSet(L), NEW D, DOMAIN D = L,
         \A l \in L : D[l] \in DownMessages /\ D[l].label = l,
         NEW S, S = {D[l] : l \in L}
  PROVE  EachOnce(SetToSeq(S), D) /\ IsFiniteSet(S)
<1>1. IsFiniteSet(S)
  <2>1. PICK h : h = [l \in L |-> D[l]]
    OBVIOUS
  <2>2. h \in Surjection(L, S)
    BY <2>1 DEF Surjection
  <2> QED
    BY <2>2, FS_Surjection
<1>2. S \subseteq DownMessages /\ OnePerLabel(S)
  BY DEF OnePerLabel
<1>3. PICK u : u = SetToSeq(S)
  OBVIOUS
<1>4. u \in Seq(DownMessages) /\ u \in Seq(S)
  BY <1>1, <1>2, <1>3, SetToSeqType
<1>5. \A i \in DOMAIN u : u[i] \in S
  BY <1>4, ElementsIn
<1>6. ASSUME NEW l \in L PROVE \E k : Lone(u, l, k) /\ u[k] = D[l]
  <2>1. PICK m \in S : m = D[l] /\ m.label = l
    OBVIOUS
  <2>2. \E i : Lone(SetToSeq(S), m.label, i) /\ SetToSeq(S)[i] = m
    BY <1>1, <1>2, LoneOf
  <2> QED
    BY <1>3, <2>1, <2>2
<1>7. EachOnce(u, D)
  BY <1>4, <1>5, <1>6 DEF EachOnce
<1> QED
  BY <1>1, <1>3, <1>7

\* What the root sends to the child that the new federate f is behind, and to the others
Entered(v, f, L) ==
  /\ v \in Seq(DownMessages)
  /\ \A i \in DOMAIN v :
       \/ v[i] = JoinResponse(f)
       \/ \E l \in L : v[i] = Announce(l, {f}, TRUE)
  /\ \A l \in L : \E k : Lone(v, l, k) /\ v[k] = Announce(l, {f}, TRUE)

JoinAnnouncements(f, L) == SetToSeq({Announce(l, {f}, TRUE) : l \in L})

LEMMA AnnouncesAll ==
  ASSUME NEW f \in Federates, NEW L, L \subseteq Labels, IsFiniteSet(L), NEW u, u = JoinAnnouncements(f, L)
  PROVE  /\ Entered(u, f, L)
         /\ \A i \in DOMAIN u : u[i] \in DownMessages /\ u[i].type = "Announce"
<1>1. PICK D : D = [l \in L |-> Announce(l, {f}, TRUE)]
  OBVIOUS
<1>2. ASSUME NEW l \in L
      PROVE  D[l] \in DownMessages /\ D[l].label = l /\ D[l].type = "Announce"
  <2>1. D[l] \in [type : {"Announce"}, label : Labels, set : SUBSET Federates, auto : BOOLEAN]
        /\ D[l].label = l /\ D[l].type = "Announce"
    BY <1>1 DEF Announce
  <2> QED
    BY <2>1 DEF DownMessages
<1>3. PICK S : S = {Announce(l, {f}, TRUE) : l \in L}
  OBVIOUS
<1>4. DOMAIN D = L /\ S = {D[l] : l \in L}
  BY <1>1, <1>3
<1>5. EachOnce(SetToSeq(S), D)
  BY <1>2, <1>4, InAnyOrder
<1>6. EachOnce(u, D)
  BY <1>3, <1>5 DEF JoinAnnouncements
<1>7. \A l \in L : D[l] = Announce(l, {f}, TRUE)
  BY <1>1
<1>8. u \in Seq(DownMessages) /\ \A i \in DOMAIN u : \E l \in L : u[i] = D[l]
  BY <1>4, <1>6 DEF EachOnce
<1>9. \A l \in L : \E k : Lone(u, l, k) /\ u[k] = D[l]
  BY <1>4, <1>6 DEF EachOnce
<1>10. Entered(u, f, L)
  BY <1>7, <1>8, <1>9 DEF Entered
<1> QED
  BY <1>2, <1>8, <1>10

LEMMA Welcomed ==
  ASSUME NEW f \in Federates, NEW L, L \subseteq Labels, IsFiniteSet(L),
         NEW v, NEW u, u = JoinAnnouncements(f, L), Grows(v, <<JoinResponse(f)>>, u)
  PROVE  Entered(v, f, L) /\ Welcome(v, f)
<1>1. /\ Entered(u, f, L)
      /\ \A i \in DOMAIN u : u[i] \in DownMessages /\ u[i].type = "Announce"
  BY AnnouncesAll
<1>2. PICK r : r = JoinResponse(f)
  OBVIOUS
<1>3. r \in DownMessages /\ r.type = "JoinResponse" /\ r.fed = f
  <2>1. r \in [type : {"JoinResponse", "ResignNotify"}, fed : Federates] /\ r.type = "JoinResponse" /\ r.fed = f
    BY <1>2 DEF JoinResponse
  <2> QED
    BY <2>1 DEF DownMessages
<1>4. PICK x : x = <<r>>
  OBVIOUS
<1>5. x \in Seq(DownMessages) /\ DOMAIN x = {1} /\ x[1] = r /\ Len(x) = 1
  BY <1>3, <1>4, OneOf
<1>6. Grows(v, x, u)
  BY <1>2, <1>4
<1>7. /\ v \in Seq(DownMessages) /\ Len(u) \in Nat
      /\ DOMAIN u = 1 .. Len(u) /\ DOMAIN v = 1 .. 1 + Len(u)
      /\ v[1] = r
      /\ \A i \in 1 .. Len(u) : v[1 + i] = u[i]
  <2>1. /\ x \o u \in Seq(DownMessages) /\ Len(u) \in Nat
        /\ DOMAIN u = 1 .. Len(u) /\ DOMAIN (x \o u) = 1 .. Len(x) + Len(u)
        /\ \A i \in 1 .. Len(x) : (x \o u)[i] = x[i]
        /\ \A i \in 1 .. Len(u) : (x \o u)[Len(x) + i] = u[i]
    BY <1>6, ConcatAt DEF Grows
  <2>2. v = x \o u
    BY <1>6 DEF Grows
  <2> QED
    BY <1>5, <2>1, <2>2
<1>8. ASSUME NEW i \in DOMAIN v, i # 1 PROVE i - 1 \in DOMAIN u /\ v[i] = u[i - 1]
  <2>1. i - 1 \in 1 .. Len(u) /\ i = 1 + (i - 1)
    BY <1>7, <1>8
  <2> QED
    BY <1>7, <2>1
<1>9. \A i \in DOMAIN v : v[i] \in JoinedOf(f) <=> i = 1
  BY <1>1, <1>3, <1>7, <1>8 DEF JoinedOf
<1>10. \A i \in DOMAIN v : v[i] \notin ResignedOf(f)
  BY <1>1, <1>3, <1>7, <1>8 DEF ResignedOf
<1>11. Welcome(v, f)
  <2>1. 1 \in DOMAIN v /\ \A j \in DOMAIN v : ~(j < 1)
    BY <1>7
  <2>2. Some(v, JoinedOf(f)) /\ Single(v, JoinedOf(f))
    BY <1>9, <2>1 DEF Some, Single
  <2>3. ~Some(v, ResignedOf(f)) /\ ~SomeAfter(v, Announcing(f), JoinedOf(f))
    BY <1>9, <1>10, <2>1 DEF Some, SomeAfter
  <2> QED
    BY <2>2, <2>3 DEF Welcome
<1>12. \A l \in L : \E k : Lone(v, l, k) /\ v[k] = Announce(l, {f}, TRUE)
  <2> SUFFICES ASSUME NEW l \in L PROVE \E k : Lone(v, l, k) /\ v[k] = Announce(l, {f}, TRUE)
    OBVIOUS
  <2>1. PICK k : Lone(u, l, k) /\ u[k] = Announce(l, {f}, TRUE)
    BY <1>1 DEF Entered
  <2>2. ~Some(x, About(l))
    BY <1>3, <1>5 DEF Some, About
  <2>3. Lone(u, l, k)
    BY <2>1
  <2>4. Lone(v, l, Len(x) + k) /\ v[Len(x) + k] = u[k]
    BY <1>6, <2>2, <2>3, LoneBehind
  <2> QED
    BY <2>1, <2>4
<1>13. \A i \in DOMAIN v : v[i] = JoinResponse(f) \/ \E l \in L : v[i] = Announce(l, {f}, TRUE)
  <2> SUFFICES ASSUME NEW i \in DOMAIN v, i # 1 PROVE \E l \in L : v[i] = Announce(l, {f}, TRUE)
    BY <1>2, <1>7
  <2>1. u[i - 1] \in DownMessages /\ u[i - 1].type = "Announce" /\ i - 1 \in DOMAIN u /\ v[i] = u[i - 1]
    BY <1>1, <1>8
  <2>2. u[i - 1] # JoinResponse(f)
    BY <1>2, <1>3, <2>1
  <2> QED
    BY <1>1, <2>1, <2>2 DEF Entered
<1> QED
  BY <1>7, <1>11, <1>12, <1>13 DEF Entered

\* The points after f has joined
Enlarged(P, K, L, f, Q) ==
  /\ IsPoints(Q, K \cup {f}) /\ DOMAIN Q = DOMAIN P
  /\ \A k \in DOMAIN P :
       /\ Q[k].waiting = P[k].waiting \cup (IF k \in L THEN {f} ELSE {})
       /\ Q[k].achieved = P[k].achieved /\ Q[k].auto = P[k].auto

LEMMA PointsEnlarged ==
  ASSUME NEW P, NEW K, IsPoints(P, K), NEW f, f \notin K, NEW L, NEW Q,
         Q = [l \in DOMAIN P |-> IF l \in L THEN insert(P[l], {f}) ELSE P[l]]
  PROVE  Enlarged(P, K, L, f, Q)
<1>1. /\ DOMAIN P \subseteq Labels /\ IsFiniteSet(DOMAIN P)
      /\ \A l \in DOMAIN P : P[l] \in PointsOf(K) /\ P[l].waiting \cap DOMAIN P[l].achieved = {}
  BY DEF IsPoints
<1>2. ASSUME NEW l \in DOMAIN P
      PROVE  /\ Q[l].waiting = P[l].waiting \cup (IF l \in L THEN {f} ELSE {})
             /\ Q[l].achieved = P[l].achieved /\ Q[l].auto = P[l].auto
             /\ Q[l] \in PointsOf(K \cup {f}) /\ Q[l].waiting \cap DOMAIN Q[l].achieved = {}
  <2>1. PICK p, q : p = P[l] /\ q = Q[l]
    OBVIOUS
  <2>2. p \in PointsOf(K)
    BY <1>1, <2>1
  <2>3. /\ p = [waiting |-> p.waiting, achieved |-> p.achieved, auto |-> p.auto]
        /\ p.waiting \subseteq K /\ DOMAIN p.achieved \subseteq K
        /\ p.achieved \in [DOMAIN p.achieved -> BOOLEAN] /\ p.auto \in BOOLEAN
    BY <2>2, PointType
  <2>4. q = (IF l \in L THEN insert(p, {f}) ELSE p)
    BY <2>1
  <2>5. /\ q = [waiting |-> q.waiting, achieved |-> q.achieved, auto |-> q.auto]
        /\ q.waiting = p.waiting \cup (IF l \in L THEN {f} ELSE {})
        /\ q.achieved = p.achieved /\ q.auto = p.auto
    <3>1. PICK W : W = p.waiting \cup {f}
      OBVIOUS
    <3>2. insert(p, {f}) = [waiting |-> W, achieved |-> p.achieved, auto |-> p.auto]
      BY <2>3, <3>1 DEF insert
    <3>3. CASE l \in L
      BY <2>4, <3>1, <3>2, <3>3
    <3>4. CASE l \notin L
      BY <2>3, <2>4, <3>4
    <3> QED
      BY <3>3, <3>4
  <2>6. /\ q.waiting \subseteq K \cup {f} /\ DOMAIN q.achieved \subseteq K \cup {f}
        /\ q.achieved \in [DOMAIN q.achieved -> BOOLEAN] /\ q.auto \in BOOLEAN
    BY <2>3, <2>5
  <2>7. q \in PointsOf(K \cup {f})
    BY <2>5, <2>6, PointType
  <2>8. q.waiting \cap DOMAIN q.achieved = {}
    BY <1>1, <2>1, <2>3, <2>5
  <2> QED
    BY <2>1, <2>5, <2>7, <2>8
<1>3. DOMAIN Q = DOMAIN P
  OBVIOUS
<1> QED
  BY <1>1, <1>2, <1>3 DEF Enlarged, IsPoints

\* Who asks to join is not known yet.
LEMMA Joining ==
  ASSUME IInv, NEW c \in Nodes, Arrived(Root, c, "Join"), NEW m, m = Head(up[c]), NEW f, f = m.fed
  PROVE  /\ m \in UpMessages /\ m.type = "Join" /\ f \in Federates /\ m \in JoinOf(f)
         /\ \A g : g # f => m \notin JoinOf(g)
         /\ c = Toward(Root, f) /\ f \notin srv[Root].known /\ ~Resigned(f)
         /\ ~Some(down[c], Announcing(f)) \/ Parent[f] = Root
<1>1. /\ m \in UpMessages /\ m.type = "Join" /\ m \in UpOf(c) /\ up[c] \in Seq(UpMessages) /\ up[c] # <<>>
      /\ c \in Leaves \/ (c \in Federates /\ Parent[c] = Root /\ Below(c) = {c})
  BY ArrivedAt
<1>2. f \in Below(c) /\ f \in Federates /\ m \in JoinOf(f) /\ \A g : g # f => m \notin JoinOf(g)
  BY <1>1 DEF UpOf, UpMessages, JoinOf
<1>3. c = Toward(Root, f)
  BY <1>1, <1>2, TowardRoot DEF Below
<1>4. Some(up[c], JoinOf(f))
  BY <1>1, <1>2, SomeTail
<1>5. MemberOK(f, amb[f].member, f \in srv[Root].known, f \in srv[Parent[f]].known,
               f \in srv[Parent[f]].leaving, up[f], down[f], UpAbove(f), DownAbove(f))
  BY <1>2, MemberNow DEF IInv, Membership
<1>6. Some(up[f], JoinOf(f)) \/ Some(UpAbove(f), JoinOf(f))
  BY <1>2, <1>3, <1>4, TowardRoot DEF UpAbove
<1>7. f \notin srv[Root].known /\ amb[f].member = "joining"
  BY <1>5, <1>6 DEF MemberOK
<1>8. ASSUME Parent[f] # Root, Some(down[c], Announcing(f)) PROVE FALSE
  <2>1. PICK i \in DOMAIN down[c] : down[c][i] \in Announcing(f)
    BY <1>8 DEF Some
  <2>2. PICK l \in Labels : down[c][i] \in AnnTo(f, l)
    <3>1. down[c][i] \in DownMessages /\ down[c][i].type = "Announce" /\ f \in down[c][i].set
      BY <2>1 DEF Announcing
    <3>2. down[c][i].label \in Labels
      BY <3>1 DEF DownMessages
    <3> QED
      BY <3>1, <3>2 DEF AnnTo
  <2>3. Link(f, l) /\ c = Parent[f]
    BY <1>2, <1>3, <1>7, <1>8, TowardRoot DEF IInv, Links, Here, Resigned
  <2>4. Awaits(Root, l, f)
    <3>1. Some(down[Parent[f]], AnnTo(f, l))
      BY <2>1, <2>2, <2>3 DEF Some
    <3> QED
      BY <2>3, <3>1 DEF Link, LinkOK
  <2> QED
    BY <1>7, <2>4, PointTypes, Tree DEF IInv
<1> QED
  BY <1>1, <1>2, <1>3, <1>7, <1>8 DEF Resigned

\* The queues of f after its join has been served
LEMMA JoinedMember ==
  ASSUME NEW c, NEW V, RootSends(c, V), amb' = amb, Arrived(Root, c, "Join"),
         \A s \in Leaves : srv'[s] = srv[s], srv'[Root].leaving = {},
         NEW f, f = Head(up[c]).fed, f \in srv'[Root].known, Welcome(V[c], f),
         Parent[f] # Root => DOMAIN V[f] = {}
  PROVE  Member(f)'
<1>1. PICK m : m = Head(up[c])
  OBVIOUS
<1>2. /\ m \in JoinOf(f) /\ f \in Federates /\ c = Toward(Root, f) /\ ~Resigned(f) /\ c \in Nodes
      /\ ~Some(down[c], Announcing(f)) \/ Parent[f] = Root
  BY <1>1, Joining DEF RootSends
<1>3. MemberOK(f, amb[f].member, f \in srv[Root].known, f \in srv[Parent[f]].known,
               f \in srv[Parent[f]].leaving, up[f], down[f], UpAbove(f), DownAbove(f))
  BY <1>2, MemberNow DEF RootSends, IInv, Membership
<1>4. PICK p, q, p2, q2, v : p = up[c] /\ q = down[c] /\ p2 = up'[c] /\ q2 = down'[c] /\ v = V[c]
  OBVIOUS
<1>5. p \in Seq(UpMessages) /\ p # <<>> /\ p2 = Tail(p) /\ Grows(q2, q, v) /\ Head(p) \in JoinOf(f)
  <2>1. /\ up'[c] = (IF c = c THEN Tail(up[c]) ELSE up[c])
        /\ up[c] \in Seq(UpMessages)
        /\ Grows(down'[c], down[c], V[c])
        /\ c = c => up[c] # <<>>
    BY <1>2, RootTakes
  <2> QED
    BY <1>1, <1>2, <1>4, <2>1
<1>6. q2 = q \o v /\ q \in Seq(DownMessages) /\ v \in Seq(DownMessages)
  BY <1>5 DEF Grows
<1>7. Welcome(v, f)
  BY <1>4
<1>8. CASE Parent[f] = Root
  <2>1. c = f
    BY <1>2, <1>8, TowardRoot
  <2>2. MemberOK(f, amb[f].member, f \in srv[Root].known, f \in srv[Parent[f]].known,
                 f \in srv[Parent[f]].leaving, p, q, UpAbove(f), DownAbove(f))
    BY <1>3, <1>4, <2>1
  <2>3. Some(v, JoinedOf(f)) /\ Single(v, JoinedOf(f))
    BY <1>7 DEF Welcome
  <2>4. MemberOK(f, amb[f].member, TRUE, TRUE, f \in srv[Parent[f]].leaving,
                 Tail(p), q \o v, UpAbove(f), DownAbove(f))
    BY <1>5, <1>6, <2>2, <2>3, MemberJoinNear
  <2>5. TRUE = (f \in srv'[Root].known)
    OBVIOUS
  <2>8. TRUE = (f \in srv'[Parent[f]].known)
    BY <1>8, <2>5
  <2>9. srv[Parent[f]].leaving = srv'[Parent[f]].leaving
    <3>1. srv[Root].leaving = {}
      BY RootServer DEF RootSends
    <3> QED
      BY <1>8, <3>1
  <2>6. UpAbove(f) = <<>> /\ DownAbove(f) = <<>> /\ UpAbove(f)' = <<>> /\ DownAbove(f)' = <<>>
    BY <1>8 DEF UpAbove, DownAbove
  <2>7. Tail(p) = up'[f] /\ q \o v = down'[f]
    BY <1>4, <1>5, <1>6, <2>1
  <2> QED
    BY <2>4, <2>5, <2>6, <2>7, <2>8, <2>9 DEF Member
<1>9. CASE Parent[f] # Root
  <2>1. c = Parent[f] /\ c \in Leaves /\ f \in Nodes /\ f # c
    <3>1. f \in Federates /\ Parent[f] \in Leaves /\ f \in Nodes /\ f \notin Leaves
      BY <1>2, <1>9, Tree
    <3>2. c = Parent[f]
      BY <1>2, <1>9, <3>1, TowardRoot
    <3> QED
      BY <3>1, <3>2
  <2>2. MemberOK(f, amb[f].member, f \in srv[Root].known, f \in srv[Parent[f]].known,
                 f \in srv[Parent[f]].leaving, up[f], down[f], p, q)
    BY <1>3, <1>4, <1>9, <2>1 DEF UpAbove, DownAbove
  <2>3. ~Some(q, Announcing(f))
    BY <1>2, <1>4, <1>9
  <2>4. MemberOK(f, amb[f].member, TRUE, f \in srv[Parent[f]].known,
                 f \in srv[Parent[f]].leaving, up[f], down[f], Tail(p), q \o v)
    BY <1>5, <1>6, <1>7, <2>2, <2>3, MemberJoinRoot
  <2>5. TRUE = (f \in srv'[Root].known) /\ srv'[Parent[f]] = srv[Parent[f]]
    BY <2>1
  <2>6. up'[f] = up[f] /\ down'[f] = down[f]
    <3>1. up'[f] = (IF f = c THEN Tail(up[f]) ELSE up[f]) /\ Grows(down'[f], down[f], V[f])
      BY <2>1, RootTakes
    <3>2. down'[f] = down[f] \o V[f] /\ down[f] \in Seq(DownMessages) /\ V[f] \in Seq(DownMessages)
      BY <3>1 DEF Grows
    <3>3. V[f] = <<>>
      BY <1>9, <3>2
    <3> QED
      BY <2>1, <3>1, <3>2, <3>3, EmptyEnd DEF RootSends, IInv
  <2>7. UpAbove(f)' = Tail(p) /\ DownAbove(f)' = q \o v
    BY <1>4, <1>5, <1>6, <1>9, <2>1 DEF UpAbove, DownAbove
  <2> QED
    BY <2>4, <2>5, <2>6, <2>7 DEF Member
<1> QED
  BY <1>8, <1>9

LEMMA ServeRootJoin ==
  ASSUME IInv, NEW c \in Nodes, RootServeJoin(c)
  PROVE  IInv'
<1>0. ForAll /\ SuccessIsReal
  BY DEF IInv
<1>1. PICK m, f, K, P, L, u, t :
        /\ m = Head(up[c]) /\ f = m.fed /\ K = srv[Root].known /\ P = srv[Root].points
        /\ L = {l \in DOMAIN P : P[l].auto} /\ u = JoinAnnouncements(f, L)
        /\ t = [n \in Children(Root) \cup {c} |-> IF n = c THEN <<JoinResponse(f)>> \o u ELSE u]
  OBVIOUS
<1>2. /\ Arrived(Root, c, "Join") /\ FromChild(Root, c, <<>>, t)
      /\ srv' = [srv EXCEPT
              ![Root].known = @ \cup {f},
              ![Root].points = [l \in DOMAIN @ |-> IF l \in L THEN insert(@[l], {f}) ELSE @[l]]]
  BY <1>1 DEF RootServeJoin, JoinAnnouncements
<1>3. /\ m \in UpMessages /\ m.type = "Join" /\ f \in Federates /\ m \in JoinOf(f)
      /\ \A g : g # f => m \notin JoinOf(g)
      /\ c = Toward(Root, f) /\ f \notin K /\ ~Resigned(f)
  BY <1>1, <1>2, Joining
<1>4. /\ K \subseteq Federates /\ IsPoints(P, K) /\ srv[Root].leaving = {}
      /\ DOMAIN srv = Servers /\ Root \in Servers
      /\ srv[Root] = [known |-> K, leaving |-> {}, points |-> P]
  BY <1>1, RootServer
<1>5. L \subseteq DOMAIN P /\ L \subseteq Labels /\ IsFiniteSet(L)
  <2>1. DOMAIN P \subseteq Labels /\ IsFiniteSet(DOMAIN P)
    BY <1>4 DEF IsPoints
  <2>2. L \subseteq DOMAIN P
    BY <1>1
  <2> QED
    BY <2>1, <2>2, FS_Subset
\* The server
<1>6. PICK Q : Q = srv'[Root].points
  OBVIOUS
<1>7. /\ DOMAIN srv' = Servers /\ \A s \in Leaves : srv'[s] = srv[s]
      /\ srv'[Root].known = K \cup {f} /\ srv'[Root].leaving = {}
      /\ srv'[Root] = [known |-> srv'[Root].known, leaving |-> srv'[Root].leaving, points |-> Q]
      /\ Q = [l \in DOMAIN P |-> IF l \in L THEN insert(P[l], {f}) ELSE P[l]]
  BY <1>1, <1>2, <1>4, <1>6, Tree
<1>8. /\ IsPoints(Q, K \cup {f}) /\ DOMAIN Q = DOMAIN P
      /\ \A k \in DOMAIN P :
           /\ Q[k].waiting = P[k].waiting \cup (IF k \in L THEN {f} ELSE {})
           /\ Q[k].achieved = P[k].achieved /\ Q[k].auto = P[k].auto
  <2>1. IsPoints(P, K) /\ f \notin K /\ Q = [l \in DOMAIN P |-> IF l \in L THEN insert(P[l], {f}) ELSE P[l]]
    BY <1>3, <1>4, <1>7
  <2>2. Enlarged(P, K, L, f, Q)
    BY <2>1, PointsEnlarged
  <2> QED
    BY <2>2 DEF Enlarged
<1>9. IsServer(srv'[Root])
  <2>1. K \cup {f} \subseteq Federates /\ IsPoints(Q, K \cup {f})
    BY <1>3, <1>4, <1>8
  <2> QED
    BY <1>6, <1>7, <2>1 DEF IsServer
<1>10. \A k, g : /\ Awaits(Root, k, g)' <=> Awaits(Root, k, g) \/ (g = f /\ k \in L)
                 /\ Has(Root, k, g)' <=> Has(Root, k, g)
  BY <1>1, <1>5, <1>6, <1>8 DEF Awaits, Has
<1>11. \A k \in Labels : ~Awaits(Root, k, f) /\ ~Has(Root, k, f)
  BY <1>1, <1>3, <1>4, PointTypes DEF IInv
\* The messages
<1>12. Entered(u, f, L) /\ \A i \in DOMAIN u : u[i] \in DownMessages /\ u[i].type = "Announce"
  <2>1. u = JoinAnnouncements(f, L) /\ f \in Federates
    BY <1>1, <1>3
  <2> QED
    BY <1>5, <2>1, AnnouncesAll
<1>13. DOMAIN t = Children(Root) \cup {c} /\ \A n \in DOMAIN t : n # c => t[n] = u
  BY <1>1
<1>14. Entered(t[c], f, L) /\ Welcome(t[c], f)
  <2>1. PICK r, x : r = JoinResponse(f) /\ x = <<r>>
    OBVIOUS
  <2>2. x \in Seq(DownMessages) /\ u \in Seq(DownMessages)
    <3>1. r \in [type : {"JoinResponse", "ResignNotify"}, fed : Federates]
      BY <1>3, <2>1 DEF JoinResponse
    <3>2. r \in DownMessages
      BY <3>1 DEF DownMessages
    <3> QED
      BY <1>12, <2>1, <3>2, OneOf DEF Entered
  <2>3. t[c] = x \o u
    BY <1>1, <2>1
  <2>4. Grows(t[c], x, u)
    BY <2>2, <2>3 DEF Grows
  <2>5. Grows(t[c], <<JoinResponse(f)>>, u)
    BY <2>1, <2>4
  <2>6. u = JoinAnnouncements(f, L)
    BY <1>1
  <2> QED
    BY <1>3, <1>5, <2>5, <2>6, Welcomed
<1>15. PICK V : V = Given(t)
  OBVIOUS
<1>16. Shift({c}, {}, Given(NoMessages), V) /\ RootSends(c, V) /\ amb' = amb
  <2>1. \A n \in DOMAIN t : t[n] \in Seq(DownMessages)
    BY <1>12, <1>13, <1>14 DEF Entered
  <2> QED
    BY <1>2, <1>15, <2>1, RootShift
<1>17. /\ \A n \in Nodes : n \notin Children(Root) \cup {c} => DOMAIN V[n] = {} /\ \A X : ~Some(V[n], X)
       /\ \A n \in Children(Root) \cup {c} : n \in Nodes /\ Entered(V[n], f, L)
       /\ Welcome(V[c], f)
       /\ \A n \in Children(Root) \ {c} :
            \A i \in DOMAIN V[n] : V[n][i] \in DownMessages /\ V[n][i].type = "Announce"
  <2>1. Children(Root) \cup {c} \subseteq Nodes
    BY <1>4, ChildrenOf
  <2>2. \A n \in Nodes : n \notin DOMAIN t => DOMAIN V[n] = {} /\ \A X : ~Some(V[n], X)
    BY <1>15, GivenAt
  <2>3. \A n \in DOMAIN t : n \in Nodes /\ V[n] = t[n]
    BY <1>13, <1>15, <2>1, GivenAt
  <2>4. \A n \in DOMAIN t : Entered(t[n], f, L)
    BY <1>12, <1>13, <1>14
  <2> QED
    BY <1>12, <1>13, <1>14, <2>2, <2>3, <2>4
<1>18. ASSUME NEW n \in Nodes, NEW i \in DOMAIN V[n]
       PROVE  /\ V[n][i] \in DownMessages /\ n \in Children(Root) \cup {c}
              /\ V[n][i] \in DownOf(n)
              /\ \A g : V[n][i] \notin ResignedOf(g) /\ (g # f => V[n][i] \notin JoinedOf(g))
              /\ \A k : V[n][i] \notin EndOf(k)
              /\ \A k : V[n][i] \in About(k) => k \in L
              /\ \A k, g : V[n][i] \in AnnTo(g, k) => g = f
  <2>1. n \in Children(Root) \cup {c} /\ Entered(V[n], f, L)
    BY <1>17, <1>18
  <2>2. PICK x : x = V[n][i]
    OBVIOUS
  <2>3. x = JoinResponse(f) \/ \E l \in L : x = Announce(l, {f}, TRUE)
    BY <1>18, <2>1, <2>2 DEF Entered
  <2>4. CASE x = JoinResponse(f)
    <3>1. x \in [type : {"JoinResponse", "ResignNotify"}, fed : Federates]
          /\ x.type = "JoinResponse" /\ x.fed = f
      BY <1>3, <2>4 DEF JoinResponse
    <3>2. x \in DownMessages
      BY <3>1 DEF DownMessages
    <3>3. n = c /\ f \in Below(c)
      <4>1. f \in Below(c)
        BY <1>3, TowardRoot
      <4>2. x.type # "Announce"
        BY <3>1
      <4> QED
        BY <1>17, <1>18, <2>1, <2>2, <4>1, <4>2
    <3>4. x \in DownOf(n) /\ \A g : x \notin ResignedOf(g) /\ (g # f => x \notin JoinedOf(g))
      BY <3>1, <3>2, <3>3 DEF DownOf, ResignedOf, JoinedOf
    <3>5. \A k : x \notin EndOf(k) /\ x \notin About(k) /\ \A g : x \notin AnnTo(g, k)
      BY <3>1 DEF EndOf, About, AnnTo
    <3> QED
      BY <2>1, <2>2, <3>2, <3>4, <3>5
  <2>5. CASE \E l \in L : x = Announce(l, {f}, TRUE)
    <3>1. PICK l \in L : x = Announce(l, {f}, TRUE)
      BY <2>5
    <3>2. x \in [type : {"Announce"}, label : Labels, set : SUBSET Federates, auto : BOOLEAN]
          /\ x.type = "Announce" /\ x.label = l /\ x.set = {f}
      BY <1>3, <1>5, <3>1 DEF Announce
    <3>3. x \in DownMessages
      BY <3>2 DEF DownMessages
    <3>4. x \in DownOf(n) /\ \A g : x \notin ResignedOf(g) /\ (g # f => x \notin JoinedOf(g))
      BY <3>2, <3>3 DEF DownOf, ResignedOf, JoinedOf
    <3>5. \A k : x \notin EndOf(k) /\ (x \in About(k) => k \in L) /\ \A g : x \in AnnTo(g, k) => g = f
      BY <3>2 DEF EndOf, About, AnnTo
    <3> QED
      BY <2>1, <2>2, <3>3, <3>4, <3>5
  <2> QED
    BY <2>3, <2>4, <2>5
<1>19. \A n \in Nodes : \A i \in DOMAIN V[n] : V[n][i] \in DownOf(n)
  BY <1>18
<1>20. \A g \in Federates : Parent[g] # Root => DOMAIN V[g] = {}
  <2> SUFFICES ASSUME NEW g \in Federates, Parent[g] # Root PROVE g \notin Children(Root) \cup {c}
    BY <1>17, Tree
  <2>1. g \notin Children(Root)
    BY <1>4, ChildrenOf
  <2>2. g # c
    BY <1>3, TowardRoot, Tree
  <2> QED
    BY <2>1, <2>2
<1>21. KeepsWaiting(c)
  BY <1>10 DEF KeepsWaiting
<1>22. ASSUME NEW g \in Federates, NEW k \in Labels, Active(g) PROVE Kept(g, k)
  <2>1. PICK n : n = Toward(Root, g)
    OBVIOUS
  <2>2. n \in Nodes
    BY <2>1, TowardRoot
  <2>3. CASE g # f
    <3>1. PICK W, A : W = Awaits(Root, k, g) /\ A = Has(Root, k, g)
      OBVIOUS
    <3>2. Looked(c, g, k, W, A) /\ Becomes(g, k, W, A)
      <4>1. W \in BOOLEAN /\ A \in BOOLEAN
        BY <3>1 DEF Awaits, Has
      <4>2. Awaits(Root, k, g)' = W /\ Has(Root, k, g)' = A
        BY <1>10, <2>3, <3>1 DEF Awaits, Has
      <4> QED
        BY <3>1, <4>1, <4>2 DEF Looked, Becomes
    <3>3. Spared(V[n], g, k, W \/ A)
      <4> SUFFICES ASSUME NEW i \in DOMAIN V[n]
                   PROVE  /\ V[n][i] \notin Touch(g, k)
                          /\ Parent[g] = Root /\ V[n][i] \in About(k) => W \/ A
        BY DEF Spared
      <4>1. V[n][i] \notin EndOf(k) /\ V[n][i] \notin AnnTo(g, k)
        BY <1>18, <2>2, <2>3
      <4>2. V[n][i] \notin Touch(g, k)
        BY <4>1 DEF Touch
      <4>3. ASSUME Parent[g] = Root, V[n][i] \in About(k) PROVE W \/ A
        <5>1. n = g /\ n \in Children(Root) \cup {c} /\ k \in L
          BY <1>18, <2>1, <2>2, <4>3, TowardRoot
        <5>2. g # c
          <6>1. c = f \/ c \in Leaves
            BY <1>3, TowardRoot, Tree
          <6> QED
            BY <2>3, <6>1, Tree
        <5>3. g \in K
          BY <1>1, <1>4, <5>1, <5>2, ChildrenOf
        <5>4. k \in DOMAIN P /\ P[k].auto
          BY <1>1, <5>1
        <5>5. g \in P[k].waiting \/ g \in DOMAIN P[k].achieved
          BY <1>0, <1>1, <5>3, <5>4 DEF ForAll, Of
        <5> QED
          BY <1>1, <3>1, <5>4, <5>5 DEF Awaits, Has
      <4> QED
        BY <4>2, <4>3
    <3> QED
      BY <1>16, <2>1, <2>2, <3>2, <3>3, KeptSame
  <2>4. CASE g = f /\ k \notin L
    <3>1. FALSE = Awaits(Root, k, g) /\ FALSE = Has(Root, k, g)
      BY <1>11, <2>4
    <3>2. Looked(c, g, k, FALSE, FALSE)
      BY <3>1 DEF Looked
    <3>3. Becomes(g, k, FALSE, FALSE)
      BY <1>10, <2>4, <3>1 DEF Becomes, Awaits, Has
    <3>4. Spared(V[n], g, k, FALSE \/ FALSE)
      BY <1>18, <2>2, <2>4, TouchAbout DEF Spared
    <3> QED
      BY <1>16, <2>1, <2>2, <3>2, <3>3, <3>4, KeptSame
  <2>5. CASE g = f /\ k \in L
    <3>1. n = c /\ Entered(V[c], f, L)
      BY <1>3, <1>17, <2>1, <2>5
    <3>2. PICK j : Lone(V[n], k, j) /\ V[n][j] = Announce(k, {f}, TRUE)
      BY <2>5, <3>1 DEF Entered
    <3>3. V[n][j] \in AnnTo(g, k)
      <4>1. V[n][j] \in DownMessages
        BY <1>18, <2>2, <3>2 DEF Lone
      <4> QED
        BY <2>5, <3>2, <4>1 DEF AnnTo, Announce
    <3>4. ~Awaits(Root, k, g) /\ ~Has(Root, k, g) /\ Awaits(Root, k, g)' /\ ~Has(Root, k, g)'
      BY <1>10, <1>11, <2>5
    <3>5. ~Some(up'[n], By(g, k))
      <4>1. ~Some(up[n], By(g, k))
        BY <1>22, <2>1, <3>4, NoAnswer
      <4> QED
        BY <1>16, <2>2, <4>1, RootTakesSome
    <3>6. Lone(V[n], k, j)
      BY <3>2
    <3> QED
      BY <1>16, <2>1, <2>2, <3>3, <3>4, <3>5, <3>6, KeptAnnounce
  <2> QED
    BY <2>3, <2>4, <2>5
<1>23. Membership'
  <2> SUFFICES ASSUME NEW g \in Federates PROVE Member(g)'
    BY DEF Membership
  <2>1. CASE g = f
    <3>1. f = Head(up[c]).fed /\ f \in srv'[Root].known
      BY <1>1, <1>7
    <3>2. Welcome(V[c], f) /\ (Parent[f] # Root => DOMAIN V[f] = {})
      BY <1>3, <1>17, <1>20
    <3>3. Member(f)'
      BY <1>2, <1>7, <1>16, <3>1, <3>2, JoinedMember
    <3> QED
      BY <2>1, <3>3
  <2>2. CASE g # f
    <3>1. \A n \in {g, Parent[g]} \ {Root} : ~Some(V[n], JoinedOf(g)) /\ ~Some(V[n], ResignedOf(g))
      <4> SUFFICES ASSUME NEW n \in {g, Parent[g]} \ {Root}
                   PROVE  ~Some(V[n], JoinedOf(g)) /\ ~Some(V[n], ResignedOf(g))
        OBVIOUS
      <4>1. n \in Nodes
        BY Tree
      <4> QED
        BY <1>18, <2>2, <4>1 DEF Some
    <3>2. g \in srv'[Root].known <=> g \in srv[Root].known
      BY <1>1, <1>7, <2>2
    <3>3. Head(up[c]) \notin JoinOf(g)
      BY <1>1, <1>3, <2>2
    <3> QED
      BY <1>7, <1>16, <3>1, <3>2, <3>3, RootMember
  <2> QED
    BY <2>1, <2>2
<1>24. ForAll'
  <2> SUFFICES ASSUME NEW k \in DOMAIN Q, Q[k].auto PROVE K \cup {f} \subseteq Of(Q[k])
    BY <1>6, <1>7 DEF ForAll, Of
  <2>1. k \in DOMAIN P /\ P[k].auto /\ k \in L
    BY <1>1, <1>8
  <2>2. K \subseteq Of(P[k])
    BY <1>0, <1>1, <2>1 DEF ForAll
  <2> QED
    BY <1>8, <2>1, <2>2 DEF Of
<1>25. SuccessIsReal'
  <2> SUFFICES ASSUME NEW s \in Servers, NEW k \in DOMAIN srv'[s].points,
                      NEW g \in DOMAIN srv'[s].points[k].achieved, srv'[s].points[k].achieved[g]
               PROVE  k \in DOMAIN amb'[g].done /\ amb'[g].done[k]
    BY DEF SuccessIsReal
  <2>1. /\ k \in DOMAIN srv[s].points /\ g \in DOMAIN srv[s].points[k].achieved
        /\ srv[s].points[k].achieved[g]
    <3>1. CASE s = Root
      BY <1>1, <1>6, <1>8, <3>1
    <3>2. CASE s # Root
      BY <1>7, <3>2, Tree
    <3> QED
      BY <3>1, <3>2
  <2> QED
    BY <1>0, <1>16, <2>1 DEF SuccessIsReal
<1> QED
  BY <1>2, <1>7, <1>9, <1>16, <1>19, <1>20, <1>21, <1>22, <1>23, <1>24, <1>25, RootStep

=============================================================================
