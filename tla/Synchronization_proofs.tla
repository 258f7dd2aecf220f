----------------------- MODULE Synchronization_proofs -----------------------
(***************************************************************************)
(* What a synchronization point is worth, for every tree of two levels,    *)
(* every number of federates, labels and registrations, and for federates  *)
(* that join and resign at any time.                                       *)
(*                                                                         *)
(* The invariant is that of Synchronization_invariant.  It remains that an *)
(* answer that is counted keeps it, and what a leaf server is told; then   *)
(* the theorems: a federate is told of success only if it succeeded        *)
(* (SuccessIsOwn), not before all have answered (SynchronizedAfterAll),    *)
(* and all federates of a point have been told of it when no message is on *)
(* its way (EverybodyTold).                                                *)
(***************************************************************************)
EXTENDS Synchronization_invariant

-----------------------------------------------------------------------------
(* Answers are counted *)

LEMMA AnswerType ==
  ASSUME NEW r
  PROVE  r \in Answers <=> DOMAIN r \subseteq Federates /\ r \in [DOMAIN r -> BOOLEAN]
<1>1. ASSUME r \in Answers PROVE DOMAIN r \subseteq Federates /\ r \in [DOMAIN r -> BOOLEAN]
  <2>1. PICK A \in SUBSET Federates : r \in [A -> BOOLEAN]
    BY <1>1 DEF Answers
  <2>2. DOMAIN r = A
    BY <2>1
  <2> QED
    BY <2>1, <2>2
<1>2. ASSUME DOMAIN r \subseteq Federates, r \in [DOMAIN r -> BOOLEAN] PROVE r \in Answers
  <2>1. PICK A : A = DOMAIN r
    OBVIOUS
  <2>2. A \in SUBSET Federates /\ r \in [A -> BOOLEAN]
    BY <1>2, <2>1
  <2> QED
    BY <2>2 DEF Answers
<1> QED
  BY <1>1, <1>2

\* R are the points P after those of r have answered for the labels L.
Counted(P, K, L, r, R) ==
  /\ IsPoints(R, K) /\ DOMAIN R = DOMAIN P
  /\ \A k \in DOMAIN P :
       /\ R[k].waiting = P[k].waiting \ (IF k \in L THEN DOMAIN r ELSE {})
       /\ DOMAIN R[k].achieved =
            DOMAIN P[k].achieved \cup (IF k \in L THEN DOMAIN r \cap P[k].waiting ELSE {})
       /\ R[k].auto = P[k].auto
       /\ \A g \in DOMAIN R[k].achieved :
            R[k].achieved[g] = IF g \in DOMAIN P[k].achieved THEN P[k].achieved[g] ELSE r[g]

LEMMA PointAnswered ==
  ASSUME NEW K, NEW p \in PointsOf(K), p.waiting \cap DOMAIN p.achieved = {}, NEW r \in Answers,
         NEW q, q = achieved(p, r)
  PROVE  /\ q \in PointsOf(K) /\ q.waiting \cap DOMAIN q.achieved = {}
         /\ q.waiting = p.waiting \ DOMAIN r
         /\ DOMAIN q.achieved = DOMAIN p.achieved \cup (DOMAIN r \cap p.waiting)
         /\ q.auto = p.auto
         /\ \A g \in DOMAIN q.achieved :
              q.achieved[g] = IF g \in DOMAIN p.achieved THEN p.achieved[g] ELSE r[g]
<1>1. /\ p = [waiting |-> p.waiting, achieved |-> p.achieved, auto |-> p.auto]
      /\ p.waiting \subseteq K /\ DOMAIN p.achieved \subseteq K
      /\ p.achieved \in [DOMAIN p.achieved -> BOOLEAN] /\ p.auto \in BOOLEAN
  BY PointType
<1>2. r \in [DOMAIN r -> BOOLEAN]
  BY AnswerType
<1>3. PICK W, A, B, o :
        /\ W = p.waiting \ DOMAIN r /\ A = p.achieved /\ B = [f \in DOMAIN r \cap p.waiting |-> r[f]]
        /\ o = Over(A, B)
  OBVIOUS
<1>4. q = [waiting |-> W, achieved |-> o, auto |-> p.auto]
  BY <1>1, <1>3 DEF achieved
<1>5. /\ q = [waiting |-> q.waiting, achieved |-> q.achieved, auto |-> q.auto]
      /\ q.waiting = W /\ q.achieved = o /\ q.auto = p.auto
  BY <1>4
<1>6. DOMAIN B = DOMAIN r \cap p.waiting /\ \A f \in DOMAIN B : B[f] = r[f]
  BY <1>3
<1>7. /\ DOMAIN o = DOMAIN A \cup DOMAIN B
      /\ \A x \in DOMAIN A \cup DOMAIN B : o[x] = IF x \in DOMAIN A THEN A[x] ELSE B[x]
      /\ o = [x \in DOMAIN o |-> o[x]]
  <2>1. o = Over(A, B)
    BY <1>3
  <2>2. /\ DOMAIN Over(A, B) = DOMAIN A \cup DOMAIN B
        /\ \A x \in DOMAIN A \cup DOMAIN B : Over(A, B)[x] = IF x \in DOMAIN A THEN A[x] ELSE B[x]
    BY DEF Over
  <2>3. Over(A, B) = [x \in DOMAIN Over(A, B) |-> Over(A, B)[x]]
    BY DEF Over
  <2> QED
    BY <2>1, <2>2, <2>3
<1>8. \A g \in DOMAIN o : o[g] = (IF g \in DOMAIN p.achieved THEN p.achieved[g] ELSE r[g]) /\ o[g] \in BOOLEAN
  BY <1>1, <1>2, <1>3, <1>6, <1>7
<1>9. o \in [DOMAIN o -> BOOLEAN]
  BY <1>7, <1>8
<1>10. q \in PointsOf(K)
  <2>1. q.waiting \subseteq K /\ DOMAIN q.achieved \subseteq K
    BY <1>1, <1>3, <1>5, <1>6, <1>7
  <2>2. q.achieved \in [DOMAIN q.achieved -> BOOLEAN] /\ q.auto \in BOOLEAN
    BY <1>1, <1>5, <1>9
  <2>3. q = [waiting |-> q.waiting, achieved |-> q.achieved, auto |-> q.auto]
    BY <1>5
  <2> QED
    BY <2>1, <2>2, <2>3, PointType
<1>11. q.waiting \cap DOMAIN q.achieved = {}
  BY <1>3, <1>5, <1>6, <1>7
<1> QED
  BY <1>3, <1>5, <1>6, <1>7, <1>8, <1>10, <1>11

LEMMA PointsCounted ==
  ASSUME NEW P, NEW K, IsPoints(P, K), NEW L, NEW r \in Answers, NEW R,
         R = [l \in DOMAIN P |-> IF l \in L THEN achieved(P[l], r) ELSE P[l]]
  PROVE  Counted(P, K, L, r, R)
<1>1. /\ DOMAIN P \subseteq Labels /\ IsFiniteSet(DOMAIN P)
      /\ \A l \in DOMAIN P : P[l] \in PointsOf(K) /\ P[l].waiting \cap DOMAIN P[l].achieved = {}
  BY DEF IsPoints
<1>2. DOMAIN R = DOMAIN P /\ \A l \in DOMAIN P : R[l] = IF l \in L THEN achieved(P[l], r) ELSE P[l]
  OBVIOUS
<1>3. ASSUME NEW l \in DOMAIN P
      PROVE  /\ R[l] \in PointsOf(K) /\ R[l].waiting \cap DOMAIN R[l].achieved = {}
             /\ R[l].waiting = P[l].waiting \ (IF l \in L THEN DOMAIN r ELSE {})
             /\ DOMAIN R[l].achieved =
                  DOMAIN P[l].achieved \cup (IF l \in L THEN DOMAIN r \cap P[l].waiting ELSE {})
             /\ R[l].auto = P[l].auto
             /\ \A g \in DOMAIN R[l].achieved :
                  R[l].achieved[g] = IF g \in DOMAIN P[l].achieved THEN P[l].achieved[g] ELSE r[g]
  <2>1. PICK p, q : p = P[l] /\ q = R[l]
    OBVIOUS
  <2>2. p \in PointsOf(K) /\ p.waiting \cap DOMAIN p.achieved = {}
    BY <1>1, <2>1
  <2>3. CASE l \in L
    <3>1. q = achieved(p, r)
      BY <1>2, <2>1, <2>3
    <3>2. /\ q \in PointsOf(K) /\ q.waiting \cap DOMAIN q.achieved = {}
          /\ q.waiting = p.waiting \ DOMAIN r
          /\ DOMAIN q.achieved = DOMAIN p.achieved \cup (DOMAIN r \cap p.waiting)
          /\ q.auto = p.auto
          /\ \A g \in DOMAIN q.achieved :
               q.achieved[g] = IF g \in DOMAIN p.achieved THEN p.achieved[g] ELSE r[g]
      BY <2>2, <3>1, PointAnswered
    <3> QED
      BY <2>1, <2>3, <3>2
  <2>4. CASE l \notin L
    <3>1. q = p
      BY <1>2, <2>1, <2>4
    <3> QED
      BY <2>1, <2>2, <2>4, <3>1
  <2> QED
    BY <2>3, <2>4
<1>4. IsPoints(R, K)
  BY <1>1, <1>2, <1>3 DEF IsPoints
<1> QED
  BY <1>2, <1>3, <1>4 DEF Counted

Remaining(P, K, C, Q) ==
  IsPoints(Q, K) /\ DOMAIN Q = DOMAIN P \ C /\ \A k \in DOMAIN Q : Q[k] = P[k]

LEMMA PointsWithout ==
  ASSUME NEW P, NEW K, IsPoints(P, K), NEW C, NEW Q, Q = Without(P, C)
  PROVE  Remaining(P, K, C, Q)
<1>1. DOMAIN Q = DOMAIN P \ C /\ \A k \in DOMAIN Q : Q[k] = P[k]
  BY DEF Without
<1>2. IsFiniteSet(DOMAIN Q)
  <2>1. IsFiniteSet(DOMAIN P) /\ DOMAIN Q \subseteq DOMAIN P
    BY <1>1 DEF IsPoints
  <2> QED
    BY <2>1, FS_Subset
<1> QED
  BY <1>1, <1>2 DEF IsPoints, Remaining

LEMMA EndMessage ==
  ASSUME NEW k \in Labels, NEW a \in Answers, NEW x, x = Synchronized(k, a)
  PROVE  /\ x \in DownMessages /\ x.type = "Synchronized" /\ x.label = k /\ x.pairs = a
         /\ x \in EndOf(k) /\ \A g : x \in EndTo(g, k) <=> g \in DOMAIN a
         /\ x \in About(k) /\ \A l : l # k => x \notin About(l) /\ x \notin EndOf(l)
         /\ \A g, l : x \notin AnnTo(g, l) /\ x \notin Announcing(g)
         /\ \A g : x \notin JoinedOf(g) /\ x \notin ResignedOf(g)
<1>1. x \in [type : {"Synchronized"}, label : Labels, pairs : Answers]
      /\ x.type = "Synchronized" /\ x.label = k /\ x.pairs = a
  BY DEF Synchronized
<1>2. x \in DownMessages
  BY <1>1 DEF DownMessages
<1> QED
  BY <1>1, <1>2 DEF EndOf, EndTo, About, AnnTo, Announcing, JoinedOf, ResignedOf

\* Child n of the root has federates of point k, which it is told the end of.
Ends(k, n, R) == n \in Children(Root) /\ Reached(Root, n) \cap DOMAIN R[k].achieved # {}

\* v tells n the end of the points C that it has federates of, and there may be messages of X.
Told(v, n, R, C, X) ==
  /\ v \in Seq(DownMessages)
  /\ \A i \in DOMAIN v :
       \/ v[i] \in X
       \/ \E k \in C : Ends(k, n, R) /\ v[i] = Synchronized(k, R[k].achieved)
  /\ \A k \in C : Ends(k, n, R) => \E j : Lone(v, k, j) /\ v[j] = Synchronized(k, R[k].achieved)

\* The answers of points are answers.
LEMMA PointAnswers ==
  ASSUME NEW R, NEW K, K \subseteq Federates, IsPoints(R, K), NEW k \in DOMAIN R
  PROVE  k \in Labels /\ R[k].achieved \in Answers /\ DOMAIN R[k].achieved \subseteq K
         /\ R[k].waiting \subseteq K /\ R[k].waiting \cap DOMAIN R[k].achieved = {}
<1>1. PICK p : p = R[k]
  OBVIOUS
<1>2. k \in Labels /\ p \in PointsOf(K) /\ p.waiting \cap DOMAIN p.achieved = {}
  BY <1>1 DEF IsPoints
<1>3. /\ p.waiting \subseteq K /\ DOMAIN p.achieved \subseteq K
      /\ p.achieved \in [DOMAIN p.achieved -> BOOLEAN]
  BY <1>2, PointType
<1>4. DOMAIN p.achieved \subseteq Federates
  BY <1>3
<1>5. p.achieved \in Answers
  BY <1>3, <1>4, AnswerType
<1> QED
  BY <1>1, <1>2, <1>3, <1>5

LEMMA SynchronizedAll ==
  ASSUME NEW R, NEW K, K \subseteq Federates, IsPoints(R, K), NEW L, L \subseteq DOMAIN R,
         NEW n \in Children(Root), NEW v, v = SynchronizedMessages(R, L)[n], NEW X
  PROVE  Told(v, n, R, Complete(R, L), X)
<1>1. PICK C, E, D, S :
        /\ C = Complete(R, L) /\ E = {k \in C : Reached(Root, n) \cap DOMAIN R[k].achieved # {}}
        /\ D = [k \in E |-> Synchronized(k, R[k].achieved)]
        /\ S = {Synchronized(k, R[k].achieved) : k \in E}
  OBVIOUS
<1>2. v = SetToSeq(S)
  BY <1>1 DEF SynchronizedMessages
<1>3. C \subseteq DOMAIN R /\ E \subseteq C
  BY <1>1 DEF Complete
<1>4. IsFiniteSet(E)
  <2>1. IsFiniteSet(DOMAIN R) /\ E \subseteq DOMAIN R
    BY <1>3 DEF IsPoints
  <2> QED
    BY <2>1, FS_Subset
<1>5. DOMAIN D = E /\ \A k \in E : D[k] = Synchronized(k, R[k].achieved)
  BY <1>1
<1>6. ASSUME NEW k \in E PROVE D[k] \in DownMessages /\ D[k].label = k
  <2>1. k \in Labels /\ R[k].achieved \in Answers
    BY <1>3, PointAnswers
  <2>2. PICK x, a : x = D[k] /\ a = R[k].achieved
    OBVIOUS
  <2>3. x = Synchronized(k, a)
    BY <1>5, <2>2
  <2>4. x \in DownMessages /\ x.label = k
    BY <2>1, <2>2, <2>3, EndMessage
  <2> QED
    BY <2>2, <2>4
<1>7. S = {D[k] : k \in E}
  BY <1>1, <1>5
<1>8. EachOnce(v, D)
  BY <1>2, <1>4, <1>5, <1>6, <1>7, InAnyOrder
<1>9. v \in Seq(DownMessages) /\ \A i \in DOMAIN v : \E k \in E : v[i] = D[k]
  BY <1>5, <1>8 DEF EachOnce
<1>10. \A k \in E : \E j : Lone(v, k, j) /\ v[j] = D[k]
  BY <1>5, <1>8 DEF EachOnce
<1>11. \A k : k \in E <=> k \in C /\ Ends(k, n, R)
  BY <1>1 DEF Ends
<1>12. \A i \in DOMAIN v : \E k \in C : Ends(k, n, R) /\ v[i] = Synchronized(k, R[k].achieved)
  BY <1>5, <1>9, <1>11
<1>13. \A k \in C : Ends(k, n, R) => \E j : Lone(v, k, j) /\ v[j] = Synchronized(k, R[k].achieved)
  BY <1>5, <1>10, <1>11
<1>14. Told(v, n, R, C, X)
  BY <1>9, <1>12, <1>13 DEF Told
<1> QED
  BY <1>1, <1>14

LEMMA ToldMore ==
  ASSUME NEW n, NEW R, NEW C, NEW X, NEW u, Told(u, n, R, C, X), NEW w \in Seq(DownMessages),
         \A i \in DOMAIN w : w[i] \in X, \A x \in X : \A l : x \notin About(l),
         NEW v, Grows(v, u, w)
  PROVE  Told(v, n, R, C, X)
<1>1. v \in Seq(DownMessages)
  <2>1. u \o w \in Seq(DownMessages)
    BY ConcatAt DEF Grows
  <2> QED
    BY <2>1 DEF Grows
<1>2. \A i \in DOMAIN v : v[i] \in X \/ \E k \in C : Ends(k, n, R) /\ v[i] = Synchronized(k, R[k].achieved)
  <2>1. PICK Y : Y = {x \in DownMessages :
                       x \in X \/ \E k \in C : Ends(k, n, R) /\ x = Synchronized(k, R[k].achieved)}
    OBVIOUS
  <2>2. \A i \in DOMAIN u : u[i] \in Y
    <3>1. \A i \in DOMAIN u : u[i] \in DownMessages
      BY ElementsIn DEF Grows
    <3> QED
      BY <2>1, <3>1 DEF Told
  <2>3. \A i \in DOMAIN w : w[i] \in Y
    <3>1. \A i \in DOMAIN w : w[i] \in DownMessages
      BY ElementsIn
    <3> QED
      BY <2>1, <3>1
  <2>4. u \in Seq(DownMessages)
    BY DEF Grows
  <2>5. \A i \in DOMAIN (u \o w) : (u \o w)[i] \in Y
    BY <2>2, <2>3, <2>4, ConcatIn
  <2> QED
    BY <2>1, <2>5 DEF Grows
<1>3. ASSUME NEW k \in C, Ends(k, n, R)
      PROVE  \E j : Lone(v, k, j) /\ v[j] = Synchronized(k, R[k].achieved)
  <2>1. PICK x : x = Synchronized(k, R[k].achieved)
    OBVIOUS
  <2>2. PICK j : Lone(u, k, j) /\ u[j] = x
    BY <1>3, <2>1 DEF Told
  <2>3. ~Some(w, About(k))
    BY DEF Some
  <2>4. Lone(u, k, j)
    BY <2>2
  <2>5. Lone(v, k, j) /\ v[j] = u[j]
    BY <2>3, <2>4, LoneBefore
  <2> QED
    BY <2>1, <2>2, <2>5
<1> QED
  BY <1>1, <1>2, <1>3 DEF Told

\* With the points R, there is a point k that g is waited for with, or that has its answer.
Waits(R, k, g) == k \in DOMAIN R /\ g \in R[k].waiting
Holds(R, k, g) == k \in DOMAIN R /\ g \in DOMAIN R[k].achieved

\* R are the points of the root when it has looked at the message of c.
RootCounts(c, R) ==
  \A k \in Labels, g \in Federates :
    /\ Awaits(Root, k, g) =>
         Waits(R, k, g) \/ (c = Toward(Root, g) /\ Head(up[c]) \in By(g, k) \cup ResignOf(g))
    /\ Active(g) => Looked(c, g, k, Waits(R, k, g), Holds(R, k, g))

\* When nobody is waited for, no answer is on its way.
LEMMA RootNews ==
  ASSUME NEW c, NEW V, RootSends(c, V), NEW R, RootCounts(c, R), NEW g \in Federates, NEW k \in Labels,
         Active(g), \A h \in Federates : ~Waits(R, k, h), NEW n, n = Toward(Root, g)
  PROVE  ~Some(up'[n], By(g, k))
<1>1. n \in Nodes /\ IInv
  BY TowardRoot DEF RootSends
<1>2. PICK q, q2 : q = up[n] /\ q2 = up'[n]
  OBVIOUS
<1>3. /\ q2 = (IF n = c THEN Tail(q) ELSE q)
      /\ q \in Seq(UpMessages) /\ q2 \in Seq(UpMessages)
      /\ n = c => q # <<>>
  BY <1>1, <1>2, RootTakes
<1>4. CASE Parent[g] = Root
  <2> SUFFICES ASSUME Some(q2, By(g, k)) PROVE FALSE
    BY <1>2
  <2>1. n = g /\ ~Resigned(g)
    BY <1>4, TowardRoot DEF Active
  <2>2. Some(q, By(g, k))
    BY <1>1, <1>2, RootTakesSome
  <2>3. Answering(g, k)
    BY <1>1 DEF IInv, Pending
  <2>4. Awaits(Root, k, g) /\ Single(q, By(g, k))
    BY <1>2, <1>4, <2>1, <2>2, <2>3 DEF Answering
  <2>5. c = n /\ Head(q) \in By(g, k) \cup ResignOf(g)
    BY <1>2, <2>4 DEF RootCounts
  <2>6. Head(q) \notin ResignOf(g)
    <3>1. MemberOK(g, amb[g].member, g \in srv[Root].known, g \in srv[Parent[g]].known,
                   g \in srv[Parent[g]].leaving, up[g], down[g], UpAbove(g), DownAbove(g))
      BY <1>1, MemberNow DEF IInv, Membership
    <3>2. ~Some(up[g], ResignOf(g))
      BY <2>1, <3>1 DEF MemberOK, Resigned
    <3> QED
      BY <1>2, <1>3, <2>1, <2>5, <3>2, SomeTail
  <2>7. ~Some(Tail(q), By(g, k))
    BY <1>3, <2>4, <2>5, <2>6, SingleTail
  <2> QED
    BY <1>3, <2>5, <2>7
<1>5. CASE Parent[g] # Root
  <2>1. n \in Leaves /\ AllNews(q, Awaited) /\ \A i \in DOMAIN q : q[i] \in UpOf(n)
    BY <1>1, <1>2, <1>5, TowardRoot, Tree DEF IInv, Fresh, Routed
  <2>2. PICK W2 : W2 = {x \in Labels \X Federates : Waits(R, x[1], x[2])}
    OBVIOUS
  <2>3. NewsKept(q, n = c, Awaited, W2)
    <3> SUFFICES ASSUME NEW l, NEW h, <<l, h>> \in Awaited, Some(q, By(h, l))
                 PROVE  <<l, h>> \in W2 \/ (n = c /\ (Head(q) \in By(h, l) \/ Head(q) \in ResignOf(h)))
      BY DEF NewsKept
    <3>1. l \in Labels /\ h \in Federates /\ Awaits(Root, l, h)
      BY DEF Awaited
    <3>2. h \in Below(n)
      BY <2>1 DEF Some, UpOf, By
    <3>3. Toward(Root, h) = n
      BY <2>1, <3>1, <3>2, TowardRoot
    <3>4. Waits(R, l, h) \/ (c = n /\ Head(up[c]) \in By(h, l) \cup ResignOf(h))
      BY <3>1, <3>3 DEF RootCounts
    <3>5. Waits(R, l, h) => <<l, h>> \in W2
      BY <2>2, <3>1
    <3> QED
      BY <1>2, <3>4, <3>5
  <2>4. PICK e : e = <<>>
    OBVIOUS
  <2>5. e \in Seq(UpMessages) /\ NewsAdded(q, e, W2)
    BY <2>4 DEF NewsAdded
  <2>6. AllNews(Shifted(q, n = c, e), W2)
    BY <1>3, <2>1, <2>3, <2>5, NewsShift
  <2>7. Shifted(q, n = c, e) = q2
    <3>1. Shifted(q, n = c, <<>>) = IF n = c THEN Tail(q) ELSE q
      BY <1>3, <2>4, <2>5, ShiftType
    <3> QED
      BY <1>3, <2>4, <3>1
  <2>8. AllNews(q2, W2)
    BY <2>6, <2>7
  <2> SUFFICES ASSUME Some(q2, By(g, k)) PROVE FALSE
    BY <1>2
  <2>9. PICK i \in DOMAIN q2 : q2[i].type = "Achieved" /\ q2[i].label = k
    BY DEF Some, By
  <2>10. PICK h \in Federates : <<k, h>> \in W2
    BY <2>8, <2>9 DEF AllNews, HasNews
  <2> QED
    BY <2>2, <2>10
<1> QED
  BY <1>4, <1>5

\* The points of C are complete and ended, the others kept.
LEMMA RootKeeps ==
  ASSUME NEW c, NEW V, RootSends(c, V), NEW R, RootCounts(c, R), NEW K, K = srv[Root].known,
         IsPoints(R, K), NEW C, C \subseteq DOMAIN R, \A k \in C : R[k].waiting = {},
         NEW X, X \subseteq {x \in DownMessages : ~Tells(x)},
         \A n \in Children(Root) : Told(V[n], n, R, C, X),
         \A n \in Nodes : n \notin Children(Root) => DOMAIN V[n] = {},
         NEW g \in Federates, NEW k \in Labels, Active(g),
         Awaits(Root, k, g)' <=> k \notin C /\ Waits(R, k, g),
         Has(Root, k, g)' <=> k \notin C /\ Holds(R, k, g)
  PROVE  Kept(g, k)
<1>0. PICK n : n = Toward(Root, g)
  OBVIOUS
<1>1. /\ n \in Nodes /\ IInv /\ K \subseteq Federates /\ Root \in Servers /\ srv[Root].leaving = {}
  <2>1. IInv
    BY DEF RootSends
  <2> QED
    BY <1>0, <2>1, RootServer, TowardRoot
<1>2. PICK v : v = V[n]
  OBVIOUS
<1>3. Looked(c, g, k, Waits(R, k, g), Holds(R, k, g))
  BY DEF RootCounts
<1>4. ASSUME NEW i \in DOMAIN v
      PROVE  \/ v[i] \in X
             \/ \E l \in C : n \in Children(Root) /\ Ends(l, n, R) /\ v[i] = Synchronized(l, R[l].achieved)
  <2>1. Told(v, n, R, C, X) /\ n \in Children(Root)
    BY <1>1, <1>2, <1>4
  <2> QED
    BY <2>1 DEF Told
<1>5. ASSUME NEW i \in DOMAIN v
      PROVE  /\ \A h, l : v[i] \notin AnnTo(h, l)
             /\ v[i] \in About(k) =>
                  /\ k \in C /\ Ends(k, n, R) /\ v[i] \in EndOf(k)
                  /\ v[i] \in EndTo(g, k) <=> g \in DOMAIN R[k].achieved
  <2>1. CASE v[i] \in X
    BY <2>1, NotTold, TouchAbout DEF Touch, AnnTo, Tells
  <2>2. CASE \E l \in C : n \in Children(Root) /\ Ends(l, n, R) /\ v[i] = Synchronized(l, R[l].achieved)
    <3>1. PICK l \in C : Ends(l, n, R) /\ v[i] = Synchronized(l, R[l].achieved)
      BY <2>2
    <3>2. PICK a, x : a = R[l].achieved /\ x = v[i]
      OBVIOUS
    <3>3. l \in Labels /\ a \in Answers
      BY <1>1, <3>2, PointAnswers
    <3>4. x = Synchronized(l, a)
      BY <3>1, <3>2
    <3>5. /\ x \in EndOf(l) /\ (x \in EndTo(g, l) <=> g \in DOMAIN a)
          /\ k # l => x \notin About(k)
          /\ \A h, j : x \notin AnnTo(h, j)
      BY <3>3, <3>4, EndMessage
    <3> QED
      BY <3>1, <3>2, <3>5
  <2> QED
    BY <1>4, <1>5, <2>1, <2>2
<1>6. CASE k \notin C
  <2>1. PICK W, A : W = Waits(R, k, g) /\ A = Holds(R, k, g)
    OBVIOUS
  <2>2. Looked(c, g, k, W, A)
    BY <1>3, <2>1
  <2>3. Becomes(g, k, W, A)
    <3>1. Awaits(Root, k, g)' <=> Waits(R, k, g)
      BY <1>6
    <3>2. Has(Root, k, g)' <=> Holds(R, k, g)
      BY <1>6
    <3>3. Awaits(Root, k, g)' = W
      BY <2>1, <3>1 DEF Awaits, Waits
    <3>4. Has(Root, k, g)' = A
      BY <2>1, <3>2 DEF Has, Holds
    <3> QED
      BY <3>3, <3>4 DEF Becomes
  <2>4. Spared(V[n], g, k, W \/ A)
    <3>1. \A i \in DOMAIN v : v[i] \notin About(k)
      BY <1>5, <1>6
    <3> QED
      BY <1>2, <3>1, TouchAbout DEF Spared
  <2> QED
    BY <1>0, <1>1, <2>2, <2>3, <2>4, KeptSame
<1>7. ASSUME k \in C
      PROVE  /\ k \in DOMAIN R /\ ~Waits(R, k, g) /\ (\A h \in Federates : ~Waits(R, k, h))
             /\ ~Awaits(Root, k, g)' /\ ~Has(Root, k, g)' /\ ~Some(up'[n], By(g, k))
  <2>1. k \in DOMAIN R /\ \A h \in Federates : ~Waits(R, k, h)
    BY <1>7 DEF Waits
  <2>2. ~Some(up'[n], By(g, k))
    BY <1>0, <2>1, RootNews
  <2> QED
    BY <1>7, <2>1, <2>2
<1>8. CASE k \in C /\ ~Ends(k, n, R)
  <2>1. g \notin DOMAIN R[k].achieved
    <3> SUFFICES ASSUME g \in DOMAIN R[k].achieved PROVE Ends(k, n, R)
      BY <1>8
    <3>1. g \in K
      BY <1>1, <1>7, <1>8, PointAnswers
    <3>2. g \in Reached(Root, n)
      BY <1>0, <1>1, <3>1, ChildrenOf
    <3>3. n \in Children(Root)
      <4>1. CASE Parent[g] = Root
        <5>1. n = g
          BY <1>0, <4>1, TowardRoot
        <5> QED
          BY <1>1, <3>1, <4>1, <5>1, ChildrenOf
      <4>2. CASE Parent[g] # Root
        BY <1>0, <1>1, <4>2, ChildrenOf, TowardRoot, Tree
      <4> QED
        BY <4>1, <4>2
    <3> QED
      BY <3>2, <3>3 DEF Ends
  <2>2. FALSE = Waits(R, k, g) /\ FALSE = Holds(R, k, g)
    BY <1>7, <1>8, <2>1 DEF Waits, Holds
  <2>3. Looked(c, g, k, FALSE, FALSE)
    BY <1>3, <2>2
  <2>4. Becomes(g, k, FALSE, FALSE)
    BY <1>7, <1>8 DEF Becomes, Awaits, Has
  <2>5. Spared(V[n], g, k, FALSE \/ FALSE)
    <3>1. \A i \in DOMAIN v : v[i] \notin About(k)
      BY <1>5, <1>8
    <3> QED
      BY <1>2, <3>1, TouchAbout DEF Spared
  <2> QED
    BY <1>0, <1>1, <2>3, <2>4, <2>5, KeptSame
<1>9. CASE k \in C /\ Ends(k, n, R)
  <2>1. n \in Children(Root) /\ Told(v, n, R, C, X)
    BY <1>2, <1>9 DEF Ends
  <2>2. PICK j : Lone(v, k, j) /\ v[j] = Synchronized(k, R[k].achieved)
    BY <1>9, <2>1 DEF Told
  <2>3. Lone(V[n], k, j) /\ j \in DOMAIN v
    BY <1>2, <2>2 DEF Lone
  <2>4. V[n][j] \in EndOf(k) /\ (V[n][j] \in EndTo(g, k) <=> g \in DOMAIN R[k].achieved)
    <3>1. PICK a, x : a = R[k].achieved /\ x = v[j]
      OBVIOUS
    <3>2. x = Synchronized(k, a)
      BY <2>2, <3>1
    <3>3. k \in Labels /\ a \in Answers
      BY <1>1, <1>7, <1>9, <3>1, PointAnswers
    <3>4. x \in EndOf(k) /\ (x \in EndTo(g, k) <=> g \in DOMAIN a)
      BY <3>2, <3>3, EndMessage
    <3> QED
      BY <1>2, <3>1, <3>4
  <2>5. PICK A : A = Holds(R, k, g)
    OBVIOUS
  <2>6. A <=> g \in DOMAIN R[k].achieved
    BY <1>7, <1>9, <2>5 DEF Holds
  <2>7. Looked(c, g, k, FALSE, A)
    <3>1. FALSE = Waits(R, k, g)
      BY <1>7, <1>9 DEF Waits
    <3> QED
      BY <1>3, <2>5, <3>1
  <2>8. Parent[g] = Root => A
    <3> SUFFICES ASSUME Parent[g] = Root PROVE A
      OBVIOUS
    <3>1. n = g
      BY <1>0, TowardRoot
    <3>2. PICK h \in DOMAIN R[k].achieved : h \in Reached(Root, g)
      BY <1>9, <3>1 DEF Ends
    <3>3. h \in Federates
      BY <1>1, <1>7, <1>9, <3>2, PointAnswers
    <3>4. Toward(Root, h) = g
      BY <3>2 DEF Reached
    <3>5. h = g
      BY <3>3, <3>4, TowardRoot, Tree
    <3> QED
      BY <2>6, <3>2, <3>5
  <2>9. ~Awaits(Root, k, g)' /\ ~Has(Root, k, g)' /\ ~Some(up'[n], By(g, k))
    BY <1>7, <1>9
  <2>10. V[n][j] \in EndTo(g, k) <=> A
    BY <2>4, <2>6
  <2>11. V[n][j] \in EndOf(k) /\ Lone(V[n], k, j)
    BY <2>3, <2>4
  <2>12. n \in Nodes
    BY <1>1
  <2>13. CASE A = TRUE
    <3>1. Looked(c, g, k, FALSE, TRUE) /\ V[n][j] \in EndTo(g, k)
      BY <2>7, <2>10, <2>13
    <3> QED
      BY <1>0, <2>9, <2>11, <2>12, <3>1, KeptEnd
  <2>14. CASE A = FALSE
    <3>1. Looked(c, g, k, FALSE, FALSE) /\ V[n][j] \notin EndTo(g, k) /\ Parent[g] # Root
      BY <2>7, <2>8, <2>10, <2>14
    <3> QED
      BY <1>0, <2>9, <2>11, <2>12, <3>1, KeptEnd
  <2>15. A \in BOOLEAN
    BY <2>5 DEF Holds
  <2> QED
    BY <2>13, <2>14, <2>15
<1> QED
  BY <1>6, <1>8, <1>9

\* The message of c answers for those of r, for the labels L.
OwnAnswers(c, r, L) ==
  \A g \in DOMAIN r, k \in L :
    c = Toward(Root, g) /\ (Head(up[c]) \in By(g, k) \/ (Head(up[c]) \in ResignOf(g) /\ ~Active(g)))

LEMMA CountedRoot ==
  ASSUME IInv, NEW c, NEW P, P = srv[Root].points, NEW K, NEW L, NEW r, NEW R, Counted(P, K, L, r, R),
         OwnAnswers(c, r, L)
  PROVE  RootCounts(c, R)
<1>1. /\ DOMAIN R = DOMAIN P
      /\ \A k \in DOMAIN P :
           /\ R[k].waiting = P[k].waiting \ (IF k \in L THEN DOMAIN r ELSE {})
           /\ DOMAIN R[k].achieved =
                DOMAIN P[k].achieved \cup (IF k \in L THEN DOMAIN r \cap P[k].waiting ELSE {})
  BY DEF Counted
<1> SUFFICES ASSUME NEW k \in Labels, NEW g \in Federates
             PROVE  /\ Awaits(Root, k, g) => Waits(R, k, g)
                         \/ (c = Toward(Root, g) /\ Head(up[c]) \in By(g, k) \cup ResignOf(g))
                    /\ Active(g) => Looked(c, g, k, Waits(R, k, g), Holds(R, k, g))
  BY DEF RootCounts
<1>2. Waits(R, k, g) \in BOOLEAN /\ Holds(R, k, g) \in BOOLEAN
  BY DEF Waits, Holds
<1>3. CASE k \in L /\ g \in DOMAIN r /\ Awaits(Root, k, g)
  <2>1. c = Toward(Root, g) /\ (Head(up[c]) \in By(g, k) \/ (Head(up[c]) \in ResignOf(g) /\ ~Active(g)))
    BY <1>3 DEF OwnAnswers
  <2>2. ~Waits(R, k, g) /\ Holds(R, k, g)
    BY <1>1, <1>3 DEF Waits, Holds, Awaits
  <2>3. Waits(R, k, g) = FALSE /\ Holds(R, k, g) = TRUE
    BY <1>2, <2>2
  <2>4. Head(up[c]) \in By(g, k) => Looked(c, g, k, Waits(R, k, g), Holds(R, k, g))
    BY <1>2, <1>3, <2>1, <2>3 DEF Looked
  <2> QED
    BY <2>1, <2>4
<1>4. CASE ~(k \in L /\ g \in DOMAIN r /\ Awaits(Root, k, g))
  <2>1. Waits(R, k, g) <=> Awaits(Root, k, g)
    BY <1>1, <1>4 DEF Waits, Awaits
  <2>2. Holds(R, k, g) <=> Has(Root, k, g)
    BY <1>1, <1>4 DEF Holds, Has, Awaits
  <2>3. Waits(R, k, g) = Awaits(Root, k, g) /\ Holds(R, k, g) = Has(Root, k, g)
    BY <2>1, <2>2 DEF Waits, Awaits, Holds, Has
  <2> QED
    BY <1>2, <2>1, <2>3 DEF Looked
<1> QED
  BY <1>3, <1>4

Truthful(r, L) == \A g \in DOMAIN r, k \in L : r[g] => Said(g, k)

LEMMA CountedReal ==
  ASSUME SuccessIsReal, NEW s \in Servers, NEW P, P = srv[s].points, NEW K, NEW L, NEW r, NEW R,
         Counted(P, K, L, r, R), Truthful(r, L),
         NEW k \in DOMAIN R, NEW g \in DOMAIN R[k].achieved, R[k].achieved[g]
  PROVE  Said(g, k)
<1>1. /\ k \in DOMAIN P
      /\ DOMAIN R[k].achieved =
           DOMAIN P[k].achieved \cup (IF k \in L THEN DOMAIN r \cap P[k].waiting ELSE {})
      /\ R[k].achieved[g] = IF g \in DOMAIN P[k].achieved THEN P[k].achieved[g] ELSE r[g]
  BY DEF Counted
<1>2. CASE g \in DOMAIN P[k].achieved
  BY <1>1, <1>2 DEF SuccessIsReal, Said
<1>3. CASE g \notin DOMAIN P[k].achieved
  BY <1>1, <1>3 DEF Truthful
<1> QED
  BY <1>2, <1>3

LEMMA CountedOf ==
  ASSUME NEW P, NEW K, NEW L, NEW r, NEW R, Counted(P, K, L, r, R), NEW k \in DOMAIN P
  PROVE  Of(R[k]) = Of(P[k]) /\ R[k].auto = P[k].auto
BY DEF Counted, Of

LEMMA ToldRouted ==
  ASSUME IInv, NEW R, IsPoints(R, srv[Root].known), NEW C, C \subseteq DOMAIN R, NEW X,
         NEW n \in Nodes, NEW v, Told(v, n, R, C, X), NEW i \in DOMAIN v, v[i] \notin X
  PROVE  v[i] \in DownOf(n) /\ \A g : v[i] \notin JoinedOf(g) /\ v[i] \notin ResignedOf(g)
<1>1. PICK k \in C : Ends(k, n, R) /\ v[i] = Synchronized(k, R[k].achieved)
  BY DEF Told
<1>2. PICK a, x : a = R[k].achieved /\ x = v[i]
  OBVIOUS
<1>3. k \in Labels /\ a \in Answers /\ DOMAIN a \subseteq Federates
  BY <1>2, RootServer, PointAnswers
<1>4. x = Synchronized(k, a)
  BY <1>1, <1>2
<1>5. /\ x \in DownMessages /\ x.type = "Synchronized" /\ x.pairs = a
      /\ \A g : x \notin JoinedOf(g) /\ x \notin ResignedOf(g)
  BY <1>3, <1>4, EndMessage
<1>6. ASSUME n \in Federates PROVE n \in DOMAIN a
  <2>1. PICK h \in DOMAIN a : h \in Reached(Root, n)
    BY <1>1, <1>2 DEF Ends
  <2>2. h \in Federates /\ Toward(Root, h) = n
    BY <1>3, <2>1 DEF Reached
  <2>3. h = n
    BY <1>6, <2>2, TowardRoot, Tree
  <2> QED
    BY <2>1, <2>3
<1>7. x \in DownOf(n)
  BY <1>5, <1>6 DEF DownOf
<1> QED
  BY <1>2, <1>5, <1>7

LEMMA AchievedAt ==
  ASSUME IInv, NEW c \in Nodes, NEW s, Arrived(s, c, "Achieved"), NEW m, m = Head(up[c]),
         NEW l, l = m.label, NEW r, r = m.pairs
  PROVE  /\ m \in UpMessages /\ m.type = "Achieved" /\ l \in Labels /\ r \in Answers
         /\ DOMAIN r \subseteq Below(c) /\ DOMAIN r \subseteq Federates
         /\ \A g \in DOMAIN r : m \in By(g, l) /\ (s = Root => c = Toward(Root, g))
         /\ \A g, k : m \in By(g, k) => g \in DOMAIN r /\ k = l
         /\ \A g : m \notin JoinOf(g) /\ m \notin ResignOf(g)
         /\ \A g \in DOMAIN r : r[g] => Said(g, l)
<1>1. /\ m \in UpMessages /\ m.type = "Achieved" /\ m \in UpOf(c)
      /\ up[c] \in Seq(UpMessages) /\ up[c] # <<>>
      /\ s = Root => c \in Leaves \/ (c \in Federates /\ Parent[c] = Root /\ Below(c) = {c})
  BY ArrivedAt
<1>2. m \in [type : {"Achieved"}, label : Labels, pairs : Answers]
  BY <1>1 DEF UpMessages
<1>3. l \in Labels /\ r \in Answers /\ DOMAIN r \subseteq Below(c)
  BY <1>1, <1>2 DEF UpOf
<1>4. DOMAIN r \subseteq Federates
  BY <1>3, AnswerType
<1>5. ASSUME NEW g \in DOMAIN r, s = Root PROVE c = Toward(Root, g)
  BY <1>1, <1>3, <1>4, <1>5, TowardRoot
<1>6. \A g : m \in By(g, l) <=> g \in DOMAIN r
  BY <1>1 DEF By
<1>7. Claim(m)
  <2>1. up[c][1] = m /\ 1 \in DOMAIN up[c]
    BY <1>1, TailAt
  <2>2. Claim(up[c][1])
    BY <2>1 DEF IInv, Claims
  <2> QED
    BY <2>1, <2>2
<1>8. \A g \in DOMAIN r : r[g] => Said(g, l)
  BY <1>1, <1>7 DEF Claim
<1> QED
  BY <1>1, <1>3, <1>4, <1>5, <1>6, <1>8 DEF By, JoinOf, ResignOf

LEMMA ServeRootAchieved ==
  ASSUME IInv, NEW c \in Nodes, RootServeAchieved(c)
  PROVE  IInv'
<1>0. ForAll /\ SuccessIsReal
  BY DEF IInv
<1>1. PICK m, l, L, r, K, P, R, C, t :
        /\ m = Head(up[c]) /\ l = m.label /\ L = {l} /\ r = m.pairs
        /\ K = srv[Root].known /\ P = srv[Root].points
        /\ R = AfterAchieved(Root, L, r) /\ C = Complete(R, L)
        /\ t = SynchronizedMessages(R, L)
  OBVIOUS
<1>2. /\ Arrived(Root, c, "Achieved") /\ FromChild(Root, c, <<>>, t) /\ l \in DOMAIN P
      /\ srv' = [srv EXCEPT ![Root].points = Without(R, C)]
  BY <1>1 DEF RootServeAchieved
<1>3. /\ l \in Labels /\ r \in Answers /\ DOMAIN r \subseteq Federates
      /\ \A g \in DOMAIN r : m \in By(g, l) /\ c = Toward(Root, g)
      /\ \A g : m \notin JoinOf(g)
      /\ \A g \in DOMAIN r : r[g] => Said(g, l)
  BY <1>1, <1>2, AchievedAt
<1>4. /\ K \subseteq Federates /\ IsPoints(P, K) /\ srv[Root].leaving = {}
      /\ DOMAIN srv = Servers /\ Root \in Servers
      /\ srv[Root] = [known |-> K, leaving |-> {}, points |-> P]
  BY <1>1, RootServer
<1>5. Counted(P, K, L, r, R) /\ IsPoints(R, K) /\ DOMAIN R = DOMAIN P
  <2>1. R = [k \in DOMAIN P |-> IF k \in L THEN achieved(P[k], r) ELSE P[k]]
    BY <1>1 DEF AfterAchieved
  <2>2. Counted(P, K, L, r, R)
    BY <1>3, <1>4, <2>1, PointsCounted
  <2> QED
    BY <2>2 DEF Counted
<1>6. C \subseteq DOMAIN R /\ \A k \in C : R[k].waiting = {}
  BY <1>1, <1>2, <1>5 DEF Complete
\* The server
<1>7. PICK Q : Q = srv'[Root].points
  OBVIOUS
<1>8. /\ DOMAIN srv' = Servers /\ \A s \in Leaves : srv'[s] = srv[s]
      /\ srv'[Root].known = K /\ srv'[Root].leaving = {}
      /\ srv'[Root] = [known |-> srv'[Root].known, leaving |-> srv'[Root].leaving, points |-> Q]
      /\ Q = Without(R, C)
  BY <1>1, <1>2, <1>4, <1>7, Tree
<1>9. IsPoints(Q, K) /\ DOMAIN Q = DOMAIN R \ C /\ \A k \in DOMAIN Q : Q[k] = R[k]
  <2>1. IsPoints(R, K) /\ Q = Without(R, C)
    BY <1>5, <1>8
  <2>2. Remaining(R, K, C, Q)
    BY <2>1, PointsWithout
  <2> QED
    BY <2>2 DEF Remaining
<1>10. IsServer(srv'[Root])
  BY <1>4, <1>7, <1>8, <1>9 DEF IsServer
<1>11. \A k, g : /\ Awaits(Root, k, g)' <=> k \notin C /\ Waits(R, k, g)
                 /\ Has(Root, k, g)' <=> k \notin C /\ Holds(R, k, g)
  BY <1>7, <1>9 DEF Awaits, Has, Waits, Holds
<1>12. RootCounts(c, R)
  <2>1. P = srv[Root].points /\ Counted(P, K, L, r, R)
    BY <1>1, <1>5
  <2>2. OwnAnswers(c, r, L)
    BY <1>1, <1>3 DEF OwnAnswers
  <2> QED
    BY <2>1, <2>2, CountedRoot
\* The messages
<1>13. PICK V : V = Given(t)
  OBVIOUS
<1>14. DOMAIN t = Children(Root)
  BY <1>1 DEF SynchronizedMessages
<1>15. ASSUME NEW n \in Children(Root) PROVE Told(t[n], n, R, C, {})
  <2>1. L \subseteq DOMAIN R
    BY <1>1, <1>2, <1>5
  <2>2. PICK v : v = t[n]
    OBVIOUS
  <2>3. v = SynchronizedMessages(R, L)[n]
    BY <1>1, <2>2
  <2>4. Told(v, n, R, Complete(R, L), {})
    BY <1>4, <1>5, <2>1, <2>3, SynchronizedAll
  <2> QED
    BY <1>1, <2>2, <2>4
<1>16. Shift({c}, {}, Given(NoMessages), V) /\ RootSends(c, V) /\ amb' = amb
  <2>1. \A n \in DOMAIN t : t[n] \in Seq(DownMessages)
    BY <1>14, <1>15 DEF Told
  <2> QED
    BY <1>2, <1>13, <2>1, RootShift
<1>17. /\ \A n \in Nodes : n \notin Children(Root) => DOMAIN V[n] = {} /\ \A X : ~Some(V[n], X)
       /\ \A n \in Children(Root) : n \in Nodes /\ Told(V[n], n, R, C, {})
  <2>1. Children(Root) \subseteq Nodes
    BY <1>4, ChildrenOf
  <2>2. \A n \in Nodes : n \notin DOMAIN t => DOMAIN V[n] = {} /\ \A X : ~Some(V[n], X)
    BY <1>13, GivenAt
  <2>3. \A n \in Children(Root) : n \in Nodes /\ V[n] = t[n]
    BY <1>13, <1>14, <2>1, GivenAt
  <2> QED
    BY <1>14, <1>15, <2>2, <2>3
<1>18. ASSUME NEW n \in Nodes, NEW i \in DOMAIN V[n]
       PROVE  V[n][i] \in DownOf(n) /\ \A g : V[n][i] \notin JoinedOf(g) /\ V[n][i] \notin ResignedOf(g)
  <2>1. PICK v : v = V[n]
    OBVIOUS
  <2>2. Told(v, n, R, C, {}) /\ i \in DOMAIN v /\ v[i] \notin {}
    BY <1>17, <1>18, <2>1
  <2>3. IsPoints(R, srv[Root].known)
    BY <1>1, <1>5
  <2>4. v[i] \in DownOf(n) /\ \A g : v[i] \notin JoinedOf(g) /\ v[i] \notin ResignedOf(g)
    BY <1>6, <2>2, <2>3, ToldRouted
  <2> QED
    BY <2>1, <2>4
<1>19. \A n \in Nodes : \A i \in DOMAIN V[n] : V[n][i] \in DownOf(n)
  BY <1>18
<1>20. \A g \in Federates : Parent[g] # Root => DOMAIN V[g] = {}
  BY <1>4, <1>17, ChildrenOf, Tree
<1>21. KeepsWaiting(c)
  <2> SUFFICES ASSUME NEW k \in Labels, NEW g \in Federates, Awaits(Root, k, g)
               PROVE  Awaits(Root, k, g)' \/ (c = Toward(Root, g) /\ Head(up[c]) \in By(g, k) \cup ResignOf(g))
    BY DEF KeepsWaiting
  <2>1. Waits(R, k, g) => k \notin C
    BY <1>6 DEF Waits
  <2> QED
    BY <1>11, <1>12, <2>1 DEF RootCounts
<1>22. ASSUME NEW g \in Federates, NEW k \in Labels, Active(g) PROVE Kept(g, k)
  <2>1. K = srv[Root].known /\ IsPoints(R, K) /\ {} \subseteq {x \in DownMessages : ~Tells(x)}
    BY <1>1, <1>5
  <2>2. /\ \A n \in Children(Root) : Told(V[n], n, R, C, {})
        /\ \A n \in Nodes : n \notin Children(Root) => DOMAIN V[n] = {}
    BY <1>17
  <2>3. /\ Awaits(Root, k, g)' <=> k \notin C /\ Waits(R, k, g)
        /\ Has(Root, k, g)' <=> k \notin C /\ Holds(R, k, g)
    BY <1>11
  <2> QED
    BY <1>6, <1>12, <1>16, <1>22, <2>1, <2>2, <2>3, RootKeeps
<1>23. Membership'
  <2> SUFFICES ASSUME NEW g \in Federates PROVE Member(g)'
    BY DEF Membership
  <2>1. \A n \in {g, Parent[g]} \ {Root} : ~Some(V[n], JoinedOf(g)) /\ ~Some(V[n], ResignedOf(g))
    <3> SUFFICES ASSUME NEW n \in {g, Parent[g]} \ {Root}
                 PROVE  ~Some(V[n], JoinedOf(g)) /\ ~Some(V[n], ResignedOf(g))
      OBVIOUS
    <3>1. n \in Nodes
      BY Tree
    <3> QED
      BY <1>18, <3>1 DEF Some
  <2>2. g \in srv'[Root].known <=> g \in srv[Root].known
    BY <1>1, <1>8
  <2>3. Head(up[c]) \notin JoinOf(g)
    BY <1>1, <1>3
  <2> QED
    BY <1>8, <1>16, <2>1, <2>2, <2>3, RootMember
<1>24. ForAll'
  <2> SUFFICES ASSUME NEW k \in DOMAIN Q, Q[k].auto PROVE K \subseteq Of(Q[k])
    BY <1>7, <1>8 DEF ForAll, Of
  <2>1. k \in DOMAIN P /\ Q[k] = R[k] /\ k \in DOMAIN R
    BY <1>5, <1>9
  <2>2. Of(R[k]) = Of(P[k]) /\ R[k].auto = P[k].auto
    BY <1>5, <2>1, CountedOf
  <2>3. K \subseteq Of(P[k])
    BY <1>0, <1>1, <2>1, <2>2 DEF ForAll
  <2> QED
    BY <2>1, <2>2, <2>3
<1>25. SuccessIsReal'
  <2> SUFFICES ASSUME NEW s \in Servers, NEW k \in DOMAIN srv'[s].points,
                      NEW g \in DOMAIN srv'[s].points[k].achieved, srv'[s].points[k].achieved[g]
               PROVE  k \in DOMAIN amb[g].done /\ amb[g].done[k]
    BY <1>16 DEF SuccessIsReal
  <2>1. CASE s = Root
    <3>1. k \in DOMAIN R /\ g \in DOMAIN R[k].achieved /\ R[k].achieved[g]
      BY <1>7, <1>9, <2>1
    <3>2. Truthful(r, L)
      BY <1>1, <1>3 DEF Truthful
    <3>3. Root \in Servers /\ P = srv[Root].points /\ Counted(P, K, L, r, R)
      BY <1>1, <1>4, <1>5
    <3>4. Said(g, k)
      BY <1>0, <3>1, <3>2, <3>3, CountedReal
    <3> QED
      BY <3>4 DEF Said
  <2>2. CASE s # Root
    <3>1. srv'[s] = srv[s]
      BY <1>8, <2>2, Tree
    <3> QED
      BY <1>0, <3>1 DEF SuccessIsReal
  <2> QED
    BY <2>1, <2>2
<1> QED
  BY <1>2, <1>8, <1>10, <1>16, <1>19, <1>20, <1>21, <1>22, <1>23, <1>24, <1>25, RootStep

\* The federate whose resignation reaches a server
LEMMA ResignAt ==
  ASSUME IInv, NEW c \in Nodes, NEW s, Arrived(s, c, "Resign"), NEW m, m = Head(up[c]), NEW f, f = m.fed
  PROVE  /\ m \in UpMessages /\ m.type = "Resign" /\ f \in Federates /\ m \in ResignOf(f)
         /\ \A g : m \notin JoinOf(g) /\ (g # f => m \notin ResignOf(g))
         /\ \A g, k : m \notin By(g, k)
         /\ Resigned(f) /\ f \in Below(c)
         /\ s = Root => c = Toward(Root, f) /\ ~Active(f)
         /\ s # Root => c = f
<1>1. /\ m \in UpMessages /\ m.type = "Resign" /\ m \in UpOf(c) /\ up[c] \in Seq(UpMessages) /\ up[c] # <<>>
      /\ s = Root => c \in Leaves \/ (c \in Federates /\ Parent[c] = Root /\ Below(c) = {c})
      /\ s # Root => /\ c \in Federates /\ c # Root /\ Parent[c] = s /\ s \in Leaves /\ s \in Nodes
                     /\ Below(c) = {c}
  BY ArrivedAt
<1>2. /\ f \in Below(c) /\ f \in Federates /\ m \in ResignOf(f)
      /\ \A g : m \notin JoinOf(g) /\ (g # f => m \notin ResignOf(g))
      /\ \A g, k : m \notin By(g, k)
  BY <1>1 DEF UpOf, UpMessages, JoinOf, ResignOf, By
<1>3. s = Root => c = Toward(Root, f)
  BY <1>1, <1>2, TowardRoot DEF Below
<1>4. s # Root => c = f
  BY <1>1, <1>2
<1>5. Some(up[c], ResignOf(f))
  BY <1>1, <1>2, SomeTail
<1>6. MemberOK(f, amb[f].member, f \in srv[Root].known, f \in srv[Parent[f]].known,
               f \in srv[Parent[f]].leaving, up[f], down[f], UpAbove(f), DownAbove(f))
  BY <1>2, MemberNow DEF IInv, Membership
<1>7. Some(up[f], ResignOf(f)) \/ Some(UpAbove(f), ResignOf(f))
  BY <1>2, <1>3, <1>4, <1>5, TowardRoot DEF UpAbove
<1>8. Resigned(f)
  BY <1>6, <1>7 DEF MemberOK, Resigned
<1>9. ASSUME s = Root PROVE ~Active(f)
  <2>1. CASE Parent[f] = Root
    BY <1>8, <2>1 DEF Active
  <2>2. CASE Parent[f] # Root
    <3>1. Some(UpAbove(f), ResignOf(f))
      BY <1>2, <1>3, <1>5, <1>9, <2>2, TowardRoot DEF UpAbove
    <3>2. f \in srv[Parent[f]].known => f \in srv[Parent[f]].leaving
      BY <1>6, <3>1 DEF MemberOK
    <3> QED
      BY <1>8, <2>2, <3>2 DEF Active, Here
  <2> QED
    BY <2>1, <2>2
<1> QED
  BY <1>1, <1>2, <1>3, <1>4, <1>8, <1>9

\* The queues of f after the root has served its resignation
LEMMA ResignedMember ==
  ASSUME NEW c, NEW V, RootSends(c, V), amb' = amb, Arrived(Root, c, "Resign"),
         \A s \in Leaves : srv'[s] = srv[s], srv'[Root].leaving = {},
         NEW f, f = Head(up[c]).fed, f \notin srv'[Root].known, ~Some(V[c], JoinedOf(f)),
         Parent[f] # Root => DOMAIN V[f] = {}
  PROVE  Member(f)'
<1>1. PICK m : m = Head(up[c])
  OBVIOUS
<1>2. m \in ResignOf(f) /\ f \in Federates /\ c = Toward(Root, f) /\ c \in Nodes
  BY <1>1, ResignAt DEF RootSends
<1>3. MemberOK(f, amb[f].member, f \in srv[Root].known, f \in srv[Parent[f]].known,
               f \in srv[Parent[f]].leaving, up[f], down[f], UpAbove(f), DownAbove(f))
  BY <1>2, MemberNow DEF RootSends, IInv, Membership
<1>4. PICK p, q, p2, q2, v : p = up[c] /\ q = down[c] /\ p2 = up'[c] /\ q2 = down'[c] /\ v = V[c]
  OBVIOUS
<1>5. p \in Seq(UpMessages) /\ p # <<>> /\ p2 = Tail(p) /\ Grows(q2, q, v) /\ Head(p) \in ResignOf(f)
  <2>1. /\ up'[c] = (IF c = c THEN Tail(up[c]) ELSE up[c])
        /\ up[c] \in Seq(UpMessages)
        /\ Grows(down'[c], down[c], V[c])
        /\ c = c => up[c] # <<>>
    BY <1>2, RootTakes
  <2> QED
    BY <1>1, <1>2, <1>4, <2>1
<1>6. q2 = q \o v /\ q \in Seq(DownMessages) /\ v \in Seq(DownMessages)
  BY <1>5 DEF Grows
<1>7. ~Some(v, JoinedOf(f))
  BY <1>4
<1>8. CASE Parent[f] = Root
  <2>1. c = f
    BY <1>2, <1>8, TowardRoot
  <2>2. MemberOK(f, amb[f].member, f \in srv[Root].known, f \in srv[Parent[f]].known,
                 f \in srv[Parent[f]].leaving, p, q, UpAbove(f), DownAbove(f))
    BY <1>3, <1>4, <2>1
  <2>4. MemberOK(f, amb[f].member, FALSE, FALSE, f \in srv[Parent[f]].leaving,
                 Tail(p), q \o v, UpAbove(f), DownAbove(f))
    BY <1>5, <1>6, <1>7, <2>2, MemberResignNear
  <2>5. FALSE = (f \in srv'[Root].known)
    OBVIOUS
  <2>8. FALSE = (f \in srv'[Parent[f]].known)
    BY <1>8, <2>5
  <2>9. srv[Parent[f]].leaving = srv'[Parent[f]].leaving
    <3>1. srv[Root].leaving = {}
      BY RootServer DEF RootSends
    <3> QED
      BY <1>8, <3>1
  <2>6. UpAbove(f) = <<>> /\ DownAbove(f) = <<>> /\ UpAbove(f)' = <<>> /\ DownAbove(f)' = <<>>
    BY <1>8 DEF UpAbove, DownAbove
  <2>7. Tail(p) = up'[f] /\ q \o v = down'[f]
    BY <1>4, <1>5, <1>6, <2>1
  <2> QED
    BY <2>4, <2>5, <2>6, <2>7, <2>8, <2>9 DEF Member
<1>9. CASE Parent[f] # Root
  <2>1. c = Parent[f] /\ c \in Leaves /\ f \in Nodes /\ f # c
    <3>1. f \in Federates /\ Parent[f] \in Leaves /\ f \in Nodes /\ f \notin Leaves
      BY <1>2, <1>9, Tree
    <3>2. c = Parent[f]
      BY <1>2, <1>9, <3>1, TowardRoot
    <3> QED
      BY <3>1, <3>2
  <2>2. MemberOK(f, amb[f].member, f \in srv[Root].known, f \in srv[Parent[f]].known,
                 f \in srv[Parent[f]].leaving, up[f], down[f], p, q)
    BY <1>3, <1>4, <1>9, <2>1 DEF UpAbove, DownAbove
  <2>4. MemberOK(f, amb[f].member, FALSE, f \in srv[Parent[f]].known,
                 f \in srv[Parent[f]].leaving, up[f], down[f], Tail(p), q \o v)
    BY <1>5, <1>6, <1>7, <2>2, MemberResignRoot
  <2>3. srv'[Parent[f]] = srv[Parent[f]]
    BY <2>1
  <2>8. FALSE = (f \in srv'[Root].known)
    OBVIOUS
  <2>5. FALSE = (f \in srv'[Root].known) /\ srv'[Parent[f]] = srv[Parent[f]]
    BY <2>3, <2>8
  <2>6. up'[f] = up[f] /\ down'[f] = down[f]
    <3>1. up'[f] = (IF f = c THEN Tail(up[f]) ELSE up[f]) /\ Grows(down'[f], down[f], V[f])
      BY <2>1, RootTakes
    <3>2. down'[f] = down[f] \o V[f] /\ down[f] \in Seq(DownMessages) /\ V[f] \in Seq(DownMessages)
      BY <3>1 DEF Grows
    <3>3. V[f] = <<>>
      BY <1>9, <3>2
    <3> QED
      BY <2>1, <3>1, <3>2, <3>3, EmptyEnd DEF RootSends, IInv
  <2>7. UpAbove(f)' = Tail(p) /\ DownAbove(f)' = q \o v
    BY <1>4, <1>5, <1>6, <1>9, <2>1 DEF UpAbove, DownAbove
  <2> QED
    BY <2>4, <2>5, <2>6, <2>7 DEF Member
<1> QED
  BY <1>8, <1>9

\* The answers of the root to a resignation: those to the points that it completes, then the notification
ResignAnswers(f, R, L) ==
  [n \in Children(Root) |->
     SynchronizedMessages(R, L)[n] \o IF n = Parent[f] THEN <<ResignNotify(f)>> ELSE <<>>]

LEMMA NotifyMessage ==
  ASSUME NEW f \in Federates, NEW x, x = ResignNotify(f)
  PROVE  /\ x \in DownMessages /\ ~Tells(x) /\ \A l : x \notin About(l)
         /\ \A g : x \notin JoinedOf(g) /\ (g # f => x \notin ResignedOf(g))
         /\ \A n : n \in Leaves /\ f \in Below(n) => x \in DownOf(n)
BY DEF ResignNotify, DownMessages, Tells, About, JoinedOf, ResignedOf, DownOf

LEMMA ResignTold ==
  ASSUME NEW R, NEW K, K \subseteq Federates, IsPoints(R, K), NEW L, L \subseteq DOMAIN R,
         NEW f \in Federates, NEW x, x = ResignNotify(f), NEW X, X = {x},
         NEW n \in Children(Root), NEW v, v = ResignAnswers(f, R, L)[n]
  PROVE  /\ Told(v, n, R, Complete(R, L), X)
         /\ n # Parent[f] => Told(v, n, R, Complete(R, L), {})
<1>1. PICK u, w, C : /\ u = SynchronizedMessages(R, L)[n] /\ C = Complete(R, L)
                     /\ w = IF n = Parent[f] THEN <<x>> ELSE <<>>
  OBVIOUS
<1>2. v = u \o w
  BY <1>1 DEF ResignAnswers
<1>3. x \in DownMessages /\ \A l : x \notin About(l)
  BY NotifyMessage
<1>4. Told(u, n, R, C, X) /\ Told(u, n, R, C, {})
  BY <1>1, SynchronizedAll
<1>5. u \in Seq(DownMessages)
  BY <1>4 DEF Told
<1>6. w \in Seq(DownMessages) /\ \A i \in DOMAIN w : w[i] \in X
  <2>1. CASE n = Parent[f]
    <3>1. w = <<x>>
      BY <1>1, <2>1
    <3>2. <<x>> \in Seq(DownMessages) /\ \A i \in DOMAIN <<x>> : <<x>>[i] = x
      BY <1>3, OneOf
    <3> QED
      BY <3>1, <3>2
  <2>2. CASE n # Parent[f]
    <3>1. w = <<>>
      BY <1>1, <2>2
    <3> QED
      BY <3>1
  <2> QED
    BY <2>1, <2>2
<1>7. Grows(v, u, w)
  BY <1>2, <1>5, <1>6 DEF Grows
<1>8. \A y \in X : \A l : y \notin About(l)
  BY <1>3
<1>9. Told(v, n, R, C, X)
  BY <1>4, <1>6, <1>7, <1>8, ToldMore
<1>10. ASSUME n # Parent[f] PROVE Told(v, n, R, C, {})
  <2>1. w = <<>>
    BY <1>1, <1>10
  <2>2. v = u
    BY <1>2, <1>5, <2>1, ConcatEmptySeq
  <2> QED
    BY <1>4, <2>2
<1> QED
  BY <1>1, <1>9, <1>10

LEMMA ServeRootResign ==
  ASSUME IInv, NEW c \in Nodes, RootServeResign(c)
  PROVE  IInv'
<1>0. ForAll /\ SuccessIsReal
  BY DEF IInv
<1>1. PICK m, f, r, K, P, L, R, C, t, x, X :
        /\ m = Head(up[c]) /\ f = m.fed /\ r = One(f, FALSE)
        /\ K = srv[Root].known /\ P = srv[Root].points /\ L = WaitsFor(Root, f)
        /\ R = AfterAchieved(Root, L, r) /\ C = Complete(R, L)
        /\ t = ResignAnswers(f, R, L)
        /\ x = ResignNotify(f) /\ X = {x}
  OBVIOUS
<1>2. /\ Arrived(Root, c, "Resign") /\ FromChild(Root, c, <<>>, t) /\ f \in K
      /\ srv' = [srv EXCEPT ![Root].known = @ \ {f}, ![Root].points = erase(Without(R, C), f)]
  BY <1>1 DEF RootServeResign, ResignAnswers
<1>3. /\ f \in Federates /\ m \in ResignOf(f) /\ f \in Below(c)
      /\ \A g : m \notin JoinOf(g) /\ (g # f => m \notin ResignOf(g))
      /\ c = Toward(Root, f) /\ ~Active(f)
  BY <1>1, <1>2, ResignAt
<1>4. /\ K \subseteq Federates /\ IsPoints(P, K) /\ srv[Root].leaving = {}
      /\ DOMAIN srv = Servers /\ Root \in Servers
      /\ srv[Root] = [known |-> K, leaving |-> {}, points |-> P]
  BY <1>1, RootServer
<1>30. DOMAIN r = {f} /\ r[f] = FALSE
  BY <1>1, OneAt
<1>31. r \in Answers
  BY <1>1, <1>3, <1>30, AnswerType DEF One
<1>32. L \subseteq DOMAIN P
  BY <1>1 DEF WaitsFor
<1>5. Counted(P, K, L, r, R) /\ IsPoints(R, K) /\ DOMAIN R = DOMAIN P
  <2>1. R = [k \in DOMAIN P |-> IF k \in L THEN achieved(P[k], r) ELSE P[k]]
    BY <1>1 DEF AfterAchieved
  <2>2. Counted(P, K, L, r, R)
    BY <1>31, <1>4, <2>1, PointsCounted
  <2> QED
    BY <2>2 DEF Counted
<1>6. C \subseteq DOMAIN R /\ \A k \in C : R[k].waiting = {}
  BY <1>1, <1>32, <1>5 DEF Complete
\* The server
<1>7. PICK Q, S, J : Q = srv'[Root].points /\ S = Without(R, C) /\ J = K \ {f}
  OBVIOUS
<1>8. /\ DOMAIN srv' = Servers /\ \A s \in Leaves : srv'[s] = srv[s]
      /\ srv'[Root].known = J /\ srv'[Root].leaving = {}
      /\ srv'[Root] = [known |-> srv'[Root].known, leaving |-> srv'[Root].leaving, points |-> Q]
      /\ Q = erase(S, f)
  BY <1>1, <1>2, <1>4, <1>7, Tree
<1>9. IsPoints(S, K) /\ DOMAIN S = DOMAIN R \ C /\ \A k \in DOMAIN S : S[k] = R[k]
  <2>1. IsPoints(R, K) /\ S = Without(R, C)
    BY <1>5, <1>7
  <2>2. Remaining(R, K, C, S)
    BY <2>1, PointsWithout
  <2> QED
    BY <2>2 DEF Remaining
<1>10. /\ IsPoints(Q, J) /\ DOMAIN Q = DOMAIN S
       /\ \A k \in DOMAIN S :
            /\ Q[k].waiting = S[k].waiting \ {f}
            /\ DOMAIN Q[k].achieved = DOMAIN S[k].achieved \ {f}
            /\ \A g \in DOMAIN S[k].achieved \ {f} : Q[k].achieved[g] = S[k].achieved[g]
            /\ Q[k].auto = S[k].auto
  BY <1>7, <1>8, <1>9, Erased
<1>11. J \subseteq K /\ J \subseteq Federates /\ f \notin J
  BY <1>4, <1>7
<1>12. IsServer(srv'[Root])
  BY <1>8, <1>10, <1>11 DEF IsServer
<1>13. \A k, g : g # f =>
         /\ Awaits(Root, k, g)' <=> k \notin C /\ Waits(R, k, g)
         /\ Has(Root, k, g)' <=> k \notin C /\ Holds(R, k, g)
  BY <1>7, <1>9, <1>10 DEF Awaits, Has, Waits, Holds
<1>14. RootCounts(c, R)
  <2>1. P = srv[Root].points /\ Counted(P, K, L, r, R)
    BY <1>1, <1>5
  <2>2. OwnAnswers(c, r, L)
    BY <1>1, <1>3, <1>30 DEF OwnAnswers
  <2> QED
    BY <2>1, <2>2, CountedRoot
\* The messages
<1>15. PICK V : V = Given(t)
  OBVIOUS
<1>16. DOMAIN t = Children(Root)
  BY <1>1 DEF ResignAnswers
<1>17. ASSUME NEW n \in Children(Root)
       PROVE  Told(t[n], n, R, C, X) /\ (n # Parent[f] => Told(t[n], n, R, C, {}))
  <2>1. L \subseteq DOMAIN R
    BY <1>5, <1>32
  <2>2. PICK v : v = t[n]
    OBVIOUS
  <2>3. v = ResignAnswers(f, R, L)[n]
    BY <1>1, <2>2
  <2>4. Told(v, n, R, Complete(R, L), X) /\ (n # Parent[f] => Told(v, n, R, Complete(R, L), {}))
    <3>1. /\ K \subseteq Federates /\ IsPoints(R, K) /\ f \in Federates /\ x = ResignNotify(f) /\ X = {x}
      BY <1>1, <1>3, <1>4, <1>5
    <3> QED
      BY <2>1, <2>3, <3>1, ResignTold
  <2> QED
    BY <1>1, <2>2, <2>4
<1>18. Shift({c}, {}, Given(NoMessages), V) /\ RootSends(c, V) /\ amb' = amb
  <2>1. \A n \in DOMAIN t : t[n] \in Seq(DownMessages)
    BY <1>16, <1>17 DEF Told
  <2> QED
    BY <1>2, <1>15, <2>1, RootShift
<1>19. /\ \A n \in Nodes : n \notin Children(Root) => DOMAIN V[n] = {} /\ \A Y : ~Some(V[n], Y)
       /\ \A n \in Children(Root) : n \in Nodes /\ Told(V[n], n, R, C, X)
       /\ \A n \in Children(Root) : n # Parent[f] => Told(V[n], n, R, C, {})
  <2>1. Children(Root) \subseteq Nodes
    BY <1>4, ChildrenOf
  <2>2. \A n \in Nodes : n \notin DOMAIN t => DOMAIN V[n] = {} /\ \A Y : ~Some(V[n], Y)
    BY <1>15, GivenAt
  <2>3. \A n \in Children(Root) : n \in Nodes /\ V[n] = t[n]
    BY <1>15, <1>16, <2>1, GivenAt
  <2> QED
    BY <1>16, <1>17, <2>2, <2>3
<1>20. ASSUME NEW n \in Nodes, NEW i \in DOMAIN V[n]
       PROVE  /\ V[n][i] \in DownOf(n)
              /\ \A g : V[n][i] \notin JoinedOf(g) /\ (g # f => V[n][i] \notin ResignedOf(g))
  <2>1. PICK v : v = V[n]
    OBVIOUS
  <2>2. n \in Children(Root) /\ i \in DOMAIN v /\ Told(v, n, R, C, X)
    BY <1>19, <1>20, <2>1
  <2>3. IsPoints(R, srv[Root].known)
    BY <1>1, <1>5
  <2>4. CASE v[i] \notin X
    <3>1. v[i] \in DownOf(n) /\ \A g : v[i] \notin JoinedOf(g) /\ v[i] \notin ResignedOf(g)
      BY <1>6, <2>2, <2>3, <2>4, ToldRouted
    <3> QED
      BY <2>1, <3>1
  <2>5. CASE v[i] \in X
    <3>1. v[i] = x
      BY <1>1, <2>5
    <3>2. n = Parent[f] \/ v[i] \notin {}
      OBVIOUS
    <3>3. CASE n = Parent[f]
      <4>1. n \in Leaves /\ f \in Below(n)
        BY <1>3, <3>3, Tree DEF Below
      <4>2. x \in DownOf(n) /\ \A g : x \notin JoinedOf(g) /\ (g # f => x \notin ResignedOf(g))
        BY <1>1, <1>3, <4>1, NotifyMessage
      <4> QED
        BY <2>1, <3>1, <4>2
    <3>4. CASE n # Parent[f]
      <4>1. Told(v, n, R, C, {}) /\ v[i] \notin {}
        BY <1>19, <2>1, <2>2, <3>4
      <4>2. v[i] \in DownOf(n) /\ \A g : v[i] \notin JoinedOf(g) /\ v[i] \notin ResignedOf(g)
        BY <1>6, <2>2, <2>3, <4>1, ToldRouted
      <4> QED
        BY <2>1, <4>2
    <3> QED
      BY <3>3, <3>4
  <2> QED
    BY <2>4, <2>5
<1>21. \A n \in Nodes : \A i \in DOMAIN V[n] : V[n][i] \in DownOf(n)
  BY <1>20
<1>22. \A g \in Federates : Parent[g] # Root => DOMAIN V[g] = {}
  BY <1>4, <1>19, ChildrenOf, Tree
<1>23. KeepsWaiting(c)
  <2> SUFFICES ASSUME NEW k \in Labels, NEW g \in Federates, Awaits(Root, k, g)
               PROVE  Awaits(Root, k, g)' \/ (c = Toward(Root, g) /\ Head(up[c]) \in By(g, k) \cup ResignOf(g))
    BY DEF KeepsWaiting
  <2>1. Waits(R, k, g) => k \notin C
    BY <1>6 DEF Waits
  <2>2. CASE g = f
    BY <1>1, <1>3, <2>2
  <2>3. CASE g # f
    BY <1>13, <1>14, <2>1, <2>3 DEF RootCounts
  <2> QED
    BY <2>2, <2>3
<1>24. ASSUME NEW g \in Federates, NEW k \in Labels, Active(g) PROVE Kept(g, k)
  <2>1. K = srv[Root].known /\ IsPoints(R, K) /\ X \subseteq {y \in DownMessages : ~Tells(y)}
    <3>1. x \in DownMessages /\ ~Tells(x)
      BY <1>1, <1>3, NotifyMessage
    <3> QED
      BY <1>1, <1>5, <3>1
  <2>2. /\ \A n \in Children(Root) : Told(V[n], n, R, C, X)
        /\ \A n \in Nodes : n \notin Children(Root) => DOMAIN V[n] = {}
    BY <1>19
  <2>3. g # f
    BY <1>3, <1>24
  <2>4. /\ Awaits(Root, k, g)' <=> k \notin C /\ Waits(R, k, g)
        /\ Has(Root, k, g)' <=> k \notin C /\ Holds(R, k, g)
    BY <1>13, <2>3
  <2> QED
    BY <1>6, <1>14, <1>18, <1>24, <2>1, <2>2, <2>4, RootKeeps
<1>25. Membership'
  <2> SUFFICES ASSUME NEW g \in Federates PROVE Member(g)'
    BY DEF Membership
  <2>1. CASE g = f
    <3>1. c \in Nodes /\ ~Some(V[c], JoinedOf(f))
      BY <1>20 DEF Some
    <3>2. f = Head(up[c]).fed /\ f \notin srv'[Root].known /\ (Parent[f] # Root => DOMAIN V[f] = {})
      BY <1>1, <1>3, <1>8, <1>11, <1>22
    <3> QED
      BY <1>2, <1>8, <1>18, <2>1, <3>1, <3>2, ResignedMember
  <2>2. CASE g # f
    <3>1. \A n \in {g, Parent[g]} \ {Root} : ~Some(V[n], JoinedOf(g)) /\ ~Some(V[n], ResignedOf(g))
      <4> SUFFICES ASSUME NEW n \in {g, Parent[g]} \ {Root}
                   PROVE  ~Some(V[n], JoinedOf(g)) /\ ~Some(V[n], ResignedOf(g))
        OBVIOUS
      <4>1. n \in Nodes
        BY Tree
      <4> QED
        BY <1>20, <2>2, <4>1 DEF Some
    <3>2. g \in srv'[Root].known <=> g \in srv[Root].known
      BY <1>1, <1>7, <1>8, <2>2
    <3>3. Head(up[c]) \notin JoinOf(g)
      BY <1>1, <1>3
    <3> QED
      BY <1>8, <1>18, <3>1, <3>2, <3>3, RootMember
  <2> QED
    BY <2>1, <2>2
<1>26. ForAll'
  <2> SUFFICES ASSUME NEW k \in DOMAIN Q, Q[k].auto PROVE J \subseteq Of(Q[k])
    BY <1>7, <1>8 DEF ForAll, Of
  <2>1. k \in DOMAIN P /\ k \in DOMAIN S /\ S[k] = R[k] /\ k \in DOMAIN R
    BY <1>5, <1>9, <1>10
  <2>2. Of(R[k]) = Of(P[k]) /\ R[k].auto = P[k].auto
    BY <1>5, <2>1, CountedOf
  <2>3. K \subseteq Of(P[k])
    BY <1>0, <1>1, <1>10, <2>1, <2>2 DEF ForAll
  <2>4. Of(Q[k]) = Of(R[k]) \ {f}
    BY <1>10, <2>1 DEF Of
  <2> QED
    BY <1>7, <2>2, <2>3, <2>4
<1>27. SuccessIsReal'
  <2> SUFFICES ASSUME NEW s \in Servers, NEW k \in DOMAIN srv'[s].points,
                      NEW g \in DOMAIN srv'[s].points[k].achieved, srv'[s].points[k].achieved[g]
               PROVE  k \in DOMAIN amb[g].done /\ amb[g].done[k]
    BY <1>18 DEF SuccessIsReal
  <2>1. CASE s = Root
    <3>1. k \in DOMAIN R /\ g \in DOMAIN R[k].achieved /\ R[k].achieved[g]
      BY <1>7, <1>9, <1>10, <2>1
    <3>2. Truthful(r, L)
      BY <1>30 DEF Truthful
    <3>3. Root \in Servers /\ P = srv[Root].points /\ Counted(P, K, L, r, R)
      BY <1>1, <1>4, <1>5
    <3>4. Said(g, k)
      BY <1>0, <3>1, <3>2, <3>3, CountedReal
    <3> QED
      BY <3>4 DEF Said
  <2>2. CASE s # Root
    <3>1. srv'[s] = srv[s]
      BY <1>8, <2>2, Tree
    <3> QED
      BY <1>0, <3>1 DEF SuccessIsReal
  <2> QED
    BY <2>1, <2>2
<1> QED
  BY <1>2, <1>8, <1>12, <1>18, <1>21, <1>22, <1>23, <1>24, <1>25, <1>26, <1>27, RootStep

-----------------------------------------------------------------------------
(* A leaf server counts the answer of a federate *)

\* What a leaf server tells the root of the points C that are complete, and messages of X; the
\* first that is said of a point
Reports(v, C, R, X) ==
  /\ v \in Seq(UpMessages)
  /\ \A i \in DOMAIN v :
       \/ v[i] \in X
       \/ \E k \in C :
            /\ v[i] = Achieved(k, R[k].achieved)
            /\ \A j \in DOMAIN v : j < i => v[j].type = "Achieved" /\ v[j].label # k

LEMMA ReportMessage ==
  ASSUME NEW k \in Labels, NEW a \in Answers, NEW x, x = Achieved(k, a)
  PROVE  /\ x \in UpMessages /\ x.type = "Achieved" /\ x.label = k /\ x.pairs = a
         /\ \A g, l : x \in By(g, l) <=> g \in DOMAIN a /\ l = k
         /\ \A g : x \notin JoinOf(g) /\ x \notin ResignOf(g)
         /\ \A n : DOMAIN a \subseteq Below(n) /\ DOMAIN a # {} => x \in UpOf(n)
<1>1. /\ x.type = "Achieved" /\ x.label = k /\ x.pairs = a
      /\ x \in [type : {"Achieved"}, label : Labels, pairs : Answers]
  BY DEF Achieved
<1>2. x \in UpMessages
  BY <1>1 DEF UpMessages
<1> QED
  BY <1>1, <1>2 DEF By, JoinOf, ResignOf, UpOf

LEMMA ReportsAll ==
  ASSUME NEW R, NEW K, K \subseteq Federates, IsPoints(R, K), NEW L, L \subseteq DOMAIN R,
         NEW v, v = AchievedMessages(R, L)
  PROVE  Reports(v, Complete(R, L), R, {})
<1>1. PICK C : C = Complete(R, L)
  OBVIOUS
<1>2. C \subseteq DOMAIN R /\ IsFiniteSet(C)
  <2>1. C \subseteq DOMAIN R
    BY <1>1 DEF Complete
  <2>2. IsFiniteSet(DOMAIN R)
    BY DEF IsPoints
  <2> QED
    BY <2>1, <2>2, FS_Subset
<1>3. PICK D : D = [k \in C |-> Achieved(k, R[k].achieved)]
  OBVIOUS
<1>4. ASSUME NEW k \in C
      PROVE  /\ D[k] = Achieved(k, R[k].achieved)
             /\ D[k] \in UpMessages /\ D[k].type = "Achieved" /\ D[k].label = k
  <2>1. PICK a, x : a = R[k].achieved /\ x = D[k]
    OBVIOUS
  <2>2. k \in Labels /\ a \in Answers
    BY <1>2, <2>1, PointAnswers
  <2>3. x = Achieved(k, a)
    BY <1>3, <2>1
  <2>4. x \in UpMessages /\ x.type = "Achieved" /\ x.label = k
    BY <2>2, <2>3, ReportMessage
  <2> QED
    BY <2>1, <2>3, <2>4
<1>5. PICK S : S = {D[k] : k \in C}
  OBVIOUS
<1>6. v = SetToSeq(S)
  <2>1. S = {Achieved(l, R[l].achieved) : l \in C}
    BY <1>3, <1>5
  <2> QED
    BY <1>1, <2>1 DEF AchievedMessages
<1>7. IsFiniteSet(S)
  <2>1. PICK h : h = [k \in C |-> D[k]]
    OBVIOUS
  <2>2. h \in Surjection(C, S)
    BY <1>5, <2>1 DEF Surjection
  <2> QED
    BY <1>2, <2>2, FS_Surjection
<1>8. S \subseteq UpMessages
  BY <1>4, <1>5
<1>9. /\ v \in Seq(S) /\ v \in Seq(UpMessages)
      /\ \A i, j \in DOMAIN v : v[i] = v[j] => i = j
  BY <1>6, <1>7, <1>8, SetToSeqType, SetToSeqAll
<1>10. \A i \in DOMAIN v : v[i] \in S
  BY <1>9, ElementsIn
<1>11. ASSUME NEW i \in DOMAIN v
       PROVE  \E k \in C : /\ v[i] = Achieved(k, R[k].achieved)
                           /\ \A j \in DOMAIN v : j < i => v[j].type = "Achieved" /\ v[j].label # k
  <2>1. PICK k \in C : v[i] = D[k]
    BY <1>5, <1>10
  <2>2. ASSUME NEW j \in DOMAIN v, j < i PROVE v[j].type = "Achieved" /\ v[j].label # k
    <3>1. PICK n \in C : v[j] = D[n]
      BY <1>5, <1>10
    <3>2. v[j].type = "Achieved" /\ v[j].label = n
      BY <1>4, <3>1
    <3>3. n # k
      <4>1. DOMAIN v = 1 .. Len(v) /\ Len(v) \in Nat
        BY <1>9, LenProperties
      <4>2. i # j
        BY <2>2, <4>1
      <4> QED
        BY <1>9, <2>1, <3>1, <4>2
    <3> QED
      BY <3>2, <3>3
  <2> QED
    BY <1>4, <2>1, <2>2
<1> QED
  BY <1>1, <1>9, <1>11 DEF Reports

LEMMA ReportsMore ==
  ASSUME NEW R, NEW C, NEW u, Reports(u, C, R, {}), NEW x \in UpMessages, NEW X, X = {x},
         NEW w, w = <<x>>, NEW v, v = u \o w
  PROVE  Reports(v, C, R, X)
<1>1. u \in Seq(UpMessages) /\ w \in Seq(UpMessages) /\ DOMAIN w = {1} /\ w[1] = x
  BY OneOf DEF Reports
<1>2. /\ v \in Seq(UpMessages) /\ Len(v) = Len(u) + 1 /\ Len(u) \in Nat
      /\ DOMAIN u = 1 .. Len(u) /\ DOMAIN v = 1 .. Len(u) + 1
      /\ \A i \in 1 .. Len(u) : v[i] = u[i]
      /\ v[Len(u) + 1] = x
  <2>1. v = Append(u, x)
    BY <1>1, AppendIsConcat
  <2> QED
    BY <1>1, <2>1, AppendAt
<1>3. ASSUME NEW i \in DOMAIN v, v[i] \notin X
      PROVE  \E k \in C : /\ v[i] = Achieved(k, R[k].achieved)
                          /\ \A j \in DOMAIN v : j < i => v[j].type = "Achieved" /\ v[j].label # k
  <2>1. i \in DOMAIN u /\ v[i] = u[i] /\ \A j \in DOMAIN v : j < i => j \in DOMAIN u /\ v[j] = u[j]
    BY <1>2, <1>3
  <2>2. PICK k \in C : /\ u[i] = Achieved(k, R[k].achieved)
                       /\ \A j \in DOMAIN u : j < i => u[j].type = "Achieved" /\ u[j].label # k
    BY <2>1 DEF Reports
  <2> QED
    BY <2>1, <2>2
<1> QED
  BY <1>2, <1>3 DEF Reports

\* Leaf server s counts the answer r of c to the labels L.
Counting(s, c, L, r, R) ==
  /\ s \in Leaves /\ c \in Federates /\ Parent[c] = s
  /\ Counted(srv[s].points, srv[s].known, L, r, R)
  /\ L \subseteq Labels
  /\ DOMAIN r = {c}
  /\ \A k \in L : Awaits(s, k, c)
  /\ Truthful(r, L)

LEMMA CountingNow ==
  ASSUME IInv, NEW s, NEW c, NEW L, NEW r, NEW R, Counting(s, c, L, r, R), NEW k, NEW g
  PROVE  /\ Waits(R, k, g) <=> Awaits(s, k, g) /\ ~(g = c /\ k \in L)
         /\ Holds(R, k, g) <=> Has(s, k, g) \/ (g = c /\ k \in L)
<1>1. PICK P : P = srv[s].points
  OBVIOUS
<1>2. /\ DOMAIN R = DOMAIN P
      /\ \A l \in DOMAIN P :
           /\ R[l].waiting = P[l].waiting \ (IF l \in L THEN DOMAIN r ELSE {})
           /\ DOMAIN R[l].achieved =
                DOMAIN P[l].achieved \cup (IF l \in L THEN DOMAIN r \cap P[l].waiting ELSE {})
  BY <1>1 DEF Counting, Counted
<1>3. DOMAIN r = {c} /\ \A l \in L : l \in DOMAIN P /\ c \in P[l].waiting
  BY <1>1 DEF Counting, Awaits
<1>4. Waits(R, k, g) <=> Awaits(s, k, g) /\ ~(g = c /\ k \in L)
  BY <1>1, <1>2, <1>3 DEF Waits, Awaits
<1>5. Holds(R, k, g) <=> Has(s, k, g) \/ (g = c /\ k \in L)
  BY <1>1, <1>2, <1>3 DEF Holds, Has
<1> QED
  BY <1>4, <1>5

LEMMA CountingAt ==
  ASSUME IInv, NEW s, NEW c, NEW L, NEW r, NEW R, Counting(s, c, L, r, R), NEW k \in L
  PROVE  /\ c \in srv[s].known \ srv[s].leaving /\ Here(c) /\ Link(c, k)
         /\ Awaits(s, k, c) /\ ~Has(s, k, c) /\ Awaits(Root, k, c)
         /\ ~Some(up[s], By(c, k)) /\ ~Some(up[s], ResignOf(c)) /\ ~Some(down[s], Touch(c, k))
<1>1. s \in Leaves /\ s \in Servers /\ s # Root /\ c \in Federates /\ Parent[c] = s /\ k \in Labels
  BY Tree DEF Counting
<1>2. Awaits(s, k, c)
  BY DEF Counting
<1>3. c \in srv[s].known /\ ~Has(s, k, c)
  BY <1>1, <1>2, PointTypes DEF IInv
<1>4. c \notin srv[s].leaving
  BY <1>1, <1>2 DEF IInv, NotLeaving
<1>5. Here(c)
  BY <1>1, <1>3, <1>4 DEF Here
<1>6. Link(c, k)
  BY <1>1, <1>5 DEF IInv, Links
<1>7. Awaits(Root, k, c) /\ ~Some(up[s], By(c, k)) /\ ~Some(down[s], Touch(c, k))
  BY <1>1, <1>2, <1>6 DEF Link, LinkOK
<1>8. MemberOK(c, amb[c].member, c \in srv[Root].known, c \in srv[Parent[c]].known,
               c \in srv[Parent[c]].leaving, up[c], down[c], UpAbove(c), DownAbove(c))
  BY <1>1, MemberNow DEF IInv, Membership
<1>9. ~Some(up[s], ResignOf(c))
  BY <1>1, <1>3, <1>4, <1>8 DEF MemberOK, UpAbove
<1> QED
  BY <1>2, <1>3, <1>4, <1>5, <1>6, <1>7, <1>9

\* What is complete is not announced to a federate that has achieved it.
LEMMA CountingDone ==
  ASSUME IInv, NEW s, NEW c, NEW L, NEW r, NEW R, Counting(s, c, L, r, R), NEW k \in L,
         NEW g \in Federates, Parent[g] = s, Here(g), Holds(R, k, g)
  PROVE  ~Some(down[s], Touch(g, k))
<1>1. s # Root /\ k \in Labels
  BY Tree DEF Counting
<1>2. ~Some(down[s], Touch(c, k))
  BY CountingAt
<1>3. CASE g = c
  BY <1>2, <1>3
<1>4. CASE g # c
  <2>1. Has(s, k, g)
    BY <1>4, CountingNow
  <2>2. Link(g, k)
    BY <1>1 DEF IInv, Links
  <2>3. ~Some(down[s], EndOf(k))
    BY <1>2, SomeTouch
  <2>4. ~Some(down[s], AnnTo(g, k))
    BY <2>1, <2>2, <2>3 DEF Link, LinkOK
  <2> QED
    BY <2>3, <2>4, SomeTouch
<1> QED
  BY <1>3, <1>4

LEMMA CountingReports ==
  ASSUME IInv, NEW s, NEW c, NEW L, NEW r, NEW R, Counting(s, c, L, r, R),
         NEW C, C = Complete(R, L), NEW X, X \subseteq ResignOf(c), NEW v, Reports(v, C, R, X)
  PROVE  /\ v \in Seq(UpMessages)
         /\ \A i \in DOMAIN v : v[i] \in UpOf(s) /\ Claim(v[i])
         /\ NewsAdded(up[s], v, Awaited)
         /\ \A g, k : Some(v, By(g, k)) => k \in C /\ k \in L /\ Holds(R, k, g)
         /\ \A g : ~Some(v, JoinOf(g)) /\ (g # c => ~Some(v, ResignOf(g)))
<1>1. /\ s \in Leaves /\ s \in Servers /\ s # Root /\ c \in Federates /\ Parent[c] = s
      /\ L \subseteq Labels /\ Truthful(r, L)
      /\ Counted(srv[s].points, srv[s].known, L, r, R)
  BY Tree DEF Counting
<1>2. PICK K : K = srv[s].known
  OBVIOUS
<1>3. K \subseteq Federates /\ K \subseteq Below(s) /\ IsPoints(R, K)
  BY <1>1, <1>2 DEF IInv, Types, IsServer, Routed, Counted
<1>4. C \subseteq L /\ C \subseteq DOMAIN R
  <2>1. \A k \in L : k \in DOMAIN srv[s].points
    BY DEF Counting, Awaits
  <2>2. DOMAIN R = DOMAIN srv[s].points
    BY <1>1 DEF Counted
  <2> QED
    BY <2>1, <2>2 DEF Complete
<1>5. ASSUME NEW k \in C
      PROVE  /\ k \in Labels /\ R[k].achieved \in Answers /\ DOMAIN R[k].achieved \subseteq Below(s)
             /\ c \in DOMAIN R[k].achieved
             /\ \A g : g \in DOMAIN R[k].achieved <=> Holds(R, k, g)
  <2>1. k \in DOMAIN R /\ k \in L
    BY <1>4
  <2>2. k \in Labels /\ R[k].achieved \in Answers /\ DOMAIN R[k].achieved \subseteq K
    BY <1>3, <2>1, PointAnswers
  <2>3. Holds(R, k, c)
    BY <2>1, CountingNow
  <2> QED
    BY <1>3, <2>1, <2>2, <2>3 DEF Holds
<1>6. ASSUME NEW i \in DOMAIN v, NEW k \in C, v[i] = Achieved(k, R[k].achieved)
      PROVE  /\ v[i] \in UpMessages /\ v[i].type = "Achieved" /\ v[i].label = k
             /\ \A g, l : v[i] \in By(g, l) <=> Holds(R, k, g) /\ l = k
             /\ \A g : v[i] \notin JoinOf(g) /\ v[i] \notin ResignOf(g)
             /\ v[i] \in UpOf(s) /\ Claim(v[i])
  <2>1. PICK a, x : a = R[k].achieved /\ x = v[i]
    OBVIOUS
  <2>2. /\ k \in Labels /\ a \in Answers /\ DOMAIN a \subseteq Below(s) /\ DOMAIN a # {}
        /\ \A g : g \in DOMAIN a <=> Holds(R, k, g)
    BY <1>5, <2>1
  <2>3. x = Achieved(k, a)
    BY <1>6, <2>1
  <2>4. /\ x \in UpMessages /\ x.type = "Achieved" /\ x.label = k /\ x.pairs = a
        /\ \A g, l : x \in By(g, l) <=> g \in DOMAIN a /\ l = k
        /\ \A g : x \notin JoinOf(g) /\ x \notin ResignOf(g)
        /\ x \in UpOf(s)
    BY <2>2, <2>3, ReportMessage
  <2>5. Claim(x)
    <3> SUFFICES ASSUME NEW g \in DOMAIN a, a[g] PROVE Said(g, k)
      BY <2>4 DEF Claim
    <3>1. k \in DOMAIN R /\ g \in DOMAIN R[k].achieved /\ R[k].achieved[g]
      BY <1>4, <2>1
    <3>2. SuccessIsReal
      BY DEF IInv
    <3> QED
      BY <1>1, <3>1, <3>2, CountedReal
  <2> QED
    BY <2>1, <2>2, <2>4, <2>5
<1>7. /\ v \in Seq(UpMessages)
      /\ \A i \in DOMAIN v :
           \/ v[i] \in X
           \/ \E k \in C :
                /\ v[i] = Achieved(k, R[k].achieved)
                /\ \A j \in DOMAIN v : j < i => v[j].type = "Achieved" /\ v[j].label # k
  BY DEF Reports
<1>8. ASSUME NEW i \in DOMAIN v, v[i] \in X
      PROVE  /\ v[i] \in UpOf(s) /\ Claim(v[i]) /\ v[i].type # "Achieved"
             /\ \A g, k : v[i] \notin By(g, k)
             /\ \A g : v[i] \notin JoinOf(g) /\ (g # c => v[i] \notin ResignOf(g))
  <2>1. v[i] \in ResignOf(c) /\ c \in Below(s)
    BY <1>1, <1>8 DEF Below
  <2>2. v[i] \in UpMessages /\ v[i].type = "Resign" /\ v[i].fed = c
    BY <2>1 DEF ResignOf
  <2> QED
    BY <2>1, <2>2 DEF UpOf, Claim, By, JoinOf, ResignOf
<1>9. \A i \in DOMAIN v : v[i] \in UpOf(s) /\ Claim(v[i])
  BY <1>6, <1>7, <1>8
<1>10. NewsAdded(up[s], v, Awaited)
  <2> SUFFICES ASSUME NEW i \in DOMAIN v, v[i].type = "Achieved"
               PROVE  \E g \in Federates : /\ <<v[i].label, g>> \in Awaited /\ News(v, v[i].label, i, g)
                                           /\ ~Some(up[s], By(g, v[i].label)) /\ ~Some(up[s], ResignOf(g))
    BY DEF NewsAdded
  <2>1. PICK k \in C :
          /\ v[i] = Achieved(k, R[k].achieved)
          /\ \A j \in DOMAIN v : j < i => v[j].type = "Achieved" /\ v[j].label # k
    BY <1>7, <1>8
  <2>2. v[i].label = k /\ v[i] \in By(c, k) /\ k \in L /\ k \in Labels
    BY <1>4, <1>5, <1>6, <2>1
  <2>3. Awaits(Root, k, c) /\ ~Some(up[s], By(c, k)) /\ ~Some(up[s], ResignOf(c))
    BY <2>2, CountingAt
  <2>4. <<k, c>> \in Awaited
    BY <1>1, <2>2, <2>3 DEF Awaited
  <2>5. News(v, k, i, c)
    <3>1. \A j \in DOMAIN v : j < i => v[j] \notin By(c, k) /\ v[j] \notin ResignOf(c)
      BY <2>1 DEF By, ResignOf
    <3> QED
      BY <2>2, <3>1 DEF News
  <2> QED
    BY <1>1, <2>2, <2>3, <2>4, <2>5
<1>11. ASSUME NEW g, NEW k, Some(v, By(g, k)) PROVE k \in C /\ k \in L /\ Holds(R, k, g)
  <2>1. PICK i \in DOMAIN v : v[i] \in By(g, k)
    BY <1>11 DEF Some
  <2>2. PICK l \in C : v[i] = Achieved(l, R[l].achieved)
    BY <1>7, <1>8, <2>1
  <2> QED
    BY <1>4, <1>6, <2>1, <2>2
<1>12. \A g : ~Some(v, JoinOf(g)) /\ (g # c => ~Some(v, ResignOf(g)))
  BY <1>6, <1>7, <1>8 DEF Some
<1> QED
  BY <1>7, <1>9, <1>10, <1>11, <1>12

\* What becomes of server s in such a step
Counts(s, c, L, R) ==
  /\ DOMAIN srv' = Servers /\ \A x \in Servers : x # s => srv'[x] = srv[x]
  /\ srv'[s] = [known |-> srv[s].known, leaving |-> srv'[s].leaving, points |-> R]
  /\ srv[s].leaving \subseteq srv'[s].leaving /\ srv'[s].leaving \subseteq srv[s].leaving \cup {c}
  /\ c \in srv'[s].leaving => Resigned(c) /\ c \in srv[s].known
  /\ c \in srv'[s].leaving /\ c \notin srv[s].leaving => \A k \in Labels : Awaits(s, k, c) => k \in L

LEMMA LeafCounts ==
  ASSUME IInv, NEW s, NEW c \in Nodes, NEW L, NEW r, NEW R, Counting(s, c, L, r, R),
         NEW C, C = Complete(R, L), NEW X, X \subseteq ResignOf(c), NEW v, Reports(v, C, R, X),
         NEW U, U = UpOnly(s, v), NEW V, V = Given(NoMessages), Shift({c}, {}, U, V), amb' = amb,
         Counts(s, c, L, R), \A k \in L : Head(up[c]) \in By(c, k) \cup ResignOf(c),
         Membership', \A k \in L : ~Resigned(c) => Edge(c, k)'
  PROVE  IInv'
<1>0. /\ Types /\ Routed /\ Edges /\ Links /\ Labelled /\ Pending /\ Fresh /\ NotLeaving /\ ForAll
      /\ Claims /\ SuccessIsReal
  BY DEF IInv
<1>1. /\ s \in Leaves /\ s \in Servers /\ s \in Nodes /\ s # Root /\ Root \in Servers
      /\ c \in Federates /\ Parent[c] = s /\ s # c /\ s \notin Federates
      /\ L \subseteq Labels /\ DOMAIN r = {c} /\ Truthful(r, L)
      /\ Counted(srv[s].points, srv[s].known, L, r, R)
  BY Tree DEF Counting
<1>2. /\ v \in Seq(UpMessages)
      /\ \A i \in DOMAIN v : v[i] \in UpOf(s) /\ Claim(v[i])
      /\ NewsAdded(up[s], v, Awaited)
      /\ \A g, k : Some(v, By(g, k)) => k \in C /\ k \in L /\ Holds(R, k, g)
  BY CountingReports
<1>3. \A n \in Nodes : /\ n = s => U[n] = v
                       /\ n # s => DOMAIN U[n] = {} /\ \A Y : ~Some(U[n], Y)
                       /\ DOMAIN V[n] = {} /\ \A Y : ~Some(V[n], Y)
  BY UpOnlyAt, GivenNone
<1>4. /\ DOMAIN srv' = Servers /\ \A x \in Servers : x # s => srv'[x] = srv[x]
      /\ srv'[s].known = srv[s].known /\ srv'[s].points = R
      /\ srv'[s] = [known |-> srv[s].known, leaving |-> srv'[s].leaving, points |-> R]
      /\ srv[s].leaving \subseteq srv'[s].leaving /\ srv'[s].leaving \subseteq srv[s].leaving \cup {c}
      /\ c \in srv'[s].leaving => Resigned(c) /\ c \in srv[s].known
      /\ c \in srv'[s].leaving /\ c \notin srv[s].leaving => \A k \in Labels : Awaits(s, k, c) => k \in L
  BY DEF Counts
<1>5. srv'[Root] = srv[Root] /\ \A x \in Leaves : x # s => srv'[x] = srv[x]
  BY <1>1, <1>4, Tree
<1>6. \A x \in Servers : x # s => \A k, g : (Awaits(x, k, g)' <=> Awaits(x, k, g))
                                            /\ (Has(x, k, g)' <=> Has(x, k, g))
  BY <1>4 DEF Awaits, Has
<1>7. \A k, g : /\ Awaits(s, k, g)' <=> Awaits(s, k, g) /\ ~(g = c /\ k \in L)
                /\ Has(s, k, g)' <=> Has(s, k, g) \/ (g = c /\ k \in L)
  <2> SUFFICES ASSUME NEW k, NEW g
               PROVE  /\ Awaits(s, k, g)' <=> Awaits(s, k, g) /\ ~(g = c /\ k \in L)
                      /\ Has(s, k, g)' <=> Has(s, k, g) \/ (g = c /\ k \in L)
    OBVIOUS
  <2>1. (Awaits(s, k, g)' <=> Waits(R, k, g)) /\ (Has(s, k, g)' <=> Holds(R, k, g))
    BY <1>4 DEF Awaits, Has, Waits, Holds
  <2> QED
    BY <2>1, CountingNow
<1>8. \A k, g : Holds(R, k, g) <=> Has(s, k, g)'
  BY <1>4 DEF Has, Holds
\* The servers
<1>9. IsServer(srv'[s]) /\ srv'[s].known \subseteq Below(s)
  <2>1. IsPoints(R, srv[s].known) /\ IsServer(srv[s]) /\ srv[s].known \subseteq Below(s)
    BY <1>0, <1>1 DEF Counted, Types, Routed
  <2>2. srv[s].known \subseteq Federates /\ srv[s].leaving \subseteq srv[s].known
    BY <2>1 DEF IsServer
  <2>3. srv'[s].leaving \subseteq srv[s].known
    BY <1>4, <2>2
  <2> QED
    BY <1>4, <2>1, <2>2, <2>3 DEF IsServer
<1>10. Types' /\ Routed'
  <2>1. \A x \in Servers : IsServer(srv'[x])
    BY <1>0, <1>4, <1>9 DEF Types
  <2>2. /\ \A x \in Leaves : srv'[x].known \subseteq Below(x)
        /\ srv'[Root].leaving = {}
    BY <1>0, <1>5, <1>9 DEF Routed
  <2>3. \A n \in Nodes : /\ \A i \in DOMAIN U[n] : U[n][i] \in UpOf(n)
                         /\ \A i \in DOMAIN V[n] : V[n][i] \in DownOf(n)
    BY <1>2, <1>3
  <2> QED
    BY <1>0, <1>4, <2>1, <2>2, <2>3, ServeTypes
<1>11. NotLeaving'
  <2> SUFFICES ASSUME NEW x \in Leaves, NEW g \in srv'[x].leaving, NEW k \in Labels PROVE ~Awaits(x, k, g)'
    BY DEF NotLeaving
  <2>1. CASE x # s
    BY <1>0, <1>5, <2>1 DEF NotLeaving, Awaits
  <2>2. CASE x = s /\ g \in srv[s].leaving
    BY <1>0, <1>1, <1>7, <2>2 DEF NotLeaving
  <2>3. CASE x = s /\ g \notin srv[s].leaving
    BY <1>4, <1>7, <2>3
  <2> QED
    BY <2>1, <2>2, <2>3
<1>12. ForAll' /\ Labelled' /\ (\A f : Resigned(f)' <=> Resigned(f)) /\ (\A f, l : Said(f, l)' <=> Said(f, l))
  <2>1. ForAll'
    BY <1>0, <1>5 DEF ForAll, Of
  <2> QED
    BY <2>1, AmbStays
\* The federates and the leaf servers
<1>13. Edges'
  <2> SUFFICES ASSUME NEW g \in Federates, NEW k \in Labels, ~Resigned(g)' PROVE Edge(g, k)'
    BY DEF Edges
  <2>1. ~Resigned(g) /\ Edge(g, k) /\ g \in Nodes /\ g # s /\ Parent[g] \in Servers
    BY <1>0, <1>1, <1>12, Tree DEF Edges
  <2>2. CASE g = c /\ k \in L
    BY <2>1, <2>2
  <2>3. CASE ~(g = c /\ k \in L)
    <3>1. /\ Awaits(Parent[g], k, g)' <=> Awaits(Parent[g], k, g)
          /\ Has(Parent[g], k, g)' <=> Has(Parent[g], k, g)
      BY <1>6, <1>7, <2>1, <2>3
    <3>2. /\ k \in amb'[g].due <=> k \in amb[g].due
          /\ k \in DOMAIN amb'[g].done <=> k \in DOMAIN amb[g].done
      OBVIOUS
    <3>3. ~Some(U[g], By(g, k)) /\ DOMAIN V[g] = {} /\ (g \in {} => Head(down[g]) \notin Touch(g, k))
      BY <1>3, <2>1
    <3> QED
      BY <1>0, <2>1, <3>1, <3>2, <3>3, ShiftEdge
  <2> QED
    BY <2>2, <2>3
<1>14. up'[s] = up[s] \o v /\ down'[s] = down[s] /\ up[s] \in Seq(UpMessages)
  <2>3. /\ up[s] \in Seq(UpMessages) /\ down[s] \in Seq(DownMessages)
        /\ up'[s] = Shifted(up[s], s \in {c}, U[s]) /\ down'[s] = Shifted(down[s], s \in {}, V[s])
    BY <1>0, <1>1, ShiftAt
  <2>4. U[s] = v /\ V[s] = <<>>
    BY <1>1, <1>3, GivenNone
  <2>5. ~(s \in {c}) /\ ~(s \in {})
    BY <1>1
  <2>2. up'[s] = up[s] \o v /\ down'[s] = down[s] \o V[s]
    BY <2>3, <2>4, <2>5 DEF Shifted
  <2>1. up[s] \in Seq(UpMessages) /\ V[s] = <<>>
    BY <2>3, <2>4
  <2> QED
    BY <1>0, <1>1, <2>1, <2>2, EmptyEnd
<1>15. Links'
  <2> SUFFICES ASSUME NEW g \in Federates, NEW k \in Labels, Parent[g] # Root, Here(g)' PROVE Link(g, k)'
    BY DEF Links
  <2>1. Parent[g] \in Leaves /\ Parent[g] \in Nodes /\ Parent[g] \in Servers
    BY Tree
  <2>2. Here(g)
    BY <1>4, <1>12, <2>1 DEF Here
  <2>3. Link(g, k)
    BY <1>0, <2>2 DEF Links
  <2>4. CASE Parent[g] # s
    <3>1. PICK x : x = Parent[g]
      OBVIOUS
    <3>2. /\ Awaits(x, k, g)' <=> Awaits(x, k, g)
          /\ Has(x, k, g)' <=> Has(x, k, g)
          /\ Awaits(Root, k, g)' <=> Awaits(Root, k, g)
          /\ Has(Root, k, g)' <=> Has(Root, k, g)
      BY <1>1, <1>6, <2>1, <2>4, <3>1
    <3>3. ~Some(U[x], By(g, k)) /\ DOMAIN V[x] = {} /\ (x \in {} => Head(down[x]) \notin Touch(g, k))
      BY <1>3, <2>1, <2>4, <3>1
    <3> QED
      BY <1>0, <2>1, <2>3, <3>1, <3>2, <3>3, ShiftLink
  <2>5. CASE Parent[g] = s
    <3>1. PICK p, q, w, a, W, A, w2, a2 :
            /\ p = up[s] /\ q = down[s]
            /\ w = Awaits(s, k, g) /\ a = Has(s, k, g) /\ W = Awaits(Root, k, g) /\ A = Has(Root, k, g)
            /\ w2 = Awaits(s, k, g)' /\ a2 = Has(s, k, g)'
      OBVIOUS
    <3>2. LinkOK(g, k, FALSE, w, a, W, A, p, q)
      BY <2>3, <2>5, <3>1 DEF Link
    <3>3. LinkOK(g, k, FALSE, w2, a2, W, A, p, q)
      <4>1. CASE g = c /\ k \in L
        <5>1. w
          BY <3>1, <4>1, CountingAt
        <5>2. LinkOK(g, k, FALSE, FALSE, TRUE, W, A, p, q)
          BY <3>2, <5>1, LinkAnswer
        <5>3. ~w2 /\ a2
          BY <1>7, <3>1, <4>1
        <5>4. w2 \in BOOLEAN /\ a2 \in BOOLEAN
          BY <3>1 DEF Awaits, Has
        <5>5. w2 = FALSE /\ a2 = TRUE
          BY <5>3, <5>4
        <5> QED
          BY <5>2, <5>5
      <4>2. CASE ~(g = c /\ k \in L)
        <5>1. (w2 <=> w) /\ (a2 <=> a)
          BY <1>7, <3>1, <4>2
        <5>2. w2 \in BOOLEAN /\ a2 \in BOOLEAN /\ w \in BOOLEAN /\ a \in BOOLEAN
          BY <3>1 DEF Awaits, Has
        <5>3. w2 = w /\ a2 = a
          BY <5>1, <5>2
        <5> QED
          BY <3>2, <5>3
      <4> QED
        BY <4>1, <4>2
    <3>4. Some(v, By(g, k)) => a2 /\ ~Some(q, Touch(g, k))
      <4> SUFFICES ASSUME Some(v, By(g, k)) PROVE a2 /\ ~Some(q, Touch(g, k))
        OBVIOUS
      <4>1. k \in L /\ Holds(R, k, g)
        BY <1>2
      <4>2. a2
        BY <1>8, <3>1, <4>1
      <4>3. ~Some(down[s], Touch(g, k))
        BY <2>2, <2>5, <4>1, CountingDone
      <4> QED
        BY <3>1, <4>2, <4>3
    <3>5. p \in Seq(UpMessages) /\ v \in Seq(UpMessages)
      BY <1>2, <1>14, <3>1
    <3>6. LinkOK(g, k, FALSE, w2, a2, W, A, p \o v, q)
      BY <3>3, <3>4, <3>5, LinkSendUp
    <3>7. W = Awaits(Root, k, g)' /\ A = Has(Root, k, g)'
      BY <1>5, <3>1 DEF Awaits, Has
    <3>8. p \o v = up'[s] /\ q = down'[s]
      BY <1>14, <3>1
    <3>9. LinkOK(g, k, FALSE, Awaits(s, k, g)', Has(s, k, g)', Awaits(Root, k, g)', Has(Root, k, g)',
                 up'[s], down'[s])
      BY <3>1, <3>6, <3>7, <3>8
    <3> QED
      BY <2>5, <3>9 DEF Link
  <2> QED
    BY <2>4, <2>5
<1>16. Pending'
  <2> SUFFICES ASSUME NEW g \in Federates, NEW k \in Labels PROVE Answering(g, k)'
    BY DEF Pending
  <2>1. Answering(g, k) /\ g \in Nodes /\ g # s /\ Parent[g] \in Servers
    BY <1>0, <1>1, Tree DEF Pending
  <2>2. ~Some(U[g], By(g, k))
    BY <1>3, <2>1
  <2>3. Awaits(Parent[g], k, g)
          => Awaits(Parent[g], k, g)' \/ (g \in {c} /\ Head(up[g]) \in By(g, k) \cup ResignOf(g))
    <3>1. CASE g = c /\ k \in L
      BY <3>1
    <3>2. CASE ~(g = c /\ k \in L)
      BY <1>6, <1>7, <2>1, <3>2
    <3> QED
      BY <3>1, <3>2
  <2> QED
    BY <1>0, <2>1, <2>2, <2>3, ShiftAnswering
<1>17. Fresh'
  <2> SUFFICES ASSUME NEW x \in Leaves PROVE AllNews(up'[x], Awaited')
    BY DEF Fresh
  <2>1. Awaited' = Awaited
    BY <1>5 DEF Awaited, Awaits
  <2>2. \A k \in Labels, g \in Below(x) : Awaits(Root, k, g) =>
          \/ Awaits(Root, k, g)'
          \/ x \in {c} /\ (Head(up[x]) \in By(g, k) \/ Head(up[x]) \in ResignOf(g))
    BY <1>5 DEF Awaits
  <2>3. NewsAdded(up[x], U[x], Awaited')
    <3>1. CASE x = s
      BY <1>1, <1>2, <1>3, <2>1, <3>1
    <3>2. CASE x # s
      <4>1. DOMAIN U[x] = {}
        BY <1>3, <3>2, Tree
      <4> QED
        BY <4>1 DEF NewsAdded
    <3> QED
      BY <3>1, <3>2
  <2> QED
    BY <1>0, <2>2, <2>3, ShiftFresh
<1>18. Claims'
  <2>1. \A n \in Nodes : \A i \in DOMAIN U[n] : Claim(U[n][i])'
    <3> SUFFICES ASSUME NEW n \in Nodes, NEW i \in DOMAIN U[n] PROVE Claim(U[n][i])'
      OBVIOUS
    <3>1. n = s /\ U[n] = v
      BY <1>3
    <3>2. PICK y : y = U[n][i]
      OBVIOUS
    <3>3. Claim(y)
      BY <1>2, <3>1, <3>2
    <3>4. Claim(y)'
      BY <3>3 DEF Claim, Said
    <3> QED
      BY <3>2, <3>4 DEF Claim, Said
  <2> QED
    BY <1>0, <1>12, <2>1, ShiftClaims
<1>19. SuccessIsReal'
  <2> SUFFICES ASSUME NEW x \in Servers, NEW k \in DOMAIN srv'[x].points,
                      NEW g \in DOMAIN srv'[x].points[k].achieved, srv'[x].points[k].achieved[g]
               PROVE  k \in DOMAIN amb[g].done /\ amb[g].done[k]
    BY DEF SuccessIsReal
  <2>1. CASE x = s
    <3>1. k \in DOMAIN R /\ g \in DOMAIN R[k].achieved /\ R[k].achieved[g]
      BY <1>4, <2>1
    <3>2. Said(g, k)
      BY <1>0, <1>1, <3>1, CountedReal
    <3> QED
      BY <3>2 DEF Said
  <2>2. CASE x # s
    BY <1>0, <1>4, <2>2 DEF SuccessIsReal
  <2> QED
    BY <2>1, <2>2
<1> QED
  BY <1>10, <1>11, <1>12, <1>13, <1>15, <1>16, <1>17, <1>18, <1>19 DEF IInv

LEMMA ServeLeafAchieved ==
  ASSUME IInv, NEW s \in Leaves, NEW c \in Nodes, LeafServeAchieved(s, c)
  PROVE  IInv'
<1>0. Types /\ Membership /\ Edges /\ Pending
  BY DEF IInv
<1>1. PICK m, l, L, r, P, R, C, u, U, V, X :
        /\ m = Head(up[c]) /\ l = m.label /\ L = {l} /\ r = m.pairs
        /\ P = srv[s].points
        /\ R = AfterAchieved(s, L, r) /\ C = Complete(R, L)
        /\ u = AchievedMessages(R, L) /\ U = UpOnly(s, u) /\ V = Given(NoMessages) /\ X = {}
  OBVIOUS
<1>2. /\ Arrived(s, c, "Achieved") /\ FromChild(s, c, u, NoMessages) /\ l \in DOMAIN P
      /\ srv' = [srv EXCEPT ![s].points = R]
  BY <1>1 DEF LeafServeAchieved
<1>3. /\ s \in Servers /\ s \in Nodes /\ s # Root /\ s # c /\ c \in Federates /\ Parent[c] = s
      /\ Below(c) = {c} /\ up[c] # <<>> /\ up[c] \in Seq(UpMessages) /\ Head(up[c]) \in UpOf(c)
  BY <1>2, ArrivedAt, Tree
<1>4. /\ m \in UpMessages /\ l \in Labels /\ r \in Answers
      /\ \A g \in DOMAIN r : m \in By(g, l)
      /\ \A g : m \notin JoinOf(g) /\ m \notin ResignOf(g)
      /\ \A g \in DOMAIN r : r[g] => Said(g, l)
  BY <1>1, <1>2, AchievedAt
<1>5. DOMAIN r = {c}
  <2>1. m.type = "Achieved" /\ m \in UpOf(c)
    BY <1>1, <1>2, <1>3 DEF Arrived
  <2>2. DOMAIN r \subseteq Below(c) /\ DOMAIN r # {}
    BY <1>1, <2>1 DEF UpOf
  <2> QED
    BY <1>3, <2>2
<1>6. m \in By(c, l) /\ Some(up[c], By(c, l)) /\ Awaits(s, l, c)
  <2>1. m \in By(c, l)
    BY <1>4, <1>5
  <2>2. Some(up[c], By(c, l))
    BY <1>1, <1>3, <2>1, SomeTail
  <2>3. Answering(c, l)
    BY <1>0, <1>3, <1>4 DEF Pending
  <2> QED
    BY <1>3, <2>1, <2>2, <2>3 DEF Answering
<1>7. Counted(P, srv[s].known, L, r, R) /\ IsPoints(R, srv[s].known) /\ DOMAIN R = DOMAIN P
  <2>1. R = [k \in DOMAIN P |-> IF k \in L THEN achieved(P[k], r) ELSE P[k]]
    BY <1>1 DEF AfterAchieved
  <2>2. IsPoints(P, srv[s].known)
    BY <1>0, <1>1, <1>3 DEF Types, IsServer
  <2>3. Counted(P, srv[s].known, L, r, R)
    BY <1>4, <2>1, <2>2, PointsCounted
  <2> QED
    BY <2>3 DEF Counted
<1>8. Counting(s, c, L, r, R)
  <2>1. Truthful(r, L)
    BY <1>1, <1>4 DEF Truthful
  <2>2. L \subseteq Labels /\ \A k \in L : Awaits(s, k, c)
    BY <1>1, <1>4, <1>6
  <2> QED
    BY <1>1, <1>3, <1>5, <1>7, <2>1, <2>2 DEF Counting
<1>9. Reports(u, C, R, X)
  <2>1. srv[s].known \subseteq Federates /\ L \subseteq DOMAIN R
    BY <1>0, <1>1, <1>2, <1>3, <1>7 DEF Types, IsServer
  <2> QED
    BY <1>1, <1>7, <2>1, ReportsAll
<1>10. Shift({c}, {}, U, V) /\ amb' = amb
  <2>1. u \in Seq(UpMessages)
    BY <1>9 DEF Reports
  <2>2. \A n \in DOMAIN NoMessages : NoMessages[n] \in Seq(DownMessages)
    BY DEF NoMessages
  <2>3. Shift({c}, {}, U, V)
    BY <1>0, <1>1, <1>2, <1>3, <2>1, <2>2, FromChildShift
  <2> QED
    BY <1>2, <2>3 DEF FromChild
<1>11. /\ DOMAIN srv' = Servers /\ \A x \in Servers : x # s => srv'[x] = srv[x]
       /\ srv'[s] = [known |-> srv[s].known, leaving |-> srv[s].leaving, points |-> R]
       /\ DOMAIN srv = Servers
  BY <1>0, <1>2, <1>3 DEF Types, IsServer
<1>12. Counts(s, c, L, R)
  <2>1. c \in srv[s].leaving => Resigned(c) /\ c \in srv[s].known
    <3>1. MemberOK(c, amb[c].member, c \in srv[Root].known, c \in srv[Parent[c]].known,
                   c \in srv[Parent[c]].leaving, up[c], down[c], UpAbove(c), DownAbove(c))
      BY <1>0, <1>3, MemberNow DEF Membership
    <3>2. srv[s].leaving \subseteq srv[s].known
      BY <1>0, <1>3 DEF Types, IsServer
    <3> QED
      BY <1>3, <3>1, <3>2 DEF MemberOK, Resigned
  <2> QED
    BY <1>11, <2>1 DEF Counts
<1>13. \A k \in L : Head(up[c]) \in By(c, k) \cup ResignOf(c)
  BY <1>1, <1>6
<1>14. Membership'
  <2> SUFFICES ASSUME NEW g \in Federates PROVE Member(g)'
    BY DEF Membership
  <2>1. Member(g) /\ amb'[g].member = amb[g].member
    BY <1>0, <1>10 DEF Membership
  <2>2. /\ g \in srv'[Root].known <=> g \in srv[Root].known
        /\ g \in srv'[Parent[g]].known <=> g \in srv[Parent[g]].known
        /\ g \in srv'[Parent[g]].leaving <=> g \in srv[Parent[g]].leaving
    BY <1>3, <1>11, Tree
  <2>3. ~Some(u, JoinOf(g)) /\ ~Some(u, ResignOf(g))
    <3>1. ASSUME NEW i \in DOMAIN u PROVE u[i].type = "Achieved"
      <4>5. u[i] \in X \/ \E k \in C : u[i] = Achieved(k, R[k].achieved)
        BY <1>9 DEF Reports
      <4>6. u[i] \notin X
        BY <1>1
      <4>1. PICK k \in C : u[i] = Achieved(k, R[k].achieved)
        BY <4>5, <4>6
      <4>2. PICK x, y : x = u[i] /\ y = R[k].achieved
        OBVIOUS
      <4>3. x = Achieved(k, y)
        BY <4>1, <4>2
      <4>4. x.type = "Achieved"
        BY <4>3 DEF Achieved
      <4> QED
        BY <4>2, <4>4
    <3> QED
      BY <3>1 DEF Some, JoinOf, ResignOf
  <2>4. \A n \in {g, Parent[g]} \ {Root} :
           /\ n \in {c} => Head(up[n]) \notin JoinOf(g)
           /\ n \in {} => Head(down[n]) \notin JoinedOf(g)
           /\ ~Some(U[n], JoinOf(g)) /\ ~Some(U[n], ResignOf(g))
           /\ ~Some(V[n], JoinedOf(g)) /\ ~Some(V[n], ResignedOf(g))
    <3> SUFFICES ASSUME NEW n \in {g, Parent[g]} \ {Root}
                 PROVE  /\ n \in {c} => Head(up[n]) \notin JoinOf(g)
                        /\ ~Some(U[n], JoinOf(g)) /\ ~Some(U[n], ResignOf(g))
                        /\ ~Some(V[n], JoinedOf(g)) /\ ~Some(V[n], ResignedOf(g))
      OBVIOUS
    <3>1. n \in Nodes
      BY Tree
    <3>2. n = s => U[n] = u
      BY <1>1, <3>1, UpOnlyAt
    <3>3. n # s => \A Y : ~Some(U[n], Y)
      BY <1>1, <3>1, UpOnlyAt
    <3>4. \A Y : ~Some(V[n], Y)
      BY <1>1, <3>1, GivenNone
    <3>5. n \in {c} => Head(up[n]) \notin JoinOf(g)
      BY <1>1, <1>4
    <3> QED
      BY <2>3, <3>2, <3>3, <3>4, <3>5
  <2> QED
    BY <1>0, <1>10, <2>1, <2>2, <2>4, ShiftMember
<1>15. ASSUME NEW k \in L, ~Resigned(c) PROVE Edge(c, k)'
  <2>1. k = l /\ Edge(c, l) /\ c \in Nodes
    BY <1>0, <1>1, <1>3, <1>4, <1>15 DEF Edges
  <2>2. PICK p, q, w, a, W, A :
          /\ p = up[c] /\ q = down[c] /\ w = (l \in amb[c].due) /\ a = (l \in DOMAIN amb[c].done)
          /\ W = Awaits(s, l, c) /\ A = Has(s, l, c)
    OBVIOUS
  <2>3. LinkOK(c, l, TRUE, w, a, W, A, p, q)
    BY <1>3, <2>1, <2>2 DEF Edge
  <2>4. W /\ Some(p, By(c, l)) /\ p \in Seq(UpMessages) /\ p # <<>>
    BY <1>3, <1>6, <2>2
  <2>5. LinkOK(c, l, TRUE, w, a, FALSE, TRUE, p, q)
    BY <2>3, <2>4, LinkAnswered
  <2>6. LinkOK(c, l, TRUE, w, a, FALSE, TRUE, Tail(p), q)
    BY <2>4, <2>5, LinkTakeUp
  <2>7. up'[c] = Tail(up[c]) /\ down'[c] = down[c]
    BY <1>2, <1>3, <2>1 DEF FromChild, NoMessages
  <2>8. /\ Waits(R, l, c) <=> Awaits(s, l, c) /\ ~(c = c /\ l \in L)
        /\ Holds(R, l, c) <=> Has(s, l, c) \/ (c = c /\ l \in L)
    BY <1>8, CountingNow
  <2>9. ~Waits(R, l, c) /\ Holds(R, l, c) /\ srv'[s].points = R
    BY <1>1, <1>11, <2>8
  <2>10. ~Awaits(s, l, c)' /\ Has(s, l, c)'
    BY <2>9 DEF Waits, Holds, Awaits, Has
  <2>11. Awaits(s, l, c)' = FALSE /\ Has(s, l, c)' = TRUE
    BY <2>10 DEF Awaits, Has
  <2>12. /\ w = (l \in amb'[c].due) /\ a = (l \in DOMAIN amb'[c].done)
         /\ Tail(p) = up'[c] /\ q = down'[c]
    BY <1>10, <2>2, <2>7
  <2>13. LinkOK(c, l, TRUE, l \in amb'[c].due, l \in DOMAIN amb'[c].done,
                Awaits(s, l, c)', Has(s, l, c)', up'[c], down'[c])
    BY <2>6, <2>11, <2>12
  <2> QED
    BY <1>3, <2>1, <2>13 DEF Edge
<1>16. X \subseteq ResignOf(c)
  BY <1>1
<1> QED
  BY <1>1, <1>8, <1>9, <1>10, <1>12, <1>13, <1>14, <1>15, <1>16, LeafCounts

LEMMA ServeLeafResign ==
  ASSUME IInv, NEW s \in Leaves, NEW c \in Nodes, LeafServeResign(s, c)
  PROVE  IInv'
<1>0. Types /\ Membership /\ Edges /\ Pending
  BY DEF IInv
<1>1. PICK m, f, L, r, P, R, C, u, x, w, v, U, V, X :
        /\ m = Head(up[c]) /\ f = m.fed /\ r = One(f, FALSE)
        /\ P = srv[s].points /\ L = WaitsFor(s, f)
        /\ R = AfterAchieved(s, L, r) /\ C = Complete(R, L)
        /\ u = AchievedMessages(R, L) /\ x = ResignRequest(f) /\ w = <<x>> /\ v = u \o w
        /\ U = UpOnly(s, v) /\ V = Given(NoMessages) /\ X = {x}
  OBVIOUS
<1>2. /\ Arrived(s, c, "Resign") /\ FromChild(s, c, v, NoMessages) /\ f \in srv[s].known
      /\ srv' = [srv EXCEPT ![s].points = R, ![s].leaving = @ \cup {f}]
  BY <1>1 DEF LeafServeResign
<1>3. /\ s \in Servers /\ s \in Nodes /\ s # Root /\ s # c /\ c \in Federates /\ Parent[c] = s
      /\ up[c] # <<>> /\ up[c] \in Seq(UpMessages)
  BY <1>2, ArrivedAt, Tree
<1>4. /\ m \in UpMessages /\ f = c /\ m \in ResignOf(c) /\ Resigned(c)
      /\ \A g : m \notin JoinOf(g) /\ (g # c => m \notin ResignOf(g))
  BY <1>1, <1>2, <1>3, ResignAt
<1>5. DOMAIN r = {c} /\ r[c] = FALSE /\ r \in Answers
  <2>1. DOMAIN r = {c} /\ r[c] = FALSE
    BY <1>1, <1>4, OneAt
  <2>2. r \in [DOMAIN r -> BOOLEAN]
    BY <1>1, <2>1 DEF One
  <2> QED
    BY <1>3, <2>1, <2>2, AnswerType
<1>6. /\ srv[s].known \subseteq Federates /\ srv[s].leaving \subseteq srv[s].known
      /\ IsPoints(P, srv[s].known) /\ DOMAIN srv = Servers
      /\ srv[s] = [known |-> srv[s].known, leaving |-> srv[s].leaving, points |-> srv[s].points]
  BY <1>0, <1>1, <1>3 DEF Types, IsServer
<1>7. L \subseteq DOMAIN P /\ L \subseteq Labels /\ \A k : k \in L <=> Awaits(s, k, c)
  <2>1. L \subseteq DOMAIN P /\ \A k : k \in L <=> Awaits(s, k, c)
    BY <1>1, <1>4 DEF WaitsFor, Awaits
  <2>2. DOMAIN P \subseteq Labels
    BY <1>6 DEF IsPoints
  <2> QED
    BY <2>1, <2>2
<1>8. Counted(P, srv[s].known, L, r, R) /\ IsPoints(R, srv[s].known) /\ DOMAIN R = DOMAIN P
  <2>1. R = [k \in DOMAIN P |-> IF k \in L THEN achieved(P[k], r) ELSE P[k]]
    BY <1>1 DEF AfterAchieved
  <2>2. Counted(P, srv[s].known, L, r, R)
    BY <1>5, <1>6, <2>1, PointsCounted
  <2> QED
    BY <2>2 DEF Counted
<1>9. Counting(s, c, L, r, R)
  <2>1. Truthful(r, L)
    BY <1>5 DEF Truthful
  <2> QED
    BY <1>1, <1>3, <1>5, <1>7, <1>8, <2>1 DEF Counting
<1>10. x \in UpMessages /\ x \in ResignOf(c)
  BY <1>1, <1>3, <1>4 DEF ResignRequest, UpMessages, ResignOf
<1>11. X \subseteq ResignOf(c)
  BY <1>1, <1>10
<1>12. Reports(v, C, R, X)
  <2>1. Reports(u, C, R, {})
    BY <1>1, <1>6, <1>7, <1>8, ReportsAll
  <2>2. w = <<x>> /\ v = u \o w /\ X = {x}
    BY <1>1
  <2> QED
    BY <1>10, <2>1, <2>2, ReportsMore
<1>13. /\ v \in Seq(UpMessages)
       /\ \A g : ~Some(v, JoinOf(g)) /\ (g # c => ~Some(v, ResignOf(g)))
  <2>1. C = Complete(R, L)
    BY <1>1
  <2> QED
    BY <1>9, <1>11, <1>12, <2>1, CountingReports
<1>14. Shift({c}, {}, U, V) /\ amb' = amb
  <2>1. \A n \in DOMAIN NoMessages : NoMessages[n] \in Seq(DownMessages)
    BY DEF NoMessages
  <2>2. Shift({c}, {}, U, V)
    BY <1>0, <1>1, <1>2, <1>3, <1>13, <2>1, FromChildShift
  <2> QED
    BY <1>2, <2>2 DEF FromChild
<1>15. /\ DOMAIN srv' = Servers /\ \A y \in Servers : y # s => srv'[y] = srv[y]
       /\ srv'[s] = [known |-> srv[s].known, leaving |-> srv'[s].leaving, points |-> R]
       /\ srv'[s].leaving = srv[s].leaving \cup {c}
       /\ srv'[s].known = srv[s].known
  BY <1>2, <1>3, <1>4, <1>6
<1>16. Counts(s, c, L, R)
  BY <1>2, <1>4, <1>7, <1>15 DEF Counts
<1>17. \A k \in L : Head(up[c]) \in By(c, k) \cup ResignOf(c)
  BY <1>1, <1>4
<1>18. Member(c)'
  <2>1. PICK pf, ps : pf = up[c] /\ ps = up[s]
    OBVIOUS
  <2>2. MemberOK(c, amb[c].member, c \in srv[Root].known, c \in srv[s].known,
                 c \in srv[s].leaving, pf, down[c], ps, down[s])
    BY <1>0, <1>3, <2>1, MemberNow DEF Membership, UpAbove, DownAbove
  <2>3. pf \in Seq(UpMessages) /\ ps \in Seq(UpMessages) /\ pf # <<>> /\ Head(pf) \in ResignOf(c)
    BY <1>0, <1>1, <1>3, <1>4, <2>1 DEF Types
  <2>4. MemberOK(c, amb[c].member, c \in srv[Root].known, c \in srv[s].known,
                 TRUE, Tail(pf), down[c], ps \o v, down[s])
    BY <1>13, <2>2, <2>3, MemberResignUp
  <2>5. /\ up'[c] = Tail(pf) /\ up'[s] = ps \o v /\ down'[c] = down[c] /\ down'[s] = down[s]
    BY <1>2, <1>3, <2>1 DEF FromChild, NoMessages
  <2>6. c \in srv'[s].leaving
    BY <1>15
  <2>7. TRUE = (c \in srv'[s].leaving)
    BY <2>6
  <2>8. srv'[Root] = srv[Root] /\ srv'[s].known = srv[s].known
    BY <1>3, <1>15, Tree
  <2> QED
    BY <1>3, <1>14, <2>4, <2>5, <2>7, <2>8 DEF Member, UpAbove, DownAbove
<1>19. Membership'
  <2> SUFFICES ASSUME NEW g \in Federates, g # c PROVE Member(g)'
    BY <1>18 DEF Membership
  <2>1. Member(g) /\ amb'[g].member = amb[g].member
    BY <1>0, <1>14 DEF Membership
  <2>2. /\ g \in srv'[Root].known <=> g \in srv[Root].known
        /\ g \in srv'[Parent[g]].known <=> g \in srv[Parent[g]].known
        /\ g \in srv'[Parent[g]].leaving <=> g \in srv[Parent[g]].leaving
    BY <1>3, <1>15, Tree
  <2>3. ~Some(v, JoinOf(g)) /\ ~Some(v, ResignOf(g))
    BY <1>13
  <2>4. \A n \in {g, Parent[g]} \ {Root} :
           /\ n \in {c} => Head(up[n]) \notin JoinOf(g)
           /\ n \in {} => Head(down[n]) \notin JoinedOf(g)
           /\ ~Some(U[n], JoinOf(g)) /\ ~Some(U[n], ResignOf(g))
           /\ ~Some(V[n], JoinedOf(g)) /\ ~Some(V[n], ResignedOf(g))
    <3> SUFFICES ASSUME NEW n \in {g, Parent[g]} \ {Root}
                 PROVE  /\ n \in {c} => Head(up[n]) \notin JoinOf(g)
                        /\ ~Some(U[n], JoinOf(g)) /\ ~Some(U[n], ResignOf(g))
                        /\ ~Some(V[n], JoinedOf(g)) /\ ~Some(V[n], ResignedOf(g))
      OBVIOUS
    <3>1. n \in Nodes /\ U = UpOnly(s, v)
      BY <1>1, Tree
    <3>2. n = s => U[n] = v
      BY <3>1, UpOnlyAt
    <3>3. n # s => \A Y : ~Some(U[n], Y)
      BY <3>1, UpOnlyAt
    <3>4. \A Y : ~Some(V[n], Y)
      BY <1>1, <3>1, GivenNone
    <3>5. n \in {c} => Head(up[n]) \notin JoinOf(g)
      BY <1>1, <1>4
    <3> QED
      BY <2>3, <3>2, <3>3, <3>4, <3>5
  <2> QED
    BY <1>0, <1>14, <2>1, <2>2, <2>4, ShiftMember
<1>20. C = Complete(R, L) /\ U = UpOnly(s, v) /\ V = Given(NoMessages)
  BY <1>1
<1> QED
  BY <1>4, <1>9, <1>11, <1>12, <1>14, <1>16, <1>17, <1>19, <1>20, LeafCounts

-----------------------------------------------------------------------------
(* A leaf server is told something of a point *)

\* What becomes of server s
Changes(s, R) ==
  /\ DOMAIN srv' = Servers /\ \A x \in Servers : x # s => srv'[x] = srv[x]
  /\ srv'[s] = [known |-> srv[s].known, leaving |-> srv[s].leaving, points |-> R]
  /\ IsPoints(R, srv[s].known)
  /\ \A k \in DOMAIN R : \A g \in DOMAIN R[k].achieved :
       /\ k \in DOMAIN srv[s].points /\ g \in DOMAIN srv[s].points[k].achieved
       /\ R[k].achieved[g] = srv[s].points[k].achieved[g]

\* What it tells its federates
TellsOn(s, V) ==
  \A n \in Nodes :
    /\ V[n] \in Seq(DownMessages)
    /\ \A i \in DOMAIN V[n] : /\ Tells(V[n][i])
                              /\ V[n][i] \in DownOf(n) /\ n \in Federates /\ Parent[n] = s

LEMMA LeafTold ==
  ASSUME IInv, NEW s \in Leaves, down[s] # <<>>, Tells(Head(down[s])),
         NEW U, U = Given(NoMessages), NEW V, Shift({}, {s}, U, V), TellsOn(s, V),
         amb' = amb, NEW R, Changes(s, R),
         \A g \in Federates, k \in Labels : Parent[g] = s =>
           /\ Here(g) => Link(g, k)'
           /\ ~Resigned(g) => Edge(g, k)'
           /\ Awaits(s, k, g) => Awaits(s, k, g)' \/ ~Some(up[g], By(g, k))
           /\ Awaits(s, k, g)' => Awaits(s, k, g) \/ g \notin srv[s].leaving
  PROVE  IInv'
<1>0. /\ Types /\ Routed /\ Edges /\ Links /\ Labelled /\ Pending /\ Fresh /\ NotLeaving /\ ForAll
      /\ Claims /\ SuccessIsReal /\ Membership
  BY DEF IInv
<1>1. s \in Servers /\ s \in Nodes /\ s # Root /\ Root \in Servers /\ s \notin Federates
  BY Tree
<1>2. /\ DOMAIN srv' = Servers /\ \A x \in Servers : x # s => srv'[x] = srv[x]
      /\ srv'[s] = [known |-> srv[s].known, leaving |-> srv[s].leaving, points |-> R]
      /\ srv'[s].known = srv[s].known /\ srv'[s].leaving = srv[s].leaving /\ srv'[s].points = R
      /\ IsPoints(R, srv[s].known)
  BY DEF Changes
<1>3. srv'[Root] = srv[Root] /\ \A x \in Leaves : x # s => srv'[x] = srv[x]
  BY <1>1, <1>2, Tree
<1>4. \A x \in Servers : x # s => \A k, g : (Awaits(x, k, g)' <=> Awaits(x, k, g))
                                            /\ (Has(x, k, g)' <=> Has(x, k, g))
  BY <1>2 DEF Awaits, Has
<1>5. \A n \in Nodes : DOMAIN U[n] = {} /\ \A Y : ~Some(U[n], Y)
  BY GivenNone
<1>6. ASSUME NEW n \in Nodes
      PROVE  /\ V[n] \in Seq(DownMessages)
             /\ ~(n \in Federates /\ Parent[n] = s) => DOMAIN V[n] = {}
             /\ \A i \in DOMAIN V[n] : V[n][i] \in DownOf(n)
             /\ \A g : ~Some(V[n], JoinedOf(g)) /\ ~Some(V[n], ResignedOf(g))
  <2>1. \A i \in DOMAIN V[n] : V[n][i].type \in {"Announce", "Synchronized"}
    BY DEF TellsOn, Tells
  <2> QED
    BY <2>1 DEF TellsOn, Some, JoinedOf, ResignedOf
<1>7. Types' /\ Routed'
  <2>1. \A x \in Servers : IsServer(srv'[x])
    <3>1. IsServer(srv[s])
      BY <1>0, <1>1 DEF Types
    <3>2. IsServer(srv'[s])
      BY <1>2, <3>1 DEF IsServer
    <3> QED
      BY <1>0, <1>2, <3>2 DEF Types
  <2>2. /\ \A x \in Leaves : srv'[x].known \subseteq Below(x)
        /\ srv'[Root].leaving = {}
    BY <1>0, <1>2, <1>3 DEF Routed
  <2>3. \A n \in Nodes : /\ \A i \in DOMAIN U[n] : U[n][i] \in UpOf(n)
                         /\ \A i \in DOMAIN V[n] : V[n][i] \in DownOf(n)
    BY <1>5, <1>6
  <2> QED
    BY <1>0, <1>2, <2>1, <2>2, <2>3, ServeTypes
<1>8. ForAll' /\ Labelled' /\ (\A f : Resigned(f)' <=> Resigned(f)) /\ (\A f, l : Said(f, l)' <=> Said(f, l))
  <2>1. ForAll'
    BY <1>0, <1>3 DEF ForAll, Of
  <2> QED
    BY <2>1, AmbStays
<1>9. NotLeaving'
  <2> SUFFICES ASSUME NEW x \in Leaves, NEW g \in srv'[x].leaving, NEW k \in Labels PROVE ~Awaits(x, k, g)'
    BY DEF NotLeaving
  <2>1. CASE x # s
    BY <1>0, <1>3, <2>1 DEF NotLeaving, Awaits
  <2>2. CASE x = s
    <3>1. g \in srv[s].leaving /\ ~Awaits(s, k, g)
      BY <1>0, <1>2, <2>2 DEF NotLeaving
    <3>2. g \in Federates /\ Parent[g] = s
      <4>1. srv[s].leaving \subseteq srv[s].known /\ srv[s].known \subseteq Below(s)
        BY <1>0, <1>1 DEF Types, IsServer, Routed
      <4> QED
        BY <3>1, <4>1 DEF Below
    <3> QED
      BY <2>2, <3>1, <3>2
  <2> QED
    BY <2>1, <2>2
<1>10. Membership'
  <2> SUFFICES ASSUME NEW g \in Federates PROVE Member(g)'
    BY DEF Membership
  <2>1. Member(g) /\ amb'[g].member = amb[g].member
    BY <1>0 DEF Membership
  <2>2. /\ g \in srv'[Root].known <=> g \in srv[Root].known
        /\ g \in srv'[Parent[g]].known <=> g \in srv[Parent[g]].known
        /\ g \in srv'[Parent[g]].leaving <=> g \in srv[Parent[g]].leaving
    BY <1>2, <1>3, Tree
  <2>3. \A n \in {g, Parent[g]} \ {Root} :
           /\ n \in {} => Head(up[n]) \notin JoinOf(g)
           /\ n \in {s} => Head(down[n]) \notin JoinedOf(g)
           /\ ~Some(U[n], JoinOf(g)) /\ ~Some(U[n], ResignOf(g))
           /\ ~Some(V[n], JoinedOf(g)) /\ ~Some(V[n], ResignedOf(g))
    <3> SUFFICES ASSUME NEW n \in {g, Parent[g]} \ {Root}
                 PROVE  n \in Nodes /\ (n \in {s} => Head(down[n]) \notin JoinedOf(g))
      BY <1>5, <1>6
    <3>1. Head(down[s]) \notin JoinedOf(g)
      BY DEF Tells, JoinedOf
    <3> QED
      BY <3>1, Tree
  <2> QED
    BY <1>0, <2>1, <2>2, <2>3, ShiftMember
<1>11. Edges'
  <2> SUFFICES ASSUME NEW g \in Federates, NEW k \in Labels, ~Resigned(g)' PROVE Edge(g, k)'
    BY DEF Edges
  <2>1. ~Resigned(g) /\ Edge(g, k) /\ g \in Nodes /\ g # s /\ Parent[g] \in Servers
    BY <1>0, <1>1, <1>8, Tree DEF Edges
  <2>2. CASE Parent[g] = s
    BY <2>1, <2>2
  <2>3. CASE Parent[g] # s
    <3>1. /\ Awaits(Parent[g], k, g)' <=> Awaits(Parent[g], k, g)
          /\ Has(Parent[g], k, g)' <=> Has(Parent[g], k, g)
      BY <1>4, <2>1, <2>3
    <3>2. /\ k \in amb'[g].due <=> k \in amb[g].due
          /\ k \in DOMAIN amb'[g].done <=> k \in DOMAIN amb[g].done
      OBVIOUS
    <3>3. ~Some(U[g], By(g, k)) /\ DOMAIN V[g] = {} /\ (g \in {s} => Head(down[g]) \notin Touch(g, k))
      BY <1>5, <1>6, <2>1, <2>3
    <3> QED
      BY <1>0, <2>1, <3>1, <3>2, <3>3, ShiftEdge
  <2> QED
    BY <2>2, <2>3
<1>12. Links'
  <2> SUFFICES ASSUME NEW g \in Federates, NEW k \in Labels, Parent[g] # Root, Here(g)' PROVE Link(g, k)'
    BY DEF Links
  <2>1. Parent[g] \in Leaves /\ Parent[g] \in Nodes /\ Parent[g] \in Servers /\ Parent[g] \notin Federates
    BY Tree
  <2>2. Here(g)
    BY <1>2, <1>8, <2>1 DEF Here
  <2>3. Link(g, k)
    BY <1>0, <2>2 DEF Links
  <2>4. CASE Parent[g] # s
    <3>1. PICK x : x = Parent[g]
      OBVIOUS
    <3>2. /\ Awaits(x, k, g)' <=> Awaits(x, k, g)
          /\ Has(x, k, g)' <=> Has(x, k, g)
          /\ Awaits(Root, k, g)' <=> Awaits(Root, k, g)
          /\ Has(Root, k, g)' <=> Has(Root, k, g)
      BY <1>1, <1>4, <2>1, <2>4, <3>1
    <3>3. ~Some(U[x], By(g, k)) /\ DOMAIN V[x] = {} /\ (x \in {s} => Head(down[x]) \notin Touch(g, k))
      BY <1>5, <1>6, <2>1, <2>4, <3>1
    <3> QED
      BY <1>0, <2>1, <2>3, <3>1, <3>2, <3>3, ShiftLink
  <2>5. CASE Parent[g] = s
    BY <2>2, <2>5
  <2> QED
    BY <2>4, <2>5
<1>13. \A n \in Nodes : up'[n] = up[n]
  <2> SUFFICES ASSUME NEW n \in Nodes PROVE up'[n] = up[n]
    OBVIOUS
  <2>1. up'[n] = Shifted(up[n], n \in {}, U[n])
    BY <1>0, ShiftAt
  <2>2. up'[n] = up[n] \o U[n]
    BY <2>1 DEF Shifted
  <2>3. U[n] = <<>>
    BY GivenNone
  <2> QED
    BY <1>0, <2>2, <2>3, EmptyEnd
<1>14. Pending'
  <2> SUFFICES ASSUME NEW g \in Federates, NEW k \in Labels PROVE Answering(g, k)'
    BY DEF Pending
  <2>1. Answering(g, k) /\ g \in Nodes /\ Parent[g] \in Servers
    BY <1>0, Tree DEF Pending
  <2>2. up'[g] = up[g]
    BY <1>13, <2>1
  <2>3. Some(up[g], By(g, k)) => Awaits(Parent[g], k, g)'
    <3>1. Some(up[g], By(g, k)) => Awaits(Parent[g], k, g)
      BY <2>1 DEF Answering
    <3>2. CASE Parent[g] = s
      BY <3>1, <3>2
    <3>3. CASE Parent[g] # s
      BY <1>4, <2>1, <3>1, <3>3
    <3> QED
      BY <3>2, <3>3
  <2> QED
    BY <2>1, <2>2, <2>3 DEF Answering
<1>15. Fresh'
  <2> SUFFICES ASSUME NEW x \in Leaves PROVE AllNews(up'[x], Awaited')
    BY DEF Fresh
  <2>1. \A k \in Labels, g \in Below(x) : Awaits(Root, k, g) =>
          \/ Awaits(Root, k, g)'
          \/ x \in {} /\ (Head(up[x]) \in By(g, k) \/ Head(up[x]) \in ResignOf(g))
    BY <1>3 DEF Awaits
  <2>2. NewsAdded(up[x], U[x], Awaited')
    <3>1. DOMAIN U[x] = {}
      BY <1>5, Tree
    <3> QED
      BY <3>1 DEF NewsAdded
  <2> QED
    BY <1>0, <2>1, <2>2, ShiftFresh
<1>16. Claims'
  <2>1. \A n \in Nodes : \A i \in DOMAIN U[n] : Claim(U[n][i])'
    BY <1>5
  <2> QED
    BY <1>0, <1>8, <2>1, ShiftClaims
<1>17. SuccessIsReal'
  <2> SUFFICES ASSUME NEW x \in Servers, NEW k \in DOMAIN srv'[x].points,
                      NEW g \in DOMAIN srv'[x].points[k].achieved, srv'[x].points[k].achieved[g]
               PROVE  k \in DOMAIN amb[g].done /\ amb[g].done[k]
    BY DEF SuccessIsReal
  <2>1. CASE x = s
    <3>1. k \in DOMAIN R /\ g \in DOMAIN R[k].achieved /\ R[k].achieved[g]
      BY <1>2, <2>1
    <3>2. /\ k \in DOMAIN srv[s].points /\ g \in DOMAIN srv[s].points[k].achieved
          /\ srv[s].points[k].achieved[g]
      BY <3>1 DEF Changes
    <3> QED
      BY <1>0, <1>1, <3>2 DEF SuccessIsReal
  <2>2. CASE x # s
    BY <1>0, <1>2, <2>2 DEF SuccessIsReal
  <2> QED
    BY <2>1, <2>2
<1> QED
  BY <1>7, <1>8, <1>9, <1>10, <1>11, <1>12, <1>14, <1>15, <1>16, <1>17 DEF IInv

\* Q is P with the federates F added to point l, which may be new.
Announced(P, K, l, F, Q) ==
  /\ IsPoints(Q, K) /\ DOMAIN Q = DOMAIN P \cup {l}
  /\ \A k \in DOMAIN P : k # l => Q[k] = P[k]
  /\ \A g : /\ Waits(Q, l, g) <=> g \in F \/ Waits(P, l, g)
            /\ Holds(Q, l, g) <=> Holds(P, l, g)
  /\ \A g \in DOMAIN Q[l].achieved : l \in DOMAIN P /\ Q[l].achieved[g] = P[l].achieved[g]

\* The entry of point l that an announcement finds, and the points after it.
OldPoint(P, l, auto, old) ==
  old = (IF l \in DOMAIN P THEN P[l] ELSE [waiting |-> {}, achieved |-> Nothing, auto |-> auto])

NewPoints(P, l, old, F, Q) == Q = Over(One(l, insert(old, F)), P)

LEMMA OldPointIs ==
  ASSUME NEW P, NEW K, IsPoints(P, K), NEW l \in Labels, NEW auto \in BOOLEAN, NEW old,
         OldPoint(P, l, auto, old)
  PROVE  /\ old \in PointsOf(K) /\ old.waiting \cap DOMAIN old.achieved = {}
         /\ \A g : (g \in old.waiting <=> Waits(P, l, g)) /\ (g \in DOMAIN old.achieved <=> Holds(P, l, g))
         /\ \A g \in DOMAIN old.achieved : l \in DOMAIN P /\ old.achieved[g] = P[l].achieved[g]
<1>1. CASE l \in DOMAIN P
  <2>1. old = P[l]
    BY <1>1 DEF OldPoint
  <2> QED
    BY <1>1, <2>1 DEF IsPoints, Waits, Holds
<1>2. CASE l \notin DOMAIN P
  <2>1. old = [waiting |-> {}, achieved |-> Nothing, auto |-> auto]
    BY <1>2 DEF OldPoint
  <2>2. /\ old = [waiting |-> old.waiting, achieved |-> old.achieved, auto |-> old.auto]
        /\ old.waiting = {} /\ old.achieved = Nothing /\ old.auto = auto
    BY <2>1
  <2>3. DOMAIN Nothing = {} /\ Nothing \in [DOMAIN Nothing -> BOOLEAN]
    BY DEF Nothing
  <2>4. /\ old.waiting \subseteq K /\ DOMAIN old.achieved \subseteq K
        /\ old.achieved \in [DOMAIN old.achieved -> BOOLEAN] /\ old.auto \in BOOLEAN
    BY <2>2, <2>3
  <2>5. old = [waiting |-> old.waiting, achieved |-> old.achieved, auto |-> old.auto]
    BY <2>2
  <2>6. old \in PointsOf(K)
    BY <2>4, <2>5, PointType
  <2> QED
    BY <1>2, <2>2, <2>3, <2>6 DEF Waits, Holds
<1> QED
  BY <1>1, <1>2

LEMMA PointInserted ==
  ASSUME NEW K, NEW old \in PointsOf(K), NEW F, F \subseteq K, NEW p, p = insert(old, F)
  PROVE  /\ p \in PointsOf(K)
         /\ p.waiting = old.waiting \cup F /\ p.achieved = old.achieved
<1>1. /\ old = [waiting |-> old.waiting, achieved |-> old.achieved, auto |-> old.auto]
      /\ old.waiting \subseteq K /\ DOMAIN old.achieved \subseteq K
      /\ old.achieved \in [DOMAIN old.achieved -> BOOLEAN] /\ old.auto \in BOOLEAN
  BY PointType
<1>2. PICK W : W = old.waiting \cup F
  OBVIOUS
<1>3. p = [waiting |-> W, achieved |-> old.achieved, auto |-> old.auto]
  BY <1>1, <1>2 DEF insert
<1>4. /\ p = [waiting |-> p.waiting, achieved |-> p.achieved, auto |-> p.auto]
      /\ p.waiting = old.waiting \cup F /\ p.achieved = old.achieved /\ p.auto = old.auto
  BY <1>2, <1>3
<1>5. /\ p.waiting \subseteq K /\ DOMAIN p.achieved \subseteq K
      /\ p.achieved \in [DOMAIN p.achieved -> BOOLEAN] /\ p.auto \in BOOLEAN
  BY <1>1, <1>4
<1>6. p = [waiting |-> p.waiting, achieved |-> p.achieved, auto |-> p.auto]
  BY <1>4
<1>7. p \in PointsOf(K)
  BY <1>5, <1>6, PointType
<1> QED
  BY <1>4, <1>7

\* Q is P with the entry p of point l.
Put(P, l, p, Q) ==
  DOMAIN Q = DOMAIN P \cup {l} /\ Q[l] = p /\ \A k \in DOMAIN P : k # l => Q[k] = P[k]

LEMMA PointPut ==
  ASSUME NEW P, NEW l, NEW p, NEW o, o = One(l, p), NEW Q, Q = Over(o, P)
  PROVE  Put(P, l, p, Q)
<1>1. DOMAIN o = {l} /\ o[l] = p
  BY OneAt
<1>2. /\ DOMAIN Q = DOMAIN o \cup DOMAIN P
      /\ \A x \in DOMAIN o \cup DOMAIN P : Q[x] = IF x \in DOMAIN o THEN o[x] ELSE P[x]
  BY DEF Over
<1> QED
  BY <1>1, <1>2 DEF Put

LEMMA PointsAnnounced ==
  ASSUME NEW P, NEW K, IsPoints(P, K), NEW l \in Labels, NEW F, F \subseteq K,
         NEW auto \in BOOLEAN, NEW old, OldPoint(P, l, auto, old),
         \A g \in F : ~Holds(P, l, g),
         NEW Q, NewPoints(P, l, old, F, Q)
  PROVE  Announced(P, K, l, F, Q)
<1>1. /\ old \in PointsOf(K) /\ old.waiting \cap DOMAIN old.achieved = {}
      /\ \A g : (g \in old.waiting <=> Waits(P, l, g)) /\ (g \in DOMAIN old.achieved <=> Holds(P, l, g))
      /\ \A g \in DOMAIN old.achieved : l \in DOMAIN P /\ old.achieved[g] = P[l].achieved[g]
  BY OldPointIs
<1>2. PICK p : p = insert(old, F)
  OBVIOUS
<1>3. PICK o : o = One(l, p)
  OBVIOUS
<1>4. Q = Over(o, P)
  BY <1>2, <1>3 DEF NewPoints
<1>5. p \in PointsOf(K) /\ p.waiting = old.waiting \cup F /\ p.achieved = old.achieved
  <2>1. old \in PointsOf(K)
    BY <1>1
  <2> QED
    BY <1>2, <2>1, PointInserted
<1>6. p.waiting \cap DOMAIN p.achieved = {}
  <2>1. \A g \in F : g \notin DOMAIN old.achieved
    BY <1>1
  <2> QED
    BY <1>1, <1>5, <2>1
<1>9. DOMAIN Q = DOMAIN P \cup {l} /\ Q[l] = p /\ \A k \in DOMAIN P : k # l => Q[k] = P[k]
  <2>1. Put(P, l, p, Q)
    BY <1>3, <1>4, PointPut
  <2> QED
    BY <2>1 DEF Put
<1>10. IsFiniteSet(DOMAIN Q)
  <2>1. IsFiniteSet({l}) /\ IsFiniteSet(DOMAIN P)
    BY FS_Singleton DEF IsPoints
  <2> QED
    BY <1>9, <2>1, FS_Union
<1>11. IsPoints(Q, K)
  BY <1>5, <1>6, <1>9, <1>10 DEF IsPoints
<1>12. \A g : /\ Waits(Q, l, g) <=> g \in F \/ Waits(P, l, g)
              /\ Holds(Q, l, g) <=> Holds(P, l, g)
  <2>1. \A g : (Waits(Q, l, g) <=> g \in p.waiting) /\ (Holds(Q, l, g) <=> g \in DOMAIN p.achieved)
    BY <1>9 DEF Waits, Holds
  <2> QED
    BY <1>1, <1>5, <2>1
<1>13. \A g \in DOMAIN Q[l].achieved : l \in DOMAIN P /\ Q[l].achieved[g] = P[l].achieved[g]
  BY <1>1, <1>5, <1>9
<1> QED
  BY <1>9, <1>11, <1>12, <1>13 DEF Announced

\* An announcement finds the federates that it is for at the server.
LEMMA HeadReaches ==
  ASSUME IInv, NEW s \in Leaves, down[s] # <<>>, NEW m, m = Head(down[s]), m.type = "Announce",
         NEW g \in m.set, Parent[g] = s, g \in Federates, Here(g), NEW l \in Labels, l = m.label
  PROVE  g \in srv[s].known \ srv[s].leaving
<1>1. CASE Resigned(g)
  BY <1>1 DEF Here
<1>2. CASE ~Resigned(g)
  <2>1. /\ down[s] \in Seq(DownMessages) /\ s # Root /\ m \in DownMessages
    BY FromRoot
  <2>2. Link(g, l)
    BY <2>1 DEF IInv, Links
  <2>3. Some(down[s], AnnTo(g, l)) /\ m \in Announcing(g)
    <3>1. m \in AnnTo(g, l) /\ m \in Announcing(g)
      BY <2>1 DEF AnnTo, Announcing
    <3> QED
      BY <2>1, <3>1, SomeTail
  <2>4. Awaits(Root, l, g)
    BY <2>2, <2>3 DEF Link, LinkOK
  <2>5. g \in srv[Root].known
    BY <2>4, PointTypes, Tree DEF IInv
  <2>6. MemberOK(g, amb[g].member, g \in srv[Root].known, g \in srv[Parent[g]].known,
                 g \in srv[Parent[g]].leaving, up[g], down[g], UpAbove(g), DownAbove(g))
    BY MemberNow DEF IInv, Membership
  <2>7. DownAbove(g) = down[s]
    BY <2>1 DEF DownAbove
  <2>8. g \notin srv[s].leaving
    BY <1>2, <2>6 DEF MemberOK, Resigned
  <2>9. ASSUME g \notin srv[s].known PROVE FALSE
    <3>1. Some(down[s], JoinedOf(g)) /\ ~SomeAfter(down[s], Announcing(g), JoinedOf(g))
      BY <2>5, <2>6, <2>7, <2>9 DEF MemberOK
    <3>2. PICK i \in DOMAIN down[s] : down[s][i] \in JoinedOf(g)
      BY <3>1 DEF Some
    <3>3. /\ DOMAIN down[s] = 1 .. Len(down[s]) /\ Len(down[s]) \in Nat \ {0} /\ down[s][1] = m
      BY <2>1, TailAt
    <3>4. down[s][1] \in Announcing(g) /\ m \notin JoinedOf(g)
      BY <2>3, <3>3 DEF Announcing, JoinedOf
    <3>5. i # 1 /\ 1 \in DOMAIN down[s] /\ i \in Nat \ {0}
      BY <3>2, <3>3, <3>4
    <3>6. 1 < i
      BY <3>5
    <3> QED
      BY <3>1, <3>2, <3>4, <3>5, <3>6 DEF SomeAfter
  <2> QED
    BY <2>8, <2>9
<1> QED
  BY <1>1, <1>2

LEMMA ToldMoves ==
  ASSUME Types, NEW s \in Leaves, NEW U, U = Given(NoMessages), NEW V, Shift({}, {s}, U, V), TellsOn(s, V)
  PROVE  /\ down[s] # <<>> /\ down[s] \in Seq(DownMessages) /\ up'[s] = up[s] /\ down'[s] = Tail(down[s])
         /\ \A g \in Federates : Parent[g] = s =>
              up'[g] = up[g] /\ down'[g] = down[g] \o V[g] /\ V[g] \in Seq(DownMessages)
<1>1. s \in Nodes /\ s \notin Federates
  BY Tree
<1>2. PICK X : X = {s}
  OBVIOUS
<1>3. ASSUME NEW n \in Nodes PROVE up'[n] = up[n]
  <2>1. up'[n] = Shifted(up[n], n \in {}, U[n])
    BY ShiftAt
  <2>2. U[n] = <<>>
    BY GivenNone
  <2>3. up'[n] = up[n] \o <<>>
    BY <2>1, <2>2 DEF Shifted
  <2> QED
    BY <2>3, EmptyEnd
<1>4. ASSUME NEW n \in Nodes
      PROVE  /\ n \in X => down[n] # <<>> /\ down'[n] = Tail(down[n]) \o V[n]
             /\ n \notin X => down'[n] = down[n] \o V[n]
             /\ V[n] \in Seq(DownMessages)
  <2>1. /\ down'[n] = Shifted(down[n], n \in X, V[n]) /\ V[n] \in Seq(DownMessages)
        /\ n \in X => down[n] # <<>>
    BY <1>2, ShiftAt
  <2> QED
    BY <2>1 DEF Shifted
<1>5. V[s] = <<>>
  <2>1. DOMAIN V[s] = {} /\ V[s] \in Seq(DownMessages)
    BY <1>1 DEF TellsOn
  <2> QED
    BY <2>1
<1>6. s \in X /\ \A g \in Federates : g \in Nodes /\ g \notin X
  BY <1>1, <1>2, Tree
<1>7. down[s] # <<>> /\ down'[s] = Tail(down[s]) \o <<>>
  BY <1>1, <1>4, <1>5, <1>6
<1>8. down[s] \in Seq(DownMessages) /\ down'[s] = Tail(down[s]) /\ up'[s] = up[s]
  BY <1>1, <1>3, <1>7, EmptyEnd
<1>9. \A g \in Federates : up'[g] = up[g] /\ down'[g] = down[g] \o V[g] /\ V[g] \in Seq(DownMessages)
  BY <1>3, <1>4, <1>6
<1> QED
  BY <1>7, <1>8, <1>9

LEMMA ToldLink ==
  ASSUME NEW s \in Leaves, NEW p, NEW q, up'[s] = p, down'[s] = q, srv'[Root] = srv[Root],
         NEW g \in Federates, NEW k, Parent[g] = s,
         NEW w, NEW a, w = Awaits(s, k, g)', a = Has(s, k, g)',
         LinkOK(g, k, FALSE, w, a, Awaits(Root, k, g), Has(Root, k, g), p, q)
  PROVE  Link(g, k)'
<1>1. PICK W, A : W = Awaits(Root, k, g) /\ A = Has(Root, k, g)
  OBVIOUS
<1>2. LinkOK(g, k, FALSE, w, a, W, A, p, q)
  BY <1>1
<1>3. W = Awaits(Root, k, g)' /\ A = Has(Root, k, g)'
  BY <1>1 DEF Awaits, Has
<1> QED
  BY <1>2, <1>3 DEF Link

LEMMA ToldEdge ==
  ASSUME NEW s, NEW g, NEW k, Parent[g] = s, amb' = amb,
         NEW p, NEW q, up'[g] = p, down'[g] = q,
         NEW W, NEW A, W = Awaits(s, k, g)', A = Has(s, k, g)',
         LinkOK(g, k, TRUE, k \in amb[g].due, k \in DOMAIN amb[g].done, W, A, p, q)
  PROVE  Edge(g, k)'
BY DEF Edge

\* Announcements of label l are sent to the federates F.
AnnouncesTo(F, l, V) ==
  \A n \in Nodes :
    /\ n \notin F => DOMAIN V[n] = {}
    /\ n \in F => /\ DOMAIN V[n] = {1} /\ V[n][1] \in AnnTo(n, l)

LEMMA AnnouncedAt ==
  ASSUME NEW s, NEW R, srv'[s].points = R, NEW l, NEW F, Announced(srv[s].points, srv[s].known, l, F, R),
         NEW g, NEW k
  PROVE  /\ k = l => (Awaits(s, k, g)' <=> g \in F \/ Awaits(s, k, g)) /\ (Has(s, k, g)' <=> Has(s, k, g))
         /\ k # l => (Awaits(s, k, g)' <=> Awaits(s, k, g)) /\ (Has(s, k, g)' <=> Has(s, k, g))
<1>1. PICK P : P = srv[s].points
  OBVIOUS
<1>2. /\ DOMAIN R = DOMAIN P \cup {l}
      /\ \A j \in DOMAIN P : j # l => R[j] = P[j]
      /\ Waits(R, l, g) <=> g \in F \/ Waits(P, l, g)
      /\ Holds(R, l, g) <=> Holds(P, l, g)
  BY <1>1 DEF Announced
<1>3. /\ Awaits(s, k, g)' <=> Waits(R, k, g)
      /\ Has(s, k, g)' <=> Holds(R, k, g)
      /\ Awaits(s, k, g) <=> Waits(P, k, g)
      /\ Has(s, k, g) <=> Holds(P, k, g)
  BY <1>1 DEF Awaits, Has, Waits, Holds
<1>4. k # l => (Waits(R, k, g) <=> Waits(P, k, g)) /\ (Holds(R, k, g) <=> Holds(P, k, g))
  BY <1>2 DEF Waits, Holds
<1> QED
  BY <1>2, <1>3, <1>4

\* The oldest message for server s announces label l, to the federates F of those it reaches.
Announcement(s, m, l, F) ==
  /\ down[s] # <<>> /\ m = Head(down[s]) /\ m \in DownMessages /\ m.type = "Announce" /\ l = m.label
  /\ F = m.set \cap (srv[s].known \ srv[s].leaving)

\* The federates that it is for are neither waited for nor have they achieved the point.
LEMMA FoundOff ==
  ASSUME IInv, NEW s \in Leaves, NEW m, NEW l, NEW F, Announcement(s, m, l, F), NEW g \in F
  PROVE  /\ g \in Federates /\ Parent[g] = s /\ g \notin srv[s].leaving /\ l \in Labels
         /\ ~Awaits(s, l, g) /\ ~Has(s, l, g)
         /\ LinkOK(g, l, FALSE, TRUE, FALSE, Awaits(Root, l, g), Has(Root, l, g), up[s], Tail(down[s]))
<1>1. /\ down[s] # <<>> /\ m = Head(down[s]) /\ m \in DownMessages /\ m.type = "Announce" /\ l = m.label
      /\ g \in m.set /\ g \in srv[s].known /\ g \notin srv[s].leaving
  BY DEF Announcement
<1>2. /\ down[s] \in Seq(DownMessages) /\ s # Root
      /\ Below(s) = {f \in Federates : Parent[f] = s} /\ srv[s].known \subseteq Below(s)
  BY <1>1, FromRoot DEF IInv, Routed
<1>3. g \in Federates /\ Parent[g] = s
  BY <1>1, <1>2
<1>4. l \in Labels /\ m \in AnnTo(g, l)
  BY <1>1 DEF DownMessages, AnnTo
<1>5. Link(g, l)
  BY <1>1, <1>2, <1>3, <1>4 DEF IInv, Links, Here
<1>6. PICK w, a, W, A : /\ w = Awaits(s, l, g) /\ a = Has(s, l, g)
                        /\ W = Awaits(Root, l, g) /\ A = Has(Root, l, g)
  OBVIOUS
<1>7. LinkOK(g, l, FALSE, w, a, W, A, up[s], down[s])
  BY <1>3, <1>5, <1>6 DEF Link
<1>8. ~w /\ ~a /\ LinkOK(g, l, FALSE, TRUE, FALSE, W, A, up[s], Tail(down[s]))
  BY <1>1, <1>2, <1>4, <1>7, LinkAnnounced
<1> QED
  BY <1>1, <1>3, <1>4, <1>6, <1>8

\* LinkAnnounce for a federate whose server announces the point to it
LEMMA AnnounceEdge ==
  ASSUME NEW g, NEW l, NEW u, NEW b, NEW p,
         NEW q \in Seq(DownMessages), NEW v \in Seq(DownMessages),
         LinkOK(g, l, TRUE, u, b, FALSE, FALSE, p, q), ~Some(p, By(g, l)),
         Lone(v, l, 1), v[1] \in AnnTo(g, l), NEW r, r = q \o v
  PROVE  LinkOK(g, l, TRUE, u, b, TRUE, FALSE, p, r)
<1>1. PICK j, own : j = 1 /\ own = TRUE
  OBVIOUS
<1>2. LinkOK(g, l, own, u, b, FALSE, FALSE, p, q) /\ Lone(v, l, j) /\ v[j] \in AnnTo(g, l)
  BY <1>1
<1>3. LinkOK(g, l, own, u, b, TRUE, FALSE, p, q \o v)
  BY <1>2, LinkAnnounce
<1> QED
  BY <1>1, <1>3

LEMMA AnnounceThose ==
  ASSUME IInv, NEW s \in Leaves, NEW m, NEW l, NEW F, Announcement(s, m, l, F),
         NEW U, U = Given(NoMessages), NEW V, Shift({}, {s}, U, V), TellsOn(s, V), AnnouncesTo(F, l, V),
         amb' = amb, srv'[Root] = srv[Root], NEW R, srv'[s].points = R,
         Announced(srv[s].points, srv[s].known, l, F, R), NEW g \in F
  PROVE  Link(g, l)' /\ (~Resigned(g) => Edge(g, l)')
<1>0. Types
  BY DEF IInv
<1>1. /\ g \in Federates /\ Parent[g] = s /\ l \in Labels
      /\ ~Awaits(s, l, g) /\ ~Has(s, l, g)
      /\ LinkOK(g, l, FALSE, TRUE, FALSE, Awaits(Root, l, g), Has(Root, l, g), up[s], Tail(down[s]))
  BY FoundOff
<1>2. Awaits(s, l, g)' /\ ~Has(s, l, g)'
  <2>1. (Awaits(s, l, g)' <=> g \in F \/ Awaits(s, l, g)) /\ (Has(s, l, g)' <=> Has(s, l, g))
    BY AnnouncedAt
  <2> QED
    BY <1>1, <2>1
<1>3. PICK W, A : W = Awaits(s, l, g)' /\ A = Has(s, l, g)'
  OBVIOUS
<1>4. W = TRUE /\ A = FALSE
  BY <1>2, <1>3 DEF Awaits, Has
<1>5. /\ up'[s] = up[s] /\ down'[s] = Tail(down[s])
      /\ up'[g] = up[g] /\ down'[g] = down[g] \o V[g] /\ V[g] \in Seq(DownMessages)
  <2>1. /\ up'[s] = up[s] /\ down'[s] = Tail(down[s])
        /\ \A f \in Federates : Parent[f] = s =>
             up'[f] = up[f] /\ down'[f] = down[f] \o V[f] /\ V[f] \in Seq(DownMessages)
    BY <1>0, ToldMoves
  <2>2. g \in Federates /\ Parent[g] = s
    BY <1>1
  <2> QED
    BY <2>1, <2>2
<1>6. Link(g, l)'
  <2>1. LinkOK(g, l, FALSE, W, A, Awaits(Root, l, g), Has(Root, l, g), up[s], Tail(down[s]))
    BY <1>1, <1>4
  <2> QED
    BY <1>1, <1>3, <1>5, <2>1, ToldLink
<1>7. ASSUME ~Resigned(g) PROVE Edge(g, l)'
  <2>1. PICK u, b, x, y : /\ u = (l \in amb[g].due) /\ b = (l \in DOMAIN amb[g].done)
                          /\ x = Awaits(s, l, g) /\ y = Has(s, l, g)
    OBVIOUS
  <2>2. Edge(g, l) /\ Answering(g, l)
    BY <1>1, <1>7 DEF IInv, Edges, Pending
  <2>3. LinkOK(g, l, TRUE, u, b, x, y, up[g], down[g])
    BY <1>1, <2>1, <2>2 DEF Edge
  <2>4. ~x /\ ~y /\ ~Some(up[g], By(g, l))
    BY <1>1, <2>1, <2>2 DEF Answering
  <2>5. g \in Nodes /\ down[g] \in Seq(DownMessages)
    BY <1>0, <1>1, Tree DEF Types
  <2>6. Lone(V[g], l, 1) /\ V[g][1] \in AnnTo(g, l)
    BY <2>5 DEF AnnouncesTo, Lone
  <2>7. LinkOK(g, l, TRUE, u, b, TRUE, FALSE, up[g], down[g] \o V[g])
    <3>1. PICK p, q, v, r : p = up[g] /\ q = down[g] /\ v = V[g] /\ r = q \o v
      OBVIOUS
    <3>2. q \in Seq(DownMessages) /\ v \in Seq(DownMessages)
      BY <1>5, <2>5, <3>1
    <3>3. LinkOK(g, l, TRUE, u, b, FALSE, FALSE, p, q) /\ ~Some(p, By(g, l))
      <4>1. x = FALSE /\ y = FALSE
        BY <2>1, <2>4 DEF Awaits, Has
      <4> QED
        BY <2>3, <2>4, <3>1, <4>1
    <3>4. Lone(v, l, 1) /\ v[1] \in AnnTo(g, l)
      BY <2>6, <3>1
    <3>5. LinkOK(g, l, TRUE, u, b, TRUE, FALSE, p, r)
      BY <3>1, <3>2, <3>3, <3>4, AnnounceEdge
    <3> QED
      BY <3>1, <3>5
  <2>8. PICK q : q = down[g] \o V[g]
    OBVIOUS
  <2>9. LinkOK(g, l, TRUE, l \in amb[g].due, l \in DOMAIN amb[g].done, W, A, up[g], q)
    BY <1>4, <2>1, <2>7, <2>8
  <2> QED
    BY <1>1, <1>3, <1>5, <2>8, <2>9, ToldEdge
<1> QED
  BY <1>6, <1>7

LEMMA AnnounceOthers ==
  ASSUME IInv, NEW s \in Leaves, NEW m, NEW l, NEW F, Announcement(s, m, l, F),
         NEW U, U = Given(NoMessages), NEW V, Shift({}, {s}, U, V), TellsOn(s, V), AnnouncesTo(F, l, V),
         amb' = amb, srv'[Root] = srv[Root], NEW R, srv'[s].points = R,
         Announced(srv[s].points, srv[s].known, l, F, R),
         NEW g \in Federates, NEW k \in Labels, Parent[g] = s, g \notin F \/ k # l
  PROVE  /\ Awaits(s, k, g)' <=> Awaits(s, k, g)
         /\ Here(g) => Link(g, k)'
         /\ ~Resigned(g) => Edge(g, k)'
<1>0. Types
  BY DEF IInv
<1>1. (Awaits(s, k, g)' <=> Awaits(s, k, g)) /\ (Has(s, k, g)' <=> Has(s, k, g))
  <2>1. /\ k = l => (Awaits(s, k, g)' <=> g \in F \/ Awaits(s, k, g)) /\ (Has(s, k, g)' <=> Has(s, k, g))
        /\ k # l => (Awaits(s, k, g)' <=> Awaits(s, k, g)) /\ (Has(s, k, g)' <=> Has(s, k, g))
    BY AnnouncedAt
  <2> QED
    BY <2>1
<1>2. /\ down[s] # <<>> /\ m = Head(down[s]) /\ m \in DownMessages /\ m.type = "Announce" /\ l = m.label
      /\ F = m.set \cap (srv[s].known \ srv[s].leaving)
  BY DEF Announcement
<1>3. /\ s \in Nodes /\ s # Root /\ g \in Nodes /\ g # s
      /\ up'[s] = up[s] /\ down'[s] = Tail(down[s]) /\ down[s] \in Seq(DownMessages)
  BY <1>0, ToldMoves, Tree
<1>4. ASSUME Here(g) PROVE Link(g, k)'
  <2>1. PICK w, a, W, A : /\ w = Awaits(s, k, g) /\ a = Has(s, k, g)
                          /\ W = Awaits(Root, k, g) /\ A = Has(Root, k, g)
    OBVIOUS
  <2>2. Link(g, k)
    BY <1>3, <1>4 DEF IInv, Links
  <2>3. LinkOK(g, k, FALSE, w, a, W, A, up[s], down[s])
    BY <2>1, <2>2 DEF Link
  <2>4. m \notin Touch(g, k)
    <3>1. CASE k # l
      BY <1>2, <3>1 DEF Touch, AnnTo, EndOf
    <3>2. CASE k = l
      <4>1. l \in Labels /\ g \notin F
        BY <3>2
      <4>2. g \in m.set => g \in srv[s].known \ srv[s].leaving
        BY <1>2, <1>4, <4>1, HeadReaches
      <4>3. g \notin m.set
        BY <1>2, <4>1, <4>2
      <4> QED
        BY <1>2, <4>3 DEF Touch, AnnTo, EndOf
    <3> QED
      BY <3>1, <3>2
  <2>5. LinkOK(g, k, FALSE, w, a, W, A, up[s], Tail(down[s]))
    BY <1>2, <1>3, <2>3, <2>4, LinkPass
  <2>6. PICK x, y : x = Awaits(s, k, g)' /\ y = Has(s, k, g)'
    OBVIOUS
  <2>7. x = w /\ y = a
    BY <1>1, <2>1, <2>6 DEF Awaits, Has
  <2>8. LinkOK(g, k, FALSE, x, y, Awaits(Root, k, g), Has(Root, k, g), up[s], Tail(down[s]))
    BY <2>1, <2>5, <2>7
  <2> QED
    BY <1>3, <2>6, <2>8, ToldLink
<1>5. ASSUME ~Resigned(g) PROVE Edge(g, k)'
  <2>1. Edge(g, k)
    BY <1>5 DEF IInv, Edges
  <2>2. /\ k \in amb'[g].due <=> k \in amb[g].due
        /\ k \in DOMAIN amb'[g].done <=> k \in DOMAIN amb[g].done
    OBVIOUS
  <2>3. ~Some(U[g], By(g, k)) /\ (g \in {s} => Head(down[g]) \notin Touch(g, k))
    BY <1>3, GivenNone
  <2>4. \A i \in DOMAIN V[g] : V[g][i] \notin About(k)
    <3>1. CASE g \notin F
      BY <1>3, <3>1 DEF AnnouncesTo
    <3>2. CASE g \in F
      <4>1. DOMAIN V[g] = {1} /\ V[g][1] \in AnnTo(g, l) /\ k # l
        BY <1>3, <3>2 DEF AnnouncesTo
      <4>2. V[g][1] \notin About(k)
        BY <4>1 DEF AnnTo, About
      <4> QED
        BY <4>1, <4>2
    <3> QED
      BY <3>1, <3>2
  <2>5. \A i \in DOMAIN V[g] : V[g][i] \notin Touch(g, k)
    BY <2>4, TouchAbout
  <2> QED
    BY <1>0, <1>1, <2>1, <2>2, <2>3, <2>4, <2>5, ShiftEdge
<1> QED
  BY <1>1, <1>4, <1>5

\* What a leaf server sends when label l is announced to the federates F
Announcements(l, F, auto) == [f \in F |-> <<Announce(l, {f}, auto)>>]

LEMMA AnnounceMessages ==
  ASSUME NEW s \in Leaves, NEW l \in Labels, NEW auto \in BOOLEAN,
         NEW F, F \subseteq {g \in Federates : Parent[g] = s},
         NEW t, t = Announcements(l, F, auto), NEW V, V = Given(t)
  PROVE  /\ DOMAIN t = F /\ \A n \in F : t[n] \in Seq(DownMessages)
         /\ TellsOn(s, V) /\ AnnouncesTo(F, l, V)
<1>1. DOMAIN t = F
  BY DEF Announcements
<1>2. ASSUME NEW n \in F
      PROVE  \E r \in DownMessages : t[n] = <<r>> /\ Tells(r) /\ r \in DownOf(n) /\ r \in AnnTo(n, l)
  <2>1. PICK r : r = Announce(l, {n}, auto)
    OBVIOUS
  <2>2. t[n] = <<r>>
    BY <2>1 DEF Announcements
  <2>3. n \in Federates
    OBVIOUS
  <2>4. r \in [type : {"Announce"}, label : Labels, set : SUBSET Federates, auto : BOOLEAN]
        /\ r.type = "Announce" /\ r.label = l /\ n \in r.set
    BY <2>1, <2>3 DEF Announce
  <2>5. r \in DownMessages
    BY <2>4 DEF DownMessages
  <2>6. Tells(r) /\ r \in DownOf(n) /\ r \in AnnTo(n, l)
    BY <2>4, <2>5 DEF Tells, DownOf, AnnTo
  <2> QED
    BY <2>2, <2>5, <2>6
<1>3. ASSUME NEW n \in F
      PROVE  /\ n \in Federates /\ n \in Nodes /\ Parent[n] = s
             /\ t[n] \in Seq(DownMessages) /\ DOMAIN t[n] = {1}
             /\ Tells(t[n][1]) /\ t[n][1] \in DownOf(n) /\ t[n][1] \in AnnTo(n, l)
  <2>1. n \in Federates /\ n \in Nodes /\ Parent[n] = s
    BY Tree
  <2>2. PICK r \in DownMessages : t[n] = <<r>> /\ Tells(r) /\ r \in DownOf(n) /\ r \in AnnTo(n, l)
    BY <1>2
  <2>3. <<r>> \in Seq(DownMessages) /\ DOMAIN <<r>> = {1} /\ <<r>>[1] = r
    BY OneOf
  <2> QED
    BY <2>1, <2>2, <2>3
<1>4. ASSUME NEW n \in Nodes
      PROVE  /\ n \in F => V[n] = t[n]
             /\ n \notin F => V[n] \in Seq(DownMessages) /\ DOMAIN V[n] = {}
  <2>1. /\ V[n] = IF n \in DOMAIN t THEN t[n] ELSE <<>>
        /\ n \notin DOMAIN t => DOMAIN V[n] = {}
    BY GivenAt
  <2>2. <<>> \in Seq(DownMessages)
    BY EmptySeq
  <2> QED
    BY <1>1, <2>1, <2>2
<1>5. AnnouncesTo(F, l, V)
  BY <1>3, <1>4 DEF AnnouncesTo
<1>6. TellsOn(s, V)
  <2> SUFFICES ASSUME NEW n \in Nodes
               PROVE  /\ V[n] \in Seq(DownMessages)
                      /\ \A i \in DOMAIN V[n] : /\ Tells(V[n][i])
                                                /\ V[n][i] \in DownOf(n) /\ n \in Federates /\ Parent[n] = s
    BY DEF TellsOn
  <2>1. CASE n \in F
    BY <1>3, <1>4, <2>1
  <2>2. CASE n \notin F
    BY <1>4, <2>2
  <2> QED
    BY <2>1, <2>2
<1> QED
  BY <1>1, <1>3, <1>5, <1>6

LEMMA ServeLeafAnnounce ==
  ASSUME IInv, NEW s \in Leaves, LeafServeAnnounce(s)
  PROVE  IInv'
<1>0. Types /\ Routed
  BY DEF IInv
<1>1. PICK m, l, F, P, K, auto, old, t :
        /\ m = Head(down[s]) /\ l = m.label /\ F = m.set \cap (srv[s].known \ srv[s].leaving)
        /\ P = srv[s].points /\ K = srv[s].known /\ auto = m.auto
        /\ old = (IF l \in DOMAIN P THEN P[l] ELSE [waiting |-> {}, achieved |-> Nothing, auto |-> auto])
        /\ t = Announcements(l, F, auto)
  OBVIOUS
<1>2. /\ down[s] # <<>> /\ m.type = "Announce" /\ FromParent(s, t)
      /\ srv' = [srv EXCEPT ![s].points = Over(One(l, insert(old, F)), @)]
  BY <1>1 DEF LeafServeAnnounce, Announcements
<1>3. /\ down[s] \in Seq(DownMessages) /\ s \in Nodes /\ s \in Servers /\ s # Root /\ m \in DownMessages
      /\ Below(s) = {g \in Federates : Parent[g] = s}
  BY <1>1, <1>2, FromRoot
<1>4. IsServer(srv[s]) /\ DOMAIN srv = Servers /\ K \subseteq Below(s) /\ amb' = amb
  BY <1>0, <1>1, <1>2, <1>3 DEF Types, Routed, FromParent
<1>5. l \in Labels /\ auto \in BOOLEAN /\ F \subseteq K
  BY <1>1, <1>2, <1>3 DEF DownMessages
<1>6. IsPoints(P, K) /\ srv[s] = [known |-> K, leaving |-> srv[s].leaving, points |-> P]
  BY <1>1, <1>4 DEF IsServer
<1>7. Announcement(s, m, l, F) /\ OldPoint(P, l, auto, old)
  <2>1. Announcement(s, m, l, F)
    BY <1>1, <1>2, <1>3 DEF Announcement
  <2>2. OldPoint(P, l, auto, old)
    BY <1>1 DEF OldPoint
  <2> QED
    BY <2>1, <2>2
<1>8. \A g \in F : g \notin srv[s].leaving /\ ~Holds(P, l, g)
  <2> SUFFICES ASSUME NEW g \in F PROVE g \notin srv[s].leaving /\ ~Holds(P, l, g)
    OBVIOUS
  <2>1. g \notin srv[s].leaving /\ ~Has(s, l, g)
    BY <1>7, FoundOff
  <2> QED
    BY <1>1, <2>1 DEF Has, Holds
<1>9. PICK R : R = Over(One(l, insert(old, F)), P)
  OBVIOUS
<1>10. NewPoints(P, l, old, F, R)
  BY <1>9 DEF NewPoints
<1>11. Announced(P, K, l, F, R)
  BY <1>5, <1>6, <1>7, <1>8, <1>10, PointsAnnounced
<1>12. /\ DOMAIN srv' = Servers /\ (\A x \in Servers : x # s => srv'[x] = srv[x])
       /\ srv'[s] = [known |-> srv[s].known, leaving |-> srv[s].leaving, points |-> R]
       /\ srv'[s].points = R /\ srv'[Root] = srv[Root]
  <2>1. srv' = [srv EXCEPT ![s].points = R]
    BY <1>1, <1>2, <1>9
  <2> QED
    BY <1>3, <1>4, <1>6, <2>1, Tree
<1>13. Changes(s, R)
  <2>1. \A k \in DOMAIN R : \A g \in DOMAIN R[k].achieved :
          k \in DOMAIN P /\ g \in DOMAIN P[k].achieved /\ R[k].achieved[g] = P[k].achieved[g]
    <3> SUFFICES ASSUME NEW k \in DOMAIN R, NEW g \in DOMAIN R[k].achieved
                 PROVE  k \in DOMAIN P /\ g \in DOMAIN P[k].achieved /\ R[k].achieved[g] = P[k].achieved[g]
      OBVIOUS
    <3>1. CASE k = l
      <4>1. l \in DOMAIN P /\ R[l].achieved[g] = P[l].achieved[g]
        BY <1>11, <3>1 DEF Announced
      <4>2. Holds(R, l, g) <=> Holds(P, l, g)
        BY <1>11 DEF Announced
      <4> QED
        BY <3>1, <4>1, <4>2 DEF Holds
    <3>2. CASE k # l
      BY <1>11, <3>2 DEF Announced
    <3> QED
      BY <3>1, <3>2
  <2>2. IsPoints(R, K)
    BY <1>11 DEF Announced
  <2> QED
    BY <1>1, <1>12, <2>1, <2>2 DEF Changes
<1>14. PICK U, V : U = Given(NoMessages) /\ V = Given(t)
  OBVIOUS
<1>15. /\ DOMAIN t = F /\ \A n \in F : t[n] \in Seq(DownMessages)
       /\ TellsOn(s, V) /\ AnnouncesTo(F, l, V)
  <2>1. F \subseteq {g \in Federates : Parent[g] = s}
    BY <1>3, <1>4, <1>5
  <2>2. t = Announcements(l, F, auto)
    BY <1>1
  <2> QED
    BY <1>5, <1>14, <2>1, <2>2, AnnounceMessages
<1>16. Shift({}, {s}, U, V)
  <2>1. s \notin DOMAIN t
    BY <1>3, <1>4, <1>5, <1>15, Tree
  <2> QED
    BY <1>0, <1>2, <1>14, <1>15, <2>1, FromParentShift
<1>17. \A g \in Federates, k \in Labels : Parent[g] = s =>
           /\ Here(g) => Link(g, k)'
           /\ ~Resigned(g) => Edge(g, k)'
           /\ Awaits(s, k, g) => Awaits(s, k, g)' \/ ~Some(up[g], By(g, k))
           /\ Awaits(s, k, g)' => Awaits(s, k, g) \/ g \notin srv[s].leaving
  <2> SUFFICES ASSUME NEW g \in Federates, NEW k \in Labels, Parent[g] = s
               PROVE  /\ Here(g) => Link(g, k)'
                      /\ ~Resigned(g) => Edge(g, k)'
                      /\ Awaits(s, k, g) => Awaits(s, k, g)' \/ ~Some(up[g], By(g, k))
                      /\ Awaits(s, k, g)' => Awaits(s, k, g) \/ g \notin srv[s].leaving
    OBVIOUS
  <2>1. Announced(srv[s].points, srv[s].known, l, F, R)
    BY <1>1, <1>11
  <2>2. /\ U = Given(NoMessages) /\ TellsOn(s, V) /\ AnnouncesTo(F, l, V)
        /\ Announcement(s, m, l, F)
        /\ amb' = amb /\ srv'[Root] = srv[Root] /\ srv'[s].points = R
    BY <1>4, <1>7, <1>12, <1>14, <1>15
  <2>3. CASE g \in F /\ k = l
    <3>1. g \in F
      BY <2>3
    <3>2. Link(g, l)' /\ (~Resigned(g) => Edge(g, l)')
      BY <1>16, <2>1, <2>2, <3>1, AnnounceThose
    <3>3. ~Awaits(s, l, g) /\ g \notin srv[s].leaving
      BY <1>7, <2>3, FoundOff
    <3> QED
      BY <2>3, <3>2, <3>3
  <2>4. CASE g \notin F \/ k # l
    <3>1. /\ Awaits(s, k, g)' <=> Awaits(s, k, g)
          /\ Here(g) => Link(g, k)'
          /\ ~Resigned(g) => Edge(g, k)'
      BY <1>16, <2>1, <2>2, <2>4, AnnounceOthers
    <3> QED
      BY <3>1
  <2> QED
    BY <2>3, <2>4
<1>18. down[s] # <<>> /\ Tells(Head(down[s]))
  BY <1>1, <1>2 DEF Tells
<1> QED
  BY <1>4, <1>13, <1>14, <1>15, <1>16, <1>17, <1>18, LeafTold

\* The oldest message for server s ends the point with label l; it goes to the federates F.
Ending(s, m, l, F) ==
  /\ down[s] # <<>> /\ m = Head(down[s]) /\ m \in DownMessages /\ m.type = "Synchronized"
  /\ l = m.label /\ l \in Labels /\ F = DOMAIN m.pairs \cap Children(s)

EndsTo(F, l, V) ==
  \A n \in Nodes :
    /\ n \notin F => DOMAIN V[n] = {}
    /\ n \in F => /\ DOMAIN V[n] = {1} /\ V[n][1] \in EndTo(n, l)

\* Nobody is waited for any more, and those who are told have achieved the point.
LEMMA FoundEnded ==
  ASSUME IInv, NEW s \in Leaves, NEW m, NEW l, NEW F, Ending(s, m, l, F),
         NEW g \in Federates, Parent[g] = s
  PROVE  /\ ~Awaits(s, l, g)
         /\ Here(g) => /\ Has(s, l, g) <=> g \in DOMAIN m.pairs
                       /\ LinkOK(g, l, FALSE, FALSE, FALSE, Awaits(Root, l, g), Has(Root, l, g),
                                 up[s], Tail(down[s]))
         /\ ~Resigned(g) => (Has(s, l, g) <=> g \in F)
<1>1. /\ down[s] # <<>> /\ m = Head(down[s]) /\ m \in DownMessages /\ m.type = "Synchronized"
      /\ l = m.label /\ l \in Labels /\ F = DOMAIN m.pairs \cap Children(s)
  BY DEF Ending
<1>2. down[s] \in Seq(DownMessages) /\ s # Root /\ s \in Servers
  BY <1>1, FromRoot
<1>3. m \in EndOf(l) /\ (m \in EndTo(g, l) <=> g \in DOMAIN m.pairs)
  BY <1>1 DEF EndOf, EndTo
<1>4. PICK w, a, W, A : /\ w = Awaits(s, l, g) /\ a = Has(s, l, g)
                        /\ W = Awaits(Root, l, g) /\ A = Has(Root, l, g)
  OBVIOUS
<1>5. ASSUME Here(g)
      PROVE  /\ ~w /\ (a <=> g \in DOMAIN m.pairs)
             /\ LinkOK(g, l, FALSE, FALSE, FALSE, W, A, up[s], Tail(down[s]))
  <2>1. Link(g, l)
    BY <1>1, <1>2, <1>5 DEF IInv, Links
  <2>2. LinkOK(g, l, FALSE, w, a, W, A, up[s], down[s])
    BY <1>4, <2>1 DEF Link
  <2>3. PICK own, p, q : own = FALSE /\ p = up[s] /\ q = down[s]
    OBVIOUS
  <2>4. q \in Seq(DownMessages) /\ q # <<>> /\ Head(q) \in EndOf(l) /\ Head(q) = m
    BY <1>1, <1>2, <1>3, <2>3
  <2>5. LinkOK(g, l, own, w, a, W, A, p, q)
    BY <2>2, <2>3
  <2>6. /\ ~w /\ (a <=> Head(q) \in EndTo(g, l)) /\ ~Some(p, By(g, l)) /\ ~A
        /\ LinkOK(g, l, own, FALSE, FALSE, W, A, p, Tail(q))
    <3>1. q \in Seq(DownMessages) /\ q # <<>> /\ Head(q) \in EndOf(l)
      BY <2>4
    <3> HIDE <2>4
    <3> QED
      BY <2>5, <3>1, LinkEnded, ZenonT(30)
  <2> QED
    BY <1>3, <2>3, <2>4, <2>6
<1>6. ~w
  <2>1. CASE Here(g)
    BY <1>5, <2>1
  <2>2. CASE ~Here(g)
    <3>1. g \notin srv[s].known \/ g \in srv[s].leaving
      BY <2>2 DEF Here
    <3>2. Awaits(s, l, g) => g \in srv[s].known
      BY <1>1, <1>2, PointTypes DEF IInv
    <3>3. g \in srv[s].leaving => ~Awaits(s, l, g)
      BY <1>1 DEF IInv, NotLeaving
    <3> QED
      BY <1>4, <3>1, <3>2, <3>3
  <2> QED
    BY <2>1, <2>2
<1>7. ASSUME ~Resigned(g) PROVE a <=> g \in F
  <2>1. a <=> g \in DOMAIN m.pairs
    BY <1>5, <1>7 DEF Here
  <2>2. a => g \in srv[s].known
    BY <1>1, <1>2, <1>4, PointTypes DEF IInv
  <2>3. g \notin srv[s].leaving
    <3>1. MemberOK(g, amb[g].member, g \in srv[Root].known, g \in srv[Parent[g]].known,
                 g \in srv[Parent[g]].leaving, up[g], down[g], UpAbove(g), DownAbove(g))
      BY MemberNow DEF IInv, Membership
    <3> QED
      BY <1>7, <3>1 DEF MemberOK, Resigned
  <2>4. g \in Children(s) <=> g \in srv[s].known
    BY <1>2, <2>3, ChildrenOf
  <2> QED
    BY <1>1, <2>1, <2>2, <2>4
<1> QED
  BY <1>4, <1>5, <1>6, <1>7

LEMMA EndedAt ==
  ASSUME NEW s, NEW R, srv'[s].points = R, NEW l, Remaining(srv[s].points, srv[s].known, {l}, R),
         NEW g, NEW k
  PROVE  /\ k = l => ~Awaits(s, k, g)' /\ ~Has(s, k, g)'
         /\ k # l => (Awaits(s, k, g)' <=> Awaits(s, k, g)) /\ (Has(s, k, g)' <=> Has(s, k, g))
<1>1. PICK P : P = srv[s].points
  OBVIOUS
<1>2. PICK C : C = {l}
  OBVIOUS
<1>3. DOMAIN R = DOMAIN P \ C /\ \A j \in DOMAIN R : R[j] = P[j]
  BY <1>1, <1>2 DEF Remaining
<1>4. \A j : j \in DOMAIN R <=> j \in DOMAIN P /\ j # l
  BY <1>2, <1>3
<1> QED
  BY <1>1, <1>3, <1>4 DEF Awaits, Has

\* LinkEnd for a federate that its server tells of the end
LEMMA EndEdge ==
  ASSUME NEW g, NEW l, NEW u, NEW b, NEW p,
         NEW q \in Seq(DownMessages), NEW v \in Seq(DownMessages),
         LinkOK(g, l, TRUE, u, b, FALSE, TRUE, p, q), ~Some(p, By(g, l)),
         Lone(v, l, 1), v[1] \in EndTo(g, l), NEW r, r = q \o v
  PROVE  LinkOK(g, l, TRUE, u, b, FALSE, FALSE, p, r)
<1>1. PICK j, own : j = 1 /\ own = TRUE
  OBVIOUS
<1>2. /\ LinkOK(g, l, own, u, b, FALSE, TRUE, p, q) /\ Lone(v, l, j)
      /\ v[j] \in EndTo(g, l) /\ v[j] \in EndOf(l)
  BY <1>1 DEF EndTo
<1>3. LinkOK(g, l, own, u, b, FALSE, FALSE, p, q \o v)
  BY <1>2, LinkEnd
<1> QED
  BY <1>1, <1>3

LEMMA EndThat ==
  ASSUME IInv, NEW s \in Leaves, NEW m, NEW l, NEW F, Ending(s, m, l, F),
         NEW U, U = Given(NoMessages), NEW V, Shift({}, {s}, U, V), TellsOn(s, V), EndsTo(F, l, V),
         amb' = amb, srv'[Root] = srv[Root], NEW R, srv'[s].points = R,
         Remaining(srv[s].points, srv[s].known, {l}, R), NEW g \in Federates, Parent[g] = s
  PROVE  (Here(g) => Link(g, l)') /\ (~Resigned(g) => Edge(g, l)')
<1>0. Types /\ l \in Labels
  BY DEF IInv, Ending
<1>1. /\ ~Awaits(s, l, g)
      /\ Here(g) => LinkOK(g, l, FALSE, FALSE, FALSE, Awaits(Root, l, g), Has(Root, l, g),
                           up[s], Tail(down[s]))
      /\ ~Resigned(g) => (Has(s, l, g) <=> g \in F)
  BY FoundEnded
<1>2. ~Awaits(s, l, g)' /\ ~Has(s, l, g)'
  BY EndedAt
<1>3. PICK W, A : W = Awaits(s, l, g)' /\ A = Has(s, l, g)'
  OBVIOUS
<1>4. W = FALSE /\ A = FALSE
  BY <1>2, <1>3 DEF Awaits, Has
<1>5. /\ up'[s] = up[s] /\ down'[s] = Tail(down[s])
      /\ up'[g] = up[g] /\ down'[g] = down[g] \o V[g] /\ V[g] \in Seq(DownMessages)
  <2>1. /\ up'[s] = up[s] /\ down'[s] = Tail(down[s])
        /\ \A f \in Federates : Parent[f] = s =>
             up'[f] = up[f] /\ down'[f] = down[f] \o V[f] /\ V[f] \in Seq(DownMessages)
    BY <1>0, ToldMoves
  <2> QED
    BY <2>1
<1>6. ASSUME Here(g) PROVE Link(g, l)'
  <2>1. LinkOK(g, l, FALSE, W, A, Awaits(Root, l, g), Has(Root, l, g), up[s], Tail(down[s]))
    BY <1>1, <1>4, <1>6
  <2> QED
    BY <1>3, <1>5, <2>1, ToldLink
<1>7. ASSUME ~Resigned(g), g \in F PROVE Edge(g, l)'
  <2>1. PICK u, b, x, y : /\ u = (l \in amb[g].due) /\ b = (l \in DOMAIN amb[g].done)
                          /\ x = Awaits(s, l, g) /\ y = Has(s, l, g)
    OBVIOUS
  <2>2. Edge(g, l) /\ Answering(g, l)
    BY <1>0, <1>7 DEF IInv, Edges, Pending
  <2>3. LinkOK(g, l, TRUE, u, b, x, y, up[g], down[g])
    BY <2>1, <2>2 DEF Edge
  <2>4. ~Some(up[g], By(g, l)) /\ x = FALSE /\ y = TRUE
    BY <1>1, <1>7, <2>1, <2>2 DEF Answering, Awaits, Has
  <2>5. g \in Nodes /\ down[g] \in Seq(DownMessages)
    BY <1>0, Tree DEF Types
  <2>6. Lone(V[g], l, 1) /\ V[g][1] \in EndTo(g, l)
    BY <1>7, <2>5 DEF EndsTo, Lone
  <2>7. PICK p, q, v, r : p = up[g] /\ q = down[g] /\ v = V[g] /\ r = q \o v
    OBVIOUS
  <2>8. q \in Seq(DownMessages) /\ v \in Seq(DownMessages)
    BY <1>5, <2>5, <2>7
  <2>9. LinkOK(g, l, TRUE, u, b, FALSE, TRUE, p, q) /\ ~Some(p, By(g, l))
    BY <2>3, <2>4, <2>7
  <2>10. Lone(v, l, 1) /\ v[1] \in EndTo(g, l)
    BY <2>6, <2>7
  <2>11. LinkOK(g, l, TRUE, u, b, FALSE, FALSE, p, r)
    BY <2>7, <2>8, <2>9, <2>10, EndEdge
  <2>12. up'[g] = p /\ down'[g] = r
    BY <1>5, <2>7
  <2>13. LinkOK(g, l, TRUE, l \in amb[g].due, l \in DOMAIN amb[g].done, W, A, p, r)
    BY <1>4, <2>1, <2>11
  <2> QED
    BY <1>3, <2>12, <2>13, ToldEdge
<1>8. ASSUME ~Resigned(g), g \notin F PROVE Edge(g, l)'
  <2>1. Edge(g, l) /\ g \in Nodes /\ g # s
    BY <1>0, <1>8, Tree DEF IInv, Edges
  <2>2. /\ l \in amb'[g].due <=> l \in amb[g].due
        /\ l \in DOMAIN amb'[g].done <=> l \in DOMAIN amb[g].done
    OBVIOUS
  <2>3. (Awaits(s, l, g)' <=> Awaits(s, l, g)) /\ (Has(s, l, g)' <=> Has(s, l, g))
    BY <1>1, <1>2, <1>8
  <2>4. ~Some(U[g], By(g, l)) /\ (g \in {s} => Head(down[g]) \notin Touch(g, l))
    BY <2>1, GivenNone
  <2>5. DOMAIN V[g] = {}
    BY <1>8, <2>1 DEF EndsTo
  <2> QED
    BY <1>0, <2>1, <2>2, <2>3, <2>4, <2>5, ShiftEdge
<1> QED
  BY <1>6, <1>7, <1>8

LEMMA EndOthers ==
  ASSUME IInv, NEW s \in Leaves, NEW m, NEW l, NEW F, Ending(s, m, l, F),
         NEW U, U = Given(NoMessages), NEW V, Shift({}, {s}, U, V), TellsOn(s, V), EndsTo(F, l, V),
         amb' = amb, srv'[Root] = srv[Root], NEW R, srv'[s].points = R,
         Remaining(srv[s].points, srv[s].known, {l}, R),
         NEW g \in Federates, NEW k \in Labels, Parent[g] = s, k # l
  PROVE  /\ Awaits(s, k, g)' <=> Awaits(s, k, g)
         /\ Here(g) => Link(g, k)'
         /\ ~Resigned(g) => Edge(g, k)'
<1>0. Types
  BY DEF IInv
<1>1. (Awaits(s, k, g)' <=> Awaits(s, k, g)) /\ (Has(s, k, g)' <=> Has(s, k, g))
  BY EndedAt
<1>2. /\ down[s] # <<>> /\ m = Head(down[s]) /\ m \in DownMessages /\ m.type = "Synchronized" /\ l = m.label
  BY DEF Ending
<1>3. /\ s \in Nodes /\ s # Root /\ g \in Nodes /\ g # s
      /\ up'[s] = up[s] /\ down'[s] = Tail(down[s]) /\ down[s] \in Seq(DownMessages)
  BY <1>0, ToldMoves, Tree
<1>4. ASSUME Here(g) PROVE Link(g, k)'
  <2>1. PICK w, a, W, A : /\ w = Awaits(s, k, g) /\ a = Has(s, k, g)
                          /\ W = Awaits(Root, k, g) /\ A = Has(Root, k, g)
    OBVIOUS
  <2>2. Link(g, k)
    BY <1>3, <1>4 DEF IInv, Links
  <2>3. LinkOK(g, k, FALSE, w, a, W, A, up[s], down[s])
    BY <2>1, <2>2 DEF Link
  <2>4. m \notin Touch(g, k)
    BY <1>2 DEF Touch, AnnTo, EndOf
  <2>5. LinkOK(g, k, FALSE, w, a, W, A, up[s], Tail(down[s]))
    BY <1>2, <1>3, <2>3, <2>4, LinkPass
  <2>6. PICK x, y : x = Awaits(s, k, g)' /\ y = Has(s, k, g)'
    OBVIOUS
  <2>7. x = w /\ y = a
    BY <1>1, <2>1, <2>6 DEF Awaits, Has
  <2>8. LinkOK(g, k, FALSE, x, y, Awaits(Root, k, g), Has(Root, k, g), up[s], Tail(down[s]))
    BY <2>1, <2>5, <2>7
  <2> QED
    BY <1>3, <2>6, <2>8, ToldLink
<1>5. ASSUME ~Resigned(g) PROVE Edge(g, k)'
  <2>1. Edge(g, k)
    BY <1>5 DEF IInv, Edges
  <2>2. /\ k \in amb'[g].due <=> k \in amb[g].due
        /\ k \in DOMAIN amb'[g].done <=> k \in DOMAIN amb[g].done
    OBVIOUS
  <2>3. ~Some(U[g], By(g, k)) /\ (g \in {s} => Head(down[g]) \notin Touch(g, k))
    BY <1>3, GivenNone
  <2>4. \A i \in DOMAIN V[g] : V[g][i] \notin About(k)
    <3>1. CASE g \notin F
      BY <1>3, <3>1 DEF EndsTo
    <3>2. CASE g \in F
      <4>1. DOMAIN V[g] = {1} /\ V[g][1] \in EndTo(g, l)
        BY <1>3, <3>2 DEF EndsTo
      <4>2. V[g][1] \notin About(k)
        BY <4>1 DEF EndTo, EndOf, About
      <4> QED
        BY <4>1, <4>2
    <3> QED
      BY <3>1, <3>2
  <2>5. \A i \in DOMAIN V[g] : V[g][i] \notin Touch(g, k)
    BY <2>4, TouchAbout
  <2> QED
    BY <1>0, <1>1, <2>1, <2>2, <2>3, <2>4, <2>5, ShiftEdge
<1> QED
  BY <1>1, <1>4, <1>5

\* What a leaf server sends when label l ends with the answers b of the federates F
EndAnswers(l, F, b) == [f \in F |-> <<Synchronized(l, One(f, b[f]))>>]

LEMMA OneIn ==
  ASSUME NEW f \in Federates, NEW x \in BOOLEAN, NEW a, a = One(f, x)
  PROVE  a \in Answers /\ DOMAIN a = {f} /\ f \in DOMAIN a
<1>1. PICK A : A = {f}
  OBVIOUS
<1>2. DOMAIN a = A /\ f \in A /\ A \subseteq Federates /\ a[f] = x
  BY <1>1, OneAt
<1>3. a \in [A -> BOOLEAN]
  <2>1. a = [z \in A |-> x]
    BY <1>1 DEF One
  <2> QED
    BY <2>1
<1>4. a \in Answers
  BY <1>2, <1>3 DEF Answers
<1> QED
  BY <1>1, <1>2, <1>4

LEMMA EndMessages ==
  ASSUME NEW s \in Leaves, NEW l \in Labels, NEW b, NEW F, F \subseteq {g \in Federates : Parent[g] = s},
         \A g \in F : b[g] \in BOOLEAN,
         NEW t, t = EndAnswers(l, F, b), NEW V, V = Given(t)
  PROVE  /\ DOMAIN t = F /\ \A n \in F : t[n] \in Seq(DownMessages)
         /\ TellsOn(s, V) /\ EndsTo(F, l, V)
<1>1. DOMAIN t = F
  BY DEF EndAnswers
<1>2. ASSUME NEW n \in F
      PROVE  \E r \in DownMessages : t[n] = <<r>> /\ Tells(r) /\ r \in DownOf(n) /\ r \in EndTo(n, l)
  <2>1. PICK a, r : a = One(n, b[n]) /\ r = Synchronized(l, a)
    OBVIOUS
  <2>2. t[n] = <<r>>
    BY <2>1 DEF EndAnswers
  <2>3. n \in Federates /\ b[n] \in BOOLEAN
    OBVIOUS
  <2>4. a \in Answers /\ n \in DOMAIN a
    BY <2>1, <2>3, OneIn
  <2>5. r \in DownMessages /\ r.type = "Synchronized" /\ r.pairs = a /\ (r \in EndTo(n, l) <=> n \in DOMAIN a)
    BY <2>1, <2>4, EndMessage
  <2>6. Tells(r) /\ r \in DownOf(n)
    BY <2>4, <2>5 DEF Tells, DownOf
  <2> QED
    BY <2>2, <2>4, <2>5, <2>6
<1>3. ASSUME NEW n \in F
      PROVE  /\ n \in Federates /\ n \in Nodes /\ Parent[n] = s
             /\ t[n] \in Seq(DownMessages) /\ DOMAIN t[n] = {1}
             /\ Tells(t[n][1]) /\ t[n][1] \in DownOf(n) /\ t[n][1] \in EndTo(n, l)
  <2>1. n \in Federates /\ n \in Nodes /\ Parent[n] = s
    BY Tree
  <2>2. PICK r \in DownMessages : t[n] = <<r>> /\ Tells(r) /\ r \in DownOf(n) /\ r \in EndTo(n, l)
    BY <1>2
  <2>3. <<r>> \in Seq(DownMessages) /\ DOMAIN <<r>> = {1} /\ <<r>>[1] = r
    BY OneOf
  <2> QED
    BY <2>1, <2>2, <2>3
<1>4. ASSUME NEW n \in Nodes
      PROVE  /\ n \in F => V[n] = t[n]
             /\ n \notin F => V[n] \in Seq(DownMessages) /\ DOMAIN V[n] = {}
  <2>1. /\ V[n] = IF n \in DOMAIN t THEN t[n] ELSE <<>>
        /\ n \notin DOMAIN t => DOMAIN V[n] = {}
    BY GivenAt
  <2>2. <<>> \in Seq(DownMessages)
    BY EmptySeq
  <2> QED
    BY <1>1, <2>1, <2>2
<1>5. EndsTo(F, l, V)
  BY <1>3, <1>4 DEF EndsTo
<1>6. TellsOn(s, V)
  <2> SUFFICES ASSUME NEW n \in Nodes
               PROVE  /\ V[n] \in Seq(DownMessages)
                      /\ \A i \in DOMAIN V[n] : /\ Tells(V[n][i])
                                                /\ V[n][i] \in DownOf(n) /\ n \in Federates /\ Parent[n] = s
    BY DEF TellsOn
  <2>1. CASE n \in F
    BY <1>3, <1>4, <2>1
  <2>2. CASE n \notin F
    BY <1>4, <2>2
  <2> QED
    BY <2>1, <2>2
<1> QED
  BY <1>1, <1>3, <1>5, <1>6

LEMMA ServeLeafSynchronized ==
  ASSUME IInv, NEW s \in Leaves, LeafServeSynchronized(s)
  PROVE  IInv'
<1>0. Types /\ Routed
  BY DEF IInv
<1>1. PICK m, l, F, P, K, b, t :
        /\ m = Head(down[s]) /\ l = m.label /\ b = m.pairs /\ F = DOMAIN m.pairs \cap Children(s)
        /\ P = srv[s].points /\ K = srv[s].known
        /\ t = EndAnswers(l, F, b)
  OBVIOUS
<1>2. /\ down[s] # <<>> /\ m.type = "Synchronized" /\ FromParent(s, t)
      /\ srv' = [srv EXCEPT ![s].points = Without(@, {l})]
  BY <1>1 DEF LeafServeSynchronized, EndAnswers
<1>3. /\ down[s] \in Seq(DownMessages) /\ s \in Nodes /\ s \in Servers /\ s # Root /\ m \in DownMessages
      /\ Below(s) = {g \in Federates : Parent[g] = s}
  BY <1>1, <1>2, FromRoot
<1>4. IsServer(srv[s]) /\ DOMAIN srv = Servers /\ amb' = amb
  BY <1>0, <1>1, <1>2, <1>3 DEF Types, FromParent
<1>5. l \in Labels /\ b \in Answers /\ F \subseteq {g \in Federates : Parent[g] = s}
  <2>1. m \in [type : {"Synchronized"}, label : Labels, pairs : Answers]
    BY <1>2, <1>3 DEF DownMessages
  <2>2. Children(s) \subseteq Federates /\ \A f \in Federates : f \in Children(s) => Parent[f] = s
    BY <1>3, ChildrenOf
  <2> QED
    BY <1>1, <2>1, <2>2
<1>6. IsPoints(P, K) /\ srv[s] = [known |-> K, leaving |-> srv[s].leaving, points |-> P]
  BY <1>1, <1>4 DEF IsServer
<1>7. Ending(s, m, l, F)
  BY <1>1, <1>2, <1>3, <1>5 DEF Ending
<1>8. PICK C : C = {l}
  OBVIOUS
<1>9. PICK R : R = Without(P, C)
  OBVIOUS
<1>10. Remaining(P, K, C, R)
  BY <1>6, <1>9, PointsWithout
<1>11. /\ DOMAIN srv' = Servers /\ (\A x \in Servers : x # s => srv'[x] = srv[x])
       /\ srv'[s] = [known |-> srv[s].known, leaving |-> srv[s].leaving, points |-> R]
       /\ srv'[s].points = R /\ srv'[Root] = srv[Root]
  <2>1. srv' = [srv EXCEPT ![s].points = R]
    BY <1>1, <1>2, <1>8, <1>9
  <2> QED
    BY <1>3, <1>4, <1>6, <2>1, Tree
<1>12. Changes(s, R)
  <2>1. IsPoints(R, K) /\ DOMAIN R \subseteq DOMAIN P /\ \A k \in DOMAIN R : R[k] = P[k]
    BY <1>10 DEF Remaining
  <2> QED
    BY <1>1, <1>11, <2>1 DEF Changes
<1>13. PICK U, V : U = Given(NoMessages) /\ V = Given(t)
  OBVIOUS
<1>14. /\ DOMAIN t = F /\ \A n \in F : t[n] \in Seq(DownMessages)
       /\ TellsOn(s, V) /\ EndsTo(F, l, V)
  <2>1. \A g \in F : b[g] \in BOOLEAN
    BY <1>1, <1>5 DEF Answers
  <2>2. t = EndAnswers(l, F, b)
    BY <1>1
  <2> QED
    BY <1>5, <1>13, <2>1, <2>2, EndMessages
<1>15. Shift({}, {s}, U, V)
  <2>1. s \notin DOMAIN t
    BY <1>5, <1>14, Tree
  <2> QED
    BY <1>0, <1>2, <1>13, <1>14, <2>1, FromParentShift
<1>16. \A g \in Federates, k \in Labels : Parent[g] = s =>
           /\ Here(g) => Link(g, k)'
           /\ ~Resigned(g) => Edge(g, k)'
           /\ Awaits(s, k, g) => Awaits(s, k, g)' \/ ~Some(up[g], By(g, k))
           /\ Awaits(s, k, g)' => Awaits(s, k, g) \/ g \notin srv[s].leaving
  <2> SUFFICES ASSUME NEW g \in Federates, NEW k \in Labels, Parent[g] = s
               PROVE  /\ Here(g) => Link(g, k)'
                      /\ ~Resigned(g) => Edge(g, k)'
                      /\ Awaits(s, k, g) => Awaits(s, k, g)' \/ ~Some(up[g], By(g, k))
                      /\ Awaits(s, k, g)' => Awaits(s, k, g) \/ g \notin srv[s].leaving
    OBVIOUS
  <2>1. Remaining(srv[s].points, srv[s].known, {l}, R)
    BY <1>1, <1>8, <1>10
  <2>2. /\ U = Given(NoMessages) /\ TellsOn(s, V) /\ EndsTo(F, l, V)
        /\ Ending(s, m, l, F)
        /\ amb' = amb /\ srv'[Root] = srv[Root] /\ srv'[s].points = R
    BY <1>4, <1>7, <1>11, <1>13, <1>14
  <2>3. CASE k = l
    <3>1. (Here(g) => Link(g, l)') /\ (~Resigned(g) => Edge(g, l)')
      BY <1>15, <2>1, <2>2, EndThat
    <3>2. ~Awaits(s, l, g)
      BY <1>7, FoundEnded
    <3>3. ~Awaits(s, l, g)'
      BY <2>1, <2>2, EndedAt
    <3> QED
      BY <2>3, <3>1, <3>2, <3>3
  <2>4. CASE k # l
    <3>1. /\ Awaits(s, k, g)' <=> Awaits(s, k, g)
          /\ Here(g) => Link(g, k)'
          /\ ~Resigned(g) => Edge(g, k)'
      BY <1>15, <2>1, <2>2, <2>4, EndOthers
    <3> QED
      BY <3>1
  <2> QED
    BY <2>3, <2>4
<1>17. down[s] # <<>> /\ Tells(Head(down[s]))
  BY <1>1, <1>2 DEF Tells
<1> QED
  BY <1>4, <1>12, <1>13, <1>14, <1>15, <1>16, <1>17, LeafTold

-----------------------------------------------------------------------------
(* The invariant *)

LEMMA NoneAtFirst ==
  ASSUME NEW q, q = <<>>
  PROVE  /\ DOMAIN q = {} /\ \A X, Y : ~Some(q, X) /\ Single(q, X) /\ ~SomeAfter(q, Y, X)
         /\ \A D : Run(q, D, "off", "off")
<1>1. "off" \in States
  BY DEF States
<1>2. DOMAIN q = {}
  OBVIOUS
<1>3. ASSUME NEW X, NEW Y PROVE ~Some(q, X) /\ Single(q, X) /\ ~SomeAfter(q, Y, X)
  BY <1>2 DEF Some, Single, SomeAfter
<1>4. ASSUME NEW D PROVE Run(q, D, "off", "off")
  BY <1>1, EmptyQueue
<1> QED
  BY <1>2, <1>3, <1>4

LEMMA LinkAtFirst ==
  ASSUME NEW f, NEW l, NEW own, NEW p, p = <<>>, NEW q, q = <<>>
  PROVE  LinkOK(f, l, own, FALSE, FALSE, FALSE, FALSE, p, q)
<1>1. /\ ~Some(p, By(f, l)) /\ ~Some(q, AnnTo(f, l))
      /\ Run(q, Steps(f, l, own), "off", "off")
  BY NoneAtFirst
<1>2. Switch(FALSE \/ FALSE) = "off"
  BY SwitchOf
<1> QED
  BY <1>1, <1>2 DEF LinkOK

LEMMA InitServers ==
  ASSUME Init
  PROVE  /\ DOMAIN srv = Servers
         /\ \A s \in Servers :
              /\ srv[s] = [known |-> srv[s].known, leaving |-> {}, points |-> Nothing]
              /\ srv[s].known \subseteq Federates /\ srv[s].leaving = {} /\ srv[s].points = Nothing
              /\ \A f : f \in srv[s].known <=> f \in InitialMembers /\ (s = Root \/ s = Parent[f])
<1>1. PICK K : K = [s \in Servers |-> {f \in InitialMembers : s \in {Root, Parent[f]}}]
  OBVIOUS
<1>2. /\ DOMAIN srv = Servers
      /\ \A s \in Servers : srv[s] = [known |-> K[s], leaving |-> {}, points |-> Nothing]
  BY <1>1 DEF Init
<1>3. \A s \in Servers : /\ K[s] \subseteq Federates
                         /\ \A f : f \in K[s] <=> f \in InitialMembers /\ (s = Root \/ s = Parent[f])
  BY <1>1, TreeAssumption
<1> QED
  BY <1>2, <1>3

LEMMA InitRest ==
  ASSUME Init
  PROVE  /\ DOMAIN amb = Federates
         /\ \A f \in Federates :
              /\ amb[f] = [member |-> amb[f].member, announced |-> {}, due |-> {},
                           done |-> Nothing, made |-> {}]
              /\ amb[f].member = IF f \in InitialMembers THEN "in" ELSE "out"
              /\ amb[f].announced = {} /\ amb[f].due = {} /\ amb[f].done = Nothing
         /\ up \in [Nodes -> Seq(UpMessages)] /\ down \in [Nodes -> Seq(DownMessages)]
         /\ \A n \in Nodes : up[n] = <<>> /\ down[n] = <<>>
<1>1. PICK M : M = [f \in Federates |-> IF f \in InitialMembers THEN "in" ELSE "out"]
  OBVIOUS
<1>2. /\ DOMAIN amb = Federates
      /\ \A f \in Federates : amb[f] = [member |-> M[f], announced |-> {}, due |-> {},
                                        done |-> Nothing, made |-> {}]
  BY <1>1 DEF Init
<1>3. up \in [Nodes -> Seq(UpMessages)] /\ down \in [Nodes -> Seq(DownMessages)]
      /\ \A n \in Nodes : up[n] = <<>> /\ down[n] = <<>>
  BY EmptySeq DEF Init
<1> QED
  BY <1>1, <1>2, <1>3

LEMMA NothingIs == DOMAIN Nothing = {}
BY DEF Nothing

LEMMA Starts ==
  ASSUME Init
  PROVE  IInv
<1>1. /\ DOMAIN srv = Servers
      /\ \A s \in Servers :
           /\ srv[s] = [known |-> srv[s].known, leaving |-> {}, points |-> Nothing]
           /\ srv[s].known \subseteq Federates /\ srv[s].leaving = {} /\ srv[s].points = Nothing
           /\ \A f : f \in srv[s].known <=> f \in InitialMembers /\ (s = Root \/ s = Parent[f])
  BY InitServers
<1>2. /\ DOMAIN amb = Federates
      /\ \A f \in Federates :
           /\ amb[f] = [member |-> amb[f].member, announced |-> {}, due |-> {},
                        done |-> Nothing, made |-> {}]
           /\ amb[f].member = IF f \in InitialMembers THEN "in" ELSE "out"
           /\ amb[f].announced = {} /\ amb[f].due = {} /\ amb[f].done = Nothing
  BY InitRest
<1>3. /\ up \in [Nodes -> Seq(UpMessages)] /\ down \in [Nodes -> Seq(DownMessages)]
      /\ \A n \in Nodes : up[n] = <<>> /\ down[n] = <<>>
  BY InitRest
<1>4. \A s \in Servers : \A l, f : ~Awaits(s, l, f) /\ ~Has(s, l, f)
  BY <1>1, NothingIs DEF Awaits, Has
<1>5. \A n \in Nodes : DOMAIN up[n] = {} /\ DOMAIN down[n] = {}
  BY <1>3
<1>6. Types
  <2>1. ASSUME NEW s \in Servers PROVE IsServer(srv[s])
    <3>1. PICK x : x = srv[s]
      OBVIOUS
    <3>2. /\ x = [known |-> x.known, leaving |-> {}, points |-> Nothing]
          /\ x.known \subseteq Federates /\ x.leaving = {} /\ x.points = Nothing
      BY <1>1, <3>1
    <3>3. IsPoints(x.points, x.known)
      <4>1. DOMAIN x.points = {} /\ IsFiniteSet({})
        BY <3>2, NothingIs, FS_EmptySet
      <4> QED
        BY <4>1 DEF IsPoints
    <3>4. x \in [known : SUBSET Federates, leaving : SUBSET x.known, points : {x.points}]
      BY <3>2
    <3> QED
      BY <3>1, <3>3, <3>4 DEF IsServer
  <2>2. ASSUME NEW f \in Federates PROVE IsAmbassador(amb[f])
    <3>1. PICK x : x = amb[f]
      OBVIOUS
    <3>2. /\ x = [member |-> x.member, announced |-> {}, due |-> {}, done |-> Nothing, made |-> {}]
          /\ x.member \in {"out", "joining", "in", "resigned"} /\ x.announced = {} /\ x.done = Nothing
      BY <1>2, <3>1
    <3>3. x \in [member : {"out", "joining", "in", "resigned"}, announced : SUBSET Labels,
                 due : SUBSET x.announced, done : {x.done}, made : SUBSET Points]
      BY <3>2
    <3> QED
      BY <3>1, <3>2, <3>3, NothingIs DEF IsAmbassador
  <2> QED
    BY <1>1, <1>2, <1>3, <2>1, <2>2 DEF Types
<1>7. Routed
  <2>1. \A s \in Leaves : srv[s].known \subseteq Below(s)
    BY <1>1, Tree DEF Below
  <2>2. srv[Root].leaving = {}
    BY <1>1, Tree
  <2> QED
    BY <1>5, <2>1, <2>2 DEF Routed
<1>8. Membership
  <2> SUFFICES ASSUME NEW f \in Federates PROVE Member(f)
    BY DEF Membership
  <2>1. PICK pf, qf, ps, qs : pf = up[f] /\ qf = down[f] /\ ps = UpAbove(f) /\ qs = DownAbove(f)
    OBVIOUS
  <2>2. pf = <<>> /\ qf = <<>> /\ ps = <<>> /\ qs = <<>>
    <3>1. f \in Nodes /\ (Parent[f] # Root => Parent[f] \in Nodes)
      BY Tree
    <3> QED
      BY <1>3, <2>1, <3>1 DEF UpAbove, DownAbove
  <2>3. \A X, Y : /\ ~Some(pf, X) /\ Single(pf, X) /\ ~Some(ps, X) /\ Single(ps, X)
                  /\ ~Some(qf, X) /\ Single(qf, X) /\ ~Some(qs, X) /\ Single(qs, X) /\ ~SomeAfter(qs, Y, X)
    <3>1. /\ \A X, Y : ~Some(pf, X) /\ Single(pf, X) /\ ~SomeAfter(pf, Y, X)
          /\ \A X, Y : ~Some(qf, X) /\ Single(qf, X) /\ ~SomeAfter(qf, Y, X)
      BY <2>2, NoneAtFirst
    <3> QED
      BY <2>2, <3>1
  <2>4. PICK a, kr, kp, lv : /\ a = amb[f].member /\ kr = (f \in srv[Root].known)
                             /\ kp = (f \in srv[Parent[f]].known) /\ lv = (f \in srv[Parent[f]].leaving)
    OBVIOUS
  <2>5. Parent[f] \in Servers /\ Root \in Servers
    BY Tree
  <2>6. (kr <=> f \in InitialMembers) /\ (kp <=> f \in InitialMembers) /\ ~lv
        /\ (a = "out" => f \notin InitialMembers)
    BY <1>1, <1>2, <2>4, <2>5
  <2>7. MemberOK(f, a, kr, kp, lv, pf, qf, ps, qs)
    BY <2>3, <2>6 DEF MemberOK
  <2> QED
    BY <2>1, <2>4, <2>7 DEF Member
<1>9. Edges
  <2> SUFFICES ASSUME NEW f \in Federates, NEW l \in Labels PROVE Edge(f, l)
    BY DEF Edges
  <2>1. f \in Nodes /\ Parent[f] \in Servers
    BY Tree
  <2>2. PICK w, a, W, A, p, q :
          /\ w = (l \in amb[f].due) /\ a = (l \in DOMAIN amb[f].done)
          /\ W = Awaits(Parent[f], l, f) /\ A = Has(Parent[f], l, f) /\ p = up[f] /\ q = down[f]
    OBVIOUS
  <2>3. p = <<>> /\ q = <<>>
    BY <1>3, <2>1, <2>2
  <2>4. w = FALSE /\ a = FALSE
    <3>1. l \notin amb[f].due /\ l \notin DOMAIN amb[f].done
      BY <1>2, NothingIs
    <3>2. (l \in amb[f].due) = FALSE /\ (l \in DOMAIN amb[f].done) = FALSE
      BY <3>1
    <3> QED
      BY <2>2, <3>2
  <2>5. W = FALSE /\ A = FALSE
    BY <1>4, <2>1, <2>2 DEF Awaits, Has
  <2>6. LinkOK(f, l, TRUE, FALSE, FALSE, FALSE, FALSE, p, q)
    BY <2>3, LinkAtFirst
  <2>7. LinkOK(f, l, TRUE, w, a, W, A, p, q)
    BY <2>4, <2>5, <2>6
  <2> QED
    BY <2>2, <2>7 DEF Edge
<1>10. Links
  <2> SUFFICES ASSUME NEW f \in Federates, NEW l \in Labels, Parent[f] # Root PROVE Link(f, l)
    BY DEF Links
  <2>1. Parent[f] \in Nodes /\ Parent[f] \in Servers /\ Root \in Servers
    BY Tree
  <2>2. PICK w, a, W, A, p, q :
          /\ w = Awaits(Parent[f], l, f) /\ a = Has(Parent[f], l, f)
          /\ W = Awaits(Root, l, f) /\ A = Has(Root, l, f) /\ p = up[Parent[f]] /\ q = down[Parent[f]]
    OBVIOUS
  <2>3. p = <<>> /\ q = <<>>
    BY <1>3, <2>1, <2>2
  <2>4. w = FALSE /\ a = FALSE
    BY <1>4, <2>1, <2>2 DEF Awaits, Has
  <2>5. W = FALSE /\ A = FALSE
    BY <1>4, <2>1, <2>2 DEF Awaits, Has
  <2>6. LinkOK(f, l, FALSE, FALSE, FALSE, FALSE, FALSE, p, q)
    BY <2>3, LinkAtFirst
  <2>7. LinkOK(f, l, FALSE, w, a, W, A, p, q)
    BY <2>4, <2>5, <2>6
  <2> QED
    BY <2>2, <2>7 DEF Link
<1>11. Labelled
  BY <1>2, NothingIs DEF Labelled
<1>12. Pending
  <2> SUFFICES ASSUME NEW f \in Federates, NEW l \in Labels PROVE Answering(f, l)
    BY DEF Pending
  <2>1. up[f] = <<>>
    BY <1>3, Tree
  <2>2. \A X, Y : ~Some(up[f], X) /\ Single(up[f], X) /\ ~SomeAfter(up[f], Y, X)
    BY <2>1, NoneAtFirst
  <2> QED
    BY <2>2 DEF Answering
<1>13. Fresh /\ Claims
  <2>1. \A s \in Leaves : s \in Nodes
    BY Tree
  <2> QED
    BY <1>5, <2>1 DEF Fresh, AllNews, Claims
<1>14. NotLeaving /\ ForAll /\ SuccessIsReal
  <2>1. NotLeaving
    BY <1>1, Tree DEF NotLeaving
  <2>2. ForAll
    BY <1>1, NothingIs, Tree DEF ForAll
  <2>3. SuccessIsReal
    BY <1>1, NothingIs DEF SuccessIsReal
  <2> QED
    BY <2>1, <2>2, <2>3
<1> QED
  BY <1>6, <1>7, <1>8, <1>9, <1>10, <1>11, <1>12, <1>13, <1>14 DEF IInv

LEMMA Stays ==
  ASSUME IInv, UNCHANGED vars
  PROVE  IInv'
<1>1. srv' = srv /\ amb' = amb /\ up' = up /\ down' = down
  BY DEF vars
<1>2. Types' /\ Routed' /\ Labelled' /\ NotLeaving' /\ ForAll' /\ SuccessIsReal'
  BY <1>1 DEF IInv, Types, Routed, Labelled, Resigned, NotLeaving, Awaits, ForAll, SuccessIsReal
<1>3. Membership'
  BY <1>1 DEF IInv, Membership, Member, UpAbove, DownAbove
<1>4. Edges' /\ Links'
  <2>1. \A s, l, f : (Awaits(s, l, f)' = Awaits(s, l, f)) /\ (Has(s, l, f)' = Has(s, l, f))
    BY <1>1 DEF Awaits, Has
  <2>2. ASSUME NEW f, NEW l, Edge(f, l) PROVE Edge(f, l)'
    <3>1. PICK W, A : W = Awaits(Parent[f], l, f) /\ A = Has(Parent[f], l, f)
      OBVIOUS
    <3>2. LinkOK(f, l, TRUE, l \in amb[f].due, l \in DOMAIN amb[f].done, W, A, up[f], down[f])
      BY <2>2, <3>1 DEF Edge
    <3>3. W = Awaits(Parent[f], l, f)' /\ A = Has(Parent[f], l, f)'
      BY <2>1, <3>1
    <3> QED
      BY <1>1, <3>2, <3>3 DEF Edge
  <2>3. ASSUME NEW f, NEW l, Link(f, l) PROVE Link(f, l)'
    <3>1. PICK w, a, W, A : /\ w = Awaits(Parent[f], l, f) /\ a = Has(Parent[f], l, f)
                            /\ W = Awaits(Root, l, f) /\ A = Has(Root, l, f)
      OBVIOUS
    <3>2. LinkOK(f, l, FALSE, w, a, W, A, up[Parent[f]], down[Parent[f]])
      BY <2>3, <3>1 DEF Link
    <3>3. /\ w = Awaits(Parent[f], l, f)' /\ a = Has(Parent[f], l, f)'
          /\ W = Awaits(Root, l, f)' /\ A = Has(Root, l, f)'
      BY <2>1, <3>1
    <3> QED
      BY <1>1, <3>2, <3>3 DEF Link
  <2>4. \A f : (Resigned(f)' <=> Resigned(f)) /\ (Here(f)' <=> Here(f))
    BY <1>1 DEF Resigned, Here
  <2>5. Edges'
    BY <2>2, <2>4 DEF IInv, Edges
  <2>6. Links'
    BY <2>3, <2>4 DEF IInv, Links
  <2> QED
    BY <2>5, <2>6
<1>5. Pending' /\ Fresh' /\ Claims'
  BY <1>1 DEF IInv, Pending, Answering, Awaits, Fresh, Awaited, Claims, Claim, Said
<1> QED
  BY <1>2, <1>3, <1>4, <1>5 DEF IInv

LEMMA ServesChild ==
  ASSUME IInv, NEW c \in Nodes, ServeFromChild(c)
  PROVE  IInv'
<1>1. \/ RootServeJoin(c) \/ RootServeRegister(c) \/ RootServeAchieved(c) \/ RootServeResign(c)
      \/ \E s \in Leaves :
           LeafServeJoin(s, c) \/ LeafServeRegister(s, c) \/ LeafServeAchieved(s, c) \/ LeafServeResign(s, c)
  BY DEF ServeFromChild
<1>2. CASE RootServeJoin(c)
  BY <1>2, ServeRootJoin
<1>3. CASE RootServeRegister(c)
  BY <1>3, ServeRootRegister
<1>4. CASE RootServeAchieved(c)
  BY <1>4, ServeRootAchieved
<1>5. CASE RootServeResign(c)
  BY <1>5, ServeRootResign
<1>6. ASSUME NEW s \in Leaves, LeafServeJoin(s, c) \/ LeafServeRegister(s, c) PROVE IInv'
  BY <1>6, ServeLeafJoin
<1>7. ASSUME NEW s \in Leaves, LeafServeAchieved(s, c) PROVE IInv'
  BY <1>7, ServeLeafAchieved
<1>8. ASSUME NEW s \in Leaves, LeafServeResign(s, c) PROVE IInv'
  BY <1>8, ServeLeafResign
<1> QED
  BY <1>1, <1>2, <1>3, <1>4, <1>5, <1>6, <1>7, <1>8

LEMMA ServesParent ==
  ASSUME IInv, NEW s \in Leaves, ServeFromParent(s)
  PROVE  IInv'
<1>1. \/ LeafServeJoinResponse(s) \/ LeafServeResponse(s) \/ LeafServeAnnounce(s)
      \/ LeafServeSynchronized(s) \/ LeafServeResignNotify(s)
  BY DEF ServeFromParent
<1>2. CASE LeafServeJoinResponse(s)
  BY <1>2, ServeJoinResponse
<1>3. CASE LeafServeResponse(s)
  BY <1>3, ServeResponse
<1>4. CASE LeafServeAnnounce(s)
  BY <1>4, ServeLeafAnnounce
<1>5. CASE LeafServeSynchronized(s)
  BY <1>5, ServeLeafSynchronized
<1>6. CASE LeafServeResignNotify(s)
  BY <1>6, ServeResignNotify
<1> QED
  BY <1>1, <1>2, <1>3, <1>4, <1>5, <1>6

LEMMA Calls ==
  ASSUME IInv, NEW f \in Federates,
         \/ joinFederationExecution(f)
         \/ registerFederationSynchronizationPoint(f)
         \/ synchronizationPointAchieved(f)
         \/ resignFederationExecution(f)
         \/ acceptCallbackMessage(f)
  PROVE  IInv'
<1>1. CASE joinFederationExecution(f)
  BY <1>1, JoinCall
<1>2. CASE registerFederationSynchronizationPoint(f)
  BY <1>2, RegisterCall
<1>3. CASE synchronizationPointAchieved(f)
  BY <1>3, AchieveCall
<1>4. CASE resignFederationExecution(f)
  BY <1>4, ResignCall
<1>5. CASE acceptCallbackMessage(f)
  BY <1>5, AcceptCall
<1> QED
  BY <1>1, <1>2, <1>3, <1>4, <1>5

LEMMA Keeps ==
  ASSUME IInv, [Next]_vars
  PROVE  IInv'
<1>1. CASE UNCHANGED vars
  BY <1>1, Stays
<1>2. CASE Next
  <2>1. \/ \E f \in Federates :
             \/ joinFederationExecution(f)
             \/ registerFederationSynchronizationPoint(f)
             \/ synchronizationPointAchieved(f)
             \/ resignFederationExecution(f)
             \/ acceptCallbackMessage(f)
        \/ \E c \in Nodes : ServeFromChild(c)
        \/ \E s \in Leaves : ServeFromParent(s)
    BY <1>2 DEF Next
  <2> QED
    BY <2>1, Calls, ServesChild, ServesParent
<1> QED
  BY <1>1, <1>2

\* The inductive invariant: what the levels know of each other.
THEOREM Invariant == Spec => []IInv
<1>1. Init => IInv
  BY Starts
<1>2. IInv /\ [Next]_vars => IInv'
  BY Keeps
<1> QED
  BY <1>1, <1>2, PTL DEF Spec

LEMMA TypesInv ==
  ASSUME IInv
  PROVE  TypeOK
<1>1. ASSUME NEW s \in Servers
      PROVE  /\ srv[s].known \subseteq Federates /\ srv[s].leaving \subseteq srv[s].known
             /\ \A l \in DOMAIN srv[s].points :
                  /\ l \in Labels /\ srv[s].points[l] \in PointsOf(srv[s].known)
                  /\ srv[s].points[l].waiting \cap DOMAIN srv[s].points[l].achieved = {}
  <2>1. PICK x : x = srv[s]
    OBVIOUS
  <2>2. IsServer(x)
    BY <2>1 DEF IInv, Types
  <2>3. /\ x.known \subseteq Federates /\ x.leaving \subseteq x.known
        /\ DOMAIN x.points \subseteq Labels
        /\ \A l \in DOMAIN x.points : /\ x.points[l] \in PointsOf(x.known)
                                      /\ x.points[l].waiting \cap DOMAIN x.points[l].achieved = {}
    BY <2>2 DEF IsServer, IsPoints
  <2> QED
    BY <2>1, <2>3
<1>2. ASSUME NEW f \in Federates
      PROVE  /\ amb[f].member \in {"out", "joining", "in", "resigned"}
             /\ amb[f].due \subseteq amb[f].announced /\ amb[f].announced \subseteq Labels
  <2>1. PICK x : x = amb[f]
    OBVIOUS
  <2>2. IsAmbassador(x)
    BY <2>1 DEF IInv, Types
  <2>3. /\ x.member \in {"out", "joining", "in", "resigned"}
        /\ x.due \subseteq x.announced /\ x.announced \subseteq Labels
    BY <2>2 DEF IsAmbassador
  <2> QED
    BY <2>1, <2>3
<1> QED
  BY <1>1, <1>2 DEF TypeOK

\* A server has points only of federates that it reaches, and a federate of a point either
\* has achieved it or is waited for.
THEOREM TypesCorrect == Spec => []TypeOK
<1>1. IInv => TypeOK
  BY TypesInv
<1> QED
  BY <1>1, Invariant, PTL

\* A federate counts as successful at a server only if it said so itself: no leaf server, no
\* resignation and no later point with the same label makes a success of it.
THEOREM SuccessIsOwn == Spec => []SuccessIsReal
<1>1. IInv => SuccessIsReal
  BY DEF IInv
<1> QED
  BY <1>1, Invariant, PTL

-----------------------------------------------------------------------------
(* A point ends when all have answered *)

\* f has been told of point l and has not achieved it.
Undone(f, l) == Joined(f) /\ l \in amb[f].announced /\ l \notin DOMAIN amb[f].done

\* The root waits for everybody whose ambassador waits for its program, and no answer that
\* says otherwise is on its way to it.
LEMMA WaitedFor ==
  ASSUME IInv, NEW f \in Federates, NEW l \in Labels, Undone(f, l), NEW c, c = Toward(Root, f)
  PROVE  Awaits(Root, l, f) /\ ~Some(up[c], By(f, l))
<1>1. ~Resigned(f) /\ l \in amb[f].announced /\ l \notin DOMAIN amb[f].done
  BY DEF Undone, Joined, Resigned
<1>2. l \in amb[f].due
  BY <1>1 DEF IInv, Labelled
<1>3. Awaits(Parent[f], l, f) /\ ~Some(up[f], By(f, l))
  <2>1. Edge(f, l)
    BY <1>1 DEF IInv, Edges
  <2>2. PICK w, a, W, A : /\ w = (l \in amb[f].due) /\ a = (l \in DOMAIN amb[f].done)
                          /\ W = Awaits(Parent[f], l, f) /\ A = Has(Parent[f], l, f)
    OBVIOUS
  <2>3. LinkOK(f, l, TRUE, w, a, W, A, up[f], down[f]) /\ w
    BY <1>2, <2>1, <2>2 DEF Edge
  <2>4. W /\ ~Some(up[f], By(f, l))
    BY <2>3 DEF LinkOK
  <2> QED
    BY <2>2, <2>4
<1>4. c = IF Parent[f] = Root THEN f ELSE Parent[f]
  BY TowardRoot
<1>5. CASE Parent[f] = Root
  BY <1>3, <1>4, <1>5
<1>6. CASE Parent[f] # Root
  <2>1. Link(f, l)
    BY <1>1, <1>6 DEF IInv, Links, Here
  <2>2. PICK w, a, W, A : /\ w = Awaits(Parent[f], l, f) /\ a = Has(Parent[f], l, f)
                          /\ W = Awaits(Root, l, f) /\ A = Has(Root, l, f)
    OBVIOUS
  <2>3. LinkOK(f, l, FALSE, w, a, W, A, up[Parent[f]], down[Parent[f]]) /\ w
    BY <1>3, <2>1, <2>2 DEF Link
  <2>4. W /\ ~Some(up[Parent[f]], By(f, l))
    BY <2>3 DEF LinkOK
  <2> QED
    BY <1>4, <1>6, <2>2, <2>4
<1> QED
  BY <1>5, <1>6

\* The root keeps all points.
LEMMA RootKeepsPoints ==
  ASSUME IInv, [Next]_vars,
         \A c \in Nodes : ~RootServeAchieved(c) /\ ~RootServeResign(c)
  PROVE  DOMAIN srv[Root].points \subseteq DOMAIN srv'[Root].points
<1>0. /\ DOMAIN srv = Servers /\ Root \in Servers /\ \A s \in Leaves : s # Root
      /\ srv[Root] = [known |-> srv[Root].known, leaving |-> srv[Root].leaving, points |-> srv[Root].points]
  BY RootServer, Tree
<1>1. CASE srv' = srv
  BY <1>1
<1>2. ASSUME NEW f \in Federates,
             \/ joinFederationExecution(f) \/ registerFederationSynchronizationPoint(f)
             \/ synchronizationPointAchieved(f) \/ resignFederationExecution(f)
             \/ acceptCallbackMessage(f)
      PROVE  srv' = srv
  BY <1>2 DEF joinFederationExecution, registerFederationSynchronizationPoint,
              synchronizationPointAchieved, resignFederationExecution, acceptCallbackMessage
<1>3. ASSUME NEW s \in Leaves, NEW y, srv' = [srv EXCEPT ![s] = y] PROVE srv'[Root] = srv[Root]
  BY <1>0, <1>3
<1>4. ASSUME NEW s \in Leaves, ServeFromParent(s) PROVE srv'[Root] = srv[Root]
  <2>1. CASE LeafServeResponse(s)
    BY <2>1 DEF LeafServeResponse
  <2>2. CASE LeafServeJoinResponse(s) \/ LeafServeAnnounce(s) \/ LeafServeSynchronized(s)
             \/ LeafServeResignNotify(s)
    <3>1. \E y : srv' = [srv EXCEPT ![s] = y]
      BY <2>2 DEF LeafServeJoinResponse, LeafServeAnnounce, LeafServeSynchronized, LeafServeResignNotify
    <3> QED
      BY <1>3, <3>1
  <2> QED
    BY <1>4, <2>1, <2>2 DEF ServeFromParent
<1>5. ASSUME NEW c \in Nodes, NEW s \in Leaves,
             LeafServeJoin(s, c) \/ LeafServeRegister(s, c) \/ LeafServeAchieved(s, c) \/ LeafServeResign(s, c)
      PROVE  srv'[Root] = srv[Root]
  <2>1. CASE LeafServeJoin(s, c) \/ LeafServeRegister(s, c)
    BY <2>1 DEF LeafServeJoin, LeafServeRegister
  <2>2. CASE LeafServeAchieved(s, c) \/ LeafServeResign(s, c)
    <3>1. \E y : srv' = [srv EXCEPT ![s] = y]
      BY <2>2 DEF LeafServeAchieved, LeafServeResign
    <3> QED
      BY <1>3, <3>1
  <2> QED
    BY <1>5, <2>1, <2>2
<1>6. ASSUME NEW c \in Nodes, RootServeJoin(c)
      PROVE  DOMAIN srv'[Root].points = DOMAIN srv[Root].points
  <2>1. PICK R, K : /\ DOMAIN R = DOMAIN srv[Root].points
                    /\ srv' = [srv EXCEPT ![Root].known = K, ![Root].points = R]
    BY <1>6 DEF RootServeJoin
  <2> QED
    BY <1>0, <2>1
<1>7. ASSUME NEW c \in Nodes, RootServeRegister(c)
      PROVE  DOMAIN srv[Root].points \subseteq DOMAIN srv'[Root].points
  <2>1. CASE srv' = srv
    BY <2>1
  <2>2. CASE srv' # srv
    <3>1. PICK o : srv' = [srv EXCEPT ![Root].points = Over(o, srv[Root].points)]
      BY <1>7, <2>2 DEF RootServeRegister
    <3>2. DOMAIN srv[Root].points \subseteq DOMAIN Over(o, srv[Root].points)
      BY DEF Over
    <3>3. PICK Q : Q = Over(o, srv[Root].points)
      OBVIOUS
    <3>4. srv'[Root].points = Q
      BY <1>0, <3>1, <3>3
    <3> QED
      BY <3>2, <3>3, <3>4
  <2> QED
    BY <2>1, <2>2
<1>8. ASSUME NEW c \in Nodes, ServeFromChild(c)
      PROVE  DOMAIN srv[Root].points \subseteq DOMAIN srv'[Root].points
  <2>1. \/ RootServeJoin(c) \/ RootServeRegister(c)
        \/ \E s \in Leaves :
             LeafServeJoin(s, c) \/ LeafServeRegister(s, c) \/ LeafServeAchieved(s, c) \/ LeafServeResign(s, c)
    BY <1>8 DEF ServeFromChild
  <2> QED
    BY <1>5, <1>6, <1>7, <2>1
<1>9. CASE Next
  <2>1. \/ \E f \in Federates :
             \/ joinFederationExecution(f) \/ registerFederationSynchronizationPoint(f)
             \/ synchronizationPointAchieved(f) \/ resignFederationExecution(f)
             \/ acceptCallbackMessage(f)
        \/ \E c \in Nodes : ServeFromChild(c)
        \/ \E s \in Leaves : ServeFromParent(s)
    BY <1>9 DEF Next
  <2> QED
    BY <1>1, <1>2, <1>4, <1>8, <2>1
<1>10. CASE UNCHANGED vars
  BY <1>1, <1>10 DEF vars
<1> QED
  BY <1>9, <1>10

\* An answer that ends a point is the last one.
LEMMA EndsAchieved ==
  ASSUME IInv, NEW c \in Nodes, RootServeAchieved(c), NEW k \in DOMAIN srv[Root].points,
         k \notin DOMAIN srv'[Root].points, NEW f \in Federates
  PROVE  ~Undone(f, k)
<1>1. PICK m, l, L, r, K, P, R, C :
        /\ m = Head(up[c]) /\ l = m.label /\ L = {l} /\ r = m.pairs
        /\ K = srv[Root].known /\ P = srv[Root].points
        /\ R = AfterAchieved(Root, L, r) /\ C = Complete(R, L)
  OBVIOUS
<1>2. /\ Arrived(Root, c, "Achieved") /\ l \in DOMAIN P
      /\ srv' = [srv EXCEPT ![Root].points = Without(R, C)]
  BY <1>1 DEF RootServeAchieved
<1>3. /\ l \in Labels /\ r \in Answers
      /\ \A g \in DOMAIN r : m \in By(g, l) /\ c = Toward(Root, g)
  BY <1>1, <1>2, AchievedAt
<1>4. IsPoints(P, K) /\ DOMAIN srv = Servers /\ Root \in Servers
      /\ srv[Root] = [known |-> K, leaving |-> {}, points |-> P]
  BY <1>1, RootServer
<1>5. Counted(P, K, L, r, R)
  <2>1. R = [j \in DOMAIN P |-> IF j \in L THEN achieved(P[j], r) ELSE P[j]]
    BY <1>1 DEF AfterAchieved
  <2> QED
    BY <1>3, <1>4, <2>1, PointsCounted
<1>6. IsPoints(R, K) /\ DOMAIN R = DOMAIN P /\ R[l].waiting = P[l].waiting \ DOMAIN r
  BY <1>1, <1>2, <1>5 DEF Counted
<1>7. k = l /\ R[l].waiting = {}
  <2>1. PICK Q : Q = Without(R, C)
    OBVIOUS
  <2>2. DOMAIN Q = DOMAIN R \ C
    BY <2>1 DEF Without
  <2>3. srv'[Root].points = Q
    BY <1>2, <1>4, <2>1
  <2>4. k \in C
    BY <1>1, <1>6, <2>2, <2>3
  <2> QED
    BY <1>1, <2>4 DEF Complete
<1>8. ASSUME Undone(f, k) PROVE FALSE
  <2>1. Awaits(Root, l, f) /\ ~Some(up[Toward(Root, f)], By(f, l))
    BY <1>3, <1>7, <1>8, WaitedFor
  <2>2. f \in P[l].waiting
    BY <1>1, <2>1 DEF Awaits
  <2>3. f \in DOMAIN r
    BY <1>6, <1>7, <2>2
  <2>4. m \in By(f, l) /\ c = Toward(Root, f)
    BY <1>3, <2>3
  <2>5. Some(up[c], By(f, l))
    <3>1. up[c] # <<>> /\ up[c] \in Seq(UpMessages)
      BY <1>2, ArrivedAt
    <3> QED
      BY <1>1, <2>4, <3>1, SomeTail
  <2> QED
    BY <2>1, <2>4, <2>5
<1> QED
  BY <1>8

\* Who resigns is not waited for by its program.
LEMMA EndsResign ==
  ASSUME IInv, NEW c \in Nodes, RootServeResign(c), NEW k \in DOMAIN srv[Root].points,
         k \notin DOMAIN srv'[Root].points, NEW f \in Federates
  PROVE  ~Undone(f, k)
<1>1. PICK m, h, r, K, P, L, R, C :
        /\ m = Head(up[c]) /\ h = m.fed /\ r = One(h, FALSE)
        /\ K = srv[Root].known /\ P = srv[Root].points /\ L = WaitsFor(Root, h)
        /\ R = AfterAchieved(Root, L, r) /\ C = Complete(R, L)
  OBVIOUS
<1>2. /\ Arrived(Root, c, "Resign")
      /\ srv' = [srv EXCEPT ![Root].known = @ \ {h}, ![Root].points = erase(Without(R, C), h)]
  BY <1>1 DEF RootServeResign
<1>3. h \in Federates /\ Resigned(h)
  BY <1>1, <1>2, ResignAt
<1>4. IsPoints(P, K) /\ DOMAIN srv = Servers /\ Root \in Servers
      /\ srv[Root] = [known |-> K, leaving |-> {}, points |-> P]
  BY <1>1, RootServer
<1>5. DOMAIN r = {h} /\ r \in Answers
  BY <1>1, <1>3, OneIn
<1>6. Counted(P, K, L, r, R)
  <2>1. R = [j \in DOMAIN P |-> IF j \in L THEN achieved(P[j], r) ELSE P[j]]
    BY <1>1 DEF AfterAchieved
  <2> QED
    BY <1>4, <1>5, <2>1, PointsCounted
<1>7. DOMAIN R = DOMAIN P /\ \A j \in DOMAIN P : j \in L => R[j].waiting = P[j].waiting \ DOMAIN r
  BY <1>6 DEF Counted
<1>8. k \in DOMAIN P /\ k \in L /\ R[k].waiting = {}
  <2>1. PICK Q, E : Q = Without(R, C) /\ E = erase(Q, h)
    OBVIOUS
  <2>2. DOMAIN Q = DOMAIN R \ C /\ DOMAIN E = DOMAIN Q
    BY <2>1 DEF Without, erase
  <2>3. srv'[Root].points = E
    BY <1>2, <1>4, <2>1
  <2>4. k \in C
    BY <1>1, <1>7, <2>2, <2>3
  <2> QED
    BY <1>1, <2>4 DEF Complete
<1>9. ASSUME Undone(f, k) PROVE FALSE
  <2>1. k \in Labels
    BY <1>4, <1>8 DEF IsPoints
  <2>2. Awaits(Root, k, f)
    BY <1>9, <2>1, WaitedFor
  <2>3. f \in P[k].waiting
    BY <1>1, <2>2 DEF Awaits
  <2>4. f = h
    BY <1>5, <1>7, <1>8, <2>3
  <2> QED
    BY <1>3, <1>9, <2>4 DEF Undone, Joined, Resigned
<1> QED
  BY <1>9

LEMMA EndsLate ==
  ASSUME IInv, [Next]_vars, NEW k \in DOMAIN srv[Root].points, k \notin DOMAIN srv'[Root].points,
         NEW f \in Federates, Joined(f), k \in amb[f].announced
  PROVE  k \in DOMAIN amb[f].done
<1>1. PICK c \in Nodes : RootServeAchieved(c) \/ RootServeResign(c)
  BY RootKeepsPoints
<1>2. ~Undone(f, k)
  BY <1>1, EndsAchieved, EndsResign
<1> QED
  BY <1>2 DEF Undone

\* A federation is synchronized when all have achieved the label, not earlier: no answer for
\* another federate, for an earlier point of the same label or for one that is gone ends it.
THEOREM SynchronizedAfterAll == Spec => NotBeforeAll
<1>1. IInv /\ [Next]_vars =>
        [\A l \in DOMAIN srv[Root].points \ DOMAIN srv'[Root].points :
           \A f \in Federates : Joined(f) /\ l \in amb[f].announced => l \in DOMAIN amb[f].done]_vars
  BY EndsLate
<1> QED
  BY <1>1, Invariant, PTL DEF Spec, NotBeforeAll

-----------------------------------------------------------------------------
(* Who has been told when nothing is on its way *)

LEMMA LinkAtRest ==
  ASSUME NEW f, NEW l, NEW own, NEW w, NEW a, NEW W, NEW A, NEW p, NEW q, q = <<>>,
         LinkOK(f, l, own, w, a, W, A, p, q)
  PROVE  Switch(w \/ a) = Switch(W \/ A)
<1>1. Run(q, Steps(f, l, own), Switch(w \/ a), Switch(W \/ A))
  BY DEF LinkOK
<1>2. Switch(w \/ a) = Switch(W \/ A)
  <2>1. PICK x, y, D : x = Switch(w \/ a) /\ y = Switch(W \/ A) /\ D = Steps(f, l, own)
    OBVIOUS
  <2>2. x \in States /\ Run(<<>>, D, x, y)
    BY <1>1, <2>1, SwitchType
  <2>3. x = y
    BY <2>2, EmptyQueue
  <2> QED
    BY <2>1, <2>3
<1> QED
  BY <1>2

LEMMA ToldAtRest ==
  ASSUME IInv, Quiescent, NEW f \in Federates, Joined(f), NEW l \in Labels
  PROVE  l \in amb[f].announced <=> Awaits(Root, l, f) \/ Has(Root, l, f)
<1>1. ~Resigned(f) /\ f \notin Leaves /\ f \in Nodes
  BY Tree DEF Joined, Resigned
<1>2. down[f] = <<>> /\ (Parent[f] # Root => down[Parent[f]] = <<>>)
  BY <1>1, Tree DEF Quiescent, Resigned
<1>3. l \in amb[f].announced <=> l \in amb[f].due \/ l \in DOMAIN amb[f].done
  BY <1>1 DEF IInv, Labelled
<1>4. l \in amb[f].announced <=> Awaits(Parent[f], l, f) \/ Has(Parent[f], l, f)
  <2>1. Edge(f, l)
    BY <1>1 DEF IInv, Edges
  <2>2. PICK w, a, W, A : /\ w = (l \in amb[f].due) /\ a = (l \in DOMAIN amb[f].done)
                          /\ W = Awaits(Parent[f], l, f) /\ A = Has(Parent[f], l, f)
    OBVIOUS
  <2>3. LinkOK(f, l, TRUE, w, a, W, A, up[f], down[f])
    BY <2>1, <2>2 DEF Edge
  <2>4. w \/ a <=> W \/ A
    <3>1. PICK own, p, q : own = TRUE /\ p = up[f] /\ q = down[f]
      OBVIOUS
    <3>2. q = <<>> /\ LinkOK(f, l, own, w, a, W, A, p, q)
      BY <1>2, <2>3, <3>1
    <3>3. Switch(w \/ a) = Switch(W \/ A)
      BY <3>2, LinkAtRest
    <3> QED
      BY <3>3, SwitchOf
  <2> QED
    BY <1>3, <2>2, <2>4
<1>5. CASE Parent[f] = Root
  BY <1>4, <1>5
<1>6. CASE Parent[f] # Root
  <2>1. Link(f, l)
    BY <1>1, <1>6 DEF IInv, Links, Here
  <2>2. PICK w, a, W, A : /\ w = Awaits(Parent[f], l, f) /\ a = Has(Parent[f], l, f)
                          /\ W = Awaits(Root, l, f) /\ A = Has(Root, l, f)
    OBVIOUS
  <2>3. LinkOK(f, l, FALSE, w, a, W, A, up[Parent[f]], down[Parent[f]])
    BY <2>1, <2>2 DEF Link
  <2>4. w \/ a <=> W \/ A
    <3>1. PICK own, p, q : own = FALSE /\ p = up[Parent[f]] /\ q = down[Parent[f]]
      OBVIOUS
    <3>2. q = <<>> /\ LinkOK(f, l, own, w, a, W, A, p, q)
      BY <1>2, <1>6, <2>3, <3>1
    <3>3. Switch(w \/ a) = Switch(W \/ A)
      BY <3>2, LinkAtRest
    <3> QED
      BY <3>3, SwitchOf
  <2> QED
    BY <1>4, <2>2, <2>4
<1> QED
  BY <1>5, <1>6

LEMMA AnnouncedAtRest ==
  ASSUME IInv
  PROVE  AllAnnounced
<1> SUFFICES ASSUME Quiescent, NEW f \in Federates, Joined(f)
             PROVE  amb[f].announced = {l \in DOMAIN srv[Root].points : f \in Of(srv[Root].points[l])}
  BY DEF AllAnnounced
<1>1. DOMAIN srv[Root].points \subseteq Labels
  BY RootServer DEF IsPoints
<1>2. amb[f].announced \subseteq Labels
  BY TypesInv DEF TypeOK
<1>3. \A l \in Labels : l \in amb[f].announced <=>
         l \in DOMAIN srv[Root].points /\ f \in Of(srv[Root].points[l])
  <2> SUFFICES ASSUME NEW l \in Labels
               PROVE  l \in amb[f].announced <=>
                        l \in DOMAIN srv[Root].points /\ f \in Of(srv[Root].points[l])
    OBVIOUS
  <2>1. l \in amb[f].announced <=> Awaits(Root, l, f) \/ Has(Root, l, f)
    BY ToldAtRest
  <2> QED
    BY <2>1 DEF Awaits, Has, Of
<1> QED
  BY <1>1, <1>2, <1>3

\* When nothing is on its way, a joined federate has been told exactly of the points that the
\* root has it in, be it there at the registration or joined later.
THEOREM EverybodyTold == Spec => []AllAnnounced
<1>1. IInv => AllAnnounced
  BY AnnouncedAtRest
<1> QED
  BY <1>1, Invariant, PTL

=============================================================================
