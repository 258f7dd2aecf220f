------------------------ MODULE TimeRefinement_proofs ------------------------
(***************************************************************************)
(* What the bounds are worth by which a federate advances its time.        *)
(*                                                                         *)
(* First, BoundsAreSound: what a federate knows of a regulating one is at  *)
(* most what the latter has promised.  Its inductive invariant Guaranteed  *)
(* adds to that of TimeFederation_proofs what the promises on their way    *)
(* say: those behind the last message that ends a regulation are at most   *)
(* the promise of their sender (Settled), and a bound that was taken up    *)
(* from a request is corrected by the answer before the request is         *)
(* granted (Covered, StampsOK).                                            *)
(*                                                                         *)
(* Then what time management is for, for ordinary programs (those of time  *)
(* advance and flush queue requests): no late message, no message out of   *)
(* order, nothing in the past of a constrained federate, and no promise    *)
(* taken back.  The inductive invariant OnTime adds to Guaranteed          *)
(*   - Timely, of each federate by itself: it has been granted no more     *)
(*     than its bounds, its queue holds no message before its time, and    *)
(*     it has committed no more than its output time;                      *)
(*   - Punctual, of the time stamps on their way: whoever accepts all that *)
(*     is ahead of a time stamp in its connects knows the sender by then,  *)
(*     with a bound of at most that time stamp (Clean), and no federate    *)
(*     sends one below what it has committed (Sends).                      *)
(*                                                                         *)
(* Last, RefinementIsSafe: the safety of conservative synchronisation,     *)
(* proved in ConservativeTime_proofs, holds of the federation wherever it  *)
(* implements ConservativeTime, whatever the programs are.                 *)
(***************************************************************************)
EXTENDS TimeRefinement, TimeFederation_proofs

-----------------------------------------------------------------------------
(* What is known of the last part of a queue *)

\* Every element that no element of Y follows is in X.
Settled(q, X, Y) ==
  \A i \in DOMAIN q : (\A k \in DOMAIN q : i < k => q[k] \notin Y) => q[i] \in X

LEMMA SettledAppend ==
  ASSUME NEW T, NEW q \in Seq(T), NEW m \in T, NEW X, NEW Y,
         m \in X, m \in Y \/ Settled(q, X, Y)
  PROVE  Settled(Append(q, m), X, Y)
<1>1. PICK t : t = Append(q, m)
  OBVIOUS
<1>2. /\ DOMAIN t = 1 .. Len(q) + 1 /\ DOMAIN q = 1 .. Len(q) /\ Len(q) \in Nat
      /\ \A i \in 1 .. Len(q) : t[i] = q[i]
      /\ t[Len(q) + 1] = m
  BY <1>1, AppendAt
<1>3. ASSUME NEW i \in DOMAIN t, \A k \in DOMAIN t : i < k => t[k] \notin Y PROVE t[i] \in X
  <2>1. CASE i = Len(q) + 1
    BY <1>2, <2>1
  <2>2. CASE i # Len(q) + 1
    <3>1. i \in DOMAIN q /\ Len(q) + 1 \in DOMAIN t /\ i < Len(q) + 1
      BY <1>2, <2>2
    <3>2. m \notin Y
      BY <1>2, <1>3, <3>1
    <3>3. \A k \in DOMAIN q : i < k => q[k] \notin Y
      BY <1>2, <1>3
    <3> QED
      BY <1>2, <3>1, <3>2, <3>3 DEF Settled
  <2> QED
    BY <2>1, <2>2
<1>4. Settled(t, X, Y)
  BY <1>3 DEF Settled
<1> QED
  BY <1>1, <1>4

LEMMA SettledTail ==
  ASSUME NEW T, NEW q \in Seq(T), q # <<>>, NEW X, NEW Y, Settled(q, X, Y)
  PROVE  /\ Settled(Tail(q), X, Y)
         /\ ~Some(Tail(q), Y) => Head(q) \in X
<1>1. PICK t : t = Tail(q)
  OBVIOUS
<1>2. /\ Head(q) = q[1] /\ Len(q) \in Nat \ {0}
      /\ DOMAIN t = 1 .. Len(q) - 1 /\ DOMAIN q = 1 .. Len(q)
      /\ \A i \in 1 .. Len(q) - 1 : t[i] = q[i + 1]
  BY <1>1, TailAt
<1>3. ASSUME NEW i \in DOMAIN t, \A k \in DOMAIN t : i < k => t[k] \notin Y PROVE t[i] \in X
  <2>1. i + 1 \in DOMAIN q /\ t[i] = q[i + 1]
    BY <1>2
  <2>2. ASSUME NEW k \in DOMAIN q, i + 1 < k PROVE q[k] \notin Y
    <3>1. k - 1 \in DOMAIN t /\ i < k - 1 /\ t[k - 1] = q[k]
      BY <1>2, <2>2
    <3> QED
      BY <1>3, <3>1
  <2> QED
    BY <2>1, <2>2 DEF Settled
<1>4. ASSUME ~Some(t, Y) PROVE Head(q) \in X
  <2>1. 1 \in DOMAIN q
    BY <1>2
  <2>2. ASSUME NEW k \in DOMAIN q, 1 < k PROVE q[k] \notin Y
    <3>1. k - 1 \in DOMAIN t /\ t[k - 1] = q[k]
      BY <1>2, <2>2
    <3> QED
      BY <1>4, <3>1 DEF Some
  <2> QED
    BY <1>2, <2>1, <2>2 DEF Settled
<1>5. Settled(t, X, Y)
  BY <1>3 DEF Settled
<1> QED
  BY <1>1, <1>4, <1>5

LEMMA SettledExtends ==
  ASSUME NEW T, NEW q \in Seq(T), NEW t \in Seq(T), NEW M, NEW X, NEW Y,
         Extends(q, t, M), M \subseteq X, Settled(q, X, Y)
  PROVE  Settled(t, X, Y)
<1>1. /\ DOMAIN q = 1 .. Len(q) /\ Len(q) \in Nat /\ DOMAIN t = 1 .. Len(t) /\ Len(t) \in Nat
  OBVIOUS
<1>2. ASSUME NEW i \in DOMAIN t, \A k \in DOMAIN t : i < k => t[k] \notin Y PROVE t[i] \in X
  <2>1. CASE Len(q) < i
    BY <2>1 DEF Extends
  <2>2. CASE ~(Len(q) < i)
    <3>1. i \in DOMAIN q /\ t[i] = q[i]
      BY <1>1, <2>2 DEF Extends
    <3>2. \A k \in DOMAIN q : k \in DOMAIN t /\ t[k] = q[k]
      BY <1>1 DEF Extends
    <3> QED
      BY <1>2, <3>1, <3>2 DEF Settled
  <2> QED
    BY <2>1, <2>2
<1> QED
  BY <1>2 DEF Settled

LEMMA SettledWeaker ==
  ASSUME NEW q, NEW X, NEW Z, NEW Y, Settled(q, X, Y), X \subseteq Z
  PROVE  Settled(q, Z, Y)
BY DEF Settled

LEMMA SettledNone == \A X, Y : Settled(<<>>, X, Y)
BY DEF Settled

LEMMA SomeGrows ==
  ASSUME NEW T, NEW q \in Seq(T), NEW t \in Seq(T), NEW M, NEW X, Extends(q, t, M), Some(q, X)
  PROVE  Some(t, X)
<1>1. /\ DOMAIN q = 1 .. Len(q) /\ Len(q) \in Nat /\ DOMAIN t = 1 .. Len(t) /\ Len(t) \in Nat
  OBVIOUS
<1> QED
  BY <1>1 DEF Some, Extends

\* An automaton that an element of Y stops runs again only after an element of X.
LEMMA RunRestarts ==
  ASSUME NEW T, NEW q \in Seq(T), NEW D, NEW a, NEW X, NEW Y, Run(q, D, a, "on"),
         \A m, b, c : <<m, b, c>> \in D => /\ m \in Y => c = "off"
                                           /\ b = "off" /\ c = "on" => m \in X,
         Some(q, Y)
  PROVE  SomeAfter(q, Y, X)
<1>1. /\ DOMAIN q = 1 .. Len(q) /\ Len(q) \in Nat
  OBVIOUS
<1>2. PICK r \in [0 .. Len(q) -> States] :
         /\ r[Len(q)] = "on"
         /\ \A i \in DOMAIN q : <<q[i], r[i - 1], r[i]>> \in D
  BY DEF Run
<1>3. PICK i \in DOMAIN q : q[i] \in Y
  BY DEF Some
<1>4. r[i] = "off"
  BY <1>2, <1>3
<1>5. PICK N : N = {n \in Nat : i < n /\ n <= Len(q) /\ r[n] = "on"}
  OBVIOUS
<1>6. Len(q) \in N
  <2>1. i # Len(q)
    BY <1>2, <1>4
  <2> QED
    BY <1>1, <1>2, <1>3, <1>5, <2>1
<1>7. PICK k : k \in N /\ \A n \in N : k <= n
  <2>1. N \in SUBSET Nat /\ N # {}
    BY <1>5, <1>6
  <2> QED
    BY <2>1, MinNat
<1>8. k \in DOMAIN q /\ i < k /\ r[k] = "on" /\ k - 1 \in 0 .. Len(q)
  BY <1>1, <1>3, <1>5, <1>7
<1>9. r[k - 1] = "off"
  <2>1. CASE k - 1 = i
    BY <1>4, <2>1
  <2>2. CASE k - 1 # i
    <3>1. k - 1 \notin N
      BY <1>5, <1>7
    <3>2. r[k - 1] # "on"
      BY <1>1, <1>3, <1>5, <1>8, <2>2, <3>1
    <3> QED
      BY <1>2, <1>8, <3>2 DEF States
  <2> QED
    BY <2>1, <2>2
<1>10. q[k] \in X
  BY <1>2, <1>8, <1>9
<1> QED
  BY <1>3, <1>8, <1>10 DEF SomeAfter

-----------------------------------------------------------------------------
(* The bounds on their way.  F, Q and S stand for fed, toFed and server.     *)

\* Not a message by which g promises more than c
UpTo(g, c) ==
  {m \in Messages : m \in On(g) \/ (m \in Of("Commit", g) /\ "TA" \in m.ct) => m.ts <= c}

\* The answers by which f tells g that it relies on t
Correcting(f, g, t) ==
  {m \in Messages : /\ m.type = "EnableRegResponse" /\ m.from = f /\ m.to = g
                    /\ m.valid /\ t <= m.ts}

\* g has promised t, or f has told g that it relies on t, and g will promise that much before
\* it regulates time.
Covered(F, Q, f, g, t) ==
  \/ t <= F[g].cTA
  \/ /\ F[g].reg = "EnablePending"
     /\ \/ Some(F[f].sent, Correcting(f, g, t))
        \/ Some(Q[g], Correcting(f, g, t))
        \/ /\ f \in DOMAIN F[g].stamps /\ t <= F[g].stamps[f]
           /\ ~Answering(F, f, g) /\ ~Answered(Q, f, g)

\* Unless g is about to stop regulating: what is on its way to f is promised, and what f
\* knows is covered.
ValueOK(F, Q, f, g) ==
  f # g /\ F[g].member # "resigned" /\ ~Some(F[g].sent, Off(g)) =>
    /\ Settled(Q[f], UpTo(g, F[g].cTA), Off(g))
    /\ g \in DOMAIN F[f].bounds /\ ~Some(Q[f], Off(g)) => Covered(F, Q, f, g, F[f].bounds[g].ta)

\* What g has on the way to the server is promised, and so is what the server tells to those
\* who join.
SentOK(F, S, g) ==
  F[g].member # "resigned" =>
    /\ Settled(F[g].sent, UpTo(g, F[g].cTA), Off(g))
    /\ g \in S.regulating /\ ~Some(F[g].sent, Off(g)) => S.ta[g] <= F[g].cTA

\* One who has resigned has dropped its map.
GoneOK(s) == s.member = "resigned" => DOMAIN s.bounds = {} /\ s.reg = "Disabled"

\* Nobody stops to regulate in the eyes of one who joins before the join is complete.
Offs == {m \in Messages : m.type \in {"DisableReg", "ResignNotify"}}
JoiningOK(s, q) == s.member = "joining" => Ahead(q, Typed("JoinResponse"), Offs)

Sound(F, Q, S) ==
  /\ \A g \in Federates : SentOK(F, S, g) /\ GoneOK(F[g]) /\ JoiningOK(F[g], Q[g])
  /\ \A f, g \in Federates : ValueOK(F, Q, f, g)

\* Once all answers are in, the corrected times have been committed.
StampsOK(s) ==
  s.reg = "EnablePending" /\ s.enableSet = {} =>
    \A g \in DOMAIN s.stamps : s.stamps[g] <= s.cTA

LEMMA MessageTimes ==
  ASSUME NEW m \in Messages, m.type \in {"Commit", "EnableReg", "EnableRegResponse"}
  PROVE  m.ts \in Nat
BY DEF Messages, ToServer, ToFederate, Relayed, Notices, EnableRequests, EnableResponses,
       CommitMessages, CommitResponseMessages, LockedMessages, DataMessages

LEMMA UpToGrows ==
  ASSUME NEW g, NEW c \in Nat, NEW d \in Nat, c <= d
  PROVE  UpTo(g, c) \subseteq UpTo(g, d)
<1>1. ASSUME NEW m \in UpTo(g, c), m \in On(g) \/ (m \in Of("Commit", g) /\ "TA" \in m.ct)
      PROVE  m.ts <= d
  <2>1. m \in Messages /\ m.type \in {"Commit", "EnableReg"} /\ m.ts <= c
    BY <1>1 DEF UpTo, On, Of
  <2>2. m.ts \in Nat
    BY <2>1, MessageTimes
  <2> QED
    BY <2>1, <2>2
<1> QED
  BY <1>1 DEF UpTo

LEMMA CoveredTime ==
  ASSUME NEW f, NEW g, NEW t, NEW m \in Correcting(f, g, t)
  PROVE  /\ m \in Messages /\ m.type = "EnableRegResponse" /\ m.from = f /\ m.to = g /\ m.valid
         /\ t <= m.ts /\ m.ts \in Nat /\ m \in AnswerTo(g) /\ m \in AnswerOf(f)
<1>1. m \in Messages /\ m.type = "EnableRegResponse" /\ m.from = f /\ m.to = g /\ m.valid /\ t <= m.ts
  BY DEF Correcting
<1> QED
  BY <1>1, MessageTimes DEF AnswerTo, AnswerOf

LEMMA MinorUpTo ==
  ASSUME NEW f, NEW reg, NEW c
  PROVE  Minor(f, reg, c) \subseteq UpTo(f, c) /\ Minor(f, reg, c) \cap Off(f) = {}
<1>1. ASSUME NEW m \in Minor(f, reg, c)
      PROVE  m \in UpTo(f, c) /\ m \notin Off(f)
  <2>1. m \in Messages /\ m.type \in {"CommitResponse", "Locked", "Data", "Commit"}
        /\ (m.type = "Commit" /\ "TA" \in m.ct => m.ts <= c)
    BY <1>1, MessageIn DEF Minor
  <2> QED
    BY <2>1 DEF UpTo, On, Of, Off
<1> QED
  BY <1>1

-----------------------------------------------------------------------------
(* The state of f changes, and f may take a message from its queue *)

Changed(F, Q, f, F2, Q2) ==
  /\ f \in Federates /\ IsState(F[f]) /\ IsState(F2[f]) /\ Q[f] \in Seq(ToFederate)
  /\ \A x \in Federates \ {f} : F2[x] = F[x] /\ Q2[x] = Q[x]
  /\ \/ Q2[f] = Q[f]
     \/ Q[f] # <<>> /\ Q2[f] = Tail(Q[f])
  /\ F[f].member # "resigned"
  /\ \A X : Some(F[f].sent, X) => Some(F2[f].sent, X)

LEMMA SettledChanged ==
  ASSUME NEW F, NEW Q, NEW f, NEW F2, NEW Q2, Changed(F, Q, f, F2, Q2), NEW X, NEW Y,
         Settled(Q[f], X, Y)
  PROVE  Settled(Q2[f], X, Y)
BY SettledTail DEF Changed

LEMMA ChangeSound ==
  ASSUME NEW F, NEW Q, NEW S, Sound(F, Q, S), NEW f, NEW F2, NEW Q2, Changed(F, Q, f, F2, Q2),
         F2[f].member # "resigned",
         JoiningOK(F2[f], Q2[f]),
         Some(F2[f].sent, Off(f)) \/ F[f].cTA <= F2[f].cTA,
         Settled(F2[f].sent, UpTo(f, F2[f].cTA), Off(f)),
         \A x \in Federates \ {f} :
           /\ f \in DOMAIN F[x].bounds /\ ~Some(F2[f].sent, Off(f))
           /\ Covered(F, Q, x, f, F[x].bounds[f].ta)
           => Covered(F2, Q2, x, f, F[x].bounds[f].ta),
         \A g \in Federates \ {f} :
           /\ g \in DOMAIN F2[f].bounds /\ ~Some(Q2[f], Off(g))
           /\ F[g].member # "resigned" /\ ~Some(F[g].sent, Off(g))
           => Covered(F2, Q2, f, g, F2[f].bounds[g].ta),
         IsServer(S)
  PROVE  Sound(F2, Q2, S)
<1>1. /\ f \in Federates /\ IsState(F[f]) /\ IsState(F2[f]) /\ F[f].member # "resigned"
      /\ \A x \in Federates \ {f} : F2[x] = F[x] /\ Q2[x] = Q[x]
      /\ \A X : Some(F[f].sent, X) => Some(F2[f].sent, X)
  BY DEF Changed
<1>2. F[f].cTA \in Nat /\ F2[f].cTA \in Nat
  BY <1>1, Fields
<1>3. \A g \in Federates : g \in S.regulating => S.ta[g] \in Nat
  BY DEF IsServer, IsMap
<1>4. SentOK(F2, S, f)
  <2>1. SentOK(F, S, f)
    BY <1>1 DEF Sound
  <2> QED
    BY <1>1, <1>2, <1>3, <2>1 DEF SentOK
<1>5. GoneOK(F2[f])
  BY DEF GoneOK
<1>6. ASSUME NEW g \in Federates PROVE SentOK(F2, S, g) /\ GoneOK(F2[g]) /\ JoiningOK(F2[g], Q2[g])
  <2>1. CASE g # f
    <3>1. F2[g] = F[g] /\ Q2[g] = Q[g] /\ SentOK(F, S, g) /\ GoneOK(F[g]) /\ JoiningOK(F[g], Q[g])
      BY <1>1, <2>1 DEF Sound
    <3> QED
      BY <3>1 DEF SentOK
  <2> QED
    BY <1>4, <1>5, <2>1
<1>7. ASSUME NEW x \in Federates, NEW g \in Federates PROVE ValueOK(F2, Q2, x, g)
  <2>0. ValueOK(F, Q, x, g)
    BY DEF Sound
  <2>1. CASE x # f /\ g # f
    <3>1. F2[x] = F[x] /\ Q2[x] = Q[x] /\ F2[g] = F[g] /\ Q2[g] = Q[g]
      BY <1>1, <2>1
    <3>2. \A t : Covered(F, Q, x, g, t) => Covered(F2, Q2, x, g, t)
      BY <3>1 DEF Covered, Answering, Answered
    <3> QED
      BY <2>0, <3>1, <3>2 DEF ValueOK
  <2>2. CASE x # f /\ g = f
    <3>1. F2[x] = F[x] /\ Q2[x] = Q[x]
      BY <1>1, <2>2
    <3>2. SUFFICES ASSUME ~Some(F2[f].sent, Off(f))
                   PROVE  /\ Settled(Q2[x], UpTo(f, F2[f].cTA), Off(f))
                          /\ f \in DOMAIN F2[x].bounds /\ ~Some(Q2[x], Off(f)) =>
                               Covered(F2, Q2, x, f, F2[x].bounds[f].ta)
      BY <2>2 DEF ValueOK
    <3>3. ~Some(F[f].sent, Off(f)) /\ F[f].cTA <= F2[f].cTA
      BY <1>1, <3>2
    <3>4. /\ Settled(Q[x], UpTo(f, F[f].cTA), Off(f))
          /\ f \in DOMAIN F[x].bounds /\ ~Some(Q[x], Off(f)) => Covered(F, Q, x, f, F[x].bounds[f].ta)
      BY <1>1, <2>0, <2>2, <3>3 DEF ValueOK
    <3>5. Settled(Q2[x], UpTo(f, F2[f].cTA), Off(f))
      BY <1>2, <3>1, <3>3, <3>4, UpToGrows, SettledWeaker
    <3> QED
      BY <2>2, <3>1, <3>2, <3>4, <3>5
  <2>3. CASE x = f /\ g # f
    <3>1. F2[g] = F[g]
      BY <1>1, <2>3
    <3>2. F[g].member # "resigned" /\ ~Some(F[g].sent, Off(g)) =>
            Settled(Q2[f], UpTo(g, F[g].cTA), Off(g))
      <4>1. F[g].member # "resigned" /\ ~Some(F[g].sent, Off(g)) =>
              Settled(Q[f], UpTo(g, F[g].cTA), Off(g))
        BY <2>0, <2>3 DEF ValueOK
      <4> QED
        BY <4>1, SettledChanged
    <3> QED
      BY <2>3, <3>1, <3>2 DEF ValueOK
  <2>4. CASE x = g
    BY <2>4 DEF ValueOK
  <2> QED
    BY <2>1, <2>2, <2>3, <2>4
<1> QED
  BY <1>6, <1>7 DEF Sound

\* What f relies on stays covered if neither what covers it nor an answer changes.
LEMMA CoverSame ==
  ASSUME NEW F, NEW Q, NEW F2, NEW Q2, NEW f, NEW g, NEW t, Covered(F, Q, f, g, t),
         F2[g].cTA = F[g].cTA, F2[g].reg = F[g].reg, F2[g].stamps = F[g].stamps,
         Some(F[f].sent, Correcting(f, g, t)) => Some(F2[f].sent, Correcting(f, g, t)),
         Some(Q[g], Correcting(f, g, t)) => Some(Q2[g], Correcting(f, g, t)),
         Some(F2[f].sent, AnswerTo(g)) => Some(F[f].sent, AnswerTo(g)),
         Some(Q2[g], AnswerOf(f)) => Some(Q[g], AnswerOf(f))
  PROVE  Covered(F2, Q2, f, g, t)
BY DEF Covered, Answering, Answered

LEMMA BoundTime ==
  ASSUME NEW s, IsState(s), NEW g, g \in DOMAIN s.bounds
  PROVE  s.bounds[g].ta \in Nat
<1>1. IsMap(s.bounds, Federates, Commits)
  BY Fields
<1> QED
  BY <1>1 DEF IsMap, Commits

LEMMA SteadySound ==
  ASSUME NEW F, NEW Q, NEW S, Types(F, Q, S), Sound(F, Q, S), NEW f \in Federates,
         F[f].member # "resigned", NEW F2, \A x \in Federates \ {f} : F2[x] = F[x],
         Steady(f, F[f], F2[f])
  PROVE  Sound(F2, Q, S)
<1>1. /\ IsState(F[f]) /\ IsState(F2[f]) /\ F2[f].member = F[f].member /\ F2[f].reg = F[f].reg
      /\ DOMAIN F2[f].bounds = DOMAIN F[f].bounds
      /\ \A g \in DOMAIN F[f].bounds : F2[f].bounds[g].ta = F[f].bounds[g].ta
      /\ F[f].cTA <= F2[f].cTA
      /\ \A g \in DOMAIN F[f].stamps : \/ g \in DOMAIN F2[f].stamps /\ F2[f].stamps[g] = F[f].stamps[g]
                                       \/ F[f].stamps[g] <= F2[f].cTA
      /\ Extends(F[f].sent, F2[f].sent, Minor(f, F[f].reg, F2[f].cTA))
  BY DEF Steady
<1>2. /\ F[f].cTA \in Nat /\ F2[f].cTA \in Nat /\ F[f].sent \in Seq(ToServer) /\ F2[f].sent \in Seq(ToServer)
      /\ IsMap(F[f].stamps, Federates, Nat)
  BY <1>1, Fields
<1>3. Q[f] \in Seq(ToFederate) /\ IsServer(S) /\ \A x \in Federates : IsState(F[x])
  BY DEF Types
<1>4. \A X : Some(F[f].sent, X) => Some(F2[f].sent, X)
  BY <1>1, <1>2, SomeGrows
<1>5. Changed(F, Q, f, F2, Q)
  BY <1>1, <1>3, <1>4 DEF Changed
<1>6. JoiningOK(F2[f], Q[f])
  <2>1. JoiningOK(F[f], Q[f])
    BY DEF Sound
  <2> QED
    BY <1>1, <2>1 DEF JoiningOK
<1>7. Settled(F2[f].sent, UpTo(f, F2[f].cTA), Off(f))
  <2>1. Settled(F[f].sent, UpTo(f, F[f].cTA), Off(f))
    BY DEF Sound, SentOK
  <2>2. Settled(F[f].sent, UpTo(f, F2[f].cTA), Off(f))
    BY <1>1, <1>2, <2>1, UpToGrows, SettledWeaker
  <2>3. Minor(f, F[f].reg, F2[f].cTA) \subseteq UpTo(f, F2[f].cTA)
    BY MinorUpTo
  <2> QED
    BY <1>1, <1>2, <2>2, <2>3, SettledExtends
<1>8. ASSUME NEW x \in Federates \ {f}, f \in DOMAIN F[x].bounds, Covered(F, Q, x, f, F[x].bounds[f].ta)
      PROVE  Covered(F2, Q, x, f, F[x].bounds[f].ta)
  <2>1. PICK t : t = F[x].bounds[f].ta
    OBVIOUS
  <2>2. t \in Nat /\ Covered(F, Q, x, f, t) /\ F2[x] = F[x]
    BY <1>3, <1>8, <2>1, BoundTime
  <2>3. CASE t <= F[f].cTA
    <3>1. t <= F2[f].cTA
      BY <1>1, <1>2, <2>2, <2>3
    <3> QED
      BY <2>1, <3>1 DEF Covered
  <2>4. CASE x \in DOMAIN F[f].stamps /\ t <= F[f].stamps[x] /\ F[f].stamps[x] <= F2[f].cTA
    <3>1. F[f].stamps[x] \in Nat
      BY <1>2, <2>4 DEF IsMap
    <3>2. t <= F2[f].cTA
      BY <1>2, <2>2, <2>4, <3>1
    <3> QED
      BY <2>1, <3>2 DEF Covered
  <2>5. CASE /\ ~(t <= F[f].cTA)
             /\ ~(x \in DOMAIN F[f].stamps /\ t <= F[f].stamps[x] /\ F[f].stamps[x] <= F2[f].cTA)
    <3>1. /\ F[f].reg = "EnablePending"
          /\ \/ Some(F[x].sent, Correcting(x, f, t))
             \/ Some(Q[f], Correcting(x, f, t))
             \/ /\ x \in DOMAIN F[f].stamps /\ t <= F[f].stamps[x]
                /\ ~Answering(F, x, f) /\ ~Answered(Q, x, f)
      BY <2>2, <2>5 DEF Covered
    <3>2. Answering(F2, x, f) <=> Answering(F, x, f)
      BY <2>2 DEF Answering
    <3>3. x \in DOMAIN F[f].stamps /\ t <= F[f].stamps[x] =>
            x \in DOMAIN F2[f].stamps /\ t <= F2[f].stamps[x]
      BY <1>1, <2>5
    <3>4. /\ F2[f].reg = "EnablePending"
          /\ \/ Some(F2[x].sent, Correcting(x, f, t))
             \/ Some(Q[f], Correcting(x, f, t))
             \/ /\ x \in DOMAIN F2[f].stamps /\ t <= F2[f].stamps[x]
                /\ ~Answering(F2, x, f) /\ ~Answered(Q, x, f)
      BY <1>1, <2>2, <3>1, <3>2, <3>3
    <3> QED
      BY <2>1, <3>4 DEF Covered
  <2> QED
    BY <2>3, <2>4, <2>5
<1>9. ASSUME NEW g \in Federates \ {f}, g \in DOMAIN F2[f].bounds, ~Some(Q[f], Off(g)),
             F[g].member # "resigned", ~Some(F[g].sent, Off(g))
      PROVE  Covered(F2, Q, f, g, F2[f].bounds[g].ta)
  <2>1. PICK t : t = F[f].bounds[g].ta
    OBVIOUS
  <2>2. Covered(F, Q, f, g, t) /\ F2[g] = F[g] /\ F2[f].bounds[g].ta = t
    BY <1>1, <1>9, <2>1 DEF Sound, ValueOK
  <2>3. Some(F2[f].sent, AnswerTo(g)) => Some(F[f].sent, AnswerTo(g))
    <3>1. Minor(f, F[f].reg, F2[f].cTA) \cap AnswerTo(g) = {}
      BY MinorSteps
    <3> QED
      BY <1>1, <1>2, <3>1, SomeExtends
  <2>4. Some(F[f].sent, Correcting(f, g, t)) => Some(F2[f].sent, Correcting(f, g, t))
    BY <1>4
  <2>5. Covered(F2, Q, f, g, t)
    BY <2>2, <2>3, <2>4, CoverSame
  <2> QED
    BY <2>2, <2>5
<1> QED
  BY <1>1, <1>3, <1>5, <1>6, <1>7, <1>8, <1>9, ChangeSound

\* f sends m.
LEMMA CallSound ==
  ASSUME NEW F, NEW Q, NEW S, Types(F, Q, S), Sound(F, Q, S), NEW f \in Federates,
         F[f].member # "resigned", NEW F2, \A x \in Federates \ {f} : F2[x] = F[x], IsState(F2[f]),
         F2[f].member = F[f].member, F2[f].bounds = F[f].bounds,
         NEW m \in ToServer, F2[f].sent = Append(F[f].sent, m),
         m.type # "EnableRegResponse", m \in UpTo(f, F2[f].cTA),
         \/ m \in Off(f)
         \/ /\ F[f].cTA <= F2[f].cTA
            /\ \A x \in Federates \ {f}, t \in Nat : Covered(F, Q, x, f, t) => Covered(F2, Q, x, f, t)
  PROVE  Sound(F2, Q, S)
<1>1. /\ F[f].cTA \in Nat /\ F2[f].cTA \in Nat /\ F[f].sent \in Seq(ToServer)
      /\ Q[f] \in Seq(ToFederate) /\ IsServer(S) /\ IsState(F[f]) /\ \A x \in Federates : IsState(F[x])
  BY Fields DEF Types
<1>2. \A X : Some(F2[f].sent, X) <=> Some(F[f].sent, X) \/ m \in X
  BY <1>1, SomeAppend
<1>3. Changed(F, Q, f, F2, Q)
  BY <1>1, <1>2 DEF Changed
<1>4. JoiningOK(F2[f], Q[f])
  <2>1. JoiningOK(F[f], Q[f])
    BY DEF Sound
  <2> QED
    BY <2>1 DEF JoiningOK
<1>5. m \in Off(f) => Some(F2[f].sent, Off(f))
  BY <1>2
<1>6. Settled(F2[f].sent, UpTo(f, F2[f].cTA), Off(f))
  <2>1. m \in Off(f) \/ Settled(F[f].sent, UpTo(f, F2[f].cTA), Off(f))
    <3>1. Settled(F[f].sent, UpTo(f, F[f].cTA), Off(f))
      BY DEF Sound, SentOK
    <3> QED
      BY <1>1, <3>1, UpToGrows, SettledWeaker
  <2> QED
    BY <1>1, <2>1, SettledAppend
<1>7. ASSUME NEW x \in Federates \ {f}, f \in DOMAIN F[x].bounds, ~Some(F2[f].sent, Off(f)),
             Covered(F, Q, x, f, F[x].bounds[f].ta)
      PROVE  Covered(F2, Q, x, f, F[x].bounds[f].ta)
  <2>1. F[x].bounds[f].ta \in Nat
    BY <1>1, <1>7, BoundTime
  <2> QED
    BY <1>5, <1>7, <2>1
<1>8. ASSUME NEW g \in Federates \ {f}, g \in DOMAIN F2[f].bounds, ~Some(Q[f], Off(g)),
             F[g].member # "resigned", ~Some(F[g].sent, Off(g))
      PROVE  Covered(F2, Q, f, g, F2[f].bounds[g].ta)
  <2>1. Covered(F, Q, f, g, F[f].bounds[g].ta) /\ F2[g] = F[g]
    BY <1>8 DEF Sound, ValueOK
  <2>2. m \notin AnswerTo(g)
    BY DEF AnswerTo
  <2> QED
    BY <1>2, <2>1, <2>2, CoverSame
<1>9. Some(F2[f].sent, Off(f)) \/ F[f].cTA <= F2[f].cTA
  BY <1>5
<1> QED
  BY <1>1, <1>3, <1>4, <1>6, <1>7, <1>8, <1>9, ChangeSound

\* The callback that ends the request of f to regulate: by then all answers are in.
LEMMA CallbackSound ==
  ASSUME NEW F, NEW Q, NEW S, Protocol(F, Q, S), Sound(F, Q, S), NEW f \in Federates, StampsOK(F[f]),
         F[f].member # "resigned", NEW F2, \A x \in Federates \ {f} : F2[x] = F[x], IsState(F2[f]),
         F2[f].member = F[f].member, F2[f].bounds = F[f].bounds, F2[f].sent = F[f].sent,
         F2[f].cTA = F[f].cTA, F2[f].stamps = F[f].stamps,
         F2[f].reg = F[f].reg \/ F[f].enableSet = {}
  PROVE  Sound(F2, Q, S)
<1>1. /\ Types(F, Q, S) /\ IsServer(S) /\ Q[f] \in Seq(ToFederate) /\ \A x \in Federates : IsState(F[x])
  BY DEF Protocol, Types
<1>2. F[f].cTA \in Nat /\ F2[f].cTA <= F[f].cTA /\ F[f].cTA <= F2[f].cTA /\ IsMap(F[f].stamps, Federates, Nat)
  BY <1>1, Fields
<1>3. Changed(F, Q, f, F2, Q)
  BY <1>1 DEF Changed
<1>4. JoiningOK(F2[f], Q[f]) /\ Settled(F2[f].sent, UpTo(f, F2[f].cTA), Off(f))
  <2>1. JoiningOK(F[f], Q[f]) /\ SentOK(F, S, f)
    BY DEF Sound
  <2> QED
    BY <2>1 DEF JoiningOK, SentOK
<1>5. ASSUME NEW x \in Federates \ {f}, f \in DOMAIN F[x].bounds, Covered(F, Q, x, f, F[x].bounds[f].ta)
      PROVE  Covered(F2, Q, x, f, F[x].bounds[f].ta)
  <2>1. PICK t : t = F[x].bounds[f].ta
    OBVIOUS
  <2>2. t \in Nat /\ Covered(F, Q, x, f, t) /\ F2[x] = F[x]
    BY <1>1, <1>5, <2>1, BoundTime
  <2>3. CASE F2[f].reg = F[f].reg
    BY <2>1, <2>2, <2>3, CoverSame
  <2>4. CASE t <= F[f].cTA
    BY <2>1, <2>4 DEF Covered
  <2>5. CASE F[f].enableSet = {} /\ ~(t <= F[f].cTA)
    <3>1. TokenOK(F, Q, x, f)
      BY DEF Protocol
    <3>2. ~Awaited(F, Q, x, f)
      BY <2>5 DEF Awaited
    <3>3. ~Answering(F, x, f) /\ ~Answered(Q, x, f)
      BY <3>1, <3>2, NoTokens
    <3>4. ~Some(F[x].sent, Correcting(x, f, t)) /\ ~Some(Q[f], Correcting(x, f, t))
      <4>1. Correcting(x, f, t) \subseteq AnswerTo(f) /\ Correcting(x, f, t) \subseteq AnswerOf(x)
        BY DEF Correcting, AnswerTo, AnswerOf
      <4> QED
        BY <3>3, <4>1 DEF Answering, Answered, Some
    <3>5. F[f].reg = "EnablePending" /\ x \in DOMAIN F[f].stamps /\ t <= F[f].stamps[x]
      BY <2>2, <2>5, <3>4 DEF Covered
    <3>6. F[f].stamps[x] <= F[f].cTA /\ F[f].stamps[x] \in Nat
      BY <1>2, <2>5, <3>5 DEF StampsOK, IsMap
    <3> QED
      BY <1>2, <2>2, <2>5, <3>5, <3>6
  <2> QED
    BY <2>3, <2>4, <2>5
<1>6. ASSUME NEW g \in Federates \ {f}, g \in DOMAIN F2[f].bounds, ~Some(Q[f], Off(g)),
             F[g].member # "resigned", ~Some(F[g].sent, Off(g))
      PROVE  Covered(F2, Q, f, g, F2[f].bounds[g].ta)
  <2>1. Covered(F, Q, f, g, F[f].bounds[g].ta) /\ F2[g] = F[g]
    BY <1>6 DEF Sound, ValueOK
  <2> QED
    BY <2>1, CoverSame
<1> QED
  BY <1>1, <1>2, <1>3, <1>4, <1>5, <1>6, ChangeSound

LEMMA ResignSound ==
  ASSUME NEW F, NEW Q, NEW S, Sound(F, Q, S), NEW f \in Federates,
         NEW F2, \A x \in Federates \ {f} : F2[x] = F[x],
         F2[f].member = "resigned", F2[f].reg = "Disabled", DOMAIN F2[f].bounds = {}
  PROVE  Sound(F2, Q, S)
<1>1. ASSUME NEW g \in Federates PROVE SentOK(F2, S, g) /\ GoneOK(F2[g]) /\ JoiningOK(F2[g], Q[g])
  <2>1. CASE g = f
    BY <2>1 DEF SentOK, GoneOK, JoiningOK
  <2>2. CASE g # f
    <3>1. F2[g] = F[g] /\ SentOK(F, S, g) /\ GoneOK(F[g]) /\ JoiningOK(F[g], Q[g])
      BY <2>2 DEF Sound
    <3> QED
      BY <3>1 DEF SentOK
  <2> QED
    BY <2>1, <2>2
<1>2. ASSUME NEW x \in Federates, NEW g \in Federates PROVE ValueOK(F2, Q, x, g)
  <2>0. ValueOK(F, Q, x, g)
    BY DEF Sound
  <2>1. CASE g = f
    BY <2>1 DEF ValueOK
  <2>2. CASE g # f /\ x = f
    BY <2>0, <2>2 DEF ValueOK
  <2>3. CASE g # f /\ x # f
    <3>1. F2[x] = F[x] /\ F2[g] = F[g]
      BY <2>3
    <3>2. \A t : Covered(F, Q, x, g, t) => Covered(F2, Q, x, g, t)
      BY <3>1 DEF Covered, Answering, Answered
    <3> QED
      BY <2>0, <3>1, <3>2 DEF ValueOK
  <2> QED
    BY <2>1, <2>2, <2>3
<1> QED
  BY <1>1, <1>2 DEF Sound

-----------------------------------------------------------------------------
(* An ambassador accepts a message *)

LEMMA TakenChanged ==
  ASSUME NEW F, NEW Q, NEW S, NEW f, NEW F2, NEW Q2, Taken(F, Q, S, f, F2, Q2),
         \/ F2[f].sent = F[f].sent
         \/ \E r \in ToServer : F2[f].sent = Append(F[f].sent, r)
  PROVE  Changed(F, Q, f, F2, Q2)
<1>1. f \in Federates /\ F[f].sent \in Seq(ToServer) /\ Q[f] \in Seq(ToFederate)
  BY TakenFacts
<1>2. ASSUME NEW X, Some(F[f].sent, X) PROVE Some(F2[f].sent, X)
  <2>1. CASE F2[f].sent = F[f].sent
    BY <1>2, <2>1
  <2>2. ASSUME NEW r \in ToServer, F2[f].sent = Append(F[f].sent, r) PROVE Some(F2[f].sent, X)
    BY <1>1, <1>2, <2>2, SomeAppend
  <2> QED
    BY <2>1, <2>2
<1> QED
  BY <1>1, <1>2 DEF Taken, Protocol, Types, Changed

\* Nothing is sent, or an answer is.
Answers(p, q) == q = p \/ \E r \in ToServer : r.type = "EnableRegResponse" /\ q = Append(p, r)

LEMMA TakeSound ==
  ASSUME NEW F, NEW Q, NEW S, NEW f, NEW F2, NEW Q2, Taken(F, Q, S, f, F2, Q2), Sound(F, Q, S),
         \/ F2[f].member = "in"
         \/ F2[f].member = F[f].member /\ Head(Q[f]).type # "JoinResponse",
         F2[f].cTA = F[f].cTA, Answers(F[f].sent, F2[f].sent),
         \A x \in Federates \ {f}, t \in Nat :
           f \in DOMAIN F[x].bounds /\ Covered(F, Q, x, f, t) => Covered(F2, Q2, x, f, t),
         \A g \in Federates \ {f} :
           /\ g \in DOMAIN F2[f].bounds /\ ~Some(Q2[f], Off(g))
           /\ F[g].member # "resigned" /\ ~Some(F[g].sent, Off(g))
           => Covered(F2, Q2, f, g, F2[f].bounds[g].ta)
  PROVE  Sound(F2, Q2, S)
<1>1. /\ f \in Federates /\ F[f].member \in {"joining", "in"} /\ F[f].sent \in Seq(ToServer)
      /\ Q[f] \in Seq(ToFederate) /\ Q[f] # <<>> /\ Q2[f] = Tail(Q[f])
  BY TakenFacts
<1>2. IsServer(S) /\ \A x \in Federates : IsState(F[x])
  BY DEF Taken, Protocol, Types
<1>3. Changed(F, Q, f, F2, Q2)
  BY TakenChanged DEF Answers
<1>4. F[f].cTA \in Nat /\ F[f].cTA <= F2[f].cTA
  BY <1>1, <1>2, Fields
<1>5. JoiningOK(F2[f], Q2[f])
  <2>1. SUFFICES ASSUME F2[f].member = "joining" PROVE Ahead(Q2[f], Typed("JoinResponse"), Offs)
    BY DEF JoiningOK
  <2>2. F[f].member = "joining" /\ Head(Q[f]) \notin Typed("JoinResponse")
    BY <2>1 DEF Typed
  <2>3. Ahead(Q[f], Typed("JoinResponse"), Offs)
    BY <1>1, <2>2 DEF Sound, JoiningOK
  <2> QED
    BY <1>1, <2>2, <2>3, AheadTail
<1>6. Settled(F2[f].sent, UpTo(f, F2[f].cTA), Off(f))
  <2>1. Settled(F[f].sent, UpTo(f, F[f].cTA), Off(f))
    BY <1>1 DEF Sound, SentOK
  <2>2. ASSUME NEW r \in ToServer, r.type = "EnableRegResponse", F2[f].sent = Append(F[f].sent, r)
        PROVE  Settled(F2[f].sent, UpTo(f, F2[f].cTA), Off(f))
    <3>1. r \in UpTo(f, F2[f].cTA)
      BY <2>2, MessageIn DEF UpTo, On, Of
    <3> QED
      BY <1>1, <2>1, <2>2, <3>1, SettledAppend
  <2> QED
    BY <2>1, <2>2 DEF Answers
<1>7. ASSUME NEW x \in Federates \ {f}, f \in DOMAIN F[x].bounds, Covered(F, Q, x, f, F[x].bounds[f].ta)
      PROVE  Covered(F2, Q2, x, f, F[x].bounds[f].ta)
  <2>1. F[x].bounds[f].ta \in Nat
    BY <1>2, <1>7, BoundTime
  <2> QED
    BY <1>7, <2>1
<1>8. F2[f].member # "resigned"
  BY <1>1
<1> QED
  BY <1>2, <1>3, <1>4, <1>5, <1>6, <1>7, <1>8, ChangeSound

\* x relies on f, and f takes a message that is not an answer of x.
LEMMA CoverTail ==
  ASSUME NEW F, NEW Q, NEW S, NEW f, NEW F2, NEW Q2, Taken(F, Q, S, f, F2, Q2),
         NEW x \in Federates \ {f}, NEW t, Covered(F, Q, x, f, t),
         F2[f].cTA = F[f].cTA, F2[f].reg = F[f].reg, Head(Q[f]) \notin AnswerOf(x),
         x \in DOMAIN F[f].stamps => x \in DOMAIN F2[f].stamps /\ F2[f].stamps[x] = F[f].stamps[x]
  PROVE  Covered(F2, Q2, x, f, t)
<1>1. Q[f] \in Seq(ToFederate) /\ Q[f] # <<>> /\ Q2[f] = Tail(Q[f]) /\ F2[x] = F[x]
  BY TakenFacts DEF Taken
<1>2. \A X : Some(Q[f], X) <=> Head(Q[f]) \in X \/ Some(Q2[f], X)
  BY <1>1, SomeTail
<1>3. Head(Q[f]) \notin Correcting(x, f, t)
  BY DEF Correcting, AnswerOf
<1>4. Answered(Q2, x, f) => Answered(Q, x, f)
  BY <1>2 DEF Answered
<1>5. Answering(F2, x, f) <=> Answering(F, x, f)
  BY <1>1 DEF Answering
<1> QED
  BY <1>1, <1>2, <1>3, <1>4, <1>5 DEF Covered

\* f relies on g, and takes a message that does not change that.
LEMMA RelyTail ==
  ASSUME NEW F, NEW Q, NEW S, NEW f, NEW F2, NEW Q2, Taken(F, Q, S, f, F2, Q2), Sound(F, Q, S),
         NEW g \in Federates \ {f}, ~Some(Q2[f], Off(g)),
         F[g].member # "resigned", ~Some(F[g].sent, Off(g)),
         g \in DOMAIN F[f].bounds, F2[f].bounds[g].ta = F[f].bounds[g].ta,
         Head(Q[f]) \notin Off(g),
         \/ F2[f].sent = F[f].sent
         \/ \E r \in ToServer : r \notin AnswerTo(g) /\ F2[f].sent = Append(F[f].sent, r)
  PROVE  Covered(F2, Q2, f, g, F2[f].bounds[g].ta)
<1>1. /\ Q[f] \in Seq(ToFederate) /\ Q[f] # <<>> /\ Q2[f] = Tail(Q[f]) /\ F[f].sent \in Seq(ToServer)
      /\ F2[g] = F[g] /\ Q2[g] = Q[g] /\ f \in Federates
  <2>1. /\ Q[f] \in Seq(ToFederate) /\ Q[f] # <<>> /\ Q2[f] = Tail(Q[f]) /\ F[f].sent \in Seq(ToServer)
        /\ f \in Federates
    BY TakenFacts
  <2>2. F2[g] = F[g] /\ Q2[g] = Q[g]
    BY DEF Taken
  <2> QED
    BY <2>1, <2>2
<1>2. ~Some(Q[f], Off(g))
  BY <1>1, SomeTail
<1>3. Covered(F, Q, f, g, F[f].bounds[g].ta)
  BY <1>1, <1>2 DEF Sound, ValueOK
<1>4. /\ \A X : Some(F[f].sent, X) => Some(F2[f].sent, X)
      /\ Some(F2[f].sent, AnswerTo(g)) => Some(F[f].sent, AnswerTo(g))
  <2>1. CASE F2[f].sent = F[f].sent
    BY <2>1
  <2>2. ASSUME NEW r \in ToServer, r \notin AnswerTo(g), F2[f].sent = Append(F[f].sent, r)
        PROVE  /\ \A X : Some(F[f].sent, X) => Some(F2[f].sent, X)
               /\ Some(F2[f].sent, AnswerTo(g)) => Some(F[f].sent, AnswerTo(g))
    <3>1. \A X : Some(F2[f].sent, X) <=> Some(F[f].sent, X) \/ r \in X
      BY <1>1, <2>2, SomeAppend
    <3> QED
      BY <2>2, <3>1
  <2> QED
    BY <2>1, <2>2
<1> QED
  BY <1>1, <1>3, <1>4, CoverSame

\* f takes the message by which g promises something.
LEMMA PromiseTaken ==
  ASSUME NEW F, NEW Q, NEW S, NEW f, NEW F2, NEW Q2, Taken(F, Q, S, f, F2, Q2), Sound(F, Q, S),
         NEW g \in Federates \ {f}, ~Some(Q2[f], Off(g)),
         F[g].member # "resigned", ~Some(F[g].sent, Off(g)),
         Head(Q[f]) \in On(g) \/ (Head(Q[f]) \in Of("Commit", g) /\ "TA" \in Head(Q[f]).ct)
  PROVE  Head(Q[f]).ts <= F[g].cTA
<1>1. Q[f] \in Seq(ToFederate) /\ Q[f] # <<>> /\ Q2[f] = Tail(Q[f]) /\ f \in Federates
  BY TakenFacts
<1>2. Settled(Q[f], UpTo(g, F[g].cTA), Off(g))
  BY <1>1 DEF Sound, ValueOK
<1>3. Head(Q[f]) \in UpTo(g, F[g].cTA)
  BY <1>1, <1>2, SettledTail
<1> QED
  BY <1>3 DEF UpTo

\* f takes a message that no guarantee given to the others rests on.
LEMMA SilentSound ==
  ASSUME NEW F, NEW Q, NEW S, NEW f, NEW F2, NEW Q2, Taken(F, Q, S, f, F2, Q2), Sound(F, Q, S),
         \/ F2[f].member = "in"
         \/ F2[f].member = F[f].member /\ Head(Q[f]).type # "JoinResponse",
         F2[f].cTA = F[f].cTA, F2[f].reg = F[f].reg, F2[f].sent = F[f].sent,
         \A x \in Federates \ {f} : f \in DOMAIN F[x].bounds =>
           /\ Head(Q[f]) \notin AnswerOf(x)
           /\ x \in DOMAIN F[f].stamps => x \in DOMAIN F2[f].stamps /\ F2[f].stamps[x] = F[f].stamps[x],
         \A g \in Federates \ {f} : g \in DOMAIN F2[f].bounds =>
           /\ Head(Q[f]) \notin Off(g) /\ g \in DOMAIN F[f].bounds
           /\ \/ F2[f].bounds[g].ta = F[f].bounds[g].ta
              \/ /\ Head(Q[f]) \in Of("Commit", g) /\ "TA" \in Head(Q[f]).ct
                 /\ F2[f].bounds[g].ta = Head(Q[f]).ts
  PROVE  Sound(F2, Q2, S)
<1>1. ASSUME NEW x \in Federates \ {f}, NEW t \in Nat, f \in DOMAIN F[x].bounds, Covered(F, Q, x, f, t)
      PROVE  Covered(F2, Q2, x, f, t)
  <2>1. /\ Head(Q[f]) \notin AnswerOf(x)
        /\ x \in DOMAIN F[f].stamps => x \in DOMAIN F2[f].stamps /\ F2[f].stamps[x] = F[f].stamps[x]
    BY <1>1
  <2> QED
    BY <1>1, <2>1, CoverTail
<1>2. ASSUME NEW g \in Federates \ {f}, g \in DOMAIN F2[f].bounds, ~Some(Q2[f], Off(g)),
             F[g].member # "resigned", ~Some(F[g].sent, Off(g))
      PROVE  Covered(F2, Q2, f, g, F2[f].bounds[g].ta)
  <2>1. Head(Q[f]) \notin Off(g) /\ g \in DOMAIN F[f].bounds
    BY <1>2
  <2>2. CASE F2[f].bounds[g].ta = F[f].bounds[g].ta
    BY <1>2, <2>1, <2>2, RelyTail
  <2>3. CASE /\ Head(Q[f]) \in Of("Commit", g) /\ "TA" \in Head(Q[f]).ct
             /\ F2[f].bounds[g].ta = Head(Q[f]).ts
    <3>1. Head(Q[f]).ts <= F[g].cTA
      BY <1>2, <2>3, PromiseTaken
    <3>2. F2[g] = F[g]
      BY DEF Taken
    <3> QED
      BY <2>3, <3>1, <3>2 DEF Covered
  <2> QED
    BY <1>2, <2>2, <2>3
<1>3. Answers(F[f].sent, F2[f].sent)
  BY DEF Answers
<1> QED
  BY <1>1, <1>2, <1>3, TakeSound

\* f takes the answer of k to its request.
LEMMA ResponseSound ==
  ASSUME NEW F, NEW Q, NEW S, NEW f, NEW F2, NEW Q2, Taken(F, Q, S, f, F2, Q2), Sound(F, Q, S),
         F2[f].member = F[f].member, F2[f].cTA = F[f].cTA, F2[f].reg = F[f].reg, F2[f].sent = F[f].sent,
         F2[f].bounds = F[f].bounds,
         NEW k \in Federates, Head(Q[f]).type = "EnableRegResponse", Head(Q[f]).from = k,
         F2[f].stamps = (IF Head(Q[f]).valid THEN Put(F[f].stamps, k, Head(Q[f]).ts) ELSE F[f].stamps)
  PROVE  Sound(F2, Q2, S)
<1>1. /\ Q[f] \in Seq(ToFederate) /\ Q[f] # <<>> /\ Q2[f] = Tail(Q[f]) /\ Head(Q[f]) \in Messages
      /\ f \in Federates
  BY TakenFacts
<1>2. /\ F[f].reg = "EnablePending" /\ ~Answering(F, k, f) /\ ~Answered(Q2, k, f) /\ k # f
  BY ResponseWaited
<1>3. \A X : Some(Q[f], X) <=> Head(Q[f]) \in X \/ Some(Q2[f], X)
  BY <1>1, SomeTail
<1>4. Head(Q[f]) \in AnswerOf(k) /\ \A x : x # k => Head(Q[f]) \notin AnswerOf(x)
  BY <1>1 DEF AnswerOf
<1>5. ASSUME NEW x \in Federates \ {f}, NEW t \in Nat, f \in DOMAIN F[x].bounds, Covered(F, Q, x, f, t)
      PROVE  Covered(F2, Q2, x, f, t)
  <2>1. CASE x # k
    <3>1. x \in DOMAIN F[f].stamps => x \in DOMAIN F2[f].stamps /\ F2[f].stamps[x] = F[f].stamps[x]
      BY <2>1 DEF Put
    <3> QED
      BY <1>4, <1>5, <2>1, <3>1, CoverTail
  <2>2. CASE x = k /\ t <= F[f].cTA
    BY <2>2 DEF Covered
  <2>3. CASE x = k /\ ~(t <= F[f].cTA)
    <3>1. Correcting(k, f, t) \subseteq AnswerTo(f) /\ Correcting(k, f, t) \subseteq AnswerOf(k)
      BY DEF Correcting, AnswerTo, AnswerOf
    <3>2. ~Some(F[k].sent, Correcting(k, f, t)) /\ ~Some(Q2[f], Correcting(k, f, t))
      BY <1>2, <3>1 DEF Answering, Answered, Some
    <3>3. Answered(Q, k, f)
      BY <1>3, <1>4 DEF Answered
    <3>4. Some(Q[f], Correcting(k, f, t))
      BY <1>5, <2>3, <3>2, <3>3 DEF Covered
    <3>5. Head(Q[f]) \in Correcting(k, f, t)
      BY <1>3, <3>2, <3>4
    <3>6. k \in DOMAIN F2[f].stamps /\ t <= F2[f].stamps[k]
      BY <3>5 DEF Correcting, Put
    <3>7. F2[k] = F[k]
      BY <1>2 DEF Taken
    <3>8. ~Answering(F2, k, f)
      BY <1>2, <3>7 DEF Answering
    <3> QED
      BY <1>2, <2>3, <3>6, <3>8 DEF Covered
  <2> QED
    BY <2>1, <2>2, <2>3
<1>6. ASSUME NEW g \in Federates \ {f}, g \in DOMAIN F2[f].bounds, ~Some(Q2[f], Off(g)),
             F[g].member # "resigned", ~Some(F[g].sent, Off(g))
      PROVE  Covered(F2, Q2, f, g, F2[f].bounds[g].ta)
  <2>1. Head(Q[f]) \notin Off(g)
    BY DEF Off, Of
  <2> QED
    BY <1>6, <2>1, RelyTail
<1>7. Answers(F[f].sent, F2[f].sent)
  BY DEF Answers
<1> QED
  BY <1>5, <1>6, <1>7, TakeSound

\* f takes the request of y, and answers it once f has joined.
LEMMA RequestSound ==
  ASSUME NEW F, NEW Q, NEW S, NEW f, NEW F2, NEW Q2, Taken(F, Q, S, f, F2, Q2), Sound(F, Q, S),
         F2[f].member = F[f].member, F2[f].cTA = F[f].cTA, F2[f].reg = F[f].reg,
         F2[f].stamps = F[f].stamps,
         NEW y \in Federates \ {f}, Head(Q[f]).type = "EnableReg", Head(Q[f]).fed = y,
         NEW r \in EnableResponses, r.to = y, r.from = f,
         F2[f].sent = IF F[f].member = "in" THEN Append(F[f].sent, r) ELSE F[f].sent,
         DOMAIN F2[f].bounds = DOMAIN F[f].bounds \cup {y}, F2[f].bounds[y].ta = r.ts,
         r.ts = Head(Q[f]).ts \/ (r.valid /\ F[f].member = "in"),
         \A g \in DOMAIN F[f].bounds : g # y => F2[f].bounds[g] = F[f].bounds[g]
  PROVE  Sound(F2, Q2, S)
<1>1. /\ Q[f] \in Seq(ToFederate) /\ Q[f] # <<>> /\ Q2[f] = Tail(Q[f]) /\ Head(Q[f]) \in Messages
      /\ f \in Federates /\ F[f].sent \in Seq(ToServer) /\ TokenOK(F, Q, f, y)
  BY TakenFacts
<1>2. r \in ToServer /\ r.type = "EnableRegResponse" /\ r \in Messages
  BY DEF EnableResponses, ToServer, Relayed, Messages
<1>3. Head(Q[f]) \in On(y) /\ \A x : Head(Q[f]) \notin AnswerOf(x) /\ Head(Q[f]) \notin Off(x)
  BY <1>1 DEF On, Off, Of, AnswerOf
<1>4. ASSUME NEW x \in Federates \ {f}, NEW t \in Nat, f \in DOMAIN F[x].bounds, Covered(F, Q, x, f, t)
      PROVE  Covered(F2, Q2, x, f, t)
  BY <1>3, <1>4, CoverTail
<1>5. ASSUME NEW g \in Federates \ {f}, g \in DOMAIN F2[f].bounds, ~Some(Q2[f], Off(g)),
             F[g].member # "resigned", ~Some(F[g].sent, Off(g))
      PROVE  Covered(F2, Q2, f, g, F2[f].bounds[g].ta)
  <2>1. CASE g # y
    <3>1. g \in DOMAIN F[f].bounds /\ F2[f].bounds[g].ta = F[f].bounds[g].ta
      BY <1>5, <2>1
    <3>2. r \notin AnswerTo(g)
      BY <2>1 DEF AnswerTo
    <3>3. \/ F2[f].sent = F[f].sent
          \/ \E q \in ToServer : q \notin AnswerTo(g) /\ F2[f].sent = Append(F[f].sent, q)
      BY <1>2, <3>2
    <3> QED
      BY <1>3, <1>5, <3>1, <3>3, RelyTail
  <2>2. CASE g = y /\ r.ts = Head(Q[f]).ts
    <3>1. Head(Q[f]).ts <= F[g].cTA
      BY <1>3, <1>5, <2>2, PromiseTaken
    <3>2. F2[g] = F[g]
      BY DEF Taken
    <3> QED
      BY <2>2, <3>1, <3>2 DEF Covered
  <2>3. CASE g = y /\ r.valid /\ F[f].member = "in"
    <3>1. r.ts \in Nat
      BY DEF EnableResponses
    <3>2. r \in Correcting(f, y, r.ts)
      BY <1>2, <2>3, <3>1 DEF Correcting
    <3>3. Some(F2[f].sent, Correcting(f, y, r.ts))
      BY <1>1, <1>2, <2>3, <3>2, SomeAppend
    <3>4. Some(Q[f], On(y))
      BY <1>1, <1>3, SomeTail
    <3>5. Asked(F, Q, f, y)
      BY <2>3, <3>4 DEF Asked
    <3>6. F[y].reg = "EnablePending"
      BY <1>1, <1>5, <2>3, <3>5 DEF TokenOK
    <3>7. F2[y] = F[y]
      BY DEF Taken
    <3> QED
      BY <2>3, <3>3, <3>6, <3>7 DEF Covered
  <2> QED
    BY <2>1, <2>2, <2>3
<1>6. Answers(F[f].sent, F2[f].sent)
  BY <1>2 DEF Answers
<1>7. \/ F2[f].member = "in"
      \/ F2[f].member = F[f].member /\ Head(Q[f]).type # "JoinResponse"
  OBVIOUS
<1>8. \A x \in Federates \ {f}, t \in Nat :
        f \in DOMAIN F[x].bounds /\ Covered(F, Q, x, f, t) => Covered(F2, Q2, x, f, t)
  BY <1>4
<1>9. \A g \in Federates \ {f} :
        /\ g \in DOMAIN F2[f].bounds /\ ~Some(Q2[f], Off(g))
        /\ F[g].member # "resigned" /\ ~Some(F[g].sent, Off(g))
        => Covered(F2, Q2, f, g, F2[f].bounds[g].ta)
  BY <1>5
<1> QED
  BY <1>6, <1>7, <1>8, <1>9, TakeSound

\* Whatever the message, the guarantees hold after f accepted it.
LEMMA AcceptSound ==
  ASSUME NEW F, NEW Q, NEW S, NEW f, NEW F2, NEW Q2, Taken(F, Q, S, f, F2, Q2), LocalOK(F[f]),
         Sound(F, Q, S), F2[f] = acceptInternalMessage(f, F[f], Head(Q[f]))
  PROVE  Sound(F2, Q2, S)
<1> DEFINE m == Head(Q[f])
           s == F[f]
           t == F2[f]
           G(a) == [x \in Federates |-> IF x = f THEN a ELSE F[x]]
<1>1. /\ f \in Federates /\ f \in S.members /\ s.member \in {"joining", "in"} /\ OwnOK(F, Q, f)
      /\ Q[f] \in Seq(ToFederate) /\ Q[f] # <<>> /\ Q2[f] = Tail(Q[f]) /\ Q2[f] \in Seq(ToFederate)
      /\ m \in ToFederate /\ m \in Messages
  BY TakenFacts
<1>2. IsState(s) /\ IsState(t) /\ LocalOK(s)
  BY DEF Taken, Protocol, Types
<1>3. ASSUME NEW a, IsState(a) PROVE Taken(F, Q, S, f, G(a), Q2) /\ G(a)[f] = a
  <2>1. G(a)[f] = a /\ \A x \in Federates \ {f} : G(a)[x] = F[x]
    BY <1>1
  <2> HIDE DEF G
  <2> QED
    BY <1>3, <2>1 DEF Taken
<1>4. ASSUME NEW a, Sound(G(a), Q2, S), a.member = s.member, Steady(f, a, t)
      PROVE  Sound(F2, Q2, S)
  <2>1. G(a)[f] = a /\ \A x \in Federates \ {f} : F2[x] = G(a)[x] /\ G(a)[x] = F[x] /\ Q2[x] = Q[x]
    BY <1>1 DEF Taken
  <2>2. G(a)[f].member # "resigned" /\ Steady(f, G(a)[f], F2[f])
    BY <1>1, <1>4, <2>1
  <2> HIDE DEF G
  <2>3. IsState(a)
    BY <1>4 DEF Steady
  <2>4. Types(F, Q, S)
    BY DEF Taken, Protocol
  <2>5. Types(G(a), Q2, S)
    BY <1>1, <2>1, <2>3, <2>4 DEF Types
  <2> QED
    BY <1>1, <1>4, <2>1, <2>2, <2>5, SteadySound
<1> HIDE DEF G
<1>5. CASE m.type = "JoinNotify"
  <2>1. m.fed \in Federates /\ t = acceptJoinNotify(f, s, m.fed)
    BY <1>1, <1>5, ToFederateCases DEF acceptInternalMessage
  <2>2. Alike(s, t) /\ t.bounds = s.bounds /\ t.stamps = s.stamps /\ t.sent = s.sent
    <3> HIDE DEF m, s, t
    <3>1. PICK u : /\ u = acceptJoinNotify(f, s, m.fed) /\ Alike(s, u)
                   /\ u.bounds = s.bounds /\ u.stamps = s.stamps /\ u.sent = s.sent
      BY <1>1, <1>2, <2>1, joinNotifyAlike
    <3> QED
      BY <2>1, <3>1
  <2>3. t.member = s.member /\ t.reg = s.reg /\ t.cTA = s.cTA
    BY <2>2 DEF Alike
  <2>4. \A x : m \notin AnswerOf(x) /\ m \notin Off(x)
    BY <1>5 DEF AnswerOf, Off, Of
  <2> QED
    BY <1>5, <2>2, <2>3, <2>4, SilentSound
<1>6. CASE m.type = "JoinResponse"
  <2>1. t = [s EXCEPT !.member = "in"]
    BY <1>6 DEF acceptInternalMessage
  <2>2. /\ t.member = "in" /\ t.bounds = s.bounds /\ t.sent = s.sent /\ t.reg = s.reg /\ t.cTA = s.cTA
        /\ t.stamps = s.stamps
    BY <1>2, <2>1 DEF IsState
  <2>3. \A x : m \notin AnswerOf(x) /\ m \notin Off(x)
    BY <1>6 DEF AnswerOf, Off, Of
  <2> QED
    BY <2>2, <2>3, SilentSound
<1>7. CASE m.type = "ResignNotify"
  <2>1. m.fed \in Federates /\ t = acceptResignNotify(f, s, m.fed)
    BY <1>1, <1>7, ToFederateCases DEF acceptInternalMessage
  <2>2. PICK a : /\ Alike(s, a) /\ Steady(f, a, t) /\ a.sent = s.sent
                 /\ a.bounds = Drop(s.bounds, m.fed) /\ a.stamps = Drop(s.stamps, m.fed)
    <3> HIDE DEF m, s, t
    <3> QED
      BY <1>1, <1>2, <2>1, resignNotifyAlike
  <2>3. IsState(a) /\ a.member = s.member /\ a.reg = s.reg /\ a.cTA = s.cTA
    BY <2>2 DEF Alike
  <2>4. Taken(F, Q, S, f, G(a), Q2) /\ G(a)[f] = a
    BY <1>3, <2>3
  <2>5. F[m.fed].member = "resigned"
    <3>1. m \in Of("ResignNotify", m.fed)
      BY <1>1, <1>7 DEF Of
    <3>2. Some(Q[f], Of("ResignNotify", m.fed))
      BY <1>1, <3>1, SomeTail
    <3>3. KnownOK(F, Q, S, m.fed, f)
      BY <1>1, <2>1 DEF Taken, Protocol
    <3> QED
      BY <3>2, <3>3 DEF KnownOK
  <2>6. ASSUME NEW x \in Federates \ {f}, f \in DOMAIN F[x].bounds
        PROVE  /\ m \notin AnswerOf(x)
               /\ x \in DOMAIN s.stamps => x \in DOMAIN a.stamps /\ a.stamps[x] = s.stamps[x]
    <3>1. GoneOK(F[x])
      BY DEF Sound
    <3>2. x # m.fed
      BY <2>5, <2>6, <3>1 DEF GoneOK
    <3> QED
      BY <1>7, <2>2, <3>2 DEF AnswerOf, Drop
  <2>7. ASSUME NEW g \in Federates \ {f}, g \in DOMAIN a.bounds
        PROVE  m \notin Off(g) /\ g \in DOMAIN s.bounds /\ a.bounds[g].ta = s.bounds[g].ta
    <3>1. g # m.fed /\ g \in DOMAIN s.bounds /\ a.bounds[g] = s.bounds[g]
      BY <2>2, <2>7 DEF Drop
    <3> QED
      BY <3>1 DEF Off, Of
  <2>8. Sound(G(a), Q2, S)
    BY <1>7, <2>2, <2>3, <2>4, <2>6, <2>7, SilentSound
  <2> QED
    BY <1>4, <2>2, <2>3, <2>8
<1>8. CASE m.type = "EnableReg" /\ m.fed = f
  <2>1. t = acceptOwnEnableRequest(f, s)
    BY <1>8 DEF acceptInternalMessage
  <2>2. s.reg = "EnablePending" /\ f \in s.enableSet
    <3>1. m \in On(f)
      BY <1>1, <1>8 DEF On, Of
    <3>2. Some(Q[f], On(f))
      BY <1>1, <3>1, SomeTail
    <3> QED
      BY <1>1, <3>2 DEF OwnOK
  <2>3. PICK a : /\ Alike(s, a) /\ Steady(f, a, t) /\ a.sent = s.sent
                 /\ a.bounds = s.bounds /\ a.stamps = s.stamps
    BY <1>1, <1>2, <2>1, <2>2, ownEnableRequestAlike
  <2>4. IsState(a) /\ a.member = s.member /\ a.reg = s.reg /\ a.cTA = s.cTA
    BY <2>3 DEF Alike
  <2>5. Taken(F, Q, S, f, G(a), Q2) /\ G(a)[f] = a
    BY <1>3, <2>4
  <2>6. \A x : m \notin AnswerOf(x) /\ m \notin Off(x)
    BY <1>8 DEF AnswerOf, Off, Of
  <2>7. Sound(G(a), Q2, S)
    BY <1>8, <2>3, <2>4, <2>5, <2>6, SilentSound
  <2> QED
    BY <1>4, <2>3, <2>4, <2>7
<1>9. CASE m.type = "EnableReg" /\ m.fed # f
  <2>1. m \in EnableRequests /\ t = acceptEnableRequest(f, s, m)
    BY <1>1, <1>9, ToFederateCases DEF acceptInternalMessage
  <2>2. PICK a, u, v :
           /\ Alike(s, a) /\ Quiet(f, a, t) /\ a.stamps = s.stamps
           /\ u \in Nat /\ v \in BOOLEAN /\ (u = m.ts \/ (v /\ s.member = "in"))
           /\ EnableResponse(m.fed, f, u, v) \in EnableResponses
           /\ a.sent = (IF s.member = "in" THEN Append(s.sent, EnableResponse(m.fed, f, u, v)) ELSE s.sent)
           /\ DOMAIN a.bounds = DOMAIN s.bounds \cup {m.fed}
           /\ a.bounds[m.fed].ta = u
           /\ \A g \in DOMAIN s.bounds : g # m.fed => a.bounds[g] = s.bounds[g]
    <3> HIDE DEF m, s, t
    <3> QED
      BY <1>1, <1>2, <2>1, enableRequestAlike
  <2>3. IsState(a) /\ a.member = s.member /\ a.reg = s.reg /\ a.cTA = s.cTA
    BY <2>2 DEF Alike
  <2>4. Taken(F, Q, S, f, G(a), Q2) /\ G(a)[f] = a
    BY <1>3, <2>3
  <2>5. PICK r : r = EnableResponse(m.fed, f, u, v)
    OBVIOUS
  <2>6. /\ r \in EnableResponses /\ r.to = m.fed /\ r.from = f /\ m.fed \in Federates \ {f}
        /\ r.ts = u /\ r.valid = v
    BY <1>9, <2>1, <2>2, <2>5 DEF EnableResponse, EnableRequests
  <2>7. /\ a.sent = (IF s.member = "in" THEN Append(s.sent, r) ELSE s.sent)
        /\ r.ts = m.ts \/ (r.valid /\ s.member = "in")
        /\ a.bounds[m.fed].ta = r.ts
    BY <2>2, <2>5, <2>6
  <2>8. Sound(G(a), Q2, S)
    BY <1>9, <2>2, <2>3, <2>4, <2>6, <2>7, RequestSound
  <2>9. Steady(f, a, t)
    BY <2>2, QuietSteady
  <2> QED
    BY <1>4, <2>2, <2>3, <2>8, <2>9
<1>10. CASE m.type = "EnableRegResponse"
  <2>1. m \in EnableResponses /\ t = acceptEnableResponse(f, s, m)
    BY <1>1, <1>10, ToFederateCases DEF acceptInternalMessage
  <2>2. m.from \in Federates
    BY <2>1 DEF EnableResponses
  <2>3. s.reg = "EnablePending" /\ s.enableSet # {}
    BY <1>10, <2>2, ResponseWaited
  <2>4. PICK a : /\ Alike(s, a) /\ Steady(f, a, t) /\ a.sent = s.sent /\ a.bounds = s.bounds
                 /\ a.stamps = (IF m.valid THEN Put(s.stamps, m.from, m.ts) ELSE s.stamps)
    BY <1>1, <1>2, <2>1, <2>3, enableResponseAlike
  <2>5. IsState(a) /\ a.member = s.member /\ a.reg = s.reg /\ a.cTA = s.cTA
    BY <2>4 DEF Alike
  <2>6. Taken(F, Q, S, f, G(a), Q2) /\ G(a)[f] = a
    BY <1>3, <2>5
  <2>7. Sound(G(a), Q2, S)
    BY <1>10, <2>2, <2>4, <2>5, <2>6, ResponseSound
  <2> QED
    BY <1>4, <2>4, <2>5, <2>7
<1>11. CASE m.type = "DisableReg"
  <2>1. t = acceptDisableRequest(f, s, m)
    BY <1>11 DEF acceptInternalMessage
  <2>2. PICK a : /\ Alike(s, a) /\ Quiet(f, a, t) /\ a.sent = s.sent
                 /\ a.bounds = Drop(s.bounds, m.fed) /\ a.stamps = s.stamps
    <3> HIDE DEF m, s, t
    <3> QED
      BY <1>1, <1>2, <2>1, disableRequestAlike
  <2>3. IsState(a) /\ a.member = s.member /\ a.reg = s.reg /\ a.cTA = s.cTA
    BY <2>2 DEF Alike
  <2>4. Taken(F, Q, S, f, G(a), Q2) /\ G(a)[f] = a
    BY <1>3, <2>3
  <2>5. \A x : m \notin AnswerOf(x)
    BY <1>11 DEF AnswerOf
  <2>6. ASSUME NEW g \in Federates \ {f}, g \in DOMAIN a.bounds
        PROVE  m \notin Off(g) /\ g \in DOMAIN s.bounds /\ a.bounds[g].ta = s.bounds[g].ta
    <3>1. g # m.fed /\ g \in DOMAIN s.bounds /\ a.bounds[g] = s.bounds[g]
      BY <2>2, <2>6 DEF Drop
    <3> QED
      BY <3>1 DEF Off, Of
  <2>7. Sound(G(a), Q2, S)
    BY <1>11, <2>2, <2>3, <2>4, <2>5, <2>6, SilentSound
  <2>8. Steady(f, a, t)
    BY <2>2, QuietSteady
  <2> QED
    BY <1>4, <2>2, <2>3, <2>7, <2>8
<1>12. CASE m.type = "Commit"
  <2>1. m \in CommitMessages /\ t = acceptCommit(f, s, m)
    BY <1>1, <1>12, ToFederateCases DEF acceptInternalMessage
  <2>2. PICK a : /\ Alike(s, a) /\ Quiet(f, a, t) /\ a.sent = s.sent
                 /\ a.stamps = s.stamps /\ DOMAIN a.bounds = DOMAIN s.bounds
                 /\ \A g \in DOMAIN s.bounds :
                      a.bounds[g].ta = (IF g = m.fed /\ "TA" \in m.ct THEN m.ts ELSE s.bounds[g].ta)
    BY <1>1, <1>2, <2>1, commitAlike
  <2>3. IsState(a) /\ a.member = s.member /\ a.reg = s.reg /\ a.cTA = s.cTA
    BY <2>2 DEF Alike
  <2>4. Taken(F, Q, S, f, G(a), Q2) /\ G(a)[f] = a
    BY <1>3, <2>3
  <2>5. \A x : m \notin AnswerOf(x) /\ m \notin Off(x)
    BY <1>12 DEF AnswerOf, Off, Of
  <2>6. ASSUME NEW g \in Federates \ {f}, g \in DOMAIN a.bounds
        PROVE  \/ a.bounds[g].ta = s.bounds[g].ta
               \/ m \in Of("Commit", g) /\ "TA" \in m.ct /\ a.bounds[g].ta = m.ts
    BY <1>1, <1>12, <2>2, <2>6 DEF Of
  <2>7. Sound(G(a), Q2, S)
    BY <1>12, <2>2, <2>3, <2>4, <2>5, <2>6, SilentSound
  <2>8. Steady(f, a, t)
    BY <2>2, QuietSteady
  <2> QED
    BY <1>4, <2>2, <2>3, <2>7, <2>8
<1>13. CASE m.type \in {"CommitResponse", "Locked", "Data"}
  <2>1. Quiet(f, s, t)
    <3>1. CASE m.type = "CommitResponse"
      <4>1. m \in CommitResponseMessages /\ t = acceptCommitResponse(f, s, m)
        BY <1>1, <3>1, ToFederateCases DEF acceptInternalMessage
      <4> QED
        BY <1>1, <1>2, <4>1, commitResponseQuiet
    <3>2. CASE m.type = "Locked"
      <4>1. m \in LockedMessages /\ t = acceptLocked(f, s, m)
        BY <1>1, <3>2, ToFederateCases DEF acceptInternalMessage
      <4> QED
        BY <1>1, <1>2, <4>1, acceptLockedQuiet
    <3>3. CASE m.type = "Data"
      <4>1. m \in DataMessages /\ t = acceptData(f, s, m)
        BY <1>1, <3>3, ToFederateCases DEF acceptInternalMessage
      <4> QED
        BY <1>1, <1>2, <4>1, acceptDataQuiet
    <3> QED
      BY <1>13, <3>1, <3>2, <3>3
  <2>2. Taken(F, Q, S, f, G(s), Q2) /\ G(s)[f] = s
    BY <1>2, <1>3
  <2>3. \A x : m \notin AnswerOf(x) /\ m \notin Off(x)
    BY <1>13 DEF AnswerOf, Off, Of
  <2>4. Sound(G(s), Q2, S)
    BY <1>13, <2>2, <2>3, SilentSound
  <2>5. Steady(f, s, t)
    BY <2>1, QuietSteady
  <2> QED
    BY <1>4, <2>4, <2>5
<1> QED
  BY <1>1, <1>5, <1>6, <1>7, <1>8, <1>9, <1>10, <1>11, <1>12, <1>13, ToFederateCases

-----------------------------------------------------------------------------
(* The corrected times a request is done with *)

LEMMA QuietStamps ==
  ASSUME NEW f, NEW s, NEW t, Quiet(f, s, t), StampsOK(s)
  PROVE  StampsOK(t)
<1>1. t.reg = s.reg /\ t.enableSet = s.enableSet /\ t.stamps = s.stamps /\ s.cTA <= t.cTA
      /\ IsState(s) /\ IsState(t)
  BY DEF Quiet
<1>2. s.cTA \in Nat /\ t.cTA \in Nat /\ IsMap(s.stamps, Federates, Nat)
  BY <1>1, Fields
<1>3. \A g \in DOMAIN s.stamps : s.stamps[g] \in Nat
  BY <1>2 DEF IsMap
<1> QED
  BY <1>1, <1>2, <1>3 DEF StampsOK

\* They are dropped as soon as they are part of what f commits.
LEMMA checkedStamps ==
  ASSUME NEW f \in Federates, NEW s, IsState(s)
  PROVE  StampsOK(checkTimeRegulationEnabled(f, s))
<1>1. CASE s.reg # "EnablePending" \/ s.enableSet # {}
  BY <1>1, checkTimeRegulationEnabledSkips DEF StampsOK
<1>2. CASE s.reg = "EnablePending" /\ s.enableSet = {}
  <2> DEFINE larger == {s.stamps[g] : g \in DOMAIN s.stamps} \cup {s.out[1]}
             bound  == Max(larger)
             pend   == IF bound = s.out[1] THEN s.pend
                       ELSE PairMax(s.pend, <<bound - s.curLA, 0>>)
             ready  == [s EXCEPT !.out = <<bound, 0>>, !.pend = pend, !.stamps = EmptyMap]
             c      == _sendCommitLowerBoundTimeStamp(f, ready, bound, {"TA", "NM"})
  <2>1. checkTimeRegulationEnabled(f, s) = queueAt(c, pend, RegulationEnabled)
    BY <1>2 DEF checkTimeRegulationEnabled
  <2> HIDE DEF bound, pend
  <2>2. ready.stamps = EmptyMap /\ "stamps" \in DOMAIN ready
    BY DEF IsState
  <2> HIDE DEF ready
  <2>3. c.stamps = EmptyMap /\ "stamps" \in DOMAIN c
    BY <2>2 DEF _sendCommitLowerBoundTimeStamp, send
  <2> HIDE DEF c
  <2>4. queueAt(c, pend, RegulationEnabled).stamps = EmptyMap
    BY <2>3 DEF queueAt
  <2>5. DOMAIN EmptyMap = {}
    BY DEF EmptyMap
  <2> QED
    BY <2>1, <2>4, <2>5 DEF StampsOK
<1> QED
  BY <1>1, <1>2

LEMMA resignNotifyStamps ==
  ASSUME NEW f \in Federates, NEW s, IsState(s), StampsOK(s), NEW g \in Federates
  PROVE  StampsOK(acceptResignNotify(f, s, g))
<1> DEFINE b == Drop(s.bounds, g)
           n == Drop(s.stamps, g)
           e == [s EXCEPT !.bounds = b, !.stamps = n, !.enableSet = @ \ {g}]
           c == IF g \in s.enableSet THEN checkTimeRegulationEnabled(f, e) ELSE e
           d == checkForPendingTimeAdvance(f, _sendLockedIfChanged(f, s, c), TRUE)
           r == [d EXCEPT !.known = @ \ {g}]
<1>1. IsMap(b, Federates, Commits) /\ IsMap(n, Federates, Nat)
  BY Fields, DropMap
<1>2. \A h \in DOMAIN n : h \in DOMAIN s.stamps /\ n[h] = s.stamps[h]
  BY DEF Drop
<1> HIDE DEF b, n
<1>3. IsState(e)
  <2>1. ASSUME NEW x \in SUBSET Federates
        PROVE  IsState([s EXCEPT !.bounds = b, !.stamps = n, !.enableSet = x])
    BY <1>1 DEF IsState
  <2> QED
    BY <2>1, Fields
<1>4. e.reg = s.reg /\ e.cTA = s.cTA /\ e.stamps = n /\ e.enableSet = s.enableSet \ {g}
  BY DEF IsState
<1> HIDE DEF e
<1>5. IsState(c) /\ StampsOK(c)
  <2>1. CASE g \in s.enableSet
    BY <1>3, <2>1, checkedStamps, checkTimeRegulationEnabledType
  <2>2. CASE g \notin s.enableSet
    <3>1. e.enableSet = s.enableSet
      BY <1>4, <2>2
    <3>2. StampsOK(e)
      BY <1>2, <1>4, <3>1 DEF StampsOK
    <3> QED
      BY <1>3, <2>2, <3>2
  <2> QED
    BY <2>1, <2>2
<1> HIDE DEF c
<1>6. IsState(d) /\ StampsOK(d)
  BY <1>5, checkedQuiet, checkedType, QuietStamps
<1> HIDE DEF d
<1>7. r.reg = d.reg /\ r.cTA = d.cTA /\ r.stamps = d.stamps /\ r.enableSet = d.enableSet
  BY <1>6 DEF IsState
<1>8. acceptResignNotify(f, s, g) = r
  BY DEF acceptResignNotify, r, d, c, e, b, n, erase
<1> HIDE DEF r
<1> QED
  BY <1>6, <1>7, <1>8 DEF StampsOK

LEMMA acceptStamps ==
  ASSUME NEW f \in Federates, NEW s, IsState(s), LocalOK(s), StampsOK(s), NEW m \in ToFederate
  PROVE  StampsOK(acceptInternalMessage(f, s, m))
<1> DEFINE t == acceptInternalMessage(f, s, m)
<1>1. ASSUME NEW a, Alike(s, a), a.stamps = s.stamps, a.enableSet = s.enableSet, Quiet(f, a, t)
      PROVE  StampsOK(t)
  <2>1. StampsOK(a)
    BY <1>1 DEF Alike, StampsOK
  <2> QED
    BY <1>1, <2>1, QuietStamps
<1> HIDE DEF t
<1>2. CASE m.type = "JoinNotify"
  <2>1. m.fed \in Federates /\ t = acceptJoinNotify(f, s, m.fed)
    BY <1>2, ToFederateCases DEF acceptInternalMessage, t
  <2>2. PICK u : /\ u = acceptJoinNotify(f, s, m.fed) /\ Alike(s, u) /\ u.stamps = s.stamps
                 /\ f \in s.enableSet => u.enableSet = s.enableSet \cup {m.fed}
                 /\ f \notin s.enableSet => u.enableSet = s.enableSet
    BY <2>1, joinNotifyAlike
  <2>3. StampsOK(u)
    BY <2>2 DEF StampsOK, Alike
  <2> QED
    BY <2>1, <2>2, <2>3 DEF t
<1>3. CASE m.type = "JoinResponse"
  <2>1. t = [s EXCEPT !.member = "in"]
    BY <1>3 DEF acceptInternalMessage, t
  <2>2. t.reg = s.reg /\ t.cTA = s.cTA /\ t.stamps = s.stamps /\ t.enableSet = s.enableSet
    BY <2>1 DEF IsState
  <2>3. StampsOK(t)
    BY <2>2 DEF StampsOK
  <2> QED
    BY <2>3 DEF t
<1>4. CASE m.type = "ResignNotify"
  <2>1. m.fed \in Federates /\ t = acceptResignNotify(f, s, m.fed)
    BY <1>4, ToFederateCases DEF acceptInternalMessage, t
  <2> QED
    BY <2>1, resignNotifyStamps DEF t
<1>5. CASE m.type = "EnableReg" /\ m.fed = f
  <2>1. t = acceptOwnEnableRequest(f, s)
    BY <1>5 DEF acceptInternalMessage, t
  <2>2. IsState([s EXCEPT !.enableSet = @ \ {f}])
    BY Fields, enableSetType
  <2>3. StampsOK(checkTimeRegulationEnabled(f, [s EXCEPT !.enableSet = @ \ {f}]))
    BY <2>2, checkedStamps
  <2> QED
    BY <2>1, <2>3 DEF t, acceptOwnEnableRequest
<1>6. CASE m.type = "EnableReg" /\ m.fed # f
  <2>1. m \in EnableRequests /\ t = acceptEnableRequest(f, s, m)
    BY <1>6, ToFederateCases DEF acceptInternalMessage, t
  <2>2. PICK a : Alike(s, a) /\ Quiet(f, a, t) /\ a.stamps = s.stamps /\ a.enableSet = s.enableSet
    BY <2>1, enableRequestAlike
  <2> QED
    BY <1>1, <2>2 DEF t
<1>7. CASE m.type = "EnableRegResponse"
  <2>1. m \in EnableResponses /\ t = acceptEnableResponse(f, s, m)
    BY <1>7, ToFederateCases DEF acceptInternalMessage, t
  <2> DEFINE n == IF m.valid THEN Put(s.stamps, m.from, m.ts) ELSE s.stamps
             a == [s EXCEPT !.stamps = n, !.enableSet = @ \ {m.from}]
  <2>2. m.from \in Federates /\ m.ts \in Nat
    BY <2>1 DEF EnableResponses
  <2>3. IsMap(n, Federates, Nat)
    BY <2>2, Fields, PutMap
  <2>4. t = IF s.reg # "EnablePending" THEN s ELSE checkTimeRegulationEnabled(f, a)
    BY <2>1 DEF acceptEnableResponse
  <2> HIDE DEF n
  <2>5. IsState(a)
    <3>1. ASSUME NEW x \in SUBSET Federates PROVE IsState([s EXCEPT !.stamps = n, !.enableSet = x])
      BY <2>3 DEF IsState
    <3> QED
      BY <3>1, Fields
  <2> HIDE DEF a
  <2>6. StampsOK(checkTimeRegulationEnabled(f, a))
    BY <2>5, checkedStamps
  <2> QED
    BY <2>4, <2>6 DEF t
<1>8. CASE m.type = "DisableReg"
  <2>1. t = acceptDisableRequest(f, s, m)
    BY <1>8 DEF acceptInternalMessage, t
  <2>2. PICK a : Alike(s, a) /\ Quiet(f, a, t) /\ a.stamps = s.stamps /\ a.enableSet = s.enableSet
    BY <2>1, disableRequestAlike
  <2> QED
    BY <1>1, <2>2 DEF t
<1>9. CASE m.type = "Commit"
  <2>1. m \in CommitMessages /\ t = acceptCommit(f, s, m)
    BY <1>9, ToFederateCases DEF acceptInternalMessage, t
  <2>2. PICK a : Alike(s, a) /\ Quiet(f, a, t) /\ a.stamps = s.stamps /\ a.enableSet = s.enableSet
    BY <2>1, commitAlike
  <2> QED
    BY <1>1, <2>2 DEF t
<1>10. CASE m.type \in {"CommitResponse", "Locked", "Data"}
  <2>1. CASE m.type = "CommitResponse"
    <3>1. m \in CommitResponseMessages /\ t = acceptCommitResponse(f, s, m)
      BY <2>1, ToFederateCases DEF acceptInternalMessage, t
    <3> QED
      BY <3>1, commitResponseQuiet, QuietStamps DEF t
  <2>2. CASE m.type = "Locked"
    <3>1. m \in LockedMessages /\ t = acceptLocked(f, s, m)
      BY <2>2, ToFederateCases DEF acceptInternalMessage, t
    <3> QED
      BY <3>1, acceptLockedQuiet, QuietStamps DEF t
  <2>3. CASE m.type = "Data"
    <3>1. m \in DataMessages /\ t = acceptData(f, s, m)
      BY <2>3, ToFederateCases DEF acceptInternalMessage, t
    <3> QED
      BY <3>1, acceptDataQuiet, QuietStamps DEF t
  <2> QED
    BY <1>10, <2>1, <2>2, <2>3
<1> QED
  BY <1>2, <1>3, <1>4, <1>5, <1>6, <1>7, <1>8, <1>9, <1>10, ToFederateCases

-----------------------------------------------------------------------------
(* The server takes a message *)

\* Who is not a member has nobody in its map, and nothing is on the way to it.
LEMMA OutsideFacts ==
  ASSUME NEW F, NEW Q, NEW S, Protocol(F, Q, S), Sound(F, Q, S), NEW x \in Federates, x \notin S.members
  PROVE  Q[x] = <<>> /\ DOMAIN F[x].bounds = {} /\ F[x].reg = "Disabled"
<1>1. IsState(F[x]) /\ MemberOK(F, Q, S, x) /\ GoneOK(F[x])
  BY DEF Protocol, Types, Sound
<1>2. F[x].member \in {"out", "resigned"}
  BY <1>1 DEF IsState, MemberOK
<1>3. CASE F[x].member = "out"
  <2>1. F[x] = NewTimeManagement
    BY <1>1, <1>3 DEF MemberOK
  <2>2. DOMAIN NewTimeManagement.bounds = {} /\ NewTimeManagement.reg = "Disabled"
    BY DEF NewTimeManagement, EmptyMap
  <2> QED
    BY <1>1, <2>1, <2>2 DEF MemberOK
<1>4. CASE F[x].member = "resigned"
  BY <1>1, <1>4 DEF GoneOK, MemberOK
<1> QED
  BY <1>2, <1>3, <1>4

LEMMA ServedCovered ==
  ASSUME NEW F, NEW Q, NEW S, NEW f, NEW m, NEW F2, NEW Q2, NEW S2, Relays(F, Q, S, f, m, F2, Q2, S2),
         Sound(F, Q, S), NEW x \in Federates, NEW g \in Federates, x # g, NEW t,
         F[g].member # "resigned", Covered(F, Q, x, g, t)
  PROVE  Covered(F2, Q2, x, g, t)
<1>1. Served(F, Q, S, f, m, F2, Q2, S2)
  BY DEF Relays
<1>2. /\ f \in Federates /\ f \in S.members /\ F[f].sent \in Seq(ToServer) /\ F[f].sent # <<>>
      /\ m = Head(F[f].sent) /\ F2[f].sent = Tail(F[f].sent) /\ m \in ToServer /\ m \in Messages
      /\ m.type = "EnableRegResponse" => m.from = f /\ m.to # f
  BY <1>1, ServedFacts
<1>3. Protocol(F, Q, S)
  BY <1>1 DEF Served
<1>4. F2[g].cTA = F[g].cTA /\ F2[g].reg = F[g].reg /\ F2[g].stamps = F[g].stamps
  BY <1>1 DEF Relays, Served
<1>5. Q[g] \in Seq(ToFederate) /\ Grown(Q[g], Q2[g], m)
  BY <1>1, <1>3 DEF Served, Protocol, Types
<1>6. \A X : Some(Q[g], X) => Some(Q2[g], X)
  <2>1. CASE Q2[g] = Q[g]
    BY <2>1
  <2>2. CASE m \in ToFederate /\ Q2[g] = Append(Q[g], m)
    BY <1>5, <2>2, SomeAppend
  <2> QED
    BY <1>5, <2>1, <2>2 DEF Grown
<1>7. \A X : Some(F2[x].sent, X) => Some(F[x].sent, X)
  <2>1. CASE x = f
    BY <1>2, <2>1, SomeTail
  <2>2. CASE x # f
    BY <1>1, <2>2 DEF Served
  <2> QED
    BY <2>1, <2>2
<1>8. CASE t <= F[g].cTA
  BY <1>4, <1>8 DEF Covered
<1>9. CASE F[g].reg = "EnablePending" /\ Some(F[x].sent, Correcting(x, g, t))
  <2>1. CASE x # f
    <3>1. F2[x] = F[x]
      BY <1>1, <2>1 DEF Served
    <3> QED
      BY <1>4, <1>9, <3>1 DEF Covered
  <2>2. CASE x = f /\ Some(F2[f].sent, Correcting(x, g, t))
    BY <1>4, <1>9, <2>2 DEF Covered
  <2>3. CASE x = f /\ ~Some(F2[f].sent, Correcting(x, g, t))
    <3>1. m \in Correcting(x, g, t)
      BY <1>2, <1>9, <2>3, SomeTail
    <3>2. m.type = "EnableRegResponse" /\ m.to = g
      BY <3>1, CoveredTime
    <3>3. g \in S.members
      BY <1>3, <1>9, OutsideFacts
    <3>4. m \in ToFederate /\ Q2[g] = Append(Q[g], m)
      BY <3>2, <3>3 DEF Relays
    <3>5. Some(Q2[g], Correcting(x, g, t))
      BY <1>5, <3>1, <3>4, SomeAppend
    <3> QED
      BY <1>4, <1>9, <3>5 DEF Covered
  <2> QED
    BY <2>1, <2>2, <2>3
<1>10. CASE F[g].reg = "EnablePending" /\ Some(Q[g], Correcting(x, g, t))
  BY <1>4, <1>6, <1>10 DEF Covered
<1>11. CASE /\ F[g].reg = "EnablePending" /\ x \in DOMAIN F[g].stamps /\ t <= F[g].stamps[x]
            /\ ~Answering(F, x, g) /\ ~Answered(Q, x, g)
  <2>1. ~Answering(F2, x, g)
    BY <1>7, <1>11 DEF Answering
  <2>2. ~Answered(Q2, x, g)
    <3>1. SUFFICES ASSUME Answered(Q2, x, g) PROVE FALSE
      OBVIOUS
    <3>2. Q2[g] # Q[g]
      BY <1>11, <3>1 DEF Answered
    <3>3. m \in AnswerOf(x)
      BY <1>5, <1>11, <3>1, <3>2, GrownKeeps DEF Answered
    <3>4. m.type = "EnableRegResponse" /\ m.from = x
      BY <3>3 DEF AnswerOf
    <3>5. x = f /\ m.to = g
      BY <1>2, <3>2, <3>4 DEF Relays
    <3>6. m \in AnswerTo(g)
      BY <1>2, <3>4, <3>5 DEF AnswerTo
    <3>7. Some(F[x].sent, AnswerTo(g))
      BY <1>2, <3>5, <3>6, SomeTail
    <3> QED
      BY <1>11, <3>7 DEF Answering
  <2> QED
    BY <1>4, <1>11, <2>1, <2>2 DEF Covered
<1> QED
  BY <1>8, <1>9, <1>10, <1>11 DEF Covered

LEMMA ServedSound ==
  ASSUME NEW F, NEW Q, NEW S, NEW f, NEW m, NEW F2, NEW Q2, NEW S2, Relays(F, Q, S, f, m, F2, Q2, S2),
         Sound(F, Q, S)
  PROVE  Sound(F2, Q2, S2)
<1>1. Served(F, Q, S, f, m, F2, Q2, S2)
  BY DEF Relays
<1>2. /\ f \in Federates /\ f \in S.members /\ F[f].sent \in Seq(ToServer) /\ F[f].sent # <<>>
      /\ m = Head(F[f].sent) /\ F2[f].sent = Tail(F[f].sent) /\ m \in ToServer /\ m \in Messages
      /\ m.type \in {"EnableReg", "DisableReg", "Commit"} => m.fed = f
  BY <1>1, ServedFacts
<1>3. Protocol(F, Q, S) /\ IsServer(S) /\ \A x \in Federates : IsState(F[x]) /\ Q[x] \in Seq(ToFederate)
  BY <1>1 DEF Served, Protocol, Types
<1>4. \A g \in Federates : /\ F2[g].cTA = F[g].cTA /\ F2[g].reg = F[g].reg /\ F2[g].member = F[g].member
                           /\ F2[g].bounds = F[g].bounds
  BY <1>1 DEF Relays, Served
<1>5. m \in Off(f) <=> m.type = "DisableReg"
  BY <1>2, ToServerKinds DEF Off, Of
<1>6. \A g : g # f => m \notin Off(g) /\ \A c : m \in UpTo(g, c)
  BY <1>2, <1>5, ToServerKinds DEF Off, On, Of, UpTo
<1>7. \A X : Some(F[f].sent, X) <=> m \in X \/ Some(F2[f].sent, X)
  BY <1>2, SomeTail
<1>8. F[f].member # "resigned" => /\ Settled(F2[f].sent, UpTo(f, F[f].cTA), Off(f))
                                  /\ ~Some(F2[f].sent, Off(f)) => m \in UpTo(f, F[f].cTA)
  <2>1. SUFFICES ASSUME F[f].member # "resigned"
                 PROVE  /\ Settled(F2[f].sent, UpTo(f, F[f].cTA), Off(f))
                        /\ ~Some(F2[f].sent, Off(f)) => m \in UpTo(f, F[f].cTA)
    OBVIOUS
  <2>2. Settled(F[f].sent, UpTo(f, F[f].cTA), Off(f))
    BY <1>2, <2>1 DEF Sound, SentOK
  <2> QED
    BY <1>2, <2>2, SettledTail
<1>9. ASSUME NEW g \in Federates PROVE SentOK(F2, S2, g)
  <2>0. SentOK(F, S, g)
    BY DEF Sound
  <2>1. CASE g # f
    <3>1. F2[g] = F[g] /\ (g \in S2.regulating => g \in S.regulating /\ S2.ta[g] = S.ta[g])
      BY <1>1, <2>1 DEF Served, Relays
    <3> QED
      BY <2>0, <3>1 DEF SentOK
  <2>2. CASE g = f
    <3>1. SUFFICES ASSUME F[f].member # "resigned" PROVE SentOK(F2, S2, f)
      BY <1>4, <2>2 DEF SentOK
    <3>2. ASSUME f \in S2.regulating, ~Some(F2[f].sent, Off(f)) PROVE S2.ta[f] <= F[f].cTA
      <4>1. m \notin Off(f)
        BY <1>1, <1>5, <3>2 DEF Served
      <4>2. ~Some(F[f].sent, Off(f))
        BY <1>7, <3>2, <4>1
      <4>3. CASE f \in S.regulating /\ S2.ta[f] = S.ta[f]
        BY <2>0, <2>2, <3>1, <4>2, <4>3 DEF SentOK
      <4>4. CASE /\ S2.ta[f] = m.ts
                 /\ m.type = "EnableReg" \/ (m.type = "Commit" /\ "TA" \in m.ct)
        <5>1. m \in On(f) \/ (m \in Of("Commit", f) /\ "TA" \in m.ct)
          BY <1>2, <4>4 DEF On, Of
        <5>2. m \in UpTo(f, F[f].cTA)
          BY <1>8, <3>1, <3>2
        <5> QED
          BY <4>4, <5>1, <5>2 DEF UpTo
      <4> QED
        BY <3>2, <4>3, <4>4 DEF Relays
    <3> QED
      BY <1>2, <1>4, <1>8, <3>1, <3>2 DEF SentOK
  <2> QED
    BY <2>1, <2>2
<1>10. ASSUME NEW g \in Federates PROVE GoneOK(F2[g]) /\ JoiningOK(F2[g], Q2[g])
  <2>1. GoneOK(F[g]) /\ JoiningOK(F[g], Q[g])
    BY DEF Sound
  <2>2. Grown(Q[g], Q2[g], m)
    BY <1>1 DEF Served
  <2>3. \A X, Y : Ahead(Q[g], X, Y) => Ahead(Q2[g], X, Y)
    BY <1>3, <2>2, GrownKeeps
  <2> QED
    BY <1>4, <2>1, <2>3 DEF GoneOK, JoiningOK
<1>11. ASSUME NEW x \in Federates, NEW g \in Federates PROVE ValueOK(F2, Q2, x, g)
  <2>1. SUFFICES ASSUME x # g, F[g].member # "resigned", ~Some(F2[g].sent, Off(g))
                 PROVE  /\ Settled(Q2[x], UpTo(g, F[g].cTA), Off(g))
                        /\ g \in DOMAIN F[x].bounds /\ ~Some(Q2[x], Off(g))
                           => Covered(F2, Q2, x, g, F[x].bounds[g].ta)
    BY <1>4 DEF ValueOK
  <2>2. Q[x] \in Seq(ToFederate) /\ Grown(Q[x], Q2[x], m) /\ (x \notin S.members => Q2[x] = Q[x])
    BY <1>1, <1>3 DEF Served
  <2>3. ValueOK(F, Q, x, g)
    BY DEF Sound
  <2>4. CASE m \notin Off(g)
    <3>1. ~Some(F[g].sent, Off(g))
      <4>1. CASE g = f
        BY <1>7, <2>1, <2>4, <4>1
      <4>2. CASE g # f
        BY <1>1, <2>1, <4>2 DEF Served
      <4> QED
        BY <4>1, <4>2
    <3>2. m \in UpTo(g, F[g].cTA)
      BY <1>6, <1>8, <2>1
    <3>3. Settled(Q[x], UpTo(g, F[g].cTA), Off(g))
      BY <2>1, <2>3, <3>1 DEF ValueOK
    <3>4. Settled(Q2[x], UpTo(g, F[g].cTA), Off(g))
      <4>1. CASE Q2[x] = Q[x]
        BY <3>3, <4>1
      <4>2. CASE m \in ToFederate /\ Q2[x] = Append(Q[x], m)
        BY <2>2, <3>2, <3>3, <4>2, SettledAppend
      <4> QED
        BY <2>2, <4>1, <4>2 DEF Grown
    <3>5. ASSUME g \in DOMAIN F[x].bounds, ~Some(Q2[x], Off(g))
          PROVE  Covered(F2, Q2, x, g, F[x].bounds[g].ta)
      <4>1. ~Some(Q[x], Off(g))
        BY <2>2, <2>4, <3>5, GrownKeeps
      <4>2. Covered(F, Q, x, g, F[x].bounds[g].ta)
        BY <2>1, <2>3, <3>1, <3>5, <4>1 DEF ValueOK
      <4> QED
        BY <2>1, <4>2, ServedCovered
    <3> QED
      BY <3>4, <3>5
  <2>5. CASE m \in Off(g)
    <3>1. g = f /\ m.type = "DisableReg"
      BY <1>5, <1>6, <2>5
    <3>2. CASE x \in S.members
      <4>1. m \in ToFederate /\ Q2[x] = Append(Q[x], m)
        BY <2>1, <3>1, <3>2 DEF Relays
      <4>2. m \in UpTo(g, F[g].cTA)
        BY <1>2, <3>1 DEF UpTo, On, Of
      <4>3. Settled(Q2[x], UpTo(g, F[g].cTA), Off(g))
        BY <2>2, <2>5, <4>1, <4>2, SettledAppend
      <4>4. Some(Q2[x], Off(g))
        BY <2>2, <2>5, <4>1, SomeAppend
      <4> QED
        BY <4>3, <4>4
    <3>3. CASE x \notin S.members
      <4>1. Q[x] = <<>> /\ DOMAIN F[x].bounds = {}
        BY <1>3, <3>3, OutsideFacts
      <4> QED
        BY <2>2, <3>3, <4>1, SettledNone
    <3> QED
      BY <3>2, <3>3
  <2> QED
    BY <2>4, <2>5
<1> QED
  BY <1>9, <1>10, <1>11 DEF Sound

\* f has resigned: all others are told.
LEMMA ResignedSound ==
  ASSUME NEW F, NEW Q, NEW S, NEW f, NEW F2, NEW Q2, NEW S2, Resigned(F, Q, S, f, F2, Q2, S2),
         Sound(F, Q, S), \A g \in S2.regulating : S2.ta[g] = S.ta[g]
  PROVE  Sound(F2, Q2, S2)
<1>1. f \in Federates /\ F2[f].member = "resigned" /\ F2[f].reg = "Disabled"
  BY ResignedFacts
<1>2. Q2[f] = <<>> /\ F2[f].bounds = F[f].bounds /\ F[f].member = "resigned"
  BY <1>1 DEF Resigned
<1>3. DOMAIN F2[f].bounds = {}
  BY <1>1, <1>2 DEF Sound, GoneOK
<1>4. \A g \in Federates \ {f} : F2[g] = F[g]
  BY DEF Resigned
<1>5. ASSUME NEW g \in Federates PROVE SentOK(F2, S2, g) /\ GoneOK(F2[g]) /\ JoiningOK(F2[g], Q2[g])
  <2>1. CASE g = f
    BY <1>1, <1>3, <2>1 DEF SentOK, GoneOK, JoiningOK
  <2>2. CASE g # f
    <3>1. F2[g] = F[g] /\ SentOK(F, S, g) /\ GoneOK(F[g]) /\ JoiningOK(F[g], Q[g])
      BY <1>4, <2>2 DEF Sound
    <3>2. g \in S2.regulating => g \in S.regulating /\ S2.ta[g] = S.ta[g]
      BY DEF Resigned
    <3>3. SentOK(F2, S2, g)
      BY <3>1, <3>2 DEF SentOK
    <3>4. \A X, Y : Ahead(Q[g], X, Y) => Ahead(Q2[g], X, Y)
      BY <2>2, ResignedQueues
    <3> QED
      BY <3>1, <3>3, <3>4 DEF JoiningOK
  <2> QED
    BY <2>1, <2>2
<1>6. ASSUME NEW x \in Federates, NEW g \in Federates PROVE ValueOK(F2, Q2, x, g)
  <2>1. CASE g = f
    BY <1>1, <2>1 DEF ValueOK
  <2>2. CASE x = f
    BY <1>2, <1>3, <2>2, SettledNone DEF ValueOK
  <2>3. CASE g # f /\ x # f
    <3>1. F2[g] = F[g] /\ F2[x] = F[x] /\ ValueOK(F, Q, x, g)
      BY <1>4, <2>3 DEF Sound
    <3>2. /\ DisableRequest(f) \in ToFederate /\ ResignNotify(f) \in ToFederate
          /\ DisableRequest(f) \notin Off(g) /\ ResignNotify(f) \notin Off(g)
          /\ DisableRequest(f) \notin AnswerOf(x) /\ ResignNotify(f) \notin AnswerOf(x)
          /\ \A c : DisableRequest(f) \in UpTo(g, c) /\ ResignNotify(f) \in UpTo(g, c)
      <4>1. /\ DisableRequest(f) \in ToFederate /\ ResignNotify(f) \in ToFederate
            /\ DisableRequest(f) \notin Off(g) /\ ResignNotify(f) \notin Off(g)
            /\ DisableRequest(f) \notin AnswerOf(x) /\ ResignNotify(f) \notin AnswerOf(x)
            /\ DisableRequest(f) \notin On(g) /\ ResignNotify(f) \notin On(g)
            /\ DisableRequest(f) \notin Of("Commit", g) /\ ResignNotify(f) \notin Of("Commit", g)
        BY <1>1, <2>3, ResignMessages
      <4> QED
        BY <4>1, MessageIn DEF UpTo
    <3>3. Q[x] \in Seq(ToFederate)
      BY DEF Resigned, Protocol, Types
    <3>4. ASSUME NEW c, Settled(Q[x], UpTo(g, c), Off(g)) PROVE Settled(Q2[x], UpTo(g, c), Off(g))
      <4>1. CASE Q2[x] = Q[x]
        BY <3>4, <4>1
      <4>2. CASE Q2[x] = Append(Q[x], ResignNotify(f))
        BY <3>2, <3>3, <3>4, <4>2, SettledAppend
      <4>3. CASE Q2[x] = Append(Append(Q[x], DisableRequest(f)), ResignNotify(f))
        <5>1. PICK q : q = Append(Q[x], DisableRequest(f))
          OBVIOUS
        <5>2. q \in Seq(ToFederate)
          BY <3>2, <3>3, <5>1, AppendAt
        <5>3. Settled(q, UpTo(g, c), Off(g))
          BY <3>2, <3>3, <3>4, <5>1, SettledAppend
        <5> QED
          BY <3>2, <4>3, <5>1, <5>2, <5>3, SettledAppend
      <4> QED
        BY <2>3, <4>1, <4>2, <4>3 DEF Resigned, Told
    <3>5. Some(Q2[x], Off(g)) <=> Some(Q[x], Off(g))
      BY <2>3, <3>2, ResignedQueues
    <3>6. Some(Q2[g], AnswerOf(x)) <=> Some(Q[g], AnswerOf(x))
      BY <2>3, <3>2, ResignedQueues
    <3>7. \A t : Some(Q2[g], Correcting(x, g, t)) <=> Some(Q[g], Correcting(x, g, t))
      <4>1. \A t : DisableRequest(f) \notin Correcting(x, g, t) /\ ResignNotify(f) \notin Correcting(x, g, t)
        BY <3>2, CoveredTime
      <4> QED
        BY <2>3, <4>1, ResignedQueues
    <3>8. ASSUME NEW t, Covered(F, Q, x, g, t) PROVE Covered(F2, Q2, x, g, t)
      BY <3>1, <3>6, <3>7, <3>8, CoverSame
    <3> QED
      BY <3>1, <3>4, <3>5, <3>8 DEF ValueOK
  <2> QED
    BY <2>1, <2>2, <2>3
<1> QED
  BY <1>5, <1>6 DEF Sound

\* What a new member is told of the others is what they promised to the server.
Informed(S, q) ==
  /\ Ahead(q, Typed("JoinResponse"), Offs) /\ ~Some(q, Offs) /\ ~Some(q, Typed("Data"))
  /\ \A i \in DOMAIN q, g \in Federates :
       /\ q[i] \in On(g) => g \in S.regulating /\ q[i].ts = S.ta[g]
       /\ q[i] \in Of("Commit", g) => "TA" \notin q[i].ct

LEMMA JoinedSound ==
  ASSUME NEW F, NEW Q, NEW S, NEW f, NEW F2, NEW Q2, NEW S2, Joined(F, Q, S, f, F2, Q2, S2),
         Sound(F, Q, S), Informed(S, Q2[f]), S2.ta = S.ta
  PROVE  Sound(F2, Q2, S2)
<1>1. /\ f \in Federates /\ f \notin S.members /\ f \notin S.regulating
      /\ F2[f].member = "joining" /\ F2[f].sent = <<>> /\ DOMAIN F2[f].bounds = {} /\ F[f].member = "out"
  BY JoinedFacts
<1>2. \A g \in Federates \ {f} : F2[g] = F[g]
  BY DEF Joined
<1>3. Protocol(F, Q, S) /\ S2.regulating = S.regulating /\ Q2[f] \in Seq(ToFederate)
      /\ \A g \in Federates : ~Some(Q2[f], AnswerOf(g))
  BY DEF Joined, Pushed
<1>4. \A g \in Federates : IsState(F[g]) /\ Q[g] \in Seq(ToFederate)
  BY <1>3 DEF Protocol, Types
<1>5. F2[f].cTA = F[f].cTA /\ F2[f].reg = F[f].reg /\ F2[f].stamps = F[f].stamps /\ F2[f].sent = F[f].sent
  <2>1. IsState(F[f])
    BY <1>1, <1>4
  <2>2. F2[f] = [F[f] EXCEPT !.member = "joining"]
    BY DEF Joined
  <2> QED
    BY <2>1, <2>2 DEF IsState
<1>6. Q[f] = <<>>
  BY <1>1, <1>3, OutsideFacts
<1>7. ASSUME NEW g \in Federates PROVE SentOK(F2, S2, g) /\ GoneOK(F2[g]) /\ JoiningOK(F2[g], Q2[g])
  <2>1. CASE g = f
    <3>1. SentOK(F2, S2, f)
      BY <1>1, <1>3, SettledNone DEF SentOK
    <3> QED
      BY <1>1, <2>1, <3>1 DEF GoneOK, JoiningOK, Informed
  <2>2. CASE g # f
    <3>1. F2[g] = F[g] /\ SentOK(F, S, g) /\ GoneOK(F[g]) /\ JoiningOK(F[g], Q[g])
      BY <1>2, <2>2 DEF Sound
    <3>2. SentOK(F2, S2, g)
      BY <1>3, <3>1 DEF SentOK
    <3>3. \A X, Y : Ahead(Q[g], X, Y) => Ahead(Q2[g], X, Y)
      BY <2>2, JoinedQueues
    <3> QED
      BY <3>1, <3>2, <3>3 DEF JoiningOK
  <2> QED
    BY <2>1, <2>2
<1>8. ASSUME NEW x \in Federates, NEW g \in Federates PROVE ValueOK(F2, Q2, x, g)
  <2>1. SUFFICES ASSUME x # g, F2[g].member # "resigned", ~Some(F2[g].sent, Off(g))
                 PROVE  /\ Settled(Q2[x], UpTo(g, F2[g].cTA), Off(g))
                        /\ g \in DOMAIN F2[x].bounds /\ ~Some(Q2[x], Off(g))
                           => Covered(F2, Q2, x, g, F2[x].bounds[g].ta)
    BY DEF ValueOK
  <2>2. CASE x = f
    <3>1. F2[g] = F[g] /\ SentOK(F, S, g)
      BY <1>2, <2>1, <2>2 DEF Sound
    <3>2. ASSUME NEW i \in DOMAIN Q2[f] PROVE Q2[f][i] \in UpTo(g, F2[g].cTA)
      <4>1. Q2[f][i] \in Messages
        BY <1>3, MessageIn
      <4>2. g \in S.regulating => S.ta[g] <= F[g].cTA
        BY <2>1, <3>1 DEF SentOK
      <4> QED
        BY <3>1, <4>1, <4>2 DEF UpTo, Informed
    <3> QED
      BY <1>1, <2>2, <3>2 DEF Settled
  <2>3. CASE x # f
    <3>1. F2[x] = F[x] /\ ValueOK(F, Q, x, g) /\ F2[g].cTA = F[g].cTA /\ F2[g].reg = F[g].reg
          /\ F2[g].stamps = F[g].stamps /\ F2[g].sent = F[g].sent /\ F[g].member # "resigned"
      <4>1. CASE g = f
        BY <1>1, <1>2, <1>5, <2>3, <4>1 DEF Sound
      <4>2. CASE g # f
        BY <1>2, <2>1, <2>3, <4>2 DEF Sound
      <4> QED
        BY <4>1, <4>2
    <3>2. /\ JoinNotify(f) \in ToFederate /\ JoinNotify(f) \notin Off(g) /\ JoinNotify(f) \notin AnswerOf(x)
          /\ JoinNotify(f) \in UpTo(g, F[g].cTA)
      BY <1>1, JoinMessage DEF UpTo
    <3>3. Settled(Q[x], UpTo(g, F[g].cTA), Off(g))
      BY <2>1, <3>1 DEF ValueOK
    <3>4. Settled(Q2[x], UpTo(g, F[g].cTA), Off(g))
      <4>1. CASE Q2[x] = Q[x]
        BY <3>3, <4>1
      <4>2. CASE Q2[x] = Append(Q[x], JoinNotify(f))
        BY <1>4, <3>2, <3>3, <4>2, SettledAppend
      <4> QED
        BY <2>3, <4>1, <4>2 DEF Joined
    <3>5. Some(Q2[x], Off(g)) <=> Some(Q[x], Off(g))
      BY <2>3, <3>2, JoinedQueues
    <3>6. Some(Q2[g], AnswerOf(x)) => Some(Q[g], AnswerOf(x))
      <4>1. CASE g = f
        BY <1>3, <4>1
      <4>2. CASE g # f
        BY <3>2, <4>2, JoinedQueues
      <4> QED
        BY <4>1, <4>2
    <3>7. \A t : Some(Q[g], Correcting(x, g, t)) => Some(Q2[g], Correcting(x, g, t))
      <4>1. CASE g = f
        BY <1>6, <4>1, EmptyQueue DEF Some
      <4>2. CASE g # f
        <5>1. \A t : JoinNotify(f) \notin Correcting(x, g, t)
          BY <3>2, CoveredTime
        <5> QED
          BY <4>2, <5>1, JoinedQueues
      <4> QED
        BY <4>1, <4>2
    <3>8. ASSUME NEW t, Covered(F, Q, x, g, t) PROVE Covered(F2, Q2, x, g, t)
      BY <3>1, <3>6, <3>7, <3>8, CoverSame
    <3> QED
      BY <2>1, <3>1, <3>4, <3>5, <3>8 DEF ValueOK
  <2> QED
    BY <2>2, <2>3
<1> QED
  BY <1>7, <1>8 DEF Sound

-----------------------------------------------------------------------------
(* The steps *)

\* What holds of the bounds at all times, beyond the protocol
Guaranteed ==
  /\ Consistent
  /\ Sound(fed, toFed, server)
  /\ \A g \in Federates : StampsOK(fed[g])

Guarantees == Sound(fed', toFed', server') /\ \A g \in Federates : StampsOK(fed'[g])

LEMMA quietGuarantees ==
  ASSUME Guaranteed, NEW f \in Federates, fed[f].member = "in", NEW s, Quiet(f, fed[f], s),
         fed' = [fed EXCEPT ![f] = s], toFed' = toFed, server' = server
  PROVE  Guarantees
<1>1. fed'[f] = s /\ \A x \in Federates \ {f} : fed'[x] = fed[x]
  BY fedChanges DEF Guaranteed, Consistent
<1>2. Types(fed, toFed, server) /\ Sound(fed, toFed, server) /\ StampsOK(fed[f])
  BY DEF Guaranteed, Consistent, Protocol
<1>3. Steady(f, fed[f], fed'[f]) /\ fed[f].member # "resigned"
  BY <1>1, QuietSteady
<1>4. Sound(fed', toFed, server)
  BY <1>1, <1>2, <1>3, SteadySound
<1>5. StampsOK(fed'[f])
  BY <1>1, <1>2, QuietStamps
<1> QED
  BY <1>1, <1>4, <1>5 DEF Guaranteed, Guarantees

LEMMA enableRegulationGuarantees ==
  ASSUME Guaranteed, NEW f \in Federates, fed[f].member = "in", fed[f].reg = "Disabled",
         NEW t \in Nat, NEW la \in Nat, Called(f, _enableTimeRegulation(f, fed[f], t, la))
  PROVE  Guarantees
<1>1. fed[f].member # "resigned" /\ IsState(fed[f]) /\ LocalOK(fed[f]) /\ fed[f].cTA = 0
  BY memberFacts DEF Guaranteed, LocalOK
<1>2. PICK u : u = _enableTimeRegulation(f, fed[f], t, la)
  OBVIOUS
<1>3. /\ toFed' = toFed /\ server' = server
      /\ fed'[f] = u /\ \A x \in Federates \ {f} : fed'[x] = fed[x]
  BY <1>2, fedChanges DEF Called, Guaranteed, Consistent
<1>4. PICK s : s = fed[f]
  OBVIOUS
<1>5. PICK a, m :
           /\ IsState(a) /\ LocalOK(a) /\ Quiet(f, a, u)
           /\ a.member = s.member /\ a.known = s.known /\ a.con = s.con /\ a.bounds = s.bounds
           /\ a.reg = "EnablePending" /\ a.enableSet = s.known \cup {f} /\ a.stamps = s.stamps
           /\ m \in EnableRequests /\ m.fed = f /\ m.ts = a.cTA
           /\ a.sent = Append(s.sent, m)
  <2>1. IsState(s) /\ LocalOK(s) /\ s.reg = "Disabled" /\ u = _enableTimeRegulation(f, s, t, la)
    BY <1>1, <1>2, <1>4
  <2>2. Asks(f, s, u)
    BY <2>1, enableTimeRegulationAsks
  <2> QED
    BY <2>2 DEF Asks
<1>6. PICK F2 : F2 = [x \in Federates |-> IF x = f THEN a ELSE fed[x]]
  OBVIOUS
<1>7. F2[f] = a /\ \A x \in Federates \ {f} : F2[x] = fed[x]
  BY <1>6
<1>8. Types(fed, toFed, server) /\ Sound(fed, toFed, server)
  BY DEF Guaranteed, Consistent, Protocol
<1>9. a.cTA \in Nat
  BY <1>5, Fields
<1>10. m \in ToServer /\ m.type # "EnableRegResponse" /\ m \in UpTo(f, a.cTA)
  <2>1. m \in ToServer /\ m \in Messages /\ m.type = "EnableReg" /\ m.ts \in Nat
    BY <1>5 DEF EnableRequests, ToServer, Relayed, Messages
  <2> QED
    BY <1>5, <1>9, <2>1 DEF UpTo
<1>11. ASSUME NEW x \in Federates \ {f}, NEW b \in Nat, Covered(fed, toFed, x, f, b)
       PROVE  Covered(F2, toFed, x, f, b)
  <2>1. b <= 0
    BY <1>1, <1>11 DEF Covered
  <2> QED
    BY <1>7, <1>9, <2>1 DEF Covered
<1>12. Sound(F2, toFed, server) /\ Types(F2, toFed, server)
  <2>1. PICK F : F = fed
    OBVIOUS
  <2>2. /\ Types(F, toFed, server) /\ Sound(F, toFed, server) /\ F[f].member # "resigned"
        /\ (\A x \in Federates \ {f} : F2[x] = F[x]) /\ IsState(F2[f])
        /\ F2[f].member = F[f].member /\ F2[f].bounds = F[f].bounds
        /\ m \in ToServer /\ F2[f].sent = Append(F[f].sent, m)
        /\ m.type # "EnableRegResponse" /\ m \in UpTo(f, F2[f].cTA)
        /\ F[f].cTA <= F2[f].cTA
    BY <1>1, <1>4, <1>5, <1>7, <1>8, <1>9, <1>10, <2>1
  <2>3. \A x \in Federates \ {f}, b \in Nat : Covered(F, toFed, x, f, b) => Covered(F2, toFed, x, f, b)
    BY <1>11, <2>1
  <2>4. Sound(F2, toFed, server)
    BY <2>2, <2>3, CallSound
  <2>5. Types(F2, toFed, server)
    BY <2>2 DEF Types
  <2> QED
    BY <2>4, <2>5
<1>13. Steady(f, F2[f], fed'[f]) /\ F2[f].member # "resigned" /\ \A x \in Federates \ {f} : fed'[x] = F2[x]
  BY <1>1, <1>3, <1>4, <1>5, <1>7, QuietSteady
<1>14. Sound(fed', toFed, server)
  BY <1>12, <1>13, SteadySound
<1>15. StampsOK(fed'[f])
  <2>1. StampsOK(a)
    BY <1>5 DEF StampsOK
  <2> QED
    BY <1>3, <1>5, <2>1, QuietStamps
<1> QED
  BY <1>3, <1>14, <1>15 DEF Guaranteed, Guarantees

LEMMA disableRegulationGuarantees ==
  ASSUME Guaranteed, NEW f \in Federates, fed[f].member = "in", fed[f].reg = "Enabled",
         Called(f, disableTimeRegulation(f, fed[f]))
  PROVE  Guarantees
<1>1. fed[f].member # "resigned" /\ IsState(fed[f]) /\ LocalOK(fed[f])
  BY memberFacts DEF Guaranteed
<1>2. PICK t : t = disableTimeRegulation(f, fed[f])
  OBVIOUS
<1>3. /\ toFed' = toFed /\ server' = server
      /\ fed'[f] = t /\ \A x \in Federates \ {f} : fed'[x] = fed[x]
  BY <1>2, fedChanges DEF Called, Guaranteed, Consistent
<1>4. PICK s : s = fed[f]
  OBVIOUS
<1>5. /\ IsState(t) /\ t.member = s.member /\ t.bounds = s.bounds
      /\ t.reg = "Disabled" /\ t.sent = Append(s.sent, DisableRequest(f))
  BY <1>1, <1>2, <1>4, disableTimeRegulationSends
<1>6. PICK m : m = DisableRequest(f)
  OBVIOUS
<1>7. m \in ToServer /\ m.type # "EnableRegResponse" /\ m \in Off(f) /\ m \in UpTo(f, t.cTA)
  <2>1. m \in ToServer /\ m.type = "DisableReg" /\ m.fed = f
    BY <1>6 DEF DisableRequest, ToServer, Notices
  <2> QED
    BY <2>1 DEF Messages, Off, Of, On, UpTo
<1>8. Types(fed, toFed, server) /\ Sound(fed, toFed, server)
  BY DEF Guaranteed, Consistent, Protocol
<1>9. Sound(fed', toFed, server)
  BY <1>1, <1>3, <1>4, <1>5, <1>6, <1>7, <1>8, CallSound
<1>10. StampsOK(fed'[f])
  BY <1>3, <1>5 DEF StampsOK
<1> QED
  BY <1>3, <1>9, <1>10 DEF Guaranteed, Guarantees

LEMMA constrainedGuarantees ==
  ASSUME Guaranteed, NEW f \in Federates, fed[f].member = "in",
         \/ fed[f].con = "Disabled" /\ Called(f, enableTimeConstrained(f, fed[f]))
         \/ fed[f].con = "Enabled" /\ Called(f, disableTimeConstrained(f, fed[f]))
  PROVE  Guarantees
<1>1. fed[f].member # "resigned" /\ IsState(fed[f]) /\ LocalOK(fed[f])
  BY memberFacts DEF Guaranteed
<1>2. PICK t : /\ Called(f, t)
               /\ \/ fed[f].con = "Disabled" /\ t = enableTimeConstrained(f, fed[f])
                  \/ fed[f].con = "Enabled" /\ t = disableTimeConstrained(f, fed[f])
  OBVIOUS
<1>3. /\ toFed' = toFed /\ server' = server
      /\ fed'[f] = t /\ \A x \in Federates \ {f} : fed'[x] = fed[x]
  BY <1>2, fedChanges DEF Called, Guaranteed, Consistent
<1>4. PICK s : s = fed[f]
  OBVIOUS
<1>5. PICK m \in Notices({"EnableCon", "DisableCon"}) :
        /\ IsState(t) /\ t.member = s.member /\ t.bounds = s.bounds
        /\ t.reg = s.reg /\ t.enableSet = s.enableSet /\ t.stamps = s.stamps /\ t.cTA = s.cTA
        /\ t.sent = Append(s.sent, m)
  <2>0. /\ ConstrainedNotify(f) \in Notices({"EnableCon", "DisableCon"})
        /\ UnconstrainedNotify(f) \in Notices({"EnableCon", "DisableCon"})
    BY DEF ConstrainedNotify, UnconstrainedNotify, Notices
  <2>1. CASE s.con = "Disabled" /\ t = enableTimeConstrained(f, s)
    <3>1. /\ IsState(t) /\ t.member = s.member /\ t.bounds = s.bounds
          /\ t.reg = s.reg /\ t.enableSet = s.enableSet /\ t.stamps = s.stamps /\ t.cTA = s.cTA
          /\ t.sent = Append(s.sent, ConstrainedNotify(f))
      BY <1>1, <1>4, <2>1, enableTimeConstrainedSends
    <3> QED
      BY <2>0, <3>1
  <2>2. CASE s.con = "Enabled" /\ t = disableTimeConstrained(f, s)
    <3>1. /\ IsState(t) /\ t.member = s.member /\ t.bounds = s.bounds
          /\ t.reg = s.reg /\ t.enableSet = s.enableSet /\ t.stamps = s.stamps /\ t.cTA = s.cTA
          /\ t.sent = Append(s.sent, UnconstrainedNotify(f))
      BY <1>1, <1>4, <2>2, disableTimeConstrainedSends
    <3> QED
      BY <2>0, <3>1
  <2> QED
    BY <1>2, <1>4, <2>1, <2>2
<1>6. m \in ToServer /\ m.type # "EnableRegResponse" /\ m \in UpTo(f, t.cTA) /\ m \notin AnswerTo(f)
  <2>1. m \in ToServer /\ m.type \in {"EnableCon", "DisableCon"}
    BY DEF ToServer, Notices
  <2> QED
    BY <2>1 DEF Messages, Of, On, UpTo, AnswerTo
<1>7. Types(fed, toFed, server) /\ Sound(fed, toFed, server) /\ StampsOK(fed[f])
  BY DEF Guaranteed, Consistent, Protocol
<1>8. ASSUME NEW x \in Federates \ {f}, NEW b \in Nat, Covered(fed, toFed, x, f, b)
      PROVE  Covered(fed', toFed, x, f, b)
  BY <1>3, <1>4, <1>5, <1>8 DEF Covered, Answering
<1>9. Sound(fed', toFed, server)
  <2>1. PICK F, F2 : F = fed /\ F2 = fed'
    OBVIOUS
  <2>2. /\ Types(F, toFed, server) /\ Sound(F, toFed, server) /\ F[f].member # "resigned"
        /\ (\A x \in Federates \ {f} : F2[x] = F[x]) /\ IsState(F2[f])
        /\ F2[f].member = F[f].member /\ F2[f].bounds = F[f].bounds
        /\ m \in ToServer /\ F2[f].sent = Append(F[f].sent, m)
        /\ m.type # "EnableRegResponse" /\ m \in UpTo(f, F2[f].cTA)
        /\ F[f].cTA <= F2[f].cTA
    <3>1. fed[f].cTA \in Nat
      BY <1>1, Fields
    <3> QED
      BY <1>1, <1>3, <1>4, <1>5, <1>6, <1>7, <2>1, <3>1
  <2>3. \A x \in Federates \ {f}, b \in Nat : Covered(F, toFed, x, f, b) => Covered(F2, toFed, x, f, b)
    BY <1>8, <2>1
  <2>4. Sound(F2, toFed, server)
    BY <2>2, <2>3, CallSound
  <2> QED
    BY <2>1, <2>4
<1>10. StampsOK(fed'[f])
  BY <1>3, <1>4, <1>5, <1>7 DEF StampsOK
<1> QED
  BY <1>3, <1>9, <1>10 DEF Guaranteed, Guarantees

LEMMA resignGuarantees ==
  ASSUME Guaranteed, NEW f \in Federates, Resign(f)
  PROVE  Guarantees
<1>1. PICK t : t = [NewTimeManagement EXCEPT !.member = "resigned",
                      !.sent = Append(fed[f].sent, [type |-> "Resign", fed |-> f])]
  OBVIOUS
<1>2. /\ toFed' = toFed /\ server' = server
      /\ fed'[f] = t /\ \A x \in Federates \ {f} : fed'[x] = fed[x]
  BY <1>1, fedChanges DEF Resign, Called, Guaranteed, Consistent
<1>3. t.member = "resigned" /\ t.reg = "Disabled" /\ DOMAIN t.bounds = {}
  BY <1>1 DEF NewTimeManagement, EmptyMap
<1>4. Sound(fed', toFed, server)
  BY <1>2, <1>3, ResignSound DEF Guaranteed
<1>5. StampsOK(fed'[f])
  BY <1>2, <1>3 DEF StampsOK
<1> QED
  BY <1>2, <1>4, <1>5 DEF Guaranteed, Guarantees

LEMMA callGuarantees ==
  ASSUME Guaranteed, NEW f \in Federates, Call(f)
  PROVE  Guarantees
<1>1. CallCases(f)
  BY callCases DEF Guaranteed
<1>2. ASSUME fed[f].member = "in", NEW s, Called(f, s), Quiet(f, fed[f], s) PROVE Guarantees
  <2>1. fed' = [fed EXCEPT ![f] = s] /\ toFed' = toFed /\ server' = server
    BY <1>2 DEF Called
  <2> QED
    BY <1>2, <2>1, quietGuarantees
<1>3. ASSUME fed[f].member = "in", fed[f].reg = "Disabled", NEW t \in Nat, NEW la \in Nat,
             Called(f, _enableTimeRegulation(f, fed[f], t, la))
      PROVE  Guarantees
  BY <1>3, enableRegulationGuarantees
<1> QED
  BY <1>1, <1>2, <1>3, disableRegulationGuarantees, constrainedGuarantees, resignGuarantees DEF CallCases

LEMMA dispatchGuarantees ==
  ASSUME Guaranteed, NEW f \in Federates, DispatchReceiveOrder(f) \/ DispatchTimeStampOrder(f)
  PROVE  Guarantees
<1>1. Consistent /\ DispatchCases(f)
  BY dispatchCases DEF Guaranteed
<1>2. fed[f].member = "in" /\ toFed' = toFed /\ server' = server
  BY <1>1 DEF DispatchCases
<1>3. PICK s, r : /\ fed' = [fed EXCEPT ![f] = r] /\ IsState(r) /\ LocalOK(r)
                  /\ Quiet(f, fed[f], s)
                  /\ r = s \/ Confirms(s, r)
  BY <1>1 DEF DispatchCases
<1>4. f \in server.members /\ fed[f].member # "resigned"
  BY <1>1, <1>2, memberFacts
<1>5. CASE r = s
  BY <1>2, <1>3, <1>5, quietGuarantees
<1>6. CASE Confirms(s, r)
  <2>1. PICK F2 : F2 = [x \in Federates |-> IF x = f THEN s ELSE fed[x]]
    OBVIOUS
  <2>2. F2[f] = s /\ \A x \in Federates \ {f} : F2[x] = fed[x]
    BY <2>1
  <2>3. Steady(f, fed[f], F2[f])
    BY <1>3, <2>2, QuietSteady
  <2>4. Protocol(F2, toFed, server)
    BY <1>1, <1>4, <2>2, <2>3, SteadyNet DEF Consistent
  <2>5. Sound(F2, toFed, server)
    <3>1. Types(fed, toFed, server) /\ Sound(fed, toFed, server)
      BY <1>1 DEF Guaranteed, Consistent, Protocol
    <3> QED
      BY <1>4, <2>2, <2>3, <3>1, SteadySound
  <2>6. StampsOK(s)
    BY <1>3, QuietStamps DEF Guaranteed
  <2>7. fed'[f] = r /\ \A x \in Federates \ {f} : fed'[x] = F2[x]
    BY <1>1, <1>3, <2>2, fedChanges DEF Consistent
  <2>8. Sound(fed', toFed, server)
    <3>1. /\ F2[f].member # "resigned" /\ IsState(fed'[f]) /\ StampsOK(F2[f])
          /\ fed'[f].member = F2[f].member /\ fed'[f].bounds = F2[f].bounds /\ fed'[f].sent = F2[f].sent
          /\ fed'[f].cTA = F2[f].cTA /\ fed'[f].stamps = F2[f].stamps
          /\ (fed'[f].reg = F2[f].reg \/ F2[f].enableSet = {})
      <4>1. s.member = fed[f].member
        BY <1>3 DEF Quiet
      <4> QED
        BY <1>3, <1>4, <1>6, <2>2, <2>6, <2>7, <4>1 DEF Confirms
    <3> QED
      BY <2>4, <2>5, <2>7, <3>1, CallbackSound
  <2>9. StampsOK(fed'[f])
    BY <1>6, <2>6, <2>7 DEF Confirms, StampsOK
  <2> QED
    BY <1>2, <2>2, <2>7, <2>8, <2>9 DEF Guaranteed, Guarantees
<1> QED
  BY <1>3, <1>5, <1>6

LEMMA acceptGuarantees ==
  ASSUME Guaranteed, NEW f \in Federates, Accept(f)
  PROVE  Guarantees
<1>1. /\ Taken(fed, toFed, server, f, fed', toFed') /\ server' = server /\ LocalOK(fed[f])
      /\ fed'[f] = acceptInternalMessage(f, fed[f], Head(toFed[f]))
  BY takenState DEF Guaranteed
<1>2. Sound(fed', toFed', server)
  BY <1>1, AcceptSound DEF Guaranteed
<1>3. StampsOK(fed'[f])
  <2>1. Head(toFed[f]) \in ToFederate
    BY <1>1, TakenFacts
  <2>2. IsState(fed[f]) /\ StampsOK(fed[f])
    BY DEF Guaranteed, Consistent, TypeOK
  <2> QED
    BY <1>1, <2>1, <2>2, acceptStamps
<1> QED
  BY <1>1, <1>2, <1>3 DEF Guaranteed, Guarantees, Taken

LEMMA serveGuarantees ==
  ASSUME Guaranteed, NEW f \in Federates, Serve(f)
  PROVE  Guarantees
<1>1. Consistent /\ Sound(fed, toFed, server)
  BY DEF Guaranteed
<1>2. Take(f)
  BY DEF Serve, ServeEnableTimeRegulation, ServeDisableTimeRegulation, ServeEnableTimeConstrained,
         ServeDisableTimeConstrained, ServeCommit, ServeResponse, ServeLocked, ServeData, ServeResign
<1>3. /\ fed'[f].reg = fed[f].reg /\ fed'[f].enableSet = fed[f].enableSet
      /\ fed'[f].cTA = fed[f].cTA /\ fed'[f].stamps = fed[f].stamps
      /\ \A x \in Federates \ {f} : fed'[x] = fed[x]
  BY <1>1, <1>2, takenFields
<1>4. \A g \in Federates : StampsOK(fed'[g])
  <2>1. \A g \in Federates : StampsOK(fed[g])
    BY DEF Guaranteed
  <2> QED
    BY <1>3, <2>1 DEF StampsOK
<1>5. Sound(fed', toFed', server')
  <2>1. CASE ServeResign(f)
    BY <1>1, <2>1, resignedState, ResignedSound
  <2>2. CASE \E m : Relays(fed, toFed, server, f, m, fed', toFed', server')
    BY <1>1, <2>2, ServedSound
  <2> QED
    BY <1>1, <2>1, <2>2, serveState
<1> QED
  BY <1>4, <1>5 DEF Guarantees

\* What is pushed for the regulating federates is what they have promised to the server.
LEMMA PushRegulatingValues ==
  ASSUME TypeOK, NEW i \in DOMAIN PushRegulating
  PROVE  /\ PushRegulating[i].type = "EnableReg" =>
              /\ PushRegulating[i].fed \in server.regulating
              /\ PushRegulating[i].ts = server.ta[PushRegulating[i].fed]
         /\ PushRegulating[i].type = "Commit" => PushRegulating[i].ct = {"NM"}
         /\ PushRegulating[i].type \in {"EnableReg", "Commit"}
<1>1. PICK order, n : order = SetToSeq(server.regulating) /\ n = Len(order)
  OBVIOUS
<1>2. /\ order \in Seq(server.regulating) /\ n \in Nat
      /\ DOMAIN PushRegulating = 1 .. 2 * n
      /\ \A j \in 1 .. 2 * n :
           /\ (j + 1) \div 2 \in 1 .. n
           /\ PushRegulating[j].type = IF j % 2 = 1 THEN "EnableReg" ELSE "Commit"
  BY <1>1, PushRegulatingAt
<1>3. PICK k : k = (i + 1) \div 2
  OBVIOUS
<1>4. k \in 1 .. n /\ order[k] \in server.regulating
  BY <1>1, <1>2, <1>3
<1>5. PICK g : g = order[k]
  OBVIOUS
<1>6. PushRegulating[i] = IF i % 2 = 1 THEN EnableRequest(g, server.ta[g], server.id[g])
                          ELSE CommitMessage(g, server.nm[g], {"NM"}, server.id[g])
  BY <1>1, <1>2, <1>3, <1>5 DEF PushRegulating
<1>7. /\ EnableRequest(g, server.ta[g], server.id[g]).type = "EnableReg"
      /\ EnableRequest(g, server.ta[g], server.id[g]).fed = g
      /\ EnableRequest(g, server.ta[g], server.id[g]).ts = server.ta[g]
      /\ CommitMessage(g, server.nm[g], {"NM"}, server.id[g]).type = "Commit"
      /\ CommitMessage(g, server.nm[g], {"NM"}, server.id[g]).ct = {"NM"}
  BY DEF EnableRequest, CommitMessage
<1>8. CASE i % 2 = 1
  BY <1>4, <1>5, <1>6, <1>7, <1>8
<1>9. CASE i % 2 # 1
  BY <1>6, <1>7, <1>9
<1> QED
  BY <1>8, <1>9

LEMMA PushInformed ==
  ASSUME TypeOK, NEW f \in Federates
  PROVE  Informed(server, <<>> \o PushMembers \o PushRegulating \o <<[type |-> "JoinResponse", fed |-> f]>>)
<1>1. PICK r : r = [type |-> "JoinResponse", fed |-> f]
  OBVIOUS
<1>2. r \in ToFederate /\ r \in Messages /\ r.type = "JoinResponse"
  BY <1>1, MessageIn DEF ToFederate, Notices
<1>3. PICK p, u : p = PushMembers /\ u = PushRegulating
  OBVIOUS
<1>4. PICK q : q = <<>> \o p \o u \o <<r>>
  OBVIOUS
<1>5. p \in Seq(ToFederate) /\ \A i \in DOMAIN p : \E g \in server.members : p[i] = JoinNotify(g)
  BY <1>3, PushMembersAll
<1>6. \A i \in DOMAIN p : p[i].type = "JoinNotify"
  BY <1>5 DEF JoinNotify
<1>7. /\ u \in Seq(ToFederate)
      /\ \A i \in DOMAIN u :
           /\ u[i].type = "EnableReg" => u[i].fed \in server.regulating /\ u[i].ts = server.ta[u[i].fed]
           /\ u[i].type = "Commit" => u[i].ct = {"NM"}
           /\ u[i].type \in {"EnableReg", "Commit"}
  BY <1>3, pushRegulatingType, PushRegulatingValues
<1>8. PICK v : v = p \o u
  OBVIOUS
<1>9. v \in Seq(ToFederate) /\ q = Append(v, r)
  <2>1. v \in Seq(ToFederate) /\ <<>> \o p = p
    BY <1>5, <1>7, <1>8, ConcatAt, ConcatEmptySeq
  <2>2. Append(v, r) = v \o <<r>>
    BY <1>2, <2>1, AppendIsConcat
  <2> QED
    BY <1>4, <1>8, <2>1, <2>2
<1>10. \A X : Some(q, X) <=> Some(p, X) \/ Some(u, X) \/ r \in X
  <2>1. \A X : Some(v, X) <=> Some(p, X) \/ Some(u, X)
    BY <1>5, <1>7, <1>8, SomeConcat
  <2>2. \A X : Some(Append(v, r), X) <=> Some(v, X) \/ r \in X
    BY <1>2, <1>9, SomeAppend
  <2> QED
    BY <1>9, <2>1, <2>2
<1>11. PICK X : X = {m \in Messages :
                       \/ m \in Offs \/ m.type = "Data"
                       \/ \E g \in Federates : /\ m \in On(g)
                                               /\ ~(g \in server.regulating /\ m.ts = server.ta[g])
                       \/ \E g \in Federates : m \in Of("Commit", g) /\ "TA" \in m.ct}
  OBVIOUS
<1>12. ~Some(p, X)
  BY <1>6, <1>11 DEF Some, Offs, On, Of
<1>13. ~Some(u, X)
  BY <1>7, <1>11 DEF Some, Offs, On, Of
<1>14. r \notin X
  BY <1>2, <1>11 DEF Offs, On, Of
<1>15. ~Some(q, X)
  BY <1>10, <1>12, <1>13, <1>14
<1>16. q \in Seq(ToFederate) /\ \A i \in DOMAIN q : q[i] \in Messages /\ q[i] \notin X
  <2>1. q \in Seq(ToFederate)
    BY <1>2, <1>9, AppendAt
  <2>2. \A i \in DOMAIN q : q[i] \in Messages
    BY <2>1 DEF Messages
  <2> QED
    BY <1>15, <2>1, <2>2 DEF Some
<1>17. Some(q, Typed("JoinResponse"))
  BY <1>2, <1>10 DEF Typed
<1>18. Ahead(q, Typed("JoinResponse"), Offs)
  BY <1>11, <1>16, <1>17 DEF Some, Ahead
<1>19. \A i \in DOMAIN q, g \in Federates :
         /\ q[i] \in On(g) => g \in server.regulating /\ q[i].ts = server.ta[g]
         /\ q[i] \in Of("Commit", g) => "TA" \notin q[i].ct
  BY <1>11, <1>16
<1>20. ~Some(q, Offs) /\ ~Some(q, Typed("Data"))
  BY <1>11, <1>16 DEF Some, Typed
<1>21. Informed(server, q)
  BY <1>18, <1>19, <1>20 DEF Informed
<1> QED
  BY <1>1, <1>3, <1>4, <1>21

LEMMA joinGuarantees ==
  ASSUME Guaranteed, NEW f \in Federates, Join(f)
  PROVE  Guarantees
<1>1. Consistent /\ TypeOK /\ Sound(fed, toFed, server) /\ fed[f].member = "out"
  BY DEF Guaranteed, Consistent, Join
<1>2. Joined(fed, toFed, server, f, fed', toFed', server')
  BY <1>1, joinedState
<1>3. toFed[f] = <<>>
  <2>1. MemberOK(fed, toFed, server, f)
    BY <1>1 DEF Consistent, Protocol
  <2> QED
    BY <1>1, <2>1 DEF MemberOK
<1>4. toFed'[f] = <<>> \o PushMembers \o PushRegulating \o <<[type |-> "JoinResponse", fed |-> f]>>
  BY <1>3 DEF Join
<1>5. Informed(server, toFed'[f])
  BY <1>1, <1>4, PushInformed
<1>6. server'.ta = server.ta
  BY <1>1 DEF Join, TypeOK, IsServer
<1>7. Sound(fed', toFed', server')
  BY <1>1, <1>2, <1>5, <1>6, JoinedSound
<1>8. StampsOK(fed'[f])
  <2>1. fed'[f].reg = "Disabled"
    BY <1>2, JoinedFacts
  <2> QED
    BY <2>1 DEF StampsOK
<1> QED
  BY <1>2, <1>7, <1>8 DEF Guaranteed, Guarantees, Joined

LEMMA guaranteedStep == Guaranteed /\ [Next]_vars => Guaranteed'
<1> SUFFICES ASSUME Guaranteed, [Next]_vars PROVE Guaranteed'
  OBVIOUS
<1>1. Consistent'
  BY consistentStep DEF Guaranteed
<1>2. CASE Next
  <2>1. Guarantees
    BY <1>2, callGuarantees, joinGuarantees, serveGuarantees, acceptGuarantees, dispatchGuarantees DEF Next
  <2> QED
    BY <1>1, <2>1 DEF Guaranteed, Guarantees
<1>3. CASE UNCHANGED vars
  BY <1>1, <1>3 DEF Guaranteed, vars
<1> QED
  BY <1>2, <1>3

LEMMA initGuaranteed == Init => Guaranteed
<1> SUFFICES ASSUME Init PROVE Guaranteed
  OBVIOUS
<1>1. Consistent
  BY initConsistent
<1>2. /\ \A g \in Federates : toFed[g] = <<>>
      /\ server.regulating = InitialRegulating
      /\ server.ta = [g \in InitialRegulating |-> InitialLookahead]
      /\ InitialRegulating \subseteq InitialMembers /\ InitialLookahead \in Nat
  BY FederationAssumption DEF Init
<1>3. ASSUME NEW g \in Federates
      PROVE  /\ fed[g].sent = <<>> /\ fed[g].enableSet = {} /\ fed[g].reg # "EnablePending"
             /\ (g \in InitialRegulating => fed[g].cTA = InitialLookahead)
             /\ fed[g].member # "resigned" /\ fed[g].member # "joining"
             /\ \A x \in DOMAIN fed[g].bounds : x \in InitialRegulating /\ fed[g].bounds[x].ta = InitialLookahead
  <2>1. PICK s : s = fed[g]
    OBVIOUS
  <2>2. /\ s.sent = <<>> /\ s.enableSet = {}
        /\ s.reg = (IF g \in InitialRegulating THEN "Enabled" ELSE "Disabled")
        /\ (g \in InitialMembers => s.member = "in" /\ DOMAIN s.bounds = InitialRegulating \ {g})
        /\ (g \notin InitialMembers => s.member = "out" /\ DOMAIN s.bounds = {})
    BY <2>1, startedFields
  <2>3. CASE g \in InitialMembers
    <3>1. s = Started(g)
      BY <2>1, <2>3 DEF Init
    <3>2. g \in InitialRegulating => s.cTA = InitialLookahead
      BY <3>1 DEF Started, NewTimeManagement
    <3>3. \A x \in InitialRegulating \ {g} : s.bounds[x].ta = InitialLookahead
      BY <3>1 DEF Started, NewTimeManagement
    <3> QED
      BY <2>1, <2>2, <2>3, <3>2, <3>3
  <2>4. CASE g \notin InitialMembers
    BY <1>2, <2>1, <2>2, <2>4
  <2> QED
    BY <2>3, <2>4
<1>4. ASSUME NEW g \in Federates
      PROVE  SentOK(fed, server, g) /\ GoneOK(fed[g]) /\ JoiningOK(fed[g], toFed[g]) /\ StampsOK(fed[g])
  <2>1. g \in server.regulating => server.ta[g] <= fed[g].cTA
    BY <1>2, <1>3
  <2>2. Settled(fed[g].sent, UpTo(g, fed[g].cTA), Off(g))
    BY <1>3, SettledNone
  <2>3. SentOK(fed, server, g)
    BY <2>1, <2>2 DEF SentOK
  <2> QED
    BY <1>3, <2>3 DEF GoneOK, JoiningOK, StampsOK
<1>5. ASSUME NEW f \in Federates, NEW g \in Federates PROVE ValueOK(fed, toFed, f, g)
  <2>1. Settled(toFed[f], UpTo(g, fed[g].cTA), Off(g))
    BY <1>2, SettledNone
  <2>2. g \in DOMAIN fed[f].bounds => fed[f].bounds[g].ta <= fed[g].cTA
    BY <1>2, <1>3
  <2> QED
    BY <2>1, <2>2 DEF ValueOK, Covered
<1> QED
  BY <1>1, <1>4, <1>5 DEF Guaranteed, Sound

\* An automaton that runs at the end and that no element of X has started was running before.
LEMMA RunWasOn ==
  ASSUME NEW T, NEW q \in Seq(T), NEW D, NEW a \in States, NEW X, Run(q, D, a, "on"),
         \A m, b, c : <<m, b, c>> \in D => (b = "off" /\ c = "on" => m \in X),
         ~Some(q, X)
  PROVE  a = "on"
<1>1. DOMAIN q = 1 .. Len(q) /\ Len(q) \in Nat
  OBVIOUS
<1>2. PICK r \in [0 .. Len(q) -> States] :
         /\ r[0] = a /\ r[Len(q)] = "on"
         /\ \A i \in DOMAIN q : <<q[i], r[i - 1], r[i]>> \in D
  BY DEF Run
<1>3. PICK N : N = {n \in Nat : n <= Len(q) /\ r[n] = "on"}
  OBVIOUS
<1>4. PICK k : k \in N /\ \A n \in N : k <= n
  <2>1. N \in SUBSET Nat /\ N # {}
    BY <1>1, <1>2, <1>3
  <2> QED
    BY <2>1, MinNat
<1>5. k = 0
  <2>1. SUFFICES ASSUME k # 0 PROVE FALSE
    OBVIOUS
  <2>2. k \in DOMAIN q /\ r[k] = "on" /\ k - 1 \in 0 .. Len(q) /\ k - 1 \notin N
    BY <1>1, <1>3, <1>4, <2>1
  <2>3. r[k - 1] = "off"
    BY <1>1, <1>2, <1>3, <2>2 DEF States
  <2>4. q[k] \in X
    BY <1>2, <2>2, <2>3
  <2> QED
    BY <2>2, <2>4 DEF Some
<1> QED
  BY <1>2, <1>3, <1>4, <1>5

\* What f knows of a federate g that regulates is backed: nothing that ends the regulation of g
\* is on its way, so that the bound of f is at most what g has promised.
LEMMA BoundBacked ==
  ASSUME NEW F, NEW Q, NEW S, Protocol(F, Q, S), Sound(F, Q, S),
         NEW f \in Federates, NEW g \in Federates, g \in DOMAIN F[f].bounds, F[g].reg = "Enabled"
  PROVE  F[f].bounds[g].ta <= F[g].cTA
<1>1. /\ Types(F, Q, S)
      /\ \A x \in Federates : /\ SenderOK(F, S, x) /\ MemberOK(F, Q, S, x) /\ OwnOK(F, Q, x)
                              /\ GoneOK(F[x]) /\ JoiningOK(F[x], Q[x])
      /\ ReceiverOK(F, Q, S, f, g) /\ TokenOK(F, Q, f, g) /\ ValueOK(F, Q, f, g)
  BY DEF Protocol, Sound
<1>2. /\ IsState(F[f]) /\ IsState(F[g]) /\ Q[f] \in Seq(ToFederate)
      /\ F[g].sent \in Seq(ToServer)
  BY <1>1, Fields DEF Types
<1>3. f # g /\ F[g].member # "resigned"
  BY <1>1 DEF MemberOK, GoneOK
<1>4. F[f].member \in {"joining", "in"} /\ F[f].member # "resigned" /\ f \in S.members
  <2>1. F[f].member # "resigned"
    BY <1>1 DEF GoneOK
  <2>2. F[f].member # "out"
    <3>1. DOMAIN NewTimeManagement.bounds = {}
      BY DEF NewTimeManagement, EmptyMap
    <3> QED
      BY <1>1, <3>1 DEF MemberOK
  <2>3. F[f].member \in {"joining", "in"}
    BY <1>2, <2>1, <2>2 DEF IsState
  <2> QED
    BY <1>1, <2>1, <2>3 DEF MemberOK
<1>5. ~Some(F[g].sent, On(g))
  BY <1>1, <1>3 DEF OwnOK
<1>6. Run(F[g].sent, RegSteps(g), Switch(g \in S.regulating), "on")
  BY <1>1 DEF SenderOK, Switch
<1>7. ASSUME NEW m, NEW b, NEW c, <<m, b, c>> \in RegSteps(g)
      PROVE  /\ m \in Of("DisableReg", g) => c = "off"
             /\ b = "off" /\ c = "on" => m \in On(g)
  <2>1. m \in Messages /\ RegStep(g, m, b, c)
    BY <1>7, StepsOf
  <2> QED
    BY <2>1 DEF RegStep, Of, On
<1>8. ~Some(F[g].sent, Off(g))
  <2>1. SUFFICES ASSUME Some(F[g].sent, Off(g)) PROVE FALSE
    OBVIOUS
  <2>2. Some(F[g].sent, Of("DisableReg", g))
    <3>1. PICK i \in DOMAIN F[g].sent : F[g].sent[i] \in Off(g)
      BY <2>1 DEF Some
    <3>2. F[g].sent[i] \in ToServer
      BY <1>2, <3>1
    <3>3. F[g].sent[i].type # "ResignNotify"
      BY <3>2, ToServerKinds
    <3> QED
      BY <3>1, <3>3 DEF Off, Of, Some
  <2>3. SomeAfter(F[g].sent, Of("DisableReg", g), On(g))
    BY <1>2, <1>6, <1>7, <2>2, RunRestarts
  <2> QED
    BY <1>5, <2>3 DEF SomeAfter, Some
<1>9. g \in S.regulating
  <2>1. Switch(g \in S.regulating) \in States
    BY SwitchType
  <2>2. Switch(g \in S.regulating) = "on"
    BY <1>2, <1>5, <1>6, <1>7, <2>1, RunWasOn
  <2> QED
    BY <2>2 DEF Switch
<1>10. Run(Q[f], MapSteps(g), Switch(g \in DOMAIN F[f].bounds), "on")
  BY <1>1, <1>3, <1>4, <1>9 DEF ReceiverOK, Switch
<1>11. ~Asked(F, Q, f, g)
  BY <1>1, <1>3 DEF TokenOK
<1>12. ~Some(Q[f], Off(g))
  <2>1. SUFFICES ASSUME Some(Q[f], Off(g)) PROVE FALSE
    OBVIOUS
  <2>2. ASSUME NEW m, NEW b, NEW c, <<m, b, c>> \in MapSteps(g)
        PROVE  /\ m \in Off(g) => c = "off"
               /\ b = "off" /\ c = "on" => m \in On(g)
    <3>1. m \in Messages /\ MapStep(g, m, b, c)
      BY <2>2, StepsOf
    <3> QED
      BY <3>1 DEF MapStep
  <2>3. SomeAfter(Q[f], Off(g), On(g))
    BY <1>2, <1>10, <2>1, <2>2, RunRestarts
  <2>4. PICK i, j \in DOMAIN Q[f] : j < i /\ Q[f][j] \in Off(g) /\ Q[f][i] \in On(g)
    BY <2>3 DEF SomeAfter
  <2>5. CASE F[f].member = "in"
    BY <1>11, <2>4, <2>5 DEF Asked, Some
  <2>6. CASE F[f].member = "joining"
    <3>1. PICK k \in DOMAIN Q[f] : /\ Q[f][k] \in Typed("JoinResponse")
                                   /\ \A n \in DOMAIN Q[f] : n < k => Q[f][n] \notin Offs
      BY <1>1, <2>6 DEF JoiningOK, Ahead
    <3>2. Q[f][j] \in Offs /\ k # j
      BY <2>4, <3>1 DEF Off, Offs, Of, Typed
    <3>3. i \in Nat /\ j \in Nat /\ k \in Nat
      BY <1>2
    <3>4. k < i
      BY <2>4, <3>1, <3>2, <3>3
    <3>5. SomeAfter(Q[f], Typed("JoinResponse"), On(g))
      BY <2>4, <3>1, <3>4 DEF SomeAfter
    <3> QED
      BY <1>11, <2>6, <3>5 DEF Asked
  <2> QED
    BY <1>4, <2>5, <2>6
<1>13. Covered(F, Q, f, g, F[f].bounds[g].ta)
  BY <1>1, <1>3, <1>8, <1>12 DEF ValueOK
<1> QED
  BY <1>13 DEF Covered

\* The bounds of the others by which a federate advances are never more than those others have
\* promised, whatever requests, responses and commits are on their way: for any number of
\* federates that join and resign, switch regulation on and off, and change their lookaheads.
THEOREM BoundsAreSound == Spec => []BoundsSound
<1>1. Guaranteed => BoundsSound
  <2> SUFFICES ASSUME Guaranteed, NEW f \in Federates, NEW g \in DOMAIN fed[f].bounds,
                      fed[g].reg = "Enabled"
               PROVE  fed[f].bounds[g].ta <= fed[g].cTA
    BY DEF BoundsSound
  <2>1. Protocol(fed, toFed, server) /\ Sound(fed, toFed, server) /\ IsState(fed[f])
    BY DEF Guaranteed, Consistent, TypeOK
  <2>2. g \in Federates
    BY <2>1 DEF IsState, IsMap
  <2> QED
    BY <2>1, <2>2, BoundBacked
<1> QED
  BY <1>1, initGuaranteed, guaranteedStep, PTL DEF Spec

-----------------------------------------------------------------------------
(* What the calls of an ordinary program do to its federate *)

\* The fields that an advance request leaves alone
Rest(s, t) ==
  /\ t.member = s.member /\ t.reg = s.reg /\ t.con = s.con /\ t.now = s.now
  /\ t.bounds = s.bounds /\ t.enableSet = s.enableSet /\ t.tso = s.tso /\ t.tgtLA = s.tgtLA

\* f commits t; all else is as in s.
Promised(f, s, u, t) ==
  /\ IsState(u) /\ Rest(s, u)
  /\ u.adv = s.adv /\ u.pend = s.pend /\ u.out = s.out /\ u.last = s.last
  /\ u.cTA = t /\ u.cNM = t
  /\ \/ u.sent = s.sent
     \/ \E m \in ToServer : m.type = "Commit" /\ m.fed = f /\ m.ts = t /\ u.sent = Append(s.sent, m)

LEMMA sendCommitPromises ==
  ASSUME NEW f \in Federates, NEW s, IsState(s), s.cNM = s.cTA, NEW t \in Nat, s.cTA <= t
  PROVE  Promised(f, s, _sendCommitIfChanged(f, s, t, {"TA", "NM"}), t)
<1> DEFINE type == {"TA", "NM"}
           changed == {c \in type : IF c = "TA" THEN s.cTA < t ELSE s.cNM # t}
           m == CommitMessage(f, t, type, s.commitId)
           r == [s EXCEPT !.cTA = t, !.cNM = t, !.commitId = s.commitId, !.sent = Append(s.sent, m)]
<1>1. s.cTA \in Nat /\ s.commitId \in CommitIds
  BY Fields
<1>2. PICK u : u = _sendCommitIfChanged(f, s, t, type)
  OBVIOUS
<1>3. IsState(u)
  BY <1>2, BothCommits, sendCommitIfChangedType
<1>4. CASE s.cTA = t
  <2>1. changed = {}
    BY <1>1, <1>4
  <2>2. u = s
    BY <1>2, <2>1 DEF _sendCommitIfChanged
  <2> QED
    BY <1>2, <1>3, <1>4, <2>2 DEF Promised, Rest
<1>5. CASE s.cTA # t
  <2>1. changed = type /\ type # {} /\ ~(t < s.cTA) /\ "TA" \in type /\ "NM" \in type
    BY <1>1, <1>5
  <2>2. u = _sendCommitLowerBoundTimeStamp(f, s, t, type)
    <3>1. _sendCommitIfChanged(f, s, t, type)
            = IF t < s.cTA \/ changed = {} THEN s ELSE _sendCommitLowerBoundTimeStamp(f, s, t, changed)
      BY DEF _sendCommitIfChanged
    <3> HIDE DEF changed, type
    <3> QED
      BY <1>2, <2>1, <3>1
  <2> HIDE DEF changed, type
  <2>3. u = send([s EXCEPT !.cTA = t, !.cNM = t, !.commitId = s.commitId], m)
    BY <2>1, <2>2 DEF _sendCommitLowerBoundTimeStamp
  <2>4. m \in ToServer /\ m.type = "Commit" /\ m.fed = f /\ m.ts = t
    BY <1>1, BothCommits, MessageTypes, RelayedTypes DEF CommitMessage, type
  <2> HIDE DEF m
  <2>5. u = [s EXCEPT !.cTA = t, !.cNM = t, !.commitId = s.commitId, !.sent = Append(s.sent, m)]
    BY <2>3 DEF send, IsState
  <2>6. /\ Rest(s, u) /\ u.adv = s.adv /\ u.pend = s.pend /\ u.out = s.out /\ u.last = s.last
        /\ u.cTA = t /\ u.cNM = t /\ u.sent = Append(s.sent, m)
    BY <2>5 DEF IsState, Rest
  <2> QED
    BY <1>2, <1>3, <2>4, <2>6 DEF Promised, type
<1> QED
  BY <1>4, <1>5

\* What f has committed by then is in the queue to the server.
LEMMA PromisedGoes ==
  ASSUME NEW f, NEW s, NEW u, NEW t \in Nat, NEW r, IsState(s), Promised(f, s, u, t), Timely(r),
         r.sent = u.sent, r.cTA = u.cTA, r.reg = "Enabled", Len(s.tso) <= Len(r.tso)
  PROVE  Goes(f, s, r)
<1>1. CASE u.sent = s.sent
  BY <1>1, SilentGoes
<1>2. CASE u.sent # s.sent
  <2>1. PICK m \in ToServer : m.type = "Commit" /\ m.fed = f /\ m.ts = t /\ u.sent = Append(s.sent, m)
    BY <1>2 DEF Promised
  <2>2. Promising(r) /\ r.cTA <= m.ts
    BY <2>1 DEF Promising, Promised
  <2>3. m \in Fresh(f, r)
    BY <2>1, <2>2, MessageIn, CommitFresh
  <2> QED
    BY <2>1, <2>3, SendsGoes
<1> QED
  BY <1>1, <1>2

\* The outbound bound is neither below the former one nor below the lookahead.
LEMMA OutboundKept ==
  ASSUME NEW s, IsState(s), NEW t \in Nat, NEW l \in TimePairs,
         NEW r, r = _setOutboundLowerTimeStampAndCurrentLookahead(s, t, l)
  PROVE  /\ IsState(r) /\ Rest(s, r) /\ r.adv = s.adv /\ r.pend = s.pend /\ r.last = s.last
         /\ r.cTA = s.cTA /\ r.cNM = s.cNM /\ r.sent = s.sent
         /\ _toLogicalTime(l) <= _toLogicalTime(r.out)
         /\ t + s.tgtLA <= _toLogicalTime(r.out)
<1> DEFINE k == _getOutboundLowerTimeStampSecondField(s, s.tgtLA)
<1>1. s.tgtLA \in Nat /\ k \in {0, 1}
  BY Fields, secondFieldTypes
<1> HIDE DEF k
<1>2. PICK n : n = <<t + s.tgtLA, k>>
  OBVIOUS
<1>3. n \in TimePairs /\ n[1] = t + s.tgtLA /\ n[2] \in {0, 1}
  BY <1>1, <1>2 DEF TimePairs
<1>4. IsState(r)
  BY setOutboundType
<1>5. \E x : r = [s EXCEPT !.out = IF PairLess(n, l) THEN l ELSE n, !.curLA = x]
  BY <1>2 DEF _setOutboundLowerTimeStampAndCurrentLookahead, k
<1>6. /\ Rest(s, r) /\ r.adv = s.adv /\ r.pend = s.pend /\ r.last = s.last
      /\ r.cTA = s.cTA /\ r.cNM = s.cNM /\ r.sent = s.sent
      /\ r.out = IF PairLess(n, l) THEN l ELSE n
  BY <1>5 DEF IsState, Rest
<1>7. PairLeq(l, r.out) /\ PairLeq(n, r.out) /\ r.out \in TimePairs
  BY <1>3, <1>6 DEF PairLeq, PairLess, TimePairs
<1>8. _toLogicalTime(l) <= _toLogicalTime(r.out) /\ _toLogicalTime(n) <= _toLogicalTime(r.out)
  BY <1>3, <1>7, ToLogical
<1>9. t + s.tgtLA <= _toLogicalTime(n) /\ _toLogicalTime(n) \in Nat /\ _toLogicalTime(r.out) \in Nat
  BY <1>1, <1>3, <1>7, ToLogical
<1>10. t + s.tgtLA <= _toLogicalTime(r.out)
  BY <1>1, <1>8, <1>9
<1> QED
  BY <1>4, <1>6, <1>8, <1>10

\* The state once mode, pending time and outbound bound are set
LEMMA beginAdvanceGoes ==
  ASSUME NEW s, IsState(s), NEW t \in Nat, s.now[1] <= t, NEW mode \in {"TAR", "TARA", "FQR"},
         NEW b, b = _beginAdvance(s, t, mode)
  PROVE  /\ IsState(b) /\ Rest(s, b) /\ b.adv = mode
         /\ b.cTA = s.cTA /\ b.cNM = s.cNM /\ b.sent = s.sent
         /\ PairLeq(s.now, b.pend) /\ b.pend[1] = t
         /\ mode = "FQR" => b.pend[2] = 0 \/ b.pend = s.now
         /\ s.reg = "Enabled" => /\ b.last = s.out
                                 /\ _toLogicalTime(s.out) <= _toLogicalTime(b.out)
                                 /\ t + s.tgtLA <= _toLogicalTime(b.out)
         /\ s.reg # "Enabled" => b.out = s.out
<1> DEFINE a == [s EXCEPT !.adv = mode]
           k == _getPendingTimeSecondField(a)
           p == PairMax(s.now, <<t, k>>)
           c == [a EXCEPT !.pend = p]
           l == [c EXCEPT !.last = s.out]
<1>1. s.now \in TimePairs /\ s.out \in TimePairs
  BY Fields
<1>2. k \in {0, 1} /\ (mode = "FQR" => k = 0)
  <2>1. a.adv = mode
    BY DEF IsState
  <2> HIDE DEF a
  <2> QED
    BY <2>1, secondFieldTypes DEF _getPendingTimeSecondField, getIsAnyAvailableMode
<1> HIDE DEF k
<1>3. p \in TimePairs /\ PairLeq(s.now, p) /\ p[1] = t /\ (mode = "FQR" => p[2] = 0 \/ p = s.now)
  BY <1>1, <1>2 DEF TimePairs, PairMax, PairLeq, PairLess
<1> HIDE DEF p
<1>4. /\ IsState(c) /\ Rest(s, c) /\ c.adv = mode /\ c.pend = p
      /\ c.cTA = s.cTA /\ c.cNM = s.cNM /\ c.sent = s.sent /\ c.out = s.out
  <2>1. mode \in AdvanceModes
    BY DEF AdvanceModes
  <2>2. c = [s EXCEPT !.adv = mode, !.pend = p]
    BY DEF IsState
  <2>3. IsState(c)
    BY <1>3, <2>1, <2>2 DEF IsState
  <2> QED
    BY <2>2, <2>3 DEF IsState, Rest
<1> HIDE DEF a
<1>5. /\ IsState(l) /\ Rest(s, l) /\ l.adv = mode /\ l.pend = p /\ l.last = s.out
      /\ l.cTA = s.cTA /\ l.cNM = s.cNM /\ l.sent = s.sent
  <2> HIDE DEF c
  <2> QED
    BY <1>1, <1>4 DEF IsState, Rest
<1>6. CASE s.reg # "Enabled"
  <2>1. b = c
    BY <1>6 DEF _beginAdvance, c, a, p, k
  <2> HIDE DEF c
  <2> QED
    BY <1>3, <1>4, <1>6, <2>1
<1>7. CASE s.reg = "Enabled"
  <2>1. b = _setOutboundLowerTimeStampAndCurrentLookahead(l, t, s.out)
    BY <1>7 DEF _beginAdvance, l, c, a, p, k
  <2> HIDE DEF l, c
  <2>2. /\ IsState(b) /\ Rest(l, b) /\ b.adv = l.adv /\ b.pend = l.pend /\ b.last = l.last
        /\ b.cTA = l.cTA /\ b.cNM = l.cNM /\ b.sent = l.sent
        /\ _toLogicalTime(s.out) <= _toLogicalTime(b.out)
        /\ t + l.tgtLA <= _toLogicalTime(b.out)
    BY <1>1, <1>5, <2>1, OutboundKept
  <2> QED
    BY <1>3, <1>5, <1>7, <2>2 DEF Rest
<1> QED
  BY <1>6, <1>7

\* The grant is put into the queue, due at the pending time.
LEMMA GrantQueued ==
  ASSUME NEW c, IsState(c), Sorted(c.tso), ModesOK(c), CommitOK(c), FloorOK(c),
         c.adv # "Granted", c.con = "Enabled" => c.adv # "FQR",
         ~Some(c.tso, Calling("Granted")), Each(c.tso, Dated(c.pend)),
         NEW t, t = queueAt(c, c.pend, Granted)
  PROVE  /\ IsState(t) /\ Timely(t) /\ Level(c, t) /\ Len(c.tso) <= Len(t.tso)
         /\ t.sent = c.sent
<1>1. PICK r : r = Granted
  OBVIOUS
<1>2. r \in Callbacks /\ r.type = "Granted" /\ c.pend \in TimePairs
  BY <1>1, NotificationTypes, Fields DEF Granted
<1>3. /\ IsState(t) /\ Level(c, t)
      /\ t.bounds = c.bounds /\ t.enableSet = c.enableSet /\ t.sent = c.sent
      /\ Inserted(c.tso, t.tso, c.pend, r)
  BY <1>1, <1>2, CallbackQueued
<1>4. ModesOK(t) /\ CommitOK(t)
  BY <1>3 DEF ModesOK, CommitOK, Level
<1>5. QueueOK(t)
  <2>1. \A e \in Entries : e.at = c.pend /\ e.msg = r => e \in Dated(c.pend)
    BY <1>2 DEF Dated
  <2>2. Each(t.tso, Dated(c.pend)) /\ Single(t.tso, Calling("Granted"))
    BY <1>3, <2>1 DEF Inserted
  <2> QED
    BY <1>3, <2>2 DEF QueueOK, Level
<1>6. FloorOK(t)
  <2> SUFFICES ASSUME c.con = "Enabled" PROVE FloorOK(t)
    BY <1>3 DEF FloorOK, Level
  <2>1. \A e \in Entries : e.at = c.pend /\ e.msg = r => e \in From(_toLogicalTime(c.now))
    BY <1>2 DEF From
  <2>2. Each(t.tso, From(_toLogicalTime(c.now)))
    BY <1>3, <2>1 DEF Inserted, FloorOK
  <2> QED
    BY <1>3, <2>2 DEF FloorOK, Level
<1> QED
  BY <1>3, <1>4, <1>5, <1>6 DEF Timely, Inserted

LEMMA advanceGoes ==
  ASSUME NEW f \in Federates, NEW s, IsState(s), LocalOK(s), Timely(s),
         s.adv = "Granted", s.reg # "EnablePending", s.con # "EnablePending",
         NEW t \in Nat, s.now[1] <= t, NEW mode \in {"TAR", "TARA"}
  PROVE  Goes(f, s, timeAdvanceRequest(f, s, t, mode))
<1>1. PICK b : b = _beginAdvance(s, t, mode)
  OBVIOUS
<1>2. /\ IsState(b) /\ Rest(s, b) /\ b.adv = mode
      /\ b.cTA = s.cTA /\ b.cNM = s.cNM /\ b.sent = s.sent
      /\ PairLeq(s.now, b.pend)
      /\ s.reg = "Enabled" => _toLogicalTime(s.out) <= _toLogicalTime(b.out)
      /\ s.reg # "Enabled" => b.out = s.out
  BY <1>1, beginAdvanceGoes
<1>3. /\ s.cTA \in Nat /\ _toLogicalTime(s.out) \in Nat /\ _toLogicalTime(b.out) \in Nat
      /\ s.now \in TimePairs /\ b.pend \in TimePairs
  BY <1>2, Fields, PairTypes
<1>4. PICK d : d = _toLogicalTime(b.out)
  OBVIOUS
<1>5. s.reg = "Enabled" => b.cNM = b.cTA /\ b.cTA <= d
  BY <1>2, <1>3, <1>4 DEF Timely, CommitOK
<1>6. PICK c : c = IF b.reg = "Enabled" THEN _sendCommitIfChanged(f, b, d, {"TA", "NM"}) ELSE b
  OBVIOUS
<1>7. timeAdvanceRequest(f, s, t, mode) = queueAt(c, c.pend, Granted)
  BY <1>1, <1>4, <1>6 DEF timeAdvanceRequest, _advanceRequest
<1>8. s.reg = "Enabled" => Promised(f, b, c, d)
  BY <1>2, <1>3, <1>4, <1>5, <1>6, sendCommitPromises DEF Rest
<1>9. s.reg # "Enabled" => c = b
  BY <1>2, <1>6 DEF Rest
<1>10. /\ IsState(c) /\ Rest(s, c) /\ c.adv = mode /\ c.pend = b.pend /\ c.out = b.out
  BY <1>2, <1>8, <1>9 DEF Promised, Rest
<1>11. ~Some(s.tso, Calling("RegulationEnabled")) /\ ~Some(s.tso, Calling("ConstrainedEnabled"))
       /\ Sorted(s.tso)
  BY DEF LocalOK
<1>12. Each(s.tso, Dated(b.pend)) /\ ~Some(s.tso, Calling("Granted"))
  BY <1>11, NothingPending DEF Timely
<1>13. ModesOK(c)
  BY <1>10 DEF Timely, ModesOK, Rest
<1>14. CommitOK(c)
  <2>1. CASE s.reg = "Enabled"
    <3>1. d <= d
      BY <1>3, <1>4
    <3> QED
      BY <1>4, <1>8, <1>10, <2>1, <3>1 DEF Promised, CommitOK, Rest
  <2>2. CASE s.reg # "Enabled"
    BY <1>10, <2>2 DEF CommitOK, Rest, IsState, Modes
  <2> QED
    BY <2>1, <2>2
<1>15. FloorOK(c)
  <2>1. _toLogicalTime(s.now) <= _toLogicalTime(b.pend)
    BY <1>2, <1>3, ToLogical
  <2> QED
    BY <1>10, <2>1 DEF FloorOK, Timely, Rest
<1>16. PICK r : r = queueAt(c, c.pend, Granted)
  OBVIOUS
<1>17. Timely(r) /\ Level(c, r) /\ Len(c.tso) <= Len(r.tso) /\ r.sent = c.sent
  BY <1>10, <1>11, <1>12, <1>13, <1>14, <1>15, <1>16, GrantQueued DEF Rest
<1>18. Goes(f, s, r)
  <2>1. Len(s.tso) <= Len(r.tso)
    BY <1>10, <1>17 DEF Rest
  <2>2. CASE s.reg = "Enabled"
    <3>1. Goes(f, b, r)
      <4>1. Len(b.tso) <= Len(r.tso)
        BY <1>2, <2>1 DEF Rest
      <4>2. r.reg = "Enabled" /\ r.cTA = c.cTA /\ r.sent = c.sent
        BY <1>10, <1>17, <2>2 DEF Level, Rest
      <4> QED
        BY <1>2, <1>3, <1>4, <1>8, <1>17, <2>2, <4>1, <4>2, PromisedGoes
    <3> QED
      BY <1>2, <2>1, <3>1 DEF Goes
  <2>3. CASE s.reg # "Enabled"
    BY <1>2, <1>9, <1>17, <2>1, <2>3, SilentGoes
  <2> QED
    BY <2>2, <2>3
<1> QED
  BY <1>7, <1>16, <1>18

\* Up to where a flush queue request looks: neither beyond the queue nor beyond the bounds
Flushed(s) ==
  LET q == _pendingNotBeyondQueue(s)
      limited == s.con = "Enabled" /\ ~canAdvanceTo(s.bounds, <<q.pend[1], 0>>)
  IN  IF limited THEN [q EXCEPT !.pend = PairMax(s.now, <<getGALT(s.bounds), @[2]>>)] ELSE q

LEMMA FlushedFree ==
  ASSUME NEW b, b.con # "Enabled"
  PROVE  Flushed(b) = b
BY DEF Flushed, _pendingNotBeyondQueue

LEMMA FlushedLimited ==
  ASSUME NEW b, IsState(b), b.con = "Enabled",
         PairLeq(b.now, b.pend), b.pend[2] = 0 \/ b.pend = b.now,
         \A g \in DOMAIN b.bounds : _toLogicalTime(b.now) <= b.bounds[g].ta,
         b.tso # <<>> => _toLogicalTime(b.now) <= Head(b.tso).at[1],
         NEW p, p = Flushed(b)
  PROVE  \E n \in TimePairs :
           /\ p = [b EXCEPT !.pend = n] /\ n[1] <= b.pend[1]
           /\ _toLogicalTime(b.now) <= _toLogicalTime(n)
           /\ \A g \in DOMAIN b.bounds : _toLogicalTime(n) <= b.bounds[g].ta
<1>1. PICK now : now = b.now
  OBVIOUS
<1>2. PICK pend : pend = b.pend
  OBVIOUS
<1>3. PICK head : head = Head(b.tso).at
  OBVIOUS
<1>4. PICK k : k = IF b.tso # <<>> THEN <<Min2(pend[1], head[1]), pend[2]>> ELSE pend
  OBVIOUS
<1>5. now \in TimePairs /\ pend \in TimePairs /\ (b.tso # <<>> => head \in TimePairs)
  BY <1>1, <1>2, <1>3, Fields, leastType DEF getLeastIncomingTimepair
<1>6. /\ k \in TimePairs /\ k[1] <= pend[1] /\ _toLogicalTime(now) <= _toLogicalTime(k)
      /\ k[2] = 1 => k = now
  <2>1. CASE b.tso = <<>>
    BY <1>1, <1>2, <1>4, <1>5, <2>1 DEF PairLeq, PairLess, TimePairs, _toLogicalTime, nextAfter
  <2>2. CASE b.tso # <<>>
    <3>1. head[1] \in Nat /\ pend[1] \in Nat /\ pend[2] \in {-1, 0, 1} /\ now[1] \in Nat
          /\ now[2] \in {-1, 0, 1}
      BY <1>5, <2>2 DEF TimePairs
    <3>2. k[1] = Min2(pend[1], head[1]) /\ k[2] = pend[2] /\ k \in TimePairs /\ k[1] \in Nat
      BY <1>4, <2>2, <3>1 DEF TimePairs, Min2
    <3>3. k[1] <= pend[1] /\ (k[1] = pend[1] \/ k[1] = head[1])
      BY <3>1, <3>2 DEF Min2
    <3>4. now[1] < pend[1] \/ (now[1] = pend[1] /\ now[2] <= pend[2])
      BY <1>1, <1>2, <3>1 DEF PairLeq, PairLess
    <3>5. IF now[2] = 1 THEN now[1] + 1 <= head[1] ELSE now[1] <= head[1]
      BY <1>1, <1>3, <2>2, <3>1 DEF _toLogicalTime, nextAfter
    <3>6. k[2] = 1 => pend = now
      BY <1>1, <1>2, <3>2
    <3>7. now = <<now[1], now[2]>> /\ k = <<k[1], k[2]>>
      BY <1>5, <3>2 DEF TimePairs
    <3>8. k[2] = 1 => k = now
      <4> SUFFICES ASSUME k[2] = 1 PROVE k = now
        OBVIOUS
      <4>1. pend[1] = now[1] /\ pend[2] = now[2] /\ now[2] = 1
        BY <3>2, <3>6
      <4>2. now[1] + 1 <= head[1]
        BY <3>5, <4>1
      <4>3. k[1] = now[1]
        BY <3>1, <3>2, <3>3, <4>1, <4>2
      <4> QED
        BY <3>7, <4>1, <4>3
    <3>9. _toLogicalTime(now) <= _toLogicalTime(k)
      BY <3>1, <3>2, <3>3, <3>4, <3>5, <3>8 DEF _toLogicalTime, nextAfter
    <3> QED
      BY <3>2, <3>3, <3>8, <3>9
  <2> QED
    BY <2>1, <2>2
<1>7. PICK q : q = _pendingNotBeyondQueue(b)
  OBVIOUS
<1>8. q = [b EXCEPT !.pend = k]
  <2>1. CASE b.tso = <<>>
    <3>1. q = b
      BY <1>7, <2>1 DEF _pendingNotBeyondQueue
    <3> QED
      BY <1>2, <1>4, <2>1, <3>1 DEF IsState
  <2>2. CASE b.tso # <<>>
    BY <1>2, <1>3, <1>4, <1>7, <2>2 DEF _pendingNotBeyondQueue, getLeastIncomingTimepair
  <2> QED
    BY <2>1, <2>2
<1>9. q.pend = k
  BY <1>8 DEF IsState
<1>10. PICK c : c = <<k[1], 0>>
  OBVIOUS
<1>11. c \in TimePairs /\ c[1] = k[1] /\ c[2] = 0 /\ _toLogicalTime(c) = k[1]
  BY <1>6, <1>10 DEF TimePairs, _toLogicalTime
<1>12. HasBounds(b.bounds)
  BY BoundsTypes
<1>13. CASE canAdvanceTo(b.bounds, c)
  <2>1. p = q
    BY <1>7, <1>9, <1>10, <1>13 DEF Flushed
  <2>2. ASSUME NEW g \in DOMAIN b.bounds PROVE _toLogicalTime(k) <= b.bounds[g].ta
    <3>1. k[1] <= b.bounds[g].ta
      BY <1>11, <1>12, <1>13, canAdvanceToSafe
    <3>2. k[2] # 1 => _toLogicalTime(k) = k[1]
      BY <1>6, ToLogical
    <3> QED
      BY <1>1, <1>6, <3>1, <3>2
  <2> QED
    BY <1>1, <1>2, <1>6, <1>8, <2>1, <2>2
<1>14. CASE ~canAdvanceTo(b.bounds, c)
  <2>1. PICK galt : galt = getGALT(b.bounds)
    OBVIOUS
  <2>2. DOMAIN b.bounds # {} /\ ~Admits(c, galt)
    BY <1>14, <2>1 DEF canAdvanceTo
  <2>3. /\ galt \in Nat
        /\ \E g \in DOMAIN b.bounds : galt = b.bounds[g].ta
        /\ \A g \in DOMAIN b.bounds : galt <= b.bounds[g].ta /\ b.bounds[g].ta \in Nat
    BY <1>12, <2>1, <2>2, getGALTBound DEF HasBounds
  <2>4. galt < k[1] /\ _toLogicalTime(now) <= galt
    BY <1>1, <1>6, <1>11, <2>2, <2>3 DEF Admits, TimePairs
  <2>5. k[2] # 1
    BY <1>5, <1>6, <2>3, <2>4 DEF _toLogicalTime, nextAfter, TimePairs
  <2>6. PICK x : x = <<galt, k[2]>>
    OBVIOUS
  <2>7. x \in TimePairs /\ x[1] = galt /\ x[2] # 1
    BY <1>6, <2>3, <2>5, <2>6 DEF TimePairs
  <2>8. PICK n : n = PairMax(now, x)
    OBVIOUS
  <2>9. n \in TimePairs /\ (n = now \/ n = x)
    BY <1>5, <2>7, <2>8 DEF PairMax
  <2>10. p = [b EXCEPT !.pend = n]
    <3>1. p = [q EXCEPT !.pend = n]
      <4>1. p = [q EXCEPT !.pend = PairMax(b.now, <<getGALT(b.bounds), q.pend[2]>>)]
        BY <1>7, <1>9, <1>10, <1>14 DEF Flushed
      <4> QED
        BY <1>1, <1>9, <2>1, <2>6, <2>8, <4>1
    <3> QED
      BY <1>8, <3>1 DEF IsState
  <2>11. /\ now[1] \in Nat /\ pend[1] \in Nat /\ now[1] <= pend[1]
         /\ _toLogicalTime(now) \in Nat
    BY <1>1, <1>2, <1>5 DEF PairLeq, PairLess, TimePairs, _toLogicalTime, nextAfter
  <2>12. n[1] <= pend[1]
    BY <1>6, <2>3, <2>4, <2>7, <2>9, <2>11 DEF TimePairs
  <2>13. _toLogicalTime(now) <= _toLogicalTime(n) /\ _toLogicalTime(n) <= galt
    <3>1. _toLogicalTime(x) = galt
      BY <2>7, ToLogical
    <3> QED
      BY <2>3, <2>4, <2>9, <2>11, <3>1
  <2>14. \A g \in DOMAIN b.bounds : _toLogicalTime(n) <= b.bounds[g].ta
    <3>1. _toLogicalTime(n) \in Nat
      BY <2>9, ToLogical
    <3> QED
      BY <2>3, <2>13, <3>1
  <2> QED
    BY <1>1, <1>2, <2>9, <2>10, <2>12, <2>13, <2>14
<1> QED
  BY <1>13, <1>14

LEMMA flushGoes ==
  ASSUME NEW f \in Federates, NEW s, IsState(s), LocalOK(s), Timely(s),
         s.adv = "Granted", s.reg # "EnablePending", s.con # "EnablePending",
         NEW t \in Nat, s.now[1] <= t
  PROVE  Goes(f, s, timeAdvanceRequest(f, s, t, "FQR"))
<1>1. PICK b : b = _beginAdvance(s, t, "FQR")
  OBVIOUS
<1>2. /\ IsState(b) /\ Rest(s, b) /\ b.adv = "FQR"
      /\ b.cTA = s.cTA /\ b.cNM = s.cNM /\ b.sent = s.sent
      /\ PairLeq(s.now, b.pend) /\ b.pend[1] = t /\ (b.pend[2] = 0 \/ b.pend = s.now)
      /\ s.reg = "Enabled" => /\ b.last = s.out
                              /\ _toLogicalTime(s.out) <= _toLogicalTime(b.out)
                              /\ t + s.tgtLA <= _toLogicalTime(b.out)
      /\ s.reg # "Enabled" => b.out = s.out
  BY <1>1, beginAdvanceGoes
<1>3. /\ s.cTA \in Nat /\ s.tgtLA \in Nat
      /\ _toLogicalTime(s.out) \in Nat /\ _toLogicalTime(b.out) \in Nat
      /\ s.now \in TimePairs /\ b.pend \in TimePairs
  BY <1>2, Fields, PairTypes
<1>4. ~Some(s.tso, Calling("RegulationEnabled")) /\ ~Some(s.tso, Calling("ConstrainedEnabled"))
      /\ Sorted(s.tso)
  BY DEF LocalOK
<1>5. \A x : Each(s.tso, Dated(x)) /\ ~Some(s.tso, Calling("Granted"))
  BY <1>4, NothingPending DEF Timely
<1>6. PICK p : p = Flushed(b)
  OBVIOUS
<1>7. \E n \in TimePairs :
        /\ p = [b EXCEPT !.pend = n] /\ n[1] <= t
        /\ s.con = "Enabled" =>
             /\ _toLogicalTime(s.now) <= _toLogicalTime(n)
             /\ \A g \in DOMAIN s.bounds : _toLogicalTime(n) <= s.bounds[g].ta
  <2>1. CASE s.con # "Enabled"
    <3>1. p = b
      BY <1>2, <1>6, <2>1, FlushedFree DEF Rest
    <3>2. p = [b EXCEPT !.pend = b.pend]
      BY <1>2, <3>1 DEF IsState
    <3> QED
      BY <1>2, <1>3, <2>1, <3>2, SMTT(40)
  <2>2. CASE s.con = "Enabled"
    <3>1. /\ b.now = s.now /\ b.tso = s.tso /\ b.bounds = s.bounds /\ b.con = "Enabled"
      BY <1>2, <2>2 DEF Rest
    <3>2. /\ \A g \in DOMAIN s.bounds : _toLogicalTime(s.now) <= s.bounds[g].ta
          /\ Each(s.tso, From(_toLogicalTime(s.now)))
      BY <2>2 DEF Timely, FloorOK
    <3>3. s.tso # <<>> => _toLogicalTime(s.now) <= Head(s.tso).at[1]
      <4> SUFFICES ASSUME s.tso # <<>> PROVE _toLogicalTime(s.now) <= Head(s.tso).at[1]
        OBVIOUS
      <4>1. PICK e : e = Head(s.tso)
        OBVIOUS
      <4>2. s.tso \in Seq(Entries)
        BY Fields
      <4>3. PICK x : x = <<e.at[1] + 1, 0>>
        OBVIOUS
      <4>4. e \in Entries
        BY <4>1, <4>2
      <4>5. e.at[1] \in Nat /\ e.at # x
        <5>1. e.at \in TimePairs
          BY <4>4 DEF Entries
        <5>2. e.at[1] \in Nat /\ x[1] = e.at[1] + 1
          BY <4>3, <5>1 DEF TimePairs
        <5> QED
          BY <5>2
      <4>6. e \in Dated(x)
        BY <1>5, <4>1, <4>2, EachTail
      <4>7. e \in From(_toLogicalTime(s.now))
        BY <3>2, <4>1, <4>2, EachTail
      <4> QED
        BY <4>1, <4>5, <4>6, <4>7 DEF Dated, From
    <3> QED
      BY <1>2, <1>6, <2>2, <3>1, <3>2, <3>3, FlushedLimited
  <2> QED
    BY <2>1, <2>2
<1>8. PICK n \in TimePairs :
        /\ p = [b EXCEPT !.pend = n] /\ n[1] <= t
        /\ s.con = "Enabled" =>
             /\ _toLogicalTime(s.now) <= _toLogicalTime(n)
             /\ \A g \in DOMAIN s.bounds : _toLogicalTime(n) <= s.bounds[g].ta
  BY <1>7
<1>9. /\ IsState(p) /\ Rest(s, p) /\ p.adv = "FQR" /\ p.pend = n /\ p.out = b.out /\ p.last = b.last
      /\ p.cTA = s.cTA /\ p.cNM = s.cNM /\ p.sent = s.sent
  <2>1. IsState(p)
    BY <1>2, <1>8, pendType
  <2>2. /\ Rest(b, p) /\ p.adv = b.adv /\ p.pend = n /\ p.out = b.out /\ p.last = b.last
        /\ p.cTA = b.cTA /\ p.cNM = b.cNM /\ p.sent = b.sent
    BY <1>2, <1>8 DEF IsState, Rest
  <2> QED
    BY <1>2, <2>1, <2>2 DEF Rest
<1>10. PICK d : d = Max2(n[1] + s.tgtLA, s.cTA)
  OBVIOUS
<1>11. /\ d \in Nat /\ s.cTA <= d
       /\ s.reg = "Enabled" => /\ s.cNM = s.cTA /\ d <= _toLogicalTime(b.out)
                               /\ d <= n[1] + s.tgtLA \/ d <= _toLogicalTime(s.out)
  <2>1. n[1] \in Nat
    BY <1>8 DEF TimePairs
  <2>2. d \in Nat /\ s.cTA <= d /\ (d = n[1] + s.tgtLA \/ d = s.cTA)
    BY <1>3, <1>10, <2>1 DEF Max2
  <2>3. s.reg = "Enabled" => s.cNM = s.cTA /\ s.cTA <= _toLogicalTime(s.out)
    BY DEF Timely, CommitOK
  <2>4. n[1] + s.tgtLA <= t + s.tgtLA
    BY <1>3, <1>8, <2>1
  <2> QED
    BY <1>2, <1>3, <2>1, <2>2, <2>3, <2>4
<1>12. PICK c : c = IF b.reg = "Enabled" THEN _sendCommitIfChanged(f, p, d, {"TA", "NM"}) ELSE p
  OBVIOUS
<1>13. timeAdvanceRequest(f, s, t, "FQR")
         = IF s.con = "Enabled" THEN [c EXCEPT !.sched = TRUE] ELSE queueAt(c, c.pend, Granted)
  <2>1. b.con = s.con /\ b.tgtLA = s.tgtLA /\ b.cTA = s.cTA
    BY <1>2 DEF Rest
  <2>2. d = Max2(p.pend[1] + b.tgtLA, b.cTA)
    BY <1>9, <1>10, <2>1
  <2>3. _flushQueueRequest(f, b) = IF b.con = "Enabled" THEN [c EXCEPT !.sched = TRUE]
                                   ELSE queueAt(c, c.pend, Granted)
    BY <1>6, <1>12, <2>2 DEF _flushQueueRequest, Flushed
  <2>4. timeAdvanceRequest(f, s, t, "FQR") = _flushQueueRequest(f, b)
    BY <1>1 DEF timeAdvanceRequest
  <2> QED
    BY <2>1, <2>3, <2>4
<1>14. s.reg = "Enabled" => Promised(f, p, c, d)
  BY <1>2, <1>9, <1>11, <1>12, sendCommitPromises DEF Rest
<1>15. s.reg # "Enabled" => c = p
  BY <1>2, <1>12 DEF Rest
<1>16. /\ IsState(c) /\ Rest(s, c) /\ c.adv = "FQR" /\ c.pend = n /\ c.out = b.out /\ c.last = b.last
  BY <1>9, <1>14, <1>15 DEF Promised, Rest
<1>17. ModesOK(c)
  BY <1>16 DEF Timely, ModesOK, Rest
<1>18. CommitOK(c)
  <2>1. CASE s.reg = "Enabled"
    BY <1>2, <1>11, <1>14, <1>16, <2>1 DEF Promised, CommitOK, Rest
  <2>2. CASE s.reg # "Enabled"
    BY <1>16, <2>2 DEF CommitOK, Rest, IsState, Modes
  <2> QED
    BY <2>1, <2>2
<1>19. FloorOK(c)
  BY <1>8, <1>16 DEF FloorOK, Timely, Rest
<1>20. ASSUME NEW r, Timely(r), r.reg = c.reg, r.sent = c.sent, r.cTA = c.cTA,
              Len(s.tso) <= Len(r.tso)
       PROVE  Goes(f, s, r)
  <2>1. CASE s.reg = "Enabled"
    <3>1. Goes(f, p, r)
      <4>1. Len(p.tso) <= Len(r.tso)
        BY <1>9, <1>20 DEF Rest
      <4>2. r.reg = "Enabled"
        BY <1>16, <1>20, <2>1 DEF Rest
      <4> QED
        BY <1>9, <1>11, <1>14, <1>20, <2>1, <4>1, <4>2, PromisedGoes
    <3> QED
      BY <1>9, <1>20, <3>1 DEF Goes
  <2>2. CASE s.reg # "Enabled"
    BY <1>9, <1>15, <1>20, <2>2, SilentGoes
  <2> QED
    BY <2>1, <2>2
<1>21. CASE s.con = "Enabled"
  <2>1. PICK r : r = [c EXCEPT !.sched = TRUE]
    OBVIOUS
  <2>2. Level(c, r) /\ r.tso = c.tso /\ r.sent = c.sent /\ r.bounds = c.bounds
    BY <1>16, <2>1 DEF IsState, Level
  <2>3. QueueOK(c)
    BY <1>5, <1>16 DEF QueueOK, Rest, Single, Some
  <2>4. Timely(r)
    BY <1>17, <1>18, <1>19, <2>2, <2>3 DEF Timely, ModesOK, QueueOK, CommitOK, FloorOK, Level
  <2>5. Len(s.tso) <= Len(r.tso)
    BY <1>16, <2>2, SameLength DEF Rest
  <2>6. Goes(f, s, r)
    BY <1>20, <2>2, <2>4, <2>5 DEF Level
  <2> QED
    BY <1>13, <1>21, <2>1, <2>6
<1>22. CASE s.con # "Enabled"
  <2>1. PICK r : r = queueAt(c, c.pend, Granted)
    OBVIOUS
  <2>2. Timely(r) /\ Level(c, r) /\ Len(c.tso) <= Len(r.tso) /\ r.sent = c.sent
    BY <1>4, <1>5, <1>16, <1>17, <1>18, <1>19, <1>22, <2>1, GrantQueued DEF Rest
  <2>3. Goes(f, s, r)
    BY <1>16, <1>20, <2>2 DEF Level, Rest
  <2> QED
    BY <1>13, <1>22, <2>1, <2>3
<1> QED
  BY <1>21, <1>22

LEMMA ExtendsConcat ==
  ASSUME NEW T, NEW q \in Seq(T), NEW c \in Seq(T), NEW M, \A i \in DOMAIN c : c[i] \in M
  PROVE  q \o c \in Seq(T) /\ Extends(q, q \o c, M)
<1>1. /\ q \o c \in Seq(T) /\ Len(q) \in Nat /\ Len(c) \in Nat
      /\ Len(q \o c) = Len(q) + Len(c)
      /\ DOMAIN q = 1 .. Len(q) /\ DOMAIN c = 1 .. Len(c)
      /\ DOMAIN (q \o c) = 1 .. Len(q) + Len(c)
      /\ \A i \in 1 .. Len(q) : (q \o c)[i] = q[i]
      /\ \A i \in 1 .. Len(c) : (q \o c)[Len(q) + i] = c[i]
  BY ConcatAt
<1>2. PICK u : u = q \o c
  OBVIOUS
<1>3. ASSUME NEW i \in DOMAIN u, Len(q) < i PROVE u[i] \in M
  <2>1. i - Len(q) \in DOMAIN c /\ Len(q) + (i - Len(q)) = i
    BY <1>1, <1>2, <1>3
  <2> QED
    BY <1>1, <1>2, <2>1
<1>4. Len(q) <= Len(u) /\ \A i \in DOMAIN q : u[i] = q[i]
  BY <1>1, <1>2
<1> QED
  BY <1>1, <1>2, <1>3, <1>4 DEF Extends

LEMMA CommitResponsesPlain ==
  ASSUME NEW f \in Federates, NEW s, IsState(s), NEW c, c = CommitResponses(f, s)
  PROVE  c \in Seq(ToServer) /\ \A i \in DOMAIN c : c[i] \in ToServer /\ c[i].type = "CommitResponse"
<1> DEFINE nm == getNextMessageFederates(s.bounds)
           R  == [g \in nm |-> CommitResponse(g, f, s.bounds[g].id)]
           C  == {CommitResponse(g, f, s.bounds[g].id) : g \in nm}
           P  == {m \in ToServer : m.type = "CommitResponse"}
<1>1. nm \in SUBSET Federates /\ \A g \in nm : s.bounds[g].id \in CommitIds
  BY Fields DEF getNextMessageFederates, IsMap, Commits
<1>2. IsFiniteSet(DOMAIN R)
  BY <1>1, FederatesFinite
<1>3. C = {R[g] : g \in DOMAIN R}
  OBVIOUS
<1>4. IsFiniteSet(C)
  <2> HIDE DEF R, C
  <2> QED
    BY <1>2, <1>3, ImageFinite
<1>5. C \in SUBSET P
  <2> SUFFICES ASSUME NEW g \in nm PROVE CommitResponse(g, f, s.bounds[g].id) \in P
    OBVIOUS
  <2>1. CommitResponse(g, f, s.bounds[g].id) \in CommitResponseMessages
    BY <1>1 DEF CommitResponse, CommitResponseMessages
  <2>2. CommitResponse(g, f, s.bounds[g].id).type = "CommitResponse"
    BY DEF CommitResponse
  <2> QED
    BY <2>1, <2>2 DEF Relayed, ToServer
<1>6. SetToSeq(C) \in Seq(P)
  <2> HIDE DEF C, P
  <2> QED
    BY <1>4, <1>5, SetToSeqType
<1>7. c \in Seq(P)
  BY <1>6 DEF CommitResponses
<1>8. c \in Seq(ToServer)
  BY CommitResponsesType
<1>9. \A i \in DOMAIN c : c[i] \in P
  <2> HIDE DEF P
  <2> QED
    BY <1>7, ElementsIn
<1> QED
  BY <1>8, <1>9

LEMMA enableTimeRegulationGoes ==
  ASSUME NEW f \in Federates, NEW s, IsState(s), LocalOK(s), Timely(s),
         s.adv = "Granted", s.reg = "Disabled", s.con # "EnablePending",
         NEW t \in Nat, NEW lookahead \in Nat
  PROVE  Goes(f, s, _enableTimeRegulation(f, s, t, lookahead))
<1> DEFINE pend  == PairMax(s.now, <<t, 0>>)
           bound == pend[1] + lookahead
           m     == EnableRequest(f, bound, s.commitId)
           a     == [s EXCEPT !.reg = "EnablePending", !.curLA = lookahead, !.tgtLA = lookahead,
                              !.pend = pend, !.out = <<bound, 0>>, !.last = <<bound, 0>>,
                              !.cTA = bound, !.cNM = bound,
                              !.enableSet = s.known \cup {f}, !.sent = Append(@, m)]
           r     == [a EXCEPT !.sent = @ \o CommitResponses(f, s)]
<1>1. pend \in TimePairs /\ s.now \in TimePairs
  BY Fields, PairTypes
<1>2. bound \in Nat
  BY <1>1, PairTypes
<1>3. _toLogicalTime(s.now) <= _toLogicalTime(pend)
  <2>1. PairLeq(s.now, pend)
    BY <1>1 DEF TimePairs, PairMax, PairLeq, PairLess
  <2> HIDE DEF pend
  <2> QED
    BY <1>1, <2>1, ToLogical
<1>4. _enableTimeRegulation(f, s, t, lookahead) = r
  <2> HIDE DEF bound, m
  <2> QED
    BY DEF _enableTimeRegulation, send, IsState, bound, m
<1> HIDE DEF pend, bound
<1>5. m \in ToServer /\ m.type = "EnableReg"
  <2>1. m \in EnableRequests
    BY <1>2, Fields DEF EnableRequest, EnableRequests
  <2> QED
    BY <2>1 DEF Relayed, ToServer, EnableRequests
<1> HIDE DEF m
<1>6. PICK c : c = CommitResponses(f, s)
  OBVIOUS
<1>7. c \in Seq(ToServer) /\ \A i \in DOMAIN c : c[i] \in ToServer /\ c[i].type = "CommitResponse"
  BY <1>6, CommitResponsesPlain
<1>8. PICK p : p = Append(s.sent, m)
  OBVIOUS
<1>9. s.sent \in Seq(ToServer) /\ p \in Seq(ToServer)
  BY <1>5, <1>8, Fields
<1>10. PICK u : u = p \o c
  OBVIOUS
<1>11. /\ r.member = s.member /\ r.reg = "EnablePending" /\ r.con = s.con /\ r.adv = s.adv
       /\ r.now = s.now /\ r.pend = pend /\ r.out = <<bound, 0>>
       /\ r.cTA = bound /\ r.cNM = bound /\ r.bounds = s.bounds /\ r.tso = s.tso
       /\ r.sent = u
  BY <1>6, <1>8, <1>10 DEF IsState
<1> HIDE DEF r, a
<1>12. ModesOK(r)
  BY <1>11 DEF ModesOK, Timely
<1>13. QueueOK(r)
  <2>1. ~Some(s.tso, Calling("RegulationEnabled")) /\ ~Some(s.tso, Calling("ConstrainedEnabled"))
    BY DEF LocalOK
  <2>2. Each(s.tso, Dated(pend)) /\ ~Some(s.tso, Calling("Granted"))
    BY <2>1, NothingPending DEF Timely
  <2> QED
    BY <1>11, <2>2 DEF QueueOK, Single, Some
<1>14. CommitOK(r)
  <2>1. _toLogicalTime(r.out) = bound
    BY <1>2, <1>11 DEF _toLogicalTime
  <2> QED
    BY <1>2, <1>11, <2>1 DEF CommitOK
<1>15. FloorOK(r)
  BY <1>3, <1>11 DEF FloorOK, Timely
<1>16. Timely(r)
  BY <1>12, <1>13, <1>14, <1>15 DEF Timely
<1>17. Extends(s.sent, p, Fresh(f, r))
  <2>1. m \in Fresh(f, r)
    BY <1>5, PlainFresh, MessageIn
  <2> QED
    BY <1>5, <1>8, <1>9, <2>1, ExtendsRefl, ExtendsAppend
<1>18. u \in Seq(ToServer) /\ Extends(p, u, Fresh(f, r))
  <2>1. \A i \in DOMAIN c : c[i] \in Fresh(f, r)
    BY <1>7, PlainFresh, MessageIn
  <2> QED
    BY <1>7, <1>9, <1>10, <2>1, ExtendsConcat
<1>19. Extends(s.sent, u, Fresh(f, r))
  BY <1>9, <1>17, <1>18, ExtendsTrans
<1>20. Goes(f, s, r)
  BY <1>11, <1>16, <1>19, SameLength DEF Goes
<1> QED
  BY <1>4, <1>20

LEMMA disableTimeRegulationGoes ==
  ASSUME NEW f \in Federates, NEW s, IsState(s), LocalOK(s), Timely(s), s.reg = "Enabled"
  PROVE  Goes(f, s, disableTimeRegulation(f, s))
<1>1. PICK t : t = disableTimeRegulation(f, s)
  OBVIOUS
<1>2. PICK m : m = DisableRequest(f)
  OBVIOUS
<1>3. m \in ToServer /\ m.type = "DisableReg"
  BY <1>2, NoticeTypes DEF DisableRequest
<1>4. /\ t.member = s.member /\ t.reg = "Disabled" /\ t.con = s.con /\ t.adv = s.adv
      /\ t.now = s.now /\ t.pend = s.pend /\ t.bounds = s.bounds /\ t.tso = s.tso
      /\ t.sent = Append(s.sent, m)
  BY <1>1, <1>2 DEF disableTimeRegulation, send, IsState
<1>5. Timely(t)
  BY <1>4 DEF Timely, ModesOK, QueueOK, CommitOK, FloorOK
<1>6. m \in Fresh(f, t)
  BY <1>3, PlainFresh, MessageIn
<1>7. Goes(f, s, t)
  BY <1>3, <1>4, <1>5, <1>6, SendsGoes, SameLength
<1> QED
  BY <1>1, <1>7

LEMMA disableTimeConstrainedGoes ==
  ASSUME NEW f \in Federates, NEW s, IsState(s), LocalOK(s), Timely(s), s.con = "Enabled",
         s.adv = "Granted"
  PROVE  Goes(f, s, disableTimeConstrained(f, s))
<1>1. PICK t : t = disableTimeConstrained(f, s)
  OBVIOUS
<1>2. PICK m : m = UnconstrainedNotify(f)
  OBVIOUS
<1>3. m \in ToServer /\ m.type = "DisableCon"
  BY <1>2, NoticeTypes DEF UnconstrainedNotify
<1>4. /\ t.member = s.member /\ t.reg = s.reg /\ t.con = "Disabled" /\ t.adv = s.adv
      /\ t.now = s.now /\ t.pend = s.pend /\ t.bounds = s.bounds /\ t.tso = s.tso
      /\ t.out = s.out /\ t.last = s.last /\ t.cTA = s.cTA /\ t.cNM = s.cNM /\ t.tgtLA = s.tgtLA
      /\ t.sent = Append(s.sent, m)
  BY <1>1, <1>2 DEF disableTimeConstrained, send, IsState
<1>5. Timely(t)
  BY <1>4 DEF Timely, ModesOK, QueueOK, CommitOK, FloorOK
<1>6. m \in Fresh(f, t)
  BY <1>3, PlainFresh, MessageIn
<1>7. Goes(f, s, t)
  BY <1>3, <1>4, <1>5, <1>6, SendsGoes, SameLength
<1> QED
  BY <1>1, <1>7

LEMMA enableTimeConstrainedGoes ==
  ASSUME NEW f \in Federates, NEW s, IsState(s), LocalOK(s), Timely(s), s.con = "Disabled",
         s.adv = "Granted", s.reg # "EnablePending", s.member = "in"
  PROVE  Goes(f, s, enableTimeConstrained(f, s))
<1>1. PICK pend : pend = <<s.now[1], 0>>
  OBVIOUS
<1>2. PICK r : r = [s EXCEPT !.con = "EnablePending", !.pend = pend]
  OBVIOUS
<1>3. PICK k : k = ConstrainedEnabled
  OBVIOUS
<1>4. PICK q : q = queueAt(r, pend, k)
  OBVIOUS
<1>5. PICK m : m = ConstrainedNotify(f)
  OBVIOUS
<1>6. PICK t : t = send(q, m)
  OBVIOUS
<1>7. enableTimeConstrained(f, s) = t
  BY <1>1, <1>2, <1>3, <1>4, <1>5, <1>6 DEF enableTimeConstrained
<1>8. pend \in TimePairs
  BY <1>1, Fields, PairTypes DEF TimePairs
<1>9. /\ IsState(r) /\ r.member = s.member /\ r.reg = s.reg /\ r.con = "EnablePending"
      /\ r.adv = s.adv /\ r.now = s.now /\ r.pend = pend /\ r.bounds = s.bounds /\ r.tso = s.tso
      /\ r.out = s.out /\ r.last = s.last /\ r.cTA = s.cTA /\ r.cNM = s.cNM /\ r.tgtLA = s.tgtLA
      /\ r.sent = s.sent
  BY <1>2, <1>8, ZenonT(60) DEF IsState, Modes
<1>10. k \in Callbacks /\ k.type = "ConstrainedEnabled"
  BY <1>3, NotificationTypes DEF ConstrainedEnabled
<1>11. m \in ToServer /\ m.type = "EnableCon"
  BY <1>5, NoticeTypes DEF ConstrainedNotify
<1>12. Sorted(r.tso)
  BY <1>9 DEF LocalOK
<1>13. /\ IsState(q) /\ Level(r, q) /\ q.bounds = r.bounds /\ q.sent = r.sent
       /\ Inserted(r.tso, q.tso, pend, k)
  BY <1>4, <1>8, <1>9, <1>10, <1>12, CallbackQueued
<1>14. Level(q, t) /\ t.bounds = q.bounds /\ t.tso = q.tso /\ t.sent = Append(q.sent, m)
  BY <1>6, <1>13 DEF send, IsState, Level
<1>15. ~Some(s.tso, Calling("RegulationEnabled")) /\ ~Some(s.tso, Calling("ConstrainedEnabled"))
  BY DEF LocalOK
<1>16. Each(s.tso, Dated(pend)) /\ ~Some(s.tso, Calling("Granted"))
  BY <1>15, NothingPending DEF Timely
<1>17. QueueOK(t)
  <2>1. \A e \in Entries : e.at = pend /\ e.msg = k => e \in Dated(pend)
    BY <1>10 DEF Dated
  <2>2. Each(q.tso, Dated(pend)) /\ ~Some(q.tso, Calling("Granted"))
    BY <1>9, <1>10, <1>13, <1>16, <2>1 DEF Inserted
  <2> QED
    BY <1>9, <1>13, <1>14, <2>2 DEF QueueOK, Level, Single, Some
<1>18. t.con = "EnablePending" /\ t.adv = "Granted" /\ t.reg = s.reg /\ t.member = "in"
  BY <1>9, <1>13, <1>14 DEF Level
<1>19. ModesOK(t) /\ CommitOK(t) /\ FloorOK(t)
  BY <1>9, <1>13, <1>14, <1>18 DEF Timely, ModesOK, CommitOK, FloorOK, Level
<1>20. Timely(t)
  BY <1>17, <1>19 DEF Timely
<1>21. m \in Fresh(f, t)
  BY <1>11, PlainFresh, MessageIn
<1>22. t.sent = Append(s.sent, m) /\ Len(s.tso) <= Len(t.tso)
  BY <1>9, <1>13, <1>14 DEF Inserted
<1>23. Goes(f, s, t)
  BY <1>11, <1>20, <1>21, <1>22, SendsGoes
<1> QED
  BY <1>7, <1>23

LEMMA modifyLookaheadGoes ==
  ASSUME NEW f \in Federates, NEW s, IsState(s), LocalOK(s), Timely(s), s.reg = "Enabled",
         s.adv = "Granted", NEW lookahead \in Nat
  PROVE  Goes(f, s, modifyLookahead(f, s, lookahead))
<1>1. PICK a : a = [s EXCEPT !.tgtLA = lookahead, !.last = s.out]
  OBVIOUS
<1>2. /\ IsState(a) /\ a.member = s.member /\ a.reg = s.reg /\ a.con = s.con /\ a.adv = s.adv
      /\ a.now = s.now /\ a.pend = s.pend /\ a.bounds = s.bounds /\ a.tso = s.tso
      /\ a.cTA = s.cTA /\ a.cNM = s.cNM /\ a.sent = s.sent
  BY <1>1, Fields DEF IsState
<1>3. s.now[1] \in Nat /\ s.out \in TimePairs
  BY Fields, PairTypes
<1>4. PICK b : b = _setOutboundLowerTimeStampAndCurrentLookahead(a, s.now[1], s.out)
  OBVIOUS
<1>5. /\ IsState(b) /\ Rest(a, b) /\ b.adv = a.adv /\ b.pend = a.pend
      /\ b.cTA = a.cTA /\ b.cNM = a.cNM /\ b.sent = a.sent
      /\ _toLogicalTime(s.out) <= _toLogicalTime(b.out)
  BY <1>2, <1>3, <1>4, OutboundKept, SMTT(40)
<1>6. PICK d : d = _toLogicalTime(b.out)
  OBVIOUS
<1>7. d \in Nat /\ b.cTA \in Nat /\ _toLogicalTime(s.out) \in Nat
  BY <1>3, <1>5, <1>6, Fields, PairTypes
<1>8. b.cNM = b.cTA /\ b.cTA <= d
  BY <1>2, <1>5, <1>6, <1>7 DEF Timely, CommitOK
<1>9. PICK c : c = modifyLookahead(f, s, lookahead)
  OBVIOUS
<1>10. Promised(f, b, c, d)
  <2>1. c = _sendCommitIfChanged(f, b, d, {"TA", "NM"})
    BY <1>1, <1>4, <1>6, <1>9 DEF modifyLookahead
  <2> QED
    BY <1>5, <1>7, <1>8, <2>1, sendCommitPromises
<1>11. /\ c.member = s.member /\ c.reg = s.reg /\ c.con = s.con /\ c.adv = s.adv
       /\ c.now = s.now /\ c.pend = s.pend /\ c.bounds = s.bounds /\ c.tso = s.tso
       /\ c.cTA = d /\ c.cNM = d /\ _toLogicalTime(c.out) = d
  BY <1>2, <1>5, <1>6, <1>10 DEF Promised, Rest
<1>12. Timely(c)
  <2>1. d <= d
    BY <1>7
  <2> QED
    BY <1>11, <2>1 DEF Timely, ModesOK, QueueOK, CommitOK, FloorOK
<1>13. b.tso = s.tso /\ b.sent = s.sent
  BY <1>2, <1>5 DEF Rest
<1>14. Goes(f, b, c)
  <2>1. Len(b.tso) <= Len(c.tso)
    BY <1>11, <1>13, SameLength
  <2> QED
    BY <1>5, <1>7, <1>10, <1>11, <1>12, <2>1, PromisedGoes
<1>15. Goes(f, s, c)
  BY <1>13, <1>14 DEF Goes
<1> QED
  BY <1>9, <1>15

\* A message that is not in the past is not below what was committed.
LEMMA sendGoes ==
  ASSUME NEW f \in Federates, NEW s, IsState(s), LocalOK(s), Timely(s), NEW t \in Nat,
         s.reg = "Enabled" => ~logicalTimeAlreadyPassed(s, t),
         NEW m, m = TimeStamped(f, t, IF s.reg = "Enabled" THEN "TSO" ELSE "RO")
  PROVE  Goes(f, s, send(s, m))
<1>1. PICK r : r = send(s, m)
  OBVIOUS
<1>2. Level(s, r) /\ r.tso = s.tso /\ r.bounds = s.bounds /\ r.sent = Append(s.sent, m)
  BY <1>1 DEF send, IsState, Level
<1>3. m \in DataMessages /\ m.type = "Data" /\ m.from = f /\ m.ts = t
      /\ m.order = IF s.reg = "Enabled" THEN "TSO" ELSE "RO"
  BY DEF TimeStamped, DataMessages
<1>4. m \in ToServer /\ m \in Messages
  BY <1>3, RelayedTypes, MessageIn
<1>5. \A g \in DOMAIN r.bounds : Within(s, r.bounds[g].ta)
  BY <1>2, BoundsWithin
<1>6. Timely(r)
  BY <1>2, <1>5, LevelTimely
<1>7. m \in Fresh(f, r)
  <2>1. CASE s.reg # "Enabled"
    BY <1>3, <1>4, <2>1 DEF Fresh, Stamps, Advances, TSO, Of
  <2>2. CASE s.reg = "Enabled"
    <3>1. ~logicalTimeAlreadyPassed(s, t)
      BY <2>2
    <3>2. s.out \in TimePairs /\ s.cTA \in Nat
      BY Fields
    <3>3. ~(IF s.out[2] # 0 THEN t <= s.out[1] ELSE t < s.out[1])
      <4>1. ~getIsAnyNextMessageMode(s)
        BY DEF Timely, ModesOK, getIsAnyNextMessageMode
      <4> QED
        BY <3>1, <4>1 DEF logicalTimeAlreadyPassed
    <3>4. _toLogicalTime(s.out) <= t /\ _toLogicalTime(s.out) \in Nat
      BY <3>2, <3>3 DEF TimePairs, _toLogicalTime, nextAfter
    <3>5. s.cTA <= _toLogicalTime(s.out)
      BY <2>2 DEF Timely, CommitOK
    <3>6. r.cTA <= m.ts /\ Promising(r)
      BY <1>2, <1>3, <2>2, <3>2, <3>4, <3>5 DEF Level, Promising
    <3> QED
      BY <1>3, <1>4, <3>6 DEF Fresh, Stamps, Advances, TSO, Of
  <2> QED
    BY <2>1, <2>2
<1>8. Goes(f, s, r)
  BY <1>2, <1>4, <1>6, <1>7, SendsGoes, SameLength
<1> QED
  BY <1>1, <1>8

LEMMA switchGoes ==
  ASSUME NEW f, NEW s, IsState(s), Timely(s)
  PROVE  /\ Goes(f, s, [s EXCEPT !.async = ~@])
         /\ Goes(f, s, [s EXCEPT !.allowPend = ~@])
<1>1. ASSUME NEW r, r = [s EXCEPT !.async = ~@] \/ r = [s EXCEPT !.allowPend = ~@]
      PROVE  Goes(f, s, r)
  <2>1. Level(s, r) /\ r.tso = s.tso /\ r.bounds = s.bounds /\ r.sent = s.sent
    BY <1>1 DEF IsState, Level
  <2>2. \A g \in DOMAIN r.bounds : Within(s, r.bounds[g].ta)
    BY <2>1, BoundsWithin
  <2> QED
    BY <2>1, <2>2, LevelGoes
<1> QED
  BY <1>1

-----------------------------------------------------------------------------
(* What its callbacks do *)

\* When a confirmation or a grant is due, its time is within the bounds, and no message
\* before that time is left.
LEMMA Due ==
  ASSUME NEW s, IsState(s), Sorted(s.tso), s.tso # <<>>, Each(s.tso, Dated(s.pend)),
         Head(s.tso).msg.type # "Data", canAdvanceTo(s.bounds, Head(s.tso).at)
  PROVE  /\ \A g \in DOMAIN s.bounds : _toLogicalTime(s.pend) <= s.bounds[g].ta
         /\ Each(Tail(s.tso), From(_toLogicalTime(s.pend)))
<1>1. s.tso \in Seq(Entries) /\ s.pend \in TimePairs /\ HasBounds(s.bounds)
  BY Fields, BoundsTypes
<1>2. Head(s.tso) \in Dated(s.pend) /\ Each(Tail(s.tso), Dated(s.pend))
  BY <1>1, EachTail
<1>3. Head(s.tso).at = s.pend
  BY <1>2 DEF Dated
<1>4. \A g \in DOMAIN s.bounds : _toLogicalTime(s.pend) <= s.bounds[g].ta
  BY <1>1, <1>3, canAdvanceToSafe
<1>5. PICK t : t = Tail(s.tso)
  OBVIOUS
<1>6. /\ Head(s.tso) = s.tso[1] /\ Len(s.tso) \in Nat \ {0}
      /\ DOMAIN t = 1 .. Len(s.tso) - 1 /\ DOMAIN s.tso = 1 .. Len(s.tso)
      /\ \A i \in 1 .. Len(s.tso) - 1 : t[i] = s.tso[i + 1]
  BY <1>1, <1>5, TailAt
<1>7. ASSUME NEW i \in DOMAIN t PROVE t[i] \in From(_toLogicalTime(s.pend))
  <2>1. PICK e : e = t[i]
    OBVIOUS
  <2>2. e \in Dated(s.pend) /\ e \in Entries
    BY <1>2, <1>5, <2>1 DEF Each, Dated
  <2>3. PairLeq(s.pend, e.at)
    <3>1. 1 \in DOMAIN s.tso /\ i + 1 \in DOMAIN s.tso /\ 1 < i + 1
      BY <1>6
    <3> QED
      BY <1>3, <1>6, <2>1, <3>1 DEF Sorted
  <2>4. ASSUME e.msg.type = "Data" PROVE _toLogicalTime(s.pend) <= e.msg.ts
    <3>1. e.at \in TimePairs /\ e.at[1] = e.msg.ts /\ e.at[2] = -1
      <4>1. e.at \in TimePairs
        BY <2>2 DEF Entries
      <4>2. e.at # s.pend \/ e.at = s.pend
        OBVIOUS
      <4> QED
        BY <2>2, <2>4, <4>1 DEF Dated
    <3> QED
      BY <1>1, <2>3, <3>1 DEF TimePairs, PairLeq, PairLess, _toLogicalTime, nextAfter
  <2> QED
    BY <2>1, <2>2, <2>4 DEF From
<1>8. Each(t, From(_toLogicalTime(s.pend)))
  BY <1>7 DEF Each
<1> QED
  BY <1>4, <1>5, <1>8

\* The grant ends the advance.
LEMMA grantedGoes ==
  ASSUME NEW t, IsState(t), ModesOK(t), CommitOK(t), t.adv # "Granted",
         Each(t.tso, Dated(t.pend)), ~Some(t.tso, Calling("Granted")),
         t.con = "Enabled" =>
           /\ \A g \in DOMAIN t.bounds : _toLogicalTime(t.pend) <= t.bounds[g].ta
           /\ Each(t.tso, From(_toLogicalTime(t.pend))),
         NEW r, r = acceptTimeAdvanceGranted(t)
  PROVE  Timely(r) /\ r.sent = t.sent /\ r.tso = t.tso
<1>1. PICK b : b = IF (getIsAnyNextMessageMode(t) \/ t.adv = "FQR") /\ t.reg = "Enabled"
                   THEN _setOutboundLowerTimeStampAndCurrentLookahead(t, t.pend[1], t.last)
                   ELSE t
  OBVIOUS
<1>2. r = [b EXCEPT !.now = t.pend, !.adv = "Granted"]
  BY <1>1 DEF acceptTimeAdvanceGranted
<1>3. t.pend \in TimePairs /\ t.last \in TimePairs /\ t.pend[1] \in Nat /\ t.out \in TimePairs
      /\ t.cTA \in Nat /\ t.tgtLA \in Nat
  BY Fields, PairTypes
<1>4. /\ IsState(b) /\ Rest(t, b) /\ b.pend = t.pend
      /\ b.cTA = t.cTA /\ b.cNM = t.cNM /\ b.sent = t.sent
      /\ t.reg # "Disabled" => t.cNM = t.cTA /\ t.cTA <= _toLogicalTime(b.out)
  <2>1. CASE ~((getIsAnyNextMessageMode(t) \/ t.adv = "FQR") /\ t.reg = "Enabled")
    BY <1>1, <2>1 DEF Rest, CommitOK
  <2>2. CASE (getIsAnyNextMessageMode(t) \/ t.adv = "FQR") /\ t.reg = "Enabled"
    <3>1. b = _setOutboundLowerTimeStampAndCurrentLookahead(t, t.pend[1], t.last)
      BY <1>1, <2>2
    <3>2. t.adv = "FQR"
      BY <2>2 DEF ModesOK, getIsAnyNextMessageMode
    <3>3. /\ IsState(b) /\ Rest(t, b) /\ b.pend = t.pend
          /\ b.cTA = t.cTA /\ b.cNM = t.cNM /\ b.sent = t.sent
          /\ _toLogicalTime(t.last) <= _toLogicalTime(b.out)
          /\ t.pend[1] + t.tgtLA <= _toLogicalTime(b.out)
      <4>1. PICK k : k = t.pend[1]
        OBVIOUS
      <4>2. PICK l : l = t.last
        OBVIOUS
      <4>3. k \in Nat /\ l \in TimePairs
        BY <1>3, <4>1, <4>2
      <4>4. b = _setOutboundLowerTimeStampAndCurrentLookahead(t, k, l)
        BY <3>1, <4>1, <4>2
      <4>5. /\ IsState(b) /\ Rest(t, b) /\ b.pend = t.pend
            /\ b.cTA = t.cTA /\ b.cNM = t.cNM /\ b.sent = t.sent
            /\ _toLogicalTime(l) <= _toLogicalTime(b.out)
            /\ k + t.tgtLA <= _toLogicalTime(b.out)
        BY <4>3, <4>4, OutboundKept
      <4> QED
        BY <4>1, <4>2, <4>5
    <3>4. t.cNM = t.cTA /\ (t.cTA <= t.pend[1] + t.tgtLA \/ t.cTA <= _toLogicalTime(t.last))
      BY <2>2, <3>2 DEF CommitOK
    <3>5. _toLogicalTime(t.last) \in Nat /\ _toLogicalTime(b.out) \in Nat
      BY <1>3, <3>3, Fields, PairTypes
    <3> QED
      BY <1>3, <3>3, <3>4, <3>5
  <2> QED
    BY <2>1, <2>2
<1>5. /\ r.member = t.member /\ r.reg = t.reg /\ r.con = t.con /\ r.adv = "Granted"
      /\ r.now = t.pend /\ r.pend = t.pend /\ r.bounds = t.bounds /\ r.tso = t.tso
      /\ r.cTA = b.cTA /\ r.cNM = b.cNM /\ r.out = b.out /\ r.sent = t.sent
  BY <1>2, <1>4 DEF IsState, Rest
<1>6. ModesOK(r) /\ QueueOK(r) /\ CommitOK(r)
  BY <1>4, <1>5 DEF ModesOK, QueueOK, CommitOK, Single, Some
<1>7. FloorOK(r)
  <2>1. _toLogicalTime(t.pend) <= _toLogicalTime(t.pend)
    BY <1>3, PairTypes
  <2> QED
    BY <1>5, <2>1 DEF FloorOK
<1> QED
  BY <1>5, <1>6, <1>7 DEF Timely

\* One entry leaves the queue.
LEMMA TakenQueue ==
  ASSUME NEW s, IsState(s), s.tso # <<>>, QueueOK(s), NEW t, t = [s EXCEPT !.tso = Tail(@)]
  PROVE  /\ IsState(t) /\ Level(s, t) /\ t.bounds = s.bounds /\ t.sent = s.sent
         /\ t.enableSet = s.enableSet /\ t.tso = Tail(s.tso)
         /\ Each(t.tso, Dated(s.pend))
         /\ Single(t.tso, Calling("Granted"))
         /\ Some(t.tso, Calling("Granted")) => Some(s.tso, Calling("Granted"))
         /\ Head(s.tso).msg.type = "Granted" =>
              Some(s.tso, Calling("Granted")) /\ ~Some(t.tso, Calling("Granted"))
         /\ \A X : Each(s.tso, X) => Each(t.tso, X)
<1>1. s.tso \in Seq(Entries) /\ Tail(s.tso) \in Seq(Entries) /\ Head(s.tso) \in Entries
  BY Fields, TailAt
<1>2. Level(s, t) /\ t.bounds = s.bounds /\ t.sent = s.sent /\ t.tso = Tail(s.tso)
      /\ t.enableSet = s.enableSet
  BY DEF IsState, Level
<1>3. IsState(t)
  <2>1. ASSUME NEW q \in Seq(Entries) PROVE IsState([s EXCEPT !.tso = q])
    BY DEF IsState, Entries
  <2> QED
    BY <1>1, <2>1
<1>4. ASSUME NEW X
      PROVE  /\ Some(s.tso, X) <=> Head(s.tso) \in X \/ Some(t.tso, X)
             /\ Single(s.tso, X) => Single(t.tso, X) /\ (Head(s.tso) \in X => ~Some(t.tso, X))
  BY <1>1, <1>2, SomeTail, SingleTail
<1>5. \A X : Each(s.tso, X) => Each(t.tso, X)
  BY <1>1, <1>2, EachTail
<1>6. Each(t.tso, Dated(s.pend)) /\ Single(s.tso, Calling("Granted"))
  BY <1>5 DEF QueueOK
<1>7. Head(s.tso).msg.type = "Granted" => Head(s.tso) \in Calling("Granted")
  BY <1>1 DEF Calling
<1> QED
  BY <1>2, <1>3, <1>4, <1>5, <1>6, <1>7

\* A confirmation ends the wait.
Confirmed(t, r) ==
  /\ r.member = t.member /\ r.adv = t.adv
  /\ r.now = t.pend /\ r.pend = t.pend /\ r.bounds = t.bounds /\ r.tso = t.tso
  /\ r.cTA = t.cTA /\ r.cNM = t.cNM /\ r.out = t.out /\ r.sent = t.sent

LEMMA regulationConfirmed ==
  ASSUME NEW t, IsState(t), NEW r, r = [t EXCEPT !.reg = "Enabled", !.now = t.pend]
  PROVE  Confirmed(t, r) /\ r.reg = "Enabled" /\ r.con = t.con
BY DEF IsState, Confirmed

LEMMA constrainedConfirmed ==
  ASSUME NEW t, IsState(t), NEW r, r = [t EXCEPT !.con = "Enabled", !.now = t.pend]
  PROVE  Confirmed(t, r) /\ r.con = "Enabled" /\ r.reg = t.reg
BY DEF IsState, Confirmed

\* The first entry is due: the messages are taken, a confirmation or a grant ends the wait.
LEMMA callbackGoes ==
  ASSUME NEW s, IsState(s), LocalOK(s), Timely(s), timeStampOrderCallback(s), s.member = "in",
         NEW t, t = [s EXCEPT !.tso = Tail(@)], NEW r, r = acceptCallback(t, Head(s.tso).msg)
  PROVE  Timely(r) /\ r.sent = s.sent
<1>1. s.tso # <<>> /\ _timeStampOrderMessagesPermitted(s)
  BY DEF timeStampOrderCallback
<1>3. PICK e : e = Head(s.tso)
  OBVIOUS
<1>4. r = acceptCallback(t, e.msg)
  BY <1>3
<1>5. QueueOK(s) /\ ModesOK(s) /\ CommitOK(s) /\ FloorOK(s) /\ Sorted(s.tso)
  BY DEF Timely, LocalOK
<1>6. /\ IsState(t) /\ Level(s, t) /\ t.bounds = s.bounds /\ t.sent = s.sent /\ t.tso = Tail(s.tso)
      /\ Each(t.tso, Dated(s.pend))
      /\ Single(t.tso, Calling("Granted"))
      /\ Some(t.tso, Calling("Granted")) => Some(s.tso, Calling("Granted"))
      /\ e.msg.type = "Granted" => Some(s.tso, Calling("Granted")) /\ ~Some(t.tso, Calling("Granted"))
      /\ \A X : Each(s.tso, X) => Each(t.tso, X)
  BY <1>1, <1>3, <1>5, TakenQueue
<1>7. e \in Entries /\ e.msg \in Callbacks
  <2>1. s.tso \in Seq(Entries)
    BY Fields
  <2>2. e \in Entries
    BY <1>1, <1>3, <2>1
  <2> QED
    BY <2>2 DEF Entries
<1>8. e.msg.type \in {"Granted", "RegulationEnabled", "ConstrainedEnabled", "Data"}
  BY <1>7 DEF Callbacks, DataMessages
<1>9. \A type : e.msg.type = type => Some(s.tso, Calling(type))
  <2>1. s.tso \in Seq(Entries)
    BY Fields
  <2>2. Head(s.tso) = s.tso[1] /\ 1 \in DOMAIN s.tso
    <3>1. Head(s.tso) = s.tso[1] /\ Len(s.tso) \in Nat \ {0} /\ DOMAIN s.tso = 1 .. Len(s.tso)
      BY <1>1, <2>1, TailAt
    <3> QED
      BY <3>1
  <2> QED
    BY <1>3, <1>7, <2>2 DEF Calling, Some
<1>10. ASSUME e.msg.type # "Data", s.con # "Disabled", s.adv # "FQR"
       PROVE  /\ \A g \in DOMAIN s.bounds : _toLogicalTime(s.pend) <= s.bounds[g].ta
              /\ Each(t.tso, From(_toLogicalTime(s.pend)))
  <2>1. canAdvanceTo(s.bounds, Head(s.tso).at)
    BY <1>1, <1>10 DEF _timeStampOrderMessagesPermitted, getTimeConstrainedEnabledOrPending,
                       getLeastIncomingTimepair
  <2> QED
    BY <1>1, <1>3, <1>5, <1>6, <1>10, <2>1, Due DEF QueueOK
<1>11. CASE e.msg.type = "Granted"
  <2>1. r = acceptTimeAdvanceGranted(t)
    BY <1>4, <1>11 DEF acceptCallback
  <2>2. s.adv # "Granted" /\ (s.con = "Enabled" => s.adv # "FQR")
    BY <1>5, <1>6, <1>11 DEF QueueOK
  <2>3. ModesOK(t) /\ CommitOK(t) /\ t.adv # "Granted" /\ ~Some(t.tso, Calling("Granted"))
        /\ Each(t.tso, Dated(t.pend))
    BY <1>5, <1>6, <1>11, <2>2 DEF ModesOK, CommitOK, Level
  <2>4. t.con = "Enabled" =>
           /\ \A g \in DOMAIN t.bounds : _toLogicalTime(t.pend) <= t.bounds[g].ta
           /\ Each(t.tso, From(_toLogicalTime(t.pend)))
    BY <1>6, <1>10, <1>11, <2>2 DEF Level
  <2> QED
    BY <1>6, <2>1, <2>3, <2>4, grantedGoes
<1>12. CASE e.msg.type = "RegulationEnabled"
  <2>1. Confirmed(t, r) /\ r.reg = "Enabled" /\ r.con = t.con
    <3>1. r = [t EXCEPT !.reg = "Enabled", !.now = t.pend]
      BY <1>4, <1>12 DEF acceptCallback
    <3>2. IsState(t)
      BY <1>6
    <3> QED
      BY <3>1, <3>2, regulationConfirmed
  <2>2. s.reg = "EnablePending" /\ s.adv = "Granted" /\ s.con # "EnablePending"
    BY <1>5, <1>9, <1>12 DEF LocalOK, ModesOK
  <2>3. /\ r.member = s.member /\ r.reg = "Enabled" /\ r.con = s.con /\ r.adv = "Granted"
        /\ r.now = s.pend /\ r.pend = s.pend /\ r.bounds = s.bounds /\ r.tso = t.tso
        /\ r.cTA = s.cTA /\ r.cNM = s.cNM /\ r.out = s.out /\ r.sent = s.sent
    BY <1>6, <2>1, <2>2 DEF Level, Confirmed
  <2>4. ModesOK(r) /\ QueueOK(r) /\ CommitOK(r)
    BY <1>5, <1>6, <2>2, <2>3, SMTT(40) DEF ModesOK, QueueOK, CommitOK
  <2>5. FloorOK(r)
    <3>1. _toLogicalTime(s.pend) <= _toLogicalTime(s.pend)
      BY Fields, PairTypes
    <3> QED
      BY <1>10, <1>12, <2>2, <2>3, <3>1 DEF FloorOK
  <2> QED
    BY <2>3, <2>4, <2>5 DEF Timely
<1>13. CASE e.msg.type = "ConstrainedEnabled"
  <2>1. Confirmed(t, r) /\ r.con = "Enabled" /\ r.reg = t.reg
    <3>1. r = [t EXCEPT !.con = "Enabled", !.now = t.pend]
      BY <1>4, <1>13 DEF acceptCallback
    <3>2. IsState(t)
      BY <1>6
    <3> QED
      BY <3>1, <3>2, constrainedConfirmed
  <2>2. s.con = "EnablePending" /\ s.adv = "Granted" /\ s.reg # "EnablePending"
    BY <1>5, <1>9, <1>13 DEF LocalOK, ModesOK
  <2>3. /\ r.member = "in" /\ r.reg = s.reg /\ r.con = "Enabled" /\ r.adv = "Granted"
        /\ r.now = s.pend /\ r.pend = s.pend /\ r.bounds = s.bounds /\ r.tso = t.tso
        /\ r.cTA = s.cTA /\ r.cNM = s.cNM /\ r.out = s.out /\ r.sent = s.sent
    BY <1>6, <2>1, <2>2 DEF Level, Confirmed
  <2>4. ModesOK(r) /\ QueueOK(r) /\ CommitOK(r)
    BY <1>5, <1>6, <2>2, <2>3, SMTT(40) DEF ModesOK, QueueOK, CommitOK
  <2>5. FloorOK(r)
    <3>1. _toLogicalTime(s.pend) <= _toLogicalTime(s.pend)
      BY Fields, PairTypes
    <3> QED
      BY <1>10, <1>13, <2>2, <2>3, <3>1 DEF FloorOK
  <2> QED
    BY <2>3, <2>4, <2>5 DEF Timely
<1>14. CASE e.msg.type = "Data"
  <2>1. r = t
    BY <1>4, <1>14 DEF acceptCallback
  <2>2. ModesOK(t) /\ QueueOK(t) /\ CommitOK(t) /\ FloorOK(t)
    BY <1>5, <1>6 DEF ModesOK, QueueOK, CommitOK, FloorOK, Level
  <2> QED
    BY <1>6, <2>1, <2>2 DEF Timely
<1> QED
  BY <1>8, <1>11, <1>12, <1>13, <1>14

LEMMA dispatchGoes ==
  ASSUME NEW f, NEW u, IsState(u), LocalOK(u), Timely(u), u.member = "in",
         NEW s, s = checkForPendingFlushQueue(u), timeStampOrderCallback(s),
         NEW t, t = [s EXCEPT !.tso = Tail(@)], NEW r, r = acceptCallback(t, Head(s.tso).msg)
  PROVE  Timely(r) /\ r.sent = u.sent
<1>1. CASE ~(u.tso = <<>> /\ u.adv = "FQR" /\ u.sched)
  <2>1. s = u
    BY <1>1 DEF checkForPendingFlushQueue
  <2>2. IsState(s) /\ LocalOK(s) /\ Timely(s) /\ s.member = "in"
    BY <2>1
  <2>3. Timely(r) /\ r.sent = s.sent
    BY <2>2, callbackGoes
  <2> QED
    BY <2>1, <2>3
<1>2. CASE u.tso = <<>> /\ u.adv = "FQR" /\ u.sched
  <2>1. PICK b : b = [u EXCEPT !.sched = FALSE]
    OBVIOUS
  <2>2. /\ IsState(b) /\ Level(u, b) /\ b.bounds = u.bounds /\ b.sent = u.sent /\ b.tso = u.tso
    BY <2>1, schedType DEF IsState, Level
  <2>3. PICK k : k = Granted
    OBVIOUS
  <2>4. k \in Callbacks /\ k.type = "Granted"
    BY <2>3, NotificationTypes DEF Granted
  <2>5. s = queueAt(b, u.pend, k)
    BY <1>2, <2>1, <2>3 DEF checkForPendingFlushQueue
  <2>6. PICK e : e = [at |-> u.pend, msg |-> k]
    OBVIOUS
  <2>7. s.tso = <<e>>
    <3>1. Len(b.tso) = 0
      BY <1>2, <2>2
    <3>2. s.tso = [i \in 1 .. 1 |-> e]
      <4>1. s.tso = [i \in 1 .. Len(b.tso) + 1 |->
                       IF i <= Len(b.tso) /\ PairLeq(b.tso[i].at, u.pend) THEN b.tso[i]
                       ELSE IF i = 1 \/ (i - 1 <= Len(b.tso) /\ PairLeq(b.tso[i - 1].at, u.pend))
                       THEN [at |-> u.pend, msg |-> k]
                       ELSE b.tso[i - 1]]
        BY <2>2, <2>5 DEF queueAt, IsState
      <4>2. \A i \in 1 .. 1 : ~(i <= 0) /\ i = 1
        OBVIOUS
      <4> QED
        BY <2>6, <3>1, <4>1, <4>2, SMTT(40)
    <3> QED
      BY <3>2
  <2>8. IsState(s) /\ Level(b, s) /\ s.bounds = b.bounds /\ s.sent = b.sent
    <3>1. u.pend \in TimePairs
      BY Fields
    <3>2. IsState(s)
      BY <2>2, <2>4, <2>5, <3>1, queueAtType
    <3> QED
      BY <2>2, <2>5, <3>2, ZenonT(60) DEF queueAt, IsState, Level
  <2>10. t.tso = <<>> /\ Head(s.tso) = e
    <3>1. t.tso = Tail(s.tso)
      BY <2>8 DEF IsState
    <3> QED
      BY <2>7, <3>1
  <2>11. IsState(t) /\ Level(s, t) /\ t.bounds = s.bounds /\ t.sent = s.sent
    <3>1. \A q \in Seq(Entries) : IsState([s EXCEPT !.tso = q])
      BY <2>8, ZenonT(60) DEF IsState, Entries
    <3>2. Tail(s.tso) \in Seq(Entries)
      BY <2>7, <2>8, Fields
    <3>3. IsState(t)
      BY <3>1, <3>2
    <3> QED
      BY <2>8, <3>3, ZenonT(60) DEF IsState, Level
  <2>12. r = acceptTimeAdvanceGranted(t)
    <3>1. e.msg.type = "Granted"
      BY <2>4, <2>6
    <3>2. r = acceptCallback(t, e.msg)
      BY <2>10
    <3> QED
      BY <3>1, <3>2 DEF acceptCallback
  <2>13. ModesOK(t) /\ CommitOK(t) /\ t.adv # "Granted"
    BY <1>2, <2>2, <2>8, <2>11 DEF Timely, ModesOK, CommitOK, Level
  <2>14. /\ Each(t.tso, Dated(t.pend)) /\ ~Some(t.tso, Calling("Granted"))
         /\ Each(t.tso, From(_toLogicalTime(t.pend)))
    <3>1. DOMAIN t.tso = {}
      BY <2>10
    <3> QED
      BY <3>1 DEF Each, Some
  <2>15. t.con = "Enabled" => \A g \in DOMAIN t.bounds : _toLogicalTime(t.pend) <= t.bounds[g].ta
    BY <1>2, <2>2, <2>8, <2>11 DEF Timely, FloorOK, Level
  <2> QED
    BY <2>2, <2>8, <2>11, <2>12, <2>13, <2>14, <2>15, grantedGoes, ZenonT(60)
<1> QED
  BY <1>1, <1>2

-----------------------------------------------------------------------------
(* The time stamps on their way.  F, Q and S stand for fed, toFed and server. *)

\* Once the first n messages of q are accepted by s, g is known with a bound of at most t, and
\* it was so at every time since g was known.
Clean(s, q, n, g, t) ==
  /\ \A i \in 1 .. n : /\ q[i] \in UpTo(g, t) /\ q[i] \notin Off(g)
                       /\ q[i] \in On(g) => /\ s.member = "joining"
                                            /\ \A k \in 1 .. i : q[k] \notin Typed("JoinResponse")
  /\ g \in DOMAIN s.bounds => s.bounds[g].ta <= t
  /\ g \in DOMAIN s.bounds \/ \E i \in 1 .. n : q[i] \in On(g)

\* The time stamps of g that are on their way to the federate in the state s, in its queue q ...
Arriving(s, q, g) ==
  s.member \in {"joining", "in"} =>
    \A j \in DOMAIN q : q[j] \in Stamps(g) => Clean(s, q, j - 1, g, q[j].ts)

\* ... and in the queue u from g to the server
Coming(s, q, u, g) ==
  s.member \in {"joining", "in"} =>
    \A j \in DOMAIN u : u[j] \in Stamps(g) => Clean(s, q, Len(q), g, u[j].ts)

\* g sends its own time stamps only, while it regulates, and none below what it has committed.
Sends(S, u, g) ==
  \A j \in DOMAIN u : \A h : u[j] \in Stamps(h) =>
    /\ h = g /\ g \in S.regulating /\ S.ta[g] <= u[j].ts
    /\ \A i \in 1 .. j - 1 : u[i] \in UpTo(g, u[j].ts) /\ u[i] \notin On(g) \cup Off(g)

Punctual(F, Q, S) ==
  \A g \in Federates :
    /\ Sends(S, F[g].sent, g)
    /\ ~Some(Q[g], TSO(g))
    /\ \A f \in Federates \ {g} : Arriving(F[f], Q[f], g) /\ Coming(F[f], Q[f], F[g].sent, g)

LEMMA StepsToOff ==
  ASSUME NEW g, NEW m, NEW b, NEW c
  PROVE  /\ <<m, b, c>> \in RegSteps(g) => /\ m \in Of("DisableReg", g) => c = "off"
                                           /\ b = "off" /\ c = "on" => m \in On(g)
         /\ <<m, b, c>> \in MapSteps(g) => /\ m \in Off(g) => c = "off"
                                           /\ b = "off" /\ c = "on" => m \in On(g)
<1>1. ASSUME <<m, b, c>> \in RegSteps(g)
      PROVE  (m \in Of("DisableReg", g) => c = "off") /\ (b = "off" /\ c = "on" => m \in On(g))
  <2>1. m \in Messages /\ RegStep(g, m, b, c)
    BY <1>1, StepsOf
  <2> QED
    BY <2>1 DEF RegStep, Of, On
<1>2. ASSUME <<m, b, c>> \in MapSteps(g)
      PROVE  (m \in Off(g) => c = "off") /\ (b = "off" /\ c = "on" => m \in On(g))
  <2>1. m \in Messages /\ MapStep(g, m, b, c)
    BY <1>2, StepsOf
  <2> QED
    BY <2>1 DEF MapStep
<1> QED
  BY <1>1, <1>2

\* One who may send time stamps regulates in the eyes of the server, and nothing that changes
\* that is on its way.
LEMMA Standing ==
  ASSUME NEW F, NEW Q, NEW S, Protocol(F, Q, S), Sound(F, Q, S), NEW g \in Federates, Promising(F[g])
  PROVE  /\ F[g].member # "resigned" /\ g \in S.regulating /\ S.ta[g] <= F[g].cTA
         /\ ~Some(F[g].sent, On(g)) /\ ~Some(F[g].sent, Off(g))
         /\ Each(F[g].sent, UpTo(g, F[g].cTA))
<1>1. /\ Types(F, Q, S) /\ SenderOK(F, S, g) /\ OwnOK(F, Q, g) /\ GoneOK(F[g]) /\ SentOK(F, S, g)
  BY DEF Protocol, Sound
<1>2. F[g].sent \in Seq(ToServer)
  BY <1>1, Fields DEF Types
<1>3. F[g].member # "resigned" /\ F[g].reg # "Disabled"
  BY <1>1 DEF GoneOK, Promising
<1>4. ~Some(F[g].sent, On(g))
  BY <1>1, <1>3 DEF OwnOK, Promising
<1>5. Run(F[g].sent, RegSteps(g), Switch(g \in S.regulating), "on")
  BY <1>1, <1>3 DEF SenderOK, Switch
<1>6. ~Some(F[g].sent, Off(g))
  <2>1. SUFFICES ASSUME Some(F[g].sent, Off(g)) PROVE FALSE
    OBVIOUS
  <2>2. Some(F[g].sent, Of("DisableReg", g))
    <3>1. PICK i \in DOMAIN F[g].sent : F[g].sent[i] \in Off(g)
      BY <2>1 DEF Some
    <3>2. F[g].sent[i] \in ToServer
      BY <1>2, <3>1, ElementsIn
    <3>3. F[g].sent[i].type # "ResignNotify"
      BY <3>2, ToServerKinds
    <3> QED
      BY <3>1, <3>3 DEF Off, Of, Some
  <2>3. SomeAfter(F[g].sent, Of("DisableReg", g), On(g))
    BY <1>2, <1>5, <2>2, StepsToOff, RunRestarts
  <2> QED
    BY <1>4, <2>3 DEF SomeAfter, Some
<1>7. g \in S.regulating
  <2>1. Switch(g \in S.regulating) \in States
    BY SwitchType
  <2>2. Switch(g \in S.regulating) = "on"
    BY <1>2, <1>4, <1>5, <2>1, StepsToOff, RunWasOn
  <2> QED
    BY <2>2 DEF Switch
<1>8. Each(F[g].sent, UpTo(g, F[g].cTA))
  BY <1>1, <1>3, <1>6 DEF SentOK, Settled, Some, Each
<1> QED
  BY <1>1, <1>3, <1>4, <1>6, <1>7, <1>8 DEF SentOK

\* Every other member knows of it, or will do so before it has joined, and by no bound beyond
\* what it has committed.
LEMMA Backed ==
  ASSUME NEW F, NEW Q, NEW S, Protocol(F, Q, S), Sound(F, Q, S), NEW g \in Federates, Promising(F[g]),
         StampsOK(F[g]), NEW f \in Federates, f # g, F[f].member \in {"joining", "in"}
  PROVE  Clean(F[f], Q[f], Len(Q[f]), g, F[g].cTA)
<1>1. /\ Types(F, Q, S) /\ MemberOK(F, Q, S, f) /\ JoiningOK(F[f], Q[f])
      /\ ReceiverOK(F, Q, S, f, g) /\ TokenOK(F, Q, f, g) /\ ValueOK(F, Q, f, g)
  BY DEF Protocol, Sound
<1>2. /\ Q[f] \in Seq(ToFederate) /\ DOMAIN Q[f] = 1 .. Len(Q[f]) /\ Len(Q[f]) \in Nat
  BY <1>1, LenProperties DEF Types
<1>3. F[g].member # "resigned" /\ g \in S.regulating /\ ~Some(F[g].sent, Off(g))
  BY Standing
<1>4. f \in S.members /\ F[f].member # "resigned"
  BY <1>1 DEF MemberOK
<1>5. Run(Q[f], MapSteps(g), Switch(g \in DOMAIN F[f].bounds), "on")
  BY <1>1, <1>3, <1>4 DEF ReceiverOK, Switch
<1>6. ~Asked(F, Q, f, g) /\ ~Answering(F, f, g) /\ ~Answered(Q, f, g)
  <2>1. ~(F[g].reg = "EnablePending" /\ Awaited(F, Q, f, g))
    BY DEF Promising, Awaited
  <2> QED
    BY <1>1, <1>3, <2>1 DEF TokenOK
<1>7. ASSUME NEW i \in DOMAIN Q[f], Q[f][i] \in On(g)
      PROVE  F[f].member = "joining" /\ \A k \in 1 .. i : Q[f][k] \notin Typed("JoinResponse")
  <2>1. F[f].member = "joining"
    BY <1>6, <1>7 DEF Asked, Some
  <2>2. ASSUME NEW k \in 1 .. i, Q[f][k] \in Typed("JoinResponse") PROVE FALSE
    <3>1. k # i
      BY <1>7, <2>2 DEF On, Of, Typed
    <3>2. k \in DOMAIN Q[f] /\ k < i
      BY <1>2, <3>1
    <3>3. SomeAfter(Q[f], Typed("JoinResponse"), On(g))
      BY <1>7, <2>2, <3>2 DEF SomeAfter
    <3> QED
      BY <1>6, <2>1, <3>3 DEF Asked
  <2> QED
    BY <2>1, <2>2
<1>8. ~Some(Q[f], Off(g))
  <2>1. SUFFICES ASSUME Some(Q[f], Off(g)) PROVE FALSE
    OBVIOUS
  <2>2. SomeAfter(Q[f], Off(g), On(g))
    BY <1>2, <1>5, <2>1, StepsToOff, RunRestarts
  <2>3. PICK i, j \in DOMAIN Q[f] : j < i /\ Q[f][j] \in Off(g) /\ Q[f][i] \in On(g)
    BY <2>2 DEF SomeAfter
  <2>4. PICK k \in DOMAIN Q[f] : /\ Q[f][k] \in Typed("JoinResponse")
                                 /\ \A n \in DOMAIN Q[f] : n < k => Q[f][n] \notin Offs
    BY <1>1, <1>7, <2>3 DEF JoiningOK, Ahead
  <2>5. Q[f][j] \in Offs
    BY <2>3 DEF Off, Offs, Of
  <2>6. k <= j
    BY <1>2, <2>4, <2>5
  <2>7. k \in 1 .. i
    BY <1>2, <2>3, <2>6
  <2> QED
    BY <1>7, <2>3, <2>4, <2>7
<1>9. \A i \in DOMAIN Q[f] : Q[f][i] \in UpTo(g, F[g].cTA) /\ Q[f][i] \notin Off(g)
  BY <1>1, <1>3, <1>8 DEF ValueOK, Settled, Some
<1>10. ASSUME g \in DOMAIN F[f].bounds PROVE F[f].bounds[g].ta <= F[g].cTA
  <2>1. PICK t : t = F[f].bounds[g].ta
    OBVIOUS
  <2>2. t \in Nat /\ F[g].cTA \in Nat /\ IsMap(F[g].stamps, Federates, Nat)
    BY <1>1, <1>10, <2>1, BoundTime, Fields DEF Types
  <2>3. Covered(F, Q, f, g, t)
    BY <1>1, <1>3, <1>8, <1>10, <2>1 DEF ValueOK
  <2>4. ~Some(F[f].sent, Correcting(f, g, t)) /\ ~Some(Q[g], Correcting(f, g, t))
    <3>1. Correcting(f, g, t) \subseteq AnswerTo(g) /\ Correcting(f, g, t) \subseteq AnswerOf(f)
      BY DEF Correcting, AnswerTo, AnswerOf
    <3> QED
      BY <1>6, <3>1 DEF Answering, Answered, Some
  <2>5. t <= F[g].cTA \/ (F[g].reg = "EnablePending" /\ f \in DOMAIN F[g].stamps /\ t <= F[g].stamps[f])
    BY <2>3, <2>4 DEF Covered
  <2>6. CASE F[g].reg = "EnablePending" /\ f \in DOMAIN F[g].stamps /\ t <= F[g].stamps[f]
    <3>1. F[g].stamps[f] <= F[g].cTA /\ F[g].stamps[f] \in Nat
      BY <2>2, <2>6 DEF StampsOK, IsMap, Promising
    <3> QED
      BY <2>1, <2>2, <2>6, <3>1
  <2> QED
    BY <2>1, <2>5, <2>6
<1>11. ASSUME g \notin DOMAIN F[f].bounds PROVE \E i \in 1 .. Len(Q[f]) : Q[f][i] \in On(g)
  <2>1. SUFFICES ASSUME ~Some(Q[f], On(g)) PROVE FALSE
    BY <1>2 DEF Some
  <2>2. Switch(g \in DOMAIN F[f].bounds) \in States
    BY SwitchType
  <2>3. Switch(g \in DOMAIN F[f].bounds) = "on"
    BY <1>2, <1>5, <2>1, <2>2, StepsToOff, RunWasOn
  <2> QED
    BY <1>11, <2>3 DEF Switch
<1> QED
  BY <1>2, <1>7, <1>9, <1>10, <1>11 DEF Clean

LEMMA CleanMore ==
  ASSUME NEW s, IsState(s), NEW q, NEW n, NEW g, NEW c \in Nat, NEW t \in Nat, c <= t, Clean(s, q, n, g, c)
  PROVE  Clean(s, q, n, g, t)
<1>1. UpTo(g, c) \subseteq UpTo(g, t)
  BY UpToGrows
<1>2. ASSUME g \in DOMAIN s.bounds PROVE s.bounds[g].ta <= t
  <2>1. s.bounds[g].ta \in Nat /\ s.bounds[g].ta <= c
    BY <1>2, BoundTime DEF Clean
  <2> QED
    BY <2>1
<1> QED
  BY <1>1, <1>2 DEF Clean

\* t is as s in what Clean says of it.
Knows(s, t) ==
  /\ t.member = s.member /\ DOMAIN t.bounds = DOMAIN s.bounds
  /\ \A g \in DOMAIN s.bounds : t.bounds[g].ta = s.bounds[g].ta

LEMMA CleanSame ==
  ASSUME NEW s, NEW r, Knows(s, r), NEW q, NEW p, NEW n \in Nat, \A i \in 1 .. n : p[i] = q[i],
         NEW g, NEW t, Clean(s, q, n, g, t)
  PROVE  Clean(r, p, n, g, t)
<1>1. ASSUME NEW i \in 1 .. n, p[i] \in On(g)
      PROVE  r.member = "joining" /\ \A k \in 1 .. i : p[k] \notin Typed("JoinResponse")
  <2>1. q[i] \in On(g) /\ \A k \in 1 .. i : k \in 1 .. n /\ p[k] = q[k]
    BY <1>1
  <2> QED
    BY <2>1 DEF Clean, Knows
<1> QED
  BY <1>1 DEF Clean, Knows

LEMMA CleanGrows ==
  ASSUME NEW s, NEW q \in Seq(ToFederate), NEW p \in Seq(ToFederate), NEW M, Extends(q, p, M),
         NEW g, NEW t, M \subseteq UpTo(g, t), M \cap (On(g) \cup Off(g)) = {}, Clean(s, q, Len(q), g, t)
  PROVE  Clean(s, p, Len(p), g, t)
<1>1. /\ Len(q) \in Nat /\ Len(p) \in Nat /\ DOMAIN q = 1 .. Len(q) /\ DOMAIN p = 1 .. Len(p)
  BY LenProperties
<1>2. Len(q) <= Len(p) /\ \A i \in 1 .. Len(q) : p[i] = q[i]
  BY <1>1 DEF Extends
<1>3. Clean(s, p, Len(q), g, t)
  BY <1>1, <1>2, CleanSame DEF Knows
<1>4. \A i \in 1 .. Len(p) : i \in 1 .. Len(q) \/ p[i] \in M
  BY <1>1, <1>2 DEF Extends
<1>5. ASSUME NEW i \in 1 .. Len(p)
      PROVE  /\ p[i] \in UpTo(g, t) /\ p[i] \notin Off(g)
             /\ p[i] \in On(g) => /\ s.member = "joining"
                                  /\ \A k \in 1 .. i : p[k] \notin Typed("JoinResponse")
  BY <1>3, <1>4 DEF Clean
<1>6. g \in DOMAIN s.bounds \/ \E i \in 1 .. Len(p) : p[i] \in On(g)
  BY <1>1, <1>2, <1>3 DEF Clean
<1> QED
  BY <1>3, <1>5, <1>6 DEF Clean

LEMMA ArrivingSame ==
  ASSUME NEW s, NEW r, Knows(s, r), NEW q \in Seq(ToFederate), NEW g, Arriving(s, q, g)
  PROVE  Arriving(r, q, g)
<1>1. ASSUME r.member \in {"joining", "in"}, NEW j \in DOMAIN q, q[j] \in Stamps(g)
      PROVE  Clean(r, q, j - 1, g, q[j].ts)
  <2>1. j - 1 \in Nat
    BY LenProperties
  <2>2. Clean(s, q, j - 1, g, q[j].ts)
    BY <1>1 DEF Arriving, Knows
  <2> QED
    BY <2>1, <2>2, CleanSame
<1> QED
  BY <1>1 DEF Arriving

LEMMA ComingSame ==
  ASSUME NEW s, NEW r, Knows(s, r), NEW q \in Seq(ToFederate), NEW u, NEW g, Coming(s, q, u, g)
  PROVE  Coming(r, q, u, g)
<1>1. ASSUME r.member \in {"joining", "in"}, NEW j \in DOMAIN u, u[j] \in Stamps(g)
      PROVE  Clean(r, q, Len(q), g, u[j].ts)
  <2>1. Len(q) \in Nat
    BY LenProperties
  <2>2. Clean(s, q, Len(q), g, u[j].ts)
    BY <1>1 DEF Coming, Knows
  <2> QED
    BY <2>1, <2>2, CleanSame
<1> QED
  BY <1>1 DEF Coming

\* Other messages get in behind those that are on their way.
LEMMA ArrivingGrows ==
  ASSUME NEW s, NEW q \in Seq(ToFederate), NEW p \in Seq(ToFederate), NEW M, Extends(q, p, M),
         NEW g, M \cap Stamps(g) = {}, Arriving(s, q, g)
  PROVE  Arriving(s, p, g)
<1>1. /\ Len(q) \in Nat /\ Len(p) \in Nat /\ DOMAIN q = 1 .. Len(q) /\ DOMAIN p = 1 .. Len(p)
  BY LenProperties
<1>2. ASSUME s.member \in {"joining", "in"}, NEW j \in DOMAIN p, p[j] \in Stamps(g)
      PROVE  Clean(s, p, j - 1, g, p[j].ts)
  <2>1. j \in DOMAIN q /\ p[j] = q[j]
    BY <1>1, <1>2 DEF Extends
  <2>2. Clean(s, q, j - 1, g, q[j].ts)
    BY <1>2, <2>1 DEF Arriving
  <2>3. j - 1 \in Nat /\ \A i \in 1 .. j - 1 : p[i] = q[i]
    BY <1>1, <2>1 DEF Extends
  <2> QED
    BY <2>1, <2>2, <2>3, CleanSame DEF Knows
<1> QED
  BY <1>2 DEF Arriving

LEMMA ComingGrows ==
  ASSUME NEW s, NEW q \in Seq(ToFederate), NEW p \in Seq(ToFederate), NEW M, Extends(q, p, M),
         NEW g, M \cap (On(g) \cup Off(g)) = {}, NEW u, Coming(s, q, u, g),
         \A j \in DOMAIN u : u[j] \in Stamps(g) => M \subseteq UpTo(g, u[j].ts)
  PROVE  Coming(s, p, u, g)
<1>1. ASSUME s.member \in {"joining", "in"}, NEW j \in DOMAIN u, u[j] \in Stamps(g)
      PROVE  Clean(s, p, Len(p), g, u[j].ts)
  <2>1. Clean(s, q, Len(q), g, u[j].ts) /\ M \subseteq UpTo(g, u[j].ts)
    BY <1>1 DEF Coming
  <2> QED
    BY <2>1, CleanGrows
<1> QED
  BY <1>1 DEF Coming

\* A time stamp that was coming arrives.
LEMMA ArrivingServed ==
  ASSUME NEW s, NEW q \in Seq(ToFederate), NEW m \in ToFederate, NEW p, p = Append(q, m),
         NEW g, NEW u, u # <<>>, u \in Seq(ToServer), m = Head(u), Arriving(s, q, g), Coming(s, q, u, g)
  PROVE  Arriving(s, p, g)
<1>1. /\ DOMAIN p = 1 .. Len(q) + 1 /\ DOMAIN q = 1 .. Len(q) /\ Len(q) \in Nat
      /\ p[Len(q) + 1] = m /\ \A i \in 1 .. Len(q) : p[i] = q[i]
  BY AppendAt
<1>2. 1 \in DOMAIN u /\ u[1] = m
  BY TailAt
<1>3. ASSUME s.member \in {"joining", "in"}, NEW j \in DOMAIN p, p[j] \in Stamps(g)
      PROVE  Clean(s, p, j - 1, g, p[j].ts)
  <2>1. CASE j = Len(q) + 1
    <3>1. Clean(s, q, Len(q), g, m.ts)
      BY <1>1, <1>2, <1>3, <2>1 DEF Coming
    <3>2. Clean(s, p, Len(q), g, m.ts)
      BY <1>1, <3>1, CleanSame DEF Knows
    <3> QED
      BY <1>1, <2>1, <3>2
  <2>2. CASE j # Len(q) + 1
    <3>1. j \in DOMAIN q /\ p[j] = q[j] /\ j - 1 \in Nat /\ \A i \in 1 .. j - 1 : p[i] = q[i]
      BY <1>1, <2>2
    <3>2. Clean(s, q, j - 1, g, q[j].ts)
      BY <1>3, <3>1 DEF Arriving
    <3> QED
      BY <3>1, <3>2, CleanSame DEF Knows
  <2> QED
    BY <2>1, <2>2
<1> QED
  BY <1>3 DEF Arriving

LEMMA GrownExtends ==
  ASSUME NEW q \in Seq(ToFederate), NEW p, NEW m, Grown(q, p, m)
  PROVE  p \in Seq(ToFederate) /\ Extends(q, p, {m})
<1>1. CASE p = q
  BY <1>1, ExtendsRefl
<1>2. CASE m \in ToFederate /\ p = Append(q, m)
  <2>1. Extends(q, q, {m})
    BY ExtendsRefl
  <2>2. Extends(q, Append(q, m), {m})
    BY <1>2, <2>1, ExtendsAppend
  <2> QED
    BY <1>2, <2>2, AppendAt
<1> QED
  BY <1>1, <1>2 DEF Grown

\* The oldest message of a federate, and the time stamps behind it
LEMMA SendsHead ==
  ASSUME NEW S, NEW g, NEW u \in Seq(ToServer), u # <<>>, Sends(S, u, g), NEW m, m = Head(u), NEW v, v = Tail(u)
  PROVE  /\ \A h : m \in Stamps(h) => h = g
         /\ \A j \in DOMAIN v : \A h : v[j] \in Stamps(h) =>
              /\ h = g /\ g \in S.regulating /\ S.ta[g] <= v[j].ts
              /\ m \in UpTo(g, v[j].ts) /\ m \notin On(g) \cup Off(g)
              /\ \A i \in 1 .. j - 1 : v[i] \in UpTo(g, v[j].ts) /\ v[i] \notin On(g) \cup Off(g)
<1>1. /\ m = u[1] /\ Len(u) \in Nat \ {0} /\ DOMAIN v = 1 .. Len(u) - 1 /\ DOMAIN u = 1 .. Len(u)
      /\ \A i \in 1 .. Len(u) - 1 : v[i] = u[i + 1]
  BY TailAt
<1>2. 1 \in DOMAIN u
  BY <1>1
<1>3. ASSUME NEW j \in DOMAIN v, NEW h, v[j] \in Stamps(h)
      PROVE  /\ h = g /\ g \in S.regulating /\ S.ta[g] <= v[j].ts
             /\ m \in UpTo(g, v[j].ts) /\ m \notin On(g) \cup Off(g)
             /\ \A i \in 1 .. j - 1 : v[i] \in UpTo(g, v[j].ts) /\ v[i] \notin On(g) \cup Off(g)
  <2>1. j + 1 \in DOMAIN u /\ v[j] = u[j + 1] /\ 1 \in 1 .. j
    BY <1>1
  <2>2. PICK k : k = j + 1
    OBVIOUS
  <2>3. k \in DOMAIN u /\ u[k] \in Stamps(h) /\ 1 \in 1 .. k - 1
    BY <1>1, <1>3, <2>1, <2>2
  <2>4. /\ h = g /\ g \in S.regulating /\ S.ta[g] <= u[k].ts
        /\ \A i \in 1 .. k - 1 : u[i] \in UpTo(g, u[k].ts) /\ u[i] \notin On(g) \cup Off(g)
    BY <2>3 DEF Sends
  <2>5. \A i \in 1 .. j - 1 : i + 1 \in 1 .. k - 1 /\ v[i] = u[i + 1]
    BY <1>1, <2>2
  <2> QED
    BY <1>1, <2>1, <2>2, <2>3, <2>4, <2>5
<1> QED
  BY <1>1, <1>2, <1>3 DEF Sends

LEMMA SendsTail ==
  ASSUME NEW S, NEW S2, NEW g, NEW u \in Seq(ToServer), u # <<>>, Sends(S, u, g), NEW m, m = Head(u),
         m \notin On(g) \cup Off(g) /\ g \in S.regulating =>
           g \in S2.regulating /\ (S2.ta[g] = S.ta[g] \/ (m \in Advances(g) /\ S2.ta[g] = m.ts))
  PROVE  Sends(S2, Tail(u), g)
<1>1. PICK v : v = Tail(u)
  OBVIOUS
<1>2. \A j \in DOMAIN v : \A h : v[j] \in Stamps(h) =>
        /\ h = g /\ g \in S.regulating /\ S.ta[g] <= v[j].ts
        /\ m \in UpTo(g, v[j].ts) /\ m \notin On(g) \cup Off(g)
        /\ \A i \in 1 .. j - 1 : v[i] \in UpTo(g, v[j].ts) /\ v[i] \notin On(g) \cup Off(g)
  BY <1>1, SendsHead, ZenonT(60)
<1>3. ASSUME NEW j \in DOMAIN v, NEW h, v[j] \in Stamps(h)
      PROVE  /\ h = g /\ g \in S2.regulating /\ S2.ta[g] <= v[j].ts
             /\ \A i \in 1 .. j - 1 : v[i] \in UpTo(g, v[j].ts) /\ v[i] \notin On(g) \cup Off(g)
  <2>1. /\ h = g /\ g \in S.regulating /\ S.ta[g] <= v[j].ts
        /\ m \in UpTo(g, v[j].ts) /\ m \notin On(g) \cup Off(g)
        /\ \A i \in 1 .. j - 1 : v[i] \in UpTo(g, v[j].ts) /\ v[i] \notin On(g) \cup Off(g)
    BY <1>2, <1>3
  <2>2. m \in Advances(g) => m.ts <= v[j].ts
    BY <2>1 DEF Advances, UpTo
  <2> QED
    BY <2>1, <2>2
<1>4. Sends(S2, v, g)
  BY <1>3 DEF Sends
<1> QED
  BY <1>1, <1>4

LEMMA ComingTail ==
  ASSUME NEW s, NEW q, NEW u \in Seq(ToServer), u # <<>>, NEW g, Coming(s, q, u, g)
  PROVE  Coming(s, q, Tail(u), g)
<1>1. PICK v : v = Tail(u)
  OBVIOUS
<1>2. /\ DOMAIN v = 1 .. Len(u) - 1 /\ DOMAIN u = 1 .. Len(u) /\ Len(u) \in Nat
      /\ \A i \in 1 .. Len(u) - 1 : v[i] = u[i + 1]
  BY <1>1, TailAt
<1>3. \A j \in DOMAIN v : j + 1 \in DOMAIN u /\ v[j] = u[j + 1]
  BY <1>2
<1>4. Coming(s, q, v, g)
  BY <1>3 DEF Coming
<1> QED
  BY <1>1, <1>4

LEMMA ServedPunctual ==
  ASSUME NEW F, NEW Q, NEW S, NEW f, NEW m, NEW F2, NEW Q2, NEW S2, Relays(F, Q, S, f, m, F2, Q2, S2),
         Punctual(F, Q, S), m.type = "Data" => Q2[f] = Q[f]
  PROVE  Punctual(F2, Q2, S2)
<1>1. Served(F, Q, S, f, m, F2, Q2, S2)
  BY DEF Relays
<1>2. /\ f \in Federates /\ F[f].sent \in Seq(ToServer) /\ F[f].sent # <<>>
      /\ m = Head(F[f].sent) /\ F2[f].sent = Tail(F[f].sent) /\ m \in ToServer /\ m \in Messages
      /\ m.type \in {"EnableReg", "DisableReg", "Commit"} => m.fed = f
  BY <1>1, ServedFacts
<1>3. /\ \A x \in Federates \ {f} : F2[x] = F[x]
      /\ \A x \in Federates : Q[x] \in Seq(ToFederate) /\ Grown(Q[x], Q2[x], m)
      /\ \A x \in Federates \ {f} : x \in S2.regulating <=> x \in S.regulating
      /\ f \in S2.regulating <=> m.type = "EnableReg" \/ (f \in S.regulating /\ m.type # "DisableReg")
  BY <1>1 DEF Served, Protocol, Types
<1>4. Sends(S, F[f].sent, f)
  BY <1>2 DEF Punctual
<1>5. PICK v : v = Tail(F[f].sent)
  OBVIOUS
<1>6. /\ \A h : m \in Stamps(h) => h = f
      /\ \A j \in DOMAIN v : v[j] \in Stamps(f) => m \in UpTo(f, v[j].ts) /\ m \notin On(f) \cup Off(f)
  BY <1>2, <1>4, <1>5, SendsHead
<1>7. ASSUME NEW g \in Federates PROVE Sends(S2, F2[g].sent, g)
  <2>1. CASE g = f
    <3>1. ASSUME m \notin On(f) \cup Off(f), f \in S.regulating
          PROVE  f \in S2.regulating /\ (S2.ta[f] = S.ta[f] \/ (m \in Advances(f) /\ S2.ta[f] = m.ts))
      <4>1. m.type \notin {"EnableReg", "DisableReg"}
        BY <1>2, <3>1 DEF On, Off, Of
      <4>2. f \in S2.regulating
        BY <1>3, <3>1, <4>1
      <4>3. S2.ta[f] = S.ta[f] \/ (S2.ta[f] = m.ts /\ m.type = "Commit" /\ "TA" \in m.ct)
        BY <4>1, <4>2 DEF Relays
      <4> QED
        BY <1>2, <4>2, <4>3 DEF Advances, Of
    <3>2. Sends(S2, Tail(F[f].sent), f)
      BY <1>2, <1>4, <3>1, SendsTail
    <3> QED
      BY <1>2, <2>1, <3>2
  <2>2. CASE g # f
    <3>1. F2[g].sent = F[g].sent /\ Sends(S, F[g].sent, g)
      BY <1>3, <2>2 DEF Punctual
    <3>2. g \in S.regulating => g \in S2.regulating /\ S2.ta[g] = S.ta[g]
      BY <1>3, <2>2 DEF Relays
    <3> QED
      BY <3>1, <3>2 DEF Sends
  <2> QED
    BY <2>1, <2>2
<1>8. ASSUME NEW g \in Federates PROVE ~Some(Q2[g], TSO(g))
  <2>1. ~Some(Q[g], TSO(g))
    BY DEF Punctual
  <2>2. CASE m \in TSO(g)
    <3>1. g = f /\ m.type = "Data"
      BY <1>6, <2>2 DEF Stamps, TSO
    <3> QED
      BY <2>1, <3>1
  <2>3. CASE m \notin TSO(g)
    BY <1>3, <2>1, <2>3, GrownKeeps
  <2> QED
    BY <2>2, <2>3
<1>9. ASSUME NEW g \in Federates, NEW x \in Federates \ {g}
      PROVE  Arriving(F2[x], Q2[x], g) /\ Coming(F2[x], Q2[x], F2[g].sent, g)
  <2>1. Arriving(F[x], Q[x], g) /\ Coming(F[x], Q[x], F[g].sent, g)
    BY DEF Punctual
  <2>2. Knows(F[x], F2[x])
    <3>1. F2[x].member = F[x].member /\ F2[x].bounds = F[x].bounds
      BY <1>1, <1>3 DEF Served
    <3> QED
      BY <3>1 DEF Knows
  <2>3. Q[x] \in Seq(ToFederate) /\ Q2[x] \in Seq(ToFederate) /\ Extends(Q[x], Q2[x], {m})
    BY <1>3, GrownExtends
  <2>4. CASE g # f
    <3>1. m \notin On(g) \cup Off(g) /\ m \notin Of("Commit", g) /\ m \notin Stamps(g)
      <4>1. m.type # "ResignNotify"
        BY <1>2, ToServerKinds
      <4> QED
        BY <1>2, <1>6, <2>4, <4>1 DEF On, Off, Of
    <3>2. \A t : m \in UpTo(g, t)
      BY <1>2, <3>1 DEF UpTo
    <3>3. Arriving(F[x], Q2[x], g)
      BY <2>1, <2>3, <3>1, ArrivingGrows
    <3>4. Coming(F[x], Q2[x], F[g].sent, g)
      BY <2>1, <2>3, <3>1, <3>2, ComingGrows
    <3> QED
      BY <1>3, <2>2, <2>3, <2>4, <3>3, <3>4, ArrivingSame, ComingSame
  <2>5. CASE g = f
    <3>1. Arriving(F[x], Q2[x], f)
      <4>1. CASE Q2[x] = Q[x]
        BY <2>1, <2>5, <4>1
      <4>2. CASE m \in ToFederate /\ Q2[x] = Append(Q[x], m)
        BY <1>2, <2>1, <2>3, <2>5, <4>2, ArrivingServed
      <4> QED
        BY <1>3, <4>1, <4>2 DEF Grown
    <3>2. Coming(F[x], Q[x], v, f)
      BY <1>2, <1>5, <2>1, <2>5, ComingTail
    <3>3. Coming(F[x], Q2[x], v, f)
      <4>1. CASE m \in On(f) \cup Off(f)
        BY <1>6, <4>1 DEF Coming
      <4>2. CASE m \notin On(f) \cup Off(f)
        <5>1. {m} \cap (On(f) \cup Off(f)) = {}
              /\ \A j \in DOMAIN v : v[j] \in Stamps(f) => {m} \subseteq UpTo(f, v[j].ts)
          BY <1>6, <4>2
        <5> QED
          BY <2>3, <3>2, <5>1, ComingGrows
      <4> QED
        BY <4>1, <4>2
    <3> QED
      BY <1>2, <1>5, <2>2, <2>3, <2>5, <3>1, <3>3, ArrivingSame, ComingSame
  <2> QED
    BY <2>4, <2>5
<1> QED
  BY <1>7, <1>8, <1>9 DEF Punctual

LEMMA ResignedPunctual ==
  ASSUME NEW F, NEW Q, NEW S, NEW f, NEW F2, NEW Q2, NEW S2, Resigned(F, Q, S, f, F2, Q2, S2),
         Punctual(F, Q, S), \A g \in S2.regulating : S2.ta[g] = S.ta[g]
  PROVE  Punctual(F2, Q2, S2)
<1>1. f \in Federates /\ F2[f].sent = <<>> /\ F2[f].member = "resigned"
  BY ResignedFacts
<1>2. /\ Q2[f] = <<>> /\ S2.regulating = S.regulating \ {f}
      /\ \A x \in Federates \ {f} : F2[x] = F[x] /\ Q[x] \in Seq(ToFederate)
  BY DEF Resigned, Protocol, Types
<1>3. PICK M : M = {DisableRequest(f), ResignNotify(f)}
  OBVIOUS
<1>4. \A m \in M : /\ m \in Messages /\ m.type \in {"DisableReg", "ResignNotify"} /\ m.fed = f
                   /\ m \in ToFederate
  <2>1. /\ DisableRequest(f).type = "DisableReg" /\ DisableRequest(f).fed = f
        /\ ResignNotify(f).type = "ResignNotify" /\ ResignNotify(f).fed = f
    BY DEF DisableRequest, ResignNotify
  <2> QED
    BY <1>1, <1>3, <2>1, ResignMessages, MessageIn
<1>5. ASSUME NEW x \in Federates \ {f} PROVE Q2[x] \in Seq(ToFederate) /\ Extends(Q[x], Q2[x], M)
  <2>1. Extends(Q[x], Q[x], M)
    BY <1>2, ExtendsRefl
  <2>2. PICK a, b : a = DisableRequest(f) /\ b = ResignNotify(f)
    OBVIOUS
  <2>3. a \in ToFederate /\ b \in ToFederate /\ a \in M /\ b \in M
    BY <1>3, <1>4, <2>2
  <2>4. \/ Q2[x] = Q[x] \/ Q2[x] = Append(Q[x], b)
        \/ Q2[x] = Append(Append(Q[x], a), b)
    BY <2>2 DEF Resigned, Told
  <2>5. CASE Q2[x] = Q[x]
    BY <1>2, <2>1, <2>5
  <2>6. CASE Q2[x] = Append(Q[x], b)
    BY <1>2, <2>1, <2>3, <2>6, ExtendsAppend, AppendAt
  <2>7. CASE Q2[x] = Append(Append(Q[x], a), b)
    <3>1. PICK q : q = Append(Q[x], a)
      OBVIOUS
    <3>2. q \in Seq(ToFederate) /\ Extends(Q[x], q, M)
      BY <1>2, <2>1, <2>3, <3>1, ExtendsAppend, AppendAt
    <3>3. Q2[x] = Append(q, b) /\ Q[x] \in Seq(ToFederate)
      BY <1>2, <2>7, <3>1
    <3> QED
      BY <2>3, <3>2, <3>3, ExtendsAppend, AppendAt
  <2> QED
    BY <2>4, <2>5, <2>6, <2>7
<1>6. \A g : /\ M \cap Stamps(g) = {} /\ M \cap TSO(g) = {}
             /\ g # f => M \cap (On(g) \cup Off(g)) = {} /\ \A t : M \subseteq UpTo(g, t)
  <2>1. ASSUME NEW g, NEW m \in M
        PROVE  /\ m \notin Stamps(g) /\ m \notin TSO(g) /\ m \notin On(g)
               /\ g # f => m \notin Off(g) /\ \A t : m \in UpTo(g, t)
    BY <1>4 DEF Stamps, Advances, TSO, On, Off, Of, UpTo
  <2> QED
    BY <2>1
<1>7. ASSUME NEW g \in Federates PROVE Sends(S2, F2[g].sent, g)
  <2>1. CASE g = f
    BY <1>1, <2>1 DEF Sends
  <2>2. CASE g # f
    <3>1. F2[g].sent = F[g].sent /\ Sends(S, F[g].sent, g)
      BY <1>2, <2>2 DEF Punctual
    <3>2. g \in S.regulating => g \in S2.regulating /\ S2.ta[g] = S.ta[g]
      BY <1>2, <2>2
    <3> QED
      BY <3>1, <3>2 DEF Sends
  <2> QED
    BY <2>1, <2>2
<1>8. ASSUME NEW g \in Federates PROVE ~Some(Q2[g], TSO(g))
  <2>1. ~Some(Q[g], TSO(g))
    BY DEF Punctual
  <2>2. CASE g = f
    BY <1>2, <2>2 DEF Some
  <2>3. CASE g # f
    <3>1. Extends(Q[g], Q2[g], M) /\ Q[g] \in Seq(ToFederate) /\ Q2[g] \in Seq(ToFederate)
      BY <1>2, <1>5, <2>3
    <3>2. DOMAIN Q[g] = 1 .. Len(Q[g]) /\ DOMAIN Q2[g] = 1 .. Len(Q2[g]) /\ Len(Q[g]) \in Nat
      BY <3>1, LenProperties
    <3>3. ASSUME NEW i \in DOMAIN Q2[g] PROVE Q2[g][i] \in M \/ (i \in DOMAIN Q[g] /\ Q2[g][i] = Q[g][i])
      BY <3>1, <3>2 DEF Extends
    <3> QED
      BY <1>6, <2>1, <3>3 DEF Some
  <2> QED
    BY <2>2, <2>3
<1>9. ASSUME NEW g \in Federates, NEW x \in Federates \ {g}
      PROVE  Arriving(F2[x], Q2[x], g) /\ Coming(F2[x], Q2[x], F2[g].sent, g)
  <2>1. Arriving(F[x], Q[x], g) /\ Coming(F[x], Q[x], F[g].sent, g)
    BY DEF Punctual
  <2>2. CASE x = f
    BY <1>1, <2>2 DEF Arriving, Coming
  <2>3. CASE x # f
    <3>1. F2[x] = F[x] /\ Q[x] \in Seq(ToFederate) /\ Q2[x] \in Seq(ToFederate) /\ Extends(Q[x], Q2[x], M)
      BY <1>2, <1>5, <2>3
    <3>2. Arriving(F[x], Q2[x], g)
      BY <1>6, <2>1, <3>1, ArrivingGrows
    <3>3. Coming(F[x], Q2[x], F2[g].sent, g)
      <4>1. CASE g = f
        BY <1>1, <4>1 DEF Coming
      <4>2. CASE g # f
        <5>0. M \cap (On(g) \cup Off(g)) = {} /\ \A t : M \subseteq UpTo(g, t)
          BY <1>6, <4>2
        <5>1. Coming(F[x], Q2[x], F[g].sent, g)
          BY <2>1, <3>1, <5>0, ComingGrows
        <5>2. F2[g].sent = F[g].sent
          BY <1>2, <4>2
        <5> QED
          BY <5>1, <5>2
      <4> QED
        BY <4>1, <4>2
    <3> QED
      BY <3>1, <3>2, <3>3
  <2> QED
    BY <2>2, <2>3
<1> QED
  BY <1>7, <1>8, <1>9 DEF Punctual

\* A new member gets to know of everyone who sends time stamps, by a bound that is not above them.
LEMMA JoinedPunctual ==
  ASSUME NEW F, NEW Q, NEW S, NEW f, NEW F2, NEW Q2, NEW S2, Joined(F, Q, S, f, F2, Q2, S2),
         Punctual(F, Q, S), Informed(S, Q2[f]), S2.ta = S.ta
  PROVE  Punctual(F2, Q2, S2)
<1>1. f \in Federates /\ F2[f].member = "joining" /\ F2[f].sent = <<>> /\ DOMAIN F2[f].bounds = {}
  BY JoinedFacts
<1>2. /\ S2.regulating = S.regulating /\ Pushed(S, f, Q2[f])
      /\ \A x \in Federates \ {f} : F2[x] = F[x]
  BY DEF Joined
<1>3. /\ Q2[f] \in Seq(ToFederate) /\ DOMAIN Q2[f] = 1 .. Len(Q2[f]) /\ Len(Q2[f]) \in Nat
  BY <1>2, LenProperties DEF Pushed
<1>4. PICK n : n = JoinNotify(f)
  OBVIOUS
<1>5. n \in ToFederate /\ n \in Messages /\ n.type = "JoinNotify"
  BY <1>1, <1>4, JoinMessage DEF JoinNotify
<1>6. \A g : /\ {n} \cap Stamps(g) = {} /\ n \notin TSO(g) /\ {n} \cap (On(g) \cup Off(g)) = {}
             /\ \A t : {n} \subseteq UpTo(g, t)
  BY <1>5 DEF Stamps, Advances, TSO, On, Off, Of, UpTo
<1>7. \A x \in Federates \ {f} : /\ Q[x] \in Seq(ToFederate) /\ Grown(Q[x], Q2[x], n)
                                 /\ Q2[x] \in Seq(ToFederate) /\ Extends(Q[x], Q2[x], {n})
  <2>1. \A x \in Federates \ {f} : Q[x] \in Seq(ToFederate) /\ Grown(Q[x], Q2[x], n)
    BY <1>4, <1>5 DEF Joined, Protocol, Types, Grown
  <2> QED
    BY <2>1, GrownExtends
<1>8. ASSUME NEW g \in Federates PROVE Sends(S2, F2[g].sent, g)
  <2>1. CASE g = f
    BY <1>1, <2>1 DEF Sends
  <2>2. CASE g # f
    <3>1. Sends(S, F[g].sent, g)
      BY DEF Punctual
    <3> QED
      BY <1>2, <2>2, <3>1 DEF Sends
  <2> QED
    BY <2>1, <2>2
<1>9. \A g : ~Some(Q2[f], Stamps(g)) /\ ~Some(Q2[f], TSO(g))
  <2>1. ASSUME NEW g, NEW i \in DOMAIN Q2[f] PROVE Q2[f][i] \notin Stamps(g) /\ Q2[f][i] \notin TSO(g)
    <3>1. Q2[f][i] \notin TSO(g)
      BY <2>1 DEF Informed, Some, Typed, TSO
    <3>2. Q2[f][i] \notin Advances(g)
      <4>1. SUFFICES ASSUME Q2[f][i] \in Advances(g) PROVE FALSE
        OBVIOUS
      <4>2. Q2[f][i] \in Of("Commit", g) /\ "TA" \in Q2[f][i].ct
        BY <4>1 DEF Advances
      <4>3. Q2[f][i] \in CommitMessages
        <5>1. Q2[f][i] \in ToFederate
          BY <1>3, ElementsIn
        <5> QED
          BY <4>2, <5>1, ToFederateCases DEF Of
      <4>4. g \in Federates
        BY <4>2, <4>3 DEF CommitMessages, Of
      <4> QED
        BY <4>2, <4>4 DEF Informed
    <3> QED
      BY <3>1, <3>2 DEF Stamps
  <2> QED
    BY <2>1 DEF Some
<1>10. ASSUME NEW g \in Federates PROVE ~Some(Q2[g], TSO(g))
  <2>1. CASE g = f
    BY <1>9, <2>1
  <2>2. CASE g # f
    <3>1. ~Some(Q[g], TSO(g))
      BY DEF Punctual
    <3> QED
      BY <1>6, <1>7, <2>2, <3>1, GrownKeeps
  <2> QED
    BY <2>1, <2>2
<1>11. ASSUME NEW g \in Federates, NEW x \in Federates \ {g}
       PROVE  Arriving(F2[x], Q2[x], g) /\ Coming(F2[x], Q2[x], F2[g].sent, g)
  <2>1. Arriving(F[x], Q[x], g) /\ Coming(F[x], Q[x], F[g].sent, g) /\ Sends(S, F[g].sent, g)
    BY DEF Punctual
  <2>2. CASE x = f
    <3>1. Arriving(F2[x], Q2[x], g)
      BY <1>9, <2>2 DEF Arriving, Some
    <3>2. ASSUME NEW j \in DOMAIN F[g].sent, F[g].sent[j] \in Stamps(g)
          PROVE  Clean(F2[f], Q2[f], Len(Q2[f]), g, F[g].sent[j].ts)
      <4>1. PICK t : t = F[g].sent[j].ts
        OBVIOUS
      <4>2. g \in S.regulating /\ S.ta[g] <= t
        BY <2>1, <3>2, <4>1 DEF Sends
      <4>3. Run(Q2[f], MapSteps(g), "off", "on")
        BY <1>2, <4>2 DEF Pushed, Switch
      <4>4. Some(Q2[f], On(g))
        <5>1. SUFFICES ASSUME ~Some(Q2[f], On(g)) PROVE FALSE
          OBVIOUS
        <5>2. "off" \in States
          BY DEF States
        <5>3. "off" = "on"
          BY <1>3, <4>3, <5>1, <5>2, StepsToOff, RunWasOn
        <5> QED
          BY <5>3
      <4>5. ASSUME NEW i \in DOMAIN Q2[f]
            PROVE  /\ Q2[f][i] \in UpTo(g, t) /\ Q2[f][i] \notin Off(g)
                   /\ Q2[f][i] \in On(g) => \A k \in 1 .. i : Q2[f][k] \notin Typed("JoinResponse")
        <5>1. Q2[f][i] \in Messages
          BY <1>3, ElementsIn, MessageIn
        <5>2. Q2[f][i] \in UpTo(g, t)
          BY <4>2, <5>1 DEF UpTo, Informed
        <5>3. Q2[f][i] \notin Off(g)
          BY <4>5 DEF Informed, Some, Off, Of, Offs
        <5>4. ASSUME Q2[f][i] \in On(g), NEW k \in 1 .. i, Q2[f][k] \in Typed("JoinResponse") PROVE FALSE
          <6>1. k # i
            BY <5>4 DEF On, Of, Typed
          <6>2. k \in DOMAIN Q2[f] /\ k < i
            BY <1>3, <6>1
          <6>3. SomeAfter(Q2[f], Typed("JoinResponse"), On(g))
            BY <5>4, <6>2 DEF SomeAfter
          <6> QED
            BY <1>2, <6>3 DEF Pushed
        <5> QED
          BY <5>2, <5>3, <5>4
      <4>6. Clean(F2[f], Q2[f], Len(Q2[f]), g, t)
        BY <1>1, <1>3, <4>4, <4>5 DEF Clean, Some
      <4> QED
        BY <4>1, <4>6
    <3>3. Coming(F2[x], Q2[x], F2[g].sent, g)
      BY <1>2, <2>2, <3>2 DEF Coming
    <3> QED
      BY <3>1, <3>3
  <2>3. CASE x # f
    <3>1. F2[x] = F[x] /\ Q[x] \in Seq(ToFederate) /\ Q2[x] \in Seq(ToFederate) /\ Extends(Q[x], Q2[x], {n})
      BY <1>2, <1>7, <2>3
    <3>2. Arriving(F[x], Q2[x], g)
      BY <1>6, <2>1, <3>1, ArrivingGrows
    <3>3. Coming(F[x], Q2[x], F2[g].sent, g)
      <4>1. CASE g = f
        BY <1>1, <4>1 DEF Coming
      <4>2. CASE g # f
        <5>0. {n} \cap (On(g) \cup Off(g)) = {} /\ \A t : {n} \subseteq UpTo(g, t)
          BY <1>6
        <5>1. Coming(F[x], Q2[x], F[g].sent, g)
          BY <2>1, <3>1, <5>0, ComingGrows
        <5>2. F2[g].sent = F[g].sent
          BY <1>2, <4>2
        <5> QED
          BY <5>1, <5>2
      <4> QED
        BY <4>1, <4>2
    <3> QED
      BY <3>1, <3>2, <3>3
  <2> QED
    BY <2>2, <2>3
<1> QED
  BY <1>8, <1>10, <1>11 DEF Punctual

\* What one federate does: it takes nothing back, and sends time stamps only if it may.
LEMMA ActorPunctual ==
  ASSUME NEW F, NEW Q, NEW S, Punctual(F, Q, S), NEW f \in Federates,
         NEW F2, NEW Q2, \A x \in Federates \ {f} : F2[x] = F[x] /\ Q2[x] = Q[x],
         Protocol(F2, Q2, S), Sound(F2, Q2, S), StampsOK(F2[f]),
         F[f].sent \in Seq(ToServer), Extends(F[f].sent, F2[f].sent, Fresh(f, F2[f])),
         ~Some(Q2[f], TSO(f)),
         \A g \in Federates \ {f} : Arriving(F2[f], Q2[f], g) /\ Coming(F2[f], Q2[f], F[g].sent, g)
  PROVE  Punctual(F2, Q2, S)
<1>1. PICK u, v, c : u = F[f].sent /\ v = F2[f].sent /\ c = F2[f].cTA
  OBVIOUS
<1>2. /\ \A x \in Federates : IsState(F2[x])
      /\ v \in Seq(ToServer) /\ c \in Nat
  BY <1>1, Fields DEF Protocol, Types
<1>3. /\ DOMAIN u = 1 .. Len(u) /\ Len(u) \in Nat /\ DOMAIN v = 1 .. Len(v) /\ Len(v) \in Nat
  BY <1>1, <1>2, LenProperties
<1>4. /\ Len(u) <= Len(v) /\ \A i \in DOMAIN u : i \in DOMAIN v /\ v[i] = u[i]
      /\ \A i \in DOMAIN v : i \notin DOMAIN u => v[i] \in Fresh(f, F2[f])
  BY <1>1, <1>3 DEF Extends
<1>5. ASSUME NEW j \in DOMAIN v, j \notin DOMAIN u, NEW h, v[j] \in Stamps(h)
      PROVE  h = f /\ Promising(F2[f]) /\ c <= v[j].ts /\ v[j].ts \in Nat
  BY <1>1, <1>4, <1>5, StampTimes DEF Fresh
<1>6. Sends(S, v, f)
  <2>1. ASSUME NEW j \in DOMAIN v, NEW h, v[j] \in Stamps(h)
        PROVE  /\ h = f /\ f \in S.regulating /\ S.ta[f] <= v[j].ts
               /\ \A i \in 1 .. j - 1 : v[i] \in UpTo(f, v[j].ts) /\ v[i] \notin On(f) \cup Off(f)
    <3>1. CASE j \in DOMAIN u
      <4>1. v[j] = u[j] /\ \A i \in 1 .. j - 1 : v[i] = u[i]
        BY <1>3, <1>4, <3>1
      <4>2. Sends(S, u, f)
        BY <1>1 DEF Punctual
      <4>3. /\ h = f /\ f \in S.regulating /\ S.ta[f] <= u[j].ts
            /\ \A i \in 1 .. j - 1 : u[i] \in UpTo(f, u[j].ts) /\ u[i] \notin On(f) \cup Off(f)
        BY <2>1, <3>1, <4>1, <4>2 DEF Sends
      <4> QED
        BY <4>1, <4>3
    <3>2. CASE j \notin DOMAIN u
      <4>1. h = f /\ Promising(F2[f]) /\ c <= v[j].ts /\ v[j].ts \in Nat
        BY <1>5, <2>1, <3>2
      <4>2. /\ f \in S.regulating /\ S.ta[f] <= c
            /\ ~Some(v, On(f)) /\ ~Some(v, Off(f)) /\ Each(v, UpTo(f, c))
        BY <1>1, <4>1, Standing
      <4>3. S.ta[f] \in Nat
        <5>1. IsServer(S)
          BY DEF Protocol, Types
        <5> QED
          BY <4>2, <5>1 DEF IsServer, IsMap
      <4>4. UpTo(f, c) \subseteq UpTo(f, v[j].ts)
        BY <1>2, <4>1, UpToGrows
      <4>5. \A i \in 1 .. j - 1 : i \in DOMAIN v
        BY <1>3
      <4>6. \A i \in 1 .. j - 1 : v[i] \in UpTo(f, v[j].ts) /\ v[i] \notin On(f) \cup Off(f)
        BY <4>2, <4>4, <4>5 DEF Some, Each
      <4>7. S.ta[f] <= v[j].ts
        BY <1>2, <4>1, <4>2, <4>3
      <4> QED
        BY <4>1, <4>2, <4>6, <4>7
    <3> QED
      BY <3>1, <3>2
  <2> QED
    BY <2>1 DEF Sends
<1>7. ASSUME NEW g \in Federates PROVE Sends(S, F2[g].sent, g) /\ ~Some(Q2[g], TSO(g))
  <2>1. CASE g = f
    BY <1>1, <1>6, <2>1
  <2>2. CASE g # f
    <3>1. Sends(S, F[g].sent, g) /\ ~Some(Q[g], TSO(g)) /\ F2[g] = F[g] /\ Q2[g] = Q[g]
      BY <2>2 DEF Punctual
    <3> QED
      BY <3>1
  <2> QED
    BY <2>1, <2>2
<1>8. ASSUME NEW x \in Federates \ {f} PROVE Coming(F2[x], Q2[x], v, f)
  <2>1. Coming(F[x], Q[x], u, f) /\ F2[x] = F[x] /\ Q2[x] = Q[x]
    BY <1>1 DEF Punctual
  <2>2. ASSUME F2[x].member \in {"joining", "in"}, NEW j \in DOMAIN v, v[j] \in Stamps(f)
        PROVE  Clean(F2[x], Q2[x], Len(Q2[x]), f, v[j].ts)
    <3>1. CASE j \in DOMAIN u
      <4>1. v[j] = u[j]
        BY <1>4, <3>1
      <4> QED
        BY <2>1, <2>2, <3>1, <4>1 DEF Coming
    <3>2. CASE j \notin DOMAIN u
      <4>1. Promising(F2[f]) /\ c <= v[j].ts /\ v[j].ts \in Nat
        BY <1>5, <2>2, <3>2
      <4>2. Clean(F2[x], Q2[x], Len(Q2[x]), f, c)
        BY <1>1, <2>2, <4>1, Backed
      <4> QED
        BY <1>2, <4>1, <4>2, CleanMore
    <3> QED
      BY <3>1, <3>2
  <2> QED
    BY <2>2 DEF Coming
<1>9. ASSUME NEW g \in Federates, NEW x \in Federates \ {g}
      PROVE  Arriving(F2[x], Q2[x], g) /\ Coming(F2[x], Q2[x], F2[g].sent, g)
  <2>1. Arriving(F[x], Q[x], g) /\ Coming(F[x], Q[x], F[g].sent, g)
    BY DEF Punctual
  <2>2. CASE x = f
    <3>1. F2[g].sent = F[g].sent
      BY <2>2
    <3>2. Arriving(F2[f], Q2[f], g) /\ Coming(F2[f], Q2[f], F[g].sent, g)
      BY <2>2
    <3> QED
      BY <2>2, <3>1, <3>2
  <2>3. CASE x # f /\ g = f
    <3>1. F2[x] = F[x] /\ Q2[x] = Q[x] /\ Coming(F2[x], Q2[x], v, f)
      BY <1>8, <2>3
    <3> QED
      BY <1>1, <2>1, <2>3, <3>1
  <2>4. CASE x # f /\ g # f
    <3>1. F2[x] = F[x] /\ Q2[x] = Q[x] /\ F2[g] = F[g]
      BY <2>4
    <3> QED
      BY <2>1, <3>1
  <2> QED
    BY <2>2, <2>3, <2>4
<1> QED
  BY <1>7, <1>9 DEF Punctual

-----------------------------------------------------------------------------
(* What a federate learns of g by a message *)

\* The state s becomes t by the message m.
Learns(s, m, t, g) ==
  /\ t.member = (IF m \in Typed("JoinResponse") THEN "in" ELSE s.member)
  /\ g \in DOMAIN t.bounds =>
       \/ g \in DOMAIN s.bounds /\ t.bounds[g].ta = s.bounds[g].ta
       \/ m \in On(g) /\ (s.member = "joining" => t.bounds[g].ta = m.ts)
       \/ m \in Advances(g) /\ t.bounds[g].ta = m.ts
  /\ g \in DOMAIN s.bounds /\ m \notin Off(g) => g \in DOMAIN t.bounds
  /\ m \in On(g) => g \in DOMAIN t.bounds

LEMMA LearnsKnows ==
  ASSUME NEW s, NEW m, NEW a, NEW t, NEW g, Learns(s, m, a, g), Knows(a, t)
  PROVE  Learns(s, m, t, g)
BY DEF Learns, Knows

LEMMA SteadyKnows ==
  ASSUME NEW f, NEW s, NEW t, Steady(f, s, t)
  PROVE  Knows(s, t)
BY DEF Steady, Knows

LEMMA QuietKnows ==
  ASSUME NEW f, NEW s, NEW t, Quiet(f, s, t)
  PROVE  Knows(s, t)
BY DEF Quiet, Knows

\* A message that leaves the bounds alone
LEMMA SameLearns ==
  ASSUME NEW s, NEW m, NEW t, NEW g, t.bounds = s.bounds, m \notin On(g),
         t.member = (IF m \in Typed("JoinResponse") THEN "in" ELSE s.member)
  PROVE  Learns(s, m, t, g)
BY DEF Learns

LEMMA DropLearns ==
  ASSUME NEW s, NEW m, NEW t, NEW g, NEW h, t.bounds = Drop(s.bounds, h), m \notin On(g),
         h = g => m \in Off(g), m \notin Typed("JoinResponse"), t.member = s.member
  PROVE  Learns(s, m, t, g)
BY DEF Learns, Drop

LEMMA requestLearns ==
  ASSUME NEW f \in Federates, NEW s, IsState(s), LocalOK(s), NEW m \in EnableRequests, NEW g
  PROVE  Learns(s, m, acceptEnableRequest(f, s, m), g)
<1>1. PICK a, u, v :
         /\ Alike(s, a) /\ Quiet(f, a, acceptEnableRequest(f, s, m))
         /\ u \in Nat /\ v \in BOOLEAN /\ (u = m.ts \/ (v /\ s.member = "in"))
         /\ DOMAIN a.bounds = DOMAIN s.bounds \cup {m.fed}
         /\ a.bounds[m.fed].ta = u
         /\ \A h \in DOMAIN s.bounds : h # m.fed => a.bounds[h] = s.bounds[h]
  BY enableRequestAlike
<1>2. a.member = s.member
  BY <1>1 DEF Alike
<1>3. m \in Messages /\ m.type = "EnableReg"
  BY DEF EnableRequests, Messages, ToServer, Relayed
<1>4. (m.fed = g <=> m \in On(g)) /\ m \notin Typed("JoinResponse")
  BY <1>3 DEF On, Of, Typed
<1>5. s.member = "joining" => u = m.ts
  BY <1>1
<1>6. Learns(s, m, a, g)
  BY <1>1, <1>2, <1>4, <1>5 DEF Learns
<1> QED
  BY <1>1, <1>6, QuietKnows, LearnsKnows

LEMMA disableLearns ==
  ASSUME NEW f \in Federates, NEW s, IsState(s), LocalOK(s), NEW m \in Messages, m.type = "DisableReg", NEW g
  PROVE  Learns(s, m, acceptDisableRequest(f, s, m), g)
<1>1. PICK a : /\ Alike(s, a) /\ Quiet(f, a, acceptDisableRequest(f, s, m))
               /\ a.bounds = Drop(s.bounds, m.fed)
  BY disableRequestAlike
<1>2. (m.fed = g => m \in Off(g)) /\ m \notin On(g) /\ m \notin Typed("JoinResponse")
  BY DEF Off, On, Of, Typed
<1>3. a.member = s.member
  BY <1>1 DEF Alike
<1>4. Learns(s, m, a, g)
  BY <1>1, <1>2, <1>3, DropLearns
<1> QED
  BY <1>1, <1>4, QuietKnows, LearnsKnows

LEMMA acceptLearns ==
  ASSUME NEW F, NEW Q, NEW S, NEW f, NEW F2, NEW Q2, Taken(F, Q, S, f, F2, Q2), LocalOK(F[f]),
         NEW s, s = F[f], NEW m, m = Head(Q[f]), NEW t, t = F2[f],
         t = acceptInternalMessage(f, s, m), NEW g \in Federates \ {f}
  PROVE  Learns(s, m, t, g)
<1>1. /\ f \in Federates /\ s.member \in {"joining", "in"} /\ OwnOK(F, Q, f)
      /\ Q[f] \in Seq(ToFederate) /\ Q[f] # <<>> /\ m \in ToFederate /\ m \in Messages
  BY TakenFacts
<1>2. IsState(s) /\ IsState(t) /\ LocalOK(s)
  BY DEF Taken, Protocol, Types
<1>3. ASSUME m.type \notin {"EnableReg", "JoinResponse"}
      PROVE  m \notin On(g) /\ m \notin Typed("JoinResponse")
  BY <1>3 DEF On, Of, Typed
<1>4. m.type # "JoinResponse" => m \notin Typed("JoinResponse")
  BY DEF Typed
<1>5. CASE m.type = "JoinNotify"
  <2>1. m.fed \in Federates /\ t = acceptJoinNotify(f, s, m.fed)
    BY <1>1, <1>5, ToFederateCases DEF acceptInternalMessage
  <2>2. PICK u : u = acceptJoinNotify(f, s, m.fed) /\ Alike(s, u) /\ u.bounds = s.bounds
    BY <1>1, <1>2, <2>1, joinNotifyAlike
  <2>3. t.bounds = s.bounds /\ t.member = s.member
    BY <2>1, <2>2 DEF Alike
  <2> QED
    BY <1>3, <1>5, <2>3, SameLearns
<1>6. CASE m.type = "JoinResponse"
  <2>1. t = [s EXCEPT !.member = "in"]
    BY <1>6 DEF acceptInternalMessage
  <2>2. t.member = "in" /\ t.bounds = s.bounds
    BY <1>2, <2>1 DEF IsState
  <2>3. m \notin On(g) /\ m \in Typed("JoinResponse")
    BY <1>1, <1>6 DEF On, Of, Typed
  <2> QED
    BY <2>2, <2>3, SameLearns
<1>7. CASE m.type = "ResignNotify"
  <2>1. m.fed \in Federates /\ t = acceptResignNotify(f, s, m.fed)
    BY <1>1, <1>7, ToFederateCases DEF acceptInternalMessage
  <2>2. PICK a : Alike(s, a) /\ Steady(f, a, t) /\ a.bounds = Drop(s.bounds, m.fed)
    BY <1>1, <1>2, <2>1, resignNotifyAlike
  <2>3. m.fed = g => m \in Off(g)
    BY <1>1, <1>7 DEF Off, Of
  <2>4. a.member = s.member
    BY <2>2 DEF Alike
  <2>5. Learns(s, m, a, g)
    BY <1>3, <1>7, <2>2, <2>3, <2>4, DropLearns
  <2> QED
    BY <2>2, <2>5, SteadyKnows, LearnsKnows
<1>8. CASE m.type = "EnableReg" /\ m.fed = f
  <2>1. t = acceptOwnEnableRequest(f, s)
    BY <1>8 DEF acceptInternalMessage
  <2>2. s.reg = "EnablePending" /\ f \in s.enableSet
    <3>1. m \in On(f)
      BY <1>1, <1>8 DEF On, Of
    <3>2. Some(Q[f], On(f))
      BY <1>1, <3>1, SomeTail
    <3> QED
      BY <1>1, <3>2 DEF OwnOK
  <2>3. PICK a : Alike(s, a) /\ Steady(f, a, t) /\ a.bounds = s.bounds
    BY <1>1, <1>2, <2>1, <2>2, ownEnableRequestAlike
  <2>4. a.member = s.member /\ m \notin On(g)
    BY <1>8, <2>3 DEF Alike, On, Of
  <2>5. Learns(s, m, a, g)
    BY <1>4, <1>8, <2>3, <2>4, SameLearns
  <2> QED
    BY <2>3, <2>5, SteadyKnows, LearnsKnows
<1>9. CASE m.type = "EnableReg" /\ m.fed # f
  <2>1. m \in EnableRequests /\ t = acceptEnableRequest(f, s, m)
    BY <1>1, <1>9, ToFederateCases DEF acceptInternalMessage
  <2> QED
    BY <1>1, <1>2, <2>1, requestLearns
<1>10. CASE m.type = "EnableRegResponse"
  <2>1. m \in EnableResponses /\ t = acceptEnableResponse(f, s, m)
    BY <1>1, <1>10, ToFederateCases DEF acceptInternalMessage
  <2>2. m.from \in Federates
    BY <2>1 DEF EnableResponses
  <2>3. s.reg = "EnablePending" /\ s.enableSet # {}
    BY <1>10, <2>2, ResponseWaited
  <2>4. PICK a : Alike(s, a) /\ Steady(f, a, t) /\ a.bounds = s.bounds
    BY <1>1, <1>2, <2>1, <2>3, enableResponseAlike
  <2>5. a.member = s.member
    BY <2>4 DEF Alike
  <2>6. Learns(s, m, a, g)
    BY <1>3, <1>10, <2>4, <2>5, SameLearns
  <2> QED
    BY <2>4, <2>6, SteadyKnows, LearnsKnows
<1>11. CASE m.type = "DisableReg"
  <2>1. t = acceptDisableRequest(f, s, m)
    BY <1>11 DEF acceptInternalMessage
  <2> QED
    BY <1>1, <1>2, <1>11, <2>1, disableLearns
<1>12. CASE m.type = "Commit"
  <2>1. m \in CommitMessages /\ t = acceptCommit(f, s, m)
    BY <1>1, <1>12, ToFederateCases DEF acceptInternalMessage
  <2>2. PICK a : /\ Alike(s, a) /\ Quiet(f, a, t) /\ DOMAIN a.bounds = DOMAIN s.bounds
                 /\ \A h \in DOMAIN s.bounds :
                      a.bounds[h].ta = (IF h = m.fed /\ "TA" \in m.ct THEN m.ts ELSE s.bounds[h].ta)
    BY <1>1, <1>2, <2>1, commitAlike
  <2>3. a.member = s.member
    BY <2>2 DEF Alike
  <2>4. g = m.fed /\ "TA" \in m.ct => m \in Advances(g)
    BY <1>1, <1>12 DEF Advances, Of
  <2>5. Learns(s, m, a, g)
    BY <1>3, <1>12, <2>2, <2>3, <2>4 DEF Learns
  <2> QED
    BY <2>2, <2>5, QuietKnows, LearnsKnows
<1>13. CASE m.type \in {"CommitResponse", "Locked", "Data"}
  <2>1. Quiet(f, s, t)
    <3>1. CASE m.type = "CommitResponse"
      <4>1. m \in CommitResponseMessages /\ t = acceptCommitResponse(f, s, m)
        BY <1>1, <3>1, ToFederateCases DEF acceptInternalMessage
      <4> QED
        BY <1>1, <1>2, <4>1, commitResponseQuiet
    <3>2. CASE m.type = "Locked"
      <4>1. m \in LockedMessages /\ t = acceptLocked(f, s, m)
        BY <1>1, <3>2, ToFederateCases DEF acceptInternalMessage
      <4> QED
        BY <1>1, <1>2, <4>1, acceptLockedQuiet
    <3>3. CASE m.type = "Data"
      <4>1. m \in DataMessages /\ t = acceptData(f, s, m)
        BY <1>1, <3>3, ToFederateCases DEF acceptInternalMessage
      <4> QED
        BY <1>1, <1>2, <4>1, acceptDataQuiet
    <3> QED
      BY <1>13, <3>1, <3>2, <3>3
  <2>2. Learns(s, m, s, g)
    BY <1>3, <1>13, SameLearns
  <2> QED
    BY <2>1, <2>2, QuietKnows, LearnsKnows
<1> QED
  BY <1>1, <1>5, <1>6, <1>7, <1>8, <1>9, <1>10, <1>11, <1>12, <1>13, ToFederateCases

\* What was behind the message
LEMMA CleanTail ==
  ASSUME NEW s, NEW q \in Seq(ToFederate), q # <<>>, NEW m, m = Head(q), NEW p, p = Tail(q),
         NEW t, NEW g, Learns(s, m, t, g), s.member \in {"joining", "in"},
         NEW n \in Nat, n < Len(q), NEW c, Clean(s, q, n + 1, g, c)
  PROVE  Clean(t, p, n, g, c)
<1>1. /\ m = q[1] /\ Len(q) \in Nat \ {0} /\ \A i \in 1 .. Len(q) - 1 : p[i] = q[i + 1]
      /\ m \in Messages
  BY TailAt, MessageIn
<1>2. 1 \in 1 .. n + 1
  OBVIOUS
<1>3. /\ m \in UpTo(g, c) /\ m \notin Off(g)
      /\ m \in On(g) => s.member = "joining"
  BY <1>1, <1>2 DEF Clean
<1>4. m \in On(g) \/ m \in Advances(g) => m.ts <= c
  BY <1>3 DEF UpTo, Advances
<1>5. ASSUME NEW i \in 1 .. n
      PROVE  /\ p[i] \in UpTo(g, c) /\ p[i] \notin Off(g)
             /\ p[i] \in On(g) => t.member = "joining" /\ \A k \in 1 .. i : p[k] \notin Typed("JoinResponse")
  <2>1. i + 1 \in 1 .. n + 1 /\ i \in 1 .. Len(q) - 1 /\ p[i] = q[i + 1]
    BY <1>1
  <2>2. /\ q[i + 1] \in UpTo(g, c) /\ q[i + 1] \notin Off(g)
        /\ q[i + 1] \in On(g) => s.member = "joining" /\ \A k \in 1 .. i + 1 : q[k] \notin Typed("JoinResponse")
    BY <2>1 DEF Clean
  <2>3. ASSUME q[i + 1] \in On(g)
        PROVE  t.member = "joining" /\ \A k \in 1 .. i : p[k] \notin Typed("JoinResponse")
    <3>1. s.member = "joining" /\ \A k \in 1 .. i + 1 : q[k] \notin Typed("JoinResponse")
      BY <2>2, <2>3
    <3>2. 1 \in 1 .. i + 1
      OBVIOUS
    <3>3. m \notin Typed("JoinResponse")
      BY <1>1, <3>1, <3>2
    <3>4. ASSUME NEW k \in 1 .. i PROVE p[k] \notin Typed("JoinResponse")
      <4>1. k + 1 \in 1 .. i + 1 /\ p[k] = q[k + 1]
        BY <1>1, <2>1
      <4> QED
        BY <3>1, <4>1
    <3> QED
      BY <3>1, <3>3, <3>4 DEF Learns
  <2> QED
    BY <2>1, <2>2, <2>3
<1>6. ASSUME g \in DOMAIN t.bounds PROVE t.bounds[g].ta <= c
  <2>1. g \in DOMAIN s.bounds => s.bounds[g].ta <= c
    BY DEF Clean
  <2> QED
    BY <1>3, <1>4, <1>6, <2>1 DEF Learns
<1>7. g \in DOMAIN t.bounds \/ \E i \in 1 .. n : p[i] \in On(g)
  <2>1. CASE g \in DOMAIN s.bounds
    BY <1>3, <2>1 DEF Learns
  <2>2. CASE g \notin DOMAIN s.bounds
    <3>1. PICK i \in 1 .. n + 1 : q[i] \in On(g)
      BY <2>2 DEF Clean
    <3>2. CASE i = 1
      BY <1>1, <3>1, <3>2 DEF Learns
    <3>3. CASE i # 1
      <4>1. i - 1 \in 1 .. n /\ i - 1 \in 1 .. Len(q) - 1 /\ (i - 1) + 1 = i
        BY <1>1, <3>3
      <4>2. p[i - 1] = q[i]
        BY <1>1, <4>1
      <4> QED
        BY <3>1, <4>1, <4>2
    <3> QED
      BY <3>2, <3>3
  <2> QED
    BY <2>1, <2>2
<1> QED
  BY <1>5, <1>6, <1>7 DEF Clean

LEMMA ArrivingTail ==
  ASSUME NEW s, NEW q \in Seq(ToFederate), q # <<>>, NEW m, m = Head(q), NEW p, p = Tail(q),
         NEW t, NEW g, Learns(s, m, t, g), s.member \in {"joining", "in"}, Arriving(s, q, g)
  PROVE  Arriving(t, p, g)
<1>1. /\ Len(q) \in Nat \ {0} /\ DOMAIN q = 1 .. Len(q) /\ DOMAIN p = 1 .. Len(q) - 1
      /\ \A i \in 1 .. Len(q) - 1 : p[i] = q[i + 1]
  BY TailAt
<1>2. ASSUME NEW j \in DOMAIN p, p[j] \in Stamps(g)
      PROVE  Clean(t, p, j - 1, g, p[j].ts)
  <2>1. j + 1 \in DOMAIN q /\ p[j] = q[j + 1] /\ j - 1 \in Nat /\ j - 1 < Len(q) /\ (j + 1) - 1 = (j - 1) + 1
    BY <1>1
  <2>2. Clean(s, q, (j + 1) - 1, g, q[j + 1].ts)
    BY <1>2, <2>1 DEF Arriving
  <2>3. PICK n, c : n = j - 1 /\ c = p[j].ts
    OBVIOUS
  <2>4. n \in Nat /\ n < Len(q) /\ Clean(s, q, n + 1, g, c)
    BY <2>1, <2>2, <2>3
  <2>5. Clean(t, p, n, g, c)
    BY <2>4, CleanTail
  <2> QED
    BY <2>3, <2>5
<1> QED
  BY <1>2 DEF Arriving

LEMMA ComingAccepted ==
  ASSUME NEW s, NEW q \in Seq(ToFederate), q # <<>>, NEW m, m = Head(q), NEW p, p = Tail(q),
         NEW t, NEW g, Learns(s, m, t, g), s.member \in {"joining", "in"}, NEW u, Coming(s, q, u, g)
  PROVE  Coming(t, p, u, g)
<1>1. Len(q) \in Nat \ {0} /\ Len(p) = Len(q) - 1
  BY TailAt
<1>2. ASSUME NEW j \in DOMAIN u, u[j] \in Stamps(g)
      PROVE  Clean(t, p, Len(p), g, u[j].ts)
  <2>1. Clean(s, q, Len(q), g, u[j].ts)
    BY <1>2 DEF Coming
  <2>2. PICK n, c : n = Len(p) /\ c = u[j].ts
    OBVIOUS
  <2>3. n \in Nat /\ n < Len(q) /\ n + 1 = Len(q)
    BY <1>1, <2>2
  <2>4. Clean(s, q, n + 1, g, c)
    BY <2>1, <2>2, <2>3
  <2>5. Clean(t, p, n, g, c)
    BY <2>3, <2>4, CleanTail
  <2> QED
    BY <2>2, <2>5
<1> QED
  BY <1>2 DEF Coming

LEMMA StampFrom ==
  ASSUME NEW m \in ToFederate, NEW g, m \in Stamps(g)
  PROVE  g \in Federates
<1>1. CASE m \in Advances(g)
  <2>1. m.type = "Commit" /\ m.fed = g
    BY <1>1 DEF Advances, Of
  <2>2. m \in CommitMessages
    BY <2>1, ToFederateCases
  <2> QED
    BY <2>1, <2>2 DEF CommitMessages
<1>2. CASE m \in TSO(g)
  <2>1. m.type = "Data" /\ m.from = g
    BY <1>2 DEF TSO
  <2>2. m \in DataMessages
    BY <2>1, ToFederateCases
  <2> QED
    BY <2>1, <2>2 DEF DataMessages
<1> QED
  BY <1>1, <1>2 DEF Stamps

\* When a time stamp is taken up, its sender is known with a bound of at most that.
LEMMA HeadAnnounced ==
  ASSUME NEW F, NEW Q, NEW S, NEW f \in Federates, Punctual(F, Q, S), MemberOK(F, Q, S, f),
         NEW q \in Seq(ToFederate), q = Q[f], q # <<>>, F[f].member \in {"joining", "in"},
         NEW s, s = F[f], NEW m, m = Head(q)
  PROVE  Announced(s, m)
<1>1. /\ m = q[1] /\ 1 \in DOMAIN q /\ m \in ToFederate
  BY TailAt
<1>2. ASSUME NEW g, m \in Stamps(g) PROVE g \in DOMAIN s.bounds /\ s.bounds[g].ta <= m.ts
  <2>1. g \in Federates
    BY <1>1, <1>2, StampFrom
  <2>2. g # f
    <3>1. m \notin TSO(f)
      BY <1>1 DEF Punctual, Some
    <3>2. m \notin Of("Commit", f)
      BY <1>1 DEF MemberOK, Some
    <3> QED
      BY <1>2, <3>1, <3>2 DEF Stamps, Advances
  <2>3. Arriving(s, q, g)
    BY <2>1, <2>2 DEF Punctual
  <2>4. Clean(s, q, 1 - 1, g, m.ts)
    BY <1>1, <1>2, <2>3 DEF Arriving
  <2>5. 1 .. 1 - 1 = {}
    OBVIOUS
  <2> QED
    BY <2>4, <2>5 DEF Clean
<1> QED
  BY <1>2 DEF Announced

LEMMA AcceptPunctual ==
  ASSUME NEW F, NEW Q, NEW S, NEW f, NEW F2, NEW Q2, Taken(F, Q, S, f, F2, Q2), LocalOK(F[f]),
         F2[f] = acceptInternalMessage(f, F[f], Head(Q[f])), Punctual(F, Q, S), Timely(F[f]), Ordinary,
         Protocol(F2, Q2, S), Sound(F2, Q2, S), StampsOK(F2[f])
  PROVE  Goes(f, F[f], F2[f]) /\ Punctual(F2, Q2, S)
<1>1. PICK s, q, m, t, p : s = F[f] /\ q = Q[f] /\ m = Head(q) /\ t = F2[f] /\ p = Q2[f]
  OBVIOUS
<1>2. /\ f \in Federates /\ s.member \in {"joining", "in"} /\ OwnOK(F, Q, f) /\ MemberOK(F, Q, S, f)
      /\ q \in Seq(ToFederate) /\ q # <<>> /\ m \in ToFederate /\ m \in Messages /\ p = Tail(q)
      /\ F[f].sent \in Seq(ToServer)
  BY <1>1, TakenFacts
<1>12. \A x \in Federates \ {f} : F2[x] = F[x] /\ Q2[x] = Q[x]
  BY DEF Taken
<1>3. IsState(s) /\ LocalOK(s) /\ Timely(s)
  BY <1>1 DEF Taken, Protocol, Types
<1>4. Announced(s, m)
  BY <1>1, <1>2, HeadAnnounced
<1>5. m.type = "EnableRegResponse" => s.enableSet # {}
  <2>1. ASSUME m.type = "EnableRegResponse" PROVE m.from \in Federates
    <3>1. m \in EnableResponses
      BY <1>2, <2>1, ToFederateCases
    <3> QED
      BY <3>1 DEF EnableResponses
  <2> QED
    BY <1>1, <2>1, ResponseWaited
<1>6. m.type = "EnableReg" /\ m.fed = f => s.enableSet # {}
  <2>1. ASSUME m.type = "EnableReg", m.fed = f PROVE s.enableSet # {}
    <3>1. m \in On(f)
      BY <1>2, <2>1 DEF On, Of
    <3>2. Some(Q[f], On(f))
      BY <1>1, <1>2, <3>1, SomeTail
    <3> QED
      BY <1>1, <1>2, <3>2 DEF OwnOK
  <2> QED
    BY <2>1
<1>7. Goes(f, s, t)
  <2>1. t = acceptInternalMessage(f, s, m)
    BY <1>1
  <2> QED
    BY <1>2, <1>3, <1>4, <1>5, <1>6, <2>1, acceptGoes
<1>8. ASSUME NEW g \in Federates \ {f}
      PROVE  Arriving(t, p, g) /\ Coming(t, p, F[g].sent, g)
  <2>1. Learns(s, m, t, g)
    BY <1>1, acceptLearns
  <2>2. Arriving(s, q, g) /\ Coming(s, q, F[g].sent, g)
    BY <1>1, <1>2 DEF Punctual
  <2>6. m = Head(q)
    BY <1>1
  <2>3. Arriving(t, p, g)
    BY <1>2, <2>1, <2>2, <2>6, ArrivingTail
  <2>4. PICK u : u = F[g].sent
    OBVIOUS
  <2>5. Coming(t, p, u, g)
    BY <1>2, <2>1, <2>2, <2>4, <2>6, ComingAccepted
  <2> QED
    BY <2>3, <2>4, <2>5
<1>9. ~Some(p, TSO(f))
  <2>1. ~Some(q, TSO(f))
    BY <1>1, <1>2 DEF Punctual
  <2>2. p = Tail(q)
    BY <1>2
  <2> QED
    BY <1>2, <2>1, <2>2, SomeTail
<1>10. Extends(F[f].sent, F2[f].sent, Fresh(f, F2[f]))
  BY <1>1, <1>7 DEF Goes
<1>11. Punctual(F2, Q2, S)
  <2>1. ~Some(Q2[f], TSO(f)) /\ f \in Federates /\ F[f].sent \in Seq(ToServer)
    BY <1>1, <1>2, <1>9
  <2>2. \A g \in Federates \ {f} : Arriving(F2[f], Q2[f], g) /\ Coming(F2[f], Q2[f], F[g].sent, g)
    BY <1>1, <1>8
  <2> QED
    BY <1>10, <1>12, <2>1, <2>2, ActorPunctual
<1> QED
  BY <1>1, <1>7, <1>11

-----------------------------------------------------------------------------
(* The steps *)

\* The invariant of ordinary programs
OnTime ==
  /\ Guaranteed
  /\ \A f \in Federates : Timely(fed[f])
  /\ Punctual(fed, toFed, server)

\* What f knows is not changed by its own calls.
LEMMA callKnows ==
  ASSUME Consistent, NEW f \in Federates, Call(f), ~Resign(f)
  PROVE  /\ fed[f].member = "in" /\ toFed' = toFed /\ server' = server
         /\ \A x \in Federates \ {f} : fed'[x] = fed[x]
         /\ Knows(fed[f], fed'[f])
<1>1. CallCases(f)
  BY callCases
<1>2. PICK s : s = fed[f]
  OBVIOUS
<1>3. fed[f].member = "in" /\ IsState(s) /\ LocalOK(s)
  BY <1>1, <1>2, memberFacts DEF CallCases
<1>4. ASSUME NEW t, Called(f, t)
      PROVE  /\ toFed' = toFed /\ server' = server
             /\ fed'[f] = t /\ \A x \in Federates \ {f} : fed'[x] = fed[x]
  BY <1>4, fedChanges DEF Called, Consistent
<1>5. ASSUME NEW t, t.member = s.member, t.bounds = s.bounds PROVE Knows(s, t)
  BY <1>5 DEF Knows
<1>6. PICK t : Called(f, t) /\ Knows(s, t)
  <2>1. CASE \E t : Called(f, t) /\ Quiet(f, fed[f], t)
    BY <1>2, <2>1, QuietKnows
  <2>2. CASE fed[f].reg = "Disabled" /\ \E t, la \in Nat : Called(f, _enableTimeRegulation(f, fed[f], t, la))
    <3>1. PICK t \in Nat, la \in Nat : Called(f, _enableTimeRegulation(f, fed[f], t, la))
      BY <2>2
    <3>2. PICK u : u = _enableTimeRegulation(f, s, t, la)
      OBVIOUS
    <3>3. Asks(f, s, u)
      BY <1>2, <1>3, <2>2, <3>2, enableTimeRegulationAsks
    <3>4. PICK a : a.member = s.member /\ a.bounds = s.bounds /\ Quiet(f, a, u)
      BY <3>3 DEF Asks
    <3>5. Knows(s, u)
      BY <3>4, QuietKnows DEF Knows
    <3> QED
      BY <1>2, <3>1, <3>2, <3>5
  <2>3. CASE fed[f].reg = "Enabled" /\ Called(f, disableTimeRegulation(f, fed[f]))
    <3>1. PICK u : u = disableTimeRegulation(f, s)
      OBVIOUS
    <3>2. u.member = s.member /\ u.bounds = s.bounds
      BY <1>2, <1>3, <2>3, <3>1, disableTimeRegulationSends
    <3> QED
      BY <1>2, <1>5, <2>3, <3>1, <3>2
  <2>4. CASE fed[f].con = "Disabled" /\ Called(f, enableTimeConstrained(f, fed[f]))
    <3>1. PICK u : u = enableTimeConstrained(f, s)
      OBVIOUS
    <3>2. u.member = s.member /\ u.bounds = s.bounds
      BY <1>2, <1>3, <2>4, <3>1, enableTimeConstrainedSends
    <3> QED
      BY <1>2, <1>5, <2>4, <3>1, <3>2
  <2>5. CASE fed[f].con = "Enabled" /\ Called(f, disableTimeConstrained(f, fed[f]))
    <3>1. PICK u : u = disableTimeConstrained(f, s)
      OBVIOUS
    <3>2. u.member = s.member /\ u.bounds = s.bounds
      BY <1>2, <1>3, <2>5, <3>1, disableTimeConstrainedSends
    <3> QED
      BY <1>2, <1>5, <2>5, <3>1, <3>2
  <2> QED
    BY <1>1, <2>1, <2>2, <2>3, <2>4, <2>5 DEF CallCases
<1> QED
  BY <1>2, <1>3, <1>4, <1>6

\* The calls with the guards of Ambassador
LEMMA callGoes ==
  ASSUME Consistent, Ordinary, NEW f \in Federates, Timely(fed[f]), Call(f), ~Resign(f)
  PROVE  Goes(f, fed[f], fed'[f])
<1>1. PICK s : s = fed[f]
  OBVIOUS
<1>2. fed[f].member = "in" /\ s.member = "in"
  BY <1>1, callKnows
<1>3. IsState(s) /\ LocalOK(s) /\ Timely(s) /\ s.now[1] \in Nat
  BY <1>1, <1>2, memberFacts, Fields, PairTypes
<1>4. ASSUME NEW t, Called(f, t) PROVE fed'[f] = t
  BY <1>4, fedChanges DEF Called, Consistent
<1>5. "NMR" \notin Program[f] /\ "NMRA" \notin Program[f] /\ "Overlap" \notin Program[f] /\ ~DeliverToSelf
  BY DEF Ordinary
<1>6. ASSUME KeepsOrder(f) PROVE s.adv = "Granted" /\ s.reg # "EnablePending" /\ s.con # "EnablePending"
  BY <1>1, <1>5, <1>6 DEF KeepsOrder, getTimeAdvancePending
<1>7. ASSUME NEW t \in Nat, ~isLogicalTimeInThePast(s, t) PROVE s.now[1] <= t
  BY <1>3, <1>7 DEF isLogicalTimeInThePast
<1>8. SUFFICES Goes(f, s, fed'[f])
  BY <1>1
<1>9. CASE EnableTimeRegulation(f)
  <2>1. KeepsOrder(f) /\ s.reg = "Disabled"
    BY <1>1, <1>9 DEF EnableTimeRegulation
  <2>2. PICK la \in Nat : Called(f, _enableTimeRegulation(f, s, s.now[1], la))
    BY <1>1, <1>9, FederationAssumption DEF EnableTimeRegulation
  <2>3. Goes(f, s, _enableTimeRegulation(f, s, s.now[1], la))
    BY <1>3, <1>6, <2>1, enableTimeRegulationGoes
  <2> QED
    BY <1>4, <2>2, <2>3
<1>10. CASE EnableTimeRegulationAt(f)
  <2>1. KeepsOrder(f) /\ s.reg = "Disabled"
    BY <1>1, <1>10 DEF EnableTimeRegulationAt
  <2>2. PICK t \in Nat, la \in Nat : Called(f, _enableTimeRegulation(f, s, t, la))
    BY <1>1, <1>10, FederationAssumption DEF EnableTimeRegulationAt
  <2>3. Goes(f, s, _enableTimeRegulation(f, s, t, la))
    BY <1>3, <1>6, <2>1, enableTimeRegulationGoes
  <2> QED
    BY <1>4, <2>2, <2>3
<1>11. CASE DisableTimeRegulation(f)
  <2>1. s.reg = "Enabled" /\ Called(f, disableTimeRegulation(f, s))
    BY <1>1, <1>11 DEF DisableTimeRegulation
  <2>2. Goes(f, s, disableTimeRegulation(f, s))
    BY <1>3, <2>1, disableTimeRegulationGoes
  <2> QED
    BY <1>4, <2>1, <2>2
<1>12. CASE EnableTimeConstrained(f)
  <2>1. KeepsOrder(f) /\ s.con = "Disabled" /\ Called(f, enableTimeConstrained(f, s))
    BY <1>1, <1>12 DEF EnableTimeConstrained
  <2>2. Goes(f, s, enableTimeConstrained(f, s))
    BY <1>2, <1>3, <1>6, <2>1, enableTimeConstrainedGoes
  <2> QED
    BY <1>4, <2>1, <2>2
<1>13. CASE DisableTimeConstrained(f)
  <2>1. KeepsOrder(f) /\ s.con = "Enabled" /\ Called(f, disableTimeConstrained(f, s))
    BY <1>1, <1>13 DEF DisableTimeConstrained
  <2>2. Goes(f, s, disableTimeConstrained(f, s))
    BY <1>3, <1>6, <2>1, disableTimeConstrainedGoes
  <2> QED
    BY <1>4, <2>1, <2>2
<1>14. CASE \E mode \in AdvanceModes \ {"Granted"} : TimeAdvanceRequest(f, mode)
  <2>1. PICK mode \in AdvanceModes \ {"Granted"} : TimeAdvanceRequest(f, mode)
    BY <1>14
  <2>2. mode \in {"TAR", "TARA", "FQR"}
    BY <1>5, <2>1 DEF TimeAdvanceRequest, May, AdvanceModes
  <2>3. s.adv = "Granted" /\ s.reg # "EnablePending" /\ s.con # "EnablePending"
    BY <1>1, <2>1 DEF TimeAdvanceRequest, getTimeAdvancePending
  <2>4. PICK t \in Nat : ~isLogicalTimeInThePast(s, t) /\ Called(f, timeAdvanceRequest(f, s, t, mode))
    BY <1>1, <2>1, FederationAssumption DEF TimeAdvanceRequest
  <2>5. s.now[1] <= t
    BY <1>7, <2>4
  <2>6. Goes(f, s, timeAdvanceRequest(f, s, t, mode))
    <3>1. CASE mode \in {"TAR", "TARA"}
      BY <1>3, <2>3, <2>5, <3>1, advanceGoes
    <3>2. CASE mode = "FQR"
      BY <1>3, <2>3, <2>5, <3>2, flushGoes
    <3> QED
      BY <2>2, <3>1, <3>2
  <2> QED
    BY <1>4, <2>4, <2>6
<1>15. CASE ModifyLookahead(f)
  <2>1. s.reg = "Enabled" /\ s.adv = "Granted"
    BY <1>1, <1>15 DEF ModifyLookahead, getTimeAdvancePending
  <2>2. PICK la \in Nat : Called(f, modifyLookahead(f, s, la))
    BY <1>1, <1>15, FederationAssumption DEF ModifyLookahead
  <2>3. Goes(f, s, modifyLookahead(f, s, la))
    BY <1>3, <2>1, modifyLookaheadGoes
  <2> QED
    BY <1>4, <2>2, <2>3
<1>16. CASE SendTimeStamped(f)
  <2>1. PICK t \in Nat : /\ s.reg = "Enabled" => ~logicalTimeAlreadyPassed(s, t)
                         /\ Called(f, send(s, TimeStamped(f, t, IF s.reg = "Enabled" THEN "TSO" ELSE "RO")))
    BY <1>1, <1>5, <1>16, FederationAssumption DEF SendTimeStamped
  <2>2. PICK m : m = TimeStamped(f, t, IF s.reg = "Enabled" THEN "TSO" ELSE "RO")
    OBVIOUS
  <2>3. s.reg = "Enabled" => ~logicalTimeAlreadyPassed(s, t)
    BY <2>1
  <2>4. Goes(f, s, send(s, m))
    BY <1>3, <2>2, <2>3, sendGoes
  <2>5. Called(f, send(s, m))
    BY <2>1, <2>2
  <2> QED
    BY <1>4, <2>4, <2>5
<1>17. CASE SwitchAsynchronousDelivery(f)
  <2>1. PICK u : u = [s EXCEPT !.async = ~@]
    OBVIOUS
  <2>2. Called(f, u)
    BY <1>1, <1>17, <2>1 DEF SwitchAsynchronousDelivery
  <2>3. Goes(f, s, u)
    <3>1. Goes(f, s, [s EXCEPT !.async = ~@])
      BY <1>3, switchGoes
    <3> QED
      BY <2>1, <3>1
  <2> QED
    BY <1>4, <2>2, <2>3
<1>18. CASE SwitchPendingTimeInNextMessageRequest(f)
  <2>1. PICK u : u = [s EXCEPT !.allowPend = ~@]
    OBVIOUS
  <2>2. Called(f, u)
    BY <1>1, <1>18, <2>1 DEF SwitchPendingTimeInNextMessageRequest
  <2>3. Goes(f, s, u)
    <3>1. Goes(f, s, [s EXCEPT !.allowPend = ~@])
      BY <1>3, switchGoes
    <3> QED
      BY <2>1, <3>1
  <2> QED
    BY <1>4, <2>2, <2>3
<1> QED
  BY <1>9, <1>10, <1>11, <1>12, <1>13, <1>14, <1>15, <1>16, <1>17, <1>18 DEF Call

\* What is left to show for a step
Timed == (\A g \in Federates : Timely(fed'[g])) /\ Punctual(fed', toFed', server')

\* Time management and the connects after a step, from the invariants of the protocol
LEMMA postState ==
  ASSUME Guaranteed, [Next]_vars
  PROVE  /\ Protocol(fed', toFed', server') /\ Sound(fed', toFed', server')
         /\ \A g \in Federates : StampsOK(fed'[g])
<1>1. Guaranteed'
  BY guaranteedStep
<1> QED
  BY <1>1 DEF Guaranteed, Consistent

LEMMA serveOwn ==
  ASSUME NEW f, f \in Federates, Serve(f), NEW m, m = Head(fed[f].sent), m.type = "Data"
  PROVE  toFed'[f] = toFed[f]
<1>1. ServeData(f)
  BY DEF Serve, ServeEnableTimeRegulation, ServeDisableTimeRegulation, ServeEnableTimeConstrained,
         ServeDisableTimeConstrained, ServeCommit, ServeResponse, ServeLocked, ServeResign, Arrived
<1>2. toFed' = [x \in Federates |-> IF x \in server.members \ {f} THEN Append(toFed[x], m) ELSE toFed[x]]
  BY <1>1 DEF ServeData, ToAll
<1> QED
  BY <1>2

\* The server takes a message from the connect only.
LEMMA takenTimely ==
  ASSUME OnTime, NEW f \in Federates, Take(f)
  PROVE  \A g \in Federates : Timely(fed'[g])
<1>1. PICK s, q : s = fed[f] /\ q = Tail(fed[f].sent)
  OBVIOUS
<1>2. PICK t : t = [s EXCEPT !.sent = q]
  OBVIOUS
<1>3. IsState(s) /\ Timely(s)
  BY <1>1 DEF OnTime, Guaranteed, Consistent, TypeOK
<1>4. fed'[f] = t /\ \A x \in Federates \ {f} : fed'[x] = fed[x]
  BY <1>1, <1>2, fedChanges DEF Take, OnTime, Guaranteed, Consistent
<1>5. Level(s, t) /\ t.tso = s.tso /\ t.bounds = s.bounds
  BY <1>2, <1>3 DEF IsState, Level
<1>6. \A g \in DOMAIN t.bounds : Within(s, t.bounds[g].ta)
  BY <1>3, <1>5, BoundsWithin
<1>7. Timely(t)
  BY <1>3, <1>5, <1>6, LevelTimely
<1> QED
  BY <1>4, <1>7 DEF OnTime

LEMMA serveOnTime ==
  ASSUME OnTime, NEW f \in Federates, Serve(f)
  PROVE  Timed
<1>1. Consistent /\ Punctual(fed, toFed, server)
  BY DEF OnTime, Guaranteed
<1>2. Take(f)
  BY DEF Serve, ServeEnableTimeRegulation, ServeDisableTimeRegulation, ServeEnableTimeConstrained,
         ServeDisableTimeConstrained, ServeCommit, ServeResponse, ServeLocked, ServeData, ServeResign
<1>3. Punctual(fed', toFed', server')
  <2>1. CASE ServeResign(f)
    BY <1>1, <2>1, resignedState, ResignedPunctual
  <2>2. CASE \E m : Relays(fed, toFed, server, f, m, fed', toFed', server')
    <3>1. PICK m : Relays(fed, toFed, server, f, m, fed', toFed', server')
      BY <2>2
    <3>2. m = Head(fed[f].sent)
      BY <3>1 DEF Relays, Served
    <3>3. m.type = "Data" => toFed'[f] = toFed[f]
      BY <3>2, serveOwn
    <3> QED
      BY <1>1, <3>1, <3>3, ServedPunctual
  <2> QED
    BY <1>1, <2>1, <2>2, serveState
<1> QED
  BY <1>2, <1>3, takenTimely DEF Timed

LEMMA joinOnTime ==
  ASSUME OnTime, NEW f \in Federates, Join(f)
  PROVE  Timed
<1>1. Consistent /\ TypeOK /\ Punctual(fed, toFed, server) /\ fed[f].member = "out" /\ Timely(fed[f])
  BY DEF OnTime, Guaranteed, Consistent, Join
<1>2. Joined(fed, toFed, server, f, fed', toFed', server')
  BY <1>1, joinedState
<1>3. toFed[f] = <<>>
  <2>1. MemberOK(fed, toFed, server, f)
    BY <1>1 DEF Consistent, Protocol
  <2> QED
    BY <1>1, <2>1 DEF MemberOK
<1>4. toFed'[f] = <<>> \o PushMembers \o PushRegulating \o <<[type |-> "JoinResponse", fed |-> f]>>
  BY <1>3 DEF Join
<1>5. Informed(server, toFed'[f])
  BY <1>1, <1>4, PushInformed
<1>6. server'.ta = server.ta
  BY <1>1 DEF Join, TypeOK, IsServer
<1>7. Punctual(fed', toFed', server')
  BY <1>1, <1>2, <1>5, <1>6, JoinedPunctual
<1>8. Timely(fed'[f])
  <2>1. PICK s : s = fed[f]
    OBVIOUS
  <2>2. PICK t : t = [s EXCEPT !.member = "joining"]
    OBVIOUS
  <2>3. fed'[f] = t
    BY <1>2, <2>1, <2>2 DEF Joined
  <2>4. IsState(s) /\ Timely(s) /\ s.member = "out"
    BY <1>1, <2>1 DEF TypeOK
  <2>5. /\ t.member = "joining" /\ t.reg = s.reg /\ t.con = s.con /\ t.adv = s.adv
        /\ t.now = s.now /\ t.pend = s.pend /\ t.out = s.out /\ t.last = s.last
        /\ t.cTA = s.cTA /\ t.cNM = s.cNM /\ t.tgtLA = s.tgtLA /\ t.tso = s.tso
    BY <2>2, <2>4 DEF IsState
  <2>6. s.con = "Disabled"
    BY <2>4 DEF Timely, ModesOK
  <2>7. Timely(t)
    BY <2>4, <2>5, <2>6 DEF Timely, ModesOK, QueueOK, CommitOK, FloorOK
  <2> QED
    BY <2>3, <2>7
<1>9. \A x \in Federates \ {f} : fed'[x] = fed[x]
  BY <1>2 DEF Joined
<1> QED
  BY <1>7, <1>8, <1>9 DEF Timed, OnTime

LEMMA acceptOnTime ==
  ASSUME OnTime, Ordinary, NEW f \in Federates, Accept(f)
  PROVE  Timed /\ Len(fed[f].tso) <= Len(fed'[f].tso)
<1>1. /\ Consistent /\ Punctual(fed, toFed, server) /\ Timely(fed[f])
      /\ Protocol(fed', toFed', server') /\ Sound(fed', toFed', server') /\ StampsOK(fed'[f])
  <2>1. [Next]_vars
    BY DEF Next
  <2> QED
    BY <2>1, postState DEF OnTime, Guaranteed
<1>2. /\ Taken(fed, toFed, server, f, fed', toFed') /\ server' = server /\ LocalOK(fed[f])
      /\ fed'[f] = acceptInternalMessage(f, fed[f], Head(toFed[f]))
  BY <1>1, takenState
<1>3. Protocol(fed', toFed', server) /\ Sound(fed', toFed', server)
  BY <1>1, <1>2
<1>4. Goes(f, fed[f], fed'[f]) /\ Punctual(fed', toFed', server)
  BY <1>1, <1>2, <1>3, AcceptPunctual
<1>5. \A x \in Federates \ {f} : fed'[x] = fed[x]
  BY <1>2 DEF Taken
<1> QED
  BY <1>2, <1>4, <1>5 DEF Timed, OnTime, Goes

\* What one federate does without the server
LEMMA actorOnTime ==
  ASSUME OnTime, [Next]_vars, NEW f \in Federates, toFed' = toFed, server' = server,
         \A x \in Federates \ {f} : fed'[x] = fed[x],
         Timely(fed'[f]), Extends(fed[f].sent, fed'[f].sent, Fresh(f, fed'[f])),
         fed'[f].member = "resigned" \/ Knows(fed[f], fed'[f])
  PROVE  Timed
<1>1. /\ Punctual(fed, toFed, server) /\ toFed[f] \in Seq(ToFederate) /\ fed[f].sent \in Seq(ToServer)
  BY Fields DEF OnTime, Guaranteed, Consistent, TypeOK
<1>2. Protocol(fed', toFed', server) /\ Sound(fed', toFed', server) /\ StampsOK(fed'[f])
  BY postState DEF OnTime
<1>3. toFed'[f] = toFed[f] /\ \A x \in Federates \ {f} : fed'[x] = fed[x] /\ toFed'[x] = toFed[x]
  OBVIOUS
<1>4. ~Some(toFed'[f], TSO(f))
  BY <1>1, <1>3 DEF Punctual
<1>5. ASSUME NEW g \in Federates \ {f}
      PROVE  Arriving(fed'[f], toFed'[f], g) /\ Coming(fed'[f], toFed'[f], fed[g].sent, g)
  <2>1. CASE fed'[f].member = "resigned"
    BY <2>1 DEF Arriving, Coming
  <2>2. CASE Knows(fed[f], fed'[f])
    <3>1. PICK s, r, q, u : s = fed[f] /\ r = fed'[f] /\ q = toFed[f] /\ u = fed[g].sent
      OBVIOUS
    <3>2. /\ Knows(s, r) /\ q \in Seq(ToFederate) /\ Arriving(s, q, g) /\ Coming(s, q, u, g)
      BY <1>1, <2>2, <3>1 DEF Punctual
    <3>3. Arriving(r, q, g) /\ Coming(r, q, u, g)
      BY <3>2, ArrivingSame, ComingSame
    <3> QED
      BY <1>3, <3>1, <3>3
  <2> QED
    BY <2>1, <2>2
<1>6. Punctual(fed', toFed', server)
  BY <1>1, <1>2, <1>3, <1>4, <1>5, ActorPunctual
<1> QED
  BY <1>3, <1>6 DEF Timed, OnTime

LEMMA callOnTime ==
  ASSUME OnTime, Ordinary, NEW f \in Federates, Call(f), ~Resign(f)
  PROVE  Timed /\ Len(fed[f].tso) <= Len(fed'[f].tso)
<1>1. Consistent /\ Timely(fed[f])
  BY DEF OnTime, Guaranteed
<1>2. Goes(f, fed[f], fed'[f])
  BY <1>1, callGoes
<1>3. /\ toFed' = toFed /\ server' = server /\ \A x \in Federates \ {f} : fed'[x] = fed[x]
      /\ Knows(fed[f], fed'[f])
  BY <1>1, callKnows
<1>4. [Next]_vars
  BY DEF Next
<1>5. Timed
  BY <1>2, <1>3, <1>4, actorOnTime DEF Goes
<1> QED
  BY <1>2, <1>5 DEF Goes

LEMMA resignOnTime ==
  ASSUME OnTime, NEW f \in Federates, Resign(f)
  PROVE  Timed /\ fed'[f].member = "resigned"
<1>1. PICK m : m = [type |-> "Resign", fed |-> f]
  OBVIOUS
<1>2. PICK u, v : u = fed[f].sent /\ v = Append(u, m)
  OBVIOUS
<1>3. PICK t : t = [NewTimeManagement EXCEPT !.member = "resigned", !.sent = v]
  OBVIOUS
<1>4. Called(f, t)
  BY <1>1, <1>2, <1>3 DEF Resign
<1>5. /\ fed'[f] = t /\ \A x \in Federates \ {f} : fed'[x] = fed[x]
      /\ toFed' = toFed /\ server' = server
  BY <1>4, fedChanges DEF Called, OnTime, Guaranteed, Consistent
<1>6. /\ t.member = "resigned" /\ t.reg = "Disabled" /\ t.con = "Disabled" /\ t.adv = "Granted"
      /\ t.tso = <<>> /\ t.sent = v
  BY <1>3 DEF NewTimeManagement
<1>7. Timely(t)
  <2>1. \A X : ~Some(<<>>, X) /\ Single(<<>>, X)
    BY EmptyQueue DEF States
  <2>2. \A X : Each(<<>>, X)
    BY DEF Each
  <2> QED
    BY <1>6, <2>1, <2>2 DEF Timely, ModesOK, QueueOK, CommitOK, FloorOK
<1>8. m \in ToServer /\ m \in Messages /\ m.type = "Resign"
  <2>1. m \in ToServer
    BY <1>1 DEF ToServer, Notices
  <2> QED
    BY <1>1, <2>1, MessageIn
<1>9. u \in Seq(ToServer)
  BY <1>2, Fields DEF OnTime, Guaranteed, Consistent, TypeOK
<1>10. Extends(u, v, Fresh(f, t))
  <2>1. Extends(u, u, Fresh(f, t))
    BY <1>9, ExtendsRefl
  <2>2. m \in Fresh(f, t)
    BY <1>8, PlainFresh
  <2> QED
    BY <1>2, <1>8, <1>9, <2>1, <2>2, ExtendsAppend
<1>11. [Next]_vars
  BY DEF Next, Call
<1>12. Extends(fed[f].sent, fed'[f].sent, Fresh(f, fed'[f]))
  BY <1>2, <1>5, <1>6, <1>10
<1>13. Timely(fed'[f]) /\ fed'[f].member = "resigned"
  BY <1>5, <1>6, <1>7
<1> QED
  BY <1>5, <1>11, <1>12, <1>13, actorOnTime

LEMMA dispatchOnTime ==
  ASSUME OnTime, NEW f \in Federates, DispatchReceiveOrder(f) \/ DispatchTimeStampOrder(f)
  PROVE  Timed
<1>1. Consistent /\ TypeOK /\ Timely(fed[f]) /\ IsState(fed[f])
  BY DEF OnTime, Guaranteed, Consistent, TypeOK
<1>2. DispatchCases(f)
  BY <1>1, dispatchCases
<1>3. fed[f].member = "in" /\ toFed' = toFed /\ server' = server
  BY <1>2 DEF DispatchCases
<1>4. PICK s, r : /\ fed' = [fed EXCEPT ![f] = r] /\ Quiet(f, fed[f], s)
                  /\ r = s \/ Confirms(s, r)
  BY <1>2 DEF DispatchCases
<1>5. fed'[f] = r /\ \A x \in Federates \ {f} : fed'[x] = fed[x]
  BY <1>1, <1>4, fedChanges
<1>6. Knows(fed[f], fed'[f])
  <2>1. Knows(fed[f], s)
    BY <1>4, QuietKnows
  <2> QED
    BY <1>4, <1>5, <2>1 DEF Knows, Confirms
<1>7. Timely(fed'[f]) /\ fed'[f].sent = fed[f].sent
  <2>1. CASE DispatchReceiveOrder(f)
    <3>1. PICK u, q : u = fed[f] /\ q = Tail(fed[f].ro)
      OBVIOUS
    <3>2. PICK t : t = [u EXCEPT !.ro = q]
      OBVIOUS
    <3>3. fed'[f] = t
      BY <1>1, <2>1, <3>1, <3>2, fedChanges DEF DispatchReceiveOrder
    <3>4. IsState(u) /\ Timely(u)
      BY <1>1, <3>1
    <3>5. Level(u, t) /\ t.tso = u.tso /\ t.sent = u.sent /\ t.bounds = u.bounds
      BY <3>2, <3>4 DEF IsState, Level
    <3>6. \A g \in DOMAIN t.bounds : Within(u, t.bounds[g].ta)
      BY <3>4, <3>5, BoundsWithin
    <3>7. Timely(t)
      BY <3>4, <3>5, <3>6, LevelTimely
    <3> QED
      BY <3>1, <3>3, <3>5, <3>7
  <2>2. CASE DispatchTimeStampOrder(f)
    <3>1. PICK u : u = fed[f]
      OBVIOUS
    <3>7. PICK p : p = checkForPendingFlushQueue(u)
      OBVIOUS
    <3>2. PICK t : t = [p EXCEPT !.tso = Tail(@)]
      OBVIOUS
    <3>3. PICK w : w = acceptCallback(t, Head(p.tso).msg)
      OBVIOUS
    <3>4. fed'[f] = w /\ timeStampOrderCallback(p)
      BY <1>1, <2>2, <3>1, <3>2, <3>3, <3>7, fedChanges DEF DispatchTimeStampOrder
    <3>5. IsState(u) /\ LocalOK(u) /\ Timely(u) /\ u.member = "in"
      BY <1>1, <1>3, <3>1, memberFacts
    <3>6. Timely(w) /\ w.sent = u.sent
      BY <3>2, <3>3, <3>4, <3>5, <3>7, dispatchGoes
    <3> QED
      BY <3>1, <3>4, <3>6
  <2> QED
    BY <2>1, <2>2
<1>8. fed[f].sent \in Seq(ToServer)
  BY <1>1, Fields
<1>9. Extends(fed[f].sent, fed'[f].sent, Fresh(f, fed'[f]))
  BY <1>7, <1>8, ExtendsRefl
<1>10. [Next]_vars
  BY DEF Next
<1> QED
  BY <1>3, <1>5, <1>6, <1>7, <1>9, <1>10, actorOnTime

LEMMA onTimeStep == OnTime /\ Ordinary /\ [Next]_vars => OnTime'
<1> SUFFICES ASSUME OnTime, Ordinary, [Next]_vars PROVE OnTime'
  OBVIOUS
<1>1. Guaranteed'
  BY guaranteedStep DEF OnTime
<1>2. CASE Next
  <2>1. PICK f \in Federates :
          Call(f) \/ Join(f) \/ Serve(f) \/ Accept(f)
            \/ DispatchReceiveOrder(f) \/ DispatchTimeStampOrder(f)
    BY <1>2 DEF Next
  <2>2. Timed
    BY <2>1, callOnTime, resignOnTime, joinOnTime, serveOnTime, acceptOnTime, dispatchOnTime
  <2> QED
    BY <1>1, <2>2 DEF Timed, OnTime
<1>3. CASE UNCHANGED vars
  <2>1. fed' = fed /\ toFed' = toFed /\ server' = server
    BY <1>3 DEF vars
  <2> QED
    BY <1>1, <2>1 DEF OnTime
<1> QED
  BY <1>2, <1>3

\* Nobody has asked for anything at the start.
LEMMA initTimely ==
  ASSUME Init, NEW f \in Federates
  PROVE  Timely(fed[f])
<1>1. PICK s : s = fed[f]
  OBVIOUS
<1>2. /\ s.tso = <<>>
      /\ s.reg \in {"Enabled", "Disabled"} /\ s.con \in {"Enabled", "Disabled"}
      /\ s.con = "Enabled" => s.member = "in"
  <2>1. InitialConstrained \subseteq InitialMembers
    BY FederationAssumption
  <2> QED
    BY <1>1, <2>1, startedFields
<1>3. /\ s.adv = "Granted" /\ s.now = <<0, 0>> /\ s.pend = <<0, 0>>
      /\ s.cNM = s.cTA /\ s.out = <<s.cTA, 0>>
      /\ s.cTA \in Nat /\ \A g \in DOMAIN s.bounds : s.bounds[g].ta \in Nat
  <2>1. CASE f \in InitialMembers
    <3>1. s = Started(f)
      BY <1>1, <2>1 DEF Init
    <3>2. PICK b : b = IF f \in InitialRegulating THEN InitialLookahead ELSE 0
      OBVIOUS
    <3>3. b \in Nat /\ InitialLookahead \in Nat
      BY <3>2, FederationAssumption
    <3>4. /\ s.adv = "Granted" /\ s.now = <<0, 0>> /\ s.pend = <<0, 0>>
          /\ s.cNM = b /\ s.cTA = b /\ s.out = <<b, 0>>
      BY <3>1, <3>2 DEF Started, NewTimeManagement, InitialTime
    <3>5. DOMAIN s.bounds = InitialRegulating \ {f}
          /\ \A g \in InitialRegulating \ {f} : s.bounds[g].ta = InitialLookahead
      BY <3>1 DEF Started, NewTimeManagement
    <3> QED
      BY <3>3, <3>4, <3>5
  <2>2. CASE f \notin InitialMembers
    <3>1. s = NewTimeManagement
      BY <1>1, <2>2 DEF Init
    <3> QED
      BY <3>1 DEF NewTimeManagement, InitialTime, EmptyMap
  <2> QED
    BY <2>1, <2>2
<1>4. ModesOK(s)
  BY <1>2, <1>3 DEF ModesOK
<1>5. QueueOK(s)
  <2>1. \A X : ~Some(s.tso, X) /\ Single(s.tso, X)
    BY <1>2, EmptyQueue DEF States
  <2>2. \A X : Each(s.tso, X)
    BY <1>2 DEF Each
  <2> QED
    BY <2>1, <2>2 DEF QueueOK
<1>6. CommitOK(s)
  <2>1. _toLogicalTime(s.out) = s.cTA
    BY <1>3 DEF _toLogicalTime
  <2> QED
    BY <1>3, <2>1 DEF CommitOK
<1>7. FloorOK(s)
  <2>1. _toLogicalTime(s.now) = 0 /\ _toLogicalTime(s.pend) = 0
    BY <1>3 DEF _toLogicalTime
  <2>2. \A X : Each(s.tso, X)
    BY <1>2 DEF Each
  <2> QED
    BY <1>3, <2>1, <2>2 DEF FloorOK
<1> QED
  BY <1>1, <1>4, <1>5, <1>6, <1>7 DEF Timely

LEMMA initOnTime == Init => OnTime
<1> SUFFICES ASSUME Init PROVE OnTime
  OBVIOUS
<1>1. Guaranteed
  BY initGuaranteed
<1>2. \A g \in Federates : toFed[g] = <<>> /\ fed[g].sent = <<>>
  <2>1. \A g \in Federates : fed[g].sent = <<>>
    BY startedFields
  <2> QED
    BY <2>1 DEF Init
<1>3. Punctual(fed, toFed, server)
  <2>1. DOMAIN <<>> = {}
    OBVIOUS
  <2> QED
    BY <1>2, <2>1 DEF Punctual, Sends, Some, Arriving, Coming
<1> QED
  BY <1>1, <1>3, initTimely DEF OnTime

-----------------------------------------------------------------------------
(* What follows for the messages on their way *)

\* A time stamp ordered message is one of its sender.
LEMMA StampOf ==
  ASSUME NEW m \in Messages, IsTSO(m)
  PROVE  m.from \in Federates /\ m \in Stamps(m.from)
<1>1. m.from \in Federates
  BY DEF IsTSO, Messages, ToServer, ToFederate, Relayed, Notices, EnableRequests, EnableResponses,
         CommitMessages, CommitResponseMessages, LockedMessages, DataMessages
<1> QED
  BY <1>1 DEF IsTSO, Stamps, TSO

\* What is on its way to a member is from a federate that it knows, and not below the bound
\* that it knows of it.
LEMMA TransitBound ==
  ASSUME OnTime, NEW f \in Federates, fed[f].member = "in", NEW t \in InTransit(f)
  PROVE  t \in Nat /\ \E g \in DOMAIN fed[f].bounds : fed[f].bounds[g].ta <= t
<1>1. TypeOK /\ Punctual(fed, toFed, server)
  BY DEF OnTime, Guaranteed, Consistent
<1>2. ASSUME NEW g \in Federates \ {f}, NEW m \in Messages, m \in Stamps(g), NEW n \in Nat,
             Clean(fed[f], toFed[f], n, g, m.ts)
      PROVE  m.ts \in Nat /\ g \in DOMAIN fed[f].bounds /\ fed[f].bounds[g].ta <= m.ts
  BY <1>2, StampTimes DEF Clean
<1>3. CASE \E i \in DOMAIN toFed[f] : IsTSO(toFed[f][i]) /\ t = toFed[f][i].ts
  <2>1. PICK i \in DOMAIN toFed[f] : IsTSO(toFed[f][i]) /\ t = toFed[f][i].ts
    BY <1>3
  <2>2. PICK q : q = toFed[f]
    OBVIOUS
  <2>3. q \in Seq(ToFederate) /\ i \in DOMAIN q
    BY <1>1, <2>1, <2>2 DEF TypeOK
  <2>4. q[i] \in ToFederate /\ i - 1 \in Nat
    BY <2>3, ElementsIn, LenProperties
  <2>5. PICK m : m = q[i]
    OBVIOUS
  <2>6. m \in Messages /\ IsTSO(m) /\ t = m.ts
    BY <2>1, <2>2, <2>4, <2>5, MessageIn
  <2>7. PICK g : g = m.from
    OBVIOUS
  <2>8. g \in Federates /\ m \in Stamps(g) /\ m \in TSO(g)
    BY <2>6, <2>7, StampOf DEF TSO, IsTSO
  <2>9. g # f
    BY <1>1, <2>2, <2>3, <2>5, <2>8 DEF Punctual, Some
  <2>10. Arriving(fed[f], q, g)
    BY <1>1, <2>2, <2>8, <2>9 DEF Punctual
  <2>11. Clean(fed[f], q, i - 1, g, m.ts)
    BY <2>3, <2>5, <2>8, <2>10 DEF Arriving
  <2> QED
    BY <1>2, <2>2, <2>4, <2>6, <2>8, <2>9, <2>11
<1>4. CASE \E g \in Federates \ {f} : \E i \in DOMAIN fed[g].sent :
             IsTSO(fed[g].sent[i]) /\ t = fed[g].sent[i].ts
  <2>1. PICK g \in Federates \ {f} : \E i \in DOMAIN fed[g].sent :
          IsTSO(fed[g].sent[i]) /\ t = fed[g].sent[i].ts
    BY <1>4
  <2>2. PICK u : u = fed[g].sent
    OBVIOUS
  <2>3. PICK i \in DOMAIN u : IsTSO(u[i]) /\ t = u[i].ts
    BY <2>1, <2>2
  <2>4. u \in Seq(ToServer)
    BY <1>1, <2>2, Fields DEF TypeOK
  <2>5. u[i] \in ToServer
    BY <2>3, <2>4, ElementsIn
  <2>6. PICK m : m = u[i]
    OBVIOUS
  <2>7. m \in Messages /\ IsTSO(m) /\ t = m.ts
    BY <2>3, <2>5, <2>6, MessageIn
  <2>8. Sends(server, u, g) /\ Coming(fed[f], toFed[f], u, g)
    BY <1>1, <2>2 DEF Punctual
  <2>9. PICK h : h = m.from
    OBVIOUS
  <2>10. m \in Stamps(h)
    BY <2>7, <2>9, StampOf
  <2>11. m \in Stamps(g)
    BY <2>3, <2>6, <2>8, <2>10 DEF Sends
  <2>12. Clean(fed[f], toFed[f], Len(toFed[f]), g, m.ts)
    BY <2>3, <2>6, <2>8, <2>11 DEF Coming
  <2>13. Len(toFed[f]) \in Nat
    BY <1>1, LenProperties DEF TypeOK
  <2> QED
    BY <1>2, <2>7, <2>11, <2>12, <2>13
<1> QED
  BY <1>3, <1>4 DEF InTransit, Range

\* A constrained federate is a member, and not beyond any bound that it knows.
LEMMA FloorBound ==
  ASSUME OnTime, NEW f \in Federates, fed[f].con = "Enabled"
  PROVE  /\ fed[f].member = "in" /\ _toLogicalTime(fed[f].now) \in Nat
         /\ \A g \in DOMAIN fed[f].bounds : /\ fed[f].bounds[g].ta \in Nat
                                            /\ _toLogicalTime(fed[f].now) <= fed[f].bounds[g].ta
         /\ Each(fed[f].tso, From(_toLogicalTime(fed[f].now)))
<1>1. PICK s : s = fed[f]
  OBVIOUS
<1>2. IsState(s) /\ Timely(s) /\ s.con = "Enabled"
  BY <1>1 DEF OnTime, Guaranteed, Consistent, TypeOK
<1>3. s.member = "in"
  BY <1>2 DEF Timely, ModesOK
<1>4. _toLogicalTime(s.now) \in Nat
  BY <1>2, Fields, ToLogical
<1>5. \A g \in DOMAIN s.bounds : s.bounds[g].ta \in Nat
  BY <1>2, BoundTime
<1>6. FloorOK(s)
  BY <1>2 DEF Timely
<1> QED
  BY <1>1, <1>2, <1>3, <1>4, <1>5, <1>6 DEF FloorOK

LEMMA onTimeNoLate ==
  ASSUME OnTime, NEW f \in Federates, NEW t \in InTransit(f)
  PROVE  ~Late(fed[f], t)
<1> SUFFICES ASSUME Late(fed[f], t) PROVE FALSE
  OBVIOUS
<1>1. PICK n : n = _toLogicalTime(fed[f].now)
  OBVIOUS
<1>2. fed[f].con = "Enabled" /\ t < n
  BY <1>1 DEF Late
<1>3. /\ fed[f].member = "in" /\ n \in Nat
      /\ \A g \in DOMAIN fed[f].bounds : fed[f].bounds[g].ta \in Nat /\ n <= fed[f].bounds[g].ta
  BY <1>1, <1>2, FloorBound
<1>4. t \in Nat /\ \E g \in DOMAIN fed[f].bounds : fed[f].bounds[g].ta <= t
  BY <1>3, TransitBound
<1> QED
  BY <1>2, <1>3, <1>4

\* A message that is due for a constrained federate is due for all that is on its way.
LEMMA deliveredInOrder ==
  ASSUME OnTime, NEW f \in Federates, DispatchTimeStampOrder(f),
         fed[f].con = "Enabled", fed[f].adv # "FQR", IsTSO(Head(fed[f].tso).msg),
         NEW t \in InTransit(f)
  PROVE  Head(fed[f].tso).msg.ts <= t
<1>1. PICK s : s = fed[f]
  OBVIOUS
<1>2. IsState(s) /\ Timely(s) /\ s.member = "in" /\ s.con = "Enabled" /\ s.adv # "FQR"
  BY <1>1 DEF OnTime, Guaranteed, Consistent, TypeOK, DispatchTimeStampOrder
<1>3. timeStampOrderCallback(s)
  <2>1. checkForPendingFlushQueue(fed[f]) = fed[f]
    BY DEF checkForPendingFlushQueue
  <2> QED
    BY <1>1, <2>1 DEF DispatchTimeStampOrder
<1>4. PICK e : e = Head(s.tso)
  OBVIOUS
<1>5. PICK p : p = e.at
  OBVIOUS
<1>6. s.tso # <<>> /\ canAdvanceTo(s.bounds, p)
  BY <1>2, <1>3, <1>4, <1>5 DEF timeStampOrderCallback, _timeStampOrderMessagesPermitted,
     getTimeConstrainedEnabledOrPending, getLeastIncomingTimepair
<1>7. s.tso \in Seq(Entries)
  BY <1>2, Fields
<1>8. e \in Entries /\ e \in Dated(s.pend)
  <2>1. Each(s.tso, Dated(s.pend))
    BY <1>2 DEF Timely, QueueOK
  <2>2. e \in Dated(s.pend)
    BY <1>4, <1>6, <1>7, <2>1, EachTail
  <2> QED
    BY <2>2 DEF Dated
<1>9. p \in TimePairs /\ e.msg.type = "Data" /\ p[1] = e.msg.ts /\ p[2] = -1
  <2>1. e.msg.type = "Data"
    BY <1>1, <1>4 DEF IsTSO
  <2> QED
    BY <1>5, <1>8, <2>1 DEF Dated, Entries
<1>10. _toLogicalTime(p) = e.msg.ts /\ e.msg.ts \in Nat
  BY <1>9, ToLogical
<1>11. HasBounds(s.bounds)
  BY <1>2, BoundsTypes
<1>12. \A g \in DOMAIN s.bounds : e.msg.ts <= s.bounds[g].ta /\ s.bounds[g].ta \in Nat
  BY <1>2, <1>6, <1>9, <1>10, <1>11, canAdvanceToSafe, BoundTime
<1>13. t \in Nat /\ \E g \in DOMAIN fed[f].bounds : fed[f].bounds[g].ta <= t
  BY <1>1, <1>2, TransitBound
<1> QED
  BY <1>1, <1>4, <1>10, <1>12, <1>13

\* Only a callback takes a message out of the queue.
LEMMA OnlyDispatchTakes ==
  ASSUME OnTime, Ordinary, [Next]_vars, NEW f \in Federates, fed[f].tso # <<>>,
         fed'[f].member = "in", fed'[f].tso = Tail(fed[f].tso)
  PROVE  DispatchTimeStampOrder(f)
<1>1. PICK n : n = Len(fed[f].tso)
  OBVIOUS
<1>2. Len(fed'[f].tso) # Len(fed[f].tso) /\ ~(Len(fed[f].tso) <= Len(fed'[f].tso))
  <2>1. fed[f].tso \in Seq(Entries)
    BY Fields DEF OnTime, Guaranteed, Consistent, TypeOK
  <2>2. PICK q : q = fed[f].tso
    OBVIOUS
  <2>3. q \in Seq(Entries) /\ q # <<>>
    BY <2>1, <2>2
  <2>4. Len(q) \in Nat \ {0} /\ Len(Tail(q)) = Len(q) - 1
    BY <2>3, TailAt
  <2>5. PICK k : k = Len(fed'[f].tso)
    OBVIOUS
  <2>6. n \in Nat \ {0} /\ k = n - 1
    BY <1>1, <2>2, <2>4, <2>5
  <2> QED
    BY <1>1, <2>5, <2>6
<1>3. fed'[f].tso # fed[f].tso
  BY <1>2, Zenon
<1>4. ASSUME NEW x \in Federates,
             Call(x) \/ Join(x) \/ Serve(x) \/ Accept(x) \/ DispatchReceiveOrder(x)
      PROVE  FALSE
  <2>1. Consistent /\ TypeOK
    BY DEF OnTime, Guaranteed, Consistent
  <2>2. x # f => fed'[f] = fed[f]
    <3>1. CASE Call(x) /\ ~Resign(x)
      BY <2>1, <3>1, callKnows
    <3>2. CASE Resign(x)
      BY <2>1, <3>2, fedChanges DEF Resign, Called
    <3>3. CASE Join(x)
      BY <2>1, <3>3 DEF Join, TypeOK
    <3>4. CASE Serve(x)
      <4>1. Take(x)
        BY <3>4 DEF Serve, ServeEnableTimeRegulation, ServeDisableTimeRegulation, ServeEnableTimeConstrained,
          ServeDisableTimeConstrained, ServeCommit, ServeResponse, ServeLocked, ServeData, ServeResign
      <4> QED
        BY <2>1, <4>1, takenFields
    <3>5. CASE Accept(x)
      BY <2>1, <3>5, fedChanges DEF Accept
    <3>6. CASE DispatchReceiveOrder(x)
      BY <2>1, <3>6, fedChanges DEF DispatchReceiveOrder
    <3> QED
      BY <1>4, <3>1, <3>2, <3>3, <3>4, <3>5, <3>6
  <2>3. x = f
    BY <1>3, <2>2
  <2>4. ~Accept(x) /\ ~(Call(x) /\ ~Resign(x))
    BY <1>2, <2>3, acceptOnTime, callOnTime
  <2>5. ~Resign(x)
    BY <2>3, resignOnTime
  <2>6. ~Join(x)
    <3>1. Join(x) => fed'[f].member = "joining"
      BY <2>1, <2>3, joinedState, JoinedFacts
    <3> QED
      BY <3>1
  <2>7. ~Serve(x) /\ ~DispatchReceiveOrder(x)
    <3>1. PICK s : s = fed[f]
      OBVIOUS
    <3>2. IsState(s) /\ s.tso = fed[f].tso
      BY <2>1, <3>1 DEF TypeOK
    <3>3. ASSUME NEW q, NEW t, t = [s EXCEPT !.sent = q] \/ t = [s EXCEPT !.ro = q], fed'[f] = t
          PROVE  FALSE
      <4>1. t.tso = s.tso
        BY <3>2, <3>3 DEF IsState
      <4> QED
        BY <1>3, <3>2, <3>3, <4>1
    <3>4. ASSUME Serve(x) PROVE FALSE
      <4>1. Take(x)
        BY <3>4 DEF Serve, ServeEnableTimeRegulation, ServeDisableTimeRegulation, ServeEnableTimeConstrained,
          ServeDisableTimeConstrained, ServeCommit, ServeResponse, ServeLocked, ServeData, ServeResign
      <4>2. fed'[f] = [s EXCEPT !.sent = Tail(s.sent)]
        BY <2>1, <2>3, <3>1, <4>1, fedChanges DEF Take
      <4> QED
        BY <3>3, <4>2
    <3>5. ASSUME DispatchReceiveOrder(x) PROVE FALSE
      <4>1. fed'[f] = [s EXCEPT !.ro = Tail(s.ro)]
        BY <2>1, <2>3, <3>1, <3>5, fedChanges DEF DispatchReceiveOrder
      <4> QED
        BY <3>3, <4>1
    <3> QED
      BY <3>4, <3>5
  <2> QED
    BY <1>4, <2>4, <2>5, <2>6, <2>7
<1>5. CASE Next
  <2>1. PICK x \in Federates : DispatchTimeStampOrder(x)
    BY <1>4, <1>5 DEF Next
  <2>2. CASE x = f
    BY <2>1, <2>2
  <2>3. CASE x # f
    <3>1. fed'[f] = fed[f]
      BY <2>1, <2>3, fedChanges DEF DispatchTimeStampOrder, OnTime, Guaranteed, Consistent
    <3> QED
      BY <1>3, <3>1
  <2> QED
    BY <2>2, <2>3
<1>6. CASE UNCHANGED vars
  BY <1>3, <1>6 DEF vars
<1> QED
  BY <1>5, <1>6

-----------------------------------------------------------------------------
(* Ordinary federations keep their promises. *)

\* The promise of time management: whatever joins, resignations, changes of modes and of the
\* lookahead, requests and commits cross each other, no time stamp ordered message is on its way
\* to a constrained federate that has been granted a time beyond its time stamp.  For any number
\* of federates and any programs of time advance and flush queue requests.
THEOREM TimeManagementSafety == ASSUME Ordinary PROVE Spec => []NoLateMessage
<1>1. OnTime => NoLateMessage
  BY onTimeNoLate DEF NoLateMessage
<1>2. Ordinary /\ OnTime /\ [Next]_vars => OnTime'
  BY onTimeStep
<1> QED
  BY <1>1, <1>2, initOnTime, PTL DEF Spec

\* A regulating federate never commits to more than its output time.
THEOREM PromisesAreKept == ASSUME Ordinary PROVE Spec => []PromiseKept
<1>1. OnTime => PromiseKept
  <2> SUFFICES ASSUME OnTime, NEW f \in Federates, fed[f].reg = "Enabled"
               PROVE  fed[f].cTA <= fed[f].cNM /\ fed[f].cNM <= _toLogicalTime(fed[f].out)
    BY DEF PromiseKept
  <2>1. fed[f].cTA \in Nat
    BY Fields DEF OnTime, Guaranteed, Consistent, TypeOK
  <2>2. fed[f].cNM = fed[f].cTA /\ fed[f].cTA <= _toLogicalTime(fed[f].out)
    BY DEF OnTime, Timely, CommitOK
  <2> QED
    BY <2>1, <2>2
<1>2. Ordinary /\ OnTime /\ [Next]_vars => OnTime'
  BY onTimeStep
<1> QED
  BY <1>1, <1>2, initOnTime, PTL DEF Spec

\* A constrained federate gets its messages in time stamp order, those included that are still
\* on their way from others when it gets one.
THEOREM DeliveryInOrder == ASSUME Ordinary PROVE Spec => InOrderDelivery
<1>1. OnTime /\ Ordinary /\ [Next]_vars =>
        [\A f \in Federates :
           LET s == fed[f]
           IN  /\ s.con = "Enabled" /\ s.adv # "FQR" /\ fed'[f].member = "in"
               /\ s.tso # <<>> /\ fed'[f].tso = Tail(s.tso)
               /\ IsTSO(Head(s.tso).msg)
               => \A t \in InTransit(f) : Head(s.tso).msg.ts <= t]_vars
  BY OnlyDispatchTakes, deliveredInOrder
<1>2. Ordinary /\ OnTime /\ [Next]_vars => OnTime'
  BY onTimeStep
<1> QED
  BY <1>1, <1>2, initOnTime, PTL DEF Spec, InOrderDelivery

\* What conservative synchronisation is for: no message in a queue or on its way, and none that a
\* regulating federate may still send, is in the past of a constrained federate.
THEOREM SynchronizationIsSafe == ASSUME Ordinary PROVE Spec => []Safe
<1>1. OnTime => Safe
  <2> SUFFICES ASSUME OnTime PROVE Safe
    OBVIOUS
  <2>1. ASSUME NEW f \in Constrained, NEW t \in InTransit(f) \cup Queued(f)
        PROVE  _toLogicalTime(fed[f].now) <= t
    <3>1. f \in Federates /\ fed[f].con = "Enabled"
      BY DEF Constrained
    <3>2. /\ fed[f].member = "in" /\ _toLogicalTime(fed[f].now) \in Nat
          /\ \A g \in DOMAIN fed[f].bounds : /\ fed[f].bounds[g].ta \in Nat
                                             /\ _toLogicalTime(fed[f].now) <= fed[f].bounds[g].ta
          /\ Each(fed[f].tso, From(_toLogicalTime(fed[f].now)))
      BY <3>1, FloorBound
    <3>3. CASE t \in InTransit(f)
      <4>1. t \in Nat /\ \E g \in DOMAIN fed[f].bounds : fed[f].bounds[g].ta <= t
        BY <3>1, <3>2, <3>3, TransitBound
      <4> QED
        BY <3>2, <4>1
    <3>4. CASE t \in Queued(f)
      <4>1. PICK i \in DOMAIN fed[f].tso : IsTSO(fed[f].tso[i].msg) /\ t = fed[f].tso[i].msg.ts
        BY <3>4 DEF Queued, Range
      <4>2. fed[f].tso[i] \in From(_toLogicalTime(fed[f].now))
        BY <3>2 DEF Each
      <4> QED
        BY <4>1, <4>2 DEF From, IsTSO
    <3> QED
      BY <3>3, <3>4
  <2>2. ASSUME NEW f \in Constrained, NEW g \in Regulating \ {f}
        PROVE  _toLogicalTime(fed[f].now) <= fed[g].cTA
    <3>1. f \in Federates /\ fed[f].con = "Enabled" /\ g \in Federates /\ fed[g].reg = "Enabled" /\ f # g
      BY DEF Constrained, Regulating
    <3>2. /\ fed[f].member = "in" /\ _toLogicalTime(fed[f].now) \in Nat
          /\ \A h \in DOMAIN fed[f].bounds : /\ fed[f].bounds[h].ta \in Nat
                                             /\ _toLogicalTime(fed[f].now) <= fed[f].bounds[h].ta
      BY <3>1, FloorBound
    <3>3. Protocol(fed, toFed, server) /\ Sound(fed, toFed, server) /\ StampsOK(fed[g])
      BY <3>1 DEF OnTime, Guaranteed, Consistent
    <3>4. Promising(fed[g])
      BY <3>1 DEF Promising
    <3>5. Clean(fed[f], toFed[f], Len(toFed[f]), g, fed[g].cTA)
      BY <3>1, <3>2, <3>3, <3>4, Backed
    <3>6. g \in DOMAIN fed[f].bounds /\ fed[f].bounds[g].ta <= fed[g].cTA
      BY <3>2, <3>5 DEF Clean
    <3>7. fed[g].cTA \in Nat
      BY <3>1, Fields DEF OnTime, Guaranteed, Consistent, TypeOK
    <3> QED
      BY <3>2, <3>6, <3>7
  <2>3. Constrained \subseteq Federates /\ Regulating \subseteq Federates
    BY DEF Constrained, Regulating
  <2>4. Abstract!NothingInThePast
    BY <2>1, <2>3 DEF Abstract!NothingInThePast
  <2>5. Abstract!WithinPromises
    BY <2>2, <2>3 DEF Abstract!WithinPromises
  <2> QED
    BY <2>4, <2>5 DEF Safe, Abstract!Safe
<1>2. Ordinary /\ OnTime /\ [Next]_vars => OnTime'
  BY onTimeStep
<1> QED
  BY <1>1, <1>2, initOnTime, PTL DEF Spec

-----------------------------------------------------------------------------
(* The refinement *)

\* The proofs about ConservativeTime, under the mapping of Abstract
Proved == INSTANCE ConservativeTime_proofs WITH
  Time        <- 0 .. MaxTime,
  regulating  <- Regulating,
  constrained <- Constrained,
  promise     <- [g \in Federates |-> IF g \in Regulating THEN fed[g].cTA ELSE 0],
  floor       <- [f \in Federates |->
                    IF f \in Constrained THEN _toLogicalTime(fed[f].now) ELSE 0],
  pending     <- [f \in Federates |-> InTransit(f) \cup Queued(f)]

\* If every step of ambassadors, server and connects is a step of conservative synchronisation,
\* then no message in a queue or on its way, and none that may still be sent, is ever in the past
\* of a constrained federate, for any federates, programs and bound on times.
THEOREM RefinementIsSafe == ImplementsConservativeTime => []Safe
<1>1. Proved!TimeAssumption
  BY MaxTimeAssumption DEF Proved!TimeAssumption
<1>2. Proved!Spec => []Proved!Safe
  BY <1>1, Proved!Safety
<1>3. Abstract!Init => Proved!Init
  BY DEF Abstract!Init, Proved!Init
<1>4. [Abstract!Next]_Abstract!vars => [Proved!Next]_Proved!vars
  <2>1. \A f \in Federates : Abstract!Send(f) => Proved!Send(f)
    BY DEF Abstract!Send, Proved!Send
  <2>2. \A f \in Federates : Abstract!Raise(f) => Proved!Raise(f)
    BY DEF Abstract!Raise, Proved!Raise
  <2>3. \A f \in Federates : Abstract!Grant(f) => Proved!Grant(f)
    BY DEF Abstract!Grant, Proved!Grant, Abstract!Justified, Proved!Justified
  <2>4. \A f \in Federates : Abstract!Deliver(f) => Proved!Deliver(f)
    BY DEF Abstract!Deliver, Proved!Deliver
  <2>5. \A f \in Federates : Abstract!Forget(f) => Proved!Forget(f)
    BY DEF Abstract!Forget, Proved!Forget
  <2>6. \A f \in Federates : Abstract!Regulate(f) => Proved!Regulate(f)
    BY DEF Abstract!Regulate, Proved!Regulate, Abstract!Justified, Proved!Justified,
         Abstract!Harmless, Proved!Harmless
  <2>7. \A f \in Federates : Abstract!Unregulate(f) => Proved!Unregulate(f)
    BY DEF Abstract!Unregulate, Proved!Unregulate
  <2>8. \A f \in Federates : Abstract!Constrain(f) => Proved!Constrain(f)
    BY DEF Abstract!Constrain, Proved!Constrain, Abstract!Justified, Proved!Justified
  <2>9. \A f \in Federates : Abstract!Unconstrain(f) => Proved!Unconstrain(f)
    BY DEF Abstract!Unconstrain, Proved!Unconstrain
  <2>10. \A f \in Federates : Abstract!Leave(f) => Proved!Leave(f)
    BY DEF Abstract!Leave, Proved!Leave
  <2> QED
    BY <2>1, <2>2, <2>3, <2>4, <2>5, <2>6, <2>7, <2>8, <2>9, <2>10
    DEF Abstract!Next, Proved!Next, Abstract!vars, Proved!vars
<1>5. Proved!Safe => Safe
  BY DEF Safe, Abstract!Safe, Proved!Safe, Abstract!NothingInThePast, Proved!NothingInThePast,
       Abstract!WithinPromises, Proved!WithinPromises
<1> QED
  BY <1>2, <1>3, <1>4, <1>5, PTL DEF ImplementsConservativeTime, Abstract!Spec, Proved!Spec

=============================================================================
