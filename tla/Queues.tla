------------------------------- MODULE Queues -------------------------------
(***************************************************************************)
(* What proofs about connects say of a queue of messages: that it has a    *)
(* message of a kind, only one of them, one ahead of or after another      *)
(* kind, and that reading it from the head to the end is a run of an       *)
(* automaton.  The lemmas tell how this changes when a message is put at   *)
(* the end or taken from the head; with them the proofs need not look      *)
(* into the queues.  X, Y and M are sets of messages.                      *)
(*                                                                         *)
(* At the end, two facts about sets of naturals that several proofs cite.  *)
(***************************************************************************)
EXTENDS SequencesExt, SequenceTheorems, FiniteSetTheorems, WellFoundedInduction, Integers, TLAPS

Some(q, X) == \E i \in DOMAIN q : q[i] \in X

Single(q, X) == \A i, j \in DOMAIN q : q[i] \in X /\ q[j] \in X => i = j

\* An element of X that no element of Y precedes
Ahead(q, X, Y) == \E i \in DOMAIN q : q[i] \in X /\ \A j \in DOMAIN q : j < i => q[j] \notin Y

\* An element of X somewhere behind an element of Y
SomeAfter(q, Y, X) == \E i, j \in DOMAIN q : j < i /\ q[j] \in Y /\ q[i] \in X

SingleAfter(q, Y, X) ==
  \A i, j \in DOMAIN q :
    /\ q[i] \in X /\ \E k \in DOMAIN q : k < i /\ q[k] \in Y
    /\ q[j] \in X /\ \E k \in DOMAIN q : k < j /\ q[k] \in Y
    => i = j

\* The states of an automaton: whether something is in force
States == {"off", "on"}
Switch(p) == IF p THEN "on" ELSE "off"

\* The elements of q take an automaton with the steps D, triples of an element and the
\* states before and after it, from a to b.
Run(q, D, a, b) ==
  \E r \in [0 .. Len(q) -> States] :
    /\ r[0] = a /\ r[Len(q)] = b
    /\ \A i \in DOMAIN q : <<q[i], r[i - 1], r[i]>> \in D

\* t is q with elements of M behind it.
Extends(q, t, M) ==
  /\ Len(q) <= Len(t)
  /\ \A i \in DOMAIN q : t[i] = q[i]
  /\ \A i \in DOMAIN t : Len(q) < i => t[i] \in M

-----------------------------------------------------------------------------
(* An element is put at the end *)

LEMMA ElementsIn ==
  ASSUME NEW T, NEW q \in Seq(T)
  PROVE  \A i \in DOMAIN q : q[i] \in T
BY ElementOfSeq, LenProperties

LEMMA AppendAt ==
  ASSUME NEW T, NEW q \in Seq(T), NEW m \in T
  PROVE  /\ Append(q, m) \in Seq(T) /\ Len(Append(q, m)) = Len(q) + 1
         /\ DOMAIN Append(q, m) = 1 .. Len(q) + 1 /\ DOMAIN q = 1 .. Len(q) /\ Len(q) \in Nat
         /\ \A i \in 1 .. Len(q) : Append(q, m)[i] = q[i]
         /\ Append(q, m)[Len(q) + 1] = m
BY AppendProperties

LEMMA SomeAppend ==
  ASSUME NEW T, NEW q \in Seq(T), NEW m \in T, NEW X
  PROVE  Some(Append(q, m), X) <=> Some(q, X) \/ m \in X
<1> DEFINE t == Append(q, m)
<1>1. /\ DOMAIN t = 1 .. Len(q) + 1 /\ DOMAIN q = 1 .. Len(q) /\ Len(q) \in Nat
      /\ \A i \in 1 .. Len(q) : t[i] = q[i]
      /\ t[Len(q) + 1] = m
  BY AppendAt
<1> HIDE DEF t
<1> QED
  BY <1>1 DEF Some, t

LEMMA SingleAppend ==
  ASSUME NEW T, NEW q \in Seq(T), NEW m \in T, NEW X,
         Single(q, X), m \in X => ~Some(q, X)
  PROVE  Single(Append(q, m), X)
<1> DEFINE t == Append(q, m)
<1>1. /\ DOMAIN t = 1 .. Len(q) + 1 /\ DOMAIN q = 1 .. Len(q) /\ Len(q) \in Nat
      /\ \A i \in 1 .. Len(q) : t[i] = q[i]
      /\ t[Len(q) + 1] = m
  BY AppendAt
<1> HIDE DEF t
<1>2. Single(t, X)
  BY <1>1 DEF Some, Single
<1> QED
  BY <1>2 DEF t

LEMMA AheadAppend ==
  ASSUME NEW T, NEW q \in Seq(T), NEW m \in T, NEW X, NEW Y
  PROVE  /\ Ahead(q, X, Y) => Ahead(Append(q, m), X, Y)
         /\ m \in X /\ ~Some(q, Y) => Ahead(Append(q, m), X, Y)
<1> DEFINE t == Append(q, m)
<1>1. /\ DOMAIN t = 1 .. Len(q) + 1 /\ DOMAIN q = 1 .. Len(q) /\ Len(q) \in Nat
      /\ \A i \in 1 .. Len(q) : t[i] = q[i]
      /\ t[Len(q) + 1] = m
  BY AppendAt
<1> HIDE DEF t
<1>2. ASSUME Ahead(q, X, Y) PROVE Ahead(t, X, Y)
  <2>1. PICK i \in DOMAIN q : q[i] \in X /\ \A j \in DOMAIN q : j < i => q[j] \notin Y
    BY <1>2 DEF Ahead
  <2>2. i \in DOMAIN t /\ t[i] \in X /\ \A j \in DOMAIN t : j < i => t[j] \notin Y
    BY <1>1, <2>1
  <2> QED
    BY <2>2 DEF Ahead
<1>3. ASSUME m \in X, ~Some(q, Y) PROVE Ahead(t, X, Y)
  <2>1. Len(q) + 1 \in DOMAIN t /\ t[Len(q) + 1] \in X
    BY <1>1, <1>3
  <2>2. \A j \in DOMAIN t : j < Len(q) + 1 => t[j] \notin Y
    BY <1>1, <1>3 DEF Some
  <2> QED
    BY <2>1, <2>2 DEF Ahead
<1> QED
  BY <1>2, <1>3 DEF t

LEMMA AfterAppend ==
  ASSUME NEW T, NEW q \in Seq(T), NEW m \in T, NEW X, NEW Y
  PROVE  SomeAfter(Append(q, m), Y, X) <=> SomeAfter(q, Y, X) \/ (m \in X /\ Some(q, Y))
<1> DEFINE t == Append(q, m)
<1>1. /\ DOMAIN t = 1 .. Len(q) + 1 /\ DOMAIN q = 1 .. Len(q) /\ Len(q) \in Nat
      /\ \A i \in 1 .. Len(q) : t[i] = q[i]
      /\ t[Len(q) + 1] = m
  BY AppendAt
<1> HIDE DEF t
<1>2. ASSUME SomeAfter(t, Y, X) PROVE SomeAfter(q, Y, X) \/ (m \in X /\ Some(q, Y))
  BY <1>1, <1>2 DEF Some, SomeAfter
<1>3. ASSUME SomeAfter(q, Y, X) PROVE SomeAfter(t, Y, X)
  BY <1>1, <1>3 DEF SomeAfter
<1>4. ASSUME m \in X, Some(q, Y) PROVE SomeAfter(t, Y, X)
  <2>1. PICK j \in DOMAIN q : q[j] \in Y
    BY <1>4 DEF Some
  <2>2. j \in DOMAIN t /\ Len(q) + 1 \in DOMAIN t /\ j < Len(q) + 1 /\ t[j] \in Y /\ t[Len(q) + 1] \in X
    BY <1>1, <1>4, <2>1
  <2> QED
    BY <2>2 DEF SomeAfter
<1> QED
  BY <1>2, <1>3, <1>4 DEF t

LEMMA SingleAfterAppend ==
  ASSUME NEW T, NEW q \in Seq(T), NEW m \in T, NEW X, NEW Y,
         SingleAfter(q, Y, X), m \in X /\ Some(q, Y) => ~SomeAfter(q, Y, X)
  PROVE  SingleAfter(Append(q, m), Y, X)
<1> DEFINE t == Append(q, m)
<1>1. /\ DOMAIN t = 1 .. Len(q) + 1 /\ DOMAIN q = 1 .. Len(q) /\ Len(q) \in Nat
      /\ \A i \in 1 .. Len(q) : t[i] = q[i]
      /\ t[Len(q) + 1] = m
  BY AppendAt
<1> HIDE DEF t
<1> SUFFICES ASSUME NEW i \in DOMAIN t, NEW j \in DOMAIN t,
                    t[i] \in X, \E k \in DOMAIN t : k < i /\ t[k] \in Y,
                    t[j] \in X, \E k \in DOMAIN t : k < j /\ t[k] \in Y
             PROVE  i = j
  BY DEF SingleAfter, t
<1>2. PICK k \in DOMAIN t, l \in DOMAIN t : k < i /\ t[k] \in Y /\ l < j /\ t[l] \in Y
  OBVIOUS
<1>3. k \in DOMAIN q /\ q[k] \in Y /\ l \in DOMAIN q /\ q[l] \in Y
  BY <1>1, <1>2
<1>4. CASE i \in DOMAIN q /\ j \in DOMAIN q
  BY <1>1, <1>2, <1>3, <1>4 DEF SingleAfter
<1>5. CASE i = Len(q) + 1 /\ j \in DOMAIN q
  BY <1>1, <1>2, <1>3, <1>5 DEF SomeAfter, Some
<1>6. CASE j = Len(q) + 1 /\ i \in DOMAIN q
  BY <1>1, <1>2, <1>3, <1>6 DEF SomeAfter, Some
<1> QED
  BY <1>1, <1>4, <1>5, <1>6

LEMMA RunAppend ==
  ASSUME NEW T, NEW q \in Seq(T), NEW m \in T, NEW D, NEW a, NEW b, NEW c \in States,
         Run(q, D, a, b), <<m, b, c>> \in D
  PROVE  Run(Append(q, m), D, a, c)
<1> DEFINE t == Append(q, m)
<1>1. /\ Len(t) = Len(q) + 1
      /\ DOMAIN t = 1 .. Len(q) + 1 /\ DOMAIN q = 1 .. Len(q) /\ Len(q) \in Nat
      /\ \A i \in 1 .. Len(q) : t[i] = q[i]
      /\ t[Len(q) + 1] = m
  BY AppendAt
<1>2. PICK r \in [0 .. Len(q) -> States] :
         /\ r[0] = a /\ r[Len(q)] = b
         /\ \A i \in DOMAIN q : <<q[i], r[i - 1], r[i]>> \in D
  BY DEF Run
<1> HIDE DEF t
<1> DEFINE v == [i \in 0 .. Len(t) |-> IF i = Len(t) THEN c ELSE r[i]]
<1>3. v \in [0 .. Len(t) -> States]
  BY <1>1, <1>2
<1>4. v[0] = a /\ v[Len(t)] = c
  BY <1>1, <1>2
<1>5. ASSUME NEW i \in DOMAIN t PROVE <<t[i], v[i - 1], v[i]>> \in D
  <2>1. CASE i \in DOMAIN q
    <3>1. t[i] = q[i] /\ v[i - 1] = r[i - 1] /\ v[i] = r[i]
      BY <1>1, <2>1
    <3> QED
      BY <1>2, <2>1, <3>1
  <2>2. CASE i = Len(q) + 1
    <3>1. t[i] = m /\ i - 1 = Len(q) /\ i = Len(t)
      BY <1>1, <2>2
    <3>2. v[Len(q)] = r[Len(q)]
      <4> HIDE DEF v
      <4>1. Len(q) \in Nat /\ Len(t) = Len(q) + 1
        BY <1>1
      <4>2. Len(q) \in 0 .. Len(t) /\ Len(q) # Len(t)
        BY <4>1
      <4> USE DEF v
      <4> QED
        BY <4>2
    <3>3. v[i - 1] = b /\ v[i] = c
      <4> HIDE DEF v
      <4> QED
        BY <1>2, <1>4, <3>1, <3>2
    <3> QED
      BY <3>1, <3>3
  <2> QED
    BY <1>1, <2>1, <2>2
<1> HIDE DEF v
<1>6. Run(t, D, a, c)
  BY <1>3, <1>4, <1>5 DEF Run
<1> QED
  BY <1>6 DEF t

-----------------------------------------------------------------------------
(* The element at the head is taken *)

LEMMA TailAt ==
  ASSUME NEW T, NEW q \in Seq(T), q # <<>>
  PROVE  /\ Tail(q) \in Seq(T) /\ Head(q) \in T /\ Head(q) = q[1]
         /\ Len(q) \in Nat \ {0} /\ Len(Tail(q)) = Len(q) - 1
         /\ DOMAIN Tail(q) = 1 .. Len(q) - 1 /\ DOMAIN q = 1 .. Len(q)
         /\ \A i \in 1 .. Len(q) - 1 : Tail(q)[i] = q[i + 1]
BY HeadTailProperties

LEMMA SomeTail ==
  ASSUME NEW T, NEW q \in Seq(T), q # <<>>, NEW X
  PROVE  Some(q, X) <=> Head(q) \in X \/ Some(Tail(q), X)
<1> DEFINE t == Tail(q)
<1>1. /\ Len(q) \in Nat \ {0} /\ DOMAIN t = 1 .. Len(q) - 1 /\ DOMAIN q = 1 .. Len(q)
      /\ Head(q) = q[1] /\ \A i \in 1 .. Len(q) - 1 : t[i] = q[i + 1]
  BY TailAt
<1> HIDE DEF t
<1>2. ASSUME Some(q, X) PROVE Head(q) \in X \/ Some(t, X)
  <2>1. PICK i \in DOMAIN q : q[i] \in X
    BY <1>2 DEF Some
  <2>2. CASE i = 1
    BY <1>1, <2>1, <2>2
  <2>3. CASE i # 1
    <3>1. i - 1 \in DOMAIN t /\ t[i - 1] = q[i]
      BY <1>1, <2>3
    <3> QED
      BY <2>1, <3>1 DEF Some
  <2> QED
    BY <2>2, <2>3
<1>3. ASSUME Head(q) \in X PROVE Some(q, X)
  BY <1>1, <1>3 DEF Some
<1>4. ASSUME Some(t, X) PROVE Some(q, X)
  <2>1. PICK i \in DOMAIN t : t[i] \in X
    BY <1>4 DEF Some
  <2>2. i + 1 \in DOMAIN q /\ q[i + 1] \in X
    BY <1>1, <2>1
  <2> QED
    BY <2>2 DEF Some
<1> QED
  BY <1>2, <1>3, <1>4 DEF t

LEMMA SingleTail ==
  ASSUME NEW T, NEW q \in Seq(T), q # <<>>, NEW X, Single(q, X)
  PROVE  Single(Tail(q), X) /\ (Head(q) \in X => ~Some(Tail(q), X))
<1> DEFINE t == Tail(q)
<1>1. /\ Len(q) \in Nat \ {0} /\ DOMAIN t = 1 .. Len(q) - 1 /\ DOMAIN q = 1 .. Len(q)
      /\ Head(q) = q[1] /\ \A i \in 1 .. Len(q) - 1 : t[i] = q[i + 1]
  BY TailAt
<1> HIDE DEF t
<1>2. \A i \in DOMAIN t : i + 1 \in DOMAIN q /\ t[i] = q[i + 1] /\ i + 1 # 1
  BY <1>1
<1>3. Single(t, X)
  <2> SUFFICES ASSUME NEW i \in DOMAIN t, NEW j \in DOMAIN t, t[i] \in X, t[j] \in X PROVE i = j
    BY DEF Single
  <2>1. i + 1 = j + 1
    BY <1>2 DEF Single
  <2> QED
    BY <1>1, <2>1
<1>4. Head(q) \in X => ~Some(t, X)
  BY <1>1, <1>2 DEF Single, Some
<1> QED
  BY <1>3, <1>4 DEF t

LEMMA AheadTail ==
  ASSUME NEW T, NEW q \in Seq(T), q # <<>>, NEW X, NEW Y, Ahead(q, X, Y)
  PROVE  Head(q) \in X \/ (Head(q) \notin Y /\ Ahead(Tail(q), X, Y))
<1> DEFINE t == Tail(q)
<1>1. /\ Len(q) \in Nat \ {0} /\ DOMAIN t = 1 .. Len(q) - 1 /\ DOMAIN q = 1 .. Len(q)
      /\ Head(q) = q[1] /\ \A i \in 1 .. Len(q) - 1 : t[i] = q[i + 1]
  BY TailAt
<1> HIDE DEF t
<1>2. PICK i \in DOMAIN q : q[i] \in X /\ \A j \in DOMAIN q : j < i => q[j] \notin Y
  BY DEF Ahead
<1>3. CASE i = 1
  BY <1>1, <1>2, <1>3
<1>4. CASE i # 1
  <2>1. i - 1 \in DOMAIN t /\ t[i - 1] \in X
    BY <1>1, <1>2, <1>4
  <2>2. ASSUME NEW j \in DOMAIN t, j < i - 1 PROVE t[j] \notin Y
    <3>1. j + 1 \in DOMAIN q /\ j + 1 < i /\ t[j] = q[j + 1]
      BY <1>1, <2>2
    <3> QED
      BY <1>2, <3>1
  <2>3. Head(q) \notin Y
    BY <1>1, <1>2, <1>4
  <2> QED
    BY <2>1, <2>2, <2>3 DEF Ahead, t
<1> QED
  BY <1>3, <1>4

LEMMA AfterTail ==
  ASSUME NEW T, NEW q \in Seq(T), q # <<>>, NEW X, NEW Y
  PROVE  SomeAfter(q, Y, X) <=> SomeAfter(Tail(q), Y, X) \/ (Head(q) \in Y /\ Some(Tail(q), X))
<1> DEFINE t == Tail(q)
<1>1. /\ Len(q) \in Nat \ {0} /\ DOMAIN t = 1 .. Len(q) - 1 /\ DOMAIN q = 1 .. Len(q)
      /\ Head(q) = q[1] /\ \A i \in 1 .. Len(q) - 1 : t[i] = q[i + 1]
  BY TailAt
<1> HIDE DEF t
<1>2. ASSUME SomeAfter(q, Y, X) PROVE SomeAfter(t, Y, X) \/ (Head(q) \in Y /\ Some(t, X))
  <2>1. PICK i \in DOMAIN q, j \in DOMAIN q : j < i /\ q[j] \in Y /\ q[i] \in X
    BY <1>2 DEF SomeAfter
  <2>2. i - 1 \in DOMAIN t /\ t[i - 1] \in X
    BY <1>1, <2>1
  <2>3. CASE j = 1
    BY <1>1, <2>1, <2>2, <2>3 DEF Some
  <2>4. CASE j # 1
    <3>1. j - 1 \in DOMAIN t /\ t[j - 1] \in Y /\ j - 1 < i - 1
      BY <1>1, <2>1, <2>4
    <3> QED
      BY <2>2, <3>1 DEF SomeAfter
  <2> QED
    BY <2>3, <2>4
<1>3. \A i \in DOMAIN t : i + 1 \in DOMAIN q /\ t[i] = q[i + 1] /\ 1 < i + 1
  BY <1>1
<1>4. ASSUME SomeAfter(t, Y, X) PROVE SomeAfter(q, Y, X)
  <2>1. PICK i \in DOMAIN t, j \in DOMAIN t : j < i /\ t[j] \in Y /\ t[i] \in X
    BY <1>4 DEF SomeAfter
  <2>2. j + 1 < i + 1
    BY <1>1, <2>1
  <2> QED
    BY <1>3, <2>1, <2>2 DEF SomeAfter
<1>5. ASSUME Head(q) \in Y, Some(t, X) PROVE SomeAfter(q, Y, X)
  <2>1. PICK i \in DOMAIN t : t[i] \in X
    BY <1>5 DEF Some
  <2>2. 1 \in DOMAIN q
    BY <1>1
  <2> QED
    BY <1>1, <1>3, <1>5, <2>1, <2>2 DEF SomeAfter
<1> QED
  BY <1>2, <1>4, <1>5 DEF t

LEMMA SingleAfterTail ==
  ASSUME NEW T, NEW q \in Seq(T), q # <<>>, NEW X, NEW Y, SingleAfter(q, Y, X)
  PROVE  /\ SingleAfter(Tail(q), Y, X)
         /\ Head(q) \in Y => Single(Tail(q), X)
<1> DEFINE t == Tail(q)
<1>1. /\ Len(q) \in Nat \ {0} /\ DOMAIN t = 1 .. Len(q) - 1 /\ DOMAIN q = 1 .. Len(q)
      /\ Head(q) = q[1] /\ \A i \in 1 .. Len(q) - 1 : t[i] = q[i + 1]
  BY TailAt
<1> HIDE DEF t
<1>2. \A i \in DOMAIN t : i + 1 \in DOMAIN q /\ t[i] = q[i + 1] /\ 1 < i + 1
  BY <1>1
<1>3. SingleAfter(t, Y, X)
  <2> SUFFICES ASSUME NEW i \in DOMAIN t, NEW j \in DOMAIN t,
                      t[i] \in X, \E k \in DOMAIN t : k < i /\ t[k] \in Y,
                      t[j] \in X, \E k \in DOMAIN t : k < j /\ t[k] \in Y
               PROVE  i = j
    BY DEF SingleAfter
  <2>1. PICK k \in DOMAIN t, l \in DOMAIN t : k < i /\ t[k] \in Y /\ l < j /\ t[l] \in Y
    OBVIOUS
  <2>2. k + 1 < i + 1 /\ l + 1 < j + 1
    BY <1>1, <2>1
  <2>3. i + 1 = j + 1
    BY <1>2, <2>1, <2>2 DEF SingleAfter
  <2> QED
    BY <1>1, <2>3
<1>4. ASSUME Head(q) \in Y PROVE Single(t, X)
  <2> SUFFICES ASSUME NEW i \in DOMAIN t, NEW j \in DOMAIN t, t[i] \in X, t[j] \in X PROVE i = j
    BY DEF Single
  <2>1. 1 \in DOMAIN q /\ q[1] \in Y
    BY <1>1, <1>4
  <2>2. i + 1 = j + 1
    BY <1>2, <2>1 DEF SingleAfter
  <2> QED
    BY <1>1, <2>2
<1> QED
  BY <1>3, <1>4 DEF t

LEMMA RunTail ==
  ASSUME NEW T, NEW q \in Seq(T), q # <<>>, NEW D, NEW a, NEW b, Run(q, D, a, b)
  PROVE  \E c \in States : <<Head(q), a, c>> \in D /\ Run(Tail(q), D, c, b)
<1> DEFINE t == Tail(q)
<1>1. /\ Len(q) \in Nat \ {0} /\ DOMAIN t = 1 .. Len(q) - 1 /\ DOMAIN q = 1 .. Len(q)
      /\ Len(t) = Len(q) - 1
      /\ Head(q) = q[1] /\ \A i \in 1 .. Len(q) - 1 : t[i] = q[i + 1]
  BY TailAt
<1> HIDE DEF t
<1>2. PICK r \in [0 .. Len(q) -> States] :
         /\ r[0] = a /\ r[Len(q)] = b
         /\ \A i \in DOMAIN q : <<q[i], r[i - 1], r[i]>> \in D
  BY DEF Run
<1> DEFINE v == [i \in 0 .. Len(t) |-> r[i + 1]]
<1>3. v \in [0 .. Len(t) -> States]
  BY <1>1, <1>2
<1>4. v[0] = r[1] /\ v[Len(t)] = b
  BY <1>1, <1>2
<1>5. ASSUME NEW i \in DOMAIN t PROVE <<t[i], v[i - 1], v[i]>> \in D
  <2>1. i + 1 \in DOMAIN q /\ t[i] = q[i + 1] /\ v[i - 1] = r[(i + 1) - 1] /\ v[i] = r[i + 1]
    BY <1>1
  <2> QED
    BY <1>2, <2>1
<1> HIDE DEF v
<1>6. Run(t, D, r[1], b)
  BY <1>3, <1>4, <1>5 DEF Run
<1>7. r[1] \in States /\ <<Head(q), a, r[1]>> \in D
  <2>1. 1 \in DOMAIN q /\ 1 - 1 = 0
    BY <1>1
  <2> QED
    BY <1>1, <1>2, <2>1
<1> QED
  BY <1>6, <1>7 DEF t

-----------------------------------------------------------------------------
(* Several elements are put at the end *)

LEMMA ExtendsRefl ==
  ASSUME NEW T, NEW q \in Seq(T), NEW M
  PROVE  Extends(q, q, M)
<1>1. Len(q) \in Nat /\ DOMAIN q = 1 .. Len(q)
  BY LenProperties
<1> QED
  BY <1>1 DEF Extends

LEMMA ExtendsAppend ==
  ASSUME NEW T, NEW q \in Seq(T), NEW t \in Seq(T), NEW M, NEW m \in T,
         Extends(q, t, M), m \in M
  PROVE  Extends(q, Append(t, m), M)
<1> DEFINE u == Append(t, m)
<1>1. /\ Len(u) = Len(t) + 1 /\ DOMAIN u = 1 .. Len(t) + 1 /\ DOMAIN t = 1 .. Len(t) /\ Len(t) \in Nat
      /\ \A i \in 1 .. Len(t) : u[i] = t[i]
      /\ u[Len(t) + 1] = m
  BY AppendAt
<1>2. DOMAIN q = 1 .. Len(q) /\ Len(q) \in Nat
  BY LenProperties
<1> HIDE DEF u
<1>3. Extends(q, u, M)
  BY <1>1, <1>2 DEF Extends
<1> QED
  BY <1>3 DEF u

LEMMA ExtendsTrans ==
  ASSUME NEW T, NEW q \in Seq(T), NEW t \in Seq(T), NEW u \in Seq(T), NEW M, NEW N, M \subseteq N,
         Extends(q, t, M), Extends(t, u, N)
  PROVE  Extends(q, u, N)
<1>1. /\ DOMAIN q = 1 .. Len(q) /\ Len(q) \in Nat /\ DOMAIN t = 1 .. Len(t) /\ Len(t) \in Nat
      /\ DOMAIN u = 1 .. Len(u) /\ Len(u) \in Nat
  BY LenProperties
<1> QED
  BY <1>1 DEF Extends

LEMMA SomeExtends ==
  ASSUME NEW T, NEW q \in Seq(T), NEW t \in Seq(T), NEW M, NEW X,
         Extends(q, t, M), M \cap X = {}
  PROVE  Some(t, X) <=> Some(q, X)
<1>1. /\ DOMAIN q = 1 .. Len(q) /\ Len(q) \in Nat /\ DOMAIN t = 1 .. Len(t) /\ Len(t) \in Nat
  BY LenProperties
<1> QED
  BY <1>1 DEF Extends, Some

LEMMA SingleExtends ==
  ASSUME NEW T, NEW q \in Seq(T), NEW t \in Seq(T), NEW M, NEW X,
         Extends(q, t, M), M \cap X = {}, Single(q, X)
  PROVE  Single(t, X)
<1>1. /\ DOMAIN q = 1 .. Len(q) /\ Len(q) \in Nat /\ DOMAIN t = 1 .. Len(t) /\ Len(t) \in Nat
  BY LenProperties
<1>2. \A i \in DOMAIN t : t[i] \in X => i \in DOMAIN q /\ q[i] \in X
  BY <1>1 DEF Extends
<1> QED
  BY <1>2 DEF Single

LEMMA RunExtends ==
  ASSUME NEW T, NEW q \in Seq(T), NEW t \in Seq(T), NEW M, NEW D, NEW a, NEW b \in States,
         Extends(q, t, M), Run(q, D, a, b), \A m \in M : <<m, b, b>> \in D
  PROVE  Run(t, D, a, b)
<1>1. /\ DOMAIN q = 1 .. Len(q) /\ Len(q) \in Nat /\ DOMAIN t = 1 .. Len(t) /\ Len(t) \in Nat
      /\ Len(q) <= Len(t)
  BY LenProperties DEF Extends
<1>2. PICK r \in [0 .. Len(q) -> States] :
         /\ r[0] = a /\ r[Len(q)] = b
         /\ \A i \in DOMAIN q : <<q[i], r[i - 1], r[i]>> \in D
  BY DEF Run
<1> DEFINE v == [i \in 0 .. Len(t) |-> IF i <= Len(q) THEN r[i] ELSE b]
<1>3. v \in [0 .. Len(t) -> States]
  BY <1>1, <1>2
<1>4. v[0] = a /\ v[Len(t)] = b
  BY <1>1, <1>2
<1>5. ASSUME NEW i \in DOMAIN t PROVE <<t[i], v[i - 1], v[i]>> \in D
  <2>1. CASE i \in DOMAIN q
    <3>1. t[i] = q[i] /\ v[i - 1] = r[i - 1] /\ v[i] = r[i]
      BY <1>1, <2>1 DEF Extends
    <3> QED
      BY <1>2, <2>1, <3>1
  <2>2. CASE Len(q) < i
    <3>1. t[i] \in M
      BY <1>1, <2>2 DEF Extends
    <3>2. v[i] = b
      BY <1>1, <2>2
    <3>3. v[i - 1] = b
      BY <1>1, <1>2, <2>2
    <3> HIDE DEF v
    <3> QED
      BY <3>1, <3>2, <3>3
  <2> QED
    BY <1>1, <2>1, <2>2
<1> HIDE DEF v
<1> QED
  BY <1>3, <1>4, <1>5 DEF Run

LEMMA ConcatAt ==
  ASSUME NEW T, NEW p \in Seq(T), NEW q \in Seq(T)
  PROVE  /\ p \o q \in Seq(T) /\ Len(p \o q) = Len(p) + Len(q) /\ Len(p) \in Nat /\ Len(q) \in Nat
         /\ DOMAIN p = 1 .. Len(p) /\ DOMAIN q = 1 .. Len(q)
         /\ DOMAIN (p \o q) = 1 .. Len(p) + Len(q)
         /\ \A i \in 1 .. Len(p) : (p \o q)[i] = p[i]
         /\ \A i \in 1 .. Len(q) : (p \o q)[Len(p) + i] = q[i]
<1>1. Len(p) \in Nat /\ Len(q) \in Nat /\ DOMAIN p = 1 .. Len(p) /\ DOMAIN q = 1 .. Len(q)
  BY LenProperties
<1>2. /\ p \o q \in Seq(T) /\ Len(p \o q) = Len(p) + Len(q)
      /\ \A i \in 1 .. Len(p) + Len(q) : (p \o q)[i] = IF i <= Len(p) THEN p[i] ELSE q[i - Len(p)]
  BY ConcatProperties
<1>3. ASSUME NEW i \in 1 .. Len(q) PROVE (p \o q)[Len(p) + i] = q[i]
  <2>1. Len(p) + i \in 1 .. Len(p) + Len(q) /\ ~(Len(p) + i <= Len(p)) /\ (Len(p) + i) - Len(p) = i
    BY <1>1
  <2> QED
    BY <1>2, <2>1
<1>4. ASSUME NEW i \in 1 .. Len(p) PROVE (p \o q)[i] = p[i]
  <2>1. i \in 1 .. Len(p) + Len(q) /\ i <= Len(p)
    BY <1>1
  <2> QED
    BY <1>2, <2>1
<1> QED
  BY <1>1, <1>2, <1>3, <1>4, LenProperties

LEMMA SomeConcat ==
  ASSUME NEW T, NEW p \in Seq(T), NEW q \in Seq(T), NEW X
  PROVE  Some(p \o q, X) <=> Some(p, X) \/ Some(q, X)
<1> DEFINE t == p \o q
<1>1. /\ Len(p) \in Nat /\ Len(q) \in Nat
      /\ DOMAIN p = 1 .. Len(p) /\ DOMAIN q = 1 .. Len(q) /\ DOMAIN t = 1 .. Len(p) + Len(q)
      /\ \A i \in 1 .. Len(p) : t[i] = p[i]
      /\ \A i \in 1 .. Len(q) : t[Len(p) + i] = q[i]
  BY ConcatAt
<1> HIDE DEF t
<1>2. ASSUME Some(t, X) PROVE Some(p, X) \/ Some(q, X)
  <2>1. PICK i \in DOMAIN t : t[i] \in X
    BY <1>2 DEF Some
  <2>2. CASE i <= Len(p)
    BY <1>1, <2>1, <2>2 DEF Some
  <2>3. CASE Len(p) < i
    <3>1. i - Len(p) \in 1 .. Len(q) /\ Len(p) + (i - Len(p)) = i
      BY <1>1, <2>3
    <3> QED
      BY <1>1, <2>1, <3>1 DEF Some
  <2> QED
    BY <1>1, <2>2, <2>3
<1>3. ASSUME Some(p, X) PROVE Some(t, X)
  BY <1>1, <1>3 DEF Some
<1>4. ASSUME Some(q, X) PROVE Some(t, X)
  <2>1. PICK i \in DOMAIN q : q[i] \in X
    BY <1>4 DEF Some
  <2>2. Len(p) + i \in DOMAIN t /\ t[Len(p) + i] \in X
    BY <1>1, <2>1
  <2> QED
    BY <2>2 DEF Some
<1> QED
  BY <1>2, <1>3, <1>4 DEF t

LEMMA RunConcat ==
  ASSUME NEW T, NEW p \in Seq(T), NEW q \in Seq(T), NEW D, NEW a, NEW b, NEW c,
         Run(p, D, a, b), Run(q, D, b, c)
  PROVE  Run(p \o q, D, a, c)
<1> DEFINE t == p \o q
<1>1. /\ Len(p) \in Nat /\ Len(q) \in Nat /\ Len(t) = Len(p) + Len(q)
      /\ DOMAIN p = 1 .. Len(p) /\ DOMAIN q = 1 .. Len(q) /\ DOMAIN t = 1 .. Len(p) + Len(q)
      /\ \A i \in 1 .. Len(p) : t[i] = p[i]
      /\ \A i \in 1 .. Len(q) : t[Len(p) + i] = q[i]
  BY ConcatAt
<1> HIDE DEF t
<1>2. PICK r \in [0 .. Len(p) -> States] :
         /\ r[0] = a /\ r[Len(p)] = b
         /\ \A i \in DOMAIN p : <<p[i], r[i - 1], r[i]>> \in D
  BY DEF Run
<1>3. PICK u \in [0 .. Len(q) -> States] :
         /\ u[0] = b /\ u[Len(q)] = c
         /\ \A i \in DOMAIN q : <<q[i], u[i - 1], u[i]>> \in D
  BY DEF Run
<1> DEFINE v == [i \in 0 .. Len(t) |-> IF i <= Len(p) THEN r[i] ELSE u[i - Len(p)]]
<1>4. v \in [0 .. Len(t) -> States]
  BY <1>1, <1>2, <1>3
<1>5. \A i \in 0 .. Len(p) : v[i] = r[i]
  BY <1>1
<1>6. ASSUME NEW i \in 0 .. Len(q) PROVE v[Len(p) + i] = u[i]
  <2>1. CASE i = 0
    BY <1>1, <1>2, <1>3, <2>1
  <2>2. CASE i # 0
    <3>1. Len(p) + i \in 0 .. Len(t) /\ ~(Len(p) + i <= Len(p)) /\ (Len(p) + i) - Len(p) = i
      BY <1>1, <2>2
    <3> QED
      BY <3>1
  <2> QED
    BY <2>1, <2>2
<1> HIDE DEF v
<1>7. v[0] = a /\ v[Len(t)] = c
  <2>1. 0 \in 0 .. Len(p) /\ Len(q) \in 0 .. Len(q)
    BY <1>1
  <2> QED
    BY <1>1, <1>2, <1>3, <1>5, <1>6, <2>1
<1>8. ASSUME NEW i \in DOMAIN t PROVE <<t[i], v[i - 1], v[i]>> \in D
  <2>1. CASE i <= Len(p)
    <3>1. i \in DOMAIN p /\ t[i] = p[i] /\ v[i - 1] = r[i - 1] /\ v[i] = r[i]
      BY <1>1, <1>5, <2>1
    <3> QED
      BY <1>2, <3>1
  <2>2. CASE Len(p) < i
    <3>1. PICK j \in DOMAIN q : i = Len(p) + j
      <4>1. i - Len(p) \in DOMAIN q /\ i = Len(p) + (i - Len(p))
        BY <1>1, <2>2
      <4> QED
        BY <4>1
    <3>2. j \in 0 .. Len(q) /\ j - 1 \in 0 .. Len(q) /\ i - 1 = Len(p) + (j - 1)
      BY <1>1, <3>1
    <3>3. t[i] = q[j] /\ v[i - 1] = u[j - 1] /\ v[i] = u[j]
      BY <1>1, <1>6, <3>1, <3>2
    <3> QED
      BY <1>3, <3>3
  <2> QED
    BY <1>1, <2>1, <2>2
<1>9. Run(t, D, a, c)
  BY <1>4, <1>7, <1>8 DEF Run
<1> QED
  BY <1>9 DEF t

-----------------------------------------------------------------------------
(* The empty queue *)

\* One that comes after another in two joined queues does so in one of them, or is in the
\* second and the other in the first.
LEMMA AfterConcat ==
  ASSUME NEW T, NEW p \in Seq(T), NEW q \in Seq(T), NEW X, NEW Y, SomeAfter(p \o q, Y, X)
  PROVE  SomeAfter(p, Y, X) \/ SomeAfter(q, Y, X) \/ (Some(p, Y) /\ Some(q, X))
<1> DEFINE t == p \o q
<1>1. /\ Len(p) \in Nat /\ Len(q) \in Nat
      /\ DOMAIN p = 1 .. Len(p) /\ DOMAIN q = 1 .. Len(q) /\ DOMAIN t = 1 .. Len(p) + Len(q)
      /\ \A i \in 1 .. Len(p) : t[i] = p[i]
      /\ \A i \in 1 .. Len(q) : t[Len(p) + i] = q[i]
  BY ConcatAt
<1>2. PICK i \in DOMAIN t, j \in DOMAIN t : j < i /\ t[j] \in Y /\ t[i] \in X
  BY DEF SomeAfter
<1> HIDE DEF t
<1>3. CASE i <= Len(p)
  BY <1>1, <1>2, <1>3 DEF SomeAfter
<1>4. CASE Len(p) < i
  <2>1. PICK k : k = i - Len(p)
    OBVIOUS
  <2>2. k \in DOMAIN q /\ Len(p) + k = i /\ q[k] \in X
    BY <1>1, <1>2, <1>4, <2>1
  <2>3. CASE j <= Len(p)
    BY <1>1, <1>2, <2>2, <2>3 DEF Some
  <2>4. CASE Len(p) < j
    <3>1. PICK n : n = j - Len(p)
      OBVIOUS
    <3>2. n \in DOMAIN q /\ Len(p) + n = j /\ q[n] \in Y /\ n < k
      BY <1>1, <1>2, <2>2, <2>4, <3>1
    <3> QED
      BY <2>2, <3>2 DEF SomeAfter
  <2> QED
    BY <1>1, <1>2, <2>3, <2>4
<1> QED
  BY <1>1, <1>2, <1>3, <1>4

\* Only element k of the queue does something.
LEMMA RunOnce ==
  ASSUME NEW T, NEW q \in Seq(T), NEW D, NEW a \in States, NEW b \in States, NEW k \in DOMAIN q,
         <<q[k], a, b>> \in D,
         \A j \in DOMAIN q : j # k => <<q[j], a, a>> \in D /\ <<q[j], b, b>> \in D
  PROVE  Run(q, D, a, b)
<1> DEFINE r == [i \in 0 .. Len(q) |-> IF i < k THEN a ELSE b]
<1>1. Len(q) \in Nat /\ DOMAIN q = 1 .. Len(q)
  BY LenProperties
<1>2. r \in [0 .. Len(q) -> States] /\ r[0] = a /\ r[Len(q)] = b
  BY <1>1
<1>3. ASSUME NEW i \in DOMAIN q PROVE <<q[i], r[i - 1], r[i]>> \in D
  <2>1. i - 1 \in 0 .. Len(q) /\ i \in 0 .. Len(q)
    BY <1>1
  <2>2. CASE i = k
    BY <1>1, <2>1, <2>2
  <2>3. CASE i < k
    <3>1. r[i - 1] = a /\ r[i] = a
      BY <1>1, <2>1, <2>3
    <3>2. i # k
      BY <1>1, <2>3
    <3>3. <<q[i], a, a>> \in D
      BY <3>2
    <3> HIDE DEF r
    <3> QED
      BY <3>1, <3>3
  <2>4. CASE k < i
    <3>1. r[i - 1] = b /\ r[i] = b
      BY <1>1, <2>1, <2>4
    <3>2. i # k
      BY <1>1, <2>4
    <3>3. <<q[i], b, b>> \in D
      BY <3>2
    <3> HIDE DEF r
    <3> QED
      BY <3>1, <3>3
  <2> QED
    BY <1>1, <2>2, <2>3, <2>4
<1> HIDE DEF r
<1> QED
  BY <1>2, <1>3 DEF Run

LEMMA RunIdle ==
  ASSUME NEW T, NEW q \in Seq(T), NEW D, NEW a \in States,
         \A j \in DOMAIN q : <<q[j], a, a>> \in D
  PROVE  Run(q, D, a, a)
<1> DEFINE r == [i \in 0 .. Len(q) |-> a]
<1>1. Len(q) \in Nat /\ DOMAIN q = 1 .. Len(q)
  BY LenProperties
<1>2. r \in [0 .. Len(q) -> States] /\ r[0] = a /\ r[Len(q)] = a
  BY <1>1
<1>3. \A i \in DOMAIN q : <<q[i], r[i - 1], r[i]>> \in D
  BY <1>1
<1> HIDE DEF r
<1> QED
  BY <1>2, <1>3 DEF Run

LEMMA EmptyQueue ==
  ASSUME NEW X, NEW Y, NEW D, NEW a \in States, NEW b
  PROVE  /\ ~Some(<<>>, X) /\ Single(<<>>, X) /\ ~SomeAfter(<<>>, Y, X) /\ SingleAfter(<<>>, Y, X)
         /\ Run(<<>>, D, a, a)
         /\ Run(<<>>, D, a, b) => a = b
<1>1. DOMAIN <<>> = {} /\ Len(<<>>) = 0
  OBVIOUS
<1>2. ~Some(<<>>, X) /\ Single(<<>>, X) /\ ~SomeAfter(<<>>, Y, X) /\ SingleAfter(<<>>, Y, X)
  BY <1>1 DEF Some, Single, SomeAfter, SingleAfter
<1>3. Run(<<>>, D, a, a)
  <2>1. [i \in 0 .. 0 |-> a] \in [0 .. 0 -> States] /\ [i \in 0 .. 0 |-> a][0] = a
    OBVIOUS
  <2> QED
    BY <1>1, <2>1 DEF Run
<1>4. Run(<<>>, D, a, b) => a = b
  BY <1>1 DEF Run
<1> QED
  BY <1>2, <1>3, <1>4

-----------------------------------------------------------------------------
(* The elements of a set in some order *)

LEMMA SetToSeqType ==
  ASSUME NEW T, NEW S \in SUBSET T, IsFiniteSet(S)
  PROVE  SetToSeq(S) \in Seq(T) /\ SetToSeq(S) \in Seq(S)
<1>1. Cardinality(S) \in Nat /\ ExistsBijection(1 .. Cardinality(S), S)
  BY FS_CardinalityType
<1>2. PICK F \in Bijection(1 .. Cardinality(S), S) : TRUE
  BY <1>1 DEF ExistsBijection
<1>3. F \in [1 .. Cardinality(S) -> S] /\ IsInjective(F)
  BY <1>2 DEF Bijection, Injection
<1>4. SetToSeq(S) \in [1 .. Cardinality(S) -> S]
  BY <1>3 DEF SetToSeq
<1> QED
  BY <1>1, <1>4

\* Each element of the set is there, once.
LEMMA SetToSeqAll ==
  ASSUME NEW S, IsFiniteSet(S)
  PROVE  /\ \A x \in S : \E i \in DOMAIN SetToSeq(S) : SetToSeq(S)[i] = x
         /\ \A i, j \in DOMAIN SetToSeq(S) : SetToSeq(S)[i] = SetToSeq(S)[j] => i = j
<1>1. Cardinality(S) \in Nat /\ ExistsBijection(1 .. Cardinality(S), S)
  BY FS_CardinalityType
<1>2. PICK F \in Bijection(1 .. Cardinality(S), S) : TRUE
  BY <1>1 DEF ExistsBijection
<1>3. F \in [1 .. Cardinality(S) -> S] /\ IsInjective(F)
  BY <1>2 DEF Bijection, Injection
<1>4. SetToSeq(S) \in [1 .. Cardinality(S) -> S] /\ IsInjective(SetToSeq(S))
  BY <1>3 DEF SetToSeq
<1>5. SetToSeq(S) \in Injection(1 .. Cardinality(S), S)
  BY <1>4 DEF Injection, IsInjective
<1>6. Cardinality(1 .. Cardinality(S)) = Cardinality(S)
  BY <1>1, FS_Interval
<1>7. SetToSeq(S) \in Surjection(1 .. Cardinality(S), S)
  BY <1>5, <1>6, FS_Injection
<1> QED
  BY <1>4, <1>7 DEF Surjection, IsInjective

LEMMA SwitchType == \A p : Switch(p) \in States
BY DEF Switch, States

-----------------------------------------------------------------------------
(* The greatest and the least of a set of naturals *)

\* Every finite non-empty set of naturals has a greatest element: otherwise take one
\* without that has no proper subset without, and remove an element of it.
LEMMA MaxExists ==
  ASSUME NEW S \in SUBSET Nat, IsFiniteSet(S), S # {}
  PROVE  \E x \in S : \A y \in S : y <= x
<1> DEFINE HasMax(T) == \E x \in T : \A y \in T : y <= x
           Bad == {T \in FiniteSubsetsOf(Nat) : T # {} /\ ~HasMax(T)}
<1> SUFFICES ASSUME Bad # {} PROVE FALSE
  BY DEF FiniteSubsetsOf
<1>1. Bad \subseteq FiniteSubsetsOf(Nat)
  OBVIOUS
<1>2. PICK T \in Bad : \A U \in Bad : ~(<<U, T>> \in StrictSubsetOrdering(Nat))
  <2> HIDE DEF Bad
  <2> QED
    BY <1>1, FS_StrictSubsetOrderingWellFounded, WFMin, Zenon
<1>3. PICK x \in T : TRUE
  OBVIOUS
<1>4. T \in SUBSET Nat /\ IsFiniteSet(T)
  BY DEF FiniteSubsetsOf
<1> DEFINE U == T \ {x}
<1>5. IsFiniteSet(U)
  BY <1>4, FS_RemoveElement
<1>6. <<U, T>> \in StrictSubsetOrdering(Nat)
  BY <1>3, <1>4 DEF StrictSubsetOrdering
<1>7. U \notin Bad
  BY <1>2, <1>6
<1>8. U = {} \/ HasMax(U)
  BY <1>4, <1>5, <1>7 DEF FiniteSubsetsOf
<1>9. HasMax(T)
  BY <1>3, <1>4, <1>8
<1> QED
  BY <1>9

LEMMA MaxNat ==
  ASSUME NEW S \in SUBSET Nat, IsFiniteSet(S), S # {}
  PROVE  Max(S) \in S /\ \A y \in S : y <= Max(S)
BY MaxExists DEF Max

\* Every non-empty set of naturals has a least element: seen from a member n, it is the
\* element with the greatest distance to n.
LEMMA MinNat ==
  ASSUME NEW S \in SUBSET Nat, S # {}
  PROVE  Min(S) \in S /\ \A y \in S : Min(S) <= y
<1>1. PICK n \in S : TRUE
  OBVIOUS
<1> DEFINE D == {d \in 0 .. n : n - d \in S}
<1>2. n \in Nat
  BY <1>1
<1>3. IsFiniteSet(0 .. n)
  BY <1>2, FS_Interval
<1>4. IsFiniteSet(D)
  BY <1>3, FS_Subset
<1>5. D \in SUBSET Nat /\ 0 \in D
  BY <1>1, <1>2
<1>6. PICK d \in D : \A e \in D : e <= d
  BY <1>4, <1>5, MaxExists
<1>7. \A y \in S : n - d <= y
  <2> SUFFICES ASSUME NEW y \in S, y < n - d PROVE FALSE
    BY <1>2, <1>5, <1>6
  <2>1. n - y \in D
    BY <1>2, <1>5, <1>6
  <2> QED
    BY <1>2, <1>5, <1>6, <2>1
<1>8. n - d \in S
  BY <1>6
<1> QED
  BY <1>7, <1>8 DEF Min

=============================================================================
