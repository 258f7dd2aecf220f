----------------------------- MODULE LogicalTime -----------------------------
(***************************************************************************)
(* Logical times and the LogicalTimePair of TemplateTimeManagement.h.      *)
(*                                                                         *)
(* A logical time is a natural number (HLAinteger64Time from its initial   *)
(* time on).  A pair <<t, k>> orders what happens at time t: time stamp    *)
(* ordered messages are queued at k = -1, an "available" advance at k = 0, *)
(* a full advance at k = 1.  Also here: the partial functions that stand   *)
(* for the std::map members of the code.                                   *)
(***************************************************************************)
EXTENDS Integers, FiniteSetsExt

Max2(a, b) == IF a < b THEN b ELSE a
Min2(a, b) == IF b < a THEN b ELSE a

\* Times are discrete: the epsilon interval of HLAinteger64Time is 1.
nextAfter(t) == t + 1

TimePairs == Nat \X {-1, 0, 1}

\* std::less on std::pair<LogicalTime, int>
PairLess(p, q) == p[1] < q[1] \/ (p[1] = q[1] /\ p[2] < q[2])
PairLeq(p, q) == ~PairLess(q, p)
PairMax(p, q) == IF PairLess(p, q) THEN q ELSE p

\* _toLogicalTime: the smallest time allowed by a lower bound pair
_toLogicalTime(p) == IF 0 < p[2] THEN nextAfter(p[1]) ELSE p[1]

-----------------------------------------------------------------------------
\* std::map as a function on the set of its keys

IsMap(m, K, V) == DOMAIN m \subseteq K /\ \A k \in DOMAIN m : m[k] \in V

EmptyMap == [k \in {} |-> 0]
Put(m, k, v) == [x \in DOMAIN m \cup {k} |-> IF x = k THEN v ELSE m[x]]
Drop(m, k) == [x \in DOMAIN m \ {k} |-> m[x]]

=============================================================================
