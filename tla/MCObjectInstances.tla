--------------------------- MODULE MCObjectInstances ---------------------------
(***************************************************************************)
(* An instance of ObjectInstances: a1 and a2 at the leaf server s1, a3 at  *)
(* the root; object class o2 is derived from o1.                           *)
(***************************************************************************)
EXTENDS ObjectInstances

CONSTANTS r, s1, a1, a2, a3, o1, o2, i1, x1

Tree == s1 :> r @@ a1 :> s1 @@ a2 :> s1 @@ a3 :> r

Derived == o1 :> NoClass @@ o2 :> o1 @@ i1 :> NoClass

Each(p, q, t) == a1 :> p @@ a2 :> q @@ a3 :> t

Plan(calls, most, handles) == [calls |-> calls, most |-> most, handles |-> handles]
On(verbs, what) == verbs \X {what}

\* Objects come and go while others subscribe and unsubscribe.
Objects ==
  Plan(Each(On({"publish", "unpublish", "register"}, o1) \cup {Deletes, Resigns},
            On({"subscribe", "unsubscribe"}, o1), On({"subscribe", "unsubscribe"}, o1)),
       Each(4, 2, 1), Each(1, 0, 0))

\* Two federates at one server subscribe and unsubscribe while an object of the root's comes and
\* goes.
FromTheRoot ==
  Plan(Each(On({"subscribe", "unsubscribe"}, o1), On({"subscribe", "unsubscribe"}, o1),
            On({"publish", "register"}, o1) \cup {Deletes}),
       Each(2, 3, 3), Each(0, 0, 1))

\* A name is reserved by two federates, released, used.
Reservations ==
  Plan(Each(On({"publish", "registerNamed"}, o1) \cup On({"reserve", "release"}, x1)
              \cup {Deletes, Resigns},
            On({"subscribe"}, o1), On({"subscribe"}, o1) \cup On({"reserve"}, x1)),
       Each(4, 1, 2), Each(0, 0, 0))

\* Publishers and subscribers of an interaction class come and go.
Interactions ==
  Plan(Each(On({"publish", "unpublish"}, i1) \cup {Resigns},
            On({"publish", "subscribe", "unsubscribe"}, i1),
            On({"publish", "subscribe", "unsubscribe"}, i1)),
       Each(3, 3, 3), Each(0, 0, 0))

\* A federate without free handles registers an object while others are inserted and deleted.
Waiting ==
  Plan(Each(On({"publish", "register"}, o1) \cup {Deletes},
            On({"publish", "register", "subscribe"}, o1), On({"subscribe"}, o1)),
       Each(3, 3, 1), Each(1, 0, 0))

\* A class and its base class are subscribed.
Hierarchy ==
  Plan(Each(On({"publish", "register"}, o2) \cup On({"publish"}, o1),
            On({"subscribe", "unsubscribe"}, o1) \cup On({"subscribe"}, o2),
            On({"subscribe"}, o1) \cup On({"subscribe", "unsubscribe"}, o2)),
       Each(3, 3, 2), Each(1, 0, 0))

Resubscribing == <<FromTheRoot>>
AllPlans == <<Objects, FromTheRoot, Reservations, Interactions, Waiting, Hierarchy>>

=============================================================================
