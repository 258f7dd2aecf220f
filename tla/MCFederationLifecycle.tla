------------------------ MODULE MCFederationLifecycle ------------------------
(***************************************************************************)
(* The instances of FederationLifecycle for TLC.                           *)
(***************************************************************************)
EXTENDS FederationLifecycle

CONSTANTS r, s1, a1, a2, a3

\* Two ambassadors of one process, a third one in the process of the root
Tree == (s1 :> r) @@ (a1 :> s1 @@ a2 :> s1 @@ a3 :> r)
Unnamed == a1 :> "" @@ a2 :> "" @@ a3 :> ""

\* a1 closes at any time between its calls, a2 may give up its join, a3 destroys and creates
\* the federation while the others come and go.
LifecycleProgram == a1 :> {"create", "join", "resign", "close"} @@ a2 :> {"join", "timeout"}
                 @@ a3 :> {"destroy", "create"}
LifecycleCalls == a1 :> 3 @@ a2 :> 1 @@ a3 :> 2

\* a2 gives up its join and disconnects, while a1 stays.
ClosingProgram == a1 :> {"create", "join"} @@ a2 :> {"join", "timeout", "close"} @@ a3 :> {}
ClosingCalls == a1 :> 2 @@ a2 :> 1 @@ a3 :> 0

=============================================================================
