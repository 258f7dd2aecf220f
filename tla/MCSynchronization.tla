------------------------- MODULE MCSynchronization -------------------------
(***************************************************************************)
(* The instances of Synchronization for TLC.                               *)
(***************************************************************************)
EXTENDS Synchronization

CONSTANTS root, leaf, f1, f2, f3, ready

\* f1 is connected to the root, f2 and f3 to a leaf server.
TwoLevels == f1 :> root @@ f2 :> leaf @@ f3 :> leaf

All(l)      == [label |-> l, set |-> {}]
Only(l, F)  == [label |-> l, set |-> F]

\* Two federates register the same label, one for all federates and one for the two of them.
SameLabel == f1 :> {All(ready)} @@ f2 :> {Only(ready, {f1, f2})} @@ f3 :> {}

=============================================================================
