-------------------------- MODULE MCTimeFederation --------------------------
(***************************************************************************)
(* The instances of TimeFederation for TLC: which federates there are and  *)
(* what their programs call.                                               *)
(***************************************************************************)
EXTENDS TimeRefinement

CONSTANTS f1, f2

\* Two federates ask for messages and for times, with a lookahead that changes in f2; f1 sends
\* while a request is pending, f2 flushes its queue.
AdvanceProgram == f1 :> {"NMR", "NMRA", "TAR", "Send", "AllowPending"}
               @@ f2 :> {"NMRA", "TARA", "FQR", "Send", "ModifyLookahead"}

\* Time regulation and constraint come and go, f1 also sends without regulating.
ModesProgram == f1 :> {"EnableRegAt", "DisableReg", "Send"}
             @@ f2 :> {"EnableCon", "DisableCon", "TAR", "Async"}

\* f2 joins a federation that runs and takes part, while f1 starts to regulate time, advances,
\* sends and may resign.
JoiningProgram == f1 :> {"EnableReg", "TAR", "Send", "Resign"}
               @@ f2 :> {"Join", "EnableReg", "EnableCon", "NMR"}

\* f1 advances while f2 is not constrained, or becomes so.
MissedProgram == f1 :> {"TAR"} @@ f2 :> {"EnableCon"}

Calls1 == f1 :> 1 @@ f2 :> 1
Calls2 == f1 :> 2 @@ f2 :> 2
Calls3 == f1 :> 3 @@ f2 :> 3
JoiningCalls == f1 :> 2 @@ f2 :> 4

=============================================================================
