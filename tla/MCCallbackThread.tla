-------------------------- MODULE MCCallbackThread --------------------------
(***************************************************************************)
(* The instances of CallbackThread for TLC.                                *)
(***************************************************************************)
EXTENDS CallbackThread
=============================================================================
