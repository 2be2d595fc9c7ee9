-------------------------- MODULE MCActivityTimer --------------------------
(* Small instances of ActivityTimer for TLC.                                *)
EXTENDS ActivityTimer
=============================================================================
