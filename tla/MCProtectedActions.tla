-------------------------- MODULE MCProtectedActions --------------------------
(* Instances of ProtectedActions for TLC.                                   *)
EXTENDS ProtectedActions
=============================================================================
