------------------------------- MODULE MCAuth -------------------------------
(***************************************************************************)
(* Auth on small instances, given by the configurations.                   *)
(***************************************************************************)
EXTENDS Auth
=============================================================================
