------------------------------ MODULE MCBridge ------------------------------
(***************************************************************************)
(* Bridge on small instances, given by the configurations.                 *)
(***************************************************************************)
EXTENDS Bridge
=============================================================================
