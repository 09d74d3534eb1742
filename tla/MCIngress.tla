------------------------------ MODULE MCIngress ------------------------------
(***************************************************************************)
(* Ingress on small instances, given by the configurations.                *)
(***************************************************************************)
EXTENDS Ingress
=============================================================================
