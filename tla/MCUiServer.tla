----------------------------- MODULE MCUiServer -----------------------------
(***************************************************************************)
(* UiServer on small instances, given by the configurations.               *)
(***************************************************************************)
EXTENDS UiServer
=============================================================================
