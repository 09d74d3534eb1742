-------------------------- MODULE MCHistoricalLane --------------------------
(* HistoricalLane on a small instance, given by the configurations.        *)
EXTENDS HistoricalLane
=============================================================================
