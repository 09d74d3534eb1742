--------------------------- MODULE MCAggregation ---------------------------
(***************************************************************************)
(* Aggregation on a small instance: two players who play each other, or on *)
(* one side.  The nodes of one of the players and of one of the teams do   *)
(* not parse.                                                              *)
(***************************************************************************)
EXTENDS Aggregation, TLC

CONSTANTS p1, p2, t1

TwoLineups ==
  {(p1 :> "blue") @@ (p2 :> "orange"), (p1 :> "blue") @@ (p2 :> "blue")}

SomeDamaged == {PlayerNode(p1), TeamNode(t1)}
=============================================================================
