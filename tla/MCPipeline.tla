----------------------------- MODULE MCPipeline -----------------------------
(***************************************************************************)
(* Pipeline on small instances.  The event names that the runs let the     *)
(* game send, chosen per question: one event of each kind that the         *)
(* question tells apart.                                                   *)
(***************************************************************************)
EXTENDS PipelineInvariant

(* A live event, a feed event, and an event that closes the match.         *)
BarrierEvents == {"UpdateState", "BallHit", "MatchDestroyed"}

(* The life of a match as the aggregation sees it.                         *)
MatchEvents == {"UpdateState", "MatchInitialized", "MatchEnded"}

(* Every event that the documents' statement is about.                     *)
DocumentedEvents ==
  {"UpdateState", "BallHit", "MatchInitialized", "MatchDestroyed"}
=============================================================================
