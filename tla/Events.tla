------------------------------- MODULE Events -------------------------------
(***************************************************************************)
(* The event taxonomy of the ingestion router: which of the three lanes an *)
(* event belongs to, which events are mirrored to a second lane, and which *)
(* end a match.  Pure operators over the event's name; an event name that  *)
(* the code does not know is the name "Unknown".                           *)
(***************************************************************************)

LiveStateEvents == {"UpdateState", "ClockUpdatedSeconds"}

HistoricalEvents == {"GoalScored", "Unknown"}

EventFeedEvents ==
  {"GoalReplayStart", "GoalReplayEnd", "GoalReplayWillEnd", "MatchCreated",
   "MatchInitialized", "MatchDestroyed", "MatchEnded", "MatchPaused",
   "MatchUnpaused", "CountdownBegin", "RoundStarted", "PodiumStart",
   "ReplayCreated", "BallHit", "CrossbarHit", "StatfeedEvent"}

RocketLeagueEvent == LiveStateEvents \cup HistoricalEvents \cup EventFeedEvents

(* classify_event: the one primary lane of an event. *)
IngestClass(t) ==
  CASE t \in LiveStateEvents  -> "LiveState"
    [] t \in HistoricalEvents -> "Historical"
    [] OTHER                  -> "EventFeed"

IsHighValue(t) ==
  t \in {"GoalScored", "StatfeedEvent", "MatchInitialized", "MatchEnded",
         "PodiumStart"}

IsLifecycle(t) == t \in {"MatchEnded", "MatchDestroyed", "MatchInitialized"}

(***************************************************************************)
(* route_envelope, lane by lane.  The live lane takes its own class only.  *)
(* The feed takes its own class unless the event is a lifecycle event or   *)
(* the podium latch is up, and the high-value events of the historical     *)
(* class whatever the latch says.  The historical lane takes its own class *)
(* and the mirrored events of the feed's class.                            *)
(***************************************************************************)
ToLive(t) == IngestClass(t) = "LiveState"

ToFeed(t, podium) ==
  \/ IngestClass(t) = "EventFeed" /\ ~IsLifecycle(t) /\ ~podium
  \/ IngestClass(t) = "Historical" /\ ~IsLifecycle(t) /\ IsHighValue(t)

ToHistorical(t, historical) ==
  \/ IngestClass(t) = "Historical"
  \/ /\ IngestClass(t) = "EventFeed"
     /\ \/ IsHighValue(t)
        \/ IsLifecycle(t) /\ historical
        \/ t = "MatchInitialized"

(***************************************************************************)
(* compaction_reason: why an event closes the match that was active before *)
(* it (previous) when the match active after it is current.  "None" is the *)
(* code's Option::None.  Both ids are never empty (SessionContext falls    *)
(* back to a generated id), so the code's emptiness tests always pass.     *)
(***************************************************************************)
CompactionReason(t, previous, current) ==
  CASE t = "MatchDestroyed" -> "Destroyed"
    [] t = "MatchEnded"     -> "Ended"
    [] t \notin {"MatchDestroyed", "MatchEnded"} /\ previous # current
                            -> "IdTransition"
    [] OTHER                -> "None"
=============================================================================
