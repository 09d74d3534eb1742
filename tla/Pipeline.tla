------------------------------ MODULE Pipeline ------------------------------
(***************************************************************************)
(* The ingestion pipeline of the daemon: the Worker's router, the three    *)
(* bounded lanes, the actor at the end of each lane, and the database      *)
(* nodes the actors and the router write.                                  *)
(*                                                                         *)
(* The router is one task: it takes a game event, updates its latches and, *)
(* when the event closes a match, runs the compaction sequence (flush both *)
(* transient lanes, wait for the acknowledgements, take a snapshot of the  *)
(* live actor's cache, aggregate, reset the cache, delete both transient   *)
(* nodes) before it routes the event.  Each await of that sequence is a    *)
(* value of rpc, the router's control state; everything between two awaits *)
(* is one action.  Each actor is a task of its own.                        *)
(*                                                                         *)
(* A lane whose actor has stopped is closed, which only a shutdown brings  *)
(* about.  A send into it fails in the code; here it may also append to    *)
(* the lane nobody reads any more, which no node or aggregate ever shows.  *)
(***************************************************************************)
EXTENDS Events, Naturals, Sequences

CONSTANTS
  Matches,              \* match ids the game sends
  Fallback,             \* the id SessionContext generates at start-up
  NoId,                 \* a payload without a match id; also Option::None
  Emitted,              \* the event names the game sends
  ReplayFlags,          \* the values of bReplay the game sends in UpdateState
  LiveCap, FeedCap,     \* channel capacities
  FeedMaxFailures,      \* EVENT_FEED_MAX_FAILURES
  CompactionMaxFailures,\* COMPACTION_MAX_FAILURES
  MayShutdown,          \* whether the token may be cancelled
  MaxEvents             \* bound on the number of events handled

MatchIds == Matches \cup {Fallback}

ASSUME PipelineAssumption ==
  /\ Fallback \notin Matches
  /\ NoId \notin MatchIds
  /\ Emitted \subseteq RocketLeagueEvent
  /\ ReplayFlags \subseteq BOOLEAN /\ FALSE \in ReplayFlags
  /\ LiveCap \in Nat \ {0} /\ FeedCap \in Nat \ {0}
  /\ FeedMaxFailures \in Nat /\ CompactionMaxFailures \in Nat
  /\ MayShutdown \in BOOLEAN /\ MaxEvents \in Nat

VARIABLES
  (* router *)
  rpc,            \* where the router task is waiting
  ev,             \* the event of the compaction under way
  prev,           \* previous_match_id of that event
  active,         \* session_context.active_match_id
  inReplay,       \* session_context.in_replay
  sequence, lastCompactionSeq, lastAggregated,
  podium,         \* cached_podium_active
  historical,     \* cached_historical_active
  liveSent,       \* whether this barrier's flush entered the live lane
  failures,       \* failed attempts of the delete under way
  shutdown,       \* the cancellation token
  (* lanes, and the oneshot channels of the compaction under way *)
  liveQ, feedQ,
  acks,           \* oneshots answered: flush of live, flush of feed, snapshot
  snap,           \* the snapshot in the answered snapshot oneshot
  (* actors *)
  livePc, liveHeld, master, cached, liveFlush,
  feedPc, feedHeld, feedFailures,
  (* database *)
  liveNode, feedNode, uploads,
  (* history: observers the code does not have *)
  liveEpoch,      \* the last boundary that cleanly emptied live_state
  feedEpoch,      \* the last boundary that cleanly emptied live_events_feed
  liveSince,      \* player telemetry accepted by the live lane since a reset
  disturbed,      \* a boundary was aborted, or went on without a snapshot
  visits,         \* how often each id became the active one
  histOffered     \* envelopes handed to the historical lane's try_send

routerVars == <<rpc, ev, prev, active, inReplay, sequence, lastCompactionSeq,
                lastAggregated, podium, historical, liveSent, failures>>
laneVars == <<liveQ, feedQ>>
replyVars == <<acks, snap>>
liveVars == <<livePc, liveHeld, master, cached, liveFlush>>
feedVars == <<feedPc, feedHeld, feedFailures>>
cloudVars == <<liveNode, feedNode, uploads>>
epochVars == <<liveEpoch, feedEpoch>>
historyVars == <<liveSince, disturbed, visits, histOffered>>
vars == <<routerVars, shutdown, laneVars, replyVars, liveVars, feedVars,
          cloudVars, epochVars, historyVars>>

-----------------------------------------------------------------------------
(* An envelope: the payload is abstracted to the event it came from.       *)
Envelope == [seq : Nat, type : RocketLeagueEvent, match : MatchIds]
NoEnvelope == [seq |-> 0, type |-> "UpdateState", match |-> Fallback]

(* A message of a transient lane.  A control message carries the envelope  *)
(* whose compaction sent it: that names its oneshot channel.               *)
Message == [kind : {"event", "flush", "snapshot", "reset"}, env : Envelope]
Msg(k, e) == [kind |-> k, env |-> e]

(* A bounded mpsc channel: room for one more message.                      *)
HasRoom(q, cap) == Len(q) < cap

(* Fault: a full lane makes room for the new message.                      *)
OfferDropOldest(q, cap, m) ==
  Append(IF HasRoom(q, cap) THEN q ELSE Tail(q), m)

(* try_send: a full lane refuses the new message.                          *)
Offer(q, cap, m) == IF HasRoom(q, cap) THEN Append(q, m) ELSE q

(* What an envelope adds to the cached player_telemetry: only UpdateState  *)
(* carries players.                                                        *)
Players(e) == IF e.type = "UpdateState" THEN {e} ELSE {}

(* update_live_state_cache: the cache of another match is thrown away.     *)
MergeHeld ==
  /\ master' = IF cached \in {NoId, liveHeld.match}
               THEN master \cup Players(liveHeld)
               ELSE Players(liveHeld)
  /\ cached' = liveHeld.match

(***************************************************************************)
(* Initial state: lanes and actors are created once, before the session    *)
(* loop; no session is up.                                                 *)
(***************************************************************************)
Init ==
  /\ rpc = "offline" /\ ev = NoEnvelope /\ prev = Fallback
  /\ active = Fallback /\ inReplay = FALSE
  /\ sequence = 0 /\ lastCompactionSeq = 0 /\ lastAggregated = NoId
  /\ podium = FALSE /\ historical = FALSE
  /\ liveSent = FALSE /\ failures = 0 /\ shutdown = FALSE
  /\ liveQ = <<>> /\ feedQ = <<>>
  /\ acks = {} /\ snap = {}
  /\ livePc = "recv" /\ liveHeld = NoEnvelope /\ liveFlush = 0
  /\ master = {} /\ cached = NoId
  /\ feedPc = "recv" /\ feedHeld = NoEnvelope /\ feedFailures = 0
  /\ liveNode = {} /\ feedNode = {}
  /\ uploads = [m \in MatchIds |-> 0]
  /\ liveEpoch = 0 /\ feedEpoch = 0
  /\ liveSince = {} /\ disturbed = FALSE
  /\ visits = [m \in MatchIds |-> IF m = Fallback THEN 1 ELSE 0]
  /\ histOffered = {}

-----------------------------------------------------------------------------
(***************************************************************************)
(* Routing.  pod and hist are the latches at the time of routing.  A full  *)
(* lane drops the new envelope; a Historical event is not routed at all    *)
(* during a goal replay.                                                   *)
(***************************************************************************)
Route(e, pod, hist, replay) ==
  LET routed == ~(replay /\ IngestClass(e.type) = "Historical")
      live == routed /\ ToLive(e.type)
      feed == routed /\ ToFeed(e.type, pod)
      hst  == routed /\ ToHistorical(e.type, hist)
  IN /\ liveQ' = IF live THEN Offer(liveQ, LiveCap, Msg("event", e)) ELSE liveQ
     /\ feedQ' = IF feed THEN Offer(feedQ, FeedCap, Msg("event", e)) ELSE feedQ
     /\ histOffered' = IF hst THEN histOffered \cup {e} ELSE histOffered
     /\ liveSince' = IF live /\ HasRoom(liveQ, LiveCap)
                     THEN liveSince \cup Players(e) ELSE liveSince

(***************************************************************************)
(* handle_value up to its first await: the latches and the session context *)
(* take the event in.  A payload without an id leaves the active match.    *)
(***************************************************************************)
CurrentMatch(id) == IF id = NoId THEN active ELSE id

TakeIn(t, id, replay) ==
  /\ sequence < MaxEvents
  /\ sequence' = sequence + 1
  /\ inReplay' = IF replay \/ t = "GoalReplayStart" THEN TRUE
                 ELSE inReplay /\ t # "GoalReplayEnd"
  /\ podium' = (podium \/ t = "MatchEnded")
  /\ historical' = (historical \/ t = "MatchInitialized")
  /\ active' = CurrentMatch(id)
  /\ visits' = IF active' = active THEN visits
               ELSE [visits EXCEPT ![active'] = @ + 1]

EventOf(t, id) ==
  [seq |-> sequence + 1, type |-> t, match |-> CurrentMatch(id)]

(* An event that closes no match is taken in and routed in one go.         *)
HandleEvent(t, id, replay) ==
  /\ rpc = "idle"
  /\ CompactionReason(t, active, CurrentMatch(id)) = "None"
  /\ TakeIn(t, id, replay)
  /\ Route(EventOf(t, id), podium', historical', inReplay')
  /\ UNCHANGED <<rpc, ev, prev, lastCompactionSeq, lastAggregated, liveSent,
                 failures, shutdown, replyVars, liveVars, feedVars, cloudVars,
                 epochVars, disturbed>>

(* An event that closes the previous match starts its compaction.          *)
BeginCompaction(t, id, replay) ==
  /\ rpc = "idle"
  /\ CompactionReason(t, active, CurrentMatch(id)) # "None"
  /\ lastCompactionSeq < sequence + 1
  /\ TakeIn(t, id, replay)
  /\ ev' = EventOf(t, id)
  /\ prev' = active
  /\ acks' = {} /\ snap' = {}
  /\ rpc' = "flushLive"
  /\ UNCHANGED <<lastCompactionSeq, lastAggregated, liveSent, failures,
                 shutdown, laneVars, liveVars, feedVars, cloudVars, epochVars,
                 liveSince, disturbed, histOffered>>

(* The bReplay flag is a field of UpdateState only.                        *)
Receive ==
  \E t \in Emitted, id \in Matches \cup {NoId}, replay \in ReplayFlags :
    /\ replay => t = "UpdateState"
    /\ HandleEvent(t, id, replay) \/ BeginCompaction(t, id, replay)

-----------------------------------------------------------------------------
(* Fault: the live lane's flush is taken for sent, but never was.          *)
FlushLiveUnsent ==
  /\ rpc = "flushLive"
  /\ rpc' = "flushFeed" /\ liveSent' = TRUE
  /\ UNCHANGED <<ev, prev, active, inReplay, sequence, lastCompactionSeq,
                 lastAggregated, podium, historical, failures, shutdown,
                 laneVars, replyVars, liveVars, feedVars, cloudVars,
                 epochVars, historyVars>>

(***************************************************************************)
(* flush_transient_lanes.  Enqueueing waits at most the flush timeout for  *)
(* room; the timer can only win while the lane is full.  Both flushes are  *)
(* attempted before either failure ends the session; the event whose       *)
(* compaction is aborted is lost, and nothing retries the boundary.        *)
(***************************************************************************)
FlushLive ==
  /\ rpc = "flushLive"
  /\ rpc' = "flushFeed"
  /\ \/ /\ HasRoom(liveQ, LiveCap)
        /\ liveQ' = Append(liveQ, Msg("flush", ev))
        /\ liveSent' = TRUE
     \/ /\ ~HasRoom(liveQ, LiveCap) \/ shutdown
        /\ liveSent' = FALSE
        /\ UNCHANGED liveQ
  /\ UNCHANGED <<ev, prev, active, inReplay, sequence, lastCompactionSeq,
                 lastAggregated, podium, historical, failures, shutdown,
                 feedQ, replyVars, liveVars, feedVars, cloudVars, epochVars,
                 historyVars>>

Abort ==
  /\ rpc' = "offline"
  /\ disturbed' = TRUE
  /\ ev' = NoEnvelope /\ prev' = active

FlushFeed ==
  /\ rpc = "flushFeed"
  /\ liveSent' = FALSE
  /\ \/ /\ HasRoom(feedQ, FeedCap)
        /\ feedQ' = Append(feedQ, Msg("flush", ev))
        /\ \/ liveSent /\ rpc' = "ackLive" /\ UNCHANGED <<ev, prev, disturbed>>
           \/ ~liveSent /\ Abort
     \/ /\ ~HasRoom(feedQ, FeedCap) \/ shutdown
        /\ Abort
        /\ UNCHANGED feedQ
  /\ UNCHANGED <<active, inReplay, sequence, lastCompactionSeq,
                 lastAggregated, podium, historical, failures,
                 shutdown, liveQ, replyVars, liveVars, feedVars, cloudVars,
                 epochVars, liveSince, visits, histOffered>>

(***************************************************************************)
(* wait_for_flush_ack, live then feed.  An acknowledgement and a timeout   *)
(* both let the router go on, so the step itself waits for nothing; acks   *)
(* tells the two apart.                                                    *)
(***************************************************************************)
AwaitAck ==
  /\ \/ rpc = "ackLive" /\ rpc' = "ackFeed"
     \/ rpc = "ackFeed" /\ rpc' = "snapSend"
  /\ UNCHANGED <<ev, prev, active, inReplay, sequence, lastCompactionSeq,
                 lastAggregated, podium, historical, liveSent, failures,
                 shutdown, laneVars, replyVars, liveVars, feedVars, cloudVars,
                 epochVars, historyVars>>

(* request_live_state_snapshot: the enqueueing is bounded by the timeout,  *)
(* the wait for the reply is not.  Without a snapshot the router goes      *)
(* straight to the deletes.                                                *)
RequestSnapshot ==
  /\ rpc = "snapSend"
  /\ \/ /\ HasRoom(liveQ, LiveCap)
        /\ liveQ' = Append(liveQ, Msg("snapshot", ev))
        /\ rpc' = "snapWait"
        /\ UNCHANGED disturbed
     \/ /\ ~HasRoom(liveQ, LiveCap) \/ shutdown
        /\ rpc' = "deleteLive"
        /\ disturbed' = TRUE
        /\ UNCHANGED liveQ
  /\ failures' = 0
  /\ UNCHANGED <<ev, prev, active, inReplay, sequence, lastCompactionSeq,
                 lastAggregated, podium, historical, liveSent, shutdown,
                 feedQ, replyVars, liveVars, feedVars, cloudVars, epochVars,
                 liveSince, visits, histOffered>>

(* Fault: the previous match is not compared with the last aggregated one. *)
AggregatesAgain == snap # {} /\ historical

(* The previous match is aggregated when the snapshot has players, it was  *)
(* not the last one aggregated, and the historical latch is up.            *)
Aggregates == snap # {} /\ lastAggregated # prev /\ historical

(* Fault: the wait for the reply is bounded too, and the reset sent anyway.*)
ReceiveSnapshotTimeout ==
  /\ rpc = "snapWait"
  /\ rpc' = IF "snapshot" \in acks /\ Aggregates THEN "aggregate" ELSE "reset"
  /\ UNCHANGED <<ev, prev, active, inReplay, sequence, lastCompactionSeq,
                 lastAggregated, podium, historical, liveSent, failures,
                 shutdown, laneVars, replyVars, liveVars, feedVars, cloudVars,
                 epochVars, historyVars>>

ReceiveSnapshot ==
  /\ rpc = "snapWait"
  /\ \/ /\ "snapshot" \in acks
        /\ rpc' = IF Aggregates THEN "aggregate" ELSE "reset"
        /\ UNCHANGED disturbed
     \/ /\ shutdown
        /\ rpc' = "deleteLive"
        /\ disturbed' = TRUE
  /\ UNCHANGED <<ev, prev, active, inReplay, sequence, lastCompactionSeq,
                 lastAggregated, podium, historical, liveSent, failures,
                 shutdown, laneVars, replyVars, liveVars, feedVars, cloudVars,
                 epochVars, liveSince, visits, histOffered>>

(* upload_aggregation, as one awaited call; uploads counts the calls.      *)
Aggregate ==
  /\ rpc = "aggregate"
  /\ uploads' = [uploads EXCEPT ![prev] = @ + 1]
  /\ lastAggregated' = prev
  /\ rpc' = "reset"
  /\ UNCHANGED <<ev, prev, active, inReplay, sequence, lastCompactionSeq,
                 podium, historical, liveSent, failures, shutdown, laneVars,
                 replyVars, liveVars, feedVars, liveNode, feedNode, epochVars,
                 historyVars>>

(* send(Reset).await: no timeout, it waits for room.                       *)
SendReset ==
  /\ rpc = "reset"
  /\ HasRoom(liveQ, LiveCap)
  /\ liveQ' = Append(liveQ, Msg("reset", ev))
  /\ liveSince' = {}
  /\ rpc' = "deleteLive"
  /\ UNCHANGED <<ev, prev, active, inReplay, sequence, lastCompactionSeq,
                 lastAggregated, podium, historical, liveSent, failures,
                 shutdown, feedQ, replyVars, liveVars, feedVars, cloudVars,
                 epochVars, disturbed, visits, histOffered>>

-----------------------------------------------------------------------------
(***************************************************************************)
(* The end of handle_value: a transition or a destroyed match takes both   *)
(* latches down, the boundary is recorded, and the event that triggered it *)
(* is routed with the latches as they now are.                             *)
(***************************************************************************)
Reason == CompactionReason(ev.type, prev, ev.match)

Finish ==
  /\ rpc' = "idle"
  /\ podium' = (podium /\ Reason = "Ended")
  /\ historical' = (historical /\ Reason = "Ended")
  /\ lastCompactionSeq' = sequence
  /\ failures' = 0
  /\ Route(ev, podium', historical', inReplay)
  /\ ev' = NoEnvelope /\ prev' = active
  /\ acks' = {} /\ snap' = {}
  /\ UNCHANGED <<active, inReplay, sequence, lastAggregated, liveSent,
                 disturbed, visits>>

(***************************************************************************)
(* compact_transient_nodes: live_state first, then live_events_feed.  The  *)
(* epochs record what a successful delete meant: the actor of that node    *)
(* had already handled everything routed before this boundary.             *)
(***************************************************************************)
DeleteLive ==
  /\ rpc = "deleteLive" /\ ~shutdown
  /\ liveNode' = {}
  /\ liveEpoch' = IF "snapshot" \in acks THEN sequence ELSE liveEpoch
  /\ rpc' = "deleteFeed"
  /\ failures' = 0
  /\ UNCHANGED <<ev, prev, active, inReplay, sequence, lastCompactionSeq,
                 lastAggregated, podium, historical, liveSent, shutdown,
                 laneVars, replyVars, liveVars, feedVars, feedNode, uploads,
                 feedEpoch, historyVars>>

DeleteFeed ==
  /\ rpc = "deleteFeed" /\ ~shutdown
  /\ feedNode' = {}
  /\ feedEpoch' = IF "feed" \in acks THEN sequence ELSE feedEpoch
  /\ Finish
  /\ UNCHANGED <<shutdown, liveVars, feedVars, liveNode, uploads, liveEpoch>>

(* A delete whose answer was lost, or not waited for, may still have been  *)
(* carried out.                                                            *)
DeleteUnanswered ==
  \/ UNCHANGED <<liveNode, feedNode>>
  \/ rpc = "deleteLive" /\ liveNode' = {} /\ UNCHANGED feedNode
  \/ rpc = "deleteFeed" /\ feedNode' = {} /\ UNCHANGED liveNode

(* Fault: the failures of a delete are counted, but not bounded.           *)
DeleteRetryUnbounded ==
  /\ rpc \in {"deleteLive", "deleteFeed"} /\ ~shutdown
  /\ failures' = failures + 1
  /\ DeleteUnanswered
  /\ UNCHANGED <<rpc, ev, prev, active, inReplay, sequence, lastCompactionSeq,
                 lastAggregated, podium, historical, liveSent, shutdown,
                 laneVars, replyVars, liveVars, feedVars, uploads, epochVars,
                 historyVars>>

DeleteRetry ==
  /\ rpc \in {"deleteLive", "deleteFeed"} /\ ~shutdown
  /\ failures < CompactionMaxFailures
  /\ failures' = failures + 1
  /\ DeleteUnanswered
  /\ UNCHANGED <<rpc, ev, prev, active, inReplay, sequence, lastCompactionSeq,
                 lastAggregated, podium, historical, liveSent, shutdown,
                 laneVars, replyVars, liveVars, feedVars, uploads, epochVars,
                 historyVars>>

(* A terminal answer, a failure beyond the budget or a shutdown ends the   *)
(* cleanup, whichever node it was at; the error is only logged.            *)
DeleteGiveUp ==
  /\ rpc \in {"deleteLive", "deleteFeed"}
  /\ \/ UNCHANGED <<liveNode, feedNode>>
     \/ (failures = CompactionMaxFailures \/ shutdown) /\ DeleteUnanswered
  /\ Finish
  /\ UNCHANGED <<shutdown, liveVars, feedVars, uploads, epochVars>>

(***************************************************************************)
(* The session loop around handle_value.  A session can only end while the *)
(* router waits for a message.  Shutdown drops the session wherever it is. *)
(***************************************************************************)
RouterGoes(from, to) ==
  /\ rpc \in from
  /\ rpc' = to
  /\ UNCHANGED <<ev, prev, active, inReplay, sequence, lastCompactionSeq,
                 lastAggregated, podium, historical, liveSent, failures,
                 shutdown, laneVars, replyVars, liveVars, feedVars, cloudVars,
                 epochVars, historyVars>>

Connect == ~shutdown /\ RouterGoes({"offline"}, "idle")

Disconnect == RouterGoes({"idle"}, "offline")

RouterPcs == {"offline", "idle", "flushLive", "flushFeed", "ackLive",
              "ackFeed", "snapSend", "snapWait", "aggregate", "reset",
              "deleteLive", "deleteFeed", "stopped"}

RouterStop == shutdown /\ RouterGoes(RouterPcs \ {"stopped"}, "stopped")

Shutdown ==
  /\ MayShutdown /\ ~shutdown
  /\ shutdown' = TRUE
  /\ UNCHANGED <<routerVars, laneVars, replyVars, liveVars, feedVars,
                 cloudVars, epochVars, historyVars>>

-----------------------------------------------------------------------------
(***************************************************************************)
(* run_live_state_actor.  An event is held while the actor drains the lane *)
(* without waiting ("drain"): a newer event merges the held one into the   *)
(* cache, an empty lane or a flush sends the merged cache.  A flush found  *)
(* while draining is acknowledged after that send.                         *)
(***************************************************************************)
(* Fault: one channel for all acknowledgements instead of a oneshot each.  *)
AnswerAnyone(asked, e) == acks' = acks \cup {asked}

Answer(asked, e) ==
  acks' = IF e.seq = ev.seq THEN acks \cup {asked} ELSE acks

LiveEvent ==
  /\ livePc = "recv" /\ liveQ # <<>> /\ Head(liveQ).kind = "event"
  /\ liveHeld' = Head(liveQ).env
  /\ livePc' = "drain"
  /\ liveQ' = Tail(liveQ)
  /\ UNCHANGED <<routerVars, shutdown, feedQ, replyVars, master, cached,
                 liveFlush, feedVars, cloudVars, epochVars, historyVars>>

LiveCoalesce ==
  /\ livePc = "drain" /\ liveQ # <<>> /\ Head(liveQ).kind = "event"
  /\ MergeHeld
  /\ liveHeld' = Head(liveQ).env
  /\ liveQ' = Tail(liveQ)
  /\ UNCHANGED <<routerVars, shutdown, feedQ, replyVars, livePc, liveFlush,
                 feedVars, cloudVars, epochVars, historyVars>>

(* try_recv finds the lane empty, or a flush: merge and start the PUT.     *)
LiveSend ==
  /\ livePc = "drain"
  /\ \/ /\ liveQ = <<>> /\ rpc # "stopped"
        /\ liveFlush' = 0
        /\ UNCHANGED liveQ
     \/ /\ liveQ # <<>> /\ Head(liveQ).kind = "flush"
        /\ liveFlush' = Head(liveQ).env.seq
        /\ liveQ' = Tail(liveQ)
  /\ MergeHeld
  /\ livePc' = "send"
  /\ UNCHANGED <<routerVars, shutdown, feedQ, replyVars, liveHeld, feedVars,
                 cloudVars, epochVars, historyVars>>

(* The PUT ends: carried out or not, its outcome is only logged.           *)
LiveSent ==
  /\ livePc = "send"
  /\ liveNode' \in {liveNode, master}
  /\ acks' = IF liveFlush = ev.seq /\ liveFlush # 0 THEN acks \cup {"live"}
             ELSE acks
  /\ livePc' = "recv" /\ liveFlush' = 0 /\ liveHeld' = NoEnvelope
  /\ UNCHANGED <<routerVars, shutdown, laneVars, snap, master, cached,
                 feedVars, feedNode, uploads, epochVars, historyVars>>

LiveFlush ==
  /\ livePc = "recv" /\ liveQ # <<>> /\ Head(liveQ).kind = "flush"
  /\ Answer("live", Head(liveQ).env)
  /\ liveQ' = Tail(liveQ)
  /\ UNCHANGED <<routerVars, shutdown, feedQ, snap, liveVars, feedVars,
                 cloudVars, epochVars, historyVars>>

(* Fault: the answer from an empty cache is put off until it has players.  *)
LiveSnapshotWhenFilled ==
  /\ livePc \in {"recv", "drain"} /\ liveQ # <<>>
  /\ Head(liveQ).kind = "snapshot" /\ master # {}
  /\ Answer("snapshot", Head(liveQ).env)
  /\ snap' = IF Head(liveQ).env.seq = ev.seq THEN master ELSE snap
  /\ liveQ' = Tail(liveQ)
  /\ UNCHANGED <<routerVars, shutdown, feedQ, liveVars, feedVars, cloudVars,
                 epochVars, historyVars>>

(* Answered from the cache as it is: an event still held is not in it.     *)
LiveSnapshot ==
  /\ livePc \in {"recv", "drain"} /\ liveQ # <<>>
  /\ Head(liveQ).kind = "snapshot"
  /\ Answer("snapshot", Head(liveQ).env)
  /\ snap' = IF Head(liveQ).env.seq = ev.seq THEN master ELSE snap
  /\ liveQ' = Tail(liveQ)
  /\ UNCHANGED <<routerVars, shutdown, feedQ, liveVars, feedVars, cloudVars,
                 epochVars, historyVars>>

(* Fault: the reset forgets whose cache it is, and keeps the players.      *)
LiveResetKeepsPlayers ==
  /\ livePc \in {"recv", "drain"} /\ liveQ # <<>>
  /\ Head(liveQ).kind = "reset"
  /\ cached' = NoId
  /\ liveQ' = Tail(liveQ)
  /\ UNCHANGED <<routerVars, shutdown, feedQ, replyVars, livePc, liveHeld,
                 master, liveFlush, feedVars, cloudVars, epochVars,
                 historyVars>>

LiveReset ==
  /\ livePc \in {"recv", "drain"} /\ liveQ # <<>>
  /\ Head(liveQ).kind = "reset"
  /\ master' = {}
  /\ liveQ' = Tail(liveQ)
  /\ UNCHANGED <<routerVars, shutdown, feedQ, replyVars, livePc, liveHeld,
                 cached, liveFlush, feedVars, cloudVars, epochVars,
                 historyVars>>

(* Fault: a closed lane is taken for an empty one.                         *)
LiveStopAtRecv ==
  /\ livePc = "recv" /\ shutdown
  /\ livePc' = "stopped" /\ liveHeld' = NoEnvelope
  /\ UNCHANGED <<routerVars, shutdown, laneVars, replyVars, master, cached,
                 liveFlush, feedVars, cloudVars, epochVars, historyVars>>

(* The token is seen while waiting for a message, or the lane is found     *)
(* closed and empty; an event held then is gone.                           *)
LiveStop ==
  /\ \/ livePc = "recv" /\ shutdown
     \/ livePc = "drain" /\ liveQ = <<>> /\ rpc = "stopped"
  /\ livePc' = "stopped" /\ liveHeld' = NoEnvelope
  /\ UNCHANGED <<routerVars, shutdown, laneVars, replyVars, master, cached,
                 liveFlush, feedVars, cloudVars, epochVars, historyVars>>

-----------------------------------------------------------------------------
(***************************************************************************)
(* run_event_feed_actor with send_with_retry_policy: one event at a time,  *)
(* a bounded number of failures, nothing else read from the lane           *)
(* meanwhile.  The token is looked at before every attempt.                *)
(***************************************************************************)
FeedActor(pc, e, n) ==
  /\ feedPc' = pc
  /\ feedHeld' = IF pc \in {"send", "backoff"} THEN e ELSE NoEnvelope
  /\ feedFailures' = IF pc \in {"send", "backoff"} THEN n ELSE 0

Attempt == IF shutdown THEN "recv" ELSE "send"

FeedEvent ==
  /\ feedPc = "recv" /\ feedQ # <<>> /\ Head(feedQ).kind = "event"
  /\ FeedActor(Attempt, Head(feedQ).env, 0)
  /\ feedQ' = Tail(feedQ)
  /\ UNCHANGED <<routerVars, shutdown, liveQ, replyVars, liveVars, cloudVars,
                 epochVars, historyVars>>

(* Fault: the lane is read, and its flush acknowledged, during a backoff.  *)
FeedFlushInBackoff ==
  /\ feedPc \in {"recv", "backoff"}
  /\ feedQ # <<>> /\ Head(feedQ).kind = "flush"
  /\ Answer("feed", Head(feedQ).env)
  /\ feedQ' = Tail(feedQ)
  /\ UNCHANGED <<routerVars, shutdown, liveQ, snap, liveVars, feedVars,
                 cloudVars, epochVars, historyVars>>

FeedFlush ==
  /\ feedPc = "recv" /\ feedQ # <<>> /\ Head(feedQ).kind = "flush"
  /\ Answer("feed", Head(feedQ).env)
  /\ feedQ' = Tail(feedQ)
  /\ UNCHANGED <<routerVars, shutdown, liveQ, snap, liveVars, feedVars,
                 cloudVars, epochVars, historyVars>>

(* The POST was carried out and answered, or refused for good.             *)
FeedDone ==
  /\ feedPc = "send"
  /\ feedNode' \in {feedNode, feedNode \cup {feedHeld}}
  /\ FeedActor("recv", feedHeld, 0)
  /\ UNCHANGED <<routerVars, shutdown, laneVars, replyVars, liveVars,
                 liveNode, uploads, epochVars, historyVars>>

(* A retryable failure; the POST may have been carried out nevertheless.   *)
FeedFail ==
  /\ feedPc = "send"
  /\ feedNode' \in {feedNode, feedNode \cup {feedHeld}}
  /\ FeedActor(IF feedFailures + 1 > FeedMaxFailures
               THEN "recv" ELSE "backoff", feedHeld, feedFailures + 1)
  /\ UNCHANGED <<routerVars, shutdown, laneVars, replyVars, liveVars,
                 liveNode, uploads, epochVars, historyVars>>

FeedRetry ==
  /\ feedPc = "backoff"
  /\ FeedActor(Attempt, feedHeld, feedFailures)
  /\ UNCHANGED <<routerVars, shutdown, laneVars, replyVars, liveVars,
                 cloudVars, epochVars, historyVars>>

FeedStop ==
  /\ feedPc = "recv" /\ shutdown
  /\ FeedActor("stopped", NoEnvelope, 0)
  /\ UNCHANGED <<routerVars, shutdown, laneVars, replyVars, liveVars,
                 cloudVars, epochVars, historyVars>>

-----------------------------------------------------------------------------
(* The router has joined the live and the feed actor.  The historical one, *)
(* which it joins last, is HistoricalLane's (Joined there).                *)
Joined == rpc = "stopped" /\ livePc = "stopped" /\ feedPc = "stopped"

Exited == Joined /\ UNCHANGED vars

RouterStep ==
  FlushLive \/ FlushFeed \/ AwaitAck \/ RequestSnapshot \/ ReceiveSnapshot
  \/ Aggregate \/ SendReset \/ DeleteLive \/ DeleteFeed \/ DeleteRetry
  \/ DeleteGiveUp \/ RouterStop

LiveStep == LiveEvent \/ LiveCoalesce \/ LiveSend \/ LiveSent \/ LiveFlush
            \/ LiveSnapshot \/ LiveReset \/ LiveStop

FeedStep == FeedEvent \/ FeedFlush \/ FeedDone \/ FeedFail \/ FeedRetry
            \/ FeedStop

Next ==
  \/ Connect \/ Disconnect \/ Receive \/ Shutdown
  \/ RouterStep \/ LiveStep \/ FeedStep
  \/ Exited

Spec == Init /\ [][Next]_vars

(***************************************************************************)
(* The runtime polls every task that can run, every timer fires, and every *)
(* HTTP request ends within its client timeout.  Nothing is assumed of the *)
(* game (Receive, Connect, Disconnect) or of the operator (Shutdown).      *)
(***************************************************************************)
Fairness ==
  /\ WF_vars(RouterStep) /\ WF_vars(LiveStep) /\ WF_vars(FeedStep)

FairSpec == Spec /\ Fairness

-----------------------------------------------------------------------------
(* Type invariant, part by part: the router, the lanes and the oneshots,   *)
(* the actors, the database, the histories.                                *)
RouterTypeOK ==
  /\ rpc \in RouterPcs /\ ev \in Envelope /\ prev \in MatchIds
  /\ active \in MatchIds /\ inReplay \in BOOLEAN
  /\ sequence \in Nat /\ lastCompactionSeq \in Nat
  /\ lastAggregated \in MatchIds \cup {NoId}
  /\ podium \in BOOLEAN /\ historical \in BOOLEAN /\ liveSent \in BOOLEAN
  /\ failures \in 0..CompactionMaxFailures /\ shutdown \in BOOLEAN

LaneTypeOK ==
  /\ liveQ \in Seq(Message) /\ feedQ \in Seq(Message)
  /\ acks \in SUBSET {"live", "feed", "snapshot"} /\ snap \in SUBSET Envelope

ActorTypeOK ==
  /\ livePc \in {"recv", "drain", "send", "stopped"}
  /\ liveHeld \in Envelope /\ master \in SUBSET Envelope
  /\ cached \in MatchIds \cup {NoId} /\ liveFlush \in Nat
  /\ feedPc \in {"recv", "send", "backoff", "stopped"}
  /\ feedHeld \in Envelope /\ feedFailures \in 0..FeedMaxFailures

CloudTypeOK ==
  /\ liveNode \in SUBSET Envelope /\ feedNode \in SUBSET Envelope
  /\ uploads \in [MatchIds -> Nat]
  /\ liveEpoch \in Nat /\ feedEpoch \in Nat

HistoryTypeOK ==
  /\ liveSince \in SUBSET Envelope /\ disturbed \in BOOLEAN
  /\ visits \in [MatchIds -> Nat]
  /\ histOffered \in SUBSET Envelope

TypeOK ==
  RouterTypeOK /\ LaneTypeOK /\ ActorTypeOK /\ CloudTypeOK /\ HistoryTypeOK

Elems(q) == {q[i] : i \in DOMAIN q}

(* Events of a transient lane that are queued or in the actor's hands.     *)
FeedPending ==
  {m.env : m \in {x \in Elems(feedQ) : x.kind = "event"}}
  \cup (IF feedPc \in {"send", "backoff"} THEN {feedHeld} ELSE {})

LivePending ==
  {m.env : m \in {x \in Elems(liveQ) : x.kind = "event"}}
  \cup (IF livePc \in {"drain", "send"} THEN {liveHeld} ELSE {})

AfterFlush == {"ackLive", "ackFeed", "snapSend", "snapWait", "aggregate",
               "reset", "deleteLive", "deleteFeed"}

(***************************************************************************)
(* An answered oneshot means a drained lane: while the compaction that     *)
(* asked is still under way, the feed lane is empty once its flush is      *)
(* acknowledged, and the live lane holds no event once its flush is        *)
(* acknowledged or its snapshot taken.  (The deletes may then run.)        *)
(***************************************************************************)
BarrierDrains ==
  rpc \in AfterFlush =>
    /\ "feed" \in acks => FeedPending = {}
    /\ acks \cap {"live", "snapshot"} # {} => LivePending = {}

(***************************************************************************)
(* No data bleed: once a boundary has emptied a transient node behind its  *)
(* barrier, no event routed before that boundary is shown there again, be  *)
(* it late in the lane, retried, or left in the live actor's cache.        *)
(***************************************************************************)
NoDataBleed ==
  /\ \A e \in feedNode : e.seq >= feedEpoch
  /\ \A e \in liveNode : e.seq >= liveEpoch

(***************************************************************************)
(* What is aggregated under a match id is exactly the player telemetry     *)
(* the live lane accepted for that match since the last reset: nothing is  *)
(* missing and nothing is another match's, even when flush acknowledgements*)
(* time out (unless some boundary was aborted or had no snapshot).         *)
(***************************************************************************)
AggregatesTheMatch ==
  rpc = "aggregate" /\ ~disturbed =>
    /\ snap = liveSince
    /\ \A e \in snap : e.match = prev

(***************************************************************************)
(* A match is aggregated at most once each time it is the active match,    *)
(* although MatchEnded, MatchDestroyed and the transition each close it.   *)
(***************************************************************************)
AggregatedOncePerVisit == \A m \in MatchIds : uploads[m] <= visits[m]

(***************************************************************************)
(* The reset that follows a snapshot never waits for room (it has no       *)
(* timeout), and the live actor is never asked for a snapshot or a reset   *)
(* while it holds an event it has not merged.                              *)
(***************************************************************************)
ResetNeverBlocks == rpc = "reset" => HasRoom(liveQ, LiveCap)

NoQueryWhileDraining ==
  livePc = "drain" /\ liveQ # <<>>
    => Head(liveQ).kind \notin {"snapshot", "reset"}

(* A compaction always ends: the router gets back to its session.          *)
CompactionEnds ==
  (rpc \notin {"offline", "idle", "stopped"}) ~>
    (rpc \in {"offline", "idle", "stopped"})

(* A shutdown always ends in the router having joined the two actors of    *)
(* the transient lanes, whatever they were at.  (The join of the           *)
(* historical actor is JoinsHistorical of HistoricalLane.)                 *)
ShutdownJoins == shutdown ~> Joined

(***************************************************************************)
(* Both transient nodes keep the promise of TransientNode.                 *)
(***************************************************************************)
FeedView == INSTANCE TransientNode
              WITH node <- {e.seq : e \in feedNode}, epoch <- feedEpoch
LiveView == INSTANCE TransientNode
              WITH node <- {e.seq : e \in liveNode}, epoch <- liveEpoch

FeedImplementsNode == FeedView!NodeSpec
LiveImplementsNode == LiveView!NodeSpec

-----------------------------------------------------------------------------
(* What a document says of this code.                                      *)

(* ADR 0021: MatchDestroyed "now routes there as well" (to the historical  *)
(* lane, while its latch is up), "ensuring it is preserved".               *)
MatchDestroyedPreserved ==
  [][ev.type = "MatchDestroyed" /\ historical /\ rpc' = "idle"
       => ev \in histOffered']_vars
=============================================================================
