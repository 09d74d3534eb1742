------------------------- MODULE PipelineInvariant -------------------------
(***************************************************************************)
(* Why the compaction barrier of Pipeline works: the inductive invariant   *)
(* behind BarrierDrains, NoDataBleed, ResetNeverBlocks and                 *)
(* NoQueryWhileDraining.  Everything follows from the lanes being FIFO and *)
(* from the router routing nothing while a compaction is under way.        *)
(* On top of it, where accepted telemetry is until a reset (behind         *)
(* AggregatesTheMatch), the visits of a match, and why the router never    *)
(* waits for an answer that cannot come.                                   *)
(***************************************************************************)
EXTENDS Pipeline

Compacting == {"flushLive", "flushFeed"} \cup AfterFlush

(* Sequence numbers: nothing in the system is newer than the router's      *)
(* counter, a compaction is about the newest event, and its boundary is    *)
(* newer than the epochs it may close.                                     *)
Numbering ==
  /\ \A m \in Elems(liveQ) \cup Elems(feedQ) : m.env.seq <= sequence
  /\ liveFlush <= sequence /\ liveEpoch <= sequence /\ feedEpoch <= sequence
  /\ rpc \in Compacting => /\ ev.seq = sequence /\ sequence > 0
                           /\ feedEpoch < sequence
  /\ rpc \in Compacting \ {"deleteFeed"} => liveEpoch < sequence

-----------------------------------------------------------------------------
(* The feed lane. *)

(* Before its flush is sent, nothing in the lane carries this number.      *)
FeedUnasked ==
  rpc \in {"flushLive", "flushFeed"} =>
    /\ "feed" \notin acks
    /\ \A m \in Elems(feedQ) : m.env.seq < sequence

(* From then on the flush is the last message; answered, the lane is bare. *)
FeedBarrier ==
  rpc \in AfterFlush =>
    /\ \A i \in 1..Len(feedQ) :
         feedQ[i].kind = "flush" /\ feedQ[i].env.seq = sequence
           => i = Len(feedQ)
    /\ "feed" \in acks => feedQ = <<>> /\ feedPc \in {"recv", "stopped"}

(* Nothing older than the epoch is shown, in hand or under way.            *)
FeedFresh ==
  /\ \A e \in feedNode : e.seq >= feedEpoch
  /\ feedPc \in {"send", "backoff"} => feedHeld.seq >= feedEpoch
  /\ \A m \in Elems(feedQ) : m.kind = "event" => m.env.seq >= feedEpoch

-----------------------------------------------------------------------------
(* The live lane. *)

NoLiveEvent == \A m \in Elems(liveQ) : m.kind # "event"

LiveAtRest == livePc \in {"recv", "stopped"}

(* The flush of this compaction is in the live lane, or was.               *)
FlushSent == rpc \in AfterFlush \/ (rpc = "flushFeed" /\ liveSent)

LiveUnasked ==
  rpc = "flushLive" =>
    /\ "live" \notin acks /\ liveFlush < sequence
    /\ \A m \in Elems(liveQ) : m.env.seq < sequence

(* No event follows the flush; answered, no event is left.                 *)
LiveBarrier ==
  FlushSent =>
    /\ \A i, j \in 1..Len(liveQ) :
         i < j /\ liveQ[i].kind = "flush" /\ liveQ[i].env.seq = sequence
           => liveQ[j].kind # "event"
    /\ livePc = "send" /\ liveFlush = sequence => NoLiveEvent
    /\ "live" \in acks => NoLiveEvent /\ LiveAtRest

(* Whoever asks next finds the lane ending in something else than an event,*)
(* and the actor not draining an empty lane ...                            *)
LiveQuiet ==
  FlushSent =>
    /\ liveQ = <<>> => livePc # "drain"
    /\ liveQ # <<>> => liveQ[Len(liveQ)].kind # "event"

(* ... so that a query never directly follows an event.                    *)
QueriesApart ==
  \A i \in 1..Len(liveQ) :
    i > 1 /\ liveQ[i].kind \in {"snapshot", "reset"}
      => liveQ[i-1].kind # "event"

Unasked == {"flushLive", "flushFeed", "ackLive", "ackFeed", "snapSend"}

(* The snapshot of this compaction: not asked for yet ...                  *)
SnapshotUnasked ==
  /\ rpc \in Unasked => "snapshot" \notin acks
  /\ rpc \in Unasked \/ (rpc = "deleteLive" /\ ~shutdown)
       => \A m \in Elems(liveQ) : m.kind = "snapshot" => m.env.seq < sequence

(* ... asked for, and the last message of the lane ...                     *)
SnapshotLast ==
  rpc \in AfterFlush =>
    \A i \in 1..Len(liveQ) :
      liveQ[i].kind = "snapshot" /\ liveQ[i].env.seq = sequence
        => i = Len(liveQ)

(* ... and taken: the lane holds at most the reset that follows it.        *)
SnapshotTaken ==
  /\ rpc \in {"aggregate", "reset"} => "snapshot" \in acks
  /\ "snapshot" \in acks /\ rpc \in {"snapWait", "aggregate", "reset"}
       => liveQ = <<>> /\ LiveAtRest
  /\ "snapshot" \in acks /\ rpc \in {"deleteLive", "deleteFeed"}
       => /\ liveQ = <<>> \/ (Len(liveQ) = 1 /\ liveQ[1].kind = "reset")
          /\ LiveAtRest
  /\ "snapshot" \in acks /\ rpc = "deleteLive" /\ ~shutdown /\ liveQ = <<>>
       => master = {}

LiveFresh ==
  /\ \A e \in liveNode : e.seq >= liveEpoch
  /\ livePc \in {"drain", "send"} => liveHeld.seq >= liveEpoch
  /\ \A m \in Elems(liveQ) : m.kind = "event" => m.env.seq >= liveEpoch

(* The cache may be older than the epoch only while the reset that clears  *)
(* it is the next message the actor sees.                                  *)
CacheFresh ==
  \/ \A e \in master : e.seq >= liveEpoch
  \/ LiveAtRest /\ liveQ # <<>> /\ Head(liveQ).kind = "reset"

-----------------------------------------------------------------------------
FeedInv == FeedUnasked /\ FeedBarrier /\ FeedFresh

LiveInv ==
  /\ LiveUnasked /\ LiveBarrier /\ LiveQuiet /\ QueriesApart
  /\ NoQueryWhileDraining
  /\ SnapshotUnasked /\ SnapshotLast /\ SnapshotTaken
  /\ LiveFresh /\ CacheFresh

(* The barrier invariant: inductive together with TypeOK.                  *)
BarrierInv == Numbering /\ FeedInv /\ LiveInv

-----------------------------------------------------------------------------
(***************************************************************************)
(* Behind AggregatedOncePerVisit: the match a compaction is about is       *)
(* uploaded only while it has a visit left, and a match that just became   *)
(* the active one always has one left.                                     *)
(***************************************************************************)
VisitInv ==
  /\ \A m \in MatchIds : uploads[m] <= visits[m]
  /\ \A m \in {prev, active} :
       m # lastAggregated => uploads[m] < visits[m]
  /\ prev # active => uploads[active] < visits[active]
  /\ rpc \in {"offline", "idle"} => prev = active
  /\ rpc = "aggregate" => lastAggregated # prev

-----------------------------------------------------------------------------
(***************************************************************************)
(* Behind AggregatesTheMatch: the player telemetry the lane accepted since *)
(* the last reset is in the cache, in the actor's hands or still queued,   *)
(* and as long as no boundary was aborted all of it is of the match that a *)
(* compaction now would be about, so that no merge throws any of it away.  *)
(***************************************************************************)
(* A reset finds the lane empty and the actor at rest.                     *)
ResetFirst ==
  \A i \in 1..Len(liveQ) : liveQ[i].kind = "reset" => i = 1 /\ LiveAtRest

(* What the cache is worth: nothing while the reset is on its way.         *)
Cache == IF liveQ # <<>> /\ Head(liveQ).kind = "reset" THEN {} ELSE master

Merging == IF livePc = "drain" THEN Players(liveHeld) ELSE {}

Queued(q) ==
  UNION {Players(m.env) : m \in {x \in Elems(q) : x.kind = "event"}}

NothingDropped == liveSince = Cache \cup Merging \cup Queued(liveQ)

OneMatch ==
  /\ \A m \in Elems(liveQ) : m.kind = "event" => m.env.match = prev
  /\ livePc = "drain" => liveHeld.match = prev
  /\ \A e \in Cache : e.match = prev
  /\ Cache # {} => cached = prev

(* The compaction: of the active match when it starts, and cleared when it *)
(* deletes.                                                                *)
Boundary ==
  /\ rpc \in {"offline", "idle"} => prev = active
  /\ rpc \notin {"offline", "idle"} => ev.match = active
  /\ rpc \in {"snapWait", "aggregate", "reset"} /\ "snapshot" \in acks
       => snap = master
  /\ rpc \in {"deleteLive", "deleteFeed"} => "snapshot" \in acks /\ Cache = {}

TelemetryInv ==
  /\ ResetFirst
  /\ ~disturbed /\ rpc # "stopped" => NothingDropped /\ OneMatch /\ Boundary

-----------------------------------------------------------------------------
(***************************************************************************)
(* Nobody waits in vain: whatever the compaction under way has asked of an *)
(* actor is in the actor's lane, in its hands, or answered, and an actor   *)
(* is gone only once the token has fired.  The wait for the snapshot has   *)
(* no timeout, so this is what its end depends on.                         *)
(***************************************************************************)
Asked(q, kind) == \E m \in Elems(q) : m.kind = kind /\ m.env.seq = sequence

LiveFlushDue ==
  FlushSent => \/ Asked(liveQ, "flush") \/ "live" \in acks
               \/ livePc = "send" /\ liveFlush = sequence

FeedFlushDue == rpc \in AfterFlush => Asked(feedQ, "flush") \/ "feed" \in acks

SnapshotDue == rpc = "snapWait" => Asked(liveQ, "snapshot") \/ "snapshot" \in acks

StopsAtShutdown == "stopped" \in {rpc, livePc, feedPc} => shutdown

AnswerDue == LiveFlushDue /\ FeedFlushDue /\ SnapshotDue /\ StopsAtShutdown

(* The router in its wait without a timeout: it can go on, or the live     *)
(* actor can, which has the question before it.                            *)
NobodyWaitsInVain ==
  rpc = "snapWait" /\ "snapshot" \notin acks /\ ~shutdown
    => Asked(liveQ, "snapshot") /\ livePc # "stopped"
=============================================================================
