-------------------------- MODULE Pipeline_proofs --------------------------
(***************************************************************************)
(* Proofs about Pipeline, for every number of matches, every capacity and  *)
(* retry budget, and any number of events, in three parts.                 *)
(*                                                                         *)
(* Types.                                                                  *)
(*                                                                         *)
(* The barrier: no transient node ever shows an event from before the      *)
(* boundary that last emptied it cleanly.                                  *)
(*                                                                         *)
(* The upload: between two resets the live lane drops no player telemetry  *)
(* that it accepted, and all of it is of one match; and it is aggregated   *)
(* once per visit of the match: the guard on lastAggregated and the        *)
(* historical latch do not suffice alone, what counts is that only a new   *)
(* visit can bring a match back.                                           *)
(***************************************************************************)
EXTENDS PipelineInvariant, SequenceTheorems, TLAPS

USE DEF routerVars, laneVars, replyVars, liveVars, feedVars, cloudVars,
        epochVars, historyVars

-----------------------------------------------------------------------------
(* What the type proof needs of the queue operators.                       *)
LEMMA OfferType ==
  ASSUME NEW q \in Seq(Message), NEW cap, NEW m \in Message
  PROVE  Offer(q, cap, m) \in Seq(Message)
BY DEF Offer

LEMMA MsgType ==
  ASSUME NEW k \in {"event", "flush", "snapshot", "reset"}, NEW e \in Envelope
  PROVE  Msg(k, e) \in Message
BY DEF Msg, Message

LEMMA HeadTailType ==
  ASSUME NEW q \in Seq(Message), q # <<>>
  PROVE  /\ Head(q) \in Message /\ Tail(q) \in Seq(Message)
         /\ Head(q).env \in Envelope
<1>1. Head(q) \in Message /\ Tail(q) \in Seq(Message)
  BY HeadTailProperties
<1> QED
  BY <1>1 DEF Message

LEMMA NoEnvelopeType == NoEnvelope \in Envelope
BY PipelineAssumption
   DEF NoEnvelope, Envelope, MatchIds, RocketLeagueEvent, LiveStateEvents

LEMMA PlayersType ==
  ASSUME NEW e \in Envelope
  PROVE  Players(e) \in SUBSET Envelope
BY DEF Players

(* Routing keeps the lanes and the histories well typed.                   *)
LEMMA RouteType ==
  ASSUME TypeOK, NEW e \in Envelope, NEW pod, NEW hist, NEW replay,
         Route(e, pod, hist, replay)
  PROVE  /\ liveQ' \in Seq(Message) /\ feedQ' \in Seq(Message)
         /\ histOffered' \in SUBSET Envelope
         /\ liveSince' \in SUBSET Envelope
BY OfferType, MsgType, PlayersType DEF Route, TypeOK, LaneTypeOK, HistoryTypeOK

LEMMA InitType == Init => TypeOK
<1> SUFFICES ASSUME Init PROVE TypeOK
  OBVIOUS
<1>1. RouterTypeOK
  <2>1. failures \in 0..CompactionMaxFailures
    BY PipelineAssumption DEF Init
  <2> QED
    BY <2>1, NoEnvelopeType DEF Init, RouterTypeOK, RouterPcs, MatchIds
<1>2. LaneTypeOK
  BY DEF Init, LaneTypeOK
<1>3. ActorTypeOK
  BY NoEnvelopeType, PipelineAssumption DEF Init, ActorTypeOK
<1>4. CloudTypeOK
  BY DEF Init, CloudTypeOK
<1>5. HistoryTypeOK
  BY DEF Init, HistoryTypeOK
<1> QED
  BY <1>1, <1>2, <1>3, <1>4, <1>5 DEF TypeOK

LEMMA TakeInType ==
  ASSUME TypeOK, NEW t \in Emitted, NEW id \in Matches \cup {NoId},
         NEW replay \in BOOLEAN, TakeIn(t, id, replay)
  PROVE  /\ sequence' \in Nat /\ inReplay' \in BOOLEAN /\ podium' \in BOOLEAN
         /\ historical' \in BOOLEAN /\ active' \in MatchIds
         /\ visits' \in [MatchIds -> Nat]
         /\ EventOf(t, id) \in Envelope
<1> USE DEF TypeOK, RouterTypeOK, HistoryTypeOK
<1>1. CurrentMatch(id) \in MatchIds
  BY DEF CurrentMatch, MatchIds
<1>2. sequence' \in Nat /\ active' \in MatchIds
  BY <1>1 DEF TakeIn
<1>3. inReplay' \in BOOLEAN /\ podium' \in BOOLEAN /\ historical' \in BOOLEAN
  BY Zenon DEF TakeIn
<1>4. visits' \in [MatchIds -> Nat]
  <2>1. [visits EXCEPT ![active'] = @ + 1] \in [MatchIds -> Nat]
    BY <1>2
  <2> QED
    BY <2>1 DEF TakeIn
<1>5. EventOf(t, id) \in Envelope
  BY <1>1, PipelineAssumption DEF EventOf, Envelope
<1> QED
  BY <1>2, <1>3, <1>4, <1>5

LEMMA AppendType ==
  ASSUME NEW q \in Seq(Message), NEW e \in Envelope,
         NEW k \in {"event", "flush", "snapshot", "reset"}
  PROVE  Append(q, Msg(k, e)) \in Seq(Message)
BY MsgType

LEMMA MergeHeldType ==
  ASSUME TypeOK, MergeHeld
  PROVE  master' \in SUBSET Envelope /\ cached' \in MatchIds \cup {NoId}
<1> USE DEF TypeOK, ActorTypeOK
<1>1. Players(liveHeld) \in SUBSET Envelope
  BY PlayersType
<1>2. liveHeld.match \in MatchIds
  BY DEF Envelope
<1> QED
  BY <1>1, <1>2 DEF MergeHeld

(* The end of a compaction keeps the router and the lanes well typed.      *)
LEMMA FinishType ==
  ASSUME TypeOK, Finish, UNCHANGED shutdown
  PROVE  RouterTypeOK' /\ LaneTypeOK' /\ HistoryTypeOK'
<1> USE DEF TypeOK, RouterTypeOK, LaneTypeOK, HistoryTypeOK
<1>1. /\ liveQ' \in Seq(Message) /\ feedQ' \in Seq(Message)
      /\ histOffered' \in SUBSET Envelope /\ liveSince' \in SUBSET Envelope
  BY RouteType DEF Finish
<1>2. podium' \in BOOLEAN /\ historical' \in BOOLEAN
  BY Zenon DEF Finish
<1>3. failures' \in 0..CompactionMaxFailures
  BY PipelineAssumption DEF Finish
<1>4. RouterTypeOK'
  BY <1>2, <1>3, NoEnvelopeType DEF Finish, RouterPcs
<1>5. LaneTypeOK' /\ HistoryTypeOK'
  BY <1>1 DEF Finish
<1> QED
  BY <1>4, <1>5

LEMMA ReceiveType == TypeOK /\ Receive => TypeOK'
<1> SUFFICES ASSUME TypeOK,
                    NEW t \in Emitted, NEW id \in Matches \cup {NoId},
                    NEW replay \in ReplayFlags,
                    HandleEvent(t, id, replay) \/ BeginCompaction(t, id, replay)
             PROVE  TypeOK'
  BY DEF Receive
<1>1. TakeIn(t, id, replay) /\ replay \in BOOLEAN
  BY PipelineAssumption DEF HandleEvent, BeginCompaction
<1>2. /\ sequence' \in Nat /\ inReplay' \in BOOLEAN /\ podium' \in BOOLEAN
      /\ historical' \in BOOLEAN /\ active' \in MatchIds
      /\ visits' \in [MatchIds -> Nat]
      /\ EventOf(t, id) \in Envelope
  BY <1>1, TakeInType
<1> USE DEF TypeOK, RouterTypeOK, LaneTypeOK, ActorTypeOK, CloudTypeOK,
            HistoryTypeOK
<1>3. CASE HandleEvent(t, id, replay)
  <2>1. /\ liveQ' \in Seq(Message) /\ feedQ' \in Seq(Message)
        /\ histOffered' \in SUBSET Envelope /\ liveSince' \in SUBSET Envelope
    BY <1>2, <1>3, RouteType DEF HandleEvent
  <2>2. UNCHANGED <<rpc, ev, prev, lastCompactionSeq, lastAggregated, liveSent,
                   failures, shutdown>>
    BY <1>3 DEF HandleEvent
  <2>3. RouterTypeOK'
    BY <1>2, <2>2
  <2>4. LaneTypeOK'
    BY <1>3, <2>1 DEF HandleEvent, replyVars
  <2>5. ActorTypeOK' /\ CloudTypeOK'
    BY <1>3 DEF HandleEvent, liveVars, feedVars, cloudVars, epochVars
  <2>6. HistoryTypeOK'
    BY <1>2, <1>3, <2>1 DEF HandleEvent
  <2> QED
    BY <2>3, <2>4, <2>5, <2>6
<1>4. CASE BeginCompaction(t, id, replay)
  <2>1. /\ rpc' = "flushLive" /\ ev' = EventOf(t, id) /\ prev' = active
        /\ UNCHANGED <<lastCompactionSeq, lastAggregated, liveSent, failures, shutdown>>
    BY <1>4 DEF BeginCompaction
  <2>2. "flushLive" \in RouterPcs
    BY DEF RouterPcs
  <2>3. RouterTypeOK'
    BY <1>2, <2>1, <2>2
  <2>4. LaneTypeOK'
    BY <1>4 DEF BeginCompaction, laneVars
  <2>5. ActorTypeOK' /\ CloudTypeOK'
    BY <1>4 DEF BeginCompaction, liveVars, feedVars, cloudVars, epochVars
  <2>6. HistoryTypeOK'
    BY <1>2, <1>4 DEF BeginCompaction
  <2> QED
    BY <2>3, <2>4, <2>5, <2>6
<1> QED
  BY <1>3, <1>4

(* What a step leaves alone keeps its type.                                *)
LEMMA RouterKept ==
  TypeOK /\ UNCHANGED <<routerVars, shutdown>> => RouterTypeOK'
BY DEF TypeOK, RouterTypeOK

LEMMA LaneKept == TypeOK /\ UNCHANGED <<laneVars, replyVars>> => LaneTypeOK'
BY DEF TypeOK, LaneTypeOK

LEMMA ActorKept == TypeOK /\ UNCHANGED <<liveVars, feedVars>> => ActorTypeOK'
BY DEF TypeOK, ActorTypeOK

LEMMA CloudKept == TypeOK /\ UNCHANGED <<cloudVars, epochVars>> => CloudTypeOK'
BY DEF TypeOK, CloudTypeOK

LEMMA HistoryKept == TypeOK /\ UNCHANGED historyVars => HistoryTypeOK'
BY DEF TypeOK, HistoryTypeOK

LEMMA RouterType == TypeOK /\ RouterStep => TypeOK'
<1> SUFFICES ASSUME TypeOK, RouterStep PROVE TypeOK'
  OBVIOUS
<1>1. CASE FlushLive
  <2>1. RouterTypeOK'
    BY <1>1 DEF FlushLive, TypeOK, RouterTypeOK, RouterPcs
  <2>2. LaneTypeOK'
    BY <1>1, AppendType DEF FlushLive, TypeOK, RouterTypeOK, LaneTypeOK
  <2> QED
    BY <1>1, <2>1, <2>2, ActorKept, CloudKept, HistoryKept
       DEF FlushLive, TypeOK
<1>2. CASE FlushFeed
  <2>1. /\ rpc' \in RouterPcs /\ ev' \in Envelope /\ prev' \in MatchIds
        /\ liveSent' \in BOOLEAN /\ disturbed' \in BOOLEAN
    BY <1>2, NoEnvelopeType
       DEF FlushFeed, Abort, TypeOK, RouterTypeOK, HistoryTypeOK, RouterPcs
  <2>2. RouterTypeOK'
    BY <1>2, <2>1 DEF FlushFeed, TypeOK, RouterTypeOK
  <2>3. HistoryTypeOK'
    BY <1>2, <2>1 DEF FlushFeed, TypeOK, HistoryTypeOK
  <2>4. LaneTypeOK'
    BY <1>2, AppendType DEF FlushFeed, TypeOK, RouterTypeOK, LaneTypeOK
  <2> QED
    BY <1>2, <2>2, <2>3, <2>4, ActorKept, CloudKept DEF FlushFeed, TypeOK
<1>3. CASE AwaitAck
  <2>1. RouterTypeOK'
    BY <1>3 DEF AwaitAck, TypeOK, RouterTypeOK, RouterPcs
  <2> QED
    BY <1>3, <2>1, LaneKept, ActorKept, CloudKept, HistoryKept
       DEF AwaitAck, TypeOK
<1>4. CASE RequestSnapshot
  <2>1. rpc' \in RouterPcs /\ disturbed' \in BOOLEAN
    BY <1>4 DEF RequestSnapshot, TypeOK, HistoryTypeOK, RouterPcs
  <2>2. RouterTypeOK'
    BY <1>4, <2>1, PipelineAssumption DEF RequestSnapshot, TypeOK, RouterTypeOK
  <2>3. HistoryTypeOK'
    BY <1>4, <2>1 DEF RequestSnapshot, TypeOK, HistoryTypeOK
  <2>4. LaneTypeOK'
    BY <1>4, AppendType DEF RequestSnapshot, TypeOK, RouterTypeOK, LaneTypeOK
  <2> QED
    BY <1>4, <2>2, <2>3, <2>4, ActorKept, CloudKept DEF RequestSnapshot, TypeOK
<1>5. CASE ReceiveSnapshot
  <2>1. rpc' \in RouterPcs /\ disturbed' \in BOOLEAN
    BY <1>5 DEF ReceiveSnapshot, TypeOK, HistoryTypeOK, RouterPcs
  <2>2. RouterTypeOK'
    BY <1>5, <2>1 DEF ReceiveSnapshot, TypeOK, RouterTypeOK
  <2>3. HistoryTypeOK'
    BY <1>5, <2>1 DEF ReceiveSnapshot, TypeOK, HistoryTypeOK
  <2> QED
    BY <1>5, <2>2, <2>3, LaneKept, ActorKept, CloudKept
       DEF ReceiveSnapshot, TypeOK
<1>6. CASE Aggregate
  <2>1. RouterTypeOK'
    BY <1>6 DEF Aggregate, TypeOK, RouterTypeOK, RouterPcs
  <2>2. CloudTypeOK'
    BY <1>6 DEF Aggregate, TypeOK, RouterTypeOK, CloudTypeOK
  <2> QED
    BY <1>6, <2>1, <2>2, LaneKept, ActorKept, HistoryKept DEF Aggregate, TypeOK
<1>7. CASE SendReset
  <2>1. RouterTypeOK'
    BY <1>7 DEF SendReset, TypeOK, RouterTypeOK, RouterPcs
  <2>2. LaneTypeOK'
    BY <1>7, AppendType DEF SendReset, TypeOK, RouterTypeOK, LaneTypeOK
  <2>3. HistoryTypeOK'
    BY <1>7 DEF SendReset, TypeOK, HistoryTypeOK
  <2> QED
    BY <1>7, <2>1, <2>2, <2>3, ActorKept, CloudKept DEF SendReset, TypeOK
<1>8. CASE DeleteLive
  <2>1. RouterTypeOK'
    BY <1>8, PipelineAssumption DEF DeleteLive, TypeOK, RouterTypeOK, RouterPcs
  <2>2. CloudTypeOK'
    BY <1>8 DEF DeleteLive, TypeOK, RouterTypeOK, CloudTypeOK
  <2> QED
    BY <1>8, <2>1, <2>2, LaneKept, ActorKept, HistoryKept
       DEF DeleteLive, TypeOK
<1>9. CASE DeleteFeed
  <2>1. RouterTypeOK' /\ LaneTypeOK' /\ HistoryTypeOK'
    BY <1>9, FinishType DEF DeleteFeed
  <2>2. CloudTypeOK'
    BY <1>9 DEF DeleteFeed, TypeOK, RouterTypeOK, CloudTypeOK
  <2> QED
    BY <1>9, <2>1, <2>2, ActorKept DEF DeleteFeed, TypeOK
<1>10. CASE DeleteRetry
  <2>1. RouterTypeOK'
    BY <1>10, PipelineAssumption DEF DeleteRetry, TypeOK, RouterTypeOK
  <2>2. CloudTypeOK'
    BY <1>10 DEF DeleteRetry, DeleteUnanswered, TypeOK, CloudTypeOK
  <2> QED
    BY <1>10, <2>1, <2>2, LaneKept, ActorKept, HistoryKept
       DEF DeleteRetry, TypeOK
<1>11. CASE DeleteGiveUp
  <2>1. RouterTypeOK' /\ LaneTypeOK' /\ HistoryTypeOK'
    BY <1>11, FinishType DEF DeleteGiveUp
  <2>2. CloudTypeOK'
    BY <1>11 DEF DeleteGiveUp, DeleteUnanswered, TypeOK, CloudTypeOK
  <2> QED
    BY <1>11, <2>1, <2>2, ActorKept DEF DeleteGiveUp, TypeOK
<1>12. CASE RouterStop
  <2>1. RouterTypeOK'
    BY <1>12 DEF RouterStop, RouterGoes, TypeOK, RouterTypeOK, RouterPcs
  <2> QED
    BY <1>12, <2>1, LaneKept, ActorKept, CloudKept, HistoryKept
       DEF RouterStop, RouterGoes, TypeOK
<1> QED
  BY <1>1, <1>2, <1>3, <1>4, <1>5, <1>6, <1>7, <1>8, <1>9, <1>10, <1>11,
     <1>12 DEF RouterStep

(* An actor that takes the first message off its lane.                     *)
LEMMA TakenType ==
  TypeOK => /\ liveQ # <<>> => /\ Tail(liveQ) \in Seq(Message)
                               /\ Head(liveQ).env \in Envelope
            /\ feedQ # <<>> => /\ Tail(feedQ) \in Seq(Message)
                               /\ Head(feedQ).env \in Envelope
BY HeadTailType DEF TypeOK, LaneTypeOK

LEMMA LiveType == TypeOK /\ LiveStep => TypeOK'
<1> SUFFICES ASSUME TypeOK, LiveStep PROVE TypeOK'
  OBVIOUS
<1> USE TakenType
<1>1. CASE LiveEvent
  <2>1. LaneTypeOK'
    BY <1>1 DEF LiveEvent, TypeOK, LaneTypeOK
  <2>2. ActorTypeOK'
    BY <1>1 DEF LiveEvent, TypeOK, ActorTypeOK
  <2> QED
    BY <1>1, <2>1, <2>2, RouterKept, CloudKept, HistoryKept
       DEF LiveEvent, TypeOK
<1>2. CASE LiveCoalesce
  <2>1. LaneTypeOK'
    BY <1>2 DEF LiveCoalesce, TypeOK, LaneTypeOK
  <2>2. ActorTypeOK'
    BY <1>2, MergeHeldType DEF LiveCoalesce, TypeOK, ActorTypeOK
  <2> QED
    BY <1>2, <2>1, <2>2, RouterKept, CloudKept, HistoryKept
       DEF LiveCoalesce, TypeOK
<1>3. CASE LiveSend
  <2>1. master' \in SUBSET Envelope /\ cached' \in MatchIds \cup {NoId}
    BY <1>3, MergeHeldType DEF LiveSend
  <2>2. \/ liveFlush' = 0 /\ liveQ' = liveQ
        \/ /\ liveQ # <<>>
           /\ liveFlush' = Head(liveQ).env.seq /\ liveQ' = Tail(liveQ)
    BY <1>3, Zenon DEF LiveSend
  <2>3. liveFlush' \in Nat
    BY <2>2 DEF Envelope
  <2>4. liveQ' \in Seq(Message)
    BY <2>2 DEF TypeOK, LaneTypeOK
  <2>5. LaneTypeOK'
    BY <1>3, <2>4 DEF LiveSend, TypeOK, LaneTypeOK
  <2>6. livePc' = "send"
    BY <1>3 DEF LiveSend
  <2>7. ActorTypeOK'
    BY <1>3, <2>1, <2>3, <2>6 DEF LiveSend, TypeOK, ActorTypeOK
  <2> QED
    BY <1>3, <2>5, <2>7, RouterKept, CloudKept, HistoryKept
       DEF LiveSend, TypeOK
<1>4. CASE LiveSent
  <2>1. LaneTypeOK'
    BY <1>4 DEF LiveSent, TypeOK, LaneTypeOK
  <2>2. ActorTypeOK'
    BY <1>4, NoEnvelopeType DEF LiveSent, TypeOK, ActorTypeOK
  <2>3. CloudTypeOK'
    BY <1>4 DEF LiveSent, TypeOK, ActorTypeOK, CloudTypeOK
  <2> QED
    BY <1>4, <2>1, <2>2, <2>3, RouterKept, HistoryKept DEF LiveSent, TypeOK
<1>5. CASE LiveFlush
  <2>1. LaneTypeOK'
    BY <1>5 DEF LiveFlush, Answer, TypeOK, LaneTypeOK
  <2> QED
    BY <1>5, <2>1, RouterKept, ActorKept, CloudKept, HistoryKept
       DEF LiveFlush, TypeOK
<1>6. CASE LiveSnapshot
  <2>1. LaneTypeOK'
    BY <1>6 DEF LiveSnapshot, Answer, TypeOK, LaneTypeOK, ActorTypeOK
  <2> QED
    BY <1>6, <2>1, RouterKept, ActorKept, CloudKept, HistoryKept
       DEF LiveSnapshot, TypeOK
<1>7. CASE LiveReset
  <2>1. LaneTypeOK'
    BY <1>7 DEF LiveReset, TypeOK, LaneTypeOK
  <2>2. ActorTypeOK'
    BY <1>7 DEF LiveReset, TypeOK, ActorTypeOK
  <2> QED
    BY <1>7, <2>1, <2>2, RouterKept, CloudKept, HistoryKept
       DEF LiveReset, TypeOK
<1>8. CASE LiveStop
  <2>1. ActorTypeOK'
    BY <1>8, NoEnvelopeType DEF LiveStop, TypeOK, ActorTypeOK
  <2> QED
    BY <1>8, <2>1, RouterKept, LaneKept, CloudKept, HistoryKept
       DEF LiveStop, TypeOK
<1> QED
  BY <1>1, <1>2, <1>3, <1>4, <1>5, <1>6, <1>7, <1>8 DEF LiveStep

(* The feed actor's own variables, in every way it moves on.               *)
LEMMA FeedActorType ==
  ASSUME TypeOK, NEW pc \in {"recv", "send", "backoff", "stopped"},
         NEW e \in Envelope, NEW n \in Nat,
         pc \in {"send", "backoff"} => n <= FeedMaxFailures,
         FeedActor(pc, e, n), UNCHANGED liveVars
  PROVE  ActorTypeOK'
<1>1. feedHeld' \in Envelope
  BY NoEnvelopeType DEF FeedActor
<1>2. feedFailures' \in 0..FeedMaxFailures
  BY PipelineAssumption DEF FeedActor
<1> QED
  BY <1>1, <1>2 DEF FeedActor, TypeOK, ActorTypeOK

LEMMA FeedType == TypeOK /\ FeedStep => TypeOK'
<1> SUFFICES ASSUME TypeOK, FeedStep PROVE TypeOK'
  OBVIOUS
<1> USE TakenType
<1>0. /\ feedHeld \in Envelope /\ feedNode \in SUBSET Envelope
      /\ feedFailures \in Nat /\ feedFailures <= FeedMaxFailures
      /\ Attempt \in {"recv", "send"} /\ FeedMaxFailures \in Nat
  BY PipelineAssumption DEF TypeOK, ActorTypeOK, CloudTypeOK, Attempt
<1>1. CASE FeedEvent
  <2>1. ActorTypeOK'
    BY <1>0, <1>1, FeedActorType DEF FeedEvent
  <2>2. LaneTypeOK'
    BY <1>1 DEF FeedEvent, TypeOK, LaneTypeOK
  <2> QED
    BY <1>1, <2>1, <2>2, RouterKept, CloudKept, HistoryKept
       DEF FeedEvent, TypeOK
<1>2. CASE FeedFlush
  <2>1. LaneTypeOK'
    BY <1>2 DEF FeedFlush, Answer, TypeOK, LaneTypeOK
  <2> QED
    BY <1>2, <2>1, RouterKept, ActorKept, CloudKept, HistoryKept
       DEF FeedFlush, TypeOK
<1>3. CASE FeedDone
  <2>1. ActorTypeOK'
    BY <1>0, <1>3, FeedActorType DEF FeedDone
  <2>2. CloudTypeOK'
    BY <1>0, <1>3 DEF FeedDone, TypeOK, CloudTypeOK
  <2> QED
    BY <1>3, <2>1, <2>2, RouterKept, LaneKept, HistoryKept
       DEF FeedDone, TypeOK
<1>4. CASE FeedFail
  <2>1. ActorTypeOK'
    <3> DEFINE pc == IF feedFailures + 1 > FeedMaxFailures
                     THEN "recv" ELSE "backoff"
    <3>1. /\ pc \in {"recv", "backoff"} /\ feedFailures + 1 \in Nat
          /\ pc \in {"send", "backoff"} => feedFailures + 1 <= FeedMaxFailures
      BY <1>0
    <3>2. FeedActor(pc, feedHeld, feedFailures + 1) /\ UNCHANGED liveVars
      BY <1>4 DEF FeedFail
    <3> QED
      BY <1>0, <3>1, <3>2, FeedActorType
  <2>2. CloudTypeOK'
    BY <1>0, <1>4 DEF FeedFail, TypeOK, CloudTypeOK
  <2> QED
    BY <1>4, <2>1, <2>2, RouterKept, LaneKept, HistoryKept
       DEF FeedFail, TypeOK
<1>5. CASE FeedRetry
  <2>1. ActorTypeOK'
    BY <1>0, <1>5, FeedActorType DEF FeedRetry
  <2> QED
    BY <1>5, <2>1, RouterKept, LaneKept, CloudKept, HistoryKept
       DEF FeedRetry, TypeOK
<1>6. CASE FeedStop
  <2>1. ActorTypeOK'
    BY <1>6, NoEnvelopeType, FeedActorType DEF FeedStop
  <2> QED
    BY <1>6, <2>1, RouterKept, LaneKept, CloudKept, HistoryKept
       DEF FeedStop, TypeOK
<1> QED
  BY <1>1, <1>2, <1>3, <1>4, <1>5, <1>6 DEF FeedStep

LEMMA TypeStep == TypeOK /\ [Next]_vars => TypeOK'
<1> SUFFICES ASSUME TypeOK, [Next]_vars PROVE TypeOK'
  OBVIOUS
<1>1. CASE Connect
  <2>1. RouterTypeOK'
    BY <1>1 DEF Connect, RouterGoes, TypeOK, RouterTypeOK, RouterPcs
  <2> QED
    BY <1>1, <2>1, LaneKept, ActorKept, CloudKept, HistoryKept
       DEF Connect, RouterGoes, TypeOK
<1>2. CASE Disconnect
  <2>1. RouterTypeOK'
    BY <1>2 DEF Disconnect, RouterGoes, TypeOK, RouterTypeOK, RouterPcs
  <2> QED
    BY <1>2, <2>1, LaneKept, ActorKept, CloudKept, HistoryKept
       DEF Disconnect, RouterGoes, TypeOK
<1>3. CASE Shutdown
  <2>1. RouterTypeOK'
    BY <1>3 DEF Shutdown, TypeOK, RouterTypeOK
  <2> QED
    BY <1>3, <2>1, LaneKept, ActorKept, CloudKept, HistoryKept
       DEF Shutdown, TypeOK
<1>4. CASE UNCHANGED vars
  BY <1>4, RouterKept, LaneKept, ActorKept, CloudKept, HistoryKept
     DEF vars, TypeOK
<1> QED
  BY <1>1, <1>2, <1>3, <1>4, ReceiveType, RouterType, LiveType, FeedType
     DEF Next, Exited

(* Every variable keeps its type.                                          *)
THEOREM TypeCorrect == Spec => []TypeOK
BY InitType, TypeStep, PTL DEF Spec

-----------------------------------------------------------------------------
(***************************************************************************)
(* The barrier.                                                            *)
(***************************************************************************)

-----------------------------------------------------------------------------
(* Queues: what one message more, or one less, does to the elements.       *)
LEMMA AppendFacts ==
  ASSUME NEW q \in Seq(Message), NEW m \in Message
  PROVE  /\ Append(q, m) \in Seq(Message) /\ Append(q, m) # <<>>
         /\ Len(Append(q, m)) = Len(q) + 1
         /\ \A i \in 1..Len(q) : Append(q, m)[i] = q[i]
         /\ Append(q, m)[Len(q) + 1] = m
         /\ \A x \in Elems(Append(q, m)) : x \in Elems(q) \/ x = m
         /\ q # <<>> => Head(Append(q, m)) = Head(q)
         /\ q = <<>> => Head(Append(q, m)) = m
<1>1. /\ Append(q, m) \in Seq(Message) /\ Append(q, m) # <<>>
      /\ Len(Append(q, m)) = Len(q) + 1
      /\ \A i \in 1..Len(q) : Append(q, m)[i] = q[i]
      /\ Append(q, m)[Len(q) + 1] = m
  OBVIOUS
<1>2. DOMAIN Append(q, m) = 1..(Len(q) + 1) /\ DOMAIN q = 1..Len(q)
  BY <1>1, LenProperties
<1>3. \A x \in Elems(Append(q, m)) : x \in Elems(q) \/ x = m
  BY <1>1, <1>2, LenProperties DEF Elems
<1>4. Head(Append(q, m)) = Append(q, m)[1]
  OBVIOUS
<1>5. q # <<>> => Len(q) \in Nat \ {0} /\ Head(q) = q[1]
  BY EmptySeq
<1>6. q # <<>> => Head(Append(q, m)) = Head(q)
  BY <1>1, <1>4, <1>5
<1>7. q = <<>> => Head(Append(q, m)) = m
  BY <1>1, <1>4
<1> QED
  BY <1>1, <1>3, <1>6, <1>7

LEMMA HeadIsFirst ==
  ASSUME NEW q \in Seq(Message)
  PROVE  Head(q) = q[1]
OBVIOUS

LEMMA TailFacts ==
  ASSUME NEW q \in Seq(Message), q # <<>>
  PROVE  /\ Len(q) \in Nat \ {0} /\ Head(q) = q[1] /\ Head(q) \in Message
         /\ Head(q) \in Elems(q)
         /\ Tail(q) \in Seq(Message) /\ Len(Tail(q)) = Len(q) - 1
         /\ \A i \in 1..(Len(q) - 1) : Tail(q)[i] = q[i + 1]
         /\ Elems(Tail(q)) \subseteq Elems(q)
         /\ Tail(q) = <<>> <=> Len(q) = 1
         /\ Tail(q) # <<>> => Head(Tail(q)) = q[2] /\ Len(q) >= 2
<1>1. Len(q) \in Nat \ {0} /\ Head(q) = q[1]
  BY EmptySeq
<1>2. /\ Head(q) \in Message /\ Tail(q) \in Seq(Message)
      /\ Len(Tail(q)) = Len(q) - 1
      /\ \A i \in 1..Len(Tail(q)) : Tail(q)[i] = q[i + 1]
  BY HeadTailProperties
<1>3. /\ DOMAIN q = 1..Len(q) /\ DOMAIN Tail(q) = 1..Len(Tail(q))
  BY <1>2, LenProperties
<1>4. Head(q) \in Elems(q) /\ Elems(Tail(q)) \subseteq Elems(q)
  BY <1>1, <1>2, <1>3 DEF Elems
<1>5. Tail(q) = <<>> <=> Len(q) = 1
  <2>1. Tail(q) = <<>> => Len(Tail(q)) = 0
    <3>1. Len(<<>>) = 0
      BY EmptySeq
    <3> QED
      BY <3>1, Zenon
  <2>2. Tail(q) # <<>> => Len(Tail(q)) # 0
    BY <1>2, EmptySeq
  <2> QED
    BY <1>1, <1>2, <2>1, <2>2
<1>6. Tail(q) # <<>> => Head(Tail(q)) = q[2] /\ Len(q) >= 2
  <2>1. Head(Tail(q)) = Tail(q)[1]
    BY <1>2, HeadIsFirst
  <2> QED
    BY <1>1, <1>2, <1>5, <2>1
<1> QED
  BY <1>1, <1>2, <1>4, <1>5, <1>6

LEMMA ElemsFacts ==
  ASSUME NEW q \in Seq(Message)
  PROVE  /\ \A i \in 1..Len(q) : q[i] \in Elems(q)
         /\ \A m \in Elems(q) : m \in Message /\ m.env \in Envelope
                                /\ m.env.seq \in Nat
         /\ q # <<>> => Len(q) \in Nat \ {0}
         /\ Len(q) \in Nat
         /\ q = <<>> => Elems(q) = {}
<1>1. DOMAIN q = 1..Len(q) /\ Len(q) \in Nat
  BY LenProperties
<1>2. \A m \in Elems(q) : m \in Message
  BY <1>1, ElementOfSeq DEF Elems
<1>3. \A m \in Message : m.env \in Envelope /\ m.env.seq \in Nat
  BY DEF Message, Envelope
<1> QED
  BY <1>1, <1>2, <1>3, EmptySeq DEF Elems

(* Routing adds at most the routed event to each lane.                     *)
LEMMA RouteFacts ==
  ASSUME NEW e, NEW pod, NEW hist, NEW replay, Route(e, pod, hist, replay)
  PROVE  /\ liveQ' \in {liveQ, Append(liveQ, Msg("event", e))}
         /\ feedQ' \in {feedQ, Append(feedQ, Msg("event", e))}
BY DEF Route, Offer

LEMMA RoutedElems ==
  ASSUME TypeOK, NEW e \in Envelope, NEW pod, NEW hist, NEW replay,
         Route(e, pod, hist, replay)
  PROVE  /\ \A m \in Elems(liveQ') : m \in Elems(liveQ) \/ m = Msg("event", e)
         /\ \A m \in Elems(feedQ') : m \in Elems(feedQ) \/ m = Msg("event", e)
<1>1. Msg("event", e) \in Message
  BY MsgType
<1>2. liveQ \in Seq(Message) /\ feedQ \in Seq(Message)
  BY DEF TypeOK, LaneTypeOK
<1> QED
  BY <1>1, <1>2, RouteFacts, AppendFacts

LEMMA Constant ==
  /\ AfterFlush \subseteq Compacting /\ Compacting \subseteq RouterPcs
  /\ "idle" \notin Compacting /\ "offline" \notin Compacting
  /\ "stopped" \notin Compacting
  /\ "flushLive" \in Compacting /\ "flushFeed" \in Compacting
BY DEF AfterFlush, Compacting, RouterPcs

-----------------------------------------------------------------------------
(* Numbering is kept by a step that takes messages out of the lanes, and   *)
(* moves the router along a compaction or out of it.                       *)
LEMMA NumberingFrame ==
  ASSUME TypeOK, Numbering,
         Elems(liveQ') \subseteq Elems(liveQ),
         Elems(feedQ') \subseteq Elems(feedQ),
         liveFlush' \in {0, liveFlush} \/ liveFlush' <= sequence,
         UNCHANGED <<sequence, liveEpoch, feedEpoch>>,
         rpc' \in Compacting => rpc \in Compacting /\ ev' = ev,
         rpc' \in Compacting \ {"deleteFeed"}
           => rpc \in Compacting \ {"deleteFeed"}
  PROVE  Numbering'
BY DEF Numbering, TypeOK, RouterTypeOK

LEMMA NumberingAppend ==
  ASSUME TypeOK, Numbering, rpc \in Compacting \ {"deleteFeed"},
         NEW k \in {"flush", "snapshot", "reset"},
         liveQ' \in {liveQ, Append(liveQ, Msg(k, ev))},
         feedQ' \in {feedQ, Append(feedQ, Msg(k, ev))},
         UNCHANGED <<sequence, liveFlush, liveEpoch, feedEpoch>>,
         rpc' \in Compacting => ev' = ev
  PROVE  Numbering'
<1> USE DEF TypeOK, RouterTypeOK, LaneTypeOK, Numbering
<1>1. Msg(k, ev) \in Message /\ Msg(k, ev).env.seq = sequence
  BY MsgType DEF Msg
<1>2. \A m \in Elems(liveQ') : m.env.seq <= sequence
  <2>1. \A m \in Elems(liveQ') : m \in Elems(liveQ) \/ m = Msg(k, ev)
    BY <1>1, AppendFacts
  <2> QED
    BY <1>1, <2>1
<1>3. \A m \in Elems(feedQ') : m.env.seq <= sequence
  <2>1. \A m \in Elems(feedQ') : m \in Elems(feedQ) \/ m = Msg(k, ev)
    BY <1>1, AppendFacts
  <2> QED
    BY <1>1, <2>1
<1> QED
  BY <1>2, <1>3

(* The end of a compaction routes the newest event.                        *)
LEMMA NumberingFinish ==
  ASSUME TypeOK, Numbering, rpc \in Compacting, Finish,
         UNCHANGED <<liveFlush, liveEpoch>>, feedEpoch' \in {feedEpoch, sequence}
  PROVE  Numbering'
<1> USE DEF TypeOK, RouterTypeOK, Numbering
<1>1. \A m \in Elems(liveQ') \cup Elems(feedQ') :
        m \in Elems(liveQ) \cup Elems(feedQ) \/ m = Msg("event", ev)
  BY RoutedElems DEF Finish
<1>2. Msg("event", ev).env.seq = sequence
  BY DEF Msg
<1>3. rpc' = "idle" /\ sequence' = sequence
  BY DEF Finish
<1> QED
  BY <1>1, <1>2, <1>3, Constant

LEMMA NumberingReceive == TypeOK /\ Numbering /\ Receive => Numbering'
<1> SUFFICES ASSUME TypeOK, Numbering,
                    NEW t \in Emitted, NEW id \in Matches \cup {NoId},
                    NEW replay \in ReplayFlags,
                    HandleEvent(t, id, replay) \/ BeginCompaction(t, id, replay)
             PROVE  Numbering'
  BY DEF Receive
<1> USE DEF TypeOK, RouterTypeOK, Numbering
<1>1. /\ sequence' = sequence + 1 /\ EventOf(t, id) \in Envelope
      /\ EventOf(t, id).seq = sequence + 1
  <2>1. TakeIn(t, id, replay) /\ replay \in BOOLEAN
    BY PipelineAssumption DEF HandleEvent, BeginCompaction
  <2>2. EventOf(t, id) \in Envelope
    BY <2>1, TakeInType
  <2> QED
    BY <2>1, <2>2 DEF TakeIn, EventOf
<1>2. UNCHANGED <<liveFlush, liveEpoch, feedEpoch>>
  BY DEF HandleEvent, BeginCompaction
<1>3. \A m \in Elems(liveQ) \cup Elems(feedQ) : m.env.seq \in Nat
  BY ElemsFacts DEF LaneTypeOK
<1>4. CASE HandleEvent(t, id, replay)
  <2>1. \A m \in Elems(liveQ') \cup Elems(feedQ') :
          \/ m \in Elems(liveQ) \cup Elems(feedQ)
          \/ m = Msg("event", EventOf(t, id))
    BY <1>1, <1>4, RoutedElems DEF HandleEvent
  <2>2. Msg("event", EventOf(t, id)).env.seq = sequence + 1
    BY <1>1 DEF Msg
  <2>3. rpc' = "idle"
    BY <1>4 DEF HandleEvent
  <2>4. \A m \in Elems(liveQ') \cup Elems(feedQ') : m.env.seq <= sequence'
    BY <1>1, <1>3, <2>1, <2>2
  <2> QED
    BY <1>1, <1>2, <2>3, <2>4, Constant DEF ActorTypeOK, CloudTypeOK
<1>5. CASE BeginCompaction(t, id, replay)
  <2>1. liveQ' = liveQ /\ feedQ' = feedQ /\ ev'.seq = sequence'
    BY <1>1, <1>5 DEF BeginCompaction
  <2> QED
    BY <1>1, <1>2, <1>3, <2>1 DEF ActorTypeOK, CloudTypeOK
<1> QED
  BY <1>4, <1>5

(* An actor takes at most the head of its lane.                            *)
LEMMA ActorTakes ==
  ASSUME TypeOK
  PROVE  /\ LiveStep => /\ liveQ' = liveQ \/ (liveQ # <<>> /\ liveQ' = Tail(liveQ))
                        /\ feedQ' = feedQ
         /\ FeedStep => /\ feedQ' = feedQ \/ (feedQ # <<>> /\ feedQ' = Tail(feedQ))
                        /\ liveQ' = liveQ
<1>1. LiveStep => /\ liveQ' = liveQ \/ (liveQ # <<>> /\ liveQ' = Tail(liveQ))
                  /\ feedQ' = feedQ
  BY Zenon DEF LiveStep, LiveEvent, LiveCoalesce, LiveSend, LiveSent, LiveFlush,
         LiveSnapshot, LiveReset, LiveStop
<1>2. FeedStep => /\ feedQ' = feedQ \/ (feedQ # <<>> /\ feedQ' = Tail(feedQ))
                  /\ liveQ' = liveQ
  BY Zenon DEF FeedStep, FeedEvent, FeedFlush, FeedDone, FeedFail, FeedRetry,
         FeedStop
<1> QED
  BY <1>1, <1>2

LEMMA ActorLeavesElems ==
  ASSUME TypeOK, LiveStep \/ FeedStep
  PROVE  Elems(liveQ') \subseteq Elems(liveQ) /\ Elems(feedQ') \subseteq Elems(feedQ)
<1>1. liveQ \in Seq(Message) /\ feedQ \in Seq(Message)
  BY DEF TypeOK, LaneTypeOK
<1>2. liveQ' = liveQ \/ (liveQ # <<>> /\ liveQ' = Tail(liveQ))
  BY ActorTakes
<1>3. feedQ' = feedQ \/ (feedQ # <<>> /\ feedQ' = Tail(feedQ))
  BY ActorTakes
<1> QED
  BY <1>1, <1>2, <1>3, TailFacts

(* What the actors' steps leave to the router, and the router to them.     *)
LEMMA ActorFrame ==
  /\ LiveStep => UNCHANGED <<routerVars, shutdown, feedVars, feedNode,
                             uploads, epochVars, historyVars>>
  /\ FeedStep => UNCHANGED <<routerVars, shutdown, liveVars, liveNode,
                             uploads, epochVars, historyVars, snap>>
<1>1. LiveStep => UNCHANGED <<routerVars, shutdown, feedVars, feedNode,
                             uploads, epochVars, historyVars>>
  BY DEF LiveStep, LiveEvent, LiveCoalesce, LiveSend, LiveSent, LiveFlush,
         LiveSnapshot, LiveReset, LiveStop
<1>2. FeedStep => UNCHANGED <<routerVars, shutdown, liveVars, liveNode,
                             uploads, epochVars, historyVars, snap>>
  BY DEF FeedStep, FeedEvent, FeedFlush, FeedDone, FeedFail, FeedRetry,
         FeedStop
<1> QED
  BY <1>1, <1>2

LEMMA NumberingRouter ==
  ASSUME TypeOK, Numbering, RouterStep
  PROVE  Numbering'
<1> USE DEF TypeOK, RouterTypeOK
<1>1. CASE FlushLive
  BY <1>1, NumberingAppend DEF FlushLive, Compacting, AfterFlush
<1>2. CASE FlushFeed
  BY <1>2, NumberingAppend DEF FlushFeed, Abort, Compacting, AfterFlush
<1>3. CASE RequestSnapshot
  BY <1>3, NumberingAppend DEF RequestSnapshot, Compacting, AfterFlush
<1>4. CASE SendReset
  BY <1>4, NumberingAppend DEF SendReset, Compacting, AfterFlush
<1>5. CASE AwaitAck \/ ReceiveSnapshot \/ Aggregate \/ DeleteRetry
  BY <1>5, NumberingFrame
     DEF AwaitAck, ReceiveSnapshot, Aggregate, DeleteRetry, Compacting, AfterFlush
<1>6. CASE DeleteLive
  BY <1>6 DEF DeleteLive, Numbering, Compacting, AfterFlush
<1>7. CASE DeleteFeed
  BY <1>7, NumberingFinish DEF DeleteFeed, Compacting, AfterFlush
<1>8. CASE DeleteGiveUp
  BY <1>8, NumberingFinish DEF DeleteGiveUp, Compacting, AfterFlush
<1>9. CASE RouterStop
  BY <1>9, NumberingFrame, Constant DEF RouterStop, RouterGoes
<1> QED
  BY <1>1, <1>2, <1>3, <1>4, <1>5, <1>6, <1>7, <1>8, <1>9 DEF RouterStep

LEMMA NumberingStep ==
  ASSUME TypeOK, Numbering, [Next]_vars
  PROVE  Numbering'
<1>1. CASE Receive
  BY <1>1, NumberingReceive
<1>2. CASE RouterStep
  BY <1>2, NumberingRouter
<1>3. CASE Connect \/ Disconnect \/ Shutdown \/ UNCHANGED vars
  BY <1>3, NumberingFrame, Constant
     DEF Connect, Disconnect, Shutdown, RouterGoes, vars
<1>4. CASE LiveStep
  <2>1. Elems(liveQ') \subseteq Elems(liveQ) /\ Elems(feedQ') \subseteq Elems(feedQ)
    BY <1>4, ActorLeavesElems
  <2>2. liveFlush' \in {0, liveFlush} \/ liveFlush' <= sequence
    <3>1. CASE LiveSend
      <4>1. liveQ # <<>> => Head(liveQ).env.seq <= sequence
        BY TailFacts DEF TypeOK, LaneTypeOK, Numbering
      <4> QED
        BY <3>1, <4>1 DEF LiveSend
    <3>2. CASE ~LiveSend
      BY <1>4, <3>2
         DEF LiveStep, LiveEvent, LiveCoalesce, LiveSent, LiveFlush,
             LiveSnapshot, LiveReset, LiveStop
    <3> QED
      BY <3>1, <3>2
  <2> QED
    BY <1>4, <2>1, <2>2, ActorFrame, NumberingFrame
<1>5. CASE FeedStep
  BY <1>5, ActorLeavesElems, ActorFrame, NumberingFrame
<1> QED
  BY <1>1, <1>2, <1>3, <1>4, <1>5 DEF Next, Exited

-----------------------------------------------------------------------------
(* The feed lane. *)

(* FeedInv is kept by a step that leaves the lane and its actor alone and  *)
(* moves the router within one phase of a compaction, or out of it.        *)
LEMMA FeedFrame ==
  ASSUME FeedInv,
         UNCHANGED <<sequence, feedQ, feedVars, feedEpoch>>,
         feedNode' \subseteq feedNode,
         "feed" \in acks' => "feed" \in acks,
         rpc' \in AfterFlush => rpc \in AfterFlush,
         rpc' \in {"flushLive", "flushFeed"} => rpc \in {"flushLive", "flushFeed"}
  PROVE  FeedInv'
BY DEF FeedInv, FeedUnasked, FeedBarrier, FeedFresh

LEMMA FeedReceive == TypeOK /\ Numbering /\ FeedInv /\ Receive => FeedInv'
<1> SUFFICES ASSUME TypeOK, Numbering, FeedInv,
                    NEW t \in Emitted, NEW id \in Matches \cup {NoId},
                    NEW replay \in ReplayFlags,
                    HandleEvent(t, id, replay) \/ BeginCompaction(t, id, replay)
             PROVE  FeedInv'
  BY DEF Receive
<1> USE DEF TypeOK, RouterTypeOK, FeedInv
<1>1. /\ sequence' = sequence + 1 /\ EventOf(t, id) \in Envelope
      /\ EventOf(t, id).seq = sequence + 1
  <2>1. TakeIn(t, id, replay) /\ replay \in BOOLEAN
    BY PipelineAssumption DEF HandleEvent, BeginCompaction
  <2>2. EventOf(t, id) \in Envelope
    BY <2>1, TakeInType
  <2> QED
    BY <2>1, <2>2 DEF TakeIn, EventOf
<1>2. \A m \in Elems(feedQ) : m.env.seq \in Nat
  BY ElemsFacts DEF LaneTypeOK
<1>3. CASE HandleEvent(t, id, replay)
  <2>1. \A m \in Elems(feedQ') :
          m \in Elems(feedQ) \/ m = Msg("event", EventOf(t, id))
    BY <1>1, <1>3, RoutedElems DEF HandleEvent
  <2>2. Msg("event", EventOf(t, id)).env.seq >= feedEpoch
    BY <1>1 DEF Msg, Numbering, CloudTypeOK
  <2>3. \A m \in Elems(feedQ') : m.kind = "event" => m.env.seq >= feedEpoch
    BY <2>1, <2>2 DEF FeedFresh
  <2>4. rpc' = "idle" /\ UNCHANGED <<feedNode, feedVars, feedEpoch>>
    BY <1>3 DEF HandleEvent
  <2> QED
    BY <2>3, <2>4 DEF FeedUnasked, FeedBarrier, FeedFresh, AfterFlush
<1>4. CASE BeginCompaction(t, id, replay)
  <2>1. /\ rpc' = "flushLive" /\ acks' = {}
        /\ UNCHANGED <<feedQ, feedNode, feedVars, feedEpoch>>
    BY <1>4 DEF BeginCompaction
  <2> QED
    BY <1>1, <1>2, <2>1
       DEF Numbering, FeedUnasked, FeedBarrier, FeedFresh, AfterFlush
<1> QED
  BY <1>3, <1>4

(* The flush enters the feed lane behind everything else.                  *)
LEMMA FeedFlushFeed ==
  ASSUME TypeOK, Numbering, FeedInv, FlushFeed
  PROVE  FeedInv'
<1> USE DEF TypeOK, RouterTypeOK, LaneTypeOK, FeedInv
<1>1. /\ rpc = "flushFeed" /\ rpc' \in {"ackLive", "offline"}
      /\ UNCHANGED <<sequence, acks, feedVars, feedNode, feedEpoch>>
      /\ \/ feedQ' = feedQ /\ rpc' = "offline"
         \/ feedQ' = Append(feedQ, Msg("flush", ev))
  BY DEF FlushFeed, Abort
<1>2. CASE feedQ' = feedQ /\ rpc' = "offline"
  BY <1>1, <1>2, FeedFrame DEF AfterFlush
<1>3. CASE feedQ' = Append(feedQ, Msg("flush", ev))
  <2>1. Msg("flush", ev) \in Message /\ Msg("flush", ev).kind = "flush"
    BY MsgType DEF Msg
  <2>2. "feed" \notin acks /\ \A i \in 1..Len(feedQ) : feedQ[i].env.seq < sequence
    BY <1>1, ElemsFacts DEF FeedUnasked
  <2>3. \A i \in 1..Len(feedQ') :
          feedQ'[i].kind = "flush" /\ feedQ'[i].env.seq = sequence
            => i = Len(feedQ')
    <3> SUFFICES ASSUME NEW i \in 1..Len(feedQ'), i # Len(feedQ')
                 PROVE  feedQ'[i].env.seq # sequence
      OBVIOUS
    <3>1. i \in 1..Len(feedQ) /\ feedQ'[i] = feedQ[i]
      BY <1>3, <2>1, AppendFacts, ElemsFacts
    <3>2. feedQ[i].env.seq \in Nat
      BY <3>1, ElemsFacts
    <3> QED
      BY <2>2, <3>1, <3>2
  <2>4. \A m \in Elems(feedQ') : m.kind = "event" => m.env.seq >= feedEpoch
    BY <1>3, <2>1, AppendFacts DEF FeedFresh
  <2> QED
    BY <1>1, <2>2, <2>3, <2>4 DEF FeedUnasked, FeedBarrier, FeedFresh
<1> QED
  BY <1>1, <1>2, <1>3

(* A compaction that ends routes its event into the epoch it opened, or    *)
(* into the one before.                                                    *)
LEMMA FeedFinish ==
  ASSUME TypeOK, Numbering, FeedInv, rpc \in AfterFlush, Finish,
         UNCHANGED feedVars,
         \/ feedEpoch' = feedEpoch /\ feedNode' \subseteq feedNode
         \/ feedEpoch' = sequence /\ feedNode' = {} /\ "feed" \in acks
  PROVE  FeedInv'
<1> USE DEF TypeOK, RouterTypeOK, FeedInv
<1>1. \A m \in Elems(feedQ') : m \in Elems(feedQ) \/ m = Msg("event", ev)
  BY RoutedElems DEF Finish
<1>2. Msg("event", ev).env.seq = sequence /\ feedEpoch < sequence
  BY Constant DEF Msg, Numbering
<1>3. rpc' = "idle" /\ sequence' = sequence
  BY DEF Finish
<1>4. CASE feedEpoch' = feedEpoch /\ feedNode' \subseteq feedNode
  <2>1. \A m \in Elems(feedQ') : m.kind = "event" => m.env.seq >= feedEpoch'
    BY <1>1, <1>2, <1>4 DEF FeedFresh, CloudTypeOK
  <2> QED
    BY <1>3, <1>4, <2>1 DEF FeedUnasked, FeedBarrier, FeedFresh, AfterFlush
<1>5. CASE feedEpoch' = sequence /\ feedNode' = {} /\ "feed" \in acks
  <2>1. Elems(feedQ) = {} /\ feedPc \in {"recv", "stopped"}
    BY <1>5, ElemsFacts DEF FeedBarrier, LaneTypeOK
  <2>2. \A m \in Elems(feedQ') : m.env.seq >= feedEpoch'
    BY <1>1, <1>2, <1>5, <2>1
  <2> QED
    BY <1>3, <1>5, <2>1, <2>2 DEF FeedUnasked, FeedBarrier, FeedFresh, AfterFlush
<1> QED
  BY <1>4, <1>5

(* The feed actor: what it takes in hand and what it writes is never older *)
(* than the epoch, and it answers a flush only with a bare lane.           *)
LEMMA FeedActorKeeps ==
  ASSUME TypeOK, Numbering, FeedInv, FeedStep
  PROVE  FeedInv'
<1> USE DEF TypeOK, RouterTypeOK, LaneTypeOK, ActorTypeOK, FeedInv
<1>1. UNCHANGED <<rpc, sequence, ev, feedEpoch>>
  BY ActorFrame
<1>2. CASE FeedEvent
  <2>1. /\ feedQ # <<>> /\ feedQ' = Tail(feedQ) /\ Head(feedQ).kind = "event"
        /\ feedPc' \in {"recv", "send"} /\ feedPc = "recv"
        /\ feedPc' = "send" => feedHeld' = Head(feedQ).env
        /\ UNCHANGED <<acks, feedNode>>
    BY <1>2 DEF FeedEvent, FeedActor, Attempt
  <2>2. Head(feedQ).env.seq >= feedEpoch
    BY <2>1, TailFacts DEF FeedFresh
  <2>3. FeedFresh'
    BY <1>1, <2>1, <2>2, TailFacts DEF FeedFresh
  <2>4. FeedUnasked'
    BY <1>1, <2>1, TailFacts DEF FeedUnasked
  <2>5. FeedBarrier'
    <3> SUFFICES ASSUME rpc \in AfterFlush PROVE FeedBarrier'
      BY <1>1 DEF FeedBarrier
    <3>1. "feed" \notin acks
      BY <2>1 DEF FeedBarrier
    <3>2. \A i \in 1..Len(feedQ') :
            feedQ'[i].kind = "flush" /\ feedQ'[i].env.seq = sequence
              => i = Len(feedQ')
      BY <2>1, TailFacts DEF FeedBarrier
    <3> QED
      BY <1>1, <2>1, <3>1, <3>2 DEF FeedBarrier
  <2> QED
    BY <2>3, <2>4, <2>5
<1>3. CASE FeedFlush
  <2>1. /\ feedQ # <<>> /\ feedQ' = Tail(feedQ) /\ Head(feedQ).kind = "flush"
        /\ feedPc = "recv" /\ UNCHANGED <<feedVars, feedNode>>
        /\ acks' = IF Head(feedQ).env.seq = ev.seq THEN acks \cup {"feed"}
                   ELSE acks
    BY <1>3 DEF FeedFlush, Answer
  <2>2. FeedFresh'
    BY <1>1, <2>1, TailFacts DEF FeedFresh
  <2>3. FeedUnasked'
    <3> SUFFICES ASSUME rpc \in {"flushLive", "flushFeed"} PROVE FeedUnasked'
      BY <1>1 DEF FeedUnasked
    <3>1. Head(feedQ).env.seq < sequence /\ ev.seq = sequence
      BY <2>1, TailFacts, Constant DEF FeedUnasked, Numbering
    <3>2. acks' = acks
      BY <2>1, <3>1 DEF Envelope
    <3> QED
      BY <1>1, <2>1, <3>2, TailFacts DEF FeedUnasked
  <2>4. FeedBarrier'
    <3> SUFFICES ASSUME rpc \in AfterFlush PROVE FeedBarrier'
      BY <1>1 DEF FeedBarrier
    <3>1. ev.seq = sequence
      BY Constant DEF Numbering
    <3>2. \A i \in 1..Len(feedQ') :
            feedQ'[i].kind = "flush" /\ feedQ'[i].env.seq = sequence
              => i = Len(feedQ')
      BY <2>1, TailFacts DEF FeedBarrier
    <3>3. CASE Head(feedQ).env.seq = sequence
      <4>1. Len(feedQ) = 1
        BY <2>1, <3>3, TailFacts DEF FeedBarrier
      <4> QED
        BY <1>1, <2>1, <3>2, <4>1, TailFacts DEF FeedBarrier
    <3>4. CASE Head(feedQ).env.seq # sequence
      <4>1. acks' = acks /\ "feed" \notin acks
        BY <2>1, <3>1, <3>4 DEF FeedBarrier
      <4> QED
        BY <1>1, <3>2, <4>1 DEF FeedBarrier
    <3> QED
      BY <3>3, <3>4
  <2> QED
    BY <2>2, <2>3, <2>4
<1>4. CASE FeedDone \/ FeedFail \/ FeedRetry \/ FeedStop
  <2>1. /\ UNCHANGED <<feedQ, acks>>
        /\ \A e \in feedNode' : e \in feedNode
              \/ (feedPc \in {"send", "backoff"} /\ e = feedHeld)
        /\ feedPc' \in {"send", "backoff"}
              => feedPc \in {"send", "backoff"} /\ feedHeld' = feedHeld
        /\ feedPc \in {"recv", "stopped"} => feedPc' \in {"recv", "stopped"}
    BY <1>4 DEF FeedDone, FeedFail, FeedRetry, FeedStop, FeedActor, Attempt
  <2> QED
    BY <1>1, <2>1 DEF FeedUnasked, FeedBarrier, FeedFresh
<1> QED
  BY <1>2, <1>3, <1>4 DEF FeedStep

LEMMA FeedStepKeeps ==
  ASSUME TypeOK, Numbering, FeedInv, [Next]_vars
  PROVE  FeedInv'
<1>1. CASE Receive
  BY <1>1, FeedReceive
<1>2. CASE FlushFeed
  BY <1>2, FeedFlushFeed
<1>3. CASE FlushLive
  BY <1>3, FeedFrame DEF FlushLive, AfterFlush
<1>4. CASE AwaitAck \/ RequestSnapshot \/ ReceiveSnapshot \/ Aggregate
           \/ SendReset
  BY <1>4, FeedFrame
     DEF AwaitAck, RequestSnapshot, ReceiveSnapshot, Aggregate, SendReset,
         AfterFlush
<1>5. CASE DeleteLive \/ DeleteRetry
  BY <1>5, FeedFrame DEF DeleteLive, DeleteRetry, DeleteUnanswered, AfterFlush
<1>6. CASE DeleteFeed
  BY <1>6, FeedFinish DEF DeleteFeed, AfterFlush
<1>7. CASE DeleteGiveUp
  <2>1. feedNode' \subseteq feedNode
    BY <1>7 DEF DeleteGiveUp, DeleteUnanswered
  <2> QED
    BY <1>7, <2>1, FeedFinish DEF DeleteGiveUp, AfterFlush
<1>8. CASE RouterStop \/ Connect \/ Disconnect
  BY <1>8, FeedFrame DEF RouterStop, Connect, Disconnect, RouterGoes, AfterFlush
<1>9. CASE Shutdown \/ UNCHANGED vars
  BY <1>9, FeedFrame DEF Shutdown, vars
<1>10. CASE LiveStep
  <2>1. "feed" \in acks' => "feed" \in acks
    BY <1>10
       DEF LiveStep, LiveEvent, LiveCoalesce, LiveSend, LiveSent, LiveFlush,
           LiveSnapshot, LiveReset, LiveStop, Answer
  <2> QED
    BY <1>10, <2>1, ActorFrame, ActorTakes, FeedFrame
<1>11. CASE FeedStep
  BY <1>11, FeedActorKeeps
<1> QED
  BY <1>1, <1>2, <1>3, <1>4, <1>5, <1>6, <1>7, <1>8, <1>9, <1>10, <1>11
     DEF Next, RouterStep, Exited

-----------------------------------------------------------------------------
(* The live lane. *)

(* LiveInv is kept by a step of the router that leaves the lane and its    *)
(* actor alone, provided it stays within the phase of the compaction.      *)
LEMMA LiveFrame ==
  ASSUME TypeOK, LiveInv,
         UNCHANGED <<sequence, liveQ, liveVars, liveEpoch>>,
         liveNode' \subseteq liveNode,
         "live" \in acks' => "live" \in acks,
         "snapshot" \in acks' => "snapshot" \in acks,
         rpc' = "flushLive" => rpc = "flushLive",
         FlushSent' => FlushSent,
         rpc' \in Unasked => rpc \in Unasked,
         rpc' \in AfterFlush => rpc \in AfterFlush \cup Unasked,
         rpc' = "deleteLive" /\ ~shutdown'
           => rpc \in Unasked \/ (rpc = "deleteLive" /\ ~shutdown),
         SnapshotTaken'
  PROVE  LiveInv'
<1> USE DEF LiveInv
<1>1. LiveUnasked' /\ LiveBarrier' /\ LiveQuiet'
  BY DEF LiveUnasked, LiveBarrier, LiveQuiet, NoLiveEvent, LiveAtRest
<1>2. QueriesApart' /\ NoQueryWhileDraining'
  BY DEF QueriesApart, NoQueryWhileDraining
<1>3. SnapshotUnasked' /\ SnapshotLast'
  <2>1. SnapshotUnasked'
    BY DEF SnapshotUnasked, Unasked
  <2>2. CASE rpc \in Unasked
    <3>1. \A m \in Elems(liveQ) : m.kind = "snapshot" => m.env.seq # sequence
      BY <2>2, ElemsFacts DEF SnapshotUnasked, TypeOK, LaneTypeOK, RouterTypeOK
    <3> QED
      BY <2>1, <3>1, ElemsFacts DEF SnapshotLast, TypeOK, LaneTypeOK
  <2>3. CASE rpc \notin Unasked
    BY <2>1, <2>3 DEF SnapshotLast
  <2> QED
    BY <2>1, <2>2, <2>3
<1>4. LiveFresh' /\ CacheFresh'
  BY DEF LiveFresh, CacheFresh, LiveAtRest
<1> QED
  BY <1>1, <1>2, <1>3, <1>4

(* What a message other than an event does to the lane, appended to it: it *)
(* comes between no event and the query after it.                          *)
LEMMA LiveAppend ==
  ASSUME TypeOK, LiveInv, NEW m \in Message, m.kind # "event",
         liveQ' = Append(liveQ, m), UNCHANGED <<liveVars, liveEpoch, liveNode>>,
         m.kind \in {"snapshot", "reset"} => LiveQuiet /\ FlushSent
  PROVE  QueriesApart' /\ NoQueryWhileDraining' /\ LiveFresh' /\ CacheFresh'
<1> USE DEF LiveInv, TypeOK, LaneTypeOK
<1>1. QueriesApart'
  <2> SUFFICES ASSUME NEW i \in 1..Len(liveQ'), i > 1,
                      liveQ'[i].kind \in {"snapshot", "reset"}
               PROVE  liveQ'[i-1].kind # "event"
    BY DEF QueriesApart
  <2>1. Len(liveQ') = Len(liveQ) + 1 /\ Len(liveQ) \in Nat
    BY AppendFacts, ElemsFacts
  <2>2. CASE i = Len(liveQ) + 1
    <3>1. liveQ'[i] = m /\ liveQ'[i-1] = liveQ[Len(liveQ)] /\ liveQ # <<>>
      BY <2>1, <2>2, AppendFacts
    <3> QED
      BY <3>1 DEF LiveQuiet
  <2>3. CASE i # Len(liveQ) + 1
    <3>1. /\ i \in 1..Len(liveQ) /\ i - 1 \in 1..Len(liveQ)
      BY <2>1, <2>3
    <3>2. liveQ'[i] = liveQ[i] /\ liveQ'[i-1] = liveQ[i-1]
      BY <3>1, AppendFacts
    <3> QED
      BY <3>1, <3>2 DEF QueriesApart
  <2> QED
    BY <2>2, <2>3
<1>2. NoQueryWhileDraining'
  <2>1. CASE liveQ = <<>>
    BY <2>1, AppendFacts DEF NoQueryWhileDraining, LiveQuiet
  <2>2. CASE liveQ # <<>>
    BY <2>2, AppendFacts DEF NoQueryWhileDraining
  <2> QED
    BY <2>1, <2>2
<1>3. LiveFresh'
  BY AppendFacts DEF LiveFresh
<1>4. CacheFresh'
  BY AppendFacts DEF CacheFresh, LiveAtRest
<1> QED
  BY <1>1, <1>2, <1>3, <1>4

LEMMA LiveFlushLive ==
  ASSUME TypeOK, Numbering, LiveInv, FlushLive
  PROVE  LiveInv'
<1> USE DEF TypeOK, RouterTypeOK, LaneTypeOK, LiveInv
<1>1. /\ rpc = "flushLive" /\ rpc' = "flushFeed" /\ ev.seq = sequence
      /\ UNCHANGED <<sequence, acks, liveVars, liveNode, liveEpoch, shutdown>>
      /\ \/ liveQ' = liveQ /\ liveSent' = FALSE
         \/ liveQ' = Append(liveQ, Msg("flush", ev))
  BY Constant DEF FlushLive, Numbering
<1>2. CASE liveQ' = liveQ /\ liveSent' = FALSE
  BY <1>1, <1>2, LiveFrame
     DEF FlushSent, Unasked, SnapshotTaken, SnapshotUnasked, AfterFlush
<1>3. CASE liveQ' = Append(liveQ, Msg("flush", ev))
  <2>1. Msg("flush", ev) \in Message /\ Msg("flush", ev).kind = "flush"
    BY MsgType DEF Msg
  <2>2. QueriesApart' /\ NoQueryWhileDraining' /\ LiveFresh' /\ CacheFresh'
    BY <1>1, <1>3, <2>1, LiveAppend
  <2>3. LiveUnasked' /\ SnapshotLast' /\ SnapshotTaken'
    BY <1>1 DEF LiveUnasked, SnapshotLast, SnapshotTaken, SnapshotUnasked,
                AfterFlush
  <2>4. SnapshotUnasked'
    <3>1. \A m \in Elems(liveQ') : m \in Elems(liveQ) \/ m = Msg("flush", ev)
      BY <1>3, <2>1, AppendFacts
    <3> QED
      BY <1>1, <2>1, <3>1 DEF SnapshotUnasked, Unasked
  <2>5. LiveQuiet'
    BY <1>3, <2>1, AppendFacts DEF LiveQuiet
  <2>6. LiveBarrier'
    <3>1. \A i \in 1..Len(liveQ) : liveQ[i].env.seq < sequence
                                    /\ liveQ[i].env.seq \in Nat
      BY <1>1, ElemsFacts DEF LiveUnasked
    <3>2. ASSUME NEW i \in 1..Len(liveQ'), NEW j \in 1..Len(liveQ'), i < j
          PROVE  liveQ'[i].env.seq # sequence
      <4>1. i \in 1..Len(liveQ) /\ liveQ'[i] = liveQ[i]
        BY <1>3, <2>1, <3>2, AppendFacts, ElemsFacts
      <4> QED
        BY <3>1, <4>1
    <3> QED
      BY <1>1, <3>2 DEF LiveBarrier, LiveUnasked, ActorTypeOK
  <2> QED
    BY <2>2, <2>3, <2>4, <2>5, <2>6
<1> QED
  BY <1>1, <1>2, <1>3

LEMMA LiveFlushFeed ==
  ASSUME TypeOK, LiveInv, FlushFeed
  PROVE  LiveInv'
<1> USE DEF LiveInv
<1>1. /\ rpc = "flushFeed" /\ rpc' \in {"ackLive", "offline"}
      /\ rpc' = "ackLive" => liveSent
      /\ UNCHANGED <<sequence, acks, liveQ, liveVars, liveNode, liveEpoch,
                     shutdown>>
  BY DEF FlushFeed, Abort
<1>2. "snapshot" \notin acks
  BY <1>1 DEF SnapshotUnasked, Unasked
<1>3. SnapshotTaken'
  BY <1>1, <1>2 DEF SnapshotTaken
<1>4. FlushSent' => FlushSent
  BY <1>1 DEF FlushSent, AfterFlush
<1>5. /\ rpc' \in Unasked => rpc \in Unasked
      /\ rpc \in AfterFlush \cup Unasked
      /\ rpc' # "flushLive" /\ rpc' # "deleteLive"
  BY <1>1 DEF Unasked, AfterFlush
<1> QED
  BY <1>1, <1>3, <1>4, <1>5, LiveFrame

(* The snapshot is asked for behind a lane that ends in no event.          *)
LEMMA LiveRequestSnapshot ==
  ASSUME TypeOK, Numbering, LiveInv, RequestSnapshot
  PROVE  LiveInv'
<1> USE DEF TypeOK, RouterTypeOK, LaneTypeOK, LiveInv
<1>1. /\ rpc = "snapSend" /\ rpc' \in {"snapWait", "deleteLive"}
      /\ ev.seq = sequence /\ FlushSent /\ FlushSent'
      /\ UNCHANGED <<sequence, acks, liveVars, liveNode, liveEpoch, shutdown>>
      /\ \/ liveQ' = liveQ /\ rpc' = "deleteLive"
         \/ liveQ' = Append(liveQ, Msg("snapshot", ev)) /\ rpc' = "snapWait"
  BY DEF RequestSnapshot, Numbering, FlushSent, AfterFlush, Compacting
<1>2. "snapshot" \notin acks
  BY <1>1 DEF SnapshotUnasked, Unasked
<1>3. CASE liveQ' = liveQ /\ rpc' = "deleteLive"
  BY <1>1, <1>2, <1>3, LiveFrame DEF Unasked, SnapshotTaken, AfterFlush
<1>4. CASE liveQ' = Append(liveQ, Msg("snapshot", ev)) /\ rpc' = "snapWait"
  <2>1. Msg("snapshot", ev) \in Message /\ Msg("snapshot", ev).kind = "snapshot"
    BY MsgType DEF Msg
  <2>2. QueriesApart' /\ NoQueryWhileDraining' /\ LiveFresh' /\ CacheFresh'
    BY <1>1, <1>4, <2>1, LiveAppend
  <2>3. LiveUnasked' /\ SnapshotUnasked' /\ SnapshotTaken'
    BY <1>1, <1>2, <1>4
       DEF LiveUnasked, SnapshotUnasked, SnapshotTaken, Unasked
  <2>4. /\ Len(liveQ') = Len(liveQ) + 1 /\ Len(liveQ) \in Nat
        /\ \A i \in 1..Len(liveQ) : liveQ'[i] = liveQ[i]
        /\ liveQ'[Len(liveQ')] = Msg("snapshot", ev) /\ liveQ' # <<>>
        /\ \A m \in Elems(liveQ') : m \in Elems(liveQ)
                                    \/ m = Msg("snapshot", ev)
    BY <1>4, <2>1, AppendFacts, ElemsFacts
  <2>5. LiveQuiet'
    BY <2>1, <2>4 DEF LiveQuiet
  <2>6. SnapshotLast'
    <3>1. ASSUME NEW i \in 1..Len(liveQ'), i # Len(liveQ'),
                 liveQ'[i].kind = "snapshot"
          PROVE  liveQ'[i].env.seq # sequence
      <4>1. i \in 1..Len(liveQ) /\ liveQ'[i] = liveQ[i]
        BY <2>4, <3>1
      <4>2. liveQ[i].env.seq < sequence /\ liveQ[i].env.seq \in Nat
        BY <1>1, <3>1, <4>1, ElemsFacts DEF SnapshotUnasked, Unasked
      <4> QED
        BY <4>1, <4>2
    <3> QED
      BY <1>1, <3>1 DEF SnapshotLast
  <2>7. LiveBarrier'
    <3>1. NoLiveEvent => NoLiveEvent'
      BY <2>1, <2>4 DEF NoLiveEvent
    <3>2. ASSUME NEW i \in 1..Len(liveQ'), NEW j \in 1..Len(liveQ'), i < j,
                 liveQ'[i].kind = "flush", liveQ'[i].env.seq = sequence
          PROVE  liveQ'[j].kind # "event"
      <4>1. CASE j = Len(liveQ')
        BY <2>1, <2>4, <4>1
      <4>2. CASE j # Len(liveQ')
        <5>1. /\ i \in 1..Len(liveQ) /\ liveQ'[i] = liveQ[i]
              /\ j \in 1..Len(liveQ) /\ liveQ'[j] = liveQ[j]
          BY <2>4, <3>2, <4>2
        <5> QED
          BY <1>1, <3>2, <5>1 DEF LiveBarrier
      <4> QED
        BY <4>1, <4>2
    <3> QED
      BY <1>1, <3>1, <3>2 DEF LiveBarrier, LiveAtRest
  <2> QED
    BY <2>2, <2>3, <2>5, <2>6, <2>7
<1> QED
  BY <1>1, <1>3, <1>4

(* The reset follows the snapshot into an empty lane.                      *)
LEMMA LiveSendReset ==
  ASSUME TypeOK, Numbering, LiveInv, SendReset
  PROVE  LiveInv'
<1> USE DEF TypeOK, RouterTypeOK, LaneTypeOK, LiveInv
<1>1. /\ rpc = "reset" /\ rpc' = "deleteLive" /\ FlushSent /\ FlushSent'
      /\ UNCHANGED <<sequence, acks, liveVars, liveNode, liveEpoch, shutdown>>
      /\ liveQ' = Append(liveQ, Msg("reset", ev))
  BY DEF SendReset, FlushSent, AfterFlush
<1>2. "snapshot" \in acks /\ liveQ = <<>> /\ LiveAtRest
  BY <1>1 DEF SnapshotTaken
<1>3. Msg("reset", ev) \in Message /\ Msg("reset", ev).kind = "reset"
  BY MsgType DEF Msg
<1>4. QueriesApart' /\ NoQueryWhileDraining' /\ LiveFresh' /\ CacheFresh'
  BY <1>1, <1>3, LiveAppend
<1>5. /\ Len(liveQ') = 1 /\ liveQ'[1].kind = "reset" /\ liveQ' # <<>>
      /\ \A m \in Elems(liveQ') : m.kind = "reset"
  <2>1. Len(liveQ) = 0 /\ Elems(liveQ) = {}
    BY <1>2, ElemsFacts, EmptySeq
  <2>2. /\ Len(liveQ') = Len(liveQ) + 1 /\ liveQ' # <<>>
        /\ liveQ'[Len(liveQ) + 1] = Msg("reset", ev)
        /\ \A m \in Elems(liveQ') : m \in Elems(liveQ) \/ m = Msg("reset", ev)
    BY <1>1, <1>3, AppendFacts
  <2> QED
    BY <1>3, <2>1, <2>2
<1>6. LiveUnasked' /\ LiveBarrier' /\ LiveQuiet'
  BY <1>1, <1>2, <1>5
     DEF LiveUnasked, LiveBarrier, LiveQuiet, NoLiveEvent, LiveAtRest
<1>7. SnapshotUnasked' /\ SnapshotLast' /\ SnapshotTaken'
  BY <1>1, <1>2, <1>5
     DEF SnapshotUnasked, SnapshotLast, SnapshotTaken, Unasked, LiveAtRest
<1> QED
  BY <1>4, <1>6, <1>7

(* The steps of the router that touch neither the lane nor its actor.      *)
LEMMA LiveRouterMoves ==
  ASSUME TypeOK, LiveInv,
         AwaitAck \/ ReceiveSnapshot \/ Aggregate \/ DeleteRetry
         \/ RouterStop \/ Connect \/ Disconnect \/ Shutdown
  PROVE  LiveInv'
<1> USE DEF TypeOK, RouterTypeOK
<1>1. CASE AwaitAck
  <2>1. /\ rpc \in Unasked /\ rpc' \in {"ackFeed", "snapSend"} /\ FlushSent
        /\ UNCHANGED <<sequence, acks, liveQ, liveVars, liveNode, liveEpoch,
                       shutdown>>
    BY <1>1 DEF AwaitAck, Unasked, FlushSent, AfterFlush
  <2>2. "snapshot" \notin acks
    BY <2>1 DEF LiveInv, SnapshotUnasked
  <2>3. SnapshotTaken'
    BY <2>1, <2>2 DEF SnapshotTaken
  <2> QED
    BY <2>1, <2>3, LiveFrame
<1>2. CASE ReceiveSnapshot
  <2>1. /\ rpc = "snapWait" /\ FlushSent /\ rpc \in AfterFlush
        /\ \/ rpc' \in {"aggregate", "reset"} /\ "snapshot" \in acks
           \/ rpc' = "deleteLive" /\ shutdown
        /\ UNCHANGED <<sequence, acks, liveQ, liveVars, liveNode, liveEpoch,
                       shutdown>>
    BY <1>2 DEF ReceiveSnapshot, FlushSent, AfterFlush
  <2>2. SnapshotTaken'
    BY <2>1 DEF LiveInv, SnapshotTaken, LiveAtRest
  <2>3. rpc' \notin Unasked /\ rpc' # "flushLive"
    BY <2>1 DEF Unasked
  <2>4. rpc' = "deleteLive" => shutdown'
    BY <2>1, Zenon
  <2> QED
    BY <2>1, <2>2, <2>3, <2>4, LiveFrame
<1>3. CASE Aggregate
  <2>1. /\ rpc = "aggregate" /\ rpc' = "reset" /\ FlushSent /\ rpc \in AfterFlush
        /\ rpc' \notin Unasked
        /\ UNCHANGED <<sequence, acks, liveQ, liveVars, liveNode, liveEpoch,
                       shutdown>>
    BY <1>3 DEF Aggregate, FlushSent, AfterFlush, Unasked
  <2>2. SnapshotTaken'
    BY <2>1 DEF LiveInv, SnapshotTaken, LiveAtRest
  <2> QED
    BY <2>1, <2>2, LiveFrame
<1>4. CASE DeleteRetry
  <2>1. /\ liveNode' \subseteq liveNode
        /\ UNCHANGED <<rpc, liveSent, sequence, acks, liveQ, liveVars,
                       liveEpoch, shutdown>>
    BY <1>4 DEF DeleteRetry, DeleteUnanswered
  <2>2. SnapshotTaken' /\ (FlushSent' => FlushSent)
    BY <2>1 DEF LiveInv, SnapshotTaken, LiveAtRest, FlushSent
  <2> QED
    BY <2>1, <2>2, LiveFrame
<1>5. CASE RouterStop \/ Connect \/ Disconnect
  <2>1. /\ rpc' \in {"stopped", "idle", "offline"}
        /\ UNCHANGED <<sequence, acks, liveQ, liveVars, liveNode, liveEpoch,
                       shutdown>>
    BY <1>5 DEF RouterStop, Connect, Disconnect, RouterGoes
  <2>2. /\ SnapshotTaken' /\ ~FlushSent' /\ rpc' \notin Unasked
        /\ rpc' \notin AfterFlush /\ rpc' # "flushLive" /\ rpc' # "deleteLive"
    BY <2>1 DEF SnapshotTaken, FlushSent, AfterFlush, Unasked
  <2> QED
    BY <2>1, <2>2, LiveFrame
<1>6. CASE Shutdown
  <2>1. /\ shutdown'
        /\ UNCHANGED <<rpc, liveSent, sequence, acks, liveQ, liveVars,
                       liveNode, liveEpoch>>
    BY <1>6 DEF Shutdown
  <2>2. SnapshotTaken' /\ (FlushSent' => FlushSent)
    BY <2>1 DEF LiveInv, SnapshotTaken, LiveAtRest, FlushSent
  <2> QED
    BY <2>1, <2>2, LiveFrame
<1> QED
  BY <1>1, <1>2, <1>3, <1>4, <1>5, <1>6

(* The epoch of live_state opens: the snapshot's actor has read everything *)
(* routed so far, and what it may still cache the reset clears next.       *)
LEMMA LiveDeleteLive ==
  ASSUME TypeOK, Numbering, LiveInv, DeleteLive
  PROVE  LiveInv'
<1> USE DEF TypeOK, RouterTypeOK, LaneTypeOK, CloudTypeOK
<1>1. /\ rpc = "deleteLive" /\ rpc' = "deleteFeed" /\ ~shutdown
      /\ FlushSent /\ FlushSent' /\ rpc \in AfterFlush /\ rpc' \in AfterFlush
      /\ rpc' \notin Unasked /\ liveNode' = {}
      /\ UNCHANGED <<sequence, acks, liveQ, liveVars, shutdown>>
      /\ liveEpoch' = IF "snapshot" \in acks THEN sequence ELSE liveEpoch
  BY DEF DeleteLive, FlushSent, AfterFlush, Unasked
<1>2. SnapshotTaken'
  BY <1>1 DEF LiveInv, SnapshotTaken, LiveAtRest
<1>3. CASE "snapshot" \notin acks
  BY <1>1, <1>2, <1>3, LiveFrame
<1>4. CASE "snapshot" \in acks
  <2> USE DEF LiveInv
  <2>1. /\ liveQ = <<>> \/ (Len(liveQ) = 1 /\ liveQ[1].kind = "reset")
        /\ LiveAtRest /\ (liveQ = <<>> => master = {})
    BY <1>1, <1>4 DEF SnapshotTaken
  <2>2. liveQ # <<>> => /\ Head(liveQ).kind = "reset"
                        /\ \A m \in Elems(liveQ) : m.kind = "reset"
    <3>1. liveQ # <<>> => Len(liveQ) = 1 /\ liveQ[1].kind = "reset"
      BY <2>1
    <3>2. Len(liveQ) = 1 => \A m \in Elems(liveQ) : m = liveQ[1]
      BY LenProperties DEF Elems
    <3> QED
      BY <3>1, <3>2, HeadIsFirst
  <2>3. \A m \in Elems(liveQ) : m.kind = "reset"
    BY <2>2, ElemsFacts
  <2>4. LiveUnasked' /\ LiveBarrier' /\ LiveQuiet'
    BY <1>1 DEF LiveUnasked, LiveBarrier, LiveQuiet, NoLiveEvent, LiveAtRest
  <2>5. QueriesApart' /\ NoQueryWhileDraining'
    BY <1>1 DEF QueriesApart, NoQueryWhileDraining
  <2>6. SnapshotUnasked' /\ SnapshotLast'
    BY <1>1 DEF SnapshotUnasked, SnapshotLast
  <2>7. LiveFresh'
    BY <1>1, <2>1, <2>3 DEF LiveFresh, LiveAtRest
  <2>8. CacheFresh'
    BY <1>1, <2>1, <2>2 DEF CacheFresh, LiveAtRest
  <2> QED
    BY <1>2, <2>4, <2>5, <2>6, <2>7, <2>8
<1> QED
  BY <1>3, <1>4

(* Outside a compaction the lane takes events of the current epoch.        *)
LEMMA LiveRouted ==
  ASSUME TypeOK, LiveInv, NEW e \in Envelope, e.seq >= liveEpoch,
         liveQ' \in {liveQ, Append(liveQ, Msg("event", e))},
         UNCHANGED <<liveVars, liveEpoch>>, liveNode' \subseteq liveNode,
         rpc' = "idle"
  PROVE  LiveInv'
<1> USE DEF TypeOK, RouterTypeOK, LaneTypeOK, LiveInv
<1>1. LiveUnasked' /\ LiveBarrier' /\ LiveQuiet'
  BY DEF LiveUnasked, LiveBarrier, LiveQuiet, FlushSent, AfterFlush
<1>2. SnapshotUnasked' /\ SnapshotLast' /\ SnapshotTaken'
  BY DEF SnapshotUnasked, SnapshotLast, SnapshotTaken, Unasked, AfterFlush
<1>3. CASE liveQ' = liveQ
  BY <1>1, <1>2, <1>3
     DEF QueriesApart, NoQueryWhileDraining, LiveFresh, CacheFresh, LiveAtRest
<1>4. CASE liveQ' = Append(liveQ, Msg("event", e))
  <2>1. /\ Msg("event", e) \in Message /\ Msg("event", e).kind = "event"
        /\ Msg("event", e).env = e
    BY MsgType DEF Msg
  <2>2. /\ Len(liveQ') = Len(liveQ) + 1 /\ Len(liveQ) \in Nat /\ liveQ' # <<>>
        /\ \A i \in 1..Len(liveQ) : liveQ'[i] = liveQ[i]
        /\ liveQ'[Len(liveQ) + 1] = Msg("event", e)
        /\ \A m \in Elems(liveQ') : m \in Elems(liveQ) \/ m = Msg("event", e)
        /\ liveQ # <<>> => Head(liveQ') = Head(liveQ)
        /\ liveQ = <<>> => Head(liveQ') = Msg("event", e)
    BY <1>4, <2>1, AppendFacts, ElemsFacts
  <2>3. QueriesApart'
    <3> SUFFICES ASSUME NEW i \in 1..Len(liveQ'), i > 1,
                        liveQ'[i].kind \in {"snapshot", "reset"}
                 PROVE  liveQ'[i-1].kind # "event"
      BY DEF QueriesApart
    <3>1. i \in 1..Len(liveQ) /\ i - 1 \in 1..Len(liveQ)
      BY <2>1, <2>2
    <3> QED
      BY <2>2, <3>1 DEF QueriesApart
  <2>4. NoQueryWhileDraining'
    BY <2>1, <2>2 DEF NoQueryWhileDraining
  <2>5. LiveFresh'
    BY <2>1, <2>2 DEF LiveFresh
  <2>6. CacheFresh'
    BY <2>2 DEF CacheFresh, LiveAtRest
  <2> QED
    BY <1>1, <1>2, <2>3, <2>4, <2>5, <2>6
<1> QED
  BY <1>3, <1>4

LEMMA LiveFinish ==
  ASSUME TypeOK, Numbering, LiveInv, DeleteFeed \/ DeleteGiveUp
  PROVE  LiveInv'
<1>1. /\ Finish /\ UNCHANGED <<liveVars, liveEpoch>> /\ rpc \in Compacting
      /\ liveNode' \subseteq liveNode
  BY DEF DeleteFeed, DeleteGiveUp, DeleteUnanswered, Compacting, AfterFlush
<1>2. rpc' = "idle" /\ liveQ' \in {liveQ, Append(liveQ, Msg("event", ev))}
  BY <1>1, RouteFacts DEF Finish
<1>3. ev \in Envelope /\ ev.seq >= liveEpoch
  BY <1>1 DEF Numbering, TypeOK, RouterTypeOK, CloudTypeOK
<1> QED
  BY <1>1, <1>2, <1>3, LiveRouted

LEMMA LiveReceive == TypeOK /\ Numbering /\ LiveInv /\ Receive => LiveInv'
<1> SUFFICES ASSUME TypeOK, Numbering, LiveInv,
                    NEW t \in Emitted, NEW id \in Matches \cup {NoId},
                    NEW replay \in ReplayFlags,
                    HandleEvent(t, id, replay) \/ BeginCompaction(t, id, replay)
             PROVE  LiveInv'
  BY DEF Receive
<1>1. /\ sequence' = sequence + 1 /\ EventOf(t, id) \in Envelope
      /\ EventOf(t, id).seq = sequence + 1
  <2>1. TakeIn(t, id, replay) /\ replay \in BOOLEAN
    BY PipelineAssumption DEF HandleEvent, BeginCompaction
  <2>2. EventOf(t, id) \in Envelope
    BY <2>1, TakeInType
  <2> QED
    BY <2>1, <2>2 DEF TakeIn, EventOf
<1>2. CASE HandleEvent(t, id, replay)
  <2>1. liveQ' \in {liveQ, Append(liveQ, Msg("event", EventOf(t, id)))}
    BY <1>2, RouteFacts DEF HandleEvent
  <2>2. rpc' = "idle" /\ UNCHANGED <<liveVars, liveEpoch, liveNode>>
    BY <1>2 DEF HandleEvent
  <2>3. EventOf(t, id).seq >= liveEpoch
    BY <1>1 DEF Numbering, TypeOK, RouterTypeOK, CloudTypeOK
  <2> QED
    BY <1>1, <2>1, <2>2, <2>3, LiveRouted
<1>3. CASE BeginCompaction(t, id, replay)
  <2> USE DEF TypeOK, RouterTypeOK, LaneTypeOK, ActorTypeOK, LiveInv
  <2>1. /\ rpc' = "flushLive" /\ acks' = {}
        /\ UNCHANGED <<liveQ, liveVars, liveNode, liveEpoch, shutdown>>
    BY <1>3 DEF BeginCompaction
  <2>2. \A m \in Elems(liveQ) : m.env.seq \in Nat /\ m.env.seq < sequence'
    BY <1>1, ElemsFacts DEF Numbering
  <2>3. LiveUnasked'
    BY <1>1, <2>1, <2>2 DEF LiveUnasked, Numbering
  <2>4. LiveBarrier' /\ LiveQuiet'
    BY <2>1 DEF LiveBarrier, LiveQuiet, FlushSent, AfterFlush
  <2>5. QueriesApart' /\ NoQueryWhileDraining' /\ LiveFresh' /\ CacheFresh'
    BY <2>1 DEF QueriesApart, NoQueryWhileDraining, LiveFresh, CacheFresh,
                LiveAtRest
  <2>6. SnapshotUnasked' /\ SnapshotLast' /\ SnapshotTaken'
    BY <2>1, <2>2 DEF SnapshotUnasked, SnapshotLast, SnapshotTaken, AfterFlush
  <2> QED
    BY <2>3, <2>4, <2>5, <2>6
<1> QED
  BY <1>2, <1>3

(* Taking the head off the lane keeps what is said of its order.           *)
LEMMA LiveTail ==
  ASSUME TypeOK, LiveInv, liveQ # <<>>, liveQ' = Tail(liveQ),
         UNCHANGED <<rpc, sequence, liveSent>>
  PROVE  /\ QueriesApart' /\ SnapshotLast'
         /\ Elems(liveQ') \subseteq Elems(liveQ)
         /\ FlushSent' <=> FlushSent
         /\ FlushSent =>
              /\ \A i, j \in 1..Len(liveQ') :
                   i < j /\ liveQ'[i].kind = "flush"
                   /\ liveQ'[i].env.seq = sequence
                     => liveQ'[j].kind # "event"
              /\ liveQ' # <<>> => liveQ'[Len(liveQ')].kind # "event"
         /\ Head(liveQ).kind = "event"
              => /\ FlushSent => liveQ' # <<>>
                 /\ liveQ' # <<>> => Head(liveQ').kind \notin {"snapshot", "reset"}
         /\ Head(liveQ).kind = "flush" /\ Head(liveQ).env.seq = sequence
              => (FlushSent => NoLiveEvent')
         /\ Head(liveQ).kind = "snapshot" /\ Head(liveQ).env.seq = sequence
              => (rpc \in AfterFlush => liveQ' = <<>>)
         /\ Len(liveQ) = 1 => liveQ' = <<>>
<1> USE DEF TypeOK, LaneTypeOK, LiveInv
<1>1. /\ Len(liveQ) \in Nat \ {0} /\ Head(liveQ) = liveQ[1]
      /\ liveQ' \in Seq(Message) /\ Len(liveQ') = Len(liveQ) - 1
      /\ \A i \in 1..(Len(liveQ) - 1) : liveQ'[i] = liveQ[i + 1]
      /\ Elems(liveQ') \subseteq Elems(liveQ)
      /\ liveQ' = <<>> <=> Len(liveQ) = 1
      /\ liveQ' # <<>> => Head(liveQ') = liveQ[2] /\ Len(liveQ) >= 2
  BY TailFacts
<1>2. QueriesApart'
  <2> SUFFICES ASSUME NEW i \in 1..Len(liveQ'), i > 1,
                      liveQ'[i].kind \in {"snapshot", "reset"}
               PROVE  liveQ'[i-1].kind # "event"
    BY DEF QueriesApart
  <2>1. /\ i + 1 \in 1..Len(liveQ) /\ liveQ'[i] = liveQ[i + 1]
        /\ liveQ'[i-1] = liveQ[i]
    BY <1>1
  <2>2. (i + 1) - 1 = i /\ i + 1 > 1
    OBVIOUS
  <2> QED
    BY <2>1, <2>2 DEF QueriesApart
<1>3. SnapshotLast'
  <2> SUFFICES ASSUME rpc \in AfterFlush, NEW i \in 1..Len(liveQ'),
                      liveQ'[i].kind = "snapshot",
                      liveQ'[i].env.seq = sequence
               PROVE  i = Len(liveQ')
    BY DEF SnapshotLast
  <2>1. i + 1 \in 1..Len(liveQ) /\ liveQ'[i] = liveQ[i + 1]
    BY <1>1
  <2>2. i + 1 = Len(liveQ)
    BY <2>1 DEF SnapshotLast
  <2>3. Len(liveQ) = Len(liveQ') + 1 /\ Len(liveQ') \in Nat /\ i \in Nat
    BY <1>1
  <2> HIDE DEF TypeOK, LaneTypeOK, LiveInv
  <2> QED
    BY <2>2, <2>3
<1>4. FlushSent' <=> FlushSent
  BY DEF FlushSent
<1>5. ASSUME FlushSent
      PROVE  /\ \A i, j \in 1..Len(liveQ') :
                  i < j /\ liveQ'[i].kind = "flush"
                  /\ liveQ'[i].env.seq = sequence
                    => liveQ'[j].kind # "event"
             /\ liveQ' # <<>> => liveQ'[Len(liveQ')].kind # "event"
  <2>1. ASSUME NEW i \in 1..Len(liveQ'), NEW j \in 1..Len(liveQ'), i < j,
               liveQ'[i].kind = "flush", liveQ'[i].env.seq = sequence
        PROVE  liveQ'[j].kind # "event"
    <3>1. /\ i + 1 \in 1..Len(liveQ) /\ liveQ'[i] = liveQ[i + 1]
          /\ j + 1 \in 1..Len(liveQ) /\ liveQ'[j] = liveQ[j + 1]
          /\ i + 1 < j + 1
      BY <1>1, <2>1
    <3> QED
      BY <1>5, <2>1, <3>1 DEF LiveBarrier
  <2>2. liveQ' # <<>> => liveQ'[Len(liveQ')] = liveQ[Len(liveQ)]
    BY <1>1
  <2>3. liveQ[Len(liveQ)].kind # "event"
    BY <1>5 DEF LiveQuiet
  <2> QED
    BY <2>1, <2>2, <2>3
<1>6. ASSUME Head(liveQ).kind = "event"
      PROVE  /\ FlushSent => liveQ' # <<>>
             /\ liveQ' # <<>> => Head(liveQ').kind \notin {"snapshot", "reset"}
  <2>1. FlushSent => liveQ' # <<>>
    BY <1>1, <1>6 DEF LiveQuiet
  <2>2. liveQ' # <<>> => liveQ[2].kind \notin {"snapshot", "reset"}
    <3>1. Len(liveQ) >= 2 /\ liveQ[2].kind \in {"snapshot", "reset"}
            => liveQ[2-1].kind # "event"
      BY <1>1 DEF QueriesApart
    <3>2. 2 - 1 = 1
      OBVIOUS
    <3> QED
      BY <1>1, <1>6, <3>1, <3>2
  <2> QED
    BY <1>1, <2>1, <2>2
<1>7. ASSUME Head(liveQ).kind = "flush", Head(liveQ).env.seq = sequence,
             FlushSent
      PROVE  NoLiveEvent'
  <2>1. ASSUME NEW j \in 1..Len(liveQ') PROVE liveQ'[j].kind # "event"
    <3>1. /\ 1 \in 1..Len(liveQ) /\ j + 1 \in 1..Len(liveQ) /\ 1 < j + 1
          /\ liveQ'[j] = liveQ[j + 1]
      BY <1>1
    <3> QED
      BY <1>1, <1>7, <3>1 DEF LiveBarrier
  <2>2. DOMAIN liveQ' = 1..Len(liveQ')
    BY <1>1, LenProperties
  <2> QED
    BY <2>1, <2>2 DEF NoLiveEvent, Elems
<1>8. ASSUME Head(liveQ).kind = "snapshot", Head(liveQ).env.seq = sequence,
             rpc \in AfterFlush
      PROVE  liveQ' = <<>>
  <2>1. 1 \in 1..Len(liveQ) /\ liveQ[1] = Head(liveQ)
    BY <1>1
  <2>2. 1 = Len(liveQ)
    BY <1>8, <2>1 DEF SnapshotLast
  <2> QED
    BY <1>1, <2>2
<1> QED
  BY <1>1, <1>2, <1>3, <1>4, <1>5, <1>6, <1>7, <1>8

(* With the snapshot answered, the lane holds nothing but the reset.       *)
LEMMA LiveTakenHead ==
  ASSUME LiveInv, "snapshot" \in acks, liveQ # <<>>, TypeOK,
         rpc \in {"snapWait", "aggregate", "reset", "deleteLive", "deleteFeed"}
  PROVE  /\ rpc \in {"deleteLive", "deleteFeed"}
         /\ Head(liveQ).kind = "reset" /\ Len(liveQ) = 1
BY HeadIsFirst DEF LiveInv, SnapshotTaken, TypeOK, LaneTypeOK

(* The actor takes an event in hand, or merges the one it holds first.     *)
LEMMA LiveTakesEvent ==
  ASSUME TypeOK, Numbering, LiveInv, LiveEvent \/ LiveCoalesce
  PROVE  LiveInv'
<1> USE DEF TypeOK, RouterTypeOK, LaneTypeOK, ActorTypeOK, CloudTypeOK
<1>1. /\ liveQ # <<>> /\ Head(liveQ).kind = "event" /\ liveQ' = Tail(liveQ)
      /\ livePc' = "drain" /\ liveHeld' = Head(liveQ).env
      /\ livePc \in {"recv", "drain"} /\ liveFlush' = liveFlush
      /\ UNCHANGED <<rpc, sequence, liveSent, shutdown, acks, liveNode, liveEpoch>>
      /\ \A e \in master' : e \in master \/ (livePc = "drain" /\ e = liveHeld)
  <2>1. CASE LiveEvent
    BY <2>1 DEF LiveEvent
  <2>2. CASE LiveCoalesce
    <3>1. \A e \in master' : e \in master \/ e = liveHeld
      BY <2>2 DEF LiveCoalesce, MergeHeld, Players
    <3> QED
      BY <2>2, <3>1 DEF LiveCoalesce
  <2> QED
    BY <2>1, <2>2
<1>2. /\ QueriesApart' /\ SnapshotLast' /\ Elems(liveQ') \subseteq Elems(liveQ)
      /\ FlushSent' <=> FlushSent
      /\ FlushSent => liveQ' # <<>> /\ liveQ'[Len(liveQ')].kind # "event"
      /\ FlushSent => \A i, j \in 1..Len(liveQ') :
           i < j /\ liveQ'[i].kind = "flush" /\ liveQ'[i].env.seq = sequence
             => liveQ'[j].kind # "event"
      /\ liveQ' # <<>> => Head(liveQ').kind \notin {"snapshot", "reset"}
  BY <1>1, LiveTail
<1> USE DEF LiveInv
<1>3. Head(liveQ) \in Elems(liveQ)
  BY <1>1, TailFacts
<1>4. LiveUnasked'
  BY <1>1, <1>2 DEF LiveUnasked
<1>5. LiveBarrier'
  <2>1. FlushSent => "live" \notin acks
    BY <1>1, <1>3 DEF LiveBarrier, NoLiveEvent
  <2> QED
    BY <1>1, <1>2, <2>1 DEF LiveBarrier
<1>6. LiveQuiet' /\ NoQueryWhileDraining'
  BY <1>1, <1>2 DEF LiveQuiet, NoQueryWhileDraining
<1>7. SnapshotUnasked'
  BY <1>1, <1>2 DEF SnapshotUnasked
<1>8. SnapshotTaken'
  <2>1. "snapshot" \in acks
          => rpc \notin {"snapWait", "aggregate", "reset", "deleteLive",
                         "deleteFeed"}
    BY <1>1, LiveTakenHead
  <2> QED
    BY <1>1, <2>1 DEF SnapshotTaken
<1>9. LiveFresh'
  BY <1>1, <1>2, <1>3 DEF LiveFresh
<1>10. CacheFresh'
  <2>1. \A e \in master : e.seq >= liveEpoch
    BY <1>1 DEF CacheFresh
  <2> QED
    BY <1>1, <2>1 DEF CacheFresh, LiveFresh
<1> QED
  BY <1>2, <1>4, <1>5, <1>6, <1>7, <1>8, <1>9, <1>10

LEMMA LiveSendKeeps ==
  ASSUME TypeOK, Numbering, LiveInv, LiveSend
  PROVE  LiveInv'
<1> USE DEF TypeOK, RouterTypeOK, LaneTypeOK, ActorTypeOK, CloudTypeOK
<1>1. /\ livePc = "drain" /\ livePc' = "send" /\ liveHeld' = liveHeld
      /\ UNCHANGED <<rpc, sequence, liveSent, shutdown, acks, liveNode, liveEpoch>>
      /\ \A e \in master' : e \in master \/ e = liveHeld
      /\ \/ liveQ = <<>> /\ liveQ' = liveQ /\ liveFlush' = 0
         \/ /\ liveQ # <<>> /\ Head(liveQ).kind = "flush"
            /\ liveFlush' = Head(liveQ).env.seq /\ liveQ' = Tail(liveQ)
  BY DEF LiveSend, MergeHeld, Players
<1>2. FlushSent \/ rpc = "flushLive" => sequence > 0
  BY Constant DEF FlushSent, AfterFlush, Numbering
<1>3. /\ QueriesApart' /\ SnapshotLast' /\ Elems(liveQ') \subseteq Elems(liveQ)
      /\ FlushSent' <=> FlushSent
      /\ FlushSent =>
           /\ \A i, j \in 1..Len(liveQ') :
                i < j /\ liveQ'[i].kind = "flush"
                /\ liveQ'[i].env.seq = sequence
                  => liveQ'[j].kind # "event"
           /\ liveQ' # <<>> => liveQ'[Len(liveQ')].kind # "event"
           /\ liveFlush' = sequence => NoLiveEvent'
  <2>1. CASE liveQ = <<>> /\ liveQ' = liveQ /\ liveFlush' = 0
    <3>1. Elems(liveQ') = {}
      BY <2>1, ElemsFacts
    <3>2. FlushSent' <=> FlushSent
      BY <1>1 DEF FlushSent
    <3>3. QueriesApart' /\ SnapshotLast'
      BY <1>1, <2>1 DEF LiveInv, QueriesApart, SnapshotLast
    <3>4. Len(liveQ') = 0
      BY <2>1, EmptySeq
    <3> QED
      BY <1>2, <2>1, <3>1, <3>2, <3>3, <3>4
  <2>2. CASE /\ liveQ # <<>> /\ Head(liveQ).kind = "flush"
             /\ liveFlush' = Head(liveQ).env.seq /\ liveQ' = Tail(liveQ)
    BY <1>1, <2>2, LiveTail
  <2> QED
    BY <1>1, <2>1, <2>2
<1> USE DEF LiveInv
<1>4. LiveUnasked'
  <2>1. liveQ # <<>> => Head(liveQ) \in Elems(liveQ)
    BY TailFacts
  <2> QED
    BY <1>1, <1>2, <1>3, <2>1 DEF LiveUnasked
<1>5. LiveBarrier'
  BY <1>1, <1>3 DEF LiveBarrier, LiveAtRest
<1>6. LiveQuiet' /\ NoQueryWhileDraining'
  BY <1>1, <1>3 DEF LiveQuiet, NoQueryWhileDraining
<1>7. SnapshotUnasked'
  BY <1>1, <1>3 DEF SnapshotUnasked
<1>8. SnapshotTaken'
  BY <1>1 DEF SnapshotTaken, LiveAtRest
<1>9. LiveFresh'
  BY <1>1, <1>3 DEF LiveFresh
<1>10. CacheFresh'
  <2>1. \A e \in master : e.seq >= liveEpoch
    BY <1>1 DEF CacheFresh, LiveAtRest
  <2> QED
    BY <1>1, <2>1 DEF CacheFresh, LiveFresh
<1> QED
  BY <1>3, <1>4, <1>5, <1>6, <1>7, <1>8, <1>9, <1>10

LEMMA LiveSentKeeps ==
  ASSUME TypeOK, Numbering, LiveInv, LiveSent
  PROVE  LiveInv'
<1> USE DEF TypeOK, RouterTypeOK, LaneTypeOK, ActorTypeOK, CloudTypeOK, LiveInv
<1>1. /\ livePc = "send" /\ livePc' = "recv" /\ liveFlush' = 0
      /\ liveNode' \in {liveNode, master}
      /\ acks' = IF liveFlush = ev.seq /\ liveFlush # 0 THEN acks \cup {"live"}
                 ELSE acks
      /\ UNCHANGED <<rpc, sequence, liveSent, shutdown, liveQ, master, liveEpoch>>
  BY DEF LiveSent
<1>2. "snapshot" \in acks' <=> "snapshot" \in acks
  BY <1>1
<1>3. LiveUnasked'
  <2> SUFFICES ASSUME rpc = "flushLive" PROVE LiveUnasked'
    BY <1>1 DEF LiveUnasked
  <2>1. ev.seq = sequence /\ sequence > 0 /\ liveFlush < sequence
    BY Constant DEF Numbering, LiveUnasked
  <2>2. acks' = acks
    BY <1>1, <2>1
  <2> QED
    BY <1>1, <2>1, <2>2 DEF LiveUnasked
<1>4. LiveBarrier'
  <2> SUFFICES ASSUME FlushSent PROVE LiveBarrier'
    BY <1>1 DEF LiveBarrier, FlushSent
  <2>1. ev.seq = sequence
    BY Constant DEF Numbering, FlushSent
  <2>2. "live" \in acks' => NoLiveEvent
    BY <1>1, <2>1 DEF LiveBarrier
  <2> QED
    BY <1>1, <2>2 DEF LiveBarrier, NoLiveEvent, LiveAtRest
<1>5. LiveQuiet' /\ NoQueryWhileDraining' /\ QueriesApart'
  BY <1>1 DEF LiveQuiet, NoQueryWhileDraining, QueriesApart, FlushSent
<1>6. SnapshotUnasked' /\ SnapshotLast'
  BY <1>1, <1>2 DEF SnapshotUnasked, SnapshotLast
<1>7. SnapshotTaken'
  BY <1>1, <1>2 DEF SnapshotTaken, LiveAtRest
<1>8. \A e \in master : e.seq >= liveEpoch
  BY <1>1 DEF CacheFresh, LiveAtRest
<1>9. LiveFresh' /\ CacheFresh'
  BY <1>1, <1>8 DEF LiveFresh, CacheFresh
<1> QED
  BY <1>3, <1>4, <1>5, <1>6, <1>7, <1>9

(* A flush found at rest is answered at once.                              *)
LEMMA LiveFlushKeeps ==
  ASSUME TypeOK, Numbering, LiveInv, LiveFlush
  PROVE  LiveInv'
<1> USE DEF TypeOK, RouterTypeOK, LaneTypeOK, ActorTypeOK, CloudTypeOK
<1>1. /\ livePc = "recv" /\ liveQ # <<>> /\ Head(liveQ).kind = "flush"
      /\ liveQ' = Tail(liveQ)
      /\ acks' = IF Head(liveQ).env.seq = ev.seq THEN acks \cup {"live"} ELSE acks
      /\ UNCHANGED <<rpc, sequence, liveSent, shutdown, liveVars, liveNode,
                     liveEpoch>>
  BY DEF LiveFlush, Answer
<1>2. /\ QueriesApart' /\ SnapshotLast' /\ Elems(liveQ') \subseteq Elems(liveQ)
      /\ FlushSent' <=> FlushSent
      /\ FlushSent => \A i, j \in 1..Len(liveQ') :
           i < j /\ liveQ'[i].kind = "flush" /\ liveQ'[i].env.seq = sequence
             => liveQ'[j].kind # "event"
      /\ FlushSent /\ liveQ' # <<>> => liveQ'[Len(liveQ')].kind # "event"
      /\ Head(liveQ).env.seq = sequence => (FlushSent => NoLiveEvent')
  BY <1>1, LiveTail
<1>3. "snapshot" \in acks' <=> "snapshot" \in acks
  BY <1>1
<1>4. Head(liveQ) \in Elems(liveQ)
  BY <1>1, TailFacts
<1> USE DEF LiveInv
<1>5. LiveUnasked'
  <2> SUFFICES ASSUME rpc = "flushLive" PROVE LiveUnasked'
    BY <1>1 DEF LiveUnasked
  <2>1. ev.seq = sequence /\ Head(liveQ).env.seq < sequence
    BY <1>4, Constant DEF Numbering, LiveUnasked
  <2>2. acks' = acks
    BY <1>1, <2>1
  <2> QED
    BY <1>1, <1>2, <2>2 DEF LiveUnasked
<1>6. LiveBarrier'
  <2> SUFFICES ASSUME FlushSent PROVE LiveBarrier'
    BY <1>2 DEF LiveBarrier
  <2>1. ev.seq = sequence
    BY Constant DEF Numbering, FlushSent
  <2>2. "live" \in acks => NoLiveEvent'
    BY <1>2 DEF LiveBarrier, NoLiveEvent
  <2>3. "live" \in acks' => NoLiveEvent'
    BY <1>1, <1>2, <2>1, <2>2
  <2>4. livePc' = "recv" /\ LiveAtRest'
    BY <1>1 DEF liveVars, LiveAtRest
  <2>5. \A i, j \in 1..Len(liveQ') :
          i < j /\ liveQ'[i].kind = "flush" /\ liveQ'[i].env.seq = sequence'
            => liveQ'[j].kind # "event"
    BY <1>1, <1>2
  <2> QED
    BY <2>3, <2>4, <2>5 DEF LiveBarrier
<1>7. LiveQuiet' /\ NoQueryWhileDraining'
  BY <1>1, <1>2 DEF LiveQuiet, NoQueryWhileDraining
<1>8. SnapshotUnasked'
  BY <1>1, <1>2, <1>3 DEF SnapshotUnasked
<1>9. SnapshotTaken'
  <2>1. "snapshot" \in acks
          => rpc \notin {"snapWait", "aggregate", "reset", "deleteLive",
                         "deleteFeed"}
    BY <1>1, LiveTakenHead
  <2> QED
    BY <1>1, <1>3, <2>1 DEF SnapshotTaken
<1>10. LiveFresh' /\ CacheFresh'
  BY <1>1, <1>2 DEF LiveFresh, CacheFresh
<1> QED
  BY <1>2, <1>5, <1>6, <1>7, <1>8, <1>9, <1>10

(* The snapshot is answered at rest, from an otherwise empty lane.         *)
LEMMA LiveSnapshotKeeps ==
  ASSUME TypeOK, Numbering, LiveInv, LiveSnapshot
  PROVE  LiveInv'
<1> USE DEF TypeOK, RouterTypeOK, LaneTypeOK, ActorTypeOK, CloudTypeOK
<1>1. /\ livePc \in {"recv", "drain"} /\ liveQ # <<>>
      /\ Head(liveQ).kind = "snapshot" /\ liveQ' = Tail(liveQ)
      /\ acks' = IF Head(liveQ).env.seq = ev.seq THEN acks \cup {"snapshot"}
                 ELSE acks
      /\ UNCHANGED <<rpc, sequence, liveSent, shutdown, liveVars, liveNode,
                     liveEpoch>>
  BY DEF LiveSnapshot, Answer
<1>2. /\ QueriesApart' /\ SnapshotLast' /\ Elems(liveQ') \subseteq Elems(liveQ)
      /\ FlushSent' <=> FlushSent
      /\ FlushSent => \A i, j \in 1..Len(liveQ') :
           i < j /\ liveQ'[i].kind = "flush" /\ liveQ'[i].env.seq = sequence
             => liveQ'[j].kind # "event"
      /\ FlushSent /\ liveQ' # <<>> => liveQ'[Len(liveQ')].kind # "event"
      /\ Head(liveQ).env.seq = sequence => (rpc \in AfterFlush => liveQ' = <<>>)
  BY <1>1, LiveTail
<1>3. livePc = "recv"
  BY <1>1 DEF LiveInv, NoQueryWhileDraining
<1>4. Head(liveQ) \in Elems(liveQ) /\ Head(liveQ).env.seq \in Nat
  BY <1>1, TailFacts, ElemsFacts
<1>5. "live" \in acks' <=> "live" \in acks
  BY <1>1
<1> USE DEF LiveInv
<1>6. LiveUnasked' /\ LiveBarrier'
  BY <1>1, <1>2, <1>3, <1>5
     DEF LiveUnasked, LiveBarrier, NoLiveEvent, LiveAtRest
<1>7. LiveQuiet' /\ NoQueryWhileDraining'
  BY <1>1, <1>2, <1>3 DEF LiveQuiet, NoQueryWhileDraining
<1>8. rpc \in Unasked \/ (rpc = "deleteLive" /\ ~shutdown) => acks' = acks
  <2> SUFFICES ASSUME rpc \in Unasked \/ (rpc = "deleteLive" /\ ~shutdown)
               PROVE  acks' = acks
    OBVIOUS
  <2>1. rpc \in Compacting
    BY DEF Unasked, Compacting, AfterFlush
  <2>2. ev.seq = sequence /\ Head(liveQ).env.seq < sequence
    BY <1>1, <1>4, <2>1 DEF Numbering, SnapshotUnasked
  <2> QED
    BY <1>1, <1>4, <2>2
<1>9. SnapshotUnasked'
  BY <1>1, <1>2, <1>8 DEF SnapshotUnasked
<1>10. SnapshotTaken'
  <2>1. "snapshot" \in acks
          => rpc \notin {"snapWait", "aggregate", "reset", "deleteLive",
                         "deleteFeed"}
    BY <1>1, LiveTakenHead
  <2>2. rpc \notin {"aggregate", "reset"}
    BY <2>1 DEF SnapshotTaken
  <2>3. "snapshot" \in acks' /\ rpc \in {"snapWait", "deleteLive", "deleteFeed"}
          => liveQ' = <<>>
    <3> SUFFICES ASSUME "snapshot" \in acks',
                        rpc \in {"snapWait", "deleteLive", "deleteFeed"}
                 PROVE  liveQ' = <<>>
      OBVIOUS
    <3>1. rpc \in AfterFlush /\ rpc \in Compacting
      BY DEF AfterFlush, Compacting
    <3>2. Head(liveQ).env.seq = sequence
      BY <1>1, <2>1, <3>1 DEF Numbering
    <3> QED
      BY <1>2, <3>1, <3>2
  <2>4. LiveAtRest'
    BY <1>1, <1>3 DEF LiveAtRest
  <2>5. ~("snapshot" \in acks' /\ rpc = "deleteLive" /\ ~shutdown)
    BY <1>8, <2>1
  <2> QED
    BY <1>1, <2>2, <2>3, <2>4, <2>5 DEF SnapshotTaken
<1>11. LiveFresh' /\ CacheFresh'
  BY <1>1, <1>2, <1>3 DEF LiveFresh, CacheFresh
<1> QED
  BY <1>2, <1>6, <1>7, <1>9, <1>10, <1>11

LEMMA LiveResetKeeps ==
  ASSUME TypeOK, Numbering, LiveInv, LiveReset
  PROVE  LiveInv'
<1> USE DEF TypeOK, RouterTypeOK, LaneTypeOK, ActorTypeOK, CloudTypeOK
<1>1. /\ livePc \in {"recv", "drain"} /\ liveQ # <<>> /\ master' = {}
      /\ Head(liveQ).kind = "reset" /\ liveQ' = Tail(liveQ)
      /\ UNCHANGED <<rpc, sequence, liveSent, shutdown, acks, livePc, liveHeld,
                     liveFlush, liveNode, liveEpoch>>
  BY DEF LiveReset
<1>2. /\ QueriesApart' /\ SnapshotLast' /\ Elems(liveQ') \subseteq Elems(liveQ)
      /\ FlushSent' <=> FlushSent
      /\ FlushSent => \A i, j \in 1..Len(liveQ') :
           i < j /\ liveQ'[i].kind = "flush" /\ liveQ'[i].env.seq = sequence
             => liveQ'[j].kind # "event"
      /\ FlushSent /\ liveQ' # <<>> => liveQ'[Len(liveQ')].kind # "event"
      /\ Len(liveQ) = 1 => liveQ' = <<>>
  BY <1>1, LiveTail
<1>3. livePc = "recv"
  BY <1>1 DEF LiveInv, NoQueryWhileDraining
<1> USE DEF LiveInv
<1>4. LiveUnasked' /\ LiveBarrier'
  BY <1>1, <1>2, <1>3 DEF LiveUnasked, LiveBarrier, NoLiveEvent, LiveAtRest
<1>5. LiveQuiet' /\ NoQueryWhileDraining'
  BY <1>1, <1>2, <1>3 DEF LiveQuiet, NoQueryWhileDraining
<1>6. SnapshotUnasked'
  BY <1>1, <1>2 DEF SnapshotUnasked
<1>7. SnapshotTaken'
  <2>1. "snapshot" \in acks
          => /\ rpc \notin {"snapWait", "aggregate", "reset"}
             /\ rpc \in {"deleteLive", "deleteFeed"} => liveQ' = <<>>
    BY <1>1, <1>2, LiveTakenHead
  <2>2. LiveAtRest'
    BY <1>1, <1>3 DEF LiveAtRest
  <2> QED
    BY <1>1, <2>1, <2>2 DEF SnapshotTaken
<1>8. LiveFresh' /\ CacheFresh'
  BY <1>1, <1>2 DEF LiveFresh, CacheFresh
<1> QED
  BY <1>2, <1>4, <1>5, <1>6, <1>7, <1>8

LEMMA LiveStopKeeps ==
  ASSUME TypeOK, LiveInv, LiveStop
  PROVE  LiveInv'
<1> USE DEF LiveInv
<1>1. /\ livePc' = "stopped" /\ livePc \in {"recv", "drain"}
      /\ livePc = "drain" => rpc = "stopped" /\ liveQ = <<>>
      /\ UNCHANGED <<rpc, sequence, liveSent, shutdown, acks, liveQ, master,
                     liveFlush, liveNode, liveEpoch>>
  BY DEF LiveStop
<1>2. LiveUnasked' /\ LiveBarrier' /\ LiveQuiet'
  BY <1>1 DEF LiveUnasked, LiveBarrier, LiveQuiet, NoLiveEvent, LiveAtRest,
              FlushSent
<1>3. QueriesApart' /\ NoQueryWhileDraining' /\ SnapshotUnasked' /\ SnapshotLast'
  BY <1>1 DEF QueriesApart, NoQueryWhileDraining, SnapshotUnasked, SnapshotLast
<1>4. SnapshotTaken'
  BY <1>1 DEF SnapshotTaken, LiveAtRest
<1>5. LiveFresh' /\ CacheFresh'
  BY <1>1 DEF LiveFresh, CacheFresh, LiveAtRest
<1> QED
  BY <1>2, <1>3, <1>4, <1>5

(* The feed actor's steps do not show in the live lane.                    *)
LEMMA LiveFeedKeeps ==
  ASSUME TypeOK, LiveInv, FeedStep
  PROVE  LiveInv'
<1>1. UNCHANGED <<rpc, sequence, liveSent, shutdown, liveQ, liveVars, liveNode,
                  liveEpoch>>
  BY ActorFrame, ActorTakes
<1>2. /\ "live" \in acks' <=> "live" \in acks
      /\ "snapshot" \in acks' <=> "snapshot" \in acks
  BY DEF FeedStep, FeedEvent, FeedFlush, FeedDone, FeedFail, FeedRetry,
         FeedStop, Answer
<1>3. SnapshotTaken' /\ (FlushSent' => FlushSent)
  BY <1>1, <1>2 DEF LiveInv, SnapshotTaken, LiveAtRest, FlushSent
<1> QED
  BY <1>1, <1>2, <1>3, LiveFrame

LEMMA LiveStepKeeps ==
  ASSUME TypeOK, Numbering, LiveInv, [Next]_vars
  PROVE  LiveInv'
<1>1. CASE Receive
  BY <1>1, LiveReceive
<1>2. CASE RouterStep \/ Connect \/ Disconnect \/ Shutdown
  BY <1>2, LiveRouterMoves, LiveFlushLive, LiveFlushFeed, LiveRequestSnapshot,
     LiveSendReset, LiveDeleteLive, LiveFinish, Zenon DEF RouterStep
<1>3. CASE LiveStep
  BY <1>3, LiveTakesEvent, LiveSendKeeps, LiveSentKeeps, LiveFlushKeeps,
     LiveSnapshotKeeps, LiveResetKeeps, LiveStopKeeps, Zenon DEF LiveStep
<1>4. CASE FeedStep
  BY <1>4, LiveFeedKeeps
<1>5. CASE UNCHANGED vars
  <2>1. UNCHANGED <<rpc, sequence, liveSent, shutdown, acks, liveQ, liveVars,
                    liveNode, liveEpoch>>
    BY <1>5 DEF vars
  <2>2. SnapshotTaken' /\ (FlushSent' => FlushSent)
    BY <2>1 DEF LiveInv, SnapshotTaken, LiveAtRest, FlushSent
  <2> QED
    BY <2>1, <2>2, LiveFrame
<1> QED
  BY <1>1, <1>2, <1>3, <1>4, <1>5 DEF Next, Exited

-----------------------------------------------------------------------------
LEMMA InitBarrier == Init => BarrierInv
<1> SUFFICES ASSUME Init PROVE BarrierInv
  OBVIOUS
<1>1. Elems(<<>>) = {} /\ Len(<<>>) = 0
  BY EmptySeq DEF Elems
<1>2. Numbering /\ FeedInv
  BY <1>1 DEF Init, Numbering, FeedInv, FeedUnasked, FeedBarrier, FeedFresh,
              Compacting, AfterFlush
<1>3. LiveUnasked /\ LiveBarrier /\ LiveQuiet /\ QueriesApart
  BY <1>1 DEF Init, LiveUnasked, LiveBarrier, LiveQuiet, QueriesApart, FlushSent,
              AfterFlush
<1>4. NoQueryWhileDraining /\ SnapshotUnasked /\ SnapshotLast /\ SnapshotTaken
  BY <1>1 DEF Init, NoQueryWhileDraining, SnapshotUnasked, SnapshotLast,
              SnapshotTaken, Unasked, AfterFlush
<1>5. LiveFresh /\ CacheFresh
  BY <1>1 DEF Init, LiveFresh, CacheFresh
<1> QED
  BY <1>2, <1>3, <1>4, <1>5 DEF BarrierInv, LiveInv

(* In every reachable state the lanes, the oneshots, the actors and the    *)
(* nodes stand in the relation the compaction barrier relies on.           *)
THEOREM BarrierInvariant == Spec => []BarrierInv
<1>1. TypeOK /\ BarrierInv /\ [Next]_vars => BarrierInv'
  BY NumberingStep, FeedStepKeeps, LiveStepKeeps DEF BarrierInv
<1> QED
  BY InitBarrier, TypeCorrect, <1>1, PTL DEF Spec

(* No data bleed, for any set of matches, any lane capacities and retry    *)
(* budgets: no event from before a cleanly closed boundary is ever shown.  *)
THEOREM NoDataBleedAlways == Spec => []NoDataBleed
<1>1. BarrierInv => NoDataBleed
  BY DEF BarrierInv, FeedInv, FeedFresh, LiveInv, LiveFresh, NoDataBleed
<1> QED
  BY BarrierInvariant, <1>1, PTL

(* An acknowledged flush, or an answered snapshot, means a drained lane.   *)
THEOREM BarrierDrainsAlways == Spec => []BarrierDrains
<1>1. TypeOK /\ BarrierInv => BarrierDrains
  <2> SUFFICES ASSUME TypeOK, BarrierInv, rpc \in AfterFlush
               PROVE  /\ "feed" \in acks => FeedPending = {}
                      /\ acks \cap {"live", "snapshot"} # {} => LivePending = {}
    BY DEF BarrierDrains
  <2> USE DEF TypeOK, LaneTypeOK, BarrierInv
  <2>1. "feed" \in acks => FeedPending = {}
    <3>1. "feed" \in acks => Elems(feedQ) = {} /\ feedPc \in {"recv", "stopped"}
      BY ElemsFacts DEF FeedInv, FeedBarrier
    <3> QED
      BY <3>1 DEF FeedPending
  <2>2. "live" \in acks => NoLiveEvent /\ LiveAtRest
    BY DEF LiveInv, LiveBarrier, FlushSent
  <2>3. "snapshot" \in acks => NoLiveEvent /\ LiveAtRest
    <3> SUFFICES ASSUME "snapshot" \in acks PROVE NoLiveEvent /\ LiveAtRest
      OBVIOUS
    <3>1. rpc \in {"snapWait", "aggregate", "reset", "deleteLive", "deleteFeed"}
      BY DEF LiveInv, SnapshotUnasked, Unasked, AfterFlush
    <3>2. LiveAtRest
      BY <3>1 DEF LiveInv, SnapshotTaken
    <3>3. CASE liveQ = <<>>
      BY <3>2, <3>3, ElemsFacts DEF NoLiveEvent
    <3>4. CASE liveQ # <<>>
      <4>1. Len(liveQ) = 1 /\ Head(liveQ).kind = "reset"
        BY <3>1, <3>4, LiveTakenHead
      <4>2. \A m \in Elems(liveQ) : m = liveQ[1]
        BY <4>1, LenProperties DEF Elems
      <4> QED
        BY <3>2, <4>1, <4>2, HeadIsFirst DEF NoLiveEvent
    <3> QED
      BY <3>3, <3>4
  <2>4. NoLiveEvent /\ LiveAtRest => LivePending = {}
    BY DEF NoLiveEvent, LiveAtRest, LivePending
  <2> QED
    BY <2>1, <2>2, <2>3, <2>4
<1> QED
  BY BarrierInvariant, TypeCorrect, <1>1, PTL

(* The reset after a snapshot always finds room: the router's one send     *)
(* without a timeout cannot wait.                                          *)
THEOREM ResetNeverBlocksAlways == Spec => []ResetNeverBlocks
<1>1. BarrierInv => ResetNeverBlocks
  <2>1. BarrierInv /\ rpc = "reset" => liveQ = <<>>
    BY DEF BarrierInv, LiveInv, SnapshotTaken
  <2>2. liveQ = <<>> => HasRoom(liveQ, LiveCap)
    BY PipelineAssumption, EmptySeq DEF HasRoom
  <2> QED
    BY <2>1, <2>2 DEF ResetNeverBlocks
<1> QED
  BY BarrierInvariant, <1>1, PTL

-----------------------------------------------------------------------------
(* Refinement of TransientNode: an epoch opens with an empty node, and any *)
(* other step writes nothing older than the epoch.                         *)
LEMMA FeedNodeStep ==
  ASSUME TypeOK, BarrierInv, TypeOK', BarrierInv', [Next]_vars
  PROVE  [FeedView!NodeNext]_FeedView!nodeVars
<1> USE DEF FeedView!NodeNext, FeedView!Publish, FeedView!OpenEpoch,
            FeedView!nodeVars, TypeOK, CloudTypeOK, RouterTypeOK
<1>1. CASE feedEpoch' = feedEpoch
  <2>1. {e.seq : e \in feedNode}' \in SUBSET Nat
    BY DEF Envelope
  <2>2. \A s \in {e.seq : e \in feedNode}' : s >= feedEpoch
    BY <1>1 DEF BarrierInv, FeedInv, FeedFresh
  <2> QED
    BY <1>1, <2>1, <2>2
<1>2. CASE DeleteFeed /\ "feed" \in acks
  <2>1. feedNode' = {} /\ feedEpoch' = sequence /\ feedEpoch < sequence
    BY <1>2 DEF DeleteFeed, BarrierInv, Numbering, Compacting, AfterFlush
  <2> QED
    BY <2>1
<1>3. feedEpoch' = feedEpoch \/ (DeleteFeed /\ "feed" \in acks)
  <2>1. CASE RouterStep
    BY <2>1
       DEF RouterStep, FlushLive, FlushFeed, AwaitAck, RequestSnapshot,
           ReceiveSnapshot, Aggregate, SendReset, DeleteLive, DeleteFeed,
           DeleteRetry, DeleteGiveUp, RouterStop, RouterGoes
  <2>2. CASE LiveStep \/ FeedStep
    BY <2>2, ActorFrame
  <2>3. CASE Receive
    BY <2>3 DEF Receive, HandleEvent, BeginCompaction
  <2>4. CASE Connect \/ Disconnect \/ Shutdown \/ UNCHANGED vars
    BY <2>4 DEF Connect, Disconnect, Shutdown, RouterGoes, vars
  <2> QED
    BY <2>1, <2>2, <2>3, <2>4 DEF Next, Exited
<1> QED
  BY <1>1, <1>2, <1>3

LEMMA LiveNodeStep ==
  ASSUME TypeOK, BarrierInv, TypeOK', BarrierInv', [Next]_vars
  PROVE  [LiveView!NodeNext]_LiveView!nodeVars
<1> USE DEF LiveView!NodeNext, LiveView!Publish, LiveView!OpenEpoch,
            LiveView!nodeVars, TypeOK, CloudTypeOK, RouterTypeOK
<1>1. CASE liveEpoch' = liveEpoch
  <2>1. {e.seq : e \in liveNode}' \in SUBSET Nat
    BY DEF Envelope
  <2>2. \A s \in {e.seq : e \in liveNode}' : s >= liveEpoch
    BY <1>1 DEF BarrierInv, LiveInv, LiveFresh
  <2> QED
    BY <1>1, <2>1, <2>2
<1>2. CASE DeleteLive /\ "snapshot" \in acks
  <2>1. liveNode' = {} /\ liveEpoch' = sequence /\ liveEpoch < sequence
    BY <1>2 DEF DeleteLive, BarrierInv, Numbering, Compacting, AfterFlush
  <2> QED
    BY <2>1
<1>3. liveEpoch' = liveEpoch \/ (DeleteLive /\ "snapshot" \in acks)
  <2>1. CASE RouterStep
    BY <2>1
       DEF RouterStep, FlushLive, FlushFeed, AwaitAck, RequestSnapshot,
           ReceiveSnapshot, Aggregate, SendReset, DeleteLive, DeleteFeed,
           DeleteRetry, DeleteGiveUp, RouterStop, RouterGoes
  <2>2. CASE LiveStep \/ FeedStep
    BY <2>2, ActorFrame
  <2>3. CASE Receive
    BY <2>3 DEF Receive, HandleEvent, BeginCompaction
  <2>4. CASE Connect \/ Disconnect \/ Shutdown \/ UNCHANGED vars
    BY <2>4 DEF Connect, Disconnect, Shutdown, RouterGoes, vars
  <2> QED
    BY <2>1, <2>2, <2>3, <2>4 DEF Next, Exited
<1> QED
  BY <1>1, <1>2, <1>3

(* The pipeline implements the promise of live_events_feed ...             *)
THEOREM FeedRefinesNode == Spec => FeedImplementsNode
<1>1. Init => FeedView!NodeInit
  BY DEF Init, FeedView!NodeInit
<1>2. TypeOK /\ BarrierInv /\ TypeOK' /\ BarrierInv' /\ [Next]_vars
        => [FeedView!NodeNext]_FeedView!nodeVars
  BY FeedNodeStep
<1> QED
  BY <1>1, <1>2, TypeCorrect, BarrierInvariant, PTL
     DEF Spec, FeedImplementsNode, FeedView!NodeSpec

(* ... and of live_state.                                                  *)
THEOREM LiveRefinesNode == Spec => LiveImplementsNode
<1>1. Init => LiveView!NodeInit
  BY DEF Init, LiveView!NodeInit
<1>2. TypeOK /\ BarrierInv /\ TypeOK' /\ BarrierInv' /\ [Next]_vars
        => [LiveView!NodeNext]_LiveView!nodeVars
  BY LiveNodeStep
<1> QED
  BY <1>1, <1>2, TypeCorrect, BarrierInvariant, PTL
     DEF Spec, LiveImplementsNode, LiveView!NodeSpec

-----------------------------------------------------------------------------
(***************************************************************************)
(* The upload.                                                             *)
(***************************************************************************)

-----------------------------------------------------------------------------
(* What a message more, or one less, does to the telemetry in a queue.     *)
LEMMA ElemsAppend ==
  ASSUME NEW q \in Seq(Message), NEW m \in Message
  PROVE  Elems(Append(q, m)) = Elems(q) \cup {m}
<1>1. /\ Append(q, m) \in Seq(Message) /\ Len(Append(q, m)) = Len(q) + 1
      /\ \A i \in 1..Len(q) : Append(q, m)[i] = q[i]
      /\ Append(q, m)[Len(q) + 1] = m
      /\ \A x \in Elems(Append(q, m)) : x \in Elems(q) \/ x = m
  BY AppendFacts
<1>2. DOMAIN q = 1..Len(q) /\ DOMAIN Append(q, m) = 1..(Len(q) + 1) /\ Len(q) \in Nat
  BY <1>1, LenProperties
<1>3. m \in Elems(Append(q, m))
  BY <1>1, <1>2 DEF Elems
<1>4. \A x \in Elems(q) : x \in Elems(Append(q, m))
  BY <1>1, <1>2 DEF Elems
<1> QED
  BY <1>1, <1>3, <1>4

LEMMA ElemsTail ==
  ASSUME NEW q \in Seq(Message), q # <<>>
  PROVE  Elems(q) = {Head(q)} \cup Elems(Tail(q))
<1>1. /\ Len(q) \in Nat \ {0} /\ Head(q) = q[1] /\ Head(q) \in Elems(q)
      /\ Tail(q) \in Seq(Message) /\ Len(Tail(q)) = Len(q) - 1
      /\ \A i \in 1..(Len(q) - 1) : Tail(q)[i] = q[i + 1]
      /\ Elems(Tail(q)) \subseteq Elems(q)
  BY TailFacts
<1>2. DOMAIN q = 1..Len(q) /\ DOMAIN Tail(q) = 1..(Len(q) - 1)
  BY <1>1, LenProperties
<1>3. ASSUME NEW i \in 1..Len(q) PROVE q[i] \in {Head(q)} \cup Elems(Tail(q))
  <2>1. CASE i = 1
    BY <2>1, <1>1
  <2>2. CASE i # 1
    <3>1. i - 1 \in 1..(Len(q) - 1) /\ (i - 1) + 1 = i
      BY <2>2, <1>1
    <3>2. Tail(q)[i - 1] = q[i]
      BY <3>1, <1>1
    <3>3. Tail(q)[i - 1] \in Elems(Tail(q))
      BY <3>1, <1>2 DEF Elems
    <3> QED
      BY <3>2, <3>3
  <2> QED
    BY <2>1, <2>2
<1> QED
  BY <1>1, <1>2, <1>3 DEF Elems

LEMMA QueuedAppend ==
  ASSUME NEW q \in Seq(Message), NEW m \in Message
  PROVE  Queued(Append(q, m)) =
           Queued(q) \cup (IF m.kind = "event" THEN Players(m.env) ELSE {})
BY ElemsAppend DEF Queued

LEMMA QueuedTail ==
  ASSUME NEW q \in Seq(Message), q # <<>>
  PROVE  Queued(q) =
           Queued(Tail(q))
           \cup (IF Head(q).kind = "event" THEN Players(Head(q).env) ELSE {})
BY ElemsTail DEF Queued

LEMMA QueuedEmpty == Queued(<<>>) = {}
BY EmptySeq DEF Queued, Elems

(* A queue in which a reset can only be the first message.                 *)
LEMMA NoReset ==
  ASSUME TypeOK, ResetFirst, liveQ # <<>>
  PROVE  /\ Head(liveQ).kind # "reset"
              => \A m \in Elems(liveQ) : m.kind # "reset"
         /\ ~LiveAtRest => Head(liveQ).kind # "reset"
         /\ \A m \in Elems(Tail(liveQ)) : m.kind # "reset"
         /\ Tail(liveQ) # <<>> => Head(Tail(liveQ)).kind # "reset"
<1> USE DEF TypeOK, LaneTypeOK
<1>1. /\ Len(liveQ) \in Nat \ {0} /\ Head(liveQ) = liveQ[1]
      /\ Tail(liveQ) \in Seq(Message) /\ Len(Tail(liveQ)) = Len(liveQ) - 1
      /\ \A i \in 1..(Len(liveQ) - 1) : Tail(liveQ)[i] = liveQ[i + 1]
  BY TailFacts
<1>2. /\ DOMAIN liveQ = 1..Len(liveQ)
      /\ DOMAIN Tail(liveQ) = 1..(Len(liveQ) - 1)
  BY <1>1, LenProperties
<1>3. \A i \in 1..(Len(liveQ) - 1) : Tail(liveQ)[i].kind # "reset"
  BY <1>1 DEF ResetFirst
<1>4. \A m \in Elems(Tail(liveQ)) : m.kind # "reset"
  BY <1>2, <1>3 DEF Elems
<1>5. Tail(liveQ) # <<>> => Head(Tail(liveQ)) \in Elems(Tail(liveQ))
  BY <1>1, TailFacts
<1>6. Head(liveQ).kind # "reset" => \A m \in Elems(liveQ) : m.kind # "reset"
  BY <1>4, ElemsTail
<1>7. ~LiveAtRest => Head(liveQ).kind # "reset"
  BY <1>1 DEF ResetFirst
<1> QED
  BY <1>4, <1>5, <1>6, <1>7

LEMMA ResetByElems ==
  ASSUME NEW q \in Seq(Message), \A m \in Elems(q) : m.kind # "reset"
  PROVE  \A i \in 1..Len(q) : q[i].kind # "reset"
BY ElemsFacts

-----------------------------------------------------------------------------
Undisturbed == ~disturbed /\ rpc # "stopped"

(* A step that leaves the lane, its actor and the match alone.             *)
LEMMA TelemetryFrame ==
  ASSUME TelemetryInv,
         UNCHANGED <<liveQ, livePc, liveHeld, master, cached, liveSince, prev>>,
         Undisturbed' => Undisturbed /\ Boundary'
  PROVE  TelemetryInv'
<1>1. ResetFirst'
  BY DEF TelemetryInv, ResetFirst, LiveAtRest
<1>2. Undisturbed => NothingDropped' /\ OneMatch'
  BY DEF TelemetryInv, NothingDropped, OneMatch, Cache, Merging, Undisturbed
<1> QED
  BY <1>1, <1>2 DEF TelemetryInv, Undisturbed

(* A flush or a query at the end of the lane.                              *)
LEMMA TelemetryAsk ==
  ASSUME TypeOK, TelemetryInv, NEW m \in Message, m.kind \in {"flush", "snapshot"},
         liveQ' = Append(liveQ, m),
         UNCHANGED <<livePc, liveHeld, master, cached, liveSince, prev>>,
         Undisturbed' => Undisturbed /\ Boundary'
  PROVE  TelemetryInv'
<1> USE DEF TypeOK, LaneTypeOK
<1>1. /\ Len(liveQ') = Len(liveQ) + 1 /\ Len(liveQ) \in Nat /\ liveQ' # <<>>
      /\ \A i \in 1..Len(liveQ) : liveQ'[i] = liveQ[i]
      /\ liveQ'[Len(liveQ) + 1] = m
      /\ liveQ # <<>> => Head(liveQ') = Head(liveQ)
      /\ liveQ = <<>> => Head(liveQ') = m
  BY AppendFacts, ElemsFacts
<1>2. ResetFirst'
  <2>1. ResetFirst /\ m.kind # "reset" /\ (LiveAtRest => LiveAtRest')
    BY DEF TelemetryInv, LiveAtRest
  <2>2. ASSUME NEW i \in 1..Len(liveQ')
        PROVE  i \in 1..Len(liveQ) \/ i = Len(liveQ) + 1
    BY <1>1, <2>2
  <2>3. ASSUME NEW i \in 1..Len(liveQ'), liveQ'[i].kind = "reset"
        PROVE  i = 1 /\ LiveAtRest
    <3>1. i \in 1..Len(liveQ)
      BY <1>1, <2>1, <2>2, <2>3
    <3>2. liveQ[i].kind = "reset"
      BY <1>1, <2>3, <3>1
    <3> QED
      BY <2>1, <3>1, <3>2 DEF ResetFirst
  <2> QED
    BY <2>1, <2>3 DEF ResetFirst
<1>3. Cache' = Cache /\ Merging' = Merging
  BY <1>1 DEF Cache, Merging
<1>4. Queued(liveQ') = Queued(liveQ) /\ Elems(liveQ') = Elems(liveQ) \cup {m}
  <2>1. liveQ \in Seq(Message)
    OBVIOUS
  <2>2. Queued(Append(liveQ, m)) =
          Queued(liveQ) \cup (IF m.kind = "event" THEN Players(m.env) ELSE {})
    BY <2>1, QueuedAppend
  <2>3. Elems(Append(liveQ, m)) = Elems(liveQ) \cup {m}
    BY <2>1, ElemsAppend
  <2>4. m.kind # "event"
    OBVIOUS
  <2> QED
    BY <2>2, <2>3, <2>4
<1>5. Undisturbed => NothingDropped' /\ OneMatch'
  BY <1>3, <1>4 DEF TelemetryInv, NothingDropped, OneMatch, Undisturbed
<1> QED
  BY <1>2, <1>5 DEF TelemetryInv, Undisturbed

(* An event is routed to the lane: it is of the match that prev' names.    *)
LEMMA TelemetryRouted ==
  ASSUME TypeOK, ResetFirst, NEW e \in Envelope, NEW pod, NEW hist, NEW replay,
         Route(e, pod, hist, replay),
         UNCHANGED <<livePc, liveHeld, master, cached>>
  PROVE  /\ ResetFirst'
         /\ NothingDropped => NothingDropped'
         /\ \A m \in Elems(liveQ') :
              m.kind = "event" => m \in Elems(liveQ) \/ m.env = e
         /\ Cache' = Cache
<1> USE DEF TypeOK, LaneTypeOK
<1> DEFINE m == Msg("event", e)
<1>1. m \in Message /\ m.kind = "event" /\ m.env = e
  BY MsgType DEF Msg
<1> HIDE DEF m
<1>2. \/ liveQ' = liveQ /\ liveSince' = liveSince
      \/ liveQ' = Append(liveQ, m) /\ liveSince' = liveSince \cup Players(e)
  BY DEF Route, Offer, m
<1>3. CASE liveQ' = liveQ /\ liveSince' = liveSince
  BY <1>3 DEF ResetFirst, LiveAtRest, NothingDropped, Cache, Merging
<1>4. CASE liveQ' = Append(liveQ, m) /\ liveSince' = liveSince \cup Players(e)
  <2>1. /\ Len(liveQ') = Len(liveQ) + 1 /\ Len(liveQ) \in Nat /\ liveQ' # <<>>
        /\ \A i \in 1..Len(liveQ) : liveQ'[i] = liveQ[i]
        /\ liveQ'[Len(liveQ) + 1] = m
        /\ liveQ # <<>> => Head(liveQ') = Head(liveQ)
        /\ liveQ = <<>> => Head(liveQ') = m
    BY <1>1, <1>4, AppendFacts, ElemsFacts
  <2>2. ResetFirst'
    BY <1>1, <2>1 DEF ResetFirst, LiveAtRest
  <2>3. Cache' = Cache /\ Merging' = Merging
    BY <1>1, <2>1 DEF Cache, Merging
  <2>4. /\ Queued(liveQ') = Queued(liveQ) \cup Players(e)
        /\ Elems(liveQ') = Elems(liveQ) \cup {m}
    BY <1>1, <1>4, QueuedAppend, ElemsAppend
  <2>5. NothingDropped => NothingDropped'
    BY <1>4, <2>3, <2>4 DEF NothingDropped
  <2> QED
    BY <1>1, <2>2, <2>3, <2>4, <2>5
<1> QED
  BY <1>2, <1>3, <1>4

LEMMA TelemetryReceive == TypeOK /\ TelemetryInv /\ Receive => TelemetryInv'
<1> SUFFICES ASSUME TypeOK, TelemetryInv,
                    NEW t \in Emitted, NEW id \in Matches \cup {NoId},
                    NEW replay \in ReplayFlags,
                    HandleEvent(t, id, replay) \/ BeginCompaction(t, id, replay)
             PROVE  TelemetryInv'
  BY DEF Receive
<1>1. ASSUME Undisturbed PROVE prev = active /\ NothingDropped /\ OneMatch
  BY <1>1 DEF TelemetryInv, Undisturbed, Boundary, HandleEvent, BeginCompaction
<1>2. EventOf(t, id) \in Envelope /\ EventOf(t, id).match = CurrentMatch(id)
  <2>1. TakeIn(t, id, replay) /\ replay \in BOOLEAN
    BY PipelineAssumption DEF HandleEvent, BeginCompaction
  <2> QED
    BY <2>1, TakeInType DEF EventOf
<1>3. CASE HandleEvent(t, id, replay)
  <2>1. CurrentMatch(id) = active
    BY <1>3 DEF HandleEvent, CompactionReason
  <2>2. /\ active' = active /\ rpc' = "idle" /\ rpc = "idle"
        /\ UNCHANGED <<prev, disturbed, acks, snap, livePc, liveHeld, master, cached>>
        /\ Route(EventOf(t, id), podium', historical', inReplay')
    BY <1>3, <2>1 DEF HandleEvent, TakeIn
  <2>3. /\ ResetFirst' /\ (NothingDropped => NothingDropped') /\ Cache' = Cache
        /\ \A m \in Elems(liveQ') :
             m.kind = "event" => m \in Elems(liveQ) \/ m.env = EventOf(t, id)
    BY <1>2, <2>2, TelemetryRouted DEF TelemetryInv
  <2>4. Undisturbed => OneMatch'
    BY <1>1, <1>2, <2>1, <2>2, <2>3 DEF OneMatch
  <2>5. Undisturbed => Boundary'
    BY <1>1, <2>2 DEF Boundary
  <2> QED
    BY <1>1, <2>2, <2>3, <2>4, <2>5 DEF TelemetryInv, Undisturbed
<1>4. CASE BeginCompaction(t, id, replay)
  <2>1. /\ prev' = active /\ acks' = {} /\ rpc' = "flushLive" /\ rpc = "idle"
        /\ ev' = EventOf(t, id) /\ active' = CurrentMatch(id)
        /\ UNCHANGED <<liveQ, livePc, liveHeld, master, cached, liveSince, disturbed>>
    BY <1>4 DEF BeginCompaction, TakeIn
  <2>2. ResetFirst'
    BY <2>1 DEF TelemetryInv, ResetFirst, LiveAtRest
  <2>3. Undisturbed => NothingDropped' /\ OneMatch'
    BY <1>1, <2>1 DEF NothingDropped, OneMatch, Cache, Merging
  <2>4. Boundary'
    BY <1>2, <2>1 DEF Boundary
  <2> QED
    BY <2>1, <2>2, <2>3, <2>4 DEF TelemetryInv, Undisturbed
<1> QED
  BY <1>3, <1>4

(* With the snapshot in hand the lane is empty and the actor at rest.      *)
LEMMA Settled ==
  ASSUME LiveInv, "snapshot" \in acks,
         rpc \in {"snapWait", "aggregate", "reset", "deleteLive", "deleteFeed"}
  PROVE  /\ LiveAtRest
         /\ rpc \in {"snapWait", "aggregate", "reset"} => liveQ = <<>>
         /\ liveQ = <<>> \/ (Len(liveQ) = 1 /\ liveQ[1].kind = "reset")
BY DEF LiveInv, SnapshotTaken

LEMMA TelemetrySendReset ==
  ASSUME TypeOK, LiveInv, TelemetryInv, SendReset
  PROVE  TelemetryInv'
<1> USE DEF TypeOK, RouterTypeOK, LaneTypeOK
<1> DEFINE m == Msg("reset", ev)
<1>1. m \in Message /\ m.kind = "reset"
  BY MsgType DEF Msg
<1>2. /\ rpc = "reset" /\ rpc' = "deleteLive" /\ liveSince' = {}
      /\ liveQ' = Append(liveQ, m)
      /\ UNCHANGED <<prev, active, ev, acks, snap, disturbed, livePc, liveHeld,
                     master, cached>>
  BY DEF SendReset
<1> HIDE DEF m
<1>3. "snapshot" \in acks
  BY <1>2 DEF LiveInv, SnapshotTaken
<1>4. liveQ = <<>> /\ LiveAtRest
  BY <1>2, <1>3, Settled
<1>5. /\ Len(liveQ') = 1 /\ liveQ'[1] = m /\ liveQ' # <<>> /\ Head(liveQ') = m
      /\ Elems(liveQ') = {m}
  <2>1. Len(liveQ) = 0 /\ Elems(liveQ) = {}
    BY <1>4, EmptySeq DEF Elems
  <2>2. /\ Len(liveQ') = Len(liveQ) + 1 /\ liveQ'[Len(liveQ) + 1] = m
        /\ liveQ' # <<>> /\ (liveQ = <<>> => Head(liveQ') = m)
    BY <1>1, <1>2, AppendFacts
  <2>3. Elems(liveQ') = Elems(liveQ) \cup {m}
    BY <1>1, <1>2, ElemsAppend
  <2> QED
    BY <1>4, <2>1, <2>2, <2>3
<1>6. ResetFirst'
  BY <1>2, <1>4, <1>5 DEF ResetFirst, LiveAtRest
<1>7. Cache' = {} /\ Merging' = {} /\ Queued(liveQ') = {}
  BY <1>1, <1>2, <1>4, <1>5 DEF Cache, Merging, Queued, LiveAtRest
<1>8. NothingDropped' /\ OneMatch'
  BY <1>1, <1>2, <1>4, <1>5, <1>7 DEF NothingDropped, OneMatch, LiveAtRest
<1>9. Undisturbed => Boundary'
  BY <1>2, <1>3, <1>7 DEF TelemetryInv, Undisturbed, Boundary
<1> QED
  BY <1>2, <1>6, <1>8, <1>9 DEF TelemetryInv, Undisturbed

(* The boundary ends: nothing of the previous match is left in the lane.   *)
LEMMA TelemetryFinish ==
  ASSUME TypeOK, LiveInv, TelemetryInv, DeleteFeed \/ DeleteGiveUp
  PROVE  TelemetryInv'
<1> USE DEF TypeOK, RouterTypeOK, LaneTypeOK
<1>1. /\ rpc \in {"deleteLive", "deleteFeed"} /\ rpc' = "idle"
      /\ prev' = active /\ acks' = {}
      /\ Route(ev, podium', historical', inReplay)
      /\ UNCHANGED <<active, disturbed, livePc, liveHeld, master, cached>>
  BY DEF DeleteFeed, DeleteGiveUp, Finish
<1>2. /\ ResetFirst' /\ (NothingDropped => NothingDropped') /\ Cache' = Cache
      /\ \A m \in Elems(liveQ') :
           m.kind = "event" => m \in Elems(liveQ) \/ m.env = ev
  BY <1>1, TelemetryRouted DEF TelemetryInv
<1>3. ASSUME Undisturbed PROVE NothingDropped' /\ OneMatch' /\ Boundary'
  <2>1. /\ NothingDropped /\ "snapshot" \in acks /\ Cache = {} /\ ev.match = active
    BY <1>1, <1>3 DEF TelemetryInv, Undisturbed, Boundary
  <2>2. /\ LiveAtRest
        /\ liveQ = <<>> \/ (Len(liveQ) = 1 /\ liveQ[1].kind = "reset")
    BY <1>1, <2>1, Settled
  <2>3. \A m \in Elems(liveQ) : m.kind # "event"
    <3>1. DOMAIN liveQ = 1..Len(liveQ)
      BY LenProperties
    <3> QED
      BY <2>2, <3>1, EmptySeq DEF Elems
  <2>4. OneMatch'
    BY <1>1, <1>2, <2>1, <2>2, <2>3 DEF OneMatch, LiveAtRest
  <2> QED
    BY <1>1, <1>2, <2>1, <2>4 DEF Boundary
<1> QED
  BY <1>1, <1>2, <1>3 DEF TelemetryInv, Undisturbed

LEMMA TelemetryRouter ==
  ASSUME TypeOK, LiveInv, TelemetryInv,
         RouterStep \/ Connect \/ Disconnect \/ Shutdown
  PROVE  TelemetryInv'
<1> USE DEF TypeOK, RouterTypeOK, LaneTypeOK
<1>1. CASE FlushLive
  <2>1. /\ rpc' = "flushFeed" /\ rpc = "flushLive"
        /\ UNCHANGED <<livePc, liveHeld, master, cached, liveSince, prev, active,
                       ev, acks, snap, disturbed>>
        /\ liveQ' = liveQ \/ liveQ' = Append(liveQ, Msg("flush", ev))
    BY <1>1 DEF FlushLive
  <2>2. Undisturbed' => Undisturbed /\ Boundary'
    BY <2>1 DEF TelemetryInv, Undisturbed, Boundary
  <2>3. Msg("flush", ev) \in Message /\ Msg("flush", ev).kind = "flush"
    BY MsgType DEF Msg
  <2> QED
    BY <2>1, <2>2, <2>3, TelemetryFrame, TelemetryAsk
<1>2. CASE FlushFeed
  <2>1. CASE rpc' = "ackLive"
    <3>1. /\ rpc = "flushFeed" /\ rpc' = "ackLive"
          /\ UNCHANGED <<liveQ, livePc, liveHeld, master, cached, liveSince, prev,
                         active, ev, acks, snap, disturbed>>
      BY <1>2, <2>1 DEF FlushFeed, Abort
    <3>2. Undisturbed' => Undisturbed /\ Boundary'
      BY <3>1 DEF TelemetryInv, Undisturbed, Boundary
    <3> QED
      BY <3>1, <3>2, TelemetryFrame
  <2>2. CASE rpc' # "ackLive"
    <3>1. disturbed' = TRUE /\ UNCHANGED <<liveQ, livePc>>
      BY <1>2, <2>2 DEF FlushFeed, Abort
    <3> QED
      BY <3>1 DEF TelemetryInv, ResetFirst, LiveAtRest
  <2> QED
    BY <2>1, <2>2
<1>3. CASE AwaitAck
  <2>1. /\ rpc \in {"ackLive", "ackFeed"} /\ rpc' \in {"ackFeed", "snapSend"}
        /\ UNCHANGED <<liveQ, livePc, liveHeld, master, cached, liveSince, prev,
                       active, ev, acks, snap, disturbed>>
    BY <1>3 DEF AwaitAck
  <2>2. Undisturbed' => Undisturbed /\ Boundary'
    BY <2>1 DEF TelemetryInv, Undisturbed, Boundary
  <2> QED
    BY <2>1, <2>2, TelemetryFrame
<1>4. CASE RequestSnapshot
  <2>1. /\ rpc = "snapSend"
        /\ UNCHANGED <<livePc, liveHeld, master, cached, liveSince, prev, active,
                       ev, acks, snap>>
        /\ \/ /\ liveQ' = Append(liveQ, Msg("snapshot", ev))
              /\ rpc' = "snapWait" /\ disturbed' = disturbed
           \/ disturbed' = TRUE /\ liveQ' = liveQ
    BY <1>4 DEF RequestSnapshot
  <2>2. CASE disturbed' = TRUE /\ liveQ' = liveQ
    BY <2>1, <2>2 DEF TelemetryInv, ResetFirst, LiveAtRest
  <2>3. CASE /\ liveQ' = Append(liveQ, Msg("snapshot", ev))
             /\ rpc' = "snapWait" /\ disturbed' = disturbed
    <3>1. "snapshot" \notin acks
      BY <2>1 DEF LiveInv, SnapshotUnasked, Unasked
    <3>2. Undisturbed' => Undisturbed /\ Boundary'
      BY <2>1, <2>3, <3>1 DEF TelemetryInv, Undisturbed, Boundary
    <3>3. Msg("snapshot", ev) \in Message /\ Msg("snapshot", ev).kind = "snapshot"
      BY MsgType DEF Msg
    <3> QED
      BY <2>1, <2>3, <3>2, <3>3, TelemetryAsk
  <2> QED
    BY <2>1, <2>2, <2>3
<1>5. CASE ReceiveSnapshot \/ Aggregate
  <2>1. /\ rpc \in {"snapWait", "aggregate"}
        /\ UNCHANGED <<liveQ, livePc, liveHeld, master, cached, liveSince, prev,
                       active, ev, acks, snap>>
        /\ \/ rpc' \in {"aggregate", "reset"} /\ disturbed' = disturbed
           \/ disturbed' = TRUE
    BY <1>5 DEF ReceiveSnapshot, Aggregate
  <2>2. Undisturbed' => Undisturbed /\ Boundary'
    BY <2>1 DEF TelemetryInv, Undisturbed, Boundary
  <2> QED
    BY <2>1, <2>2, TelemetryFrame
<1>6. CASE SendReset
  BY <1>6, TelemetrySendReset
<1>7. CASE DeleteLive \/ DeleteRetry
  <2>1. /\ rpc \in {"deleteLive", "deleteFeed"}
        /\ rpc' \in {"deleteLive", "deleteFeed"}
        /\ UNCHANGED <<liveQ, livePc, liveHeld, master, cached, liveSince, prev,
                       active, ev, acks, snap, disturbed>>
    BY <1>7 DEF DeleteLive, DeleteRetry
  <2>2. Undisturbed' => Undisturbed /\ Boundary'
    BY <2>1 DEF TelemetryInv, Undisturbed, Boundary, Cache
  <2> QED
    BY <2>1, <2>2, TelemetryFrame
<1>8. CASE DeleteFeed \/ DeleteGiveUp
  BY <1>8, TelemetryFinish
<1>9. CASE RouterStop \/ Connect \/ Disconnect \/ Shutdown
  <2>1. /\ UNCHANGED <<liveQ, livePc, liveHeld, master, cached, liveSince, prev,
                       active, ev, acks, snap, disturbed>>
        /\ \/ rpc' = "stopped" \/ rpc' = rpc
           \/ rpc \in {"offline", "idle"} /\ rpc' \in {"offline", "idle"}
    BY <1>9 DEF RouterStop, Connect, Disconnect, Shutdown, RouterGoes
  <2>2. Undisturbed' => Undisturbed /\ Boundary'
    BY <2>1 DEF TelemetryInv, Undisturbed, Boundary, Cache
  <2> QED
    BY <2>1, <2>2, TelemetryFrame
<1> QED
  BY <1>1, <1>2, <1>3, <1>4, <1>5, <1>6, <1>7, <1>8, <1>9 DEF RouterStep

-----------------------------------------------------------------------------
(* The live actor. *)

(* While it has work other than the reset, no snapshot waits to be used    *)
(* and nothing is being deleted.                                           *)
LEMMA Unsettled ==
  ASSUME TypeOK, LiveInv, TelemetryInv, Undisturbed,
         ~LiveAtRest \/ (liveQ # <<>> /\ Head(liveQ).kind # "reset")
  PROVE  /\ rpc \notin {"deleteLive", "deleteFeed"}
         /\ rpc \in {"snapWait", "aggregate", "reset"} => "snapshot" \notin acks
<1>1. liveQ # <<>> => Head(liveQ) = liveQ[1]
  BY HeadIsFirst DEF TypeOK, LaneTypeOK
<1>2. rpc \in {"deleteLive", "deleteFeed"} => "snapshot" \in acks
  BY DEF TelemetryInv, Undisturbed, Boundary
<1> QED
  BY <1>1, <1>2, Settled

(* What the router is at is the router's business.                         *)
LEMMA BoundaryKept ==
  ASSUME TypeOK, LiveInv, TelemetryInv, Undisturbed,
         ~LiveAtRest \/ (liveQ # <<>> /\ Head(liveQ).kind # "reset"),
         UNCHANGED <<rpc, prev, active, ev>>,
         "snapshot" \in acks' => "snapshot" \in acks \/ snap' = master'
  PROVE  Boundary'
BY Unsettled DEF TelemetryInv, Undisturbed, Boundary

(* The head is taken off, and it was no reset.                             *)
LEMMA TakenFacts ==
  ASSUME TypeOK, ResetFirst, liveQ # <<>>, liveQ' = Tail(liveQ)
  PROVE  /\ \A i \in 1..Len(liveQ') : liveQ'[i].kind # "reset"
         /\ liveQ' # <<>> => Head(liveQ').kind # "reset"
         /\ Head(liveQ) \in Elems(liveQ)
         /\ \A m \in Elems(liveQ') : m \in Elems(liveQ)
         /\ Queued(liveQ) =
              Queued(liveQ')
              \cup (IF Head(liveQ).kind = "event" THEN Players(Head(liveQ).env)
                    ELSE {})
<1> USE DEF TypeOK, LaneTypeOK
<1>1. /\ Tail(liveQ) \in Seq(Message) /\ Head(liveQ) \in Elems(liveQ)
      /\ Elems(Tail(liveQ)) \subseteq Elems(liveQ)
  BY TailFacts
<1> QED
  BY <1>1, NoReset, ResetByElems, QueuedTail

LEMMA MergeKeeps ==
  ASSUME OneMatch, livePc = "drain", Cache = master, MergeHeld
  PROVE  /\ master' = master \cup Players(liveHeld) /\ cached' = prev
         /\ \A e \in master' : e.match = prev
BY DEF OneMatch, MergeHeld, Players

LEMMA TelemetryTakesEvent ==
  ASSUME TypeOK, LiveInv, TelemetryInv, LiveEvent \/ LiveCoalesce
  PROVE  TelemetryInv'
<1>1. /\ liveQ # <<>> /\ Head(liveQ).kind = "event" /\ liveQ' = Tail(liveQ)
      /\ livePc' = "drain" /\ liveHeld' = Head(liveQ).env
      /\ UNCHANGED <<rpc, prev, active, ev, acks, snap, disturbed, liveSince>>
      /\ \/ livePc = "recv" /\ master' = master /\ cached' = cached
         \/ livePc = "drain" /\ MergeHeld
  BY DEF LiveEvent, LiveCoalesce
<1>2. /\ \A i \in 1..Len(liveQ') : liveQ'[i].kind # "reset"
      /\ liveQ' # <<>> => Head(liveQ').kind # "reset"
      /\ Head(liveQ) \in Elems(liveQ)
      /\ \A m \in Elems(liveQ') : m \in Elems(liveQ)
      /\ Queued(liveQ) = Queued(liveQ') \cup Players(Head(liveQ).env)
  BY <1>1, TakenFacts DEF TelemetryInv
<1>3. ResetFirst'
  BY <1>2 DEF ResetFirst
<1>4. Cache = master /\ Cache' = master' /\ Merging' = Players(Head(liveQ).env)
  BY <1>1, <1>2 DEF Cache, Merging
<1>5. ASSUME Undisturbed PROVE NothingDropped' /\ OneMatch' /\ Boundary'
  <2>1. NothingDropped /\ OneMatch
    BY <1>5 DEF TelemetryInv, Undisturbed
  <2>2. /\ master' = master \cup Merging
        /\ master' # {} => cached' = prev
        /\ \A e \in master' : e.match = prev
    <3>1. CASE livePc = "recv"
      BY <1>1, <1>4, <2>1, <3>1 DEF Merging, OneMatch
    <3>2. CASE livePc = "drain"
      BY <1>1, <1>4, <2>1, <3>2, MergeKeeps DEF Merging
    <3> QED
      BY <1>1, <3>1, <3>2
  <2>3. NothingDropped'
    BY <1>1, <1>2, <1>4, <2>1, <2>2 DEF NothingDropped
  <2>4. OneMatch'
    BY <1>1, <1>2, <1>4, <2>1, <2>2 DEF OneMatch
  <2>5. Boundary'
    BY <1>1, <1>5, BoundaryKept
  <2> QED
    BY <2>3, <2>4, <2>5
<1> QED
  BY <1>1, <1>3, <1>5 DEF TelemetryInv, Undisturbed

LEMMA TelemetrySend ==
  ASSUME TypeOK, LiveInv, TelemetryInv, LiveSend
  PROVE  TelemetryInv'
<1>1. /\ livePc = "drain" /\ livePc' = "send" /\ MergeHeld
      /\ UNCHANGED <<rpc, prev, active, ev, acks, snap, disturbed, liveSince>>
      /\ \/ liveQ = <<>> /\ liveQ' = liveQ
         \/ liveQ # <<>> /\ Head(liveQ).kind = "flush" /\ liveQ' = Tail(liveQ)
  BY DEF LiveSend
<1>2. /\ ResetFirst' /\ Cache = master /\ Cache' = master'
      /\ \A m \in Elems(liveQ') : m \in Elems(liveQ)
      /\ Queued(liveQ') = Queued(liveQ)
  <2>1. CASE liveQ = <<>> /\ liveQ' = liveQ
    <3>1. Len(liveQ') = 0
      BY <2>1, EmptySeq
    <3> QED
      BY <2>1, <3>1 DEF ResetFirst, Cache
  <2>2. CASE liveQ # <<>> /\ Head(liveQ).kind = "flush" /\ liveQ' = Tail(liveQ)
    BY <2>2, TakenFacts DEF TelemetryInv, ResetFirst, Cache
  <2> QED
    BY <1>1, <2>1, <2>2
<1>3. Merging' = {} /\ Merging = Players(liveHeld) /\ ~LiveAtRest
  BY <1>1 DEF Merging, LiveAtRest
<1>4. ASSUME Undisturbed PROVE NothingDropped' /\ OneMatch' /\ Boundary'
  <2>1. NothingDropped /\ OneMatch
    BY <1>4 DEF TelemetryInv, Undisturbed
  <2>2. /\ master' = master \cup Players(liveHeld) /\ cached' = prev
        /\ \A e \in master' : e.match = prev
    BY <1>1, <1>2, <2>1, MergeKeeps
  <2>3. NothingDropped' /\ OneMatch'
    BY <1>1, <1>2, <1>3, <2>1, <2>2 DEF NothingDropped, OneMatch
  <2>4. Boundary'
    BY <1>1, <1>3, <1>4, BoundaryKept
  <2> QED
    BY <2>3, <2>4
<1> QED
  BY <1>1, <1>2, <1>4 DEF TelemetryInv, Undisturbed

(* A flush or a snapshot is answered; the cache stays what it is.          *)
LEMMA TelemetryAnswer ==
  ASSUME TypeOK, LiveInv, TelemetryInv, LiveFlush \/ LiveSnapshot
  PROVE  TelemetryInv'
<1>1. /\ liveQ # <<>> /\ Head(liveQ).kind \in {"flush", "snapshot"}
      /\ liveQ' = Tail(liveQ)
      /\ UNCHANGED <<rpc, prev, active, ev, disturbed, liveSince, livePc,
                     liveHeld, master, cached>>
      /\ "snapshot" \in acks' => "snapshot" \in acks \/ snap' = master
  BY DEF LiveFlush, LiveSnapshot, Answer
<1>2. /\ \A i \in 1..Len(liveQ') : liveQ'[i].kind # "reset"
      /\ liveQ' # <<>> => Head(liveQ').kind # "reset"
      /\ \A m \in Elems(liveQ') : m \in Elems(liveQ)
      /\ Queued(liveQ') = Queued(liveQ)
  BY <1>1, TakenFacts DEF TelemetryInv
<1>3. ResetFirst' /\ Cache' = Cache /\ Merging' = Merging
  BY <1>1, <1>2 DEF ResetFirst, Cache, Merging
<1>4. ASSUME Undisturbed PROVE NothingDropped' /\ OneMatch' /\ Boundary'
  <2>1. NothingDropped' /\ OneMatch'
    BY <1>1, <1>2, <1>3, <1>4
       DEF TelemetryInv, Undisturbed, NothingDropped, OneMatch
  <2>2. Boundary'
    BY <1>1, <1>4, BoundaryKept
  <2> QED
    BY <2>1, <2>2
<1> QED
  BY <1>1, <1>3, <1>4 DEF TelemetryInv, Undisturbed

LEMMA TelemetryReset ==
  ASSUME TypeOK, LiveInv, TelemetryInv, LiveReset
  PROVE  TelemetryInv'
<1>1. /\ liveQ # <<>> /\ Head(liveQ).kind = "reset" /\ liveQ' = Tail(liveQ)
      /\ master' = {}
      /\ UNCHANGED <<rpc, prev, active, ev, acks, snap, disturbed, liveSince,
                     livePc, liveHeld>>
  BY DEF LiveReset
<1>2. /\ \A i \in 1..Len(liveQ') : liveQ'[i].kind # "reset"
      /\ \A m \in Elems(liveQ') : m \in Elems(liveQ)
      /\ Queued(liveQ') = Queued(liveQ)
  BY <1>1, TakenFacts DEF TelemetryInv
<1>3. ResetFirst' /\ Cache = {} /\ Cache' = {} /\ Merging' = Merging
  BY <1>1, <1>2 DEF ResetFirst, Cache, Merging
<1>4. ASSUME Undisturbed PROVE NothingDropped' /\ OneMatch' /\ Boundary'
  <2>1. NothingDropped' /\ OneMatch'
    BY <1>1, <1>2, <1>3, <1>4
       DEF TelemetryInv, Undisturbed, NothingDropped, OneMatch
  <2>2. ~("snapshot" \in acks /\ rpc \in {"snapWait", "aggregate", "reset"})
    BY <1>1, Settled
  <2>3. Boundary'
    BY <1>1, <1>3, <1>4, <2>2 DEF TelemetryInv, Undisturbed, Boundary
  <2> QED
    BY <2>1, <2>3
<1> QED
  BY <1>1, <1>3, <1>4 DEF TelemetryInv, Undisturbed

(* The PUT ends, or the actor stops.                                       *)
LEMMA TelemetryRest ==
  ASSUME TypeOK, TelemetryInv, LiveSent \/ LiveStop
  PROVE  TelemetryInv'
<1>1. /\ livePc' \in {"recv", "stopped"}
      /\ livePc = "drain" => rpc = "stopped"
      /\ UNCHANGED <<rpc, prev, active, ev, snap, disturbed, liveSince, liveQ,
                     master, cached>>
      /\ "snapshot" \in acks' <=> "snapshot" \in acks
  BY DEF LiveSent, LiveStop
<1>2. ResetFirst' /\ Cache' = Cache
  BY <1>1 DEF TelemetryInv, ResetFirst, LiveAtRest, Cache
<1>3. Undisturbed => Merging = {} /\ Merging' = {}
  BY <1>1 DEF Undisturbed, Merging
<1>4. Undisturbed => NothingDropped' /\ OneMatch' /\ Boundary'
  BY <1>1, <1>2, <1>3
     DEF TelemetryInv, Undisturbed, NothingDropped, OneMatch, Boundary
<1> QED
  BY <1>1, <1>2, <1>4 DEF TelemetryInv, Undisturbed

-----------------------------------------------------------------------------
LEMMA TelemetryStep ==
  ASSUME TypeOK, BarrierInv, TelemetryInv, [Next]_vars
  PROVE  TelemetryInv'
<1>1. LiveInv
  BY DEF BarrierInv
<1>2. CASE Receive
  BY <1>2, TelemetryReceive
<1>3. CASE RouterStep \/ Connect \/ Disconnect \/ Shutdown
  BY <1>1, <1>3, TelemetryRouter
<1>4. CASE LiveStep
  BY <1>1, <1>4, TelemetryTakesEvent, TelemetrySend, TelemetryAnswer,
     TelemetryReset, TelemetryRest, Zenon DEF LiveStep
<1>5. CASE FeedStep \/ UNCHANGED vars
  <2>1. /\ UNCHANGED <<liveQ, livePc, liveHeld, master, cached, liveSince, prev,
                       rpc, active, ev, snap, disturbed>>
        /\ "snapshot" \in acks' <=> "snapshot" \in acks
    <3>1. CASE FeedStep
      BY <3>1 DEF FeedStep, FeedEvent, FeedFlush, FeedDone, FeedFail,
                  FeedRetry, FeedStop, Answer
    <3>2. CASE UNCHANGED vars
      BY <3>2 DEF vars
    <3> QED
      BY <1>5, <3>1, <3>2
  <2>2. Undisturbed' => Undisturbed /\ Boundary'
    BY <2>1 DEF TelemetryInv, Undisturbed, Boundary, Cache
  <2> QED
    BY <2>1, <2>2, TelemetryFrame
<1> QED
  BY <1>2, <1>3, <1>4, <1>5 DEF Next, Exited

LEMMA TelemetryInit == Init => TelemetryInv
<1> SUFFICES ASSUME Init PROVE TelemetryInv
  OBVIOUS
<1>1. Len(liveQ) = 0 /\ Elems(liveQ) = {} /\ Queued(liveQ) = {}
  BY EmptySeq, QueuedEmpty DEF Init, Elems
<1> QED
  BY <1>1 DEF Init, TelemetryInv, ResetFirst, NothingDropped, OneMatch, Boundary,
              Cache, Merging

LEMMA TelemetryAlways == Spec => []TelemetryInv
<1>1. TypeOK /\ BarrierInv /\ TelemetryInv /\ [Next]_vars => TelemetryInv'
  BY TelemetryStep
<1> QED
  BY <1>1, TelemetryInit, TypeCorrect, BarrierInvariant, PTL DEF Spec

(* The snapshot that is aggregated is what the live lane accepted for that *)
(* match since the last reset, whatever waited, was coalesced or was not   *)
(* acknowledged in time, unless a boundary was aborted.                    *)
THEOREM AggregatesTheMatchAlways == Spec => []AggregatesTheMatch
<1>1. BarrierInv /\ TelemetryInv => AggregatesTheMatch
  <2> SUFFICES ASSUME BarrierInv, TelemetryInv, rpc = "aggregate", ~disturbed
               PROVE  snap = liveSince /\ \A e \in snap : e.match = prev
    BY DEF AggregatesTheMatch
  <2>1. "snapshot" \in acks /\ liveQ = <<>> /\ livePc # "drain"
    BY DEF BarrierInv, LiveInv, SnapshotTaken, LiveAtRest
  <2>2. Cache = master /\ Merging = {} /\ Queued(liveQ) = {}
    BY <2>1, QueuedEmpty DEF Cache, Merging
  <2>3. snap = master /\ liveSince = master /\ \A e \in master : e.match = prev
    BY <2>1, <2>2 DEF TelemetryInv, NothingDropped, OneMatch, Boundary
  <2> QED
    BY <2>3
<1> QED
  BY <1>1, BarrierInvariant, TelemetryAlways, PTL

(* The live actor is never asked for a snapshot, or told to reset, while   *)
(* it holds an event that the cache has not seen.                          *)
THEOREM NoQueryWhileDrainingAlways == Spec => []NoQueryWhileDraining
<1>1. BarrierInv => NoQueryWhileDraining
  BY DEF BarrierInv, LiveInv
<1> QED
  BY <1>1, BarrierInvariant, PTL

-----------------------------------------------------------------------------
(* VisitInv is kept by a step that leaves the counts alone, and moves on   *)
(* from the previous match at most to the active one.                      *)
LEMMA VisitFrame ==
  ASSUME VisitInv, UNCHANGED <<active, lastAggregated, uploads, visits>>,
         prev' \in {prev, active},
         rpc' \in {"offline", "idle"} => prev' = active,
         rpc' # "aggregate"
  PROVE  VisitInv'
BY DEF VisitInv

LEMMA VisitTakeIn ==
  ASSUME TypeOK, VisitInv, NEW t \in Emitted, NEW id \in Matches \cup {NoId},
         NEW replay \in ReplayFlags, BeginCompaction(t, id, replay)
  PROVE  VisitInv'
<1> USE DEF TypeOK, RouterTypeOK, CloudTypeOK, HistoryTypeOK
<1>1. /\ active' = CurrentMatch(id) /\ active' \in MatchIds
      /\ prev' = active /\ prev \in {active} /\ rpc' = "flushLive"
      /\ UNCHANGED <<uploads, lastAggregated>>
      /\ visits' = IF active' = active THEN visits
                   ELSE [visits EXCEPT ![active'] = @ + 1]
  BY DEF BeginCompaction, TakeIn, CurrentMatch, MatchIds, VisitInv
<1>2. \A m \in MatchIds : /\ visits[m] \in Nat /\ uploads[m] \in Nat
                          /\ uploads[m] <= visits[m]
  BY DEF VisitInv
<1>3. CASE active' = active
  BY <1>1, <1>3 DEF VisitInv
<1>4. CASE active' # active
  <2>1. \A m \in MatchIds :
          visits'[m] = IF m = active' THEN visits[m] + 1 ELSE visits[m]
    BY <1>1, <1>4
  <2>2. active # lastAggregated => uploads[active] < visits[active]
    BY DEF VisitInv
  <2> QED
    BY <1>1, <1>2, <1>4, <2>1, <2>2 DEF VisitInv
<1> QED
  BY <1>3, <1>4

LEMMA VisitAggregate ==
  ASSUME TypeOK, VisitInv, Aggregate
  PROVE  VisitInv'
<1> USE DEF TypeOK, RouterTypeOK, CloudTypeOK, HistoryTypeOK
<1>1. /\ prev # lastAggregated /\ lastAggregated' = prev /\ rpc' = "reset"
      /\ UNCHANGED <<prev, active, visits>>
      /\ uploads' = [uploads EXCEPT ![prev] = @ + 1]
  BY DEF Aggregate, VisitInv
<1>2. \A m \in MatchIds :
        /\ uploads'[m] = IF m = prev THEN uploads[m] + 1 ELSE uploads[m]
        /\ uploads[m] \in Nat /\ visits[m] \in Nat /\ uploads[m] <= visits[m]
  BY <1>1 DEF VisitInv
<1>3. /\ uploads[prev] < visits[prev]
      /\ prev # active => uploads[active] < visits[active]
  BY <1>1 DEF VisitInv
<1> QED
  BY <1>1, <1>2, <1>3 DEF VisitInv

LEMMA VisitStep ==
  ASSUME TypeOK, VisitInv, [Next]_vars
  PROVE  VisitInv'
<1> USE DEF TypeOK, RouterTypeOK
<1>1. CASE Receive
  <2>1. PICK t \in Emitted, id \in Matches \cup {NoId}, replay \in ReplayFlags :
          HandleEvent(t, id, replay) \/ BeginCompaction(t, id, replay)
    BY <1>1 DEF Receive
  <2>2. CASE HandleEvent(t, id, replay)
    <3>1. CurrentMatch(id) = active
      BY <2>2 DEF HandleEvent, CompactionReason
    <3>2. /\ UNCHANGED <<active, lastAggregated, uploads, visits, prev, rpc>>
          /\ rpc = "idle"
      BY <2>2, <3>1 DEF HandleEvent, TakeIn
    <3> QED
      BY <3>2, VisitFrame DEF VisitInv
  <2>3. CASE BeginCompaction(t, id, replay)
    BY <2>3, VisitTakeIn
  <2> QED
    BY <2>1, <2>2, <2>3
<1>2. CASE Aggregate
  BY <1>2, VisitAggregate
<1>3. CASE ReceiveSnapshot
  <2>1. /\ UNCHANGED <<active, lastAggregated, uploads, visits, prev>>
        /\ rpc' \in {"aggregate", "reset", "deleteLive"}
        /\ rpc' = "aggregate" => lastAggregated # prev
    BY <1>3 DEF ReceiveSnapshot, Aggregates
  <2> QED
    BY <2>1 DEF VisitInv
<1>4. CASE FlushLive \/ FlushFeed \/ AwaitAck \/ RequestSnapshot \/ SendReset
  BY <1>4, VisitFrame
     DEF FlushLive, FlushFeed, Abort, AwaitAck, RequestSnapshot, SendReset
<1>5. CASE DeleteLive \/ DeleteFeed \/ DeleteRetry \/ DeleteGiveUp
  BY <1>5, VisitFrame
     DEF DeleteLive, DeleteFeed, DeleteRetry, DeleteGiveUp, Finish
<1>6. CASE RouterStop \/ Connect \/ Disconnect
  <2>1. /\ UNCHANGED <<active, lastAggregated, uploads, visits, prev>>
        /\ rpc' \in {"stopped", "idle", "offline"}
        /\ rpc' # "stopped" => rpc \in {"idle", "offline"}
    BY <1>6 DEF RouterStop, Connect, Disconnect, RouterGoes
  <2> QED
    BY <2>1, VisitFrame DEF VisitInv
<1>7. CASE Shutdown \/ LiveStep \/ FeedStep \/ UNCHANGED vars
  <2>1. UNCHANGED <<rpc, active, lastAggregated, uploads, visits, prev>>
    BY <1>7
       DEF Shutdown, vars, LiveStep, LiveEvent, LiveCoalesce, LiveSend,
           LiveSent, LiveFlush, LiveSnapshot, LiveReset, LiveStop, FeedStep,
           FeedEvent, FeedFlush, FeedDone, FeedFail, FeedRetry, FeedStop
  <2> QED
    BY <2>1 DEF VisitInv
<1> QED
  BY <1>1, <1>2, <1>3, <1>4, <1>5, <1>6, <1>7 DEF Next, RouterStep, Exited

(* No match is aggregated more often than it became the active one.        *)
THEOREM AggregatedOncePerVisitAlways == Spec => []AggregatedOncePerVisit
<1>1. Init => VisitInv
  BY DEF Init, VisitInv, MatchIds
<1>2. TypeOK /\ VisitInv /\ [Next]_vars => VisitInv'
  BY VisitStep
<1>3. VisitInv => AggregatedOncePerVisit
  BY DEF VisitInv, AggregatedOncePerVisit
<1> QED
  BY <1>1, <1>2, <1>3, TypeCorrect, PTL DEF Spec

(***************************************************************************)
(* Nobody waits in vain.                                                   *)
(***************************************************************************)

-----------------------------------------------------------------------------
(* A question stays asked while its message stays in the lane, ...         *)
LEMMA AskedKept ==
  ASSUME UNCHANGED sequence
  PROVE  /\ Elems(liveQ) \subseteq Elems(liveQ') =>
              \A k \in {"flush", "snapshot"} : Asked(liveQ, k) => Asked(liveQ, k)'
         /\ Elems(feedQ) \subseteq Elems(feedQ') =>
              (Asked(feedQ, "flush") => Asked(feedQ, "flush")')
BY DEF Asked

(* ... that is, until the actor takes this very message.                   *)
LEMMA AskedTail ==
  ASSUME NEW q \in Seq(Message), q # <<>>, NEW k, Asked(q, k)
  PROVE  \/ \E m \in Elems(Tail(q)) : m.kind = k /\ m.env.seq = sequence
         \/ Head(q).kind = k /\ Head(q).env.seq = sequence
BY ElemsTail DEF Asked

(* A step that takes nothing out of the lanes and asks nothing, while the  *)
(* router stays within what it was waiting for or leaves it.               *)
LEMMA DueFrame ==
  ASSUME AnswerDue, UNCHANGED <<sequence, livePc, feedPc, liveFlush>>,
         Elems(liveQ) \subseteq Elems(liveQ'), Elems(feedQ) \subseteq Elems(feedQ'),
         acks \subseteq acks',
         FlushSent' => FlushSent, rpc' \in AfterFlush => rpc \in AfterFlush,
         rpc' = "snapWait" => rpc = "snapWait",
         shutdown => shutdown', rpc' = "stopped" => shutdown'
  PROVE  AnswerDue'
<1>1. LiveFlushDue'
  BY AskedKept DEF AnswerDue, LiveFlushDue
<1>2. FeedFlushDue'
  BY AskedKept DEF AnswerDue, FeedFlushDue
<1>3. SnapshotDue'
  BY AskedKept DEF AnswerDue, SnapshotDue
<1>4. StopsAtShutdown'
  BY DEF AnswerDue, StopsAtShutdown
<1> QED
  BY <1>1, <1>2, <1>3, <1>4 DEF AnswerDue

(* Before a compaction asks, and after it, there is nothing to answer.     *)
LEMMA DueOutside ==
  ASSUME AnswerDue, rpc' \in {"idle", "offline", "flushLive"},
         UNCHANGED <<livePc, feedPc, shutdown>>
  PROVE  AnswerDue'
<1>1. ~FlushSent' /\ rpc' \notin AfterFlush /\ rpc' \notin {"snapWait", "stopped"}
  BY DEF FlushSent, AfterFlush
<1> QED
  BY <1>1 DEF AnswerDue, LiveFlushDue, FeedFlushDue, SnapshotDue, StopsAtShutdown

(* One message more keeps the lane's elements, and is one of them.         *)
LEMMA AskedAppend ==
  ASSUME NEW q \in Seq(Message), NEW e \in Envelope,
         NEW k \in {"flush", "snapshot", "reset"}
  PROVE  /\ Elems(q) \subseteq Elems(Append(q, Msg(k, e)))
         /\ Msg(k, e) \in Elems(Append(q, Msg(k, e)))
         /\ Msg(k, e).kind = k /\ Msg(k, e).env.seq = e.seq
<1>1. Msg(k, e) \in Message
  BY MsgType
<1>2. Elems(Append(q, Msg(k, e))) = Elems(q) \cup {Msg(k, e)}
  BY <1>1, ElemsAppend
<1> QED
  BY <1>2 DEF Msg

LEMMA DueFlushLive ==
  ASSUME TypeOK, Numbering, AnswerDue, FlushLive
  PROVE  AnswerDue'
<1>1. /\ rpc = "flushLive" /\ rpc' = "flushFeed"
      /\ liveSent' => liveQ' = Append(liveQ, Msg("flush", ev))
      /\ UNCHANGED <<sequence, shutdown, livePc, feedPc>>
  BY DEF FlushLive, liveVars, feedVars
<1>2. ev \in Envelope /\ liveQ \in Seq(Message) /\ ev.seq = sequence
  BY <1>1, Constant DEF TypeOK, RouterTypeOK, LaneTypeOK, Numbering
<1>3. FlushSent' => liveSent'
  BY <1>1 DEF FlushSent, AfterFlush
<1>4. liveSent' => Asked(liveQ, "flush")'
  BY <1>1, <1>2, AskedAppend DEF Asked
<1>5. rpc' \notin AfterFlush /\ rpc' # "snapWait"
  BY <1>1 DEF AfterFlush
<1> QED
  BY <1>1, <1>3, <1>4, <1>5
     DEF AnswerDue, LiveFlushDue, FeedFlushDue, SnapshotDue, StopsAtShutdown

LEMMA DueFlushFeed ==
  ASSUME TypeOK, Numbering, AnswerDue, FlushFeed
  PROVE  AnswerDue'
<1>1. CASE rpc' = "offline"
  BY <1>1, DueOutside DEF FlushFeed, liveVars, feedVars
<1>2. CASE rpc' # "offline"
  <2>1. /\ rpc = "flushFeed" /\ rpc' = "ackLive" /\ liveSent
        /\ feedQ' = Append(feedQ, Msg("flush", ev))
        /\ UNCHANGED <<sequence, shutdown, livePc, feedPc, liveFlush, liveQ, acks>>
    BY <1>2 DEF FlushFeed, Abort, liveVars, feedVars, replyVars
  <2>2. ev \in Envelope /\ feedQ \in Seq(Message) /\ ev.seq = sequence
    BY <2>1, Constant DEF TypeOK, RouterTypeOK, LaneTypeOK, Numbering
  <2>3. Asked(feedQ, "flush")'
    BY <2>1, <2>2, AskedAppend DEF Asked
  <2>4. FlushSent
    BY <2>1 DEF FlushSent
  <2>5. LiveFlushDue'
    BY <2>1, <2>4 DEF AnswerDue, LiveFlushDue, Asked
  <2> QED
    BY <2>1, <2>3, <2>5 DEF AnswerDue, FeedFlushDue, SnapshotDue, StopsAtShutdown
<1> QED
  BY <1>1, <1>2

LEMMA DueRequestSnapshot ==
  ASSUME TypeOK, Numbering, AnswerDue, RequestSnapshot
  PROVE  AnswerDue'
<1>1. /\ rpc = "snapSend" /\ rpc' \in {"snapWait", "deleteLive"}
      /\ rpc' = "snapWait" => liveQ' = Append(liveQ, Msg("snapshot", ev))
      /\ liveQ' \in {liveQ, Append(liveQ, Msg("snapshot", ev))}
      /\ UNCHANGED <<sequence, shutdown, livePc, feedPc, liveFlush, feedQ, acks>>
  BY DEF RequestSnapshot, liveVars, feedVars, replyVars
<1>2. ev \in Envelope /\ liveQ \in Seq(Message) /\ ev.seq = sequence
  BY <1>1, Constant DEF TypeOK, RouterTypeOK, LaneTypeOK, Numbering, AfterFlush
<1>3. Elems(liveQ) \subseteq Elems(liveQ')
  BY <1>1, <1>2, AskedAppend
<1>4. rpc' = "snapWait" => Asked(liveQ, "snapshot")'
  BY <1>1, <1>2, AskedAppend DEF Asked
<1>5. FlushSent /\ rpc \in AfterFlush
  BY <1>1 DEF FlushSent, AfterFlush
<1>6. LiveFlushDue' /\ FeedFlushDue'
  BY <1>1, <1>3, <1>5, AskedKept DEF AnswerDue, LiveFlushDue, FeedFlushDue
<1> QED
  BY <1>1, <1>4, <1>6 DEF AnswerDue, SnapshotDue, StopsAtShutdown

LEMMA DueRouter ==
  ASSUME TypeOK, Numbering, AnswerDue, RouterStep
  PROVE  AnswerDue'
<1>1. CASE FlushLive
  BY <1>1, DueFlushLive
<1>2. CASE FlushFeed
  BY <1>2, DueFlushFeed
<1>3. CASE RequestSnapshot
  BY <1>3, DueRequestSnapshot
<1>4. CASE SendReset
  <2>1. /\ rpc = "reset" /\ rpc' = "deleteLive"
        /\ liveQ' = Append(liveQ, Msg("reset", ev))
        /\ UNCHANGED <<sequence, shutdown, livePc, feedPc, liveFlush, feedQ, acks>>
    BY <1>4 DEF SendReset, liveVars, feedVars, replyVars
  <2>2. Elems(liveQ) \subseteq Elems(liveQ')
    BY <2>1, AskedAppend DEF TypeOK, RouterTypeOK, LaneTypeOK
  <2>3. FlushSent /\ rpc \in AfterFlush
    BY <2>1 DEF FlushSent, AfterFlush
  <2> QED
    BY <2>1, <2>2, <2>3, DueFrame
<1>5. CASE AwaitAck \/ ReceiveSnapshot \/ Aggregate \/ DeleteLive \/ DeleteRetry
  <2>1. /\ rpc \in AfterFlush /\ rpc' # "stopped"
        /\ rpc' = "snapWait" => rpc = "snapWait"
    BY <1>5 DEF AwaitAck, ReceiveSnapshot, Aggregate, DeleteLive, DeleteRetry,
                AfterFlush
  <2>2. UNCHANGED <<sequence, shutdown, livePc, feedPc, liveFlush, liveQ, feedQ, acks>>
    BY <1>5 DEF AwaitAck, ReceiveSnapshot, Aggregate, DeleteLive, DeleteRetry,
                laneVars, liveVars, feedVars, replyVars
  <2>3. FlushSent
    BY <2>1 DEF FlushSent
  <2> QED
    BY <2>1, <2>2, <2>3, DueFrame
<1>6. CASE DeleteFeed \/ DeleteGiveUp
  BY <1>6, DueOutside DEF DeleteFeed, DeleteGiveUp, Finish, liveVars, feedVars
<1>7. CASE RouterStop
  <2>1. /\ rpc' = "stopped" /\ shutdown
        /\ UNCHANGED <<sequence, shutdown, livePc, feedPc, liveFlush, liveQ, feedQ, acks>>
    BY <1>7 DEF RouterStop, RouterGoes, laneVars, liveVars, feedVars, replyVars
  <2>2. ~FlushSent' /\ rpc' \notin AfterFlush
    BY <2>1 DEF FlushSent, AfterFlush
  <2> QED
    BY <2>1, <2>2, DueFrame
<1> QED
  BY <1>1, <1>2, <1>3, <1>4, <1>5, <1>6, <1>7 DEF RouterStep

(* The live actor takes a flush of this compaction only to acknowledge it, *)
(* at once or after the PUT, and a query only to answer it.                *)
LEMMA DueLive ==
  ASSUME TypeOK, Numbering, AnswerDue, LiveStep
  PROVE  AnswerDue'
<1>1. UNCHANGED <<rpc, sequence, liveSent, ev, shutdown, feedPc, feedQ>>
  BY ActorFrame, ActorTakes DEF routerVars, feedVars
<1>2. /\ liveQ \in Seq(Message) /\ (FlushSent' <=> FlushSent)
      /\ FlushSent => ev.seq = sequence /\ sequence > 0
      /\ rpc = "snapWait" => ev.seq = sequence
  BY <1>1, Constant DEF TypeOK, LaneTypeOK, FlushSent, Numbering, AfterFlush
<1>3. acks \subseteq acks'
  BY DEF LiveStep, LiveEvent, LiveCoalesce, LiveSend, LiveSent, LiveFlush,
         LiveSnapshot, LiveReset, LiveStop, Answer, replyVars
<1>4. liveQ' = liveQ \/ (liveQ # <<>> /\ liveQ' = Tail(liveQ))
  BY ActorTakes
<1>5. ASSUME NEW k \in {"flush", "snapshot"}, Asked(liveQ, k), ~Asked(liveQ, k)'
      PROVE  /\ liveQ # <<>> /\ liveQ' = Tail(liveQ) /\ liveQ' # liveQ
             /\ Head(liveQ).kind = k /\ Head(liveQ).env.seq = sequence
  <2>1. liveQ' # liveQ
    BY <1>1, <1>5 DEF Asked
  <2>2. liveQ # <<>> /\ liveQ' = Tail(liveQ)
    BY <1>4, <2>1
  <2>3. ~\E m \in Elems(Tail(liveQ)) : m.kind = k /\ m.env.seq = sequence
    BY <1>1, <1>5, <2>2 DEF Asked
  <2> QED
    BY <1>2, <1>5, <2>1, <2>2, <2>3, AskedTail
<1>6. LiveFlushDue'
  <2> SUFFICES ASSUME FlushSent, "live" \notin acks', ~Asked(liveQ, "flush")'
               PROVE  livePc' = "send" /\ liveFlush' = sequence
    BY <1>1, <1>2 DEF LiveFlushDue
  <2>1. CASE Asked(liveQ, "flush")
    <3>1. /\ liveQ # <<>> /\ liveQ' # liveQ
          /\ Head(liveQ).kind = "flush" /\ Head(liveQ).env.seq = sequence
      BY <1>5, <2>1
    <3>2. ~LiveFlush
      BY <1>2, <3>1 DEF LiveFlush, Answer
    <3>3. LiveSend
      BY <3>1, <3>2
         DEF LiveStep, LiveEvent, LiveCoalesce, LiveSent, LiveSnapshot, LiveReset,
             LiveStop, laneVars
    <3> QED
      BY <3>1, <3>3 DEF LiveSend
  <2>2. CASE livePc = "send" /\ liveFlush = sequence
    <3>1. LiveSent
      BY <2>2 DEF LiveStep, LiveEvent, LiveCoalesce, LiveSend, LiveFlush,
                  LiveSnapshot, LiveReset, LiveStop
    <3>2. "live" \in acks'
      BY <1>2, <2>2, <3>1 DEF LiveSent
    <3> QED
      BY <3>2
  <2> QED
    BY <1>3, <2>1, <2>2 DEF AnswerDue, LiveFlushDue
<1>7. FeedFlushDue'
  BY <1>1, <1>3 DEF AnswerDue, FeedFlushDue, Asked
<1>8. SnapshotDue'
  <2> SUFFICES ASSUME rpc = "snapWait", "snapshot" \notin acks',
                      ~Asked(liveQ, "snapshot")'
               PROVE  FALSE
    BY <1>1 DEF SnapshotDue
  <2>1. Asked(liveQ, "snapshot")
    BY <1>3 DEF AnswerDue, SnapshotDue
  <2>2. /\ liveQ # <<>> /\ liveQ' # liveQ
        /\ Head(liveQ).kind = "snapshot" /\ Head(liveQ).env.seq = sequence
    BY <1>5, <2>1
  <2>3. LiveSnapshot
    BY <2>2 DEF LiveStep, LiveEvent, LiveCoalesce, LiveSend, LiveSent, LiveFlush,
                LiveReset, LiveStop, laneVars
  <2> QED
    BY <1>2, <2>2, <2>3 DEF LiveSnapshot, Answer
<1>9. StopsAtShutdown'
  <2>1. livePc' = "stopped" => livePc = "stopped" \/ shutdown \/ rpc = "stopped"
    BY DEF LiveStep, LiveEvent, LiveCoalesce, LiveSend, LiveSent, LiveFlush,
           LiveSnapshot, LiveReset, LiveStop, liveVars
  <2> QED
    BY <1>1, <2>1 DEF AnswerDue, StopsAtShutdown
<1> QED
  BY <1>6, <1>7, <1>8, <1>9 DEF AnswerDue

(* The feed actor takes a flush only to acknowledge it.                    *)
LEMMA DueFeed ==
  ASSUME TypeOK, Numbering, AnswerDue, FeedStep
  PROVE  AnswerDue'
<1>1. /\ UNCHANGED <<rpc, sequence, liveSent, ev, shutdown, livePc, liveFlush, liveQ>>
  BY ActorFrame, ActorTakes DEF routerVars, liveVars
<1>2. /\ feedQ \in Seq(Message) /\ (FlushSent' <=> FlushSent)
      /\ rpc \in AfterFlush => ev.seq = sequence
  BY <1>1, Constant DEF TypeOK, LaneTypeOK, FlushSent, Numbering
<1>3. acks \subseteq acks'
  BY DEF FeedStep, FeedEvent, FeedFlush, FeedDone, FeedFail, FeedRetry, FeedStop,
         Answer, replyVars
<1>4. LiveFlushDue' /\ SnapshotDue'
  BY <1>1, <1>2, <1>3 DEF AnswerDue, LiveFlushDue, SnapshotDue, Asked
<1>5. FeedFlushDue'
  <2> SUFFICES ASSUME rpc \in AfterFlush, "feed" \notin acks', ~Asked(feedQ, "flush")'
               PROVE  FALSE
    BY <1>1 DEF FeedFlushDue
  <2>1. Asked(feedQ, "flush")
    BY <1>3 DEF AnswerDue, FeedFlushDue
  <2>2. feedQ' # feedQ
    BY <1>1, <2>1 DEF Asked
  <2>3. feedQ # <<>> /\ feedQ' = Tail(feedQ)
    BY <2>2, ActorTakes
  <2>4. ~\E m \in Elems(Tail(feedQ)) : m.kind = "flush" /\ m.env.seq = sequence
    BY <1>1, <2>3 DEF Asked
  <2>5. Head(feedQ).kind = "flush" /\ Head(feedQ).env.seq = sequence
    BY <1>2, <2>1, <2>3, <2>4, AskedTail
  <2>6. FeedFlush
    BY <2>2, <2>5 DEF FeedStep, FeedEvent, FeedDone, FeedFail, FeedRetry, FeedStop,
                      laneVars
  <2> QED
    BY <1>2, <2>5, <2>6 DEF FeedFlush, Answer
<1>6. StopsAtShutdown'
  <2>1. feedPc' = "stopped" => feedPc = "stopped" \/ shutdown
    BY DEF FeedStep, FeedEvent, FeedFlush, FeedDone, FeedFail, FeedRetry, FeedStop,
           FeedActor, Attempt, feedVars
  <2> QED
    BY <1>1, <2>1 DEF AnswerDue, StopsAtShutdown
<1> QED
  BY <1>4, <1>5, <1>6 DEF AnswerDue

LEMMA DueStep ==
  ASSUME TypeOK, Numbering, AnswerDue, [Next]_vars
  PROVE  AnswerDue'
<1>1. CASE Receive
  <2>1. /\ rpc' \in {"idle", "flushLive"}
        /\ UNCHANGED <<livePc, feedPc, shutdown>>
    BY <1>1 DEF Receive, HandleEvent, BeginCompaction, liveVars, feedVars
  <2> QED
    BY <2>1, DueOutside
<1>2. CASE RouterStep
  BY <1>2, DueRouter
<1>3. CASE LiveStep
  BY <1>3, DueLive
<1>4. CASE FeedStep
  BY <1>4, DueFeed
<1>5. CASE Connect \/ Disconnect
  BY <1>5, DueOutside DEF Connect, Disconnect, RouterGoes, liveVars, feedVars
<1>6. CASE Shutdown \/ UNCHANGED vars
  <2>1. /\ UNCHANGED <<rpc, liveSent, sequence, livePc, feedPc, liveFlush, liveQ,
                       feedQ, acks>>
        /\ shutdown => shutdown'
    BY <1>6 DEF Shutdown, vars, routerVars, laneVars, replyVars, liveVars, feedVars
  <2>2. FlushSent' => FlushSent
    BY <2>1 DEF FlushSent
  <2>3. rpc' = "stopped" => shutdown'
    BY <2>1 DEF AnswerDue, StopsAtShutdown
  <2> QED
    BY <2>1, <2>2, <2>3, DueFrame
<1> QED
  BY <1>1, <1>2, <1>3, <1>4, <1>5, <1>6 DEF Next, Exited

(* Nothing the router waits for is ever lost: what a compaction has asked  *)
(* of an actor stands in the lane, is in the actor's hands, or is answered.*)
THEOREM AnswerDueAlways == Spec => []AnswerDue
<1>1. Init => AnswerDue
  BY DEF Init, AnswerDue, LiveFlushDue, FeedFlushDue, SnapshotDue,
         StopsAtShutdown, FlushSent, AfterFlush
<1>2. TypeOK /\ BarrierInv /\ AnswerDue /\ [Next]_vars => AnswerDue'
  BY DueStep DEF BarrierInv
<1> QED
  BY <1>1, <1>2, TypeCorrect, BarrierInvariant, PTL DEF Spec

(* The wait for a snapshot, which no timeout ends, is a wait for an actor  *)
(* that still runs and has the question in its lane.                       *)
THEOREM NobodyWaitsInVainAlways == Spec => []NobodyWaitsInVain
<1>1. AnswerDue => NobodyWaitsInVain
  BY DEF AnswerDue, SnapshotDue, StopsAtShutdown, NobodyWaitsInVain
<1> QED
  BY <1>1, AnswerDueAlways, PTL
=============================================================================
