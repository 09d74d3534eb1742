--------------------------- MODULE HistoricalLane ---------------------------
(***************************************************************************)
(* The historical lane: the bounded queue between the router and the       *)
(* historical actor, the actor, and the event log it posts to              *)
(* (matches/<id>/events).  The router's side is reduced to what reaches    *)
(* this lane: envelopes with growing sequence numbers, offered without     *)
(* waiting.  Pipeline says which events those are (histOffered).           *)
(***************************************************************************)
EXTENDS Naturals, Sequences

CONSTANTS
  HistoricalCap,   \* HISTORICAL_CAPACITY
  MayShutdown,     \* whether the token may be cancelled
  MaxEvents,       \* bound on the number of envelopes offered
  MaxLog           \* bound on the log's length while answers get lost

ASSUME HistoricalAssumption ==
  /\ HistoricalCap \in Nat \ {0} /\ MayShutdown \in BOOLEAN
  /\ MaxEvents \in Nat /\ MaxLog \in Nat

VARIABLES
  router,     \* "up", or "stopped": the senders are dropped
  shutdown,   \* the cancellation token
  sequence,   \* the router's counter
  queue,      \* the channel
  overflows,  \* routing_stats.historical_overflows
  pc, held,   \* the actor
  log,        \* what the database holds, in the order of its push ids
  accepted,   \* history: numbers of the envelopes try_send took
  refused     \* history: numbers the database refused for good

vars == <<router, shutdown, sequence, queue, overflows, pc, held, log,
          accepted, refused>>

Init ==
  /\ router = "up" /\ shutdown = FALSE /\ sequence = 0
  /\ queue = <<>> /\ overflows = 0
  /\ pc = "recv" /\ held = 0
  /\ log = <<>> /\ accepted = {} /\ refused = {}

(***************************************************************************)
(* try_send_historical: a full queue drops the envelope and counts it, a   *)
(* closed one drops it and ends the session.                               *)
(***************************************************************************)
TrySendHistorical ==
  /\ router = "up" /\ sequence < MaxEvents
  /\ sequence' = sequence + 1
  /\ \/ /\ pc # "stopped" /\ Len(queue) < HistoricalCap
        /\ queue' = Append(queue, sequence')
        /\ accepted' = accepted \cup {sequence'}
        /\ UNCHANGED overflows
     \/ /\ pc # "stopped" /\ Len(queue) >= HistoricalCap
        /\ overflows' = overflows + 1
        /\ UNCHANGED <<queue, accepted>>
     \/ /\ pc = "stopped"
        /\ UNCHANGED <<queue, accepted, overflows>>
  /\ UNCHANGED <<router, shutdown, pc, held, log, refused>>

(***************************************************************************)
(* run_historical_actor with send_with_retry_policy and no limit: one      *)
(* envelope at a time until it is answered; the token is looked at before  *)
(* every attempt.                                                          *)
(***************************************************************************)
(* Fault: the token is not looked at before an attempt.                    *)
AttemptBlind == "send"

Attempt == IF shutdown THEN "recv" ELSE "send"

Actor(next, e) ==
  /\ pc' = next
  /\ held' = IF next \in {"send", "backoff"} THEN e ELSE 0

HistEvent ==
  /\ pc = "recv" /\ queue # <<>>
  /\ Actor(Attempt, Head(queue))
  /\ queue' = Tail(queue)
  /\ UNCHANGED <<router, shutdown, sequence, overflows, log, accepted, refused>>

HistDone ==
  /\ pc = "send"
  /\ log' = Append(log, held)
  /\ Actor("recv", held)
  /\ UNCHANGED <<router, shutdown, sequence, queue, overflows, accepted,
                 refused>>

(* SinkError::Terminal: dropped, and logged. *)
HistReject ==
  /\ pc = "send"
  /\ refused' = refused \cup {held}
  /\ Actor("recv", held)
  /\ UNCHANGED <<router, shutdown, sequence, queue, overflows, log, accepted>>

(* Fault: a failed envelope goes back to the end of the queue.             *)
HistFailRequeue ==
  /\ pc = "send"
  /\ queue' = Append(queue, held)
  /\ Actor("recv", held)
  /\ UNCHANGED <<router, shutdown, sequence, overflows, log, accepted, refused>>

(* Fault: a retry budget, as in the feed lane.                             *)
HistFailGiveUp ==
  /\ pc = "send"
  /\ Actor("recv", held)
  /\ UNCHANGED <<router, shutdown, sequence, queue, overflows, log, accepted,
                 refused>>

(* A retryable failure; the POST may have been carried out nevertheless.   *)
HistFail ==
  /\ pc = "send"
  /\ \/ UNCHANGED log
     \/ Len(log) < MaxLog /\ log' = Append(log, held)
  /\ Actor("backoff", held)
  /\ UNCHANGED <<router, shutdown, sequence, queue, overflows, accepted,
                 refused>>

HistRetry ==
  /\ pc = "backoff"
  /\ Actor(Attempt, held)
  /\ UNCHANGED <<router, shutdown, sequence, queue, overflows, log, accepted,
                 refused>>

HistStop ==
  /\ pc = "recv" /\ shutdown
  /\ Actor("stopped", held)
  /\ UNCHANGED <<router, shutdown, sequence, queue, overflows, log, accepted,
                 refused>>

-----------------------------------------------------------------------------
Shutdown ==
  /\ MayShutdown /\ ~shutdown
  /\ shutdown' = TRUE
  /\ UNCHANGED <<router, sequence, queue, overflows, pc, held, log, accepted,
                 refused>>

RouterStop ==
  /\ shutdown /\ router = "up"
  /\ router' = "stopped"
  /\ UNCHANGED <<shutdown, sequence, queue, overflows, pc, held, log,
                 accepted, refused>>

(* The last of the router's three joins has returned. *)
Joined == router = "stopped" /\ pc = "stopped"

(* The router has joined the actor, or the bound on events is reached and  *)
(* everything is settled.                                                  *)
Quiescent ==
  /\ \/ Joined
     \/ sequence = MaxEvents /\ queue = <<>> /\ pc = "recv" /\ ~shutdown
  /\ UNCHANGED vars

ActorStep == HistEvent \/ HistDone \/ HistReject \/ HistFail \/ HistRetry
             \/ HistStop

Next == TrySendHistorical \/ ActorStep \/ Shutdown \/ RouterStop \/ Quiescent

Spec == Init /\ [][Next]_vars

(***************************************************************************)
(* The runtime polls the actor, whose requests are bounded by the client's *)
(* timeout, and the router, which sees the token.  The strong fairness is  *)
(* about the database: an envelope that is posted again and again is       *)
(* answered in the end.  (Nothing in the code makes it so, and nothing in  *)
(* it gives up.)  Once the token is cancelled nothing is assumed of the    *)
(* database: every further request may fail.                               *)
(***************************************************************************)
FairSpec ==
  /\ Spec
  /\ WF_vars(ActorStep) /\ WF_vars(RouterStop)
  /\ SF_vars(~shutdown /\ (HistDone \/ HistReject))

-----------------------------------------------------------------------------
Holding == pc \in {"send", "backoff"}

(* Type invariant of the lane; the actor holds an envelope when it is busy *)
(* with one, and only then.                                                *)
TypeOK ==
  /\ router \in {"up", "stopped"} /\ shutdown \in BOOLEAN
  /\ sequence \in Nat /\ overflows \in Nat
  /\ queue \in Seq(1..sequence) /\ log \in Seq(1..sequence)
  /\ pc \in {"recv", "send", "backoff", "stopped"} /\ held \in 0..sequence
  /\ Holding <=> held # 0
  /\ accepted \in SUBSET (1..sequence) /\ refused \in SUBSET (1..sequence)

Pending == IF Holding THEN <<held>> \o queue ELSE queue

Elems(q) == {q[i] : i \in DOMAIN q}

(***************************************************************************)
(* The log is in ingestion order whatever was retried or dropped, so that  *)
(* the copies of an event that was posted twice are neighbours.            *)
(***************************************************************************)
LogInOrder == \A i, j \in DOMAIN log : i < j => log[i] <= log[j]

(* An accepted event reaches the log, or is refused, or the daemon stops.  *)
Delivered ==
  \A s \in 1..MaxEvents :
    s \in accepted ~> (s \in Elems(log) \cup refused \/ shutdown)

(***************************************************************************)
(* A shutdown ends the lane: the join of the historical actor, for which   *)
(* the router waits without a timeout, returns, although the retries have  *)
(* no limit and whatever the database answers from then on.                *)
(***************************************************************************)
JoinsHistorical == shutdown ~> Joined

(* The lane is a first-in first-out outbox with at-least-once delivery.    *)
Box == INSTANCE Outbox WITH pending <- Pending, closed <- shutdown

ImplementsOutbox == Box!OutboxSpec
=============================================================================
