------------------------------- MODULE Outbox -------------------------------
(***************************************************************************)
(* What the historical lane promises: a first-in first-out outbox with     *)
(* at-least-once delivery.  Every accepted entry waits for its turn; the   *)
(* entry whose turn it is may be written any number of times, and leaves   *)
(* the outbox by being written or by being refused for good.  Only a       *)
(* shutdown may abandon an entry.                                          *)
(***************************************************************************)
EXTENDS Naturals, Sequences

VARIABLES pending,   \* entries accepted and not settled, oldest first
          log,       \* entries written, in the order they were written
          accepted,  \* the entries accepted so far
          refused,   \* the entries the database refused for good
          closed     \* whether a shutdown has begun

outboxVars == <<pending, log, accepted, refused, closed>>

OutboxInit ==
  /\ pending = <<>> /\ log = <<>>
  /\ accepted = {} /\ refused = {} /\ closed = FALSE

(* Entries are numbered in the order they arrive. *)
Accept ==
  \E s \in accepted' :
    /\ \A t \in accepted : s > t
    /\ accepted' = accepted \cup {s}
    /\ pending' = Append(pending, s)
    /\ UNCHANGED <<log, refused, closed>>

(* Written, whether or not the writer learns of it. *)
Write ==
  /\ pending # <<>>
  /\ log' = Append(log, Head(pending))
  /\ pending' \in {pending, Tail(pending)}
  /\ UNCHANGED <<accepted, refused, closed>>

Refuse ==
  /\ pending # <<>>
  /\ refused' = refused \cup {Head(pending)}
  /\ pending' = Tail(pending)
  /\ UNCHANGED <<log, accepted, closed>>

Close == closed' = TRUE /\ UNCHANGED <<pending, log, accepted, refused>>

Abandon ==
  /\ closed /\ pending # <<>>
  /\ pending' = Tail(pending)
  /\ UNCHANGED <<log, accepted, refused, closed>>

OutboxNext == Accept \/ Write \/ Refuse \/ Close \/ Abandon

OutboxSpec == OutboxInit /\ [][OutboxNext]_outboxVars
=============================================================================
