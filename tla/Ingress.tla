------------------------------- MODULE Ingress -------------------------------
(***************************************************************************)
(* The worker's sessions with the game: a websocket first, a raw TCP       *)
(* stream of JSON values if the endpoint's answer is not one of a          *)
(* websocket, a pause after every session, and the decoder that takes      *)
(* values off the stream as chunks of it arrive.                           *)
(*                                                                         *)
(* The stream is a sequence of units: braces and quotes, a character of    *)
(* one byte that is legal nowhere, and one of several bytes that is legal  *)
(* in strings only.  A value is an object, of objects and strings, or a    *)
(* string.  What handle_value does with a value is Pipeline's.             *)
(***************************************************************************)
EXTENDS Naturals, Sequences

CONSTANTS
  Scheme,      \* of websocketUrl: "ws" or "tcp"
  MaxText,     \* bound on the units of one connection
  MaxChunk,    \* units of one read, or of one websocket frame
  MaxPending   \* units that may wait for the rest of their value

ASSUME IngressAssumption ==
  /\ Scheme \in {"ws", "tcp"}
  /\ MaxText \in Nat /\ MaxChunk \in Nat \ {0} /\ MaxPending \in Nat

VARIABLES
  pc,         \* where run_until_cancelled is
  speaks,     \* what the endpoint speaks, "ws" or "raw"
  connected,  \* AppState.is_connected
  text,       \* what has been received over the connection
  from,       \* how much of it the decoder has consumed
  delivered,  \* the values handle_value got, as intervals of text
  cleared,    \* an oversized buffer was dropped
  shutdown    \* the daemon's token

vars == <<pc, speaks, connected, text, from, delivered, cleared, shutdown>>

-----------------------------------------------------------------------------
(* Deserializer::from_str(..).into_iter::<Value>().                         *)

Units == {"open", "close", "quote", "wide", "bad"}
Chunks == UNION {[1..n -> Units] : n \in 1..MaxChunk}

(* Between two values, and after a unit that no value has at its place.    *)
Between == [depth |-> 0, quoted |-> FALSE]
Malformed == [depth |-> 0, quoted |-> TRUE]

InString(s) == s.quoted /\ s.depth > 0

(* Depth counts the braces and, in a string, the string.                   *)
After(s, u) ==
  IF s = Malformed \/ u = "bad" THEN Malformed
  ELSE IF InString(s)
  THEN IF u = "quote" THEN [depth |-> s.depth - 1, quoted |-> FALSE] ELSE s
  ELSE CASE u = "quote" -> [depth |-> s.depth + 1, quoted |-> TRUE]
         [] u = "open" -> [s EXCEPT !.depth = @ + 1]
         [] u = "close" /\ s.depth > 0 -> [s EXCEPT !.depth = @ - 1]
         [] OTHER -> Malformed

(* Where a reader of t is after its first k units.                         *)
Scan(t) ==
  LET at[k \in 0..Len(t)] == IF k = 0 THEN Between ELSE After(at[k - 1], t[k])
  IN  at

(* The first value of t: its length, 0 if t ends first, malformed if no    *)
(* continuation of t makes it one.                                         *)
Decode(t) ==
  LET at == Scan(t)
      ends == {k \in 1..Len(t) : at[k] \in {Between, Malformed}}
      end == CHOOSE k \in ends : \A j \in ends : k <= j
  IN  IF ends = {} THEN [kind |-> "eof", len |-> 0]
      ELSE IF at[end] = Malformed THEN [kind |-> "malformed", len |-> 0]
      ELSE [kind |-> "value", len |-> end]

pending == SubSeq(text, from + 1, Len(text))

-----------------------------------------------------------------------------
Init ==
  /\ pc = "loop" /\ connected = FALSE /\ shutdown = FALSE
  /\ speaks \in {"ws", "raw"}
  /\ text = <<>> /\ from = 0 /\ delivered = <<>> /\ cleared = FALSE

NewConnection == text' = <<>> /\ from' = 0 /\ delivered' = <<>> /\ cleared' = FALSE

stream == <<text, from, delivered, cleared>>

(* The session is over with this status; what was pending is dropped.      *)
Ends(status) == pc' = "retry" /\ connected' = status /\ NewConnection

(* Fault: a session that fails leaves the status as it was.                *)
FailsQuietly == Ends(connected)

(* The session returned an error, on which the loop takes the status down. *)
(* (A session that returns Ok has to have done so by itself.)              *)
Fails == Ends(FALSE)

(* run_session. *)
Begin ==
  /\ pc = "loop" /\ ~shutdown
  /\ pc' = IF Scheme = "tcp" THEN "tcp" ELSE "ws"
  /\ UNCHANGED <<speaks, connected, stream, shutdown>>

(* connect_async. *)
Handshake ==
  /\ pc = "ws" /\ speaks = "ws"
  /\ pc' = "frames" /\ connected' = TRUE
  /\ UNCHANGED <<speaks, stream, shutdown>>

HandshakeFails == pc = "ws" /\ Fails /\ UNCHANGED <<speaks, shutdown>>

(* should_fallback_to_tcp: the endpoint's answer is not HTTP.              *)
FallsBack ==
  /\ pc = "ws" /\ speaks = "raw"
  /\ pc' = "tcp"
  /\ UNCHANGED <<speaks, connected, stream, shutdown>>

-----------------------------------------------------------------------------
(* run_websocket_session. *)

(* handle_payload: a frame is one value or is skipped.                     *)
Frame(t) ==
  /\ pc = "frames" /\ Len(text) + Len(t) <= MaxText
  /\ text' = text \o t /\ from' = Len(text')
  /\ delivered' = IF Decode(t).len = Len(t)
                  THEN Append(delivered, <<Len(text) + 1, Len(text')>>)
                  ELSE delivered
  /\ UNCHANGED <<pc, speaks, connected, cleared, shutdown>>

(* The session takes the status down and returns Ok.                       *)
CloseFrame == pc = "frames" /\ Ends(FALSE) /\ UNCHANGED <<speaks, shutdown>>

(***************************************************************************)
(* A read error, or handle_value fails.  The loop's third way out, the end *)
(* of the messages, returns Ok with the status left up; it is not taken:   *)
(* the library (tokio-tungstenite 0.23, external) ends its messages only   *)
(* after a close frame or an error, and on either the loop has returned.   *)
(***************************************************************************)
FramesFail == pc = "frames" /\ Fails /\ UNCHANGED <<speaks, shutdown>>

(* The connection ends without a close frame: the text of that error names *)
(* the protocol as well, and passes should_fallback_to_tcp.  The status is *)
(* left up while the raw connection is tried.                              *)
Reset ==
  /\ pc = "frames"
  /\ pc' = "lost"
  /\ UNCHANGED <<speaks, connected, stream, shutdown>>

-----------------------------------------------------------------------------
(* run_raw_tcp_session and consume_json_stream. *)

TcpConnect ==
  /\ pc \in {"tcp", "lost"}
  /\ pc' = "reading" /\ connected' = TRUE /\ NewConnection
  /\ UNCHANGED <<speaks, shutdown>>

TcpConnectFails ==
  pc \in {"tcp", "lost"} /\ Fails /\ UNCHANGED <<speaks, shutdown>>

(* A websocket endpoint says nothing to a client that makes no handshake.  *)
Read(t) ==
  /\ pc = "reading" /\ speaks = "raw" /\ Len(text) + Len(t) <= MaxText
  /\ text' = text \o t /\ pc' = "decoding"
  /\ UNCHANGED <<speaks, connected, from, delivered, cleared, shutdown>>

(* A read of nothing: the session takes the status down and returns Ok.    *)
EndOfStream == pc = "reading" /\ Ends(FALSE) /\ UNCHANGED <<speaks, shutdown>>

ReadFails == pc = "reading" /\ Fails /\ UNCHANGED <<speaks, shutdown>>

(* Fault: one value is taken off at a read.                                *)
DeliverOne ==
  /\ pc = "decoding" /\ Decode(pending).kind = "value"
  /\ delivered' = Append(delivered, <<from + 1, from + Decode(pending).len>>)
  /\ from' = from + Decode(pending).len
  /\ pc' = "reading"
  /\ UNCHANGED <<speaks, connected, text, cleared, shutdown>>

Deliver ==
  /\ pc = "decoding" /\ Decode(pending).kind = "value"
  /\ delivered' = Append(delivered, <<from + 1, from + Decode(pending).len>>)
  /\ from' = from + Decode(pending).len
  /\ UNCHANGED <<pc, speaks, connected, text, cleared, shutdown>>

(* handle_value fails: a lane is closed, or a flush finds no room in time. *)
DeliverFails ==
  /\ pc = "decoding" /\ Decode(pending).kind = "value"
  /\ Fails /\ UNCHANGED <<speaks, shutdown>>

(* Fault: the buffer may grow for ever.                                    *)
LeavesAll(n) ==
  /\ pc' = "reading" /\ from' = n
  /\ UNCHANGED <<speaks, connected, text, delivered, cleared, shutdown>>

(* Back to the read, when what is left is not oversized.                   *)
Leaves(n) ==
  /\ pc' = "reading"
  /\ IF Len(text) - n > MaxPending
     THEN from' = Len(text) /\ cleared' = TRUE
     ELSE from' = n /\ UNCHANGED cleared
  /\ UNCHANGED <<speaks, connected, text, delivered, shutdown>>

Wait ==
  /\ pc = "decoding" /\ Decode(pending).kind = "eof"
  /\ Leaves(from)

(* One byte of a malformed segment goes at a read ...                      *)
Skip ==
  /\ pc = "decoding" /\ Decode(pending).kind = "malformed" /\ Head(pending) # "wide"
  /\ Leaves(from + 1)

(* ... and String::drain panics where that splits a character: the         *)
(* worker's task is gone, and nobody looks before the shutdown.            *)
Die ==
  /\ pc = "decoding" /\ Decode(pending).kind = "malformed" /\ Head(pending) = "wide"
  /\ pc' = "dead"
  /\ UNCHANGED <<speaks, connected, stream, shutdown>>

-----------------------------------------------------------------------------
(* run_until_cancelled. *)
Retry ==
  /\ pc = "retry" /\ pc' = "loop"
  /\ UNCHANGED <<speaks, connected, stream, shutdown>>

Cancel ==
  /\ ~shutdown /\ shutdown' = TRUE
  /\ UNCHANGED <<pc, speaks, connected, stream>>

Stop ==
  /\ shutdown /\ pc \notin {"stopped", "dead"}
  /\ pc' = "stopped" /\ connected' = FALSE /\ NewConnection
  /\ UNCHANGED <<speaks, shutdown>>

(* The game is restarted: another version may speak another protocol.      *)
Restart ==
  /\ pc \in {"loop", "retry", "lost"}
  /\ speaks' \in {"ws", "raw"}
  /\ UNCHANGED <<pc, connected, stream, shutdown>>

Over == pc \in {"stopped", "dead"} /\ UNCHANGED vars

Session ==
  \/ Begin \/ Handshake \/ HandshakeFails \/ FallsBack
  \/ CloseFrame \/ FramesFail \/ Reset
  \/ TcpConnect \/ TcpConnectFails \/ EndOfStream \/ ReadFails
  \/ Deliver \/ DeliverFails \/ Wait \/ Skip \/ Die \/ Retry

Next ==
  \/ Session \/ Cancel \/ Stop \/ Restart \/ Over
  \/ \E t \in Chunks : Frame(t) \/ Read(t)

Spec == Init /\ [][Next]_vars

-----------------------------------------------------------------------------
(* Type invariant. *)
TypeOK ==
  /\ pc \in {"loop", "ws", "frames", "tcp", "lost", "reading", "decoding",
             "retry", "stopped", "dead"}
  /\ speaks \in {"ws", "raw"}
  /\ connected \in BOOLEAN /\ cleared \in BOOLEAN /\ shutdown \in BOOLEAN
  /\ text \in Seq(Units) /\ Len(text) <= MaxText /\ from \in 0..Len(text)
  /\ delivered \in Seq((1..MaxText) \X (1..MaxText))
  /\ \A i \in 1..Len(delivered) :
       /\ delivered[i][1] <= delivered[i][2] /\ delivered[i][2] <= from
       /\ i > 1 => delivered[i - 1][2] < delivered[i][1]
  /\ pc = "reading" => Len(pending) <= MaxPending

(* The intervals d are the values among the first n units of t: they end   *)
(* where a reader of t is between values, and nowhere else, and each of    *)
(* them begins where the one before it has ended.                          *)
AreValuesOf(d, t, n) ==
  /\ {d[i][2] : i \in 1..Len(d)} = {k \in 1..n : Scan(t)[k] = Between}
  /\ \A i \in 1..Len(d) :
       /\ d[i][1] <= d[i][2]
       /\ d[i][1] = IF i = 1 THEN 1 ELSE d[i - 1][2] + 1

(***************************************************************************)
(* However the stream is cut into reads, the values handle_value gets are  *)
(* the values of the stream, whole, once and in order, and no complete one *)
(* waits for a further read.  One exception: the buffer was oversized.     *)
(***************************************************************************)
DecodesTheStream ==
  /\ pc \in {"reading", "decoding", "dead"} /\ ~cleared
  /\ Scan(text)[Len(text)] # Malformed
  => /\ pc # "dead"
     /\ AreValuesOf(delivered, text, from)
     /\ pc = "reading" => AreValuesOf(delivered, text, Len(text))

(***************************************************************************)
(* The status tells whether there is a session, whichever way the last one *)
(* ended, but in two places where it stays up without one: while a raw     *)
(* connection is tried in place of a websocket that lost its connection,   *)
(* and for good once the decoder's panic has taken the worker's task.      *)
(***************************************************************************)
InSession == pc \in {"frames", "reading", "decoding"}

StatusTellsSession == connected <=> InSession \/ pc \in {"lost", "dead"}
=============================================================================
