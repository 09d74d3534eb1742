# Verification of rl-stats-to-cloud

The daemon of this repository (`core/`) reads game telemetry from Rocket League, routes it through
three bounded lanes to a Firebase Realtime Database, and at the end of every match aggregates the
match and empties the transient nodes. This directory holds TLA+ models of it, the TLC runs that
check them on small instances, and proofs that TLAPS checks for every value of the constants.

Source paths below are relative to the repository; `worker/` stands for `core/src/worker/`.

## 1. Inventory

| Component | State it keeps | Operations | Talks to |
|---|---|---|---|
| Router (`worker/mod.rs`, `worker/context.rs`) | latches `cached_podium_active`, `cached_historical_active`; `active_match_id`, `in_replay`; `sequence`, `last_compaction_seq`, `last_aggregated_match_id`; the game clock | handle an event; compact at a match boundary; session loop; shutdown | the three lanes (`try_send`, `send`), oneshot channels to the actors, the database (`delete_node`, aggregation) |
| Live-state actor (`worker/actors.rs`) | `master_state`, `cached_match_id`, the event it holds while draining | coalesce, PUT, flush, snapshot, reset | its lane, `live_state` |
| Event-feed actor (`worker/actors.rs`) | the event in flight, its failures | POST with a bounded retry, flush | its lane, `live_events_feed` |
| Historical actor (`worker/actors.rs`) | the event in flight | POST with an unbounded retry | its lane, `matches/<id>/events` |
| Event taxonomy (`worker/events.rs`, `worker/mod.rs`) | none | classify, gate, mirror, compaction reason | the router |
| Aggregation (`worker/aggregation.rs`) | none of its own | concurrent uploads, read-modify-write of cumulative statistics, roster resolution | the database |
| Firebase client (`firebase.rs`) | none | push, put, get, delete | the database, the token |
| Authentication (`firebase_auth.rs`) | password, token, runtime state, each under its own lock | login, refresh, change of credentials | every request |
| Control plane and UI server (`daemon/`) | the server task slot, client count, generation | AllowUi, DisallowUi, Poweroff, ProvidePassword, idle timer | worker (shutdown token), UI clients |
| Tauri bridge (`src-tauri/src/`) | bridge task, exit flag, the status shown | ask for the server, connect loop, exit handling, load and save config | control plane, UI server |
| Sessions and stream framing (`worker/mod.rs:124-563`) | connection status, undecoded text | websocket or raw session, fallback, decode JSON values from a TCP stream | the router |
| Transformer (`worker/transformer.rs`) | none | turn an event's data into what a lane carries; who a player is | the router |
| Configuration, frontend | none that is shared | parsing, rendering | - |

What is hard here:

* **Concurrency.** The router and three actors are tasks of one runtime; they meet only in the
  bounded lanes and in oneshot channels. A match boundary needs all of them: the router must not
  delete a node while an actor still has older data for it. `PROJECT.json` lists the places where
  this can go wrong (`hazards`), each at its line.
* **Timeouts and retries.** Two of the router's waits are bounded (enqueueing, acknowledgement), two
  are not (the snapshot's reply, the reset's enqueueing). The feed retries a few times, the
  historical lane forever, the deletes a few times.
* **Lost answers.** A request may be carried out although its answer never arrives.
* **Cancellation.** The token drops the session's future at whatever await it is.
* **Latches.** The podium and the historical latch are put up and taken down around boundaries that
  the same events trigger.
* **Separate locks.** Password, token and runtime state are read and written one after the other, and
  a request lies between the read of a credential and the write of what it obtained.
* **Two processes.** Client and daemon start and end independently, and a control command outlives the
  client that sent it.

What makes the system correct: no event of a finished match in the next match's nodes; what is
aggregated is the match's telemetry, once; the historical log is in order and nothing in it is
forgotten; no boundary hangs the router; a shutdown ends; a token that is handed out can be used; the
values handed to the router are those of the stream; a player's log says what the game told of that
player in that match, and all agree on who won it; a client shows the daemon's status in order, and
ends when it is closed.

## 2. Modules

| Module | What it is |
|---|---|
| `Events` | the taxonomy: classes, mirroring, gates, compaction reason, as operators over event names |
| `Pipeline` | router, live and feed lanes with their actors, transient nodes, shutdown |
| `TransientNode` | what a transient node promises its readers (abstract) |
| `PipelineInvariant` | the inductive invariants behind the barrier, the aggregation count, the telemetry that is aggregated and the router's waits |
| `HistoricalLane` | the historical lane, its actor and its log |
| `Outbox` | a first-in first-out outbox with at-least-once delivery (abstract) |
| `UiServer` | the daemon's control plane: the UI server slot, the servers, their clients and idle timers, the supervisor |
| `Roster` | majority-rule roster resolution, as operators over the registry's answers |
| `Aggregation` | one call of `upload_aggregation`: the concurrent read-modify-writes of a match's statistics |
| `MatchReport` | what the rows of a match say: the live state made of each update, its merge, and the logs and results made of it |
| `Auth` | password, token and runtime state, the calls that refresh and those that replace the password |
| `Ingress` | the sessions with the game and the decoder of a raw stream |
| `Bridge` | the Tauri client beside the daemon: exit events, bridge task, control commands, the status shown |
| `MCPipeline`, `MCHistoricalLane`, `MCUiServer`, `MCAggregation`, `MCAuth`, `MCIngress`, `MCBridge`, `MCMatchReport` | instances for TLC |
| `Pipeline_proofs`, `HistoricalLane_proofs`, `UiServer_proofs`, `Bridge_proofs`, `Ingress_proofs`, `Aggregation_proofs`, `MatchReport_proofs`, `Auth_proofs` | the proofs |

`Pipeline` extends `Events`, refines `TransientNode` twice (`FeedView`, `LiveView`), and hands to
`HistoricalLane` a stream of envelopes with growing numbers (`histOffered` says which they are).
`HistoricalLane` refines `Outbox`. `UiServer` meets them only in the shutdown token: its `WorkerJoined`
stands for the three joins at the end of the worker, and what justifies its fairness is `ShutdownJoins` of
`Pipeline` for the live and the feed actor and `JoinsHistorical` of `HistoricalLane` for the historical one,
which the router joins last and without a timeout, too. `Aggregation`
is what happens inside `Pipeline`'s action `Aggregate`; its `AggregationEnds` is what justifies that
action's fairness, and `MatchReport` is what the snapshot it was given holds and what it makes of it: where
`Pipeline` says which updates are in the snapshot, `MatchReport` says what they add up to. `Ingress` delivers the values that `Pipeline`'s `Receive` takes, and its `Cancel` is
the same token. `Auth` stands before every request of the other modules; its updates are the
`ProvidePassword` of the control plane. `Bridge` composes the client with the daemon: it keeps of
`UiServer` whether the server is spawned, listening, dead in its slot or gone, lets timers and the
command line start and stop it (`Others`), and adds what `UiServer` leaves out, the status that is
streamed and the processes that end and start again.

### 2.1 Pipeline and the code

*Router.* `rpc` is the await `handle_value` is at; what runs between two awaits is one action.

| `rpc` | code | leaves by |
|---|---|---|
| `offline` | no session: reconnect delay, connect | `Connect` |
| `idle` | waiting for a message | `HandleEvent`, `BeginCompaction`, `Disconnect` |
| `flushLive`, `flushFeed` | `send_flush_request` (`mod.rs:880`) | `FlushLive`, `FlushFeed` |
| `ackLive`, `ackFeed` | `wait_for_flush_ack` (`mod.rs:913`) | `AwaitAck` |
| `snapSend`, `snapWait` | `request_live_state_snapshot` (`mod.rs:940`) | `RequestSnapshot`, `ReceiveSnapshot` |
| `aggregate` | `upload_aggregation` | `Aggregate` |
| `reset` | `send(Reset)` (`mod.rs:700`) | `SendReset` |
| `deleteLive`, `deleteFeed` | `compact_transient_nodes` (`mod.rs:780`) | `DeleteLive`, `DeleteFeed`, `DeleteRetry`, `DeleteGiveUp` |
| `stopped` | after the session loop, joining | - |

`RouterStop` is the outer `select!` of `run_until_cancelled`: it may drop the session at any of
these awaits. An acknowledgement and its timeout have the same next state in the code, so `AwaitAck`
waits for nothing; whether the answer had really arrived is in `acks`, which the properties use. The
test `last_compaction_seq < sequence` (`mod.rs:676`) is always true, since `sequence` was just
incremented; it is kept as a guard of `BeginCompaction`.

*Lanes* are bounded sequences of messages. A control message carries the envelope of the compaction
that sent it, which stands for its oneshot channel: an answer to an older compaction goes nowhere
(`Answer`).

*Actors* are program counters: the live actor is at `recv`, holds an event while it drains the lane
(`drain`) or waits for its PUT (`send`); the feed actor is at `recv`, `send` or `backoff`.

*Database.* A request is carried out or not, independently of its answer; one that failed or timed out
has been carried out by then or never (so in `HistoricalLane` and `Aggregation`, too: a request that is
carried out after its sender gave up on it is not modelled, except where the token drops the sender). `liveNode` is the set of
envelopes whose data the node shows, `feedNode` the set of events in the feed.

*Abstractions.* A payload is its event: what the cache keeps of it is the player telemetry
(`Players`), which only `UpdateState` carries. Match ids are model values; the one generated at
start-up is `Fallback`. The game clock, the routing counters, session ids and log output are left
out. The aggregation is one awaited call (`uploads` counts the calls). Raw TCP and WebSocket
sessions are the same to the router.

*History variables* (`liveEpoch`, `feedEpoch`, `liveSince`, `disturbed`, `visits`, `histOffered`) observe; no action reads them in a guard.

### 2.2 HistoricalLane and the code

`queue` is the channel, `pc`/`held` the actor in `send_with_retry_policy` without a limit, `log` the
database's event list in push order. A failed POST may have been carried out by the time it failed, not
later. `overflows` is the counter of `RoutingStats`. The token is looked at before every attempt
(`Attempt`) and ends a backoff (`HistRetry`, which then does not attempt again). `Joined` is the return of
the router's last join.

### 2.3 UiServer and the code

Tasks of the daemon run on several threads, so every atomic operation is a step of its own.

| State | Code |
|---|---|
| `slot` | `UiServerControl.server_task` under its mutex; a server is a number, 0 is `None` |
| `server[s]` | `run_ui_websocket_server`: spawned (before `bind`), listening, ended |
| `cancelled` | the servers whose token is cancelled |
| `active`, `generation` | `active_clients`, `lifecycle_generation`, one pair per server |
| `conn[k]` | `serve_ui_client`: handshake, counted in, streaming, counted out; then its timer: sleeping, awake, stopping. `gen` is `generation_at_disconnect` |
| `handler[h]` | `handle_control_connection`: reading, or waiting in `stop_ui_server` |
| `control`, `supervisor`, `shutdown` | `run_control_server_loop`, `DaemonSupervisor::run`, the daemon's token |

`TakeServer` is what every caller of `stop_ui_server` does under the lock, with the cancellation that
follows it. A client's stream ends when its server is cancelled, and otherwise at any time or never. In
the code a departed client is noticed only when a send to it fails (`ui_server.rs:123-136`), and the status
is sent only when it changes (`mod.rs:1215-1229`): `Leave` is the moment a client is counted out, which may
be long after it went away, and what the properties say of clients that left is about those. What is
streamed is in `Bridge`, `ProvidePassword` in `Auth`.

### 2.4 Aggregation and the code

| State | Code |
|---|---|
| `lineup`, `lookup` | `team` of each player in the snapshot; `team_id` in `players/<id>`, or nothing |
| `path` | the node of a job: `stats_cumulative/<player>`, `stats_cumulative_teams/<team>` |
| `job[j]` | `update_cumulative_stats` of a player, `update_cumulative_team_stats` of a side: `unborn` while rosters are resolved, `top` of its loop, `put` while its PUT is under way, `done`; `read` is what its GET gave, `failures` its counter |
| `node` | the database; a node's numbers are abstracted to how often each job added its own (`Before` stands for the earlier matches) |
| `Damaged` | the nodes whose content from before the match does not parse (a constant) |

A job is at an await in every state, so `Get` is the GET with all that follows it up to the PUT, and
`PutFail` the failed PUT with the backoff. The two kinds of job have the same control. A node that does not parse is
read as an empty one (`Parsed`), so that the PUT replaces it; a node is at its old content, whole, or was
written by a job of this match, and then it parses. `Drop` is the
router's `select!` that drops the session at the token: jobs vanish, and a PUT under way (`adrift`) is
carried out or not. `MaxEntries` leaves open which of several maxima the hash map's walk ends with.

The match index and the player logs (`upload_with_retry`) are one PUT each under keys of their own and
are left out, as is the arithmetic of outcome, MVP and totals. Sanitized player keys are taken to be
distinct, and a request that failed to have been carried out by then or never.

### 2.5 Auth and the code

| State | Code |
|---|---|
| `password`, `token`, `runtime` | the three locks of `FirebaseAuth`; a password is numbered in the order the account had it, a token says which password it goes back to and how much time it has |
| `call[p]` | a `get_token` (of `Callers`) or an `update_credentials` (of `Updaters`) and the critical section it is at; `cred` is what its request was made with |
| `account` | the password Identity Toolkit accepts at present |

Every critical section is a step, and `asked` is the await of a request. Where one guard is held while
another lock is taken the two sections are one step, because nobody can change what the guard covers.
`late` marks, for the properties, calls that an update overtook and the tokens that descend from them.
Tokens have plenty of time, are within the margin of five minutes, or have expired (`Expire`); between
the look at a token and its use lie seconds, so a token that was fresh when it was looked at does not
expire before it is used. Identity Toolkit is taken to issue tokens that live longer than the margin: an
answer whose `expires_in` is 0 or within it (`firebase_auth.rs:150-156`), with which the code would store a
token that needs a refresh at once, is not modelled.

### 2.6 Ingress and the code

`pc` is where `run_until_cancelled` is: the top of the loop, a websocket handshake, the frames of an
open websocket, a TCP connect (`tcp`, or `lost` when it replaces a websocket that was open and lost its
connection), a read, the decoding loop after it, the pause, stopped, or dead (the task panicked). `Fails`
is the session returning an error, on which the loop takes the status down; sessions that return Ok
take it down themselves (`CloseFrame`, `EndOfStream`). One way out does neither: the end of the websocket's
messages (`mod.rs:320-322`) returns Ok and leaves the status up. It is not an action, because the library
(tokio-tungstenite 0.23, not part of the repository) ends its messages only after it has yielded a close frame or an
error, on both of which the loop returns; a connection that ends without a close frame is such an error
(`Reset`). `text` is what the connection brought, `from` how much of it the decoder consumed, so
that the buffer of `consume_json_stream` is what lies between. `delivered` are the intervals of `text`
that were handed to `handle_value`.

Bytes are five units: braces, a quote, a character that is legal nowhere, and a character of several
bytes that is legal in strings only. `Decode` is one step of `serde_json`'s stream iterator over them:
a value, end of input, or an error. Members and separators inside an object do not matter to where a
value ends and are left out. A read is converted to text as a whole; a character that two reads split
is not modelled (section 6).

### 2.7 Bridge and the code

| State | Code |
|---|---|
| `gui` | the main thread: running, or in `shutdown_ui_bridge_and_disallow` for the first `ExitRequested` (`phase` shutdown) or for `Exit` (`phase` exit) |
| `shuttingDown`, `token` | `is_shutting_down`, the client's cancellation token |
| `task` | `run_bridge`: asking for the server, the top of its loop, connecting, streaming, pausing |
| `commands` | control connections whose command the daemon has not carried out yet |
| `status`, `stream` | the daemon's watch channel; `stream_state_to_client` (`seen` is the version its receiver has seen, `held` what it borrowed) and the frames on their way |
| `server` | the server in the slot; `dead` when its bind failed |

A timeout may fire at any moment. A command is carried out although its sender gave up, because the
daemon reads it from a socket that the sender has merely closed. `MaxLaunches` and `MaxDaemons` bound
how often either process is started again.

### 2.8 MatchReport and the code

| State | Code |
|---|---|
| `board` | `score` and `player_telemetry` of the live actor's `master_state` |
| `updates`, `reported` | how many updates were merged (the bound), and the ones since the last boundary (history) |

`Update` is `normalize_live_state` (`LiveState`) and `merge_json_value` (`Merge`), `Boundary` the snapshot
and the reset. What `upload_aggregation` computes of the snapshot (outcome, MVPs, logs, each player's and
each side's result) are operators over `board`, because it changes no state here: the writes are
`Aggregation`'s. A JSON object is a function whose domain are the fields that are there, so that sparse
updates stay sparse; a string is a sequence, as far as the sanitizing of keys and the prefix of bots need
it. Of a player's numbers the model keeps `shots`, which is summed, and `score`, which decides about MVPs
and may be negative (`extract_i64`, where the others are `extract_u64`). Sums saturate in the code at
2^64; the model's do not.
The depth-first search for a field (`find_value_by_keys`) is the look at the field.

## 3. Runs

| Run | Asks | Bounds |
|---|---|---|
| `Pipeline` | does a match boundary keep the nodes clean, does the reset find room, do both lanes implement `TransientNode`; with the token cancelled at any await, does every compaction end, does every shutdown end in the live and the feed actor being joined | 3 events of 3 kinds, 2 ids, lanes of 2 and 1, one retry |
| `PipelineMatch` | is what is aggregated the match, once per visit | 5 events of 3 kinds, 2 ids, lanes of 1 |
| `Historical` | does the lane implement `Outbox`, is everything accepted settled, does a shutdown end the unlimited retries | 4 events, a lane of 2, 5 log entries |
| `Aggregation` | is a match counted once, is nothing older lost that parses, does a side write to the team with the majority, does the call end | 2 players on two sides or one, 2 teams, one player's and one team's node that does not parse, one retry |
| `MatchReport` | do the logs say what the game told last in this match, do players, sides and MVPs have one result | 2 updates of up to 2 players out of 8 entries, 0 or 1 goals, a boundary anywhere |
| `UiServers` | does a started server always have someone who can stop it, is the client count right, does only the last departure's timer stop a server, are abandoned servers stopped, does every shutdown end the process | 2 servers, 2 clients, 1 control connection at a time |
| `Auth` | can a granted token be used, does a token stay, is one of an older password there only after an overtaken call, does every caller get a token again | 2 callers, 1 updater, 2 updates, 2 passwords of the account |
| `Ingress` | are the values those of the stream however it is cut, does the status tell whether there is a session | 6 units, reads of 1 to 3, 3 pending |
| `Bridge` | is the status shown in order, is nothing shown after the join, does a client catch up, does an exit end | 2 clients, 2 daemons, 2 statuses of each, 1 frame on the way |
| `Doc*` | three statements of documents or tests that the code does not keep (section 6) | as small as shows it |

Three events are enough for an event of an old match, the boundary that should shut it out, and an event
of the next match; five, for a match that is closed and played on in and closed again. A lane of two holds
an event behind or before a control message, a lane of one fills up. Two retries would only repeat the
interleavings of one. The generated id and
one id of the game give transitions in both directions. Two players and two teams give a tie, a majority,
a side without votes, two sides of one team and a side without players. Two UI servers show one
server's timer meeting another server; two clients, a departure that is overtaken by an arrival or by
a later departure. One control connection is enough beside them, since the timers and the supervisor
stop the server as well, and connections are reused. Two callers refresh at once; two updates
overtake calls at two places, one before and one after the account's own change. Six units hold a nested value with a string, two values and a half, or
a malformed segment before a value, and three pending units make the buffer overflow. Two clients show
a command of the first meeting the second; two daemons, a status from before a restart. Two updates show one player told of
twice, sparsely, on either side or in two matches; the eight entries hold players whose keys collide, bots,
players without a name, an entry without numbers, one with a negative score and a player of no side. `Receive`
offers any event with any id at any time, also sequences a real game does not send.

**Fairness.** `Pipeline` and `Historical` assume weak fairness of the router, and of each
actor: the runtime polls every task that can run, timers fire, and every HTTP request ends because
the client has a timeout of five seconds (`firebase.rs:20`). Nothing is assumed of the game, of the
connection, or of the operator. `Delivered` needs more, strong fairness of an answered POST: the
actor retries forever, and only a database that answers in the end lets it deliver. That is assumed up to
the cancellation of the token only: for `JoinsHistorical` every request after it may fail.

`UiServers` assumes that every task of the daemon that can run is polled and that timers fire; a
client's stream is only obliged to end when its server was cancelled (`stream_state_to_client`
selects on the token). Clients and operators owe nothing.

`Aggregation` assumes weak fairness of the call as a whole: the runtime polls the router's task, every
request ends by its timeout and every backoff by its timer. Which job is served first is left open.

`Auth` assumes weak fairness of every call and of the answer to its request (the HTTP timeout), and
strong fairness of `Accepted`: Identity Toolkit does not refuse for ever what it accepts. The lanes
always have something to send or to send again, so a caller asks again. Nothing is assumed of updates,
of the account's owner or of time. `Bridge` assumes that both processes poll their tasks, that every
timeout fires and that a command which reached the daemon is carried out; nothing is assumed of users,
operators, the game, or of whoever starts and ends the daemon.

No run turns deadlock checking off; final states have explicit stuttering actions: `Exited` (of
`Pipeline` and `UiServer`), `Quiescent`, `Returned`, `Over` (`Ingress`) and `Gone` (`Bridge`).

## 4. Properties

* `BarrierDrains`, `NoDataBleed`: an answered oneshot means a drained lane, and a node emptied behind
  a barrier never shows older data again, whatever was queued, retried, coalesced or cached. They
  hold although acknowledgements may time out: the snapshot's unbounded wait is a second barrier of
  the live lane, so only the feed depends on its acknowledgement.
* `ResetNeverBlocks`: the unbounded `send(Reset)` always finds room, because the snapshot it follows
  was the last message of the lane.
* `NoQueryWhileDraining`: the actor never answers a snapshot or a reset while it holds an unmerged
  event, although its code would; the flush in front of every query prevents it.
* `AggregatesTheMatch`: the snapshot is what the live lane accepted since the last reset, all of one
  match; unless a boundary was aborted or had no snapshot (`disturbed`).
* `AggregatedOncePerVisit`: `last_aggregated_match_id` is enough to count a match at most
  once each time it becomes active.
* `CompactionEnds`: no boundary hangs the router. `ShutdownJoins`: a shutdown ends in the join of the live
  and the feed actor. `JoinsHistorical`: and in that of the historical one, although its retries have no
  limit and the join no timeout; it would hang if the token were not looked at before an attempt.
* `ImplementsOutbox`, `Delivered`: the historical lane is an outbox, so its log never overtakes and nothing
  accepted is forgotten before a shutdown; everything accepted is settled before a shutdown if the
  database answers in the end. What a shutdown finds in the lane is dropped.
* `CountedOnce`, `NothingLost`: a cumulative node grows by the match once, and never shrinks below what
  was there. The first has one exception, a PUT whose answer was lost. The second has two: two sides
  that resolve to one team overwrite each other's numbers, never older ones; and a node that does not parse
  is taken for an empty one and written over, so that what earlier matches left there is gone (section 6).
* `MajorityRule`: the order of the tally's hash map does not show in the result. `AggregationEnds`: the
  router's wait for all jobs ends.
* `LogsTellTheMatch`: a player's log is what the game told last of that player since the boundary, whatever
  sparse, repeated or missing entries came in between; the sides' totals are those of the logs. Players
  whose keys collide are the exception (section 6).
* `OneResult`: players, sides and MVPs get their result from different tests of the two scores; when a side
  won, the tests agree. A winner without a score is not compared, as in the code.
* `NoOrphan`: a server that was started and not told to stop is in the slot, although AllowUi,
  DisallowUi, Poweroff, timers and the supervisor all write it.
* `CountIsClients`, `OnlyLastTimerStops`: the count never wraps; a timer decides to stop its server
  only while nobody is served, and not while a later departure's timer is still to fire.
* `AbandonedServerStops`, `ShutdownExits`: some timer is always the last one, so an abandoned server
  is stopped; nobody waits for a server that was not told to stop.
* `GrantedIsAlive`: the look at a token and the read of it are two critical sections, and yet what is
  handed out has time left. `StoredStays`: a call meets `MissingTokenState` only when an update overtook
  it. `StaleOnlyIfOvertaken`: after a change of credentials a token of the old password is there only if
  a call that was under way brought it back. `TokenAgain`: no interleaving of callers, failures and
  expiries leaves one without a token for good.
* `DecodesTheStream`: the intervals delivered are the values of the stream, in order and without delay,
  unless the stream is malformed or a value outgrew the buffer. `StatusTellsSession`: the
  status says connected exactly during a session, whichever way the last one ended, but in two places where
  the code leaves it up without one: while a raw connection is tried in place of a websocket that lost its
  connection, and for good after a panic of the decoder (section 6).
* `ShownInOrder`: neither reconnections nor the borrow that does not mark a value as seen show an older
  status after a newer one. `SilentAfterJoin`: nothing is shown by a bridge task that was joined or
  aborted. `CatchesUp`: no status is lost between two frames. `ExitEnds`: preventing the exit and exiting
  again ends.

## 5. Proofs

TLAPS checks every proof to its last leaf. Every invariant and every action property that a run checks
and that holds is proved, both abstract specifications are shown to be implemented, and nothing is
assumed but what the named assumptions say of the constants.

* `Pipeline_proofs`, from `PipelineAssumption` (any capacities of at least one, any retry budgets, any
  set of match ids), in three parts.
  * The types: `TypeCorrect`.
  * The barrier: the invariant `BarrierInv`, in three layers. `Numbering`: no message is newer than
    the router's counter, a compaction is about the newest event. `FeedInv`: the flush of the compaction
    under way is the last message of the feed lane, because the router routes nothing meanwhile; once it
    is answered, the lane is empty and the actor idle. `LiveInv`: the same for the live lane, where the
    flush may be answered from inside the draining loop, plus: a query never directly follows an event
    (`QueriesApart`), the actor never drains an empty lane after the flush (`LiveQuiet`), and the cache
    is older than the epoch only while the reset is the next message (`CacheFresh`). `NoDataBleed`,
    `BarrierDrains` and `ResetNeverBlocks` follow, and both refinements of `TransientNode`: every step is
    a `Publish`, an `OpenEpoch` or a stutter of each view.
  * The upload: `NoQueryWhileDraining` from the barrier, and `AggregatesTheMatch` from
    `TelemetryInv`: the telemetry that the live lane accepted since the last reset is in the cache, in the
    actor's hand or queued, and nowhere else (`NothingDropped`); it is of one match, because a change of id
    needs a boundary (`OneMatch`); and a reset is only ever the first message of the lane (`ResetFirst`), so
    that it throws away what was aggregated and nothing else. At the snapshot the lane is empty and the
    hand too, which leaves the cache. And `AggregatedOncePerVisit` from `VisitInv`, which says that the match
    a compaction is about has a visit left unless it was the last one aggregated.
  * The waits: `AnswerDue`, which rests on the barrier: while the router waits for a flush or for the
    snapshot, the question is answered, in the actor's lane or in its hand, and an actor stops at the
    shutdown only. No run states it; it is what `CompactionEnds` depends on, because the wait for the
    snapshot has no timeout: `NobodyWaitsInVain` says that it is a wait for an actor that runs and has
    the question before it.
* `HistoricalLane_proofs`, from `HistoricalAssumption` (any capacity and bounds): `TypeCorrect`;
  `LogInOrder`, the order of the log, which the runs check as a part of `Outbox`, from `OrderInv`, which
  orders log, held event and queue; and the refinement of `Outbox`,
  whose waiting events are the held one in front of the queue.
* `UiServer_proofs`, from `UiServerAssumption` (any number of servers and clients, any control
  connections): `NoOrphan`, because every step takes the server out of the slot and cancels it, or fills
  an empty slot, or moves on a server that was started; `CountIsClients` with the cardinality of the set it
  counts, from which the types follow, too: a client that leaves was counted. `OnlyLastTimerStops` needs
  that no timer remembers a generation that is yet to come (`GenBound`), and that while the generation is
  the one an awake timer remembers, nobody streams (`NobodySince`): whoever enters begins a generation.
  `TimerDue`: a server that had clients, has none and is not cancelled has a timer that will find it so. The
  last client to leave begins a generation and arms the timer that remembers it, and whoever begins
  another has entered, and is counted again, or is itself a later timer; a timer that stops a server cancels it. It needs that a connection is
  one to a server that was started (`Begun`).
* `Aggregation_proofs`, from `AggregationAssumption` (finitely many players, any teams, lineups and
  budget): `TypeCorrect`; `CountedOnce` from `CountInv`, which adds that an unfinished job without a
  doubtful PUT is in no node and in nothing any job has read; `NothingLost` from `KeepInv`, which says
  that whoever is about to write has read what earlier matches left, or nothing where that does not parse,
  and, alone on its node, still has its latest value; `MajorityRule` from a lemma of `Roster`: whichever maximum the walk finds, it passes
  the comparison exactly if it is the strict majority.
* `Auth_proofs`, from `AuthAssumption` (any callers and updaters that are not the same, any bounds):
  `TypeCorrect`; `GrantedIsAlive`, because a call that relies on a token has seen or stored one that was
  not expired, and whatever is stored since is fresh (`Alive`, `Current`); `StoredStays` and
  `StaleOnlyIfOvertaken` by the marks of overtaken calls: only `Reset` takes a token away, and it marks
  every call in progress; a call that is not marked asks with the password that is in memory.

* `Bridge_proofs`, from `BridgeAssumption` (any number of client and daemon processes and of statuses,
  buffers that hold any number of frames but not none): `TypeCorrect`; `SilentAfterJoin` from
  `Connected`, which says that a connection is open only while the bridge task streams and only to a
  daemon that runs, and that the task has ended from its join on, also when the exit was prevented and
  is requested again; `ShownInOrder` from `InOrder`: nothing on its way is newer than the daemon's
  newest status or older than what is in front of it, the status shown included, so that neither a read
  nor a new connection goes back. Between the two daemons of a restart it needs that the numbers of the
  earlier one are never used again. `NoStatusLost`: a stream that waits for a change has sent the newest
  status last, or the change is there already; `borrow()` takes the newest but leaves it unseen, so a
  status published between `changed()` and `borrow()` is sent twice rather than passed over.
* `Ingress_proofs`, from `IngressAssumption` (either scheme, streams, reads and buffers of any size):
  `TypeCorrect`, that is, what is delivered does not overlap and what waits fits the buffer;
  `StatusTellsSession`; and `DecodesTheStream` from `DecodeInv`: as long as the stream is well formed,
  the decoder stands where a reader of the whole stream is between two values and where the last value
  delivered has ended, and at a read no value is complete in what is pending. The reader is the recursive
  function `Scan`. Of it the proof needs that it is there at all (`ScanExists`), that later units do not
  change what was read (`ScanPrefix`), that what follows a place between two values is read as if it
  were the whole stream (`ScanSuffix`), and that a malformed stream stays malformed (`MalformedStays`).
* `MatchReport_proofs`, from `ReportAssumption` (any entries whose shots are natural numbers and whose
  scores are integers, in any number): `LogsTellTheMatch` from `ReportInv`: the cache has exactly the
  players the updates have told of since the boundary, and of each the fields and the values told
  last. Of two entries for one player in one update the invariant needs that only the one that stands
  tells anything (`TellsOnce`), so that what was told last is well defined. The sides' shots are sums over
  sets, of which the proof shows that they do not depend on the order (`SumAnyFirst`) and that the sum
  over two disjoint sets is the sum of theirs (`SumSplits`). `OneResult`: scores are natural numbers, so one
  side at most has won; finitely many integers have a greatest (`GreatestExists`), which is the MVP's.

The last two need induction over data. The library's induction theorems cannot be used, because they
take an operator; that the order of the natural numbers is well founded is stated of sets there, and
gives `InductionInSet`: a set of natural numbers that contains 0 and with every number its successor
contains them all. What is to be shown by induction is put into such a set.

Only model-checked: liveness (`CompactionEnds`, `ShutdownJoins`, `JoinsHistorical`, `Delivered`, `AggregationEnds`,
`AbandonedServerStops`, `ShutdownExits`, `TokenAgain`, `CatchesUp`, `ExitEnds`), because fairness is stated
with ENABLED, which is out of reach of the provers. Of `CompactionEnds`, `AbandonedServerStops` and
`CatchesUp` the safety half is proved nevertheless: no question, no timer and no status is lost on which their
progress depends (`NobodyWaitsInVain`, `TimerDue`, `NoStatusLost`).

## 6. Where the documents and the code disagree

| Run | Statement | Code |
|---|---|---|
| `DocDestroyed` | ADR 0021: `MatchDestroyed` reaches the historical lane | the latch is down when the event is routed |
| `DocReconnect` | `operations.md:68`: the client re-requests `AllowUi` on reconnect | it asks once, when it starts |
| `DocDraw` | the test at `aggregation.rs:856`: a draw has no winner | the orange side is counted a win, the blue side a loss (`aggregation.rs:269`, `295`) |

Read off the code while modelling, not worth a run:

* *Pipeline.* The next match's `MatchInitialized` puts the latch up before its compaction tests it, so that a
  match which was never initialized is aggregated when such an event closes it (`pipeline.md:183`,
  `mod.rs:654`, `mod.rs:689`). A flush that cannot be enqueued ends the session, it does not let the compaction proceed
  (ADR 0020:53, `mod.rs:862`). A full feed lane drops the newest event, not the oldest (`pipeline.md:251`,
  `mod.rs:1071`); a feed event has four attempts, not three (`pipeline.md:252`, `actors.rs:245-259`); the
  full historical lane drops, although it is called lossless (`pipeline.md:320`, `mod.rs:1094`). Lanes
  are created once, not per session (`pipeline.md:217-224`, `mod.rs:94-130`). A failure to authenticate
  is transient, not terminal (`pipeline.md:275`, `firebase.rs:57`). The game clock (`mod.rs:662`) and
  `in_replay` (`mod.rs:652`) survive a match boundary.
* *Aggregation.* A cumulative node that does not parse is taken for an empty one, with a warning, and the PUT
  that follows replaces it by this match alone (`aggregation.rs:320-328`, `496-503`). When two player ids have one sanitized key, both get the log that is found first, so its
  numbers are counted twice (`aggregation.rs:191`). Players without an id share a row with those of the
  same name, and all without a name share one (`transformer.rs:393-399`). The search for a field descends
  into nested objects, so an entry that lacks one takes that of, say, its attacker. When the delete of
  `live_state` fails for good, `live_events_feed` is not deleted at all (`mod.rs:788`).
* *Sessions.* A malformed segment costs one byte per read, so complete values behind it wait; where that
  byte is the first of several of one character, `String::drain` panics (`mod.rs:546`): the worker's
  task is gone, nobody looks at it before the shutdown, and the status stays at connected, while ADR
  0012:19 rejects to fail by panicking. Each read is converted to text by itself (`mod.rs:428`), so a
  character split over two reads becomes replacement characters. The fallback is not limited to the
  handshake (`architecture.md:160`): the error of a websocket that lost its connection passes the same
  test (`mod.rs:259`, `mod.rs:453-458`), and the status stays at connected while the raw connection is tried.
  A session that returns Ok has its status taken down by itself only (`mod.rs:159-169`); the arm for the end
  of a websocket's messages forgets to (`mod.rs:320-322`), which does not show only because the library never
  gets there. The raw stream is of concatenated values, not of lines.
* *UI server.* The timer of an earlier server stops a later one that has clients (`operations.md:66`,
  `ui_server.rs:109`), for instance when the client is closed and opened again within thirty seconds.
  `AllowUi` is acknowledged before the bind, and the slot keeps a server that failed
  (`operations.md:44`, `ui_server.rs:20-26`). A server that no client ever reaches has no idle timer
  (`architecture.md:149`, `ui_server.rs:93`). The reply NotRunning is never sent (`operations.md:47`).
* *Authentication.* A change of credentials clears stale tokens (ADR 0018), but a refresh that it
  overtook stores one again (`firebase_auth.rs:235`). A refresh token that is refused for good is never
  replaced by a login (`firebase_auth.rs:223`). The runtime state can disagree with the token; nothing
  reads it to decide anything.
* *Client.* What was shown last stays when the connection drops (`transport.rs:151`). An `AllowUi` or
  `DisallowUi` can be carried out after its sender is gone.

## 7. Plan

Done: `Events`, `Pipeline`, `HistoricalLane`, `UiServer`, `Bridge`, `Roster` and `Aggregation`, and `Auth`,
`Ingress` and `MatchReport`, each with its proofs. What is left:

1. `Aggregation`: the match index and the player logs; a request that is carried out after the round
   that gave up on it.
2. `Pipeline`: the cached game clock.

## 8. Not modelled

* Of the transformer, the payloads of feed and historical events: they are rewritten one by one, without
  a state, and nothing in the code depends on what is in them. Which events carry player telemetry is
  `Players` of `Pipeline`, what it becomes is `MatchReport`.
* Configuration and process start-up, and the frontend.
* The client's commands that load and save the configuration file: nothing else in the client reads
  what they write, and the daemon reads it at its start only.
* What a restart of the daemon means for the database: it persists nothing, so a restart is `Init` with
  nodes that still show old data, about which the code promises nothing (ADR 0019). `Bridge` has the
  restart for the client's side.
