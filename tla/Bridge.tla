------------------------------- MODULE Bridge -------------------------------
(***************************************************************************)
(* The Tauri client beside the daemon: the main thread that sees the exit  *)
(* events, the bridge task that asks for the UI server once and then reads *)
(* its websocket again and again, and of the daemon what the client meets: *)
(* the control connections, a UI server that is there or not (UiServer has *)
(* its life in detail) and the task that streams the status to the client. *)
(*                                                                         *)
(* Client and daemon are processes of their own: either is started, ends   *)
(* and is started again while the other goes on.  A timeout may fire at    *)
(* any moment.  An abort takes effect between two steps of the task, since *)
(* a task is aborted only where it awaits.                                 *)
(***************************************************************************)
EXTENDS Naturals, Sequences

CONSTANTS
  MaxStatus,    \* bound on the statuses a daemon publishes after its first
  MaxDaemons,   \* bound on the daemon processes
  MaxLaunches,  \* bound on the client processes
  MaxFrames     \* frames that the websocket's buffers hold

ASSUME BridgeAssumption ==
  /\ MaxStatus \in Nat /\ MaxDaemons \in Nat /\ MaxLaunches \in Nat
  /\ MaxFrames \in Nat \ {0}

VARIABLES
  gui,           \* the main thread, and the event it is handling
  launches,      \* client processes so far
  shuttingDown,  \* is_shutting_down
  token,         \* the client's shutdown token is cancelled
  task,          \* the bridge task
  shown,         \* what state_sender holds, and the web view shows
  commands,      \* control commands that the daemon has not carried out
  daemon,        \* the daemon process, 0 when there is none
  daemons,       \* daemon processes so far
  status,        \* the newest status in the daemon's watch channel
  server,        \* the UI server in the daemon's slot
  stream         \* stream_state_to_client and its socket to the bridge

client == <<gui, launches, shuttingDown, token>>
host == <<daemon, daemons, status>>
vars == <<client, task, shown, commands, host, server, stream>>

Statuses == [daemon : 0..MaxDaemons, n : 0..MaxStatus]
Default == [daemon |-> 0, n |-> 0]
Current == [daemon |-> daemon, n |-> status]

(* No connection, or its rest at the client: what arrived before it ended. *)
Closed(frames) ==
  [pc |-> "closed", cancelled |-> FALSE, seen |-> 0, held |-> Default,
   frames |-> frames]

Init ==
  /\ gui = [pc |-> "off", phase |-> "none"] /\ launches = 0
  /\ shuttingDown = FALSE /\ token = FALSE
  /\ task = "none" /\ shown = Default /\ commands = {}
  /\ daemon = 0 /\ daemons = 0 /\ status = 0
  /\ server = "none" /\ stream = Closed(<<>>)

Alive == gui.pc # "off"

-----------------------------------------------------------------------------
(* The main thread. *)

Launch ==
  /\ gui.pc = "off" /\ launches < MaxLaunches
  /\ gui' = [pc |-> "running", phase |-> "none"] /\ launches' = launches + 1
  /\ shuttingDown' = FALSE /\ token' = FALSE
  /\ task' = "starting" /\ shown' = Default /\ stream' = Closed(<<>>)
  /\ UNCHANGED <<commands, host, server>>

(* shutdown_ui_bridge_and_disallow, up to the wait for the bridge task.    *)
BeginShutdown(phase) ==
  /\ shuttingDown' = TRUE /\ token' = TRUE
  /\ gui' = [pc |-> "joining", phase |-> phase]

(* Fault: the flag is set, but not looked at.                              *)
ExitRequestedAgain ==
  /\ gui.pc = "running"
  /\ BeginShutdown("shutdown")
  /\ UNCHANGED <<launches, task, shown, commands, host, server, stream>>

(* The first request is prevented, and the client shuts down; the second,  *)
(* which its own exit(0) raises, is let through.                           *)
ExitRequested ==
  /\ gui.pc = "running"
  /\ \/ ~shuttingDown /\ BeginShutdown("shutdown")
     \/ /\ shuttingDown
        /\ gui' = [gui EXCEPT !.pc = "exiting"]
        /\ UNCHANGED <<shuttingDown, token>>
  /\ UNCHANGED <<launches, task, shown, commands, host, server, stream>>

(* The process is gone, and with it the client's end of the connection.    *)
Off ==
  /\ gui' = [pc |-> "off", phase |-> "none"]
  /\ task' = "none" /\ stream' = Closed(<<>>)

(* The event loop ends, with no request before it or after one.            *)
ExitEvent ==
  /\ \/ /\ gui.pc = "running" /\ ~shuttingDown
        /\ BeginShutdown("exit")
        /\ UNCHANGED <<task, stream>>
     \/ gui.pc = "exiting" /\ Off /\ UNCHANGED <<shuttingDown, token>>
  /\ UNCHANGED <<launches, shown, commands, host, server>>

Joined ==
  /\ gui.pc = "joining" /\ task = "ended"
  /\ gui' = [gui EXCEPT !.pc = "disallowing"]
  /\ UNCHANGED <<launches, shuttingDown, token, task, shown, commands, host,
                 server, stream>>

(* Fault: the task is waited for no longer, and not aborted.               *)
JoinTimeoutDetaches ==
  /\ gui.pc = "joining" /\ task # "ended"
  /\ gui' = [gui EXCEPT !.pc = "disallowing"]
  /\ UNCHANGED <<launches, shuttingDown, token, task, shown, commands, host,
                 server, stream>>

JoinTimeout ==
  /\ gui.pc = "joining" /\ task # "ended"
  /\ gui' = [gui EXCEPT !.pc = "disallowing"]
  /\ task' = "ended" /\ stream' = Closed(<<>>)
  /\ UNCHANGED <<launches, shuttingDown, token, shown, commands, host, server>>

(* Fault: the command is sent to a daemon that is not there.               *)
SendsBlindly(cmd) ==
  commands' = commands \cup {[cmd |-> cmd, launch |-> launches]}

(***************************************************************************)
(* send_control_command, up to the wait for the reply.  No daemon: no      *)
(* connection.  Otherwise the command gets to the daemon, or the attempt   *)
(* fails or times out before it is written.  Commands go over connections  *)
(* of their own, which the daemon may take up in any order.                *)
(***************************************************************************)
Sends(cmd) ==
  \/ daemon # 0 /\ commands' = commands \cup {[cmd |-> cmd, launch |-> launches]}
  \/ UNCHANGED commands

SendDisallow ==
  /\ gui.pc = "disallowing"
  /\ Sends("DisallowUi")
  /\ gui' = [gui EXCEPT !.pc = "waiting"]
  /\ UNCHANGED <<launches, shuttingDown, token, task, shown, host, server, stream>>

(* A reply, an error or the timeout: all are logged, and the client ends:  *)
(* at once, or after the event that exit(0) raises.                        *)
DisallowReply ==
  /\ gui.pc = "waiting"
  /\ \/ gui.phase = "exit" /\ Off
     \/ /\ gui.phase = "shutdown"
        /\ gui' = [gui EXCEPT !.pc = "running"]
        /\ UNCHANGED <<task, stream>>
  /\ UNCHANGED <<launches, shuttingDown, token, shown, commands, host, server>>

(* The web view's shutdown_daemon: request_poweroff.                       *)
RequestPoweroff ==
  /\ gui.pc = "running" /\ ~shuttingDown
  /\ Sends("Poweroff")
  /\ UNCHANGED <<client, task, shown, host, server, stream>>

-----------------------------------------------------------------------------
(* The bridge task. *)

Ask ==
  /\ task = "starting"
  /\ Sends("AllowUi")
  /\ task' = "asking"
  /\ UNCHANGED <<client, shown, host, server, stream>>

(* Whatever the reply is, and also without one, the loop begins.           *)
AllowReply ==
  /\ task = "asking"
  /\ task' = "checking"
  /\ UNCHANGED <<client, shown, commands, host, server, stream>>

Check ==
  /\ task = "checking"
  /\ task' = IF token THEN "ended" ELSE "connecting"
  /\ UNCHANGED <<client, shown, commands, host, server, stream>>

(* serve_ui_client clones the receiver of the server, which has seen the   *)
(* channel's first value and no other.                                     *)
Opened ==
  [pc |-> "borrowing", cancelled |-> FALSE, seen |-> 0, held |-> Default,
   frames |-> <<>>]

Connect ==
  /\ task = "connecting"
  /\ \/ server = "listening" /\ task' = "streaming" /\ stream' = Opened
     \/ server # "listening" /\ task' = "retrying" /\ UNCHANGED stream
  /\ UNCHANGED <<client, shown, commands, host, server>>

(* handle_state_message. *)
Receive ==
  /\ task = "streaming" /\ stream.frames # <<>>
  /\ shown' = Head(stream.frames)
  /\ stream' = [stream EXCEPT !.frames = Tail(@)]
  /\ UNCHANGED <<client, task, commands, host, server>>

(* A close frame, an error or the end of the stream; or an error before    *)
(* what had arrived was read.  What was shown stays.                       *)
Dropped ==
  /\ task = "streaming" /\ stream.pc = "closed"
  /\ task' = "retrying"
  /\ UNCHANGED <<client, shown, commands, host, server, stream>>

Interrupted ==
  /\ task = "streaming" /\ token
  /\ task' = "ended" /\ stream' = Closed(<<>>)
  /\ UNCHANGED <<client, shown, commands, host, server>>

(* The two seconds of the pause are not cut short by the token.            *)
Pause ==
  /\ \/ task = "retrying" /\ task' = IF token THEN "ended" ELSE "sleeping"
     \/ task = "sleeping" /\ task' = "checking"
  /\ UNCHANGED <<client, shown, commands, host, server, stream>>

-----------------------------------------------------------------------------
(* The daemon. *)

DaemonStarts ==
  /\ daemon = 0 /\ daemons < MaxDaemons
  /\ daemons' = daemons + 1 /\ daemon' = daemons + 1 /\ status' = 0
  /\ UNCHANGED <<client, task, shown, commands, server, stream>>

(* The process ends: nothing of it stays, what it sent may still be read.  *)
DaemonEnds ==
  /\ daemon # 0
  /\ daemon' = 0 /\ status' = 0 /\ commands' = {} /\ server' = "none"
  /\ stream' = Closed(stream.frames)
  /\ UNCHANGED <<client, task, shown, daemons>>

(* set_connected and set_last_event, when they change something.           *)
Publish ==
  /\ daemon # 0 /\ status < MaxStatus
  /\ status' = status + 1
  /\ UNCHANGED <<client, task, shown, commands, daemon, daemons, server, stream>>

StartServer == server' = IF server = "none" THEN "spawned" ELSE server

(* stop_ui_server: the stream of the server's client is cancelled with it. *)
StopServer ==
  /\ server' = "none"
  /\ stream' = [stream EXCEPT !.cancelled = stream.pc # "closed"]

(* A control connection is taken up and its command carried out.           *)
CarryOut(c) ==
  /\ c \in commands
  /\ \/ /\ c.cmd = "AllowUi"
        /\ StartServer /\ commands' = commands \ {c}
        /\ UNCHANGED <<client, task, shown, host, stream>>
     \/ /\ c.cmd = "DisallowUi"
        /\ StopServer /\ commands' = commands \ {c}
        /\ UNCHANGED <<client, task, shown, host>>
     \/ c.cmd = "Poweroff" /\ DaemonEnds

(* Others start and stop the server: the command line, and the idle timers *)
(* (those of earlier servers too).                                         *)
Others ==
  /\ daemon # 0
  /\ \/ StartServer /\ UNCHANGED stream
     \/ StopServer
  /\ UNCHANGED <<client, task, shown, commands, host>>

(* The server binds its port, or finds it taken and ends in its slot.      *)
Bind ==
  /\ server = "spawned"
  /\ server' \in {"listening", "dead"}
  /\ UNCHANGED <<client, task, shown, commands, host, stream>>

(* Fault: what is sent is the value that the receiver has seen.            *)
BorrowSeen ==
  /\ stream.pc = "borrowing"
  /\ stream' = [stream EXCEPT !.pc = "sending", !.held.daemon = daemon,
                              !.held.n = stream.seen]
  /\ UNCHANGED <<client, task, shown, commands, host, server>>

(* stream_state_to_client: borrow() leaves the value unseen, changed()     *)
(* marks the newest as seen.                                               *)
Borrow ==
  /\ stream.pc = "borrowing"
  /\ stream' = [stream EXCEPT !.pc = "sending", !.held = Current]
  /\ UNCHANGED <<client, task, shown, commands, host, server>>

Changed ==
  /\ stream.pc = "waiting" /\ status # stream.seen
  /\ stream' = [stream EXCEPT !.pc = "borrowing", !.seen = status]
  /\ UNCHANGED <<client, task, shown, commands, host, server>>

(* Fault: after a send the channel's newest value counts as seen.          *)
SendMarksSeen ==
  /\ stream.pc = "sending" /\ Len(stream.frames) < MaxFrames
  /\ stream' = [stream EXCEPT !.pc = "waiting", !.seen = status,
                              !.frames = Append(@, stream.held)]
  /\ UNCHANGED <<client, task, shown, commands, host, server>>

Send ==
  /\ stream.pc = "sending" /\ Len(stream.frames) < MaxFrames
  /\ stream' = [stream EXCEPT !.pc = "waiting",
                              !.frames = Append(@, stream.held)]
  /\ UNCHANGED <<client, task, shown, commands, host, server>>

Cancelled ==
  /\ stream.pc = "waiting" /\ stream.cancelled
  /\ stream' = Closed(stream.frames)
  /\ UNCHANGED <<client, task, shown, commands, host, server>>

-----------------------------------------------------------------------------
(* What the client does by itself once its end has begun. *)
ExitStep ==
  \/ shuttingDown /\ ExitRequested
  \/ gui.pc = "exiting" /\ ExitEvent
  \/ Joined \/ JoinTimeout \/ SendDisallow \/ DisallowReply

TaskStep == Alive /\ ( \/ Ask \/ AllowReply \/ Check \/ Connect \/ Receive
                       \/ Dropped \/ Interrupted \/ Pause )

StreamStep == Borrow \/ Changed \/ Send \/ Cancelled

Commands == [cmd : {"AllowUi", "DisallowUi", "Poweroff"},
             launch : 1..MaxLaunches]

(* The user, the operator, the game, and whatever ends a daemon. *)
Environment ==
  \/ Launch \/ ExitRequested \/ ExitEvent \/ RequestPoweroff
  \/ DaemonStarts \/ DaemonEnds \/ Publish \/ Others

(* Neither process runs, and neither need be started again. *)
Gone == ~Alive /\ daemon = 0 /\ UNCHANGED vars

Next ==
  \/ ExitStep \/ TaskStep \/ StreamStep \/ Bind
  \/ \E c \in Commands : CarryOut(c)
  \/ Environment \/ Gone

Spec == Init /\ [][Next]_vars

(***************************************************************************)
(* Both runtimes poll every task that can run, and every timeout fires.    *)
(* Nothing is assumed of users, operators, the game and other clients.     *)
(***************************************************************************)
Fairness ==
  /\ WF_vars(ExitStep) /\ WF_vars(TaskStep)
  /\ WF_vars(StreamStep) /\ WF_vars(Bind)
  /\ \A c \in Commands : WF_vars(CarryOut(c))

FairSpec == Spec /\ Fairness

-----------------------------------------------------------------------------
(* Type invariant. *)
TypeOK ==
  /\ gui \in [pc : {"off", "running", "joining", "disallowing", "waiting",
                    "exiting"},
              phase : {"none", "shutdown", "exit"}]
  /\ launches \in 0..MaxLaunches
  /\ shuttingDown \in BOOLEAN /\ token \in BOOLEAN
  /\ task \in {"none", "starting", "asking", "checking", "connecting",
               "streaming", "retrying", "sleeping", "ended"}
  /\ shown \in Statuses
  /\ commands \subseteq Commands
  /\ daemon \in {0, daemons} /\ daemons \in 0..MaxDaemons
  /\ status \in 0..MaxStatus
  /\ server \in {"none", "spawned", "listening", "dead"}
  /\ daemon = 0 => commands = {} /\ server = "none"
  /\ stream \in [pc : {"closed", "borrowing", "sending", "waiting"},
                 cancelled : BOOLEAN, seen : 0..MaxStatus, held : Statuses,
                 frames : Seq(Statuses)]
  /\ Len(stream.frames) <= MaxFrames

(***************************************************************************)
(* The client never shows an older status after a newer one: not of one    *)
(* daemon, across drops and reconnections, and not of the daemon before.   *)
(***************************************************************************)
Older(a, b) ==
  \/ a.daemon < b.daemon
  \/ a.daemon = b.daemon /\ a.n < b.n

ShownInOrder == [][Alive => ~Older(shown', shown)]_vars

(***************************************************************************)
(* Once the client has joined or given up its bridge task, nothing more is *)
(* shown and no connection to the daemon is opened.                        *)
(***************************************************************************)
SilentAfterJoin ==
  [][gui.pc \in {"disallowing", "waiting", "exiting"} =>
       shown' = shown /\ stream'.pc = "closed"]_vars

(***************************************************************************)
(* A client beside a server that listens gets to show every status, or a   *)
(* later one, however often its connection dropped before.                 *)
(***************************************************************************)
CatchesUp ==
  \A n \in 0..MaxStatus, d \in 1..MaxDaemons :
    (gui.pc = "running" /\ server = "listening" /\ Current = [daemon |-> d, n |-> n])
      ~> \/ shown.daemon = d /\ shown.n >= n
         \/ token \/ daemon # d \/ server # "listening"

(* A client that begins to end does end, whatever the daemon does.         *)
ExitEnds == shuttingDown ~> gui.pc = "off"

-----------------------------------------------------------------------------
(* What the documents say of this code.                                    *)

(* operations.md: "The Tauri client re-requests AllowUi on reconnect": a   *)
(* client and a daemon that both stay are connected again and again.       *)
ConnectedAgain ==
  <>[](gui.pc = "running" /\ daemon # 0) => []<>(task = "streaming")
=============================================================================
