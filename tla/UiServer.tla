------------------------------ MODULE UiServer ------------------------------
(***************************************************************************)
(* The daemon's control plane and the UI websocket server it starts and    *)
(* stops.  A mutex guards one slot for the running server's task.  Control *)
(* connections, the idle timers of departed clients and the supervisor all *)
(* stop the server the same way: take the slot, cancel that server's       *)
(* token, await its task.  The servers share the slot, but each has its    *)
(* own client count and generation, and so do the timers its clients left. *)
(*                                                                         *)
(* Servers and client connections are numbered in the order they come to   *)
(* be.  Tasks run on several threads: every atomic operation is a step.    *)
(***************************************************************************)
EXTENDS Naturals, FiniteSets

CONSTANTS
  MaxServers,       \* bound on the servers started
  MaxConnections,   \* bound on the client connections accepted
  Handlers          \* control connections open at a time

ASSUME UiServerAssumption ==
  MaxServers \in Nat \ {0} /\ MaxConnections \in Nat

VARIABLES
  slot,        \* UiServerControl.server_task, 0 for None
  server,      \* the server tasks
  cancelled,   \* servers whose token is cancelled
  active,      \* active_clients of each server
  generation,  \* lifecycle_generation of each server
  conn,        \* serve_ui_client and the timer it leaves, per connection
  handler,     \* handle_control_connection
  control,     \* run_control_server_loop
  supervisor,  \* DaemonSupervisor::run
  shutdown     \* the daemon's token

vars == <<slot, server, cancelled, active, generation, conn, handler, control,
          supervisor, shutdown>>

Servers == 1..MaxServers
Connections == 1..MaxConnections

Unborn == [pc |-> "unborn", server |-> 0, gen |-> 0]
At(pc, s) == [pc |-> pc, server |-> s]

Init ==
  /\ slot = 0 /\ cancelled = {}
  /\ server = [s \in Servers |-> "unborn"]
  /\ active = [s \in Servers |-> 0] /\ generation = [s \in Servers |-> 0]
  /\ conn = [k \in Connections |-> Unborn]
  /\ handler = [h \in Handlers |-> At("idle", 0)]
  /\ control = "accepting" /\ supervisor = At("running", 0)
  /\ shutdown = FALSE

Running == supervisor.pc # "exited"

(* Fault: the slot is emptied, but the server is not told.                 *)
TakeSlotOnly == slot' = 0 /\ UNCHANGED cancelled

(***************************************************************************)
(* stop_ui_server: the slot is taken under the lock and the token of the   *)
(* server found there is cancelled; the caller then waits for that task.   *)
(* Between the two nobody can tell the server from one that is cancelled   *)
(* and has not noticed yet: they are one step.                             *)
(***************************************************************************)
TakeServer ==
  /\ slot' = 0
  /\ cancelled' = cancelled \cup ({slot} \ {0})

(* stop_ui_server is done waiting: it found no server, or its task ended.   *)
Joinable(s) == s # 0 => server[s] = "ended"

-----------------------------------------------------------------------------
(* A server task. *)

(* TcpListener::bind, before the task first looks at its token: the port   *)
(* may still be held by a server that is being stopped.                    *)
Bind(s) ==
  /\ server[s] = "spawned"
  /\ server' = [server EXCEPT ![s] =
       IF \E r \in Servers : server[r] = "listening"
       THEN "ended" ELSE "listening"]
  /\ UNCHANGED <<slot, cancelled, active, generation, conn, handler, control,
                 supervisor, shutdown>>

ServerStop(s) ==
  /\ server[s] = "listening" /\ s \in cancelled
  /\ server' = [server EXCEPT ![s] = "ended"]
  /\ UNCHANGED <<slot, cancelled, active, generation, conn, handler, control,
                 supervisor, shutdown>>

-----------------------------------------------------------------------------
(***************************************************************************)
(* A client connection: serve_ui_client, then the idle timer if it was the *)
(* last one.  A connection moves on with its pc and, once, its generation. *)
(***************************************************************************)
Moves(k, pc) == conn' = [conn EXCEPT ![k].pc = pc]

Accept(k) ==
  /\ conn[k].pc = "unborn"
  /\ \A j \in Connections : j < k => conn[j].pc # "unborn"
  /\ \E s \in Servers :
       /\ server[s] = "listening"
       /\ conn' = [conn EXCEPT ![k] = [pc |-> "accepted", server |-> s, gen |-> 0]]
  /\ UNCHANGED <<slot, server, cancelled, active, generation, handler, control,
                 supervisor, shutdown>>

(* Fault: a client that fails the handshake is counted out, never in.      *)
HandshakeUncounted(k) ==
  /\ conn[k].pc = "accepted"
  /\ Moves(k, "counted")
  /\ UNCHANGED <<slot, server, cancelled, active, generation, handler,
                 control, supervisor, shutdown>>

(* The websocket handshake, and the client is counted in; or it fails.     *)
Handshake(k) ==
  /\ conn[k].pc = "accepted"
  /\ \/ /\ active' = [active EXCEPT ![conn[k].server] = @ + 1]
        /\ Moves(k, "counted")
     \/ Moves(k, "gone") /\ UNCHANGED active
  /\ UNCHANGED <<slot, server, cancelled, generation, handler, control,
                 supervisor, shutdown>>

(* Fault: a new client does not begin a new generation.                    *)
EnterSameGeneration(k) ==
  /\ conn[k].pc = "counted"
  /\ Moves(k, "streaming")
  /\ UNCHANGED <<slot, server, cancelled, active, generation, handler,
                 control, supervisor, shutdown>>

Enter(k) ==
  /\ conn[k].pc = "counted"
  /\ generation' = [generation EXCEPT ![conn[k].server] = @ + 1]
  /\ Moves(k, "streaming")
  /\ UNCHANGED <<slot, server, cancelled, active, handler, control,
                 supervisor, shutdown>>

(* stream_state_to_client returns: its server is cancelled, the worker is  *)
(* gone, or a send failed.  The client is counted out; the last one out    *)
(* goes on to arm the timer.                                               *)
Leave(k) ==
  /\ conn[k].pc = "streaming"
  /\ active' = [active EXCEPT ![conn[k].server] = @ - 1]
  /\ Moves(k, IF active[conn[k].server] = 1 THEN "left" ELSE "gone")
  /\ UNCHANGED <<slot, server, cancelled, generation, handler, control,
                 supervisor, shutdown>>

(* Fault: the timer remembers the generation from before its own step.     *)
ArmStale(k) ==
  /\ conn[k].pc = "left"
  /\ generation' = [generation EXCEPT ![conn[k].server] = @ + 1]
  /\ conn' = [conn EXCEPT ![k].pc = "sleep",
                          ![k].gen = generation[conn[k].server]]
  /\ UNCHANGED <<slot, server, cancelled, active, handler, control,
                 supervisor, shutdown>>

Arm(k) ==
  /\ conn[k].pc = "left"
  /\ generation' = [generation EXCEPT ![conn[k].server] = @ + 1]
  /\ conn' = [conn EXCEPT ![k].pc = "sleep",
                          ![k].gen = generation'[conn[k].server]]
  /\ UNCHANGED <<slot, server, cancelled, active, handler, control,
                 supervisor, shutdown>>

(* After the idle time: is there still nobody ...                          *)
Wake(k) ==
  /\ conn[k].pc = "sleep"
  /\ Moves(k, IF active[conn[k].server] = 0 THEN "awake" ELSE "gone")
  /\ UNCHANGED <<slot, server, cancelled, active, generation, handler, control,
                 supervisor, shutdown>>

(* ... and was there nobody meanwhile?                                     *)
SameGeneration(k) ==
  /\ conn[k].pc = "awake"
  /\ Moves(k, IF generation[conn[k].server] = conn[k].gen
              THEN "stopping" ELSE "gone")
  /\ UNCHANGED <<slot, server, cancelled, active, generation, handler, control,
                 supervisor, shutdown>>

(* Then the timer stops whichever server is in the slot.  Nobody waits for *)
(* the timer's task, so its own wait for the server is left out.           *)
TimerStop(k) ==
  /\ conn[k].pc = "stopping"
  /\ TakeServer
  /\ Moves(k, "gone")
  /\ UNCHANGED <<server, active, generation, handler, control, supervisor,
                 shutdown>>

-----------------------------------------------------------------------------
(***************************************************************************)
(* The control plane: one task accepts connections, one task per           *)
(* connection reads a command and carries it out.  A connection that still *)
(* waits for its command gives up at the shutdown, unless the command was  *)
(* there first.                                                            *)
(***************************************************************************)
HandlerMoves(h, pc, s) == handler' = [handler EXCEPT ![h] = At(pc, s)]

ControlAccept(h) ==
  /\ control = "accepting" /\ handler[h].pc = "idle"
  /\ HandlerMoves(h, "reading", 0)
  /\ UNCHANGED <<slot, server, cancelled, active, generation, conn, control,
                 supervisor, shutdown>>

ControlStop ==
  /\ shutdown /\ control = "accepting"
  /\ control' = "stopped"
  /\ UNCHANGED <<slot, server, cancelled, active, generation, conn, handler,
                 supervisor, shutdown>>

ReadStop(h) ==
  /\ shutdown /\ handler[h].pc = "reading"
  /\ HandlerMoves(h, "idle", 0)
  /\ UNCHANGED <<slot, server, cancelled, active, generation, conn, control,
                 supervisor, shutdown>>

(* AllowUi, under the lock: start a server unless there is one.  The reply *)
(* is Ok in both cases, before the server has bound its port.              *)
AllowUi(h) ==
  /\ handler[h].pc = "reading"
  /\ \/ slot # 0 /\ UNCHANGED <<slot, server>>
     \/ /\ slot = 0
        /\ \E s \in Servers :
             /\ server[s] = "unborn"
             /\ \A r \in Servers : r < s => server[r] # "unborn"
             /\ slot' = s
             /\ server' = [server EXCEPT ![s] = "spawned"]
  /\ HandlerMoves(h, "idle", 0)
  /\ UNCHANGED <<cancelled, active, generation, conn, control, supervisor,
                 shutdown>>

DisallowUi(h) ==
  /\ handler[h].pc = "reading"
  /\ TakeServer
  /\ HandlerMoves(h, "joining", slot)
  /\ UNCHANGED <<server, active, generation, conn, control, supervisor,
                 shutdown>>

Poweroff(h) ==
  /\ handler[h].pc = "reading"
  /\ shutdown' = TRUE
  /\ HandlerMoves(h, "poweroff", 0)
  /\ UNCHANGED <<slot, server, cancelled, active, generation, conn, control,
                 supervisor>>

PoweroffStop(h) ==
  /\ handler[h].pc = "poweroff"
  /\ TakeServer
  /\ HandlerMoves(h, "joining", slot)
  /\ UNCHANGED <<server, active, generation, conn, control, supervisor,
                 shutdown>>

(* The server's task has ended: the reply is sent.                         *)
Reply(h) ==
  /\ handler[h].pc = "joining" /\ Joinable(handler[h].server)
  /\ HandlerMoves(h, "idle", 0)
  /\ UNCHANGED <<slot, server, cancelled, active, generation, conn, control,
                 supervisor, shutdown>>

-----------------------------------------------------------------------------
(***************************************************************************)
(* The supervisor: Ctrl-C or the token, the worker's end (Pipeline), the   *)
(* UI server, the control loop, and the process ends with whatever tasks   *)
(* are left.                                                               *)
(***************************************************************************)
CtrlC ==
  /\ supervisor.pc = "running" /\ ~shutdown
  /\ shutdown' = TRUE
  /\ UNCHANGED <<slot, server, cancelled, active, generation, conn, handler,
                 control, supervisor>>

WorkerJoined ==
  /\ supervisor.pc = "running" /\ shutdown
  /\ TakeServer
  /\ supervisor' = At("joinServer", slot)
  /\ UNCHANGED <<server, active, generation, conn, handler, control, shutdown>>

ServerJoined ==
  /\ supervisor.pc = "joinServer" /\ Joinable(supervisor.server)
  /\ supervisor' = At("joinControl", 0)
  /\ UNCHANGED <<slot, server, cancelled, active, generation, conn, handler,
                 control, shutdown>>

Exit ==
  /\ supervisor.pc = "joinControl" /\ control = "stopped"
  /\ supervisor' = At("exited", 0)
  /\ UNCHANGED <<slot, server, cancelled, active, generation, conn, handler,
                 control, shutdown>>

Exited == ~Running /\ UNCHANGED vars

-----------------------------------------------------------------------------
ServerStep(s) == Running /\ (Bind(s) \/ ServerStop(s))

(* The steps of a connection that nobody but the runtime waits for.        *)
ConnStep(k) ==
  Running /\ ( \/ Handshake(k) \/ Enter(k) \/ Arm(k) \/ Wake(k)
               \/ SameGeneration(k) \/ TimerStop(k)
               \/ conn[k].server \in cancelled /\ Leave(k) )

HandlerStep(h) == Running /\ (ReadStop(h) \/ PoweroffStop(h) \/ Reply(h))

SupervisorStep == ControlStop \/ WorkerJoined \/ ServerJoined \/ Exit

(* What clients and operators do. *)
Environment ==
  Running /\ ( \/ CtrlC
               \/ \E k \in Connections : Accept(k) \/ Leave(k)
               \/ \E h \in Handlers :
                    ControlAccept(h) \/ AllowUi(h) \/ DisallowUi(h) \/ Poweroff(h) )

Next ==
  \/ \E s \in Servers : ServerStep(s)
  \/ \E k \in Connections : ConnStep(k)
  \/ \E h \in Handlers : HandlerStep(h)
  \/ SupervisorStep \/ Environment \/ Exited

Spec == Init /\ [][Next]_vars

(***************************************************************************)
(* The runtime polls every task that can run and every timer fires.  The   *)
(* worker ends after a shutdown (ShutdownJoins of Pipeline).  Nothing is   *)
(* assumed of clients and operators.                                       *)
(***************************************************************************)
Fairness ==
  /\ \A s \in Servers : WF_vars(ServerStep(s))
  /\ \A k \in Connections : WF_vars(ConnStep(k))
  /\ \A h \in Handlers : WF_vars(HandlerStep(h))
  /\ WF_vars(SupervisorStep)

FairSpec == Spec /\ Fairness

-----------------------------------------------------------------------------
(* Type invariant. *)
TypeOK ==
  /\ slot \in 0..MaxServers
  /\ server \in [Servers -> {"unborn", "spawned", "listening", "ended"}]
  /\ cancelled \in SUBSET Servers
  /\ active \in [Servers -> Nat] /\ generation \in [Servers -> Nat]
  /\ conn \in [Connections ->
                 [pc : {"unborn", "accepted", "counted", "streaming", "left",
                        "sleep", "awake", "stopping", "gone"},
                  server : 0..MaxServers, gen : Nat]]
  /\ handler \in [Handlers -> [pc : {"idle", "reading", "poweroff", "joining"},
                               server : 0..MaxServers]]
  /\ control \in {"accepting", "stopped"}
  /\ supervisor \in [pc : {"running", "joinServer", "joinControl", "exited"},
                     server : 0..MaxServers]
  /\ shutdown \in BOOLEAN

(***************************************************************************)
(* No orphan: a server that was started and not cancelled is the one in    *)
(* the slot, so that whoever stops the server next finds it.               *)
(***************************************************************************)
NoOrphan ==
  \A s \in Servers :
    server[s] # "unborn" /\ s \notin cancelled => slot = s

(***************************************************************************)
(* The client count is the number of clients counted in and not out, on    *)
(* every way through serve_ui_client; in particular it never wraps.        *)
(***************************************************************************)
CountIsClients ==
  \A s \in Servers :
    active[s] = Cardinality({k \in Connections :
                  conn[k].server = s /\ conn[k].pc \in {"counted", "streaming"}})

(***************************************************************************)
(* A timer decides to stop only if nobody is served by its server and no   *)
(* later departure from it has a timer of its own still to run.            *)
(***************************************************************************)
OnlyLastTimerStops ==
  [][\A k \in Connections :
       conn[k].pc = "awake" /\ conn'[k].pc = "stopping" =>
         \A j \in Connections \ {k} : conn[j].server = conn[k].server =>
           ~ \/ conn[j].pc = "streaming"
             \/ conn[j].pc \in {"sleep", "awake"} /\ conn[j].gen > conn[k].gen
    ]_vars

(***************************************************************************)
(* A server that has counted out every client is stopped, or has a client  *)
(* again.  (A client that went away is counted out when a send to it       *)
(* fails, and the status is sent when it changes.)                         *)
(***************************************************************************)
AbandonedServerStops ==
  \A s \in Servers :
    (generation[s] > 0 /\ active[s] = 0) ~>
      (server[s] = "ended" \/ active[s] > 0 \/ ~Running)

(* A shutdown ends the process, whoever else is stopping the UI server.    *)
ShutdownExits == shutdown ~> ~Running

=============================================================================
