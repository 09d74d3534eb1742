--------------------------- MODULE Bridge_proofs ---------------------------
(***************************************************************************)
(* The Tauri client beside the daemon, proved for any number of processes, *)
(* of statuses and of frames on the way: after the join of the bridge task *)
(* nothing is shown any more, what is shown is shown in order, and no      *)
(* status is lost on an open connection.                                   *)
(***************************************************************************)
EXTENDS Bridge, SequenceTheorems, TLAPS

-----------------------------------------------------------------------------
(***************************************************************************)
(* The invariant.  A connection is open only while the bridge task streams *)
(* and only to a daemon that runs; once the client has joined its task the *)
(* task has ended, also after the exit was prevented and begun again.      *)
(***************************************************************************)
Over ==
  \/ gui.pc \in {"disallowing", "waiting", "exiting"}
  \/ gui.pc = "running" /\ shuttingDown

Connected ==
  /\ stream.pc # "closed" => task = "streaming" /\ daemon # 0
  /\ Over => task = "ended"
  /\ gui.pc # "off" => launches > 0
  /\ gui.pc = "off" => stream = Closed(<<>>)

(* Nothing that is on its way is newer than the newest, or older than what *)
(* is in front of it.                                                      *)
Known(a) == a.daemon <= daemons /\ (a.daemon = daemon /\ daemon # 0 => a.n <= status)

InOrder ==
  /\ Known(shown)
  /\ \A i \in 1..Len(stream.frames) :
       Known(stream.frames[i]) /\ ~Older(stream.frames[i], shown)
  /\ \A i, j \in 1..Len(stream.frames) :
       i < j => ~Older(stream.frames[j], stream.frames[i])
  /\ stream.pc = "sending" =>
       /\ Known(stream.held) /\ ~Older(stream.held, shown)
       /\ \A i \in 1..Len(stream.frames) :
            ~Older(stream.held, stream.frames[i])

(***************************************************************************)
(* No status is lost on an open connection: until changed() finds that     *)
(* there is a newer one, what is about to be sent, or else what was sent   *)
(* last and is still on its way or shown, is the newest.                   *)
(***************************************************************************)
Latest == LET n == Len(stream.frames) IN IF n = 0 THEN shown ELSE stream.frames[n]

Unseen == status # stream.seen

NoStatusLost ==
  /\ stream.pc # "closed" => stream.seen <= status
  /\ stream.pc = "sending" => stream.held = Current \/ Unseen
  /\ stream.pc = "waiting" => Latest = Current \/ Unseen

-----------------------------------------------------------------------------
(* Types. *)
StreamType ==
  [pc : {"closed", "borrowing", "sending", "waiting"}, cancelled : BOOLEAN,
   seen : 0..MaxStatus, held : Statuses, frames : Seq(Statuses)]

LEMMA DefaultType == Default \in Statuses
BY BridgeAssumption DEF Default, Statuses

LEMMA ClosedType ==
  ASSUME NEW f \in Seq(Statuses)
  PROVE  Closed(f) \in StreamType
BY DefaultType, BridgeAssumption DEF Closed, StreamType

LEMMA OpenedType == Opened \in StreamType
BY DefaultType, BridgeAssumption DEF Opened, StreamType

LEMMA TypeInit == Init => TypeOK
<1> SUFFICES ASSUME Init PROVE TypeOK
  OBVIOUS
<1> USE BridgeAssumption
<1>1. <<>> \in Seq(Statuses) /\ Len(<<>>) = 0
  OBVIOUS
<1>2. stream \in StreamType
  BY <1>1, ClosedType DEF Init
<1>3. Len(stream.frames) <= MaxFrames
  BY <1>1 DEF Init, Closed
<1>4. shown \in Statuses
  BY DefaultType DEF Init
<1>5. gui \in [pc : {"off", "running", "joining", "disallowing", "waiting",
                     "exiting"},
               phase : {"none", "shutdown", "exit"}]
  BY DEF Init
<1>6. launches \in 0..MaxLaunches /\ daemons \in 0..MaxDaemons /\ status \in 0..MaxStatus
  BY DEF Init
<1> QED
  BY <1>2, <1>3, <1>4, <1>5, <1>6 DEF Init, TypeOK, StreamType

LEMMA ConnectedInit == Init => Connected
BY DEF Init, Connected, Over, Closed

LEMMA InOrderInit == Init => InOrder
BY DEF Init, InOrder, Known, Closed, Default

-----------------------------------------------------------------------------
(* What the steps do to what is connected.                                 *)
LEMMA ConnectedStep == TypeOK /\ Connected /\ [Next]_vars => Connected'
<1> SUFFICES ASSUME TypeOK, Connected, [Next]_vars PROVE Connected'
  OBVIOUS
<1> USE DEF Connected, Over, client, host
<1>1. CASE ExitStep
  <2>1. CASE ExitRequested
    BY <2>1 DEF ExitRequested, BeginShutdown, TypeOK
  <2>2. CASE ExitEvent
    BY <2>2 DEF ExitEvent, BeginShutdown, Off, Closed
  <2>3. CASE Joined
    BY <2>3 DEF Joined, TypeOK
  <2>4. CASE JoinTimeout
    BY <2>4 DEF JoinTimeout, Closed, TypeOK
  <2>5. CASE SendDisallow
    BY <2>5 DEF SendDisallow, TypeOK
  <2>6. CASE DisallowReply
    BY <2>6 DEF DisallowReply, Off, Closed, TypeOK
  <2> QED
    BY <1>1, <2>1, <2>2, <2>3, <2>4, <2>5, <2>6 DEF ExitStep
<1>2. CASE TaskStep
  <2>1. CASE Ask \/ AllowReply \/ Check \/ Dropped \/ Pause
    BY <1>2, <2>1 DEF TaskStep, Alive, Ask, AllowReply, Check, Dropped, Pause
  <2>2. CASE Connect
    BY <1>2, <2>2 DEF TaskStep, Alive, Connect, TypeOK
  <2>3. CASE Receive
    BY <1>2, <2>3 DEF TaskStep, Alive, Receive, TypeOK
  <2>4. CASE Interrupted
    BY <1>2, <2>4 DEF TaskStep, Alive, Interrupted, Closed
  <2> QED
    BY <1>2, <2>1, <2>2, <2>3, <2>4 DEF TaskStep
<1>3. CASE StreamStep
  <2>1. stream.pc # "closed" /\ UNCHANGED <<client, task, host>>
    BY <1>3 DEF StreamStep, Borrow, Changed, Send, Cancelled
  <2>2. gui.pc # "off"
    BY <2>1 DEF Closed
  <2> QED
    BY <2>1, <2>2 DEF Connected, Over
<1>4. CASE DaemonEnds
  <2>1. stream' = Closed(stream.frames) /\ UNCHANGED <<client, task>>
    BY <1>4 DEF DaemonEnds
  <2>2. gui.pc = "off" => stream.frames = <<>>
    BY DEF Closed
  <2>3. stream'.pc = "closed"
    BY <2>1 DEF Closed
  <2> QED
    BY <2>1, <2>2, <2>3
<1>5. CASE Bind \/ \E c \in Commands : CarryOut(c)
  BY <1>4, <1>5 DEF Bind, CarryOut, StopServer, TypeOK, Closed
<1>6. CASE Environment
  <2>1. CASE Launch
    BY <2>1 DEF Launch, Closed, TypeOK
  <2>2. CASE ExitRequested \/ ExitEvent
    BY <2>2 DEF ExitRequested, ExitEvent, BeginShutdown, Off, Closed, TypeOK
  <2>3. CASE RequestPoweroff \/ DaemonStarts \/ Publish
    BY <2>3 DEF RequestPoweroff, DaemonStarts, Publish, TypeOK
  <2>4. CASE Others
    BY <2>4 DEF Others, StopServer, TypeOK, Closed
  <2> QED
    BY <1>4, <1>6, <2>1, <2>2, <2>3, <2>4 DEF Environment
<1>7. CASE Gone \/ UNCHANGED vars
  BY <1>7 DEF Gone, vars
<1> QED
  BY <1>1, <1>2, <1>3, <1>5, <1>6, <1>7 DEF Next

-----------------------------------------------------------------------------
(* Types again: the main thread and the task; the daemon; the connection.  *)
ClientTypeOK ==
  /\ gui \in [pc : {"off", "running", "joining", "disallowing", "waiting",
                    "exiting"},
              phase : {"none", "shutdown", "exit"}]
  /\ launches \in 0..MaxLaunches
  /\ shuttingDown \in BOOLEAN /\ token \in BOOLEAN
  /\ task \in {"none", "starting", "asking", "checking", "connecting",
               "streaming", "retrying", "sleeping", "ended"}

DaemonTypeOK ==
  /\ commands \subseteq Commands
  /\ daemon \in {0, daemons} /\ daemons \in 0..MaxDaemons
  /\ status \in 0..MaxStatus
  /\ server \in {"none", "spawned", "listening", "dead"}
  /\ daemon = 0 => commands = {} /\ server = "none"

StreamTypeOK ==
  /\ shown \in Statuses
  /\ stream \in StreamType /\ Len(stream.frames) <= MaxFrames

LEMMA TypeParts == TypeOK <=> ClientTypeOK /\ DaemonTypeOK /\ StreamTypeOK
BY DEF TypeOK, ClientTypeOK, DaemonTypeOK, StreamTypeOK, StreamType

LEMMA ExitType ==
  ASSUME ClientTypeOK, ExitRequested \/ ExitEvent
  PROVE  ClientTypeOK'
<1> USE DEF ClientTypeOK
<1>1. CASE ExitRequested
  <2>1. CASE BeginShutdown("shutdown") /\ UNCHANGED <<launches, task>>
    BY <2>1 DEF BeginShutdown
  <2>2. CASE /\ gui' = [gui EXCEPT !.pc = "exiting"]
             /\ UNCHANGED <<launches, shuttingDown, token, task>>
    BY <2>2
  <2> QED
    BY <1>1, <2>1, <2>2 DEF ExitRequested
<1>2. CASE ExitEvent
  <2>1. CASE BeginShutdown("exit") /\ UNCHANGED <<launches, task>>
    BY <2>1 DEF BeginShutdown
  <2>2. CASE Off /\ UNCHANGED <<launches, shuttingDown, token>>
    BY <2>2 DEF Off
  <2> QED
    BY <1>2, <2>1, <2>2 DEF ExitEvent
<1> QED
  BY <1>1, <1>2

LEMMA ClientType == TypeOK /\ [Next]_vars => ClientTypeOK'
<1> SUFFICES ASSUME ClientTypeOK, [Next]_vars PROVE ClientTypeOK'
  BY TypeParts
<1> USE DEF ClientTypeOK, client
<1>1. CASE ExitStep
  <2>1. CASE ExitRequested \/ ExitEvent
    BY <2>1, ExitType
  <2>2. CASE Joined \/ JoinTimeout \/ SendDisallow
    BY <2>2 DEF Joined, JoinTimeout, SendDisallow
  <2>3. CASE DisallowReply
    BY <2>3 DEF DisallowReply, Off
  <2> QED
    BY <1>1, <2>1, <2>2, <2>3 DEF ExitStep
<1>2. CASE TaskStep
  BY <1>2 DEF TaskStep, Ask, AllowReply, Check, Connect, Receive, Dropped,
              Interrupted, Pause
<1>3. CASE StreamStep \/ Bind
  BY <1>3 DEF StreamStep, Borrow, Changed, Send, Cancelled, Bind
<1>4. CASE \E c \in Commands : CarryOut(c)
  BY <1>4 DEF CarryOut, DaemonEnds
<1>5. CASE Environment
  <2>1. CASE ExitRequested \/ ExitEvent
    BY <2>1, ExitType
  <2>2. CASE Launch
    <3>1. launches' \in 0..MaxLaunches
      BY <2>2, BridgeAssumption DEF Launch
    <3>2. gui' = [pc |-> "running", phase |-> "none"] /\ task' = "starting"
          /\ shuttingDown' = FALSE /\ token' = FALSE
      BY <2>2 DEF Launch
    <3> QED
      BY <3>1, <3>2
  <2>3. CASE RequestPoweroff \/ DaemonStarts \/ DaemonEnds \/ Publish \/ Others
    BY <2>3 DEF RequestPoweroff, DaemonStarts, DaemonEnds, Publish, Others
  <2> QED
    BY <1>5, <2>1, <2>2, <2>3 DEF Environment
<1>6. CASE Gone \/ UNCHANGED vars
  BY <1>6 DEF Gone, vars
<1> QED
  BY <1>1, <1>2, <1>3, <1>4, <1>5, <1>6 DEF Next

(* A command carries the number of the client process that sent it.        *)
LEMMA SendsType ==
  ASSUME TypeOK, Connected, gui.pc # "off", UNCHANGED <<host, server>>,
         NEW cmd \in {"AllowUi", "DisallowUi", "Poweroff"}, Sends(cmd)
  PROVE  DaemonTypeOK'
<1>1. launches \in 1..MaxLaunches
  BY BridgeAssumption DEF TypeOK, Connected
<1>2. [cmd |-> cmd, launch |-> launches] \in Commands
  BY <1>1 DEF Commands
<1> QED
  BY <1>2 DEF TypeOK, DaemonTypeOK, Sends, host

LEMMA DaemonType == TypeOK /\ Connected /\ [Next]_vars => DaemonTypeOK'
<1> SUFFICES ASSUME TypeOK, Connected, [Next]_vars PROVE DaemonTypeOK'
  OBVIOUS
<1>1. DaemonTypeOK
  BY TypeParts
<1>2. CASE UNCHANGED <<commands, host, server>>
  BY <1>1, <1>2 DEF DaemonTypeOK, host
<1>3. CASE SendDisallow \/ RequestPoweroff \/ (Alive /\ Ask)
  BY <1>3, SendsType DEF SendDisallow, RequestPoweroff, Ask, Alive
<1>4. CASE DaemonStarts
  BY <1>1, <1>4, BridgeAssumption DEF DaemonTypeOK, DaemonStarts
<1>5. CASE DaemonEnds
  BY <1>1, <1>5, BridgeAssumption DEF DaemonTypeOK, DaemonEnds
<1>6. CASE Publish
  BY <1>1, <1>6, BridgeAssumption DEF DaemonTypeOK, Publish
<1>7. CASE Others \/ Bind
  BY <1>1, <1>7 DEF DaemonTypeOK, Others, Bind, StartServer, StopServer, host
<1>8. CASE \E c \in Commands : CarryOut(c)
  BY <1>1, <1>5, <1>8 DEF DaemonTypeOK, CarryOut, StartServer, StopServer, host
<1>9. CASE Launch \/ StreamStep
  BY <1>2, <1>9 DEF Launch, StreamStep, Borrow, Changed, Send, Cancelled
<1>10. CASE ExitRequested \/ ExitEvent \/ Joined \/ JoinTimeout \/ DisallowReply
  BY <1>2, <1>10 DEF ExitRequested, ExitEvent, Joined, JoinTimeout, DisallowReply
<1>11. CASE TaskStep
  BY <1>2, <1>3, <1>11
     DEF TaskStep, AllowReply, Check, Connect, Receive, Dropped, Interrupted, Pause
<1>12. CASE Gone \/ UNCHANGED vars
  BY <1>2, <1>12 DEF Gone, vars
<1> QED
  BY <1>3, <1>4, <1>5, <1>6, <1>7, <1>8, <1>9, <1>10, <1>11, <1>12
     DEF Next, ExitStep, Environment

-----------------------------------------------------------------------------
(***************************************************************************)
(* What the steps do to the connection: most leave it alone, close it or   *)
(* open it; the others are the subjects of their own lemmas.               *)
(***************************************************************************)
Quieter ==
  /\ UNCHANGED <<shown, host>> /\ stream' \in StreamType
  /\ stream'.frames \in {stream.frames, <<>>}
  /\ stream'.pc = "sending" =>
       /\ stream.pc = "sending" /\ stream'.held = stream.held
       /\ stream'.frames = stream.frames
  /\ stream'.pc = "waiting" =>
       stream.pc = "waiting" /\ stream'.frames = stream.frames
  /\ stream'.pc # "closed" =>
       \/ stream'.pc = stream.pc /\ stream'.seen = stream.seen
       \/ stream'.pc = "borrowing" /\ stream'.seen \in {0, status}

LEMMA Quiet ==
  ASSUME TypeOK, UNCHANGED <<shown, host>>,
         \/ UNCHANGED stream
         \/ stream' = Opened \/ stream' = Closed(<<>>)
         \/ stream' = Closed(stream.frames)
         \/ stream' = [stream EXCEPT !.cancelled = stream.pc # "closed"]
         \/ stream' = [stream EXCEPT !.pc = "borrowing", !.seen = status]
  PROVE  Quieter
<1>1. stream \in StreamType /\ status \in 0..MaxStatus
  BY DEF TypeOK, StreamType
<1>2. <<>> \in Seq(Statuses) /\ stream.frames \in Seq(Statuses)
  BY <1>1 DEF StreamType
<1>3. CASE UNCHANGED stream
  BY <1>1, <1>3 DEF Quieter
<1>4. CASE stream' = Opened
  <2>1. Opened.frames = <<>> /\ Opened.pc = "borrowing"
    BY DEF Opened
  <2> QED
    BY <1>4, <2>1, OpenedType DEF Quieter, Opened
<1>5. ASSUME NEW f \in {stream.frames, <<>>}, stream' = Closed(f)
      PROVE  Quieter
  <2>1. Closed(f).frames = f /\ Closed(f).pc = "closed" /\ Closed(f) \in StreamType
    BY <1>2, ClosedType DEF Closed
  <2> QED
    BY <1>5, <2>1 DEF Quieter
<1>6. CASE \/ stream' = [stream EXCEPT !.cancelled = stream.pc # "closed"]
           \/ stream' = [stream EXCEPT !.pc = "borrowing", !.seen = status]
  <2>1. stream' \in StreamType /\ stream'.frames = stream.frames
    BY <1>1, <1>6 DEF StreamType
  <2>2. stream'.pc = "sending" => stream.pc = "sending" /\ stream'.held = stream.held
    BY <1>1, <1>6 DEF StreamType
  <2>3. \/ stream'.pc = stream.pc /\ stream'.seen = stream.seen
        \/ stream'.pc = "borrowing" /\ stream'.seen = status
    BY <1>1, <1>6 DEF StreamType
  <2> QED
    BY <2>1, <2>2, <2>3 DEF Quieter
<1> QED
  BY <1>3, <1>4, <1>5, <1>6

LEMMA Motions ==
  ASSUME TypeOK, [Next]_vars
  PROVE  \/ Quieter
         \/ Launch \/ Receive \/ DaemonStarts \/ DaemonEnds \/ Publish
         \/ Borrow \/ Send
<1>1. CASE ExitRequested \/ ExitEvent \/ Joined \/ JoinTimeout \/ SendDisallow \/ DisallowReply
  BY <1>1, Quiet DEF ExitRequested, ExitEvent, Off, Joined, JoinTimeout,
                     SendDisallow, DisallowReply
<1>2. CASE Ask \/ AllowReply \/ Check \/ Connect \/ Dropped \/ Interrupted \/ Pause
  BY <1>2, Quiet DEF Ask, AllowReply, Check, Connect, Dropped, Interrupted, Pause
<1>3. CASE Changed \/ Cancelled
  BY <1>3, Quiet DEF Changed, Cancelled
<1>4. CASE Bind \/ RequestPoweroff \/ Others
  BY <1>4, Quiet DEF Bind, RequestPoweroff, Others, StopServer
<1>5. CASE (\E c \in Commands : CarryOut(c)) /\ ~DaemonEnds
  BY <1>5, Quiet DEF CarryOut, StopServer
<1>6. CASE Gone \/ UNCHANGED vars
  BY <1>6, Quiet DEF Gone, vars
<1> QED
  BY <1>1, <1>2, <1>3, <1>4, <1>5, <1>6
     DEF Next, ExitStep, TaskStep, StreamStep, Environment

-----------------------------------------------------------------------------
(* The frames are a queue: one is sent at its end, one is read at its      *)
(* front.                                                                  *)
LEMMA Frames ==
  ASSUME TypeOK
  PROVE  /\ stream \in StreamType /\ stream.frames \in Seq(Statuses)
         /\ Len(stream.frames) \in Nat /\ stream.held \in Statuses
         /\ \A i \in 1..Len(stream.frames) : stream.frames[i] \in Statuses
<1>1. stream \in StreamType
  BY DEF TypeOK, StreamType
<1>2. stream.frames \in Seq(Statuses) /\ stream.held \in Statuses
  BY <1>1 DEF StreamType
<1> QED
  BY <1>1, <1>2, LenProperties, ElementOfSeq

LEMMA SendFacts ==
  ASSUME TypeOK, Send
  PROVE  /\ stream.pc = "sending" /\ UNCHANGED <<shown, host>>
         /\ stream' \in StreamType /\ stream'.pc = "waiting"
         /\ stream'.seen = stream.seen
         /\ Len(stream'.frames) = Len(stream.frames) + 1
         /\ Len(stream'.frames) <= MaxFrames
         /\ \A i \in 1..Len(stream.frames) : stream'.frames[i] = stream.frames[i]
         /\ stream'.frames[Len(stream.frames) + 1] = stream.held
<1>1. /\ stream.pc = "sending" /\ Len(stream.frames) < MaxFrames
      /\ UNCHANGED <<shown, host>>
      /\ stream' = [stream EXCEPT !.pc = "waiting",
                                  !.frames = Append(stream.frames, stream.held)]
  BY Frames DEF Send, StreamType
<1>2. /\ stream'.pc = "waiting" /\ stream'.seen = stream.seen
      /\ stream'.frames = Append(stream.frames, stream.held)
  BY <1>1, Frames DEF StreamType
<1>3. Append(stream.frames, stream.held) \in Seq(Statuses)
  BY Frames, AppendProperties
<1>4. stream' \in StreamType
  BY <1>1, <1>3, Frames DEF StreamType
<1>5. /\ Len(stream'.frames) = Len(stream.frames) + 1
      /\ \A i \in 1..Len(stream.frames) : stream'.frames[i] = stream.frames[i]
      /\ stream'.frames[Len(stream.frames) + 1] = stream.held
  BY <1>2, Frames, AppendProperties
<1> QED
  BY <1>1, <1>2, <1>4, <1>5, Frames, BridgeAssumption

LEMMA ReceiveFacts ==
  ASSUME TypeOK, Receive
  PROVE  /\ UNCHANGED host /\ stream' \in StreamType
         /\ stream'.pc = stream.pc /\ stream'.held = stream.held
         /\ stream'.seen = stream.seen
         /\ Len(stream.frames) > 0 /\ shown' = stream.frames[1]
         /\ shown' \in Statuses
         /\ Len(stream'.frames) = Len(stream.frames) - 1
         /\ \A i \in 1..Len(stream'.frames) :
              stream'.frames[i] = stream.frames[i + 1]
<1>1. /\ stream.frames # <<>> /\ UNCHANGED host /\ shown' = Head(stream.frames)
      /\ stream' = [stream EXCEPT !.frames = Tail(stream.frames)]
  BY Frames DEF Receive, StreamType
<1>2. /\ stream'.frames = Tail(stream.frames)
      /\ stream'.pc = stream.pc /\ stream'.held = stream.held
      /\ stream'.seen = stream.seen
  BY <1>1, Frames DEF StreamType
<1>3. /\ Head(stream.frames) \in Statuses /\ Tail(stream.frames) \in Seq(Statuses)
      /\ Head(stream.frames) = stream.frames[1]
      /\ Len(Tail(stream.frames)) = Len(stream.frames) - 1
      /\ \A i \in 1..Len(Tail(stream.frames)) :
           Tail(stream.frames)[i] = stream.frames[i + 1]
  BY <1>1, Frames, HeadTailProperties
<1>4. Len(stream.frames) > 0
  BY <1>1, Frames, EmptySeq
<1>5. stream' \in StreamType
  BY <1>1, <1>3, Frames DEF StreamType
<1> QED
  BY <1>1, <1>2, <1>3, <1>4, <1>5

LEMMA BorrowFacts ==
  ASSUME TypeOK, Borrow
  PROVE  /\ UNCHANGED <<shown, host>> /\ stream' \in StreamType
         /\ stream.pc = "borrowing" /\ stream'.frames = stream.frames
         /\ stream'.held = Current /\ stream'.pc = "sending"
         /\ stream'.seen = stream.seen
<1>1. Current \in Statuses
  <2>1. daemon \in 0..MaxDaemons /\ status \in 0..MaxStatus
    BY BridgeAssumption DEF TypeOK
  <2> QED
    BY <2>1 DEF Current, Statuses
<1>2. stream' = [stream EXCEPT !.pc = "sending", !.held = Current]
  BY DEF Borrow
<1> QED
  BY <1>1, <1>2, Frames DEF Borrow, StreamType

LEMMA StreamTypeStep == TypeOK /\ [Next]_vars => StreamTypeOK'
<1> SUFFICES ASSUME TypeOK, [Next]_vars PROVE StreamTypeOK'
  OBVIOUS
<1> USE DEF StreamTypeOK
<1>0. StreamTypeOK
  BY TypeParts
<1>1. <<>> \in Seq(Statuses) /\ Len(<<>>) = 0 /\ MaxFrames \in Nat
  BY BridgeAssumption
<1>2. CASE Quieter
  BY <1>0, <1>1, <1>2 DEF Quieter
<1>3. CASE Launch
  <2>1. stream' \in StreamType /\ stream'.frames = <<>>
    BY <1>1, <1>3, ClosedType DEF Launch, Closed
  <2>2. shown' \in Statuses
    BY <1>3, DefaultType DEF Launch
  <2> QED
    BY <1>1, <2>1, <2>2
<1>4. CASE Receive
  BY <1>0, <1>1, <1>4, ReceiveFacts, Frames
<1>5. CASE DaemonStarts \/ Publish
  BY <1>0, <1>5 DEF DaemonStarts, Publish
<1>6. CASE DaemonEnds
  <2>1. stream' \in StreamType /\ stream'.frames = stream.frames
    BY <1>6, ClosedType, Frames DEF DaemonEnds, Closed
  <2> QED
    BY <1>0, <1>6, <2>1 DEF DaemonEnds
<1>7. CASE Borrow
  BY <1>0, <1>7, BorrowFacts
<1>8. CASE Send
  BY <1>0, <1>8, SendFacts
<1> QED
  BY <1>2, <1>3, <1>4, <1>5, <1>6, <1>7, <1>8, Motions

LEMMA TypeStep == TypeOK /\ Connected /\ [Next]_vars => TypeOK'
<1> SUFFICES ASSUME TypeOK, Connected, [Next]_vars PROVE TypeOK'
  OBVIOUS
<1>1. ClientTypeOK' /\ DaemonTypeOK' /\ StreamTypeOK'
  BY ClientType, DaemonType, StreamTypeStep
<1> QED
  BY <1>1 DEF TypeOK, ClientTypeOK, DaemonTypeOK, StreamTypeOK, StreamType

-----------------------------------------------------------------------------
(* Order. *)

(* Older is the strict part of a total order.                              *)
LEMMA OlderFacts ==
  /\ \A a \in Statuses : ~Older(a, a)
  /\ \A a, b, c \in Statuses : ~Older(b, a) /\ ~Older(c, b) => ~Older(c, a)
BY BridgeAssumption DEF Older, Statuses

(* The newest status is older than nothing that is known.                  *)
LEMMA NewestFacts ==
  ASSUME TypeOK, daemon # 0
  PROVE  /\ Known(Current)
         /\ \A a \in Statuses : Known(a) => ~Older(Current, a)
BY BridgeAssumption DEF TypeOK, Known, Current, Older, Statuses

(* What is known stays known whatever becomes of the daemon.               *)
LEMMA KnownStays ==
  ASSUME TypeOK, \/ UNCHANGED host \/ DaemonStarts \/ DaemonEnds \/ Publish,
         NEW a \in Statuses, Known(a)
  PROVE  Known(a)'
<1>1. a.daemon \in Nat /\ a.n \in Nat /\ daemons \in Nat /\ status \in Nat
      /\ daemon \in {0, daemons}
  BY BridgeAssumption DEF Statuses, TypeOK
<1>2. CASE UNCHANGED host
  BY <1>2 DEF Known, host
<1>3. CASE DaemonStarts
  BY <1>1, <1>3 DEF Known, DaemonStarts
<1>4. CASE DaemonEnds
  BY <1>1, <1>4 DEF Known, DaemonEnds
<1>5. CASE Publish
  BY <1>1, <1>5 DEF Known, Publish
<1> QED
  BY <1>2, <1>3, <1>4, <1>5

LEMMA OrderQuiet ==
  ASSUME TypeOK, InOrder, Quieter
  PROVE  InOrder'
<1>1. Len(<<>>) = 0
  OBVIOUS
<1>2. CASE stream'.frames = <<>> /\ stream'.pc # "sending"
  BY <1>1, <1>2 DEF InOrder, Quieter, Known, host
<1>3. CASE stream'.frames = stream.frames
  BY <1>3 DEF InOrder, Quieter, Known, host
<1> QED
  BY <1>2, <1>3 DEF Quieter

(* Steps of the daemon: the status moves on, or nothing is sent any more.  *)
LEMMA OrderDaemon ==
  ASSUME TypeOK, InOrder, DaemonStarts \/ DaemonEnds \/ Publish
  PROVE  InOrder'
<1>1. /\ UNCHANGED shown /\ stream'.frames = stream.frames
      /\ stream'.pc = "sending" => stream.pc = "sending" /\ stream'.held = stream.held
  BY DEF DaemonStarts, DaemonEnds, Publish, Closed
<1>2. \A a \in Statuses : Known(a) => Known(a)'
  BY KnownStays
<1>3. shown \in Statuses
  BY DEF TypeOK
<1>4. Known(shown)'
  BY <1>1, <1>2, <1>3 DEF InOrder, Known
<1>5. ASSUME NEW i \in 1..Len(stream.frames)
      PROVE  Known(stream.frames[i])'
  BY <1>1, <1>2, Frames DEF InOrder, Known
<1>6. stream'.pc = "sending" => Known(stream.held)'
  BY <1>1, <1>2, Frames DEF InOrder, Known
<1> QED
  BY <1>1, <1>4, <1>5, <1>6 DEF InOrder

(* A client process begins with the default and without a connection.      *)
LEMMA OrderLaunch ==
  ASSUME TypeOK, InOrder, Launch
  PROVE  InOrder'
<1>1. /\ shown' = Default /\ UNCHANGED host
      /\ stream'.frames = <<>> /\ stream'.pc = "closed"
  BY DEF Launch, Closed
<1>2. Len(<<>>) = 0
  OBVIOUS
<1>3. Known(shown)'
  BY <1>1, BridgeAssumption DEF Known, Default, TypeOK, host
<1> QED
  BY <1>1, <1>2, <1>3 DEF InOrder

(* The front frame is shown: what is behind it is no older.                *)
LEMMA OrderReceive ==
  ASSUME TypeOK, InOrder, Receive
  PROVE  InOrder'
<1> DEFINE n == Len(stream.frames)
<1>1. /\ n \in Nat /\ n > 0 /\ Len(stream'.frames) = n - 1
      /\ shown' = stream.frames[1] /\ UNCHANGED host
      /\ stream'.pc = stream.pc /\ stream'.held = stream.held
      /\ \A i \in 1..n - 1 : stream'.frames[i] = stream.frames[i + 1]
  BY ReceiveFacts, Frames
<1>2. \A i, j \in 1..n : i < j => ~Older(stream.frames[j], stream.frames[i])
  BY DEF InOrder
<1>3. Known(shown)'
  BY <1>1 DEF InOrder, Known, host
<1>4. ASSUME NEW i \in 1..n - 1
      PROVE  Known(stream.frames[i])' /\ ~Older(stream'.frames[i], shown')
  <2>1. i + 1 \in 1..n /\ 1 \in 1..n /\ 1 < i + 1
    BY <1>1
  <2>2. stream'.frames[i] = stream.frames[i + 1]
    BY <1>1
  <2>3. Known(stream.frames[i + 1])
    BY <2>1 DEF InOrder
  <2>4. Known(stream.frames[i])'
    BY <1>1, <2>2, <2>3 DEF Known, host
  <2> QED
    BY <1>1, <1>2, <2>1, <2>2, <2>4
<1>5. ASSUME NEW i \in 1..n - 1, NEW j \in 1..n - 1, i < j
      PROVE  ~Older(stream'.frames[j], stream'.frames[i])
  <2>1. i + 1 \in 1..n /\ j + 1 \in 1..n /\ i + 1 < j + 1
    BY <1>1, <1>5
  <2> QED
    BY <1>1, <1>2, <2>1
<1>6. stream'.pc = "sending" =>
        /\ Known(stream.held)' /\ ~Older(stream'.held, shown')
        /\ \A i \in 1..n - 1 : ~Older(stream'.held, stream'.frames[i])
  <2> SUFFICES ASSUME stream.pc = "sending"
               PROVE  /\ Known(stream.held)' /\ ~Older(stream'.held, shown')
                      /\ \A i \in 1..n - 1 : ~Older(stream'.held, stream'.frames[i])
    BY <1>1
  <2>1. Known(stream.held) /\ \A i \in 1..n : ~Older(stream.held, stream.frames[i])
    BY DEF InOrder
  <2>2. Known(stream.held)'
    BY <1>1, <2>1 DEF Known, host
  <2>3. ~Older(stream'.held, shown')
    BY <1>1, <2>1
  <2>4. ASSUME NEW i \in 1..n - 1
        PROVE  ~Older(stream'.held, stream'.frames[i])
    BY <1>1, <2>1
  <2> QED
    BY <2>2, <2>3, <2>4
<1> HIDE DEF n
<1> QED
  BY <1>1, <1>3, <1>4, <1>5, <1>6 DEF InOrder

(* What is borrowed is the newest: older than nothing on its way.          *)
LEMMA OrderBorrow ==
  ASSUME TypeOK, Connected, InOrder, Borrow
  PROVE  InOrder'
<1>1. daemon # 0
  BY BorrowFacts DEF Connected
<1>2. /\ UNCHANGED <<shown, host>> /\ stream'.frames = stream.frames
      /\ stream'.held = Current
  BY BorrowFacts
<1>3. Known(Current) /\ \A a \in Statuses : Known(a) => ~Older(Current, a)
  BY <1>1, NewestFacts
<1>4. Known(stream.held)'
  BY <1>2, <1>3 DEF Known, host
<1>5. ~Older(Current, shown)
  BY <1>3 DEF InOrder, TypeOK
<1>6. \A i \in 1..Len(stream.frames) : ~Older(Current, stream.frames[i])
  BY <1>3, Frames DEF InOrder
<1>7. Known(shown)'
  BY <1>2 DEF InOrder, Known, host
<1>8. \A i \in 1..Len(stream.frames) : Known(stream.frames[i])'
  BY <1>2 DEF InOrder, Known, host
<1> QED
  BY <1>2, <1>4, <1>5, <1>6, <1>7, <1>8 DEF InOrder

(* What was borrowed goes to the end of the queue.                         *)
LEMMA OrderSend ==
  ASSUME TypeOK, InOrder, Send
  PROVE  InOrder'
<1> DEFINE n == Len(stream.frames)
<1>1. /\ n \in Nat /\ Len(stream'.frames) = n + 1
      /\ UNCHANGED <<shown, host>> /\ stream'.pc = "waiting"
      /\ \A i \in 1..n : stream'.frames[i] = stream.frames[i]
      /\ stream'.frames[n + 1] = stream.held
  BY SendFacts, Frames
<1>2. /\ Known(stream.held) /\ ~Older(stream.held, shown)
      /\ \A i \in 1..n : ~Older(stream.held, stream.frames[i])
  BY SendFacts DEF InOrder
<1>3. \A i \in 1..n : Known(stream.frames[i]) /\ ~Older(stream.frames[i], shown)
  BY DEF InOrder
<1>4. \A i, j \in 1..n : i < j => ~Older(stream.frames[j], stream.frames[i])
  BY DEF InOrder
<1>5. Known(shown)'
  BY <1>1 DEF InOrder, Known, host
<1>6. ASSUME NEW i \in 1..n + 1
      PROVE  Known(stream.frames[i])' /\ ~Older(stream'.frames[i], shown')
  <2>1. CASE i = n + 1
    <3>1. Known(stream.frames[i])'
      BY <1>1, <1>2, <2>1 DEF Known, host
    <3> QED
      BY <1>1, <1>2, <2>1, <3>1
  <2>2. CASE i \in 1..n
    <3>1. Known(stream.frames[i])'
      BY <1>1, <1>3, <2>2 DEF Known, host
    <3> QED
      BY <1>1, <1>3, <2>2, <3>1
  <2> QED
    BY <1>1, <2>1, <2>2
<1>7. ASSUME NEW i \in 1..n + 1, NEW j \in 1..n + 1, i < j
      PROVE  ~Older(stream'.frames[j], stream'.frames[i])
  <2>1. i \in 1..n
    BY <1>1, <1>7
  <2>2. CASE j = n + 1
    BY <1>1, <1>2, <2>1, <2>2
  <2>3. CASE j \in 1..n
    BY <1>1, <1>4, <1>7, <2>1, <2>3
  <2> QED
    BY <1>1, <2>2, <2>3
<1> HIDE DEF n
<1> QED
  BY <1>1, <1>5, <1>6, <1>7 DEF InOrder

LEMMA InOrderStep ==
  ASSUME TypeOK, Connected, InOrder, [Next]_vars
  PROVE  InOrder'
BY Motions, OrderQuiet, OrderDaemon, OrderLaunch, OrderReceive, OrderBorrow,
   OrderSend

-----------------------------------------------------------------------------
(* No status is lost. *)
LEMMA NoStatusLostInit == Init => NoStatusLost
BY DEF Init, NoStatusLost, Closed

LEMMA CurrentStays == UNCHANGED host => Current' = Current
BY DEF host, Current

LEMMA NumbersType ==
  ASSUME TypeOK
  PROVE  status \in Nat /\ stream.seen \in Nat
BY Frames, BridgeAssumption DEF TypeOK, StreamType

LEMMA LostQuiet ==
  ASSUME TypeOK, NoStatusLost, Quieter
  PROVE  NoStatusLost'
<1>1. UNCHANGED <<shown, status>> /\ Current' = Current
  BY CurrentStays DEF Quieter, host
<1>2. stream'.pc # "closed" => stream'.seen <= status'
  BY <1>1, NumbersType DEF NoStatusLost, Quieter
<1>3. stream'.pc = "sending" => (stream.held = Current \/ Unseen)'
  BY <1>1 DEF NoStatusLost, Quieter, Unseen
<1>4. stream'.pc = "waiting" => (Latest = Current \/ Unseen)'
  BY <1>1 DEF NoStatusLost, Quieter, Unseen, Latest
<1> QED
  BY <1>2, <1>3, <1>4 DEF NoStatusLost

(* While a daemon starts or ends no connection is open.                    *)
LEMMA LostClosed ==
  ASSUME Connected, Launch \/ DaemonStarts \/ DaemonEnds
  PROVE  NoStatusLost'
<1>1. stream'.pc = "closed"
  BY DEF Connected, Launch, DaemonStarts, DaemonEnds, Closed
<1> QED
  BY <1>1 DEF NoStatusLost

LEMMA LostPublish ==
  ASSUME TypeOK, NoStatusLost, Publish
  PROVE  NoStatusLost'
<1>1. status' = status + 1 /\ UNCHANGED stream
  BY DEF Publish
<1>2. stream'.pc # "closed" => stream'.seen < status'
  BY <1>1, NumbersType DEF NoStatusLost
<1>3. stream'.pc # "closed" => Unseen'
  BY <1>1, <1>2, NumbersType DEF Unseen
<1> QED
  BY <1>1, <1>2, <1>3, NumbersType DEF NoStatusLost

(* What is read was sent last only if nothing else is on its way.          *)
LEMMA LostReceive ==
  ASSUME TypeOK, NoStatusLost, Receive
  PROVE  NoStatusLost'
<1>1. Len(stream.frames) \in Nat \ {0} /\ Len(stream'.frames) = Len(stream.frames) - 1
  BY ReceiveFacts, Frames
<1>2. Latest' = Latest
  <2>1. CASE Len(stream.frames) = 1
    BY <1>1, <2>1, ReceiveFacts DEF Latest
  <2>2. CASE Len(stream.frames) > 1
    <3>1. stream'.frames[Len(stream.frames) - 1] = stream.frames[Len(stream.frames)]
      BY <1>1, <2>2, ReceiveFacts
    <3> QED
      BY <1>1, <2>2, <3>1 DEF Latest
  <2>3. \A n \in Nat \ {0} : n = 1 \/ n > 1
    OBVIOUS
  <2>4. Len(stream.frames) = 1 \/ Len(stream.frames) > 1
    BY <1>1, <2>3
  <2> QED
    BY <2>1, <2>2, <2>4
<1>3. /\ stream'.pc = stream.pc /\ stream'.held = stream.held
      /\ stream'.seen = stream.seen /\ status' = status /\ Current' = Current
  BY ReceiveFacts, CurrentStays DEF host
<1> QED
  BY <1>2, <1>3 DEF NoStatusLost, Unseen

LEMMA LostBorrow ==
  ASSUME TypeOK, NoStatusLost, Borrow
  PROVE  NoStatusLost'
<1>1. /\ stream.pc = "borrowing" /\ stream'.pc = "sending"
      /\ stream'.seen = stream.seen /\ status' = status
      /\ stream'.held = Current /\ Current' = Current
  BY BorrowFacts, CurrentStays DEF host
<1> QED
  BY <1>1 DEF NoStatusLost

LEMMA LostSend ==
  ASSUME TypeOK, NoStatusLost, Send
  PROVE  NoStatusLost'
<1>1. /\ stream.pc = "sending" /\ stream'.pc = "waiting"
      /\ stream'.seen = stream.seen /\ status' = status /\ Current' = Current
  BY SendFacts, CurrentStays DEF host
<1>2. Latest' = stream.held
  BY SendFacts, Frames DEF Latest
<1> QED
  BY <1>1, <1>2 DEF NoStatusLost, Unseen

LEMMA NoStatusLostStep ==
  ASSUME TypeOK, Connected, NoStatusLost, [Next]_vars
  PROVE  NoStatusLost'
BY Motions, LostQuiet, LostClosed, LostPublish, LostReceive, LostBorrow, LostSend

-----------------------------------------------------------------------------
(* The theorems. *)
Sound == TypeOK /\ Connected /\ InOrder

LEMMA SoundAlways == Spec => []Sound
<1>1. Init => Sound
  BY TypeInit, ConnectedInit, InOrderInit DEF Sound
<1>2. Sound /\ [Next]_vars => Sound'
  BY TypeStep, ConnectedStep, InOrderStep DEF Sound
<1> QED
  BY <1>1, <1>2, PTL DEF Spec

(* Type correctness, for any number of processes and statuses.             *)
THEOREM TypeCorrect == Spec => []TypeOK
<1>1. Sound => TypeOK
  BY DEF Sound
<1> QED
  BY <1>1, SoundAlways, PTL

(* A bridge task that has ended does not stream again.                     *)
LEMMA EndedStays ==
  ASSUME Next, task = "ended"
  PROVE  task' # "streaming" /\ ~Receive
<1> USE DEF client, host
<1>1. ~Receive
  BY DEF Receive
<1>2. CASE ExitStep
  BY <1>1, <1>2 DEF ExitStep, ExitRequested, ExitEvent, Off, Joined, JoinTimeout,
              SendDisallow, DisallowReply
<1>3. CASE TaskStep
  BY <1>1, <1>3 DEF TaskStep, Ask, AllowReply, Check, Connect, Receive, Dropped,
              Interrupted, Pause
<1>4. CASE StreamStep \/ Bind \/ \E c \in Commands : CarryOut(c)
  BY <1>1, <1>4 DEF StreamStep, Borrow, Changed, Send, Cancelled, Bind, CarryOut,
              DaemonEnds
<1>5. CASE Environment
  BY <1>1, <1>5 DEF Environment, Launch, ExitRequested, ExitEvent, Off,
              RequestPoweroff, DaemonStarts, DaemonEnds, Publish, Others
<1>6. CASE Gone
  BY <1>1, <1>6 DEF Gone, vars
<1> QED
  BY <1>1, <1>2, <1>3, <1>4, <1>5, <1>6 DEF Next

(***************************************************************************)
(* After the join of the bridge task in shutdown_ui_bridge_and_disallow    *)
(* nothing more is shown and no connection is opened: the task has ended,  *)
(* whether it came to its end by itself or was aborted.                    *)
(***************************************************************************)
THEOREM SilentAfterJoinAlways == Spec => SilentAfterJoin
<1> DEFINE Silent == gui.pc \in {"disallowing", "waiting", "exiting"} =>
                       shown' = shown /\ stream'.pc = "closed"
<1>1. Sound /\ Next => Silent
  <2> SUFFICES ASSUME Sound, Next, gui.pc \in {"disallowing", "waiting", "exiting"}
               PROVE  shown' = shown /\ stream'.pc = "closed"
    OBVIOUS
  <2>1. TypeOK /\ Connected /\ task = "ended" /\ stream.pc = "closed"
    BY DEF Sound, Connected, Over
  <2>2. task' # "streaming" /\ ~Receive
    BY <2>1, EndedStays
  <2>3. stream'.pc = "closed"
    BY <2>1, <2>2, ConnectedStep DEF Connected
  <2>4. ~Launch /\ ~Borrow /\ ~Send
    BY <2>1 DEF Launch, Borrow, Send
  <2>5. shown' = shown
    BY <2>1, <2>2, <2>4, Motions DEF Quieter, DaemonStarts, DaemonEnds, Publish
  <2> QED
    BY <2>3, <2>5
<1> HIDE DEF Silent
<1>2. Sound /\ [Next]_vars => [Silent]_vars
  BY <1>1
<1>3. Spec => [][Silent]_vars
  BY <1>2, SoundAlways, PTL DEF Spec
<1> QED
  BY <1>3 DEF Silent, SilentAfterJoin

(***************************************************************************)
(* What handle_state_message stores and emits is never older than what the *)
(* same client showed before, across drops of the connection and across    *)
(* daemons.                                                                *)
(***************************************************************************)
THEOREM ShownInOrderAlways == Spec => ShownInOrder
<1> DEFINE Ordered == Alive => ~Older(shown', shown)
<1>1. Sound /\ Next => Ordered
  <2> SUFFICES ASSUME Sound, Next, Alive PROVE ~Older(shown', shown)
    OBVIOUS
  <2>1. TypeOK /\ InOrder /\ shown \in Statuses
    BY DEF Sound, TypeOK
  <2>2. CASE Receive
    <3>1. shown' = stream.frames[1] /\ 1 \in 1..Len(stream.frames)
      BY <2>1, <2>2, ReceiveFacts, Frames
    <3> QED
      BY <2>1, <3>1 DEF InOrder
  <2>3. ~Launch
    BY DEF Launch, Alive
  <2>4. CASE shown' = shown
    BY <2>1, <2>4, OlderFacts
  <2> QED
    BY <2>1, <2>2, <2>3, <2>4, Motions, BorrowFacts, SendFacts
       DEF Quieter, DaemonStarts, DaemonEnds, Publish
<1> HIDE DEF Ordered
<1>2. Sound /\ [Next]_vars => [Ordered]_vars
  BY <1>1
<1>3. Spec => [][Ordered]_vars
  BY <1>2, SoundAlways, PTL DEF Spec
<1> QED
  BY <1>3 DEF Ordered, ShownInOrder

(***************************************************************************)
(* stream_state_to_client loses no status, however the daemon publishes    *)
(* between its borrow(), its send and its changed(): a stream that waits   *)
(* for a change has sent the newest, unless the change is there already.   *)
(* This is the safety half of CatchesUp.                                   *)
(***************************************************************************)
THEOREM NoStatusLostAlways == Spec => []NoStatusLost
<1>1. Init => NoStatusLost
  BY NoStatusLostInit
<1>2. Sound /\ NoStatusLost /\ [Next]_vars => NoStatusLost'
  BY NoStatusLostStep DEF Sound
<1> QED
  BY <1>1, <1>2, SoundAlways, PTL DEF Spec
=============================================================================
