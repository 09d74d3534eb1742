-------------------------- MODULE UiServer_proofs --------------------------
(***************************************************************************)
(* The UI server, proved for any number of servers, of clients and of      *)
(* control connections: the slot loses no server, the client count is      *)
(* right, and a timer that decides to stop is the last one.                *)
(***************************************************************************)
EXTENDS UiServer, FiniteSetTheorems, TLAPS

ConnPcs == {"unborn", "accepted", "counted", "streaming", "left", "sleep",
            "awake", "stopping", "gone"}

(* The clients that a server has counted in and not out.                   *)
Served(s) ==
  {k \in Connections : conn[k].server = s /\ conn[k].pc \in {"counted", "streaming"}}

-----------------------------------------------------------------------------
(***************************************************************************)
(* The invariant.  A connection has a server; the count is right; a timer  *)
(* remembers no generation that is yet to come; and while the generation   *)
(* is the one a timer remembers, nobody has entered since it woke up and   *)
(* found nobody.                                                           *)
(***************************************************************************)
Placed == \A k \in Connections : conn[k].pc # "unborn" => conn[k].server \in Servers

GenBound ==
  \A k \in Connections :
    conn[k].pc \in {"sleep", "awake"} => conn[k].gen <= generation[conn[k].server]

NobodySince ==
  \A j, k \in Connections :
    ( /\ conn[k].pc = "awake" /\ conn[j].server = conn[k].server
      /\ conn[k].gen = generation[conn[k].server] )
    => conn[j].pc # "streaming"

UiInv == Placed /\ CountIsClients /\ GenBound /\ NobodySince

LEMMA ServedFinite ==
  \A s : IsFiniteSet(Served(s)) /\ Cardinality(Served(s)) \in Nat
<1>1. IsFiniteSet(Connections)
  BY FS_Interval, UiServerAssumption DEF Connections
<1>2. \A s : Served(s) \in SUBSET Connections
  BY DEF Served
<1> QED
  BY <1>1, <1>2, FS_Subset, FS_CardinalityType

LEMMA Counts == CountIsClients <=> \A s \in Servers : active[s] = Cardinality(Served(s))
BY DEF CountIsClients, Served

-----------------------------------------------------------------------------
LEMMA TypeInit == Init => TypeOK
<1> SUFFICES ASSUME Init PROVE TypeOK
  OBVIOUS
<1> USE UiServerAssumption DEF Init, At, Unborn
<1>1. 0 \in 0..MaxServers
  OBVIOUS
<1>2. server \in [Servers -> {"unborn", "spawned", "listening", "ended"}]
  OBVIOUS
<1>3. active \in [Servers -> Nat] /\ generation \in [Servers -> Nat]
  OBVIOUS
<1>4. conn \in [Connections -> [pc : ConnPcs, server : 0..MaxServers, gen : Nat]]
  BY <1>1 DEF ConnPcs
<1>5. handler \in [Handlers -> [pc : {"idle", "reading", "poweroff", "joining"},
                                server : 0..MaxServers]]
  BY <1>1
<1>6. supervisor \in [pc : {"running", "joinServer", "joinControl", "exited"},
                      server : 0..MaxServers]
  BY <1>1
<1> QED
  BY <1>1, <1>2, <1>3, <1>4, <1>5, <1>6 DEF TypeOK, ConnPcs

LEMMA UiInit == Init => UiInv
<1> SUFFICES ASSUME Init PROVE UiInv
  OBVIOUS
<1>1. \A k \in Connections : conn[k].pc = "unborn"
  BY DEF Init, Unborn
<1>2. \A s : Served(s) = {}
  BY <1>1 DEF Served
<1>3. CountIsClients
  BY <1>2, Counts, FS_EmptySet DEF Init
<1>4. Placed
  BY <1>1 DEF Placed
<1>5. GenBound
  BY <1>1 DEF GenBound
<1>6. NobodySince
  BY <1>1 DEF NobodySince
<1> QED
  BY <1>3, <1>4, <1>5, <1>6 DEF UiInv

-----------------------------------------------------------------------------
(* A connection moves on: what becomes of it and of the others.            *)
LEMMA MovesFacts ==
  ASSUME TypeOK, NEW k \in Connections, NEW p \in ConnPcs, Moves(k, p)
  PROVE  /\ \A j \in Connections : j # k => conn'[j] = conn[j]
         /\ conn'[k].pc = p /\ conn'[k].server = conn[k].server
         /\ conn'[k].gen = conn[k].gen
         /\ conn' \in [Connections ->
                         [pc : ConnPcs, server : 0..MaxServers, gen : Nat]]
BY DEF TypeOK, Moves, ConnPcs

(* A step that neither counts, nor moves a generation, nor wakes a timer.  *)
LEMMA UiFrame ==
  ASSUME TypeOK, UiInv, UNCHANGED <<active, generation>>,
         NEW k \in Connections, NEW p \in ConnPcs, Moves(k, p),
         conn[k].pc \in {"counted", "streaming"} <=> p \in {"counted", "streaming"},
         p \notin {"unborn", "streaming", "sleep", "awake"},
         conn[k].pc # "unborn"
  PROVE  UiInv'
<1>1. /\ \A j \in Connections : j # k => conn'[j] = conn[j]
      /\ conn'[k].pc = p /\ conn'[k].server = conn[k].server
  BY MovesFacts
<1>2. \A s : Served(s)' = Served(s)
  BY <1>1 DEF Served
<1>3. CountIsClients'
  BY <1>2, Counts DEF UiInv, Served, CountIsClients
<1>4. Placed'
  BY <1>1 DEF UiInv, Placed
<1>5. GenBound'
  BY <1>1 DEF UiInv, GenBound
<1>6. NobodySince'
  BY <1>1 DEF UiInv, NobodySince
<1> QED
  BY <1>3, <1>4, <1>5, <1>6 DEF UiInv

LEMMA UiStill ==
  ASSUME UiInv, UNCHANGED <<conn, active, generation>>
  PROVE  UiInv'
BY DEF UiInv, Placed, GenBound, NobodySince, CountIsClients

-----------------------------------------------------------------------------
(* The steps of a connection, one by one.                                  *)
LEMMA AcceptStep ==
  ASSUME TypeOK, UiInv, NEW k \in Connections, Accept(k)
  PROVE  UiInv'
<1>1. PICK s \in Servers :
        conn' = [conn EXCEPT ![k] = [pc |-> "accepted", server |-> s, gen |-> 0]]
  BY DEF Accept
<1>2. /\ \A j \in Connections : j # k => conn'[j] = conn[j]
      /\ conn'[k].pc = "accepted" /\ conn'[k].server = s
      /\ conn[k].pc = "unborn"
      /\ UNCHANGED <<active, generation>>
  BY <1>1 DEF Accept, TypeOK
<1>3. \A r : Served(r)' = Served(r)
  BY <1>2 DEF Served
<1>4. CountIsClients'
  BY <1>2, <1>3, Counts DEF UiInv, Served, CountIsClients
<1>5. Placed'
  BY <1>2 DEF UiInv, Placed
<1>6. GenBound'
  BY <1>2 DEF UiInv, GenBound
<1>7. NobodySince'
  BY <1>2 DEF UiInv, NobodySince
<1> QED
  BY <1>4, <1>5, <1>6, <1>7 DEF UiInv

(* The count moves with the set it counts.                                 *)
LEMMA HandshakeStep ==
  ASSUME TypeOK, UiInv, NEW k \in Connections, Handshake(k)
  PROVE  UiInv'
<1>1. CASE Moves(k, "gone") /\ UNCHANGED active
  BY <1>1, UiFrame DEF Handshake, ConnPcs
<1>2. CASE /\ active' = [active EXCEPT ![conn[k].server] = @ + 1]
           /\ Moves(k, "counted")
  <2> DEFINE r == conn[k].server
  <2>1. /\ \A j \in Connections : j # k => conn'[j] = conn[j]
        /\ conn'[k].pc = "counted" /\ conn'[k].server = r
    BY <1>2, MovesFacts DEF ConnPcs
  <2>2. conn[k].pc = "accepted" /\ r \in Servers /\ UNCHANGED generation
    BY DEF Handshake, UiInv, Placed
  <2>3. Served(r)' = Served(r) \cup {k} /\ k \notin Served(r)
    BY <2>1, <2>2 DEF Served
  <2>4. \A s : s # r => Served(s)' = Served(s)
    BY <2>1, <2>2 DEF Served
  <2>5. Cardinality(Served(r) \cup {k}) = Cardinality(Served(r)) + 1
    BY <2>3, ServedFinite, FS_AddElement
  <2>6. ASSUME NEW s \in Servers
        PROVE  active'[s] = Cardinality(Served(s)')
    <3>1. active[s] = Cardinality(Served(s))
      BY Counts DEF UiInv
    <3>2. CASE s = r
      <4>1. Cardinality(Served(s)') = Cardinality(Served(s)) + 1
        BY <2>1, <2>3, <2>5, <3>2
      <4>2. active'[s] = active[s] + 1
        BY <1>2, <2>2, <3>2 DEF TypeOK
      <4> QED
        BY <3>1, <4>1, <4>2
    <3>3. CASE s # r
      BY <1>2, <2>2, <2>4, <3>1, <3>3 DEF TypeOK
    <3> QED
      BY <3>2, <3>3
  <2>7. CountIsClients'
    BY <2>6 DEF CountIsClients, Served
  <2>8. Placed'
    BY <2>1, <2>2 DEF UiInv, Placed
  <2>9. GenBound'
    BY <2>1, <2>2 DEF UiInv, GenBound
  <2>10. NobodySince'
    BY <2>1, <2>2 DEF UiInv, NobodySince
  <2> QED
    BY <2>7, <2>8, <2>9, <2>10 DEF UiInv
<1> QED
  BY <1>1, <1>2 DEF Handshake

(* A generation begins: no timer remembers it yet.                         *)
LEMMA EnterStep ==
  ASSUME TypeOK, UiInv, NEW k \in Connections, Enter(k)
  PROVE  UiInv'
<1> DEFINE r == conn[k].server
<1>1. /\ \A j \in Connections : j # k => conn'[j] = conn[j]
      /\ conn'[k].pc = "streaming" /\ conn'[k].server = r
  BY MovesFacts DEF Enter, ConnPcs
<1>2. conn[k].pc = "counted" /\ r \in Servers /\ UNCHANGED active
  BY DEF Enter, UiInv, Placed
<1>3. /\ generation'[r] = generation[r] + 1
      /\ \A s \in Servers : s # r => generation'[s] = generation[s]
      /\ \A s \in Servers : generation[s] \in Nat
  BY <1>2 DEF Enter, TypeOK
<1>4. \A j \in Connections : conn[j].gen \in Nat
  BY DEF TypeOK
<1>5. \A s : Served(s)' = Served(s)
  BY <1>1, <1>2 DEF Served
<1>6. CountIsClients'
  BY <1>2, <1>5, Counts DEF UiInv, Served, CountIsClients
<1>7. Placed'
  BY <1>1, <1>2 DEF UiInv, Placed
<1>8. ASSUME NEW j \in Connections, conn'[j].pc \in {"sleep", "awake"}
      PROVE  /\ j # k /\ conn[j].server \in Servers
             /\ conn'[j].gen <= generation'[conn'[j].server]
             /\ conn[j].server = r => conn'[j].gen < generation'[r]
  <2>1. j # k /\ conn'[j] = conn[j] /\ conn[j].server \in Servers
    BY <1>1, <1>8 DEF UiInv, Placed
  <2>2. conn[j].gen <= generation[conn[j].server]
    BY <2>1, <1>8 DEF UiInv, GenBound
  <2>3. CASE conn[j].server = r
    BY <2>1, <2>2, <2>3, <1>2, <1>3, <1>4
  <2>4. CASE conn[j].server # r
    BY <2>1, <2>2, <2>4, <1>3
  <2> QED
    BY <2>1, <2>3, <2>4
<1>9. GenBound'
  BY <1>8 DEF GenBound
<1>10. ASSUME NEW i \in Connections, NEW j \in Connections,
              conn'[j].pc = "awake", conn'[i].server = conn'[j].server,
              conn'[j].gen = generation'[conn'[j].server]
       PROVE  conn'[i].pc # "streaming"
  <2>1. j # k /\ conn'[j] = conn[j] /\ conn[j].server # r /\ conn[j].server \in Servers
    BY <1>1, <1>2, <1>3, <1>4, <1>8, <1>10
  <2>2. i # k /\ conn'[i] = conn[i]
    BY <2>1, <1>1, <1>10
  <2>3. generation[conn[j].server] = conn[j].gen
    BY <2>1, <1>3, <1>10
  <2> QED
    BY <2>1, <2>2, <2>3, <1>10 DEF UiInv, NobodySince
<1>11. NobodySince'
  BY <1>10 DEF NobodySince
<1> QED
  BY <1>6, <1>7, <1>9, <1>11 DEF UiInv

(* A client that leaves was counted, so the count is not zero.             *)
LEMMA LeaveCounts ==
  ASSUME TypeOK, UiInv, NEW k \in Connections,
         conn[k].pc \in {"counted", "streaming"}
  PROVE  /\ conn[k].server \in Servers
         /\ k \in Served(conn[k].server)
         /\ active[conn[k].server] = Cardinality(Served(conn[k].server))
         /\ active[conn[k].server] \in Nat \ {0}
<1>1. conn[k].server \in Servers
  BY DEF UiInv, Placed
<1>2. k \in Served(conn[k].server)
  BY DEF Served
<1>3. active[conn[k].server] = Cardinality(Served(conn[k].server))
  BY <1>1, Counts DEF UiInv
<1>4. Cardinality(Served(conn[k].server)) # 0
  BY <1>2, ServedFinite, FS_EmptySet
<1> QED
  BY <1>1, <1>2, <1>3, <1>4, ServedFinite

LEMMA LeaveStep ==
  ASSUME TypeOK, UiInv, NEW k \in Connections, Leave(k)
  PROVE  UiInv'
<1> DEFINE r == conn[k].server
<1>1. PICK p \in {"left", "gone"} : Moves(k, p)
  BY DEF Leave
<1>2. /\ \A j \in Connections : j # k => conn'[j] = conn[j]
      /\ conn'[k].pc = p /\ conn'[k].server = r
  BY <1>1, MovesFacts DEF ConnPcs
<1>3. /\ conn[k].pc = "streaming" /\ r \in Servers /\ UNCHANGED generation
      /\ active' = [active EXCEPT ![r] = @ - 1]
  BY LeaveCounts DEF Leave
<1>4. Served(r)' = Served(r) \ {k} /\ k \in Served(r)
  BY <1>2, <1>3 DEF Served
<1>5. \A s : s # r => Served(s)' = Served(s)
  BY <1>2, <1>3 DEF Served
<1>6. Cardinality(Served(r) \ {k}) = Cardinality(Served(r)) - 1
  BY <1>4, ServedFinite, FS_RemoveElement
<1>7. ASSUME NEW s \in Servers
      PROVE  active'[s] = Cardinality(Served(s)')
  <2>1. active[s] = Cardinality(Served(s))
    BY Counts DEF UiInv
  <2>2. CASE s = r
    <3>1. Cardinality(Served(s)') = Cardinality(Served(s)) - 1
      BY <1>2, <1>4, <1>6, <2>2
    <3>2. active'[s] = active[s] - 1
      BY <1>3, <2>2 DEF TypeOK
    <3> QED
      BY <2>1, <3>1, <3>2
  <2>3. CASE s # r
    BY <1>3, <1>5, <2>1, <2>3 DEF TypeOK
  <2> QED
    BY <2>2, <2>3
<1>8. CountIsClients'
  BY <1>7 DEF CountIsClients, Served
<1>9. Placed'
  BY <1>2, <1>3 DEF UiInv, Placed
<1>10. GenBound'
  BY <1>2, <1>3 DEF UiInv, GenBound
<1>11. NobodySince'
  BY <1>2, <1>3 DEF UiInv, NobodySince
<1> QED
  BY <1>8, <1>9, <1>10, <1>11 DEF UiInv

(* A timer remembers the generation that its own step begins.              *)
LEMMA ArmStep ==
  ASSUME TypeOK, UiInv, NEW k \in Connections, Arm(k)
  PROVE  UiInv'
<1> DEFINE r == conn[k].server
<1>1. conn[k].pc = "left" /\ r \in Servers /\ UNCHANGED active
  BY DEF Arm, UiInv, Placed
<1>2. /\ generation'[r] = generation[r] + 1
      /\ \A s \in Servers : s # r => generation'[s] = generation[s]
      /\ \A s \in Servers : generation[s] \in Nat
  BY <1>1 DEF Arm, TypeOK
<1>3. /\ \A j \in Connections : j # k => conn'[j] = conn[j]
      /\ conn'[k].pc = "sleep" /\ conn'[k].server = r
      /\ conn'[k].gen = generation'[r]
  BY DEF Arm, TypeOK
<1>4. \A j \in Connections : conn[j].gen \in Nat
  BY DEF TypeOK
<1>5. \A s : Served(s)' = Served(s)
  BY <1>1, <1>3 DEF Served
<1>6. CountIsClients'
  BY <1>1, <1>5, Counts DEF UiInv, Served, CountIsClients
<1>7. Placed'
  BY <1>1, <1>3 DEF UiInv, Placed
<1>8. ASSUME NEW j \in Connections, j # k, conn[j].pc \in {"sleep", "awake"}
      PROVE  /\ conn[j].server \in Servers
             /\ conn[j].gen <= generation'[conn[j].server]
             /\ conn[j].server = r => conn[j].gen < generation'[r]
  <2>1. conn[j].server \in Servers
    BY <1>8 DEF UiInv, Placed
  <2>2. conn[j].gen <= generation[conn[j].server]
    BY <1>8 DEF UiInv, GenBound
  <2>3. CASE conn[j].server = r
    BY <2>1, <2>2, <2>3, <1>2, <1>4
  <2>4. CASE conn[j].server # r
    BY <2>1, <2>2, <2>4, <1>2
  <2> QED
    BY <2>1, <2>3, <2>4
<1>9. ASSUME NEW j \in Connections, conn'[j].pc \in {"sleep", "awake"}
      PROVE  conn'[j].gen <= generation'[conn'[j].server]
  <2>1. CASE j = k
    BY <1>1, <1>2, <1>3, <2>1
  <2>2. CASE j # k
    BY <1>3, <1>8, <1>9, <2>2
  <2> QED
    BY <2>1, <2>2
<1>10. GenBound'
  BY <1>9 DEF GenBound
<1>11. ASSUME NEW i \in Connections, NEW j \in Connections,
              conn'[j].pc = "awake", conn'[i].server = conn'[j].server,
              conn'[j].gen = generation'[conn'[j].server]
       PROVE  conn'[i].pc # "streaming"
  <2>1. j # k /\ conn'[j] = conn[j]
    BY <1>3, <1>11
  <2>2. conn[j].server \in Servers /\ conn[j].server # r
    BY <2>1, <1>2, <1>4, <1>8, <1>11
  <2>3. i # k /\ conn'[i] = conn[i]
    BY <2>1, <2>2, <1>3, <1>11
  <2>4. generation[conn[j].server] = conn[j].gen
    BY <2>1, <2>2, <1>2, <1>11
  <2> QED
    BY <2>1, <2>3, <2>4, <1>11 DEF UiInv, NobodySince
<1>12. NobodySince'
  BY <1>11 DEF NobodySince
<1> QED
  BY <1>6, <1>7, <1>10, <1>12 DEF UiInv

(* A timer that finds the count at zero finds nobody streaming.            *)
LEMMA WakeStep ==
  ASSUME TypeOK, UiInv, NEW k \in Connections, Wake(k)
  PROVE  UiInv'
<1>1. CASE Moves(k, "gone")
  BY <1>1, UiFrame DEF Wake, ConnPcs
<1>2. CASE active[conn[k].server] = 0 /\ Moves(k, "awake")
  <2>1. conn[k].pc = "sleep" /\ UNCHANGED <<active, generation>>
    BY DEF Wake
  <2>2. /\ \A j \in Connections : j # k => conn'[j] = conn[j]
        /\ conn'[k].pc = "awake" /\ conn'[k].server = conn[k].server
        /\ conn'[k].gen = conn[k].gen
    BY <1>2, MovesFacts DEF ConnPcs
  <2>3. \A j \in Connections :
          conn[j].server = conn[k].server => conn[j].pc # "streaming"
    BY <1>2, LeaveCounts
  <2>4. \A s : Served(s)' = Served(s)
    BY <2>1, <2>2 DEF Served
  <2>5. CountIsClients'
    BY <2>1, <2>4, Counts DEF UiInv, Served, CountIsClients
  <2>6. Placed'
    BY <2>1, <2>2 DEF UiInv, Placed
  <2>7. GenBound'
    BY <2>1, <2>2 DEF UiInv, GenBound
  <2>8. NobodySince'
    BY <2>1, <2>2, <2>3 DEF UiInv, NobodySince
  <2> QED
    BY <2>5, <2>6, <2>7, <2>8 DEF UiInv
<1> QED
  BY <1>1, <1>2 DEF Wake

LEMMA EndOfTimerStep ==
  ASSUME TypeOK, UiInv, NEW k \in Connections, SameGeneration(k) \/ TimerStop(k)
  PROVE  UiInv'
<1>1. CASE SameGeneration(k)
  <2>1. PICK p \in {"stopping", "gone"} : Moves(k, p)
    BY <1>1 DEF SameGeneration
  <2> QED
    BY <1>1, <2>1, UiFrame DEF SameGeneration, ConnPcs
<1>2. CASE TimerStop(k)
  BY <1>2, UiFrame DEF TimerStop, ConnPcs
<1> QED
  BY <1>1, <1>2

(* All the steps of a connection, and that the others leave it alone.      *)
ConnAction(k) ==
  \/ Accept(k) \/ Handshake(k) \/ Enter(k) \/ Leave(k) \/ Arm(k) \/ Wake(k)
  \/ SameGeneration(k) \/ TimerStop(k)

LEMMA ConnOrStill ==
  ASSUME [Next]_vars
  PROVE  \/ \E k \in Connections : ConnAction(k)
         \/ UNCHANGED <<conn, active, generation>>
<1>1. CASE \E s \in Servers : ServerStep(s)
  BY <1>1 DEF ServerStep, Bind, ServerStop
<1>2. CASE \E k \in Connections : ConnStep(k)
  BY <1>2 DEF ConnStep, ConnAction
<1>3. CASE \E h \in Handlers : HandlerStep(h)
  BY <1>3 DEF HandlerStep, ReadStop, PoweroffStop, Reply
<1>4. CASE SupervisorStep
  BY <1>4 DEF SupervisorStep, ControlStop, WorkerJoined, ServerJoined, Exit
<1>5. CASE Environment
  BY <1>5 DEF Environment, CtrlC, ControlAccept, AllowUi, DisallowUi, Poweroff,
              ConnAction
<1>6. CASE Exited \/ UNCHANGED vars
  BY <1>6 DEF Exited, vars
<1> QED
  BY <1>1, <1>2, <1>3, <1>4, <1>5, <1>6 DEF Next

LEMMA UiStep == TypeOK /\ UiInv /\ [Next]_vars => UiInv'
<1> SUFFICES ASSUME TypeOK, UiInv, [Next]_vars PROVE UiInv'
  OBVIOUS
<1>1. CASE UNCHANGED <<conn, active, generation>>
  BY <1>1, UiStill
<1>2. CASE \E k \in Connections : ConnAction(k)
  <2>1. PICK k \in Connections : ConnAction(k)
    BY <1>2
  <2>2. CASE Accept(k)
    BY <2>2, AcceptStep
  <2>3. CASE Handshake(k)
    BY <2>3, HandshakeStep
  <2>4. CASE Enter(k)
    BY <2>4, EnterStep
  <2>5. CASE Leave(k)
    BY <2>5, LeaveStep
  <2>6. CASE Arm(k)
    BY <2>6, ArmStep
  <2>7. CASE Wake(k)
    BY <2>7, WakeStep
  <2>8. CASE SameGeneration(k) \/ TimerStop(k)
    BY <2>8, EndOfTimerStep
  <2> QED
    BY <2>1, <2>2, <2>3, <2>4, <2>5, <2>6, <2>7, <2>8 DEF ConnAction
<1> QED
  BY <1>1, <1>2, ConnOrStill

-----------------------------------------------------------------------------
(***************************************************************************)
(* The slot.  Every step leaves it and the servers alone, or takes the     *)
(* server in it, or puts a new server into an empty slot, or moves a       *)
(* server on that was started before.                                      *)
(***************************************************************************)
Fills(s) ==
  /\ slot = 0 /\ server[s] = "unborn"
  /\ slot' = s /\ server' = [server EXCEPT ![s] = "spawned"]
  /\ UNCHANGED cancelled

ServerMoves(s) ==
  /\ server[s] # "unborn"
  /\ \E pc \in {"listening", "ended"} : server' = [server EXCEPT ![s] = pc]
  /\ UNCHANGED <<slot, cancelled>>

SlotStep ==
  \/ UNCHANGED <<slot, server, cancelled>>
  \/ TakeServer /\ UNCHANGED server
  \/ \E s \in Servers : Fills(s) \/ ServerMoves(s)

LEMMA SlotSteps == [Next]_vars => SlotStep
<1> SUFFICES ASSUME [Next]_vars PROVE SlotStep
  OBVIOUS
<1>1. CASE \E s \in Servers : ServerStep(s)
  <2>1. PICK s \in Servers : Bind(s) \/ ServerStop(s)
    BY <1>1 DEF ServerStep
  <2>2. CASE Bind(s)
    BY <2>2 DEF Bind, SlotStep, ServerMoves
  <2>3. CASE ServerStop(s)
    BY <2>3 DEF ServerStop, SlotStep, ServerMoves
  <2> QED
    BY <2>1, <2>2, <2>3
<1>2. CASE \E k \in Connections : ConnStep(k)
  BY <1>2 DEF ConnStep, Handshake, Enter, Leave, Arm, Wake, SameGeneration,
              TimerStop, SlotStep
<1>3. CASE \E h \in Handlers : HandlerStep(h)
  BY <1>3 DEF HandlerStep, ReadStop, PoweroffStop, Reply, SlotStep
<1>4. CASE SupervisorStep
  BY <1>4 DEF SupervisorStep, ControlStop, WorkerJoined, ServerJoined, Exit, SlotStep
<1>5. CASE Environment
  <2>1. CASE CtrlC \/ \E k \in Connections : Accept(k) \/ Leave(k)
    BY <2>1 DEF CtrlC, Accept, Leave, SlotStep
  <2>2. CASE \E h \in Handlers : ControlAccept(h) \/ DisallowUi(h) \/ Poweroff(h)
    BY <2>2 DEF ControlAccept, DisallowUi, Poweroff, SlotStep
  <2>3. CASE \E h \in Handlers : AllowUi(h)
    BY <2>3 DEF AllowUi, SlotStep, Fills
  <2> QED
    BY <1>5, <2>1, <2>2, <2>3 DEF Environment
<1>6. CASE Exited \/ UNCHANGED vars
  BY <1>6 DEF Exited, vars, SlotStep
<1> QED
  BY <1>1, <1>2, <1>3, <1>4, <1>5, <1>6 DEF Next

LEMMA SlotType ==
  ASSUME TypeOK, SlotStep
  PROVE  /\ slot' \in 0..MaxServers
         /\ server' \in [Servers -> {"unborn", "spawned", "listening", "ended"}]
         /\ cancelled' \in SUBSET Servers
<1>1. CASE UNCHANGED <<slot, server, cancelled>>
  BY <1>1 DEF TypeOK
<1>2. CASE TakeServer /\ UNCHANGED server
  BY <1>2, UiServerAssumption DEF TypeOK, TakeServer, Servers
<1>3. CASE \E s \in Servers : Fills(s)
  BY <1>3 DEF TypeOK, Fills, Servers
<1>4. CASE \E s \in Servers : ServerMoves(s)
  BY <1>4 DEF TypeOK, ServerMoves
<1> QED
  BY <1>1, <1>2, <1>3, <1>4 DEF SlotStep

LEMMA NoOrphanStep == TypeOK /\ NoOrphan /\ [Next]_vars => NoOrphan'
<1> SUFFICES ASSUME TypeOK, NoOrphan, SlotStep PROVE NoOrphan'
  BY SlotSteps
<1>1. CASE UNCHANGED <<slot, server, cancelled>>
  BY <1>1 DEF NoOrphan
<1>2. CASE TakeServer /\ UNCHANGED server
  BY <1>2 DEF NoOrphan, TakeServer, Servers
<1>3. CASE \E s \in Servers : Fills(s)
  BY <1>3 DEF NoOrphan, TypeOK, Fills, Servers
<1>4. CASE \E s \in Servers : ServerMoves(s)
  BY <1>4 DEF NoOrphan, TypeOK, ServerMoves
<1> QED
  BY <1>1, <1>2, <1>3, <1>4 DEF SlotStep

-----------------------------------------------------------------------------
(* Types.  The clients' part needs that a client which leaves was counted. *)
LEMMA ConnType ==
  ASSUME TypeOK, UiInv, [Next]_vars
  PROVE  /\ active' \in [Servers -> Nat] /\ generation' \in [Servers -> Nat]
         /\ conn' \in [Connections ->
                         [pc : ConnPcs, server : 0..MaxServers, gen : Nat]]
<1>1. CASE UNCHANGED <<conn, active, generation>>
  BY <1>1 DEF TypeOK, ConnPcs
<1>2. CASE \E k \in Connections : ConnAction(k)
  <2>1. PICK k \in Connections : ConnAction(k)
    BY <1>2
  <2>2. CASE Accept(k)
    BY <2>2 DEF Accept, TypeOK, ConnPcs, Servers
  <2>3. CASE Handshake(k)
    <3>1. active' \in [Servers -> Nat] /\ UNCHANGED generation
      BY <2>3 DEF Handshake, TypeOK
    <3>2. PICK p \in ConnPcs : Moves(k, p)
      BY <2>3 DEF Handshake, ConnPcs
    <3> QED
      BY <3>1, <3>2, MovesFacts DEF TypeOK
  <2>4. CASE Enter(k)
    <3>1. conn[k].server \in Servers
      BY <2>4 DEF Enter, UiInv, Placed
    <3>2. generation[conn[k].server] + 1 \in Nat
      BY <3>1 DEF TypeOK
    <3>3. generation' \in [Servers -> Nat] /\ UNCHANGED active
      BY <2>4, <3>2 DEF Enter, TypeOK
    <3> QED
      BY <2>4, <3>3, MovesFacts DEF Enter, TypeOK, ConnPcs
  <2>5. CASE Leave(k)
    <3>1. active[conn[k].server] - 1 \in Nat
      BY <2>5, LeaveCounts DEF Leave
    <3>2. active' \in [Servers -> Nat] /\ UNCHANGED generation
      BY <2>5, <3>1 DEF Leave, TypeOK
    <3>3. PICK p \in ConnPcs : Moves(k, p)
      BY <2>5 DEF Leave, ConnPcs
    <3> QED
      BY <3>2, <3>3, MovesFacts DEF TypeOK
  <2>6. CASE Arm(k)
    <3>1. conn[k].server \in Servers
      BY <2>6 DEF Arm, UiInv, Placed
    <3>2. generation[conn[k].server] + 1 \in Nat
      BY <3>1 DEF TypeOK
    <3>3. generation' \in [Servers -> Nat] /\ UNCHANGED active
      BY <2>6, <3>2 DEF Arm, TypeOK
    <3>4. PICK g \in Nat :
            conn' = [conn EXCEPT ![k].pc = "sleep", ![k].gen = g]
      BY <2>6, <3>1, <3>3 DEF Arm
    <3>5. conn' \in [Connections ->
                    [pc : ConnPcs, server : 0..MaxServers, gen : Nat]]
      <4>1. conn[k] \in [pc : ConnPcs, server : 0..MaxServers, gen : Nat]
        BY DEF TypeOK, ConnPcs
      <4>2. [conn[k] EXCEPT !.pc = "sleep", !.gen = g] \in
               [pc : ConnPcs, server : 0..MaxServers, gen : Nat]
        BY <4>1 DEF ConnPcs
      <4>3. conn' = [conn EXCEPT ![k] = [conn[k] EXCEPT !.pc = "sleep", !.gen = g]]
        BY <3>4 DEF TypeOK
      <4> QED
        BY <4>2, <4>3 DEF TypeOK, ConnPcs
    <3> QED
      BY <3>3, <3>5 DEF TypeOK
  <2>7. CASE Wake(k) \/ SameGeneration(k) \/ TimerStop(k)
    <3>1. UNCHANGED <<active, generation>>
      BY <2>7 DEF Wake, SameGeneration, TimerStop
    <3>2. PICK p \in ConnPcs : Moves(k, p)
      BY <2>7 DEF Wake, SameGeneration, TimerStop, ConnPcs
    <3> QED
      BY <3>1, <3>2, MovesFacts DEF TypeOK
  <2> QED
    BY <2>1, <2>2, <2>3, <2>4, <2>5, <2>6, <2>7 DEF ConnAction
<1> QED
  BY <1>1, <1>2, ConnOrStill

HandlerPcs == {"idle", "reading", "poweroff", "joining"}
SupervisorPcs == {"running", "joinServer", "joinControl", "exited"}

(* What a step makes of the tasks that stop the server.                    *)
ControlStep ==
  /\ \/ UNCHANGED handler
     \/ \E h \in Handlers, pc \in HandlerPcs, v \in {0, slot} : HandlerMoves(h, pc, v)
  /\ control' \in {control, "stopped"}
  /\ \/ UNCHANGED supervisor
     \/ \E pc \in SupervisorPcs, v \in {0, slot} : supervisor' = At(pc, v)
  /\ shutdown' \in {shutdown, TRUE}

LEMMA ControlSteps == [Next]_vars => ControlStep
<1> SUFFICES ASSUME [Next]_vars PROVE ControlStep
  OBVIOUS
<1> USE DEF HandlerPcs, SupervisorPcs
<1>1. CASE \E s \in Servers : ServerStep(s)
  BY <1>1 DEF ServerStep, Bind, ServerStop, ControlStep
<1>2. CASE \E k \in Connections : ConnStep(k)
  BY <1>2 DEF ConnStep, Handshake, Enter, Leave, Arm, Wake, SameGeneration,
              TimerStop, ControlStep
<1>3. CASE \E h \in Handlers : HandlerStep(h)
  BY <1>3 DEF HandlerStep, ReadStop, PoweroffStop, Reply, ControlStep
<1>4. CASE SupervisorStep
  BY <1>4 DEF SupervisorStep, ControlStop, WorkerJoined, ServerJoined, Exit, ControlStep
<1>5. CASE Environment
  <2>1. CASE CtrlC \/ \E k \in Connections : Accept(k) \/ Leave(k)
    BY <2>1 DEF CtrlC, Accept, Leave, ControlStep
  <2>2. CASE \E h \in Handlers : ControlAccept(h) \/ AllowUi(h) \/ DisallowUi(h)
    BY <2>2 DEF ControlAccept, AllowUi, DisallowUi, ControlStep
  <2>3. CASE \E h \in Handlers : Poweroff(h)
    BY <2>3 DEF Poweroff, ControlStep
  <2> QED
    BY <1>5, <2>1, <2>2, <2>3 DEF Environment
<1>6. CASE Exited \/ UNCHANGED vars
  BY <1>6 DEF Exited, vars, ControlStep
<1> QED
  BY <1>1, <1>2, <1>3, <1>4, <1>5, <1>6 DEF Next

LEMMA ControlType ==
  ASSUME TypeOK, ControlStep
  PROVE  /\ handler' \in [Handlers -> [pc : HandlerPcs, server : 0..MaxServers]]
         /\ control' \in {"accepting", "stopped"}
         /\ supervisor' \in [pc : SupervisorPcs, server : 0..MaxServers]
         /\ shutdown' \in BOOLEAN
<1>1. {0, slot} \subseteq 0..MaxServers
  BY UiServerAssumption DEF TypeOK
<1>2. handler' \in [Handlers -> [pc : HandlerPcs, server : 0..MaxServers]]
  BY <1>1 DEF TypeOK, ControlStep, HandlerMoves, At, HandlerPcs
<1>3. control' \in {"accepting", "stopped"} /\ shutdown' \in BOOLEAN
  BY DEF TypeOK, ControlStep
<1>4. supervisor' \in [pc : SupervisorPcs, server : 0..MaxServers]
  BY <1>1 DEF TypeOK, ControlStep, At, SupervisorPcs
<1> QED
  BY <1>2, <1>3, <1>4

LEMMA TypeStep == TypeOK /\ UiInv /\ [Next]_vars => TypeOK'
<1> SUFFICES ASSUME TypeOK, UiInv, [Next]_vars PROVE TypeOK'
  OBVIOUS
<1>1. /\ slot' \in 0..MaxServers
      /\ server' \in [Servers -> {"unborn", "spawned", "listening", "ended"}]
      /\ cancelled' \in SUBSET Servers
  BY SlotSteps, SlotType
<1>2. /\ handler' \in [Handlers -> [pc : HandlerPcs, server : 0..MaxServers]]
      /\ control' \in {"accepting", "stopped"}
      /\ supervisor' \in [pc : SupervisorPcs, server : 0..MaxServers]
      /\ shutdown' \in BOOLEAN
  BY ControlSteps, ControlType
<1>3. /\ active' \in [Servers -> Nat] /\ generation' \in [Servers -> Nat]
      /\ conn' \in [Connections ->
                      [pc : ConnPcs, server : 0..MaxServers, gen : Nat]]
  BY ConnType
<1> QED
  BY <1>1, <1>2, <1>3 DEF TypeOK, ConnPcs, HandlerPcs, SupervisorPcs

-----------------------------------------------------------------------------
(* Only a timer's own look at the generation makes it decide to stop.      *)
LEMMA LastTimerStep ==
  ASSUME TypeOK, UiInv, [Next]_vars,
         NEW k \in Connections, conn[k].pc = "awake", conn'[k].pc = "stopping",
         NEW j \in Connections \ {k}, conn[j].server = conn[k].server
  PROVE  ~ \/ conn[j].pc = "streaming"
           \/ conn[j].pc \in {"sleep", "awake"} /\ conn[j].gen > conn[k].gen
<1>1. PICK i \in Connections : ConnAction(i)
  BY ConnOrStill
<1>2. \A m \in Connections : m # i => conn'[m] = conn[m]
  BY <1>1 DEF ConnAction, Accept, Handshake, Enter, Leave, Arm, Wake,
              SameGeneration, TimerStop, Moves, TypeOK
<1>3. i = k
  BY <1>2
<1>4. SameGeneration(k)
  BY <1>1, <1>3 DEF ConnAction, Accept, Handshake, Enter, Leave, Arm, Wake, TimerStop
<1>5. generation[conn[k].server] = conn[k].gen
  BY <1>4, MovesFacts DEF SameGeneration, ConnPcs
<1>6. conn[j].pc # "streaming"
  BY <1>5 DEF UiInv, NobodySince
<1>7. conn[j].pc \in {"sleep", "awake"} => conn[j].gen <= conn[k].gen
  BY <1>5 DEF UiInv, GenBound
<1>8. conn[j].gen \in Nat /\ conn[k].gen \in Nat
  BY DEF TypeOK
<1> QED
  BY <1>6, <1>7, <1>8

-----------------------------------------------------------------------------
LEMMA UiInvariant == Spec => [](TypeOK /\ UiInv)
<1>1. Init => TypeOK /\ UiInv
  BY TypeInit, UiInit
<1>2. (TypeOK /\ UiInv) /\ [Next]_vars => (TypeOK /\ UiInv)'
  BY TypeStep, UiStep
<1> QED
  BY <1>1, <1>2, PTL DEF Spec

(***************************************************************************)
(* The state of the control plane stays well typed for any bounds; in      *)
(* particular no client count goes below zero.                             *)
(***************************************************************************)
THEOREM TypeCorrect == Spec => []TypeOK
BY UiInvariant, PTL

(***************************************************************************)
(* AllowUi, DisallowUi, Poweroff, the idle timers and the supervisor write *)
(* the slot in any order, and no started server escapes from it untold.    *)
(***************************************************************************)
THEOREM NoOrphanAlways == Spec => []NoOrphan
<1>1. Init => NoOrphan
  BY DEF Init, NoOrphan
<1> QED
  BY <1>1, NoOrphanStep, UiInvariant, PTL DEF Spec

(***************************************************************************)
(* serve_ui_client counts a client out on every way on which it counted    *)
(* one in, and on no other.                                                *)
(***************************************************************************)
THEOREM CountIsClientsAlways == Spec => []CountIsClients
<1>1. UiInv => CountIsClients
  BY DEF UiInv
<1> QED
  BY <1>1, UiInvariant, PTL

(***************************************************************************)
(* Two looks of an idle timer, at the count and later at the generation,   *)
(* are enough: nobody has come in between, and no later timer is to fire.  *)
(***************************************************************************)
THEOREM OnlyLastTimerStopsAlways == Spec => OnlyLastTimerStops
<1> DEFINE Last ==
      \A k \in Connections :
        conn[k].pc = "awake" /\ conn'[k].pc = "stopping" =>
          \A j \in Connections \ {k} : conn[j].server = conn[k].server =>
            ~ \/ conn[j].pc = "streaming"
              \/ conn[j].pc \in {"sleep", "awake"} /\ conn[j].gen > conn[k].gen
<1>1. (TypeOK /\ UiInv) /\ [Next]_vars => Last
  BY LastTimerStep
<1> HIDE DEF Last
<1>2. (TypeOK /\ UiInv) /\ [Next]_vars => [Last]_vars
  BY <1>1
<1>3. Spec => [][Last]_vars
  BY <1>2, UiInvariant, PTL DEF Spec
<1> QED
  BY <1>3 DEF Last, OnlyLastTimerStops

-----------------------------------------------------------------------------
(***************************************************************************)
(* No timer is lost.  A timer of a server that nobody is counted at: about *)
(* to be armed, running with the present generation, or about to stop.     *)
(***************************************************************************)
TimerOf(k, s) ==
  /\ conn[k].server = s
  /\ \/ conn[k].pc \in {"left", "stopping"}
     \/ conn[k].pc \in {"sleep", "awake"} /\ conn[k].gen = generation[s]

Abandoned(s) == generation[s] > 0 /\ active[s] = 0 /\ s \notin cancelled

TimerDue == \A s \in Servers : Abandoned(s) => \E k \in Connections : TimerOf(k, s)

(* A connection is one to a server that was started.                       *)
Begun == \A k \in Connections : conn[k].pc # "unborn" => server[conn[k].server] # "unborn"

(* No server is ever unborn again, or no longer cancelled.                 *)
LEMMA SlotOnward ==
  ASSUME TypeOK, [Next]_vars
  PROVE  /\ \A s \in Servers : server[s] # "unborn" => server'[s] # "unborn"
         /\ cancelled \subseteq cancelled'
<1>1. SlotStep
  BY SlotSteps
<1>2. CASE UNCHANGED <<slot, server, cancelled>> \/ (TakeServer /\ UNCHANGED server)
  BY <1>2 DEF TakeServer
<1>3. CASE \E s \in Servers : Fills(s) \/ ServerMoves(s)
  BY <1>3 DEF TypeOK, Fills, ServerMoves
<1> QED
  BY <1>1, <1>2, <1>3 DEF SlotStep

(* A step of a connection concerns no other and leaves it at its server.   *)
LEMMA ConnActionFacts ==
  ASSUME TypeOK, NEW k \in Connections, ConnAction(k)
  PROVE  /\ \A j \in Connections : j # k => conn'[j] = conn[j]
         /\ \/ conn[k].pc # "unborn" /\ conn'[k].server = conn[k].server
            \/ conn'[k].server \in Servers /\ server[conn'[k].server] = "listening"
<1>1. CASE Accept(k)
  <2>1. PICK s \in Servers :
          /\ server[s] = "listening"
          /\ conn' = [conn EXCEPT ![k] = [pc |-> "accepted", server |-> s, gen |-> 0]]
    BY <1>1 DEF Accept
  <2> QED
    BY <2>1 DEF TypeOK
<1>2. CASE Arm(k)
  <2>1. PICK g : conn' = [conn EXCEPT ![k].pc = "sleep", ![k].gen = g]
    BY <1>2 DEF Arm
  <2> QED
    BY <1>2, <2>1 DEF Arm, TypeOK
<1>3. CASE Handshake(k) \/ Enter(k) \/ Leave(k) \/ Wake(k) \/ SameGeneration(k) \/ TimerStop(k)
  <2>1. conn[k].pc # "unborn" /\ \E p \in ConnPcs : Moves(k, p)
    BY <1>3 DEF Handshake, Enter, Leave, Wake, SameGeneration, TimerStop, ConnPcs
  <2> QED
    BY <2>1, MovesFacts
<1> QED
  BY <1>1, <1>2, <1>3 DEF ConnAction

LEMMA BegunStep ==
  ASSUME TypeOK, UiInv, Begun, [Next]_vars
  PROVE  Begun'
<1>1. \A s \in Servers : server[s] # "unborn" => server'[s] # "unborn"
  BY SlotOnward
<1>2. \A j \in Connections :
        conn[j].pc # "unborn" => /\ conn[j].server \in Servers
                                 /\ server'[conn[j].server] # "unborn"
  BY <1>1 DEF Begun, UiInv, Placed
<1>3. CASE UNCHANGED <<conn, active, generation>>
  BY <1>2, <1>3 DEF Begun
<1>4. CASE \E k \in Connections : ConnAction(k)
  <2>1. PICK k \in Connections : ConnAction(k)
    BY <1>4
  <2>2. \A j \in Connections : j # k => conn'[j] = conn[j]
    BY <2>1, ConnActionFacts
  <2>3. server'[conn'[k].server] # "unborn"
    BY <1>1, <1>2, <2>1, ConnActionFacts
  <2> QED
    BY <1>2, <2>2, <2>3 DEF Begun
<1> QED
  BY <1>3, <1>4, ConnOrStill

(* A timer that is due stays due while its server's generation does, ...   *)
LEMMA TimerKept ==
  ASSUME NEW j \in Connections, NEW s \in Servers, TimerOf(j, s),
         conn'[j] = conn[j],
         conn[j].pc \in {"left", "stopping"} \/ generation'[s] = generation[s]
  PROVE  TimerOf(j, s)'
BY DEF TimerOf

(* ... so that a step which is not the timer's own disturbs it only if it  *)
(* begins a new generation.                                                *)
LEMMA DueOthers ==
  ASSUME TypeOK, TimerDue, NEW s \in Servers, Abandoned(s),
         NEW k \in Connections, ~TimerOf(k, s),
         \A j \in Connections : j # k => conn'[j] = conn[j],
         generation'[s] = generation[s]
  PROVE  \E j \in Connections : TimerOf(j, s)'
<1>1. PICK j \in Connections : TimerOf(j, s)
  BY DEF TimerDue
<1>2. j # k /\ conn'[j] = conn[j]
  BY <1>1
<1> QED
  BY <1>1, <1>2, TimerKept

LEMMA DueArm ==
  ASSUME TypeOK, UiInv, TimerDue, NEW k \in Connections, Arm(k),
         cancelled \subseteq cancelled'
  PROVE  TimerDue'
<1>0. PICK r : r = conn[k].server
  OBVIOUS
<1>1. conn[k].pc = "left" /\ r \in Servers /\ UNCHANGED active
  BY <1>0 DEF Arm, UiInv, Placed
<1>2. /\ generation'[r] \in Nat
      /\ \A s \in Servers : s # r => generation'[s] = generation[s]
  BY <1>0, <1>1 DEF Arm, TypeOK
<1>3. PICK g : g = generation'[r]
  OBVIOUS
<1>4. conn' = [conn EXCEPT ![k].pc = "sleep", ![k].gen = g]
  BY <1>0, <1>3 DEF Arm
<1>5. /\ conn'[k].pc = "sleep" /\ conn'[k].server = r /\ conn'[k].gen = g
      /\ \A j \in Connections : j # k => conn'[j] = conn[j]
  BY <1>0, <1>4 DEF TypeOK
<1>6. TimerOf(k, r)'
  BY <1>3, <1>5 DEF TimerOf
<1>7. ASSUME NEW s \in Servers, s # r, Abandoned(s)'
      PROVE  \E j \in Connections : TimerOf(j, s)'
  <2>1. Abandoned(s)
    BY <1>1, <1>2, <1>7 DEF Abandoned
  <2>2. ~TimerOf(k, s)
    BY <1>0, <1>7 DEF TimerOf
  <2> QED
    BY <1>2, <1>5, <1>7, <2>1, <2>2, DueOthers
<1> QED
  BY <1>1, <1>6, <1>7 DEF TimerDue

LEMMA DueHandshake ==
  ASSUME TypeOK, UiInv, TimerDue, NEW k \in Connections, Handshake(k) \/ Accept(k)
  PROVE  TimerDue'
<1>1. /\ conn[k].pc \in {"unborn", "accepted"}
      /\ \A j \in Connections : j # k => conn'[j] = conn[j]
  BY ConnActionFacts DEF Handshake, Accept, ConnAction
<1>2. UNCHANGED <<generation, cancelled>>
  BY DEF Handshake, Accept
<1>3. ASSUME NEW s \in Servers PROVE active'[s] = 0 => active[s] = 0
  <2>1. active'[s] \in {active[s], active[s] + 1} /\ active[s] \in Nat
    BY DEF Handshake, Accept, TypeOK
  <2> QED
    BY <2>1
<1>4. ASSUME NEW s \in Servers, Abandoned(s)'
      PROVE  \E j \in Connections : TimerOf(j, s)'
  <2>1. Abandoned(s)
    BY <1>2, <1>3, <1>4 DEF Abandoned
  <2>2. ~TimerOf(k, s)
    BY <1>1 DEF TimerOf
  <2> QED
    BY <1>1, <1>2, <2>1, <2>2, DueOthers
<1> QED
  BY <1>4 DEF TimerDue

(* Who enters was counted in: its server is not abandoned.                 *)
LEMMA DueEnter ==
  ASSUME TypeOK, UiInv, TimerDue, NEW k \in Connections, Enter(k)
  PROVE  TimerDue'
<1>0. PICK r : r = conn[k].server
  OBVIOUS
<1>1. /\ conn[k].pc = "counted" /\ r \in Servers
      /\ \A j \in Connections : j # k => conn'[j] = conn[j]
      /\ UNCHANGED <<active, cancelled>>
  BY <1>0, ConnActionFacts DEF Enter, ConnAction, UiInv, Placed
<1>2. \A s \in Servers : s # r => generation'[s] = generation[s]
  BY <1>0, <1>1 DEF Enter, TypeOK
<1>3. active[r] # 0
  <2>1. k \in Served(r) /\ IsFiniteSet(Served(r))
    BY <1>0, <1>1, ServedFinite DEF Served
  <2>2. Cardinality(Served(r)) # 0
    BY <2>1, FS_EmptySet
  <2> QED
    BY <1>1, <2>2, Counts DEF UiInv
<1>4. ASSUME NEW s \in Servers, Abandoned(s)'
      PROVE  \E j \in Connections : TimerOf(j, s)'
  <2>1. s # r
    BY <1>1, <1>3, <1>4 DEF Abandoned
  <2>2. Abandoned(s)
    BY <1>1, <1>2, <1>4, <2>1 DEF Abandoned
  <2>3. ~TimerOf(k, s)
    BY <1>1 DEF TimerOf
  <2> QED
    BY <1>1, <1>2, <2>1, <2>2, <2>3, DueOthers
<1> QED
  BY <1>4 DEF TimerDue

(* The last one out goes on to arm the timer.                              *)
LEMMA DueLeave ==
  ASSUME TypeOK, UiInv, TimerDue, NEW k \in Connections, Leave(k)
  PROVE  TimerDue'
<1>0. PICK r : r = conn[k].server
  OBVIOUS
<1>1. /\ conn[k].pc = "streaming" /\ r \in Servers
      /\ \A j \in Connections : j # k => conn'[j] = conn[j]
      /\ UNCHANGED <<generation, cancelled>>
  BY <1>0, ConnActionFacts DEF Leave, ConnAction, UiInv, Placed
<1>2. /\ \A s \in Servers : s # r => active'[s] = active[s]
      /\ active'[r] = active[r] - 1 /\ active[r] \in Nat
  BY <1>0, <1>1 DEF Leave, TypeOK
<1>3. active[r] = 1 => conn'[k].pc = "left" /\ conn'[k].server = r
  BY <1>0, MovesFacts DEF Leave, ConnPcs
<1>4. active'[r] = 0 => TimerOf(k, r)'
  BY <1>2, <1>3 DEF TimerOf
<1>5. ASSUME NEW s \in Servers, s # r, Abandoned(s)'
      PROVE  \E j \in Connections : TimerOf(j, s)'
  <2>1. Abandoned(s)
    BY <1>1, <1>2, <1>5 DEF Abandoned
  <2>2. ~TimerOf(k, s)
    BY <1>1 DEF TimerOf
  <2> QED
    BY <1>1, <1>5, <2>1, <2>2, DueOthers
<1>6. Abandoned(r)' => \E j \in Connections : TimerOf(j, r)'
  BY <1>4 DEF Abandoned
<1> QED
  BY <1>5, <1>6 DEF TimerDue

(* A timer that wakes up and finds nobody stays one, and so does one that  *)
(* finds its generation; the others were none of an abandoned server.      *)
LEMMA DueWake ==
  ASSUME TypeOK, UiInv, TimerDue, NEW k \in Connections, Wake(k) \/ SameGeneration(k)
  PROVE  TimerDue'
<1>0. PICK r : r = conn[k].server
  OBVIOUS
<1>1. /\ conn[k].pc \in {"sleep", "awake"} /\ r \in Servers
      /\ \A j \in Connections : j # k => conn'[j] = conn[j]
      /\ UNCHANGED <<generation, active, cancelled>>
  BY <1>0, ConnActionFacts DEF Wake, SameGeneration, ConnAction, UiInv, Placed
<1>2. /\ Wake(k) /\ active[r] = 0 => conn'[k] = [conn[k] EXCEPT !.pc = "awake"]
      /\ SameGeneration(k) /\ generation[r] = conn[k].gen
           => conn'[k] = [conn[k] EXCEPT !.pc = "stopping"]
  BY <1>0 DEF Wake, SameGeneration, Moves, TypeOK
<1>3. ASSUME active[r] = 0, TimerOf(k, r) PROVE TimerOf(k, r)'
  <2>1. conn[k].gen = generation[r]
    BY <1>1, <1>3 DEF TimerOf
  <2>2. /\ conn'[k].server = r /\ conn'[k].gen = conn[k].gen
        /\ conn'[k].pc \in {"awake", "stopping"}
    BY <1>0, <1>2, <1>3, <2>1 DEF TypeOK
  <2> QED
    BY <1>1, <2>1, <2>2 DEF TimerOf
<1>4. ASSUME NEW s \in Servers, Abandoned(s)'
      PROVE  \E j \in Connections : TimerOf(j, s)'
  <2>1. Abandoned(s)
    BY <1>1, <1>4 DEF Abandoned
  <2>2. CASE TimerOf(k, s)
    <3>1. s = r /\ active[r] = 0
      BY <1>0, <2>1, <2>2 DEF TimerOf, Abandoned
    <3> QED
      BY <1>3, <2>2, <3>1
  <2>3. CASE ~TimerOf(k, s)
    BY <1>1, <2>1, <2>3, DueOthers
  <2> QED
    BY <2>2, <2>3
<1> QED
  BY <1>4 DEF TimerDue

(* The timer stops what is in the slot, and that is its own server, unless *)
(* this one is cancelled already.                                          *)
LEMMA DueTimerStop ==
  ASSUME TypeOK, UiInv, NoOrphan, Begun, TimerDue, NEW k \in Connections, TimerStop(k)
  PROVE  TimerDue'
<1>0. PICK r : r = conn[k].server
  OBVIOUS
<1>1. /\ conn[k].pc = "stopping" /\ r \in Servers /\ server[r] # "unborn"
      /\ \A j \in Connections : j # k => conn'[j] = conn[j]
      /\ UNCHANGED <<generation, active>>
  BY <1>0, ConnActionFacts DEF TimerStop, ConnAction, UiInv, Placed, Begun
<1>2. cancelled' = cancelled \cup ({slot} \ {0})
  BY DEF TimerStop, TakeServer
<1>3. r \in cancelled'
  <2>1. r \notin cancelled => slot = r
    BY <1>1 DEF NoOrphan
  <2>2. r # 0
    BY <1>1 DEF Servers
  <2> QED
    BY <1>2, <2>1, <2>2
<1>4. ASSUME NEW s \in Servers, Abandoned(s)'
      PROVE  \E j \in Connections : TimerOf(j, s)'
  <2>1. Abandoned(s) /\ s # r
    BY <1>1, <1>2, <1>3, <1>4 DEF Abandoned
  <2>2. ~TimerOf(k, s)
    BY <1>0, <2>1 DEF TimerOf
  <2> QED
    BY <1>1, <2>1, <2>2, DueOthers
<1> QED
  BY <1>4 DEF TimerDue

LEMMA TimerDueStep ==
  ASSUME TypeOK, UiInv, NoOrphan, Begun, TimerDue, [Next]_vars
  PROVE  TimerDue'
<1>1. cancelled \subseteq cancelled'
  BY SlotOnward
<1>2. CASE UNCHANGED <<conn, active, generation>>
  <2>1. \A s \in Servers : Abandoned(s)' => Abandoned(s)
    BY <1>1, <1>2 DEF Abandoned
  <2>2. \A k \in Connections, s \in Servers : TimerOf(k, s) => TimerOf(k, s)'
    BY <1>2 DEF TimerOf
  <2> QED
    BY <2>1, <2>2 DEF TimerDue
<1>3. CASE \E k \in Connections : ConnAction(k)
  <2>1. PICK k \in Connections : ConnAction(k)
    BY <1>3
  <2>2. CASE Accept(k) \/ Handshake(k)
    BY <2>2, DueHandshake
  <2>3. CASE Enter(k)
    BY <2>3, DueEnter
  <2>4. CASE Leave(k)
    BY <2>4, DueLeave
  <2>5. CASE Arm(k)
    BY <1>1, <2>5, DueArm
  <2>6. CASE Wake(k) \/ SameGeneration(k)
    BY <2>6, DueWake
  <2>7. CASE TimerStop(k)
    BY <2>7, DueTimerStop
  <2> QED
    BY <2>1, <2>2, <2>3, <2>4, <2>5, <2>6, <2>7 DEF ConnAction
<1> QED
  BY <1>2, <1>3, ConnOrStill

(***************************************************************************)
(* A server that had clients, has none and is not being stopped always has *)
(* a timer that will find it so: however clients come and go around a      *)
(* timer that gives way, there is a later one that does not.               *)
(***************************************************************************)
THEOREM TimerDueAlways == Spec => []TimerDue
<1>1. Init => Begun /\ TimerDue
  BY DEF Init, Begun, TimerDue, Abandoned, Unborn
<1>2. (TypeOK /\ UiInv) /\ NoOrphan /\ (Begun /\ TimerDue) /\ [Next]_vars
        => (Begun /\ TimerDue)'
  BY BegunStep, TimerDueStep
<1> QED
  BY <1>1, <1>2, UiInvariant, NoOrphanAlways, PTL DEF Spec
=============================================================================
