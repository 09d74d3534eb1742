----------------------- MODULE HistoricalLane_proofs -----------------------
(***************************************************************************)
(* The historical lane, proved for any capacity and any bounds: its types, *)
(* the order of its log, and that every step of it is a step or a stutter  *)
(* of the outbox.                                                          *)
(***************************************************************************)
EXTENDS HistoricalLane, SequenceTheorems, TLAPS

LEMMA PutInFront ==
  ASSUME NEW S, NEW e \in S, NEW s \in Seq(S)
  PROVE  /\ <<e>> \o s # <<>>
         /\ Head(<<e>> \o s) = e
         /\ Tail(<<e>> \o s) = s
<1> DEFINE t == <<e>> \o s
<1>1. t \in Seq(S) /\ Len(t) = Len(s) + 1 /\ t[1] = e
      /\ \A i \in 1..Len(s) : t[i + 1] = s[i]
  BY ConcatProperties, <<e>> \in Seq(S), Len(<<e>>) = 1, <<e>>[1] = e, LenProperties
<1> HIDE DEF t
<1>2. t # <<>>
  BY <1>1, LenProperties, EmptySeq
<1>3. Head(t) = e
  BY <1>1, <1>2
<1>4. Tail(t) \in Seq(S) /\ Len(Tail(t)) = Len(s)
      /\ \A i \in 1..Len(s) : Tail(t)[i] = s[i]
  BY <1>1, <1>2, HeadTailProperties, LenProperties
<1>5. Tail(t) = s
  BY <1>4, SeqEqual
<1> QED
  BY <1>2, <1>3, <1>5 DEF t

LEMMA TakeFromFront ==
  ASSUME NEW S, NEW s \in Seq(S), s # <<>>
  PROVE  <<Head(s)>> \o Tail(s) = s
<1>1. /\ Head(s) \in S /\ Tail(s) \in Seq(S) /\ Len(s) \in Nat
      /\ Len(Tail(s)) = Len(s) - 1 /\ Head(s) = s[1]
      /\ \A i \in 1..Len(Tail(s)) : Tail(s)[i] = s[i + 1]
  BY HeadTailProperties, LenProperties
<1> PICK e \in S : e = Head(s)
  BY <1>1
<1> PICK u \in Seq(S) : u = Tail(s)
  BY <1>1
<1>2. /\ Len(u) = Len(s) - 1 /\ e = s[1]
      /\ \A i \in 1..Len(u) : u[i] = s[i + 1]
  BY <1>1
<1>3. /\ <<e>> \o u \in Seq(S) /\ Len(<<e>> \o u) = Len(u) + 1
      /\ (<<e>> \o u)[1] = e
      /\ \A i \in 1..Len(u) : (<<e>> \o u)[i + 1] = u[i]
  BY ConcatProperties, <<e>> \in Seq(S), Len(<<e>>) = 1, <<e>>[1] = e, LenProperties
<1> PICK t \in Seq(S) : t = <<e>> \o u
  BY <1>3
<1>4. Len(t) = Len(s)
  BY <1>1, <1>2, <1>3
<1>5. ASSUME NEW i \in 1..Len(s) PROVE t[i] = s[i]
  <2>1. CASE i = 1
    BY <2>1, <1>2, <1>3
  <2>2. CASE i # 1
    <3>1. i - 1 \in 1..Len(u) /\ (i - 1) + 1 = i
      BY <2>2, <1>1, <1>2
    <3>2. t[(i - 1) + 1] = u[i - 1] /\ u[i - 1] = s[(i - 1) + 1]
      BY <3>1, <1>2, <1>3
    <3> QED
      BY <3>1, <3>2
  <2> QED
    BY <2>1, <2>2
<1>6. t = s
  BY <1>4, <1>5, SeqEqual
<1> QED
  BY <1>6

LEMMA AppendBehind ==
  ASSUME NEW S, NEW e \in S, NEW s \in Seq(S), NEW f \in S
  PROVE  <<e>> \o Append(s, f) = Append(<<e>> \o s, f)
<1>1. <<e>> \in Seq(S) /\ <<f>> \in Seq(S)
  OBVIOUS
<1>2. Append(s, f) = s \o <<f>>
  BY <1>1
<1>3. <<e>> \o s \in Seq(S)
  BY <1>1, ConcatProperties
<1>4. Append(<<e>> \o s, f) = (<<e>> \o s) \o <<f>>
  BY <1>3
<1> QED
  BY <1>1, <1>2, <1>4, ConcatAssociative

-----------------------------------------------------------------------------
LEMMA AppendTyped ==
  ASSUME NEW S, NEW s \in Seq(S), NEW e \in S
  PROVE  Append(s, e) \in Seq(S)
OBVIOUS

LEMMA TypeInit == Init => TypeOK
<1> SUFFICES ASSUME Init PROVE TypeOK
  OBVIOUS
<1>1. /\ router = "up" /\ shutdown = FALSE /\ sequence = 0 /\ overflows = 0
      /\ pc = "recv" /\ held = 0 /\ accepted = {} /\ refused = {}
  BY DEF Init
<1>2. queue \in Seq(1..sequence) /\ log \in Seq(1..sequence)
  BY EmptySeq DEF Init
<1>3. held \in 0..sequence /\ sequence \in Nat /\ overflows \in Nat
  BY <1>1
<1>4. accepted \in SUBSET (1..sequence) /\ refused \in SUBSET (1..sequence)
  BY <1>1
<1>5. shutdown \in BOOLEAN
  BY <1>1
<1>6. Holding <=> held # 0
  BY <1>1 DEF Holding
<1> QED
  BY <1>1, <1>2, <1>3, <1>4, <1>5, <1>6 DEF TypeOK

LEMMA TypeStep == TypeOK /\ [Next]_vars => TypeOK'
<1> SUFFICES ASSUME TypeOK, [Next]_vars PROVE TypeOK'
  OBVIOUS
<1> USE DEF TypeOK, Holding
<1>1. CASE TrySendHistorical
  <2>1. sequence' = sequence + 1 /\ sequence' \in Nat /\ 1..sequence \subseteq 1..sequence'
    BY <1>1 DEF TrySendHistorical
  <2>2. queue \in Seq(1..sequence') /\ log \in Seq(1..sequence')
    BY <2>1, SeqMonotonic
  <2>3. queue' \in Seq(1..sequence')
    <3>1. queue' = queue \/ queue' = Append(queue, sequence')
      BY <1>1 DEF TrySendHistorical
    <3>2. sequence' \in 1..sequence'
      BY <2>1
    <3>3. Append(queue, sequence') \in Seq(1..sequence')
      BY <3>2, <2>2, AppendTyped
    <3> QED
      BY <3>1, <3>3, <2>2
  <2> QED
    <3>1. /\ UNCHANGED <<router, shutdown, pc, held, log, refused>>
          /\ overflows' \in {overflows, overflows + 1}
          /\ accepted' \in {accepted, accepted \cup {sequence'}}
      BY <1>1 DEF TrySendHistorical
    <3>2. accepted' \subseteq 1..sequence' /\ refused' \subseteq 1..sequence'
          /\ held' \in 0..sequence'
      BY <2>1, <3>1
    <3> QED
      BY <2>1, <2>2, <2>3, <3>1, <3>2
<1>2. CASE HistEvent
  <2>1. Head(queue) \in 1..sequence /\ Tail(queue) \in Seq(1..sequence)
    BY <1>2, HeadTailProperties DEF HistEvent
  <2> QED
    BY <1>2, <2>1 DEF HistEvent, Actor, Attempt
<1>3. CASE HistDone \/ HistReject \/ HistFail
  <2>1. held \in 1..sequence
    <3>1. held # 0
      BY <1>3 DEF HistDone, HistReject, HistFail
    <3> QED
      BY <3>1
  <2>2. Append(log, held) \in Seq(1..sequence)
    BY <2>1, AppendTyped
  <2>3. log' \in Seq(1..sequence')
    BY <1>3, <2>2 DEF HistDone, HistReject, HistFail
  <2>4. /\ \/ pc' = "recv" /\ held' = 0
           \/ pc' = "backoff" /\ held' = held
        /\ UNCHANGED <<router, shutdown, sequence, queue, overflows, accepted>>
    <3>1. CASE HistDone \/ HistReject
      BY <3>1 DEF HistDone, HistReject, Actor
    <3>2. CASE HistFail
      BY <3>2 DEF HistFail, Actor
    <3> QED
      BY <1>3, <3>1, <3>2
  <2>5. refused' \in SUBSET (1..sequence')
    BY <1>3, <2>1 DEF HistDone, HistReject, HistFail
  <2>6. (pc' \in {"send", "backoff"}) <=> held' # 0
    BY <2>1, <2>4
  <2>7. held' \in 0..sequence' /\ accepted' \in SUBSET (1..sequence')
        /\ queue' \in Seq(1..sequence')
    BY <2>1, <2>4
  <2>8. /\ router' \in {"up", "stopped"} /\ shutdown' \in BOOLEAN
        /\ sequence' \in Nat /\ overflows' \in Nat
        /\ pc' \in {"recv", "send", "backoff", "stopped"}
    BY <2>4
  <2> QED
    BY <2>3, <2>5, <2>6, <2>7, <2>8, Zenon
<1>4. CASE HistRetry \/ HistStop
  <2>1. /\ \/ pc' \in {"recv", "stopped"} /\ held' = 0
           \/ pc' = "send" /\ held' = held /\ held # 0
        /\ UNCHANGED <<router, shutdown, sequence, queue, overflows, log,
                       accepted, refused>>
    <3>1. CASE HistRetry
      BY <3>1 DEF HistRetry, Actor, Attempt
    <3>2. CASE HistStop
      BY <3>2 DEF HistStop, Actor
    <3> QED
      BY <1>4, <3>1, <3>2
  <2>2. (pc' \in {"send", "backoff"}) <=> held' # 0
    BY <2>1
  <2>3. pc' \in {"recv", "send", "backoff", "stopped"} /\ held' \in 0..sequence
    BY <2>1
  <2> QED
    BY <2>1, <2>2, <2>3
<1>5. CASE Shutdown \/ RouterStop \/ Quiescent \/ UNCHANGED vars
  BY <1>5 DEF Shutdown, RouterStop, Quiescent, vars
<1> QED
  BY <1>1, <1>2, <1>3, <1>4, <1>5 DEF Next, ActorStep

(* The lane's state stays well typed. *)
THEOREM TypeCorrect == Spec => []TypeOK
BY TypeInit, TypeStep, PTL DEF Spec

-----------------------------------------------------------------------------
(***************************************************************************)
(* What keeps the log in order: whatever still waits is newer than         *)
(* whatever was written, and what the actor holds lies between the two.    *)
(***************************************************************************)
OrderInv ==
  /\ \A i, j \in 1..Len(queue) : i < j => queue[i] < queue[j]
  /\ \A i, j \in 1..Len(log) : i < j => log[i] <= log[j]
  /\ \A i \in 1..Len(log), j \in 1..Len(queue) : log[i] < queue[j]
  /\ Holding =>
       /\ \A j \in 1..Len(queue) : held < queue[j]
       /\ \A i \in 1..Len(log) : log[i] <= held

LEMMA OrderInit == Init => OrderInv
BY DEF Init, OrderInv, Holding

LEMMA Elements ==
  ASSUME TypeOK
  PROVE  /\ Len(queue) \in Nat /\ \A i \in 1..Len(queue) : queue[i] \in 1..sequence
         /\ Len(log) \in Nat /\ \A i \in 1..Len(log) : log[i] \in 1..sequence
         /\ sequence \in Nat /\ held \in Nat
BY LenProperties, ElementOfSeq DEF TypeOK

LEMMA OrderTrySend == TypeOK /\ OrderInv /\ TrySendHistorical => OrderInv'
<1> SUFFICES ASSUME TypeOK, OrderInv, TrySendHistorical PROVE OrderInv'
  OBVIOUS
<1>1. sequence' = sequence + 1 /\ UNCHANGED <<pc, held, log>>
  BY DEF TrySendHistorical
<1>2. CASE queue' = queue
  BY <1>1, <1>2 DEF OrderInv, Holding
<1>3. CASE queue' = Append(queue, sequence')
  <2>1. /\ Len(queue') = Len(queue) + 1
        /\ \A i \in 1..Len(queue) : queue'[i] = queue[i]
        /\ queue'[Len(queue) + 1] = sequence + 1
    BY <1>1, <1>3, AppendProperties DEF TypeOK
  <2>2. \A j \in 1..Len(queue') : j \in 1..Len(queue) \/ j = Len(queue) + 1
    BY <2>1, Elements
  <2>3. ASSUME NEW i \in 1..Len(queue'), NEW j \in 1..Len(queue'), i < j
        PROVE  queue'[i] < queue'[j]
    <3>1. CASE j \in 1..Len(queue)
      <4>1. i \in 1..Len(queue)
        BY <2>1, <2>3, <3>1, Elements
      <4> QED
        BY <2>1, <2>3, <3>1, <4>1 DEF OrderInv
    <3>2. CASE j = Len(queue) + 1
      <4>1. i \in 1..Len(queue)
        BY <2>2, <2>3, <3>2, Elements
      <4>2. queue'[i] \in 1..sequence /\ queue'[j] = sequence + 1
        BY <2>1, <3>2, <4>1, Elements
      <4> QED
        BY <4>2, Elements
    <3> QED
      BY <2>2, <3>1, <3>2
  <2>4. \A i \in 1..Len(log), j \in 1..Len(queue') : log[i] < queue'[j]
    BY <2>1, <2>2, Elements DEF OrderInv
  <2>5. held < sequence + 1
    BY DEF TypeOK
  <2>6. Holding => \A j \in 1..Len(queue') : held < queue'[j]
    BY <2>1, <2>2, <2>5, Elements DEF OrderInv
  <2> QED
    BY <1>1, <2>3, <2>4, <2>6 DEF OrderInv, Holding
<1> QED
  BY <1>2, <1>3 DEF TrySendHistorical

LEMMA OrderEvent == TypeOK /\ OrderInv /\ HistEvent => OrderInv'
<1> SUFFICES ASSUME TypeOK, OrderInv, HistEvent PROVE OrderInv'
  OBVIOUS
<1>1. /\ queue # <<>> /\ queue' = Tail(queue) /\ UNCHANGED log
      /\ \/ pc' = "send" /\ held' = Head(queue)
         \/ pc' = "recv"
  BY DEF HistEvent, Actor, Attempt
<1>2. /\ Head(queue) = queue[1] /\ Len(queue') = Len(queue) - 1
      /\ \A i \in 1..Len(queue') : queue'[i] = queue[i + 1]
  BY <1>1, HeadTailProperties DEF TypeOK
<1>3. /\ 1 \in 1..Len(queue)
      /\ \A i \in 1..Len(queue') : i + 1 \in 1..Len(queue) /\ 1 < i + 1
  BY <1>1, <1>2, Elements, EmptySeq DEF TypeOK
<1>4. \A i, j \in 1..Len(queue') : i < j => queue'[i] < queue'[j]
  BY <1>2, <1>3 DEF OrderInv
<1>5. \A i \in 1..Len(log), j \in 1..Len(queue') : log[i] < queue'[j]
  BY <1>2, <1>3 DEF OrderInv
<1>6. \A j \in 1..Len(queue') : Head(queue) < queue'[j]
  BY <1>2, <1>3 DEF OrderInv
<1>7. \A i \in 1..Len(log) : log[i] <= Head(queue)
  BY <1>2, <1>3, Elements DEF OrderInv
<1> QED
  BY <1>1, <1>4, <1>5, <1>6, <1>7 DEF OrderInv, Holding

LEMMA OrderPosted ==
  ASSUME TypeOK, OrderInv, Holding, log' = Append(log, held), UNCHANGED queue,
         Holding' => held' = held
  PROVE  OrderInv'
<1>1. held \in 1..sequence
  BY DEF TypeOK, Holding
<1>2. /\ Len(log') = Len(log) + 1
      /\ \A i \in 1..Len(log) : log'[i] = log[i]
      /\ log'[Len(log) + 1] = held
  BY <1>1, AppendProperties DEF TypeOK
<1>3. \A i \in 1..Len(log') : i \in 1..Len(log) \/ i = Len(log) + 1
  BY <1>2, Elements
<1>4. \A i \in 1..Len(log') : log'[i] <= held
  BY <1>1, <1>2, <1>3, Elements DEF OrderInv
<1>5. \A i, j \in 1..Len(log') : i < j => log'[i] <= log'[j]
  BY <1>2, <1>3, <1>4, Elements DEF OrderInv
<1>6. \A i \in 1..Len(log'), j \in 1..Len(queue) : log'[i] < queue[j]
  BY <1>2, <1>3 DEF OrderInv
<1> QED
  BY <1>4, <1>5, <1>6 DEF OrderInv

LEMMA OrderStep == TypeOK /\ OrderInv /\ [Next]_vars => OrderInv'
<1> SUFFICES ASSUME TypeOK, OrderInv, [Next]_vars PROVE OrderInv'
  OBVIOUS
<1>1. CASE TrySendHistorical
  BY <1>1, OrderTrySend
<1>2. CASE HistEvent
  BY <1>2, OrderEvent
<1>3. CASE (HistDone \/ HistFail) /\ log' = Append(log, held)
  <2>1. Holding /\ UNCHANGED queue
    BY <1>3 DEF HistDone, HistFail, Holding
  <2>2. Holding' => held' = held
    BY <1>3 DEF HistDone, HistFail, Holding, Actor
  <2> QED
    BY <1>3, <2>1, <2>2, OrderPosted
<1>4. CASE \/ HistReject \/ HistRetry \/ HistStop
           \/ (HistFail /\ UNCHANGED log)
  <2>1. UNCHANGED <<queue, log>>
    BY <1>4 DEF HistReject, HistFail, HistRetry, HistStop
  <2>2. Holding' => Holding /\ held' = held
    <3>1. CASE HistReject
      BY <3>1 DEF HistReject, Holding, Actor
    <3>2. CASE HistFail
      BY <3>2 DEF HistFail, Holding, Actor
    <3>3. CASE HistRetry
      BY <3>3 DEF HistRetry, Holding, Actor, Attempt
    <3>4. CASE HistStop
      BY <3>4 DEF HistStop, Holding, Actor
    <3> QED
      BY <1>4, <3>1, <3>2, <3>3, <3>4
  <2> QED
    BY <2>1, <2>2 DEF OrderInv
<1>5. CASE Shutdown \/ RouterStop \/ Quiescent \/ UNCHANGED vars
  <2>1. UNCHANGED <<queue, log, pc, held>>
    BY <1>5 DEF Shutdown, RouterStop, Quiescent, vars
  <2> QED
    BY <2>1 DEF OrderInv, Holding
<1>6. CASE HistDone
  <2>1. log' = Append(log, held)
    BY <1>6 DEF HistDone
  <2> QED
    BY <2>1, <1>3, <1>6
<1>7. CASE HistFail
  <2>1. UNCHANGED log \/ log' = Append(log, held)
    BY <1>7 DEF HistFail
  <2> QED
    BY <2>1, <1>3, <1>4, <1>7
<1>8. CASE HistReject \/ HistRetry \/ HistStop
  BY <1>4, <1>8
<1> QED
  BY <1>1, <1>2, <1>5, <1>6, <1>7, <1>8 DEF Next, ActorStep

LEMMA OrderAlways == Spec => []OrderInv
BY OrderInit, OrderStep, TypeCorrect, PTL DEF Spec

(* Whatever is retried, dropped or posted twice, the log stays in the order *)
(* in which the router numbered the events.                                 *)
THEOREM LogInOrderAlways == Spec => []LogInOrder
<1>1. TypeOK /\ OrderInv => LogInOrder
  <2> SUFFICES ASSUME TypeOK, OrderInv PROVE LogInOrder
    OBVIOUS
  <2>1. DOMAIN log = 1..Len(log)
    BY LenProperties DEF TypeOK
  <2> QED
    BY <2>1 DEF OrderInv, LogInOrder
<1> QED
  BY <1>1, TypeCorrect, OrderAlways, PTL

-----------------------------------------------------------------------------
(***************************************************************************)
(* The refinement: what the actor holds is the front of the outbox.        *)
(***************************************************************************)
LEMMA PendingHeld ==
  ASSUME TypeOK, Holding
  PROVE  Pending # <<>> /\ Head(Pending) = held /\ Tail(Pending) = queue
<1>1. held \in 1..sequence /\ queue \in Seq(1..sequence)
  BY DEF TypeOK
<1>2. Pending = <<held>> \o queue
  BY DEF Pending
<1> QED
  BY <1>1, <1>2, PutInFront

LEMMA RefineTrySend ==
  TypeOK /\ TrySendHistorical => Box!Accept \/ UNCHANGED Box!outboxVars
<1> SUFFICES ASSUME TypeOK, TrySendHistorical
             PROVE  Box!Accept \/ UNCHANGED Box!outboxVars
  OBVIOUS
<1>1. UNCHANGED <<shutdown, pc, held, log, refused>>
  BY DEF TrySendHistorical
<1>2. CASE queue' = queue /\ accepted' = accepted
  BY <1>1, <1>2 DEF Box!outboxVars, Pending, Holding
<1>3. CASE /\ queue' = Append(queue, sequence')
           /\ accepted' = accepted \cup {sequence'}
  <2>1. sequence' \in Nat /\ \A t \in accepted : sequence' > t
    BY DEF TypeOK, TrySendHistorical
  <2>2. Pending' = Append(Pending, sequence')
    <3>1. CASE ~Holding
      BY <3>1, <1>1, <1>3 DEF Pending, Holding
    <3>2. CASE Holding
      <4>1. held \in Nat /\ queue \in Seq(Nat)
        BY SeqMonotonic, 1..sequence \subseteq Nat DEF TypeOK
      <4>2. <<held>> \o Append(queue, sequence') = Append(<<held>> \o queue, sequence')
        BY <2>1, <4>1, AppendBehind
      <4> QED
        BY <3>2, <1>1, <1>3, <4>2 DEF Pending, Holding
    <3> QED
      BY <3>1, <3>2
  <2> QED
    BY <1>1, <1>3, <2>1, <2>2 DEF Box!Accept
<1> QED
  BY <1>2, <1>3 DEF TrySendHistorical

LEMMA RefineEvent ==
  TypeOK /\ HistEvent => Box!Abandon \/ UNCHANGED Box!outboxVars
<1> SUFFICES ASSUME TypeOK, HistEvent
             PROVE  Box!Abandon \/ UNCHANGED Box!outboxVars
  OBVIOUS
<1>1. /\ ~Holding /\ queue # <<>> /\ queue' = Tail(queue)
      /\ UNCHANGED <<shutdown, log, accepted, refused>>
  BY DEF HistEvent, Holding
<1>2. CASE shutdown
  <2>1. ~Holding'
    BY <1>2 DEF HistEvent, Actor, Attempt, Holding
  <2> QED
    BY <1>1, <1>2, <2>1 DEF Box!Abandon, Pending
<1>3. CASE ~shutdown
  <2>1. Holding' /\ held' = Head(queue)
    BY <1>3 DEF HistEvent, Actor, Attempt, Holding
  <2>2. Pending' = <<Head(queue)>> \o Tail(queue)
    BY <1>1, <2>1 DEF Pending
  <2>3. Pending' = Pending
    BY <1>1, <2>2, TakeFromFront DEF TypeOK, Pending
  <2> QED
    BY <1>1, <2>3 DEF Box!outboxVars
<1> QED
  BY <1>2, <1>3

LEMMA RefineAnswer ==
  TypeOK /\ (HistDone \/ HistReject \/ HistFail)
    => Box!Write \/ Box!Refuse \/ UNCHANGED Box!outboxVars
<1> SUFFICES ASSUME TypeOK, HistDone \/ HistReject \/ HistFail
             PROVE  Box!Write \/ Box!Refuse \/ UNCHANGED Box!outboxVars
  OBVIOUS
<1>1. Holding
  BY DEF HistDone, HistReject, HistFail, Holding
<1>2. Pending # <<>> /\ Head(Pending) = held /\ Tail(Pending) = queue
  BY <1>1, PendingHeld
<1>3. CASE HistDone
  <2>1. ~Holding' /\ queue' = queue
    BY <1>3 DEF HistDone, Actor, Holding
  <2>2. Pending' = Tail(Pending)
    BY <1>2, <2>1 DEF Pending
  <2> QED
    BY <1>2, <1>3, <2>2 DEF HistDone, Box!Write
<1>4. CASE HistReject
  <2>1. ~Holding' /\ queue' = queue
    BY <1>4 DEF HistReject, Actor, Holding
  <2>2. Pending' = Tail(Pending)
    BY <1>2, <2>1 DEF Pending
  <2> QED
    BY <1>2, <1>4, <2>2 DEF HistReject, Box!Refuse
<1>5. CASE HistFail
  <2>1. Holding' /\ held' = held /\ queue' = queue
    BY <1>5 DEF HistFail, Actor, Holding
  <2>2. Pending' = Pending
    BY <1>1, <2>1 DEF Pending
  <2>3. /\ UNCHANGED <<shutdown, accepted, refused>>
        /\ UNCHANGED log \/ log' = Append(log, held)
    BY <1>5 DEF HistFail
  <2> QED
    BY <1>2, <2>2, <2>3 DEF Box!Write, Box!outboxVars
<1> QED
  BY <1>3, <1>4, <1>5

LEMMA RefineRetry ==
  TypeOK /\ HistRetry => Box!Abandon \/ UNCHANGED Box!outboxVars
<1> SUFFICES ASSUME TypeOK, HistRetry
             PROVE  Box!Abandon \/ UNCHANGED Box!outboxVars
  OBVIOUS
<1>1. Holding /\ UNCHANGED <<shutdown, queue, log, accepted, refused>>
  BY DEF HistRetry, Holding
<1>2. Pending # <<>> /\ Tail(Pending) = queue
  BY <1>1, PendingHeld
<1>3. CASE shutdown
  <2>1. ~Holding'
    BY <1>3 DEF HistRetry, Actor, Attempt, Holding
  <2>2. Pending' = Tail(Pending)
    BY <1>1, <1>2, <2>1 DEF Pending
  <2> QED
    BY <1>1, <1>2, <1>3, <2>2 DEF Box!Abandon
<1>4. CASE ~shutdown
  <2>1. Holding' /\ held' = held
    BY <1>4 DEF HistRetry, Actor, Attempt, Holding
  <2>2. Pending' = Pending
    BY <1>1, <2>1 DEF Pending
  <2> QED
    BY <1>1, <2>2 DEF Box!outboxVars
<1> QED
  BY <1>3, <1>4

LEMMA RefineStep ==
  TypeOK /\ [Next]_vars => [Box!OutboxNext]_Box!outboxVars
<1> SUFFICES ASSUME TypeOK, [Next]_vars
             PROVE  Box!OutboxNext \/ UNCHANGED Box!outboxVars
  OBVIOUS
<1> USE DEF Box!OutboxNext
<1>1. CASE TrySendHistorical
  BY <1>1, RefineTrySend
<1>2. CASE HistEvent
  BY <1>2, RefineEvent
<1>3. CASE HistDone \/ HistReject \/ HistFail
  BY <1>3, RefineAnswer
<1>4. CASE HistRetry
  BY <1>4, RefineRetry
<1>5. CASE HistStop
  <2>1. ~Holding /\ ~Holding' /\ UNCHANGED <<queue, log, accepted, refused, shutdown>>
    BY <1>5 DEF HistStop, Actor, Holding
  <2> QED
    BY <2>1 DEF Box!outboxVars, Pending
<1>6. CASE Shutdown
  BY <1>6 DEF Shutdown, Box!Close, Pending, Holding
<1>7. CASE RouterStop \/ Quiescent \/ UNCHANGED vars
  <2>1. UNCHANGED <<pc, held, queue, log, accepted, refused, shutdown>>
    BY <1>7 DEF RouterStop, Quiescent, vars
  <2> QED
    BY <2>1 DEF Box!outboxVars, Pending, Holding
<1> QED
  BY <1>1, <1>2, <1>3, <1>4, <1>5, <1>6, <1>7 DEF Next, ActorStep

(* The lane keeps the promise of the outbox: what was accepted leaves it in *)
(* order, written at least once or refused, and is abandoned by nothing but *)
(* a shutdown.                                                              *)
THEOREM RefinesOutbox == Spec => ImplementsOutbox
<1>1. Init => Box!OutboxInit
  BY DEF Init, Box!OutboxInit, Pending, Holding
<1> QED
  BY <1>1, RefineStep, TypeCorrect, PTL DEF Spec, ImplementsOutbox, Box!OutboxSpec
=============================================================================
