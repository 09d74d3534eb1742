------------------------- MODULE Aggregation_proofs -------------------------
(***************************************************************************)
(* Proofs about Roster and Aggregation, for any players, teams and lineups *)
(* and any retry budget.                                                   *)
(***************************************************************************)
EXTENDS Aggregation, FiniteSetTheorems, TLAPS

-----------------------------------------------------------------------------
(* Roster. *)

LEMMA TallyType ==
  ASSUME NEW vote, IsFiniteSet(DOMAIN vote), NEW t
  PROVE  Tally(vote, t) \in Nat
<1>1. IsFiniteSet({p \in DOMAIN vote : vote[p] = t})
  BY FS_Subset
<1> QED
  BY <1>1, FS_CardinalityType DEF Tally

LEMMA TallyPositive ==
  ASSUME NEW vote, IsFiniteSet(DOMAIN vote), NEW t
  PROVE  Tally(vote, t) > 0 <=> \E p \in DOMAIN vote : vote[p] = t
<1> DEFINE S == {p \in DOMAIN vote : vote[p] = t}
<1>1. IsFiniteSet(S)
  BY FS_Subset
<1>2. Cardinality(S) \in Nat /\ (Cardinality(S) = 0 <=> S = {})
  BY <1>1, FS_CardinalityType, FS_EmptySet
<1> QED
  BY <1>2 DEF Tally

(* Whichever entry the walk of the hash map ends with, the result is the   *)
(* team with the strict majority if there is one, and the temporary id     *)
(* otherwise.                                                              *)
LEMMA ResolutionIsMajority ==
  ASSUME NEW vote, IsFiniteSet(DOMAIN vote),
         NEW r \in Resolutions(vote, NoTeam), NEW t, t # NoTeam
  PROVE  r = t <=> Majority(vote, t)
<1>1. \A u : Tally(vote, u) \in Nat
  BY TallyType
<1>2. \A u : u \in VotedFor(vote) <=> u # NoTeam /\ Tally(vote, u) > 0
  BY TallyPositive DEF VotedFor
<1>3. Majority(vote, t) <=>
        /\ t \in VotedFor(vote)
        /\ \A u \in VotedFor(vote) \ {t} : Tally(vote, t) > Tally(vote, u)
  BY <1>2 DEF Majority, VotedFor
<1>4. CASE Majority(vote, t)
  <2>1. MaxEntries(vote) = {t}
    BY <1>1, <1>3, <1>4 DEF MaxEntries
  <2> QED
    BY <1>3, <1>4, <2>1 DEF Resolutions
<1>5. CASE ~Majority(vote, t)
  BY <1>3, <1>5 DEF Resolutions, MaxEntries
<1> QED
  BY <1>4, <1>5

-----------------------------------------------------------------------------
(* Type correctness. *)

JobType == [pc : {"unborn", "top", "put", "adrift", "done"},
            read : [Parts -> Nat], failures : 0..MaxFailures]

(* A job whose PUT may still be carried out.                               *)
Writing(j) == job[j].pc \in {"put", "adrift"}

(* A job under way has its node.                                           *)
Placed == \A j \in Jobs :
            job[j].pc \in {"top", "put", "adrift"} => path[j] \in Nodes

Typed == TypeOK /\ Placed

LEMMA BeforeIsNoJob == Before \in Parts /\ Before \notin Jobs
BY DEF Before, Parts, Jobs, Sides

LEMMA UnreadType == Unread \in [Parts -> Nat] /\ Earlier \in [Parts -> Nat]
BY DEF Unread, Earlier

LEMMA AtType ==
  ASSUME NEW pc \in {"unborn", "top", "put", "adrift", "done"},
         NEW r \in [Parts -> Nat], NEW n \in 0..MaxFailures
  PROVE  /\ At(pc, r, n) \in JobType
         /\ At(pc, r, n).pc = pc /\ At(pc, r, n).read = r
BY DEF At, JobType

(* A job moves on and leaves the others alone.                             *)
LEMMA GoesType ==
  ASSUME Typed, NEW j \in Jobs, NEW pc \in {"top", "put", "done"},
         NEW r \in [Parts -> Nat], NEW n \in 0..MaxFailures, Goes(j, pc, r, n)
  PROVE  /\ job' \in [Jobs -> JobType]
         /\ job'[j].pc = pc /\ job'[j].read = r
         /\ \A k \in Jobs \ {j} : job'[k] = job[k]
<1>1. job \in [Jobs -> JobType]
  BY DEF Typed, TypeOK, JobType
<1>2. /\ At(pc, r, n) \in JobType
      /\ At(pc, r, n).pc = pc /\ At(pc, r, n).read = r
  BY AtType
<1> QED
  BY <1>1, <1>2 DEF Goes

(* What Finish and Fail do to the job: it has ended or starts over.        *)
Restarts(j) ==
  /\ job' \in [Jobs -> JobType]
  /\ job'[j].pc \in {"top", "done"} /\ job'[j].read = Unread
  /\ \A k \in Jobs \ {j} : job'[k] = job[k]

LEMMA FinishType ==
  ASSUME Typed, NEW j \in Jobs, Finish(j)
  PROVE  Restarts(j) /\ job'[j].pc = "done"
<1>1. 0 \in 0..MaxFailures
  BY AggregationAssumption
<1> QED
  BY <1>1, GoesType, UnreadType DEF Finish, Restarts

(* A failure ends the job or sends it into another round, within budget.   *)
LEMMA FailType ==
  ASSUME Typed, NEW j \in Jobs, Fail(j)
  PROVE  Restarts(j)
<1> DEFINE n == job[j].failures + 1
<1>1. job[j].failures \in 0..MaxFailures
  BY DEF Typed, TypeOK
<1>2. CASE n > MaxFailures
  BY <1>2, FinishType DEF Fail
<1>3. CASE ~(n > MaxFailures)
  <2>1. n \in 0..MaxFailures /\ Goes(j, "top", Unread, n)
    BY <1>1, <1>3, AggregationAssumption DEF Fail
  <2> QED
    BY <2>1, GoesType, UnreadType DEF Restarts
<1> QED
  BY <1>2, <1>3

(* The write changes one node, and there only adds the job's own part to   *)
(* what the job has read.                                                  *)
LEMMA WrittenType ==
  ASSUME Typed, NEW j \in Jobs, Writing(j)
  PROVE  /\ Written(j) \in [Nodes -> [Parts -> Nat]]
         /\ \A n \in Nodes \ {path[j]} : Written(j)[n] = node[n]
         /\ Written(j)[path[j]][j] = job[j].read[j] + 1
         /\ \A w \in Parts \ {j} : Written(j)[path[j]][w] = job[j].read[w]
<1> DEFINE new == [job[j].read EXCEPT ![j] = @ + 1]
<1>1. job[j].read \in [Parts -> Nat] /\ j \in Parts
  BY DEF Typed, TypeOK, Parts
<1>2. /\ new \in [Parts -> Nat] /\ new[j] = job[j].read[j] + 1
      /\ \A w \in Parts \ {j} : new[w] = job[j].read[w]
  BY <1>1
<1>3. path[j] \in Nodes /\ node \in [Nodes -> [Parts -> Nat]]
  BY DEF Typed, TypeOK, Placed, Writing
<1>4. Written(j) = [node EXCEPT ![path[j]] = new]
  BY DEF Written
<1> HIDE DEF new
<1> QED
  BY <1>2, <1>3, <1>4

(* A node reads as it is, but for what earlier matches left.               *)
LEMMA ParsedType ==
  ASSUME Typed, NEW n \in Nodes
  PROVE  /\ Parsed(n) \in [Parts -> Nat]
         /\ \A j \in Jobs : Parsed(n)[j] = node[n][j]
<1>1. node[n] \in [Parts -> Nat]
  BY DEF Typed, TypeOK
<1>2. CASE n \in Damaged /\ node[n] = Earlier
  <2>1. \A j \in Jobs : Earlier[j] = 0 /\ Unread[j] = 0
    BY BeforeIsNoJob DEF Earlier, Unread, Parts
  <2> QED
    BY <1>2, <2>1, UnreadType DEF Parsed
<1>3. CASE ~(n \in Damaged /\ node[n] = Earlier)
  BY <1>1, <1>3 DEF Parsed
<1> QED
  BY <1>2, <1>3

(***************************************************************************)
(* A step of a job is one of four: it ends or starts over, its node        *)
(* untouched; it reads; it writes and ends; it writes and does not know.   *)
(***************************************************************************)
Reads(j) ==
  /\ job[j].pc = "top" /\ job' \in [Jobs -> JobType]
  /\ job'[j].pc = "put" /\ job'[j].read = Parsed(path[j])
  /\ \A k \in Jobs \ {j} : job'[k] = job[k]
  /\ UNCHANGED <<node, doubtful>>

Leaves(j) ==
  /\ job[j].pc \in {"top", "put", "adrift"} /\ Restarts(j)
  /\ UNCHANGED <<node, doubtful>>

Writes(j) ==
  /\ Writing(j) /\ Restarts(j) /\ node' = Written(j)
  /\ \/ job'[j].pc = "done" /\ doubtful' = doubtful
     \/ doubtful' = doubtful \cup {j}

LEMMA StepCases ==
  ASSUME Typed, NEW j \in Jobs, JobStep(j)
  PROVE  /\ Reads(j) \/ Leaves(j) \/ Writes(j)
         /\ UNCHANGED <<lineup, lookup, path, shutdown>>
<1>1. CASE Stop(j)
  BY <1>1, FinishType DEF Stop, Leaves
<1>2. CASE Get(j)
  <2>1. CASE Goes(j, "put", Parsed(path[j]), job[j].failures)
    <3>1. Parsed(path[j]) \in [Parts -> Nat] /\ job[j].failures \in 0..MaxFailures
      BY <1>2, ParsedType DEF Get, Typed, TypeOK, Placed
    <3>2. /\ job' \in [Jobs -> JobType] /\ job'[j].pc = "put"
          /\ job'[j].read = Parsed(path[j])
          /\ \A k \in Jobs \ {j} : job'[k] = job[k]
      BY <2>1, <3>1, GoesType
    <3> QED
      BY <1>2, <3>2 DEF Get, Reads
  <2>2. CASE Finish(j)
    BY <1>2, <2>2, FinishType DEF Get, Leaves
  <2>3. CASE Fail(j)
    BY <1>2, <2>3, FailType DEF Get, Leaves
  <2> QED
    BY <1>2, <2>1, <2>2, <2>3 DEF Get
<1>3. CASE Put(j)
  BY <1>3, FinishType DEF Put, Leaves, Writes, Writing
<1>4. CASE PutFail(j)
  BY <1>4, FailType DEF PutFail, Leaves, Writes, Writing
<1> QED
  BY <1>1, <1>2, <1>3, <1>4 DEF JobStep

LEMMA InitTyped == Init => Typed
<1> SUFFICES ASSUME Init PROVE Typed
  OBVIOUS
<1>1. lineup \in [Players -> Sides \cup {"none"}]
  BY AggregationAssumption DEF Init
<1>2. At("unborn", Unread, 0) \in JobType /\ At("unborn", Unread, 0).pc = "unborn"
  BY AtType, UnreadType, AggregationAssumption
<1>3. job \in [Jobs -> JobType] /\ \A j \in Jobs : job[j].pc = "unborn"
  BY <1>2 DEF Init
<1>4. node \in [Nodes -> [Parts -> Nat]]
  BY UnreadType DEF Init
<1>5. lookup \in [Players -> Teams \cup {NoTeam}] /\ shutdown \in BOOLEAN
      /\ doubtful \subseteq Jobs /\ path \in [Jobs -> Nodes \cup {Nowhere}]
  BY DEF Init
<1> QED
  BY <1>1, <1>3, <1>4, <1>5 DEF Typed, TypeOK, Placed, JobType

(* Where Resolve sends the jobs.                                           *)
Destination(id, j) ==
  IF j[1] = "player" THEN PlayerNode(j[2])
  ELSE IF id[j[2]] = NoTeam THEN TempNode(j[2])
  ELSE TeamNode(id[j[2]])

LEMMA DestinationType ==
  ASSUME NEW id \in [Sides -> Teams \cup {NoTeam}], NEW j \in Jobs
  PROVE  Destination(id, j) \in Nodes
<1>1. CASE \E p \in Players : j = <<"player", p>>
  BY <1>1 DEF Destination, Nodes
<1>2. CASE \E s \in Sides : j = <<"side", s>>
  <2>1. PICK s \in Sides : j = <<"side", s>>
    BY <1>2
  <2>2. id[s] \in Teams \cup {NoTeam}
    OBVIOUS
  <2> QED
    BY <2>1, <2>2 DEF Destination, Nodes
<1> QED
  BY <1>1, <1>2 DEF Jobs

LEMMA ResolveStep ==
  ASSUME Typed, Resolve
  PROVE  /\ path' \in [Jobs -> Nodes]
         /\ job' \in [Jobs -> JobType]
         /\ \A j \in Jobs : job'[j].pc \in {"top", "done"} /\ job'[j].read = Unread
         /\ \A j \in Jobs : job[j].pc = "unborn"
         /\ UNCHANGED <<lineup, lookup, node, shutdown, doubtful>>
<1>1. path' \in [Jobs -> Nodes]
  <2>1. PICK id \in [Sides -> Teams \cup {NoTeam}] :
          path' = [j \in Jobs |-> Destination(id, j)]
    BY DEF Resolve, Destination
  <2> QED
    BY <2>1, DestinationType
<1>2. \A pc \in {"top", "done"} :
        At(pc, Unread, 0) \in JobType /\ At(pc, Unread, 0).pc = pc
        /\ At(pc, Unread, 0).read = Unread
  BY AtType, UnreadType, AggregationAssumption
<1>3. /\ job' \in [Jobs -> JobType]
      /\ \A j \in Jobs : job'[j].pc \in {"top", "done"} /\ job'[j].read = Unread
  BY <1>2 DEF Resolve
<1> QED
  BY <1>1, <1>3 DEF Resolve

(* Drop leaves nothing of a job but a PUT that is under way.               *)
LEMMA DropStep ==
  ASSUME Typed, Drop
  PROVE  /\ job' \in [Jobs -> JobType]
         /\ \A j \in Jobs :
              \/ job'[j].pc = "done" /\ job'[j].read = Unread
              \/ /\ Writing(j) /\ job'[j].pc = "adrift"
                 /\ job'[j].read = job[j].read
         /\ UNCHANGED <<lineup, lookup, path, node, shutdown, doubtful>>
<1>1. job \in [Jobs -> JobType]
  BY DEF Typed, TypeOK, JobType
<1>2. At("done", Unread, 0) \in JobType /\ At("done", Unread, 0).pc = "done"
      /\ At("done", Unread, 0).read = Unread
  BY AtType, UnreadType, AggregationAssumption
<1>3. \A j \in Jobs :
        LET a == At("adrift", job[j].read, job[j].failures)
        IN a \in JobType /\ a.pc = "adrift" /\ a.read = job[j].read
  BY <1>1, AtType DEF JobType
<1> QED
  BY <1>2, <1>3 DEF Drop, Writing

LEMMA NextTyped == Typed /\ [Next]_vars => Typed'
<1> SUFFICES ASSUME Typed, [Next]_vars PROVE Typed'
  OBVIOUS
<1>1. CASE Resolve
  BY <1>1, ResolveStep DEF Typed, TypeOK, Placed, JobType
<1>2. ASSUME NEW j \in Jobs, JobStep(j) PROVE Typed'
  <2>1. /\ Reads(j) \/ Leaves(j) \/ Writes(j)
        /\ UNCHANGED <<lineup, lookup, path, shutdown>>
    BY <1>2, StepCases
  <2>2. /\ job' \in [Jobs -> JobType] /\ job[j].pc \in {"top", "put", "adrift"}
        /\ \A k \in Jobs \ {j} : job'[k] = job[k]
    BY <2>1 DEF Reads, Leaves, Writes, Restarts, Writing
  <2>3. Placed'
    BY <2>1, <2>2 DEF Placed, Typed
  <2>4. node' \in [Nodes -> [Parts -> Nat]] /\ doubtful' \subseteq Jobs
    BY <2>1, WrittenType DEF Reads, Leaves, Writes, Typed, TypeOK
  <2> QED
    BY <2>1, <2>2, <2>3, <2>4 DEF Typed, TypeOK, JobType
<1>3. CASE Shutdown
  BY <1>3 DEF Shutdown, Typed, TypeOK, Placed
<1>4. CASE UNCHANGED vars
  BY <1>4 DEF vars, Typed, TypeOK, Placed
<1>5. CASE Drop
  BY <1>5, DropStep DEF Typed, TypeOK, Placed, Writing, JobType
<1> QED
  BY <1>1, <1>2, <1>3, <1>4, <1>5 DEF Next, UploadStep, Returned

(***************************************************************************)
(* The state keeps its type: no retry counter exceeds the budget, and a    *)
(* job under way has a node.                                               *)
(***************************************************************************)
THEOREM TypeCorrect == Spec => []TypeOK
<1>1. Typed => TypeOK
  BY DEF Typed
<1> QED
  BY <1>1, InitTyped, NextTyped, PTL DEF Spec

LEMMA AlwaysTyped == Spec => []Typed
BY InitTyped, NextTyped, PTL DEF Spec

-----------------------------------------------------------------------------
(* Counting. *)

(***************************************************************************)
(* A job none of whose PUTs is in doubt is in every node and in everything *)
(* read at most once, and nowhere while it is under way: it has no         *)
(* successful PUT behind it.                                               *)
(***************************************************************************)
CountInv ==
  \A j \in Jobs \ doubtful :
    /\ \A n \in Nodes : node[n][j] <= 1
    /\ \A k \in Jobs : job[k].read[j] <= 1
    /\ job[j].pc # "done" =>
         /\ \A n \in Nodes : node[n][j] = 0
         /\ \A k \in Jobs : job[k].read[j] = 0

LEMMA InitCount == Init => CountInv
BY BeforeIsNoJob DEF Init, CountInv, Earlier, Unread, Parts, At

LEMMA NextCount == Typed /\ CountInv /\ [Next]_vars => CountInv'
<1> SUFFICES ASSUME Typed, CountInv, [Next]_vars PROVE CountInv'
  OBVIOUS
<1>0. \A j \in Jobs : Unread[j] = 0
  BY BeforeIsNoJob DEF Unread, Parts
<1>1. CASE Resolve
  BY <1>0, <1>1, ResolveStep DEF CountInv
<1>2. ASSUME NEW j \in Jobs, JobStep(j) PROVE CountInv'
  <2>1. Reads(j) \/ Leaves(j) \/ Writes(j)
    BY <1>2, StepCases
  <2>2. CASE Reads(j)
    <3>1. path[j] \in Nodes
      BY <2>2 DEF Reads, Typed, Placed
    <3>2. \A i \in Jobs : Parsed(path[j])[i] = node[path[j]][i]
      BY <3>1, ParsedType
    <3> QED
      BY <2>2, <3>1, <3>2 DEF Reads, CountInv
  <2>3. CASE Leaves(j)
    BY <1>0, <2>3 DEF Leaves, Restarts, CountInv
  <2>4. CASE Writes(j)
    <3>1. path[j] \in Nodes /\ Writing(j)
      BY <2>4 DEF Writes, Writing, Typed, Placed
    <3> SUFFICES ASSUME NEW i \in Jobs, i \notin doubtful'
          PROVE  /\ \A n \in Nodes : node'[n][i] <= 1
                 /\ \A k \in Jobs : job'[k].read[i] <= 1
                 /\ job'[i].pc # "done" =>
                      /\ \A n \in Nodes : node'[n][i] = 0
                      /\ \A k \in Jobs : job'[k].read[i] = 0
      BY DEF CountInv
    <3>2. i \notin doubtful /\ i \in Parts
      BY <2>4 DEF Writes, Parts
    <3>3. \A k \in Jobs : job'[k].read[i] = 0 \/ job'[k].read[i] = job[k].read[i]
      BY <1>0, <2>4 DEF Writes, Restarts
    <3>4. CASE i = j
      <4>1. job'[j].pc = "done" /\ job[j].read[j] = 0
        BY <2>4, <3>1, <3>2, <3>4 DEF Writes, Writing, CountInv
      <4>2. \A n \in Nodes : node'[n][j] <= 1
        BY <2>4, <3>1, <3>2, <3>4, <4>1, WrittenType DEF Writes, CountInv
      <4> QED
        BY <3>2, <3>3, <3>4, <4>1, <4>2 DEF CountInv
    <3>5. CASE i # j
      <4>1. job'[i] = job[i]
        BY <2>4, <3>5 DEF Writes, Restarts
      <4>2. \A n \in Nodes : node'[n][i] = node[n][i] \/ node'[n][i] = job[j].read[i]
        BY <2>4, <3>1, <3>2, <3>5, WrittenType DEF Writes
      <4> QED
        BY <3>2, <3>3, <4>1, <4>2 DEF CountInv
    <3> QED
      BY <3>4, <3>5
  <2> QED
    BY <2>1, <2>2, <2>3, <2>4
<1>3. CASE Shutdown
  BY <1>3 DEF Shutdown, CountInv
<1>4. CASE UNCHANGED vars
  BY <1>4 DEF vars, CountInv
<1>5. CASE Drop
  BY <1>0, <1>5, DropStep DEF CountInv, Writing
<1> QED
  BY <1>1, <1>2, <1>3, <1>4, <1>5 DEF Next, UploadStep, Returned

(***************************************************************************)
(* A match is counted at most once in a node, whatever is retried and      *)
(* however the jobs interleave, unless a PUT was carried out whose         *)
(* acknowledgement was lost.                                               *)
(***************************************************************************)
THEOREM CountedAtMostOnce == Spec => []CountedOnce
<1>1. CountInv => CountedOnce
  BY DEF CountInv, CountedOnce
<1> QED
  BY <1>1, InitCount, NextCount, AlwaysTyped, PTL DEF Spec

-----------------------------------------------------------------------------
(* What a node holds. *)

(* What a job finds of earlier matches: nothing where it does not parse.   *)
Found(n) == IF n \in Damaged THEN 0 ELSE 1

(***************************************************************************)
(* What earlier matches left is in every node that parses and in           *)
(* everything read from it that is about to be written back; a node that   *)
(* does not parse is as it was, or was written by a job that found nothing *)
(* there; and a node that is no other job's is still what its job has read.*)
(***************************************************************************)
KeepInv ==
  /\ \A n \in Nodes :
       IF n \in Damaged THEN node[n] = Earlier \/ node[n][Before] = 0
       ELSE node[n][Before] = 1
  /\ \A j \in Jobs : Writing(j) =>
       /\ job[j].read[Before] = Found(path[j])
       /\ Shared(path[j]) \/ job[j].read = Parsed(path[j])

(* What a step may take from part w of node n.                             *)
MayLose(n, w) == \/ w = Before /\ n \in Damaged
                 \/ w # Before /\ Shared(n)

LEMMA InitKeep == Init => KeepInv
BY BeforeIsNoJob DEF Init, KeepInv, Writing, Earlier, At

LEMMA FoundIsRead ==
  ASSUME KeepInv, NEW n \in Nodes
  PROVE  Parsed(n)[Before] = Found(n)
<1>1. Unread[Before] = 0
  BY BeforeIsNoJob DEF Unread
<1> QED
  BY <1>1 DEF KeepInv, Parsed, Found

LEMMA WriteKeeps ==
  ASSUME Typed, KeepInv, NEW j \in Jobs, Writes(j), path' = path
  PROVE  /\ KeepInv'
         /\ \A n \in Nodes, w \in Parts :
              node'[n][w] >= node[n][w] \/ MayLose(n, w)
<1>1. path[j] \in Nodes /\ Writing(j) /\ j \in Parts
  BY DEF Writes, Writing, Typed, Placed, Parts
<1>2. /\ \A n \in Nodes \ {path[j]} : node'[n] = node[n]
      /\ node'[path[j]][j] = job[j].read[j] + 1
      /\ \A w \in Parts \ {j} : node'[path[j]][w] = job[j].read[w]
  BY <1>1, WrittenType DEF Writes
<1>3. /\ job[j].read[Before] = Found(path[j])
      /\ Shared(path[j]) \/ job[j].read = Parsed(path[j])
  BY <1>1 DEF KeepInv
<1>4. ASSUME NEW n \in Nodes
      PROVE  IF n \in Damaged THEN node'[n] = Earlier \/ node'[n][Before] = 0
             ELSE node'[n][Before] = 1
  <2>1. CASE n = path[j]
    BY <1>2, <1>3, <2>1, BeforeIsNoJob DEF Found
  <2>2. CASE n # path[j]
    BY <1>2, <2>2 DEF KeepInv
  <2> QED
    BY <2>1, <2>2
<1>5. \A k \in Jobs : Writing(k)' =>
        /\ job'[k].read[Before] = Found(path[k])
        /\ Shared(path[k]) \/ job'[k].read = Parsed(path[k])'
  <2> SUFFICES ASSUME NEW k \in Jobs, Writing(k)'
        PROVE  /\ job'[k].read[Before] = Found(path[k])
               /\ Shared(path[k]) \/ job'[k].read = Parsed(path[k])'
    OBVIOUS
  <2>1. k # j /\ job'[k] = job[k] /\ Writing(k)
    BY DEF Writes, Restarts, Writing
  <2>2. CASE path[k] = path[j]
    BY <2>1, <2>2 DEF Shared, KeepInv
  <2>3. CASE path[k] # path[j]
    <3>1. path[k] \in Nodes
      BY <2>1 DEF Typed, Placed, Writing
    <3>2. Parsed(path[k])' = Parsed(path[k])
      BY <1>2, <2>3, <3>1 DEF Parsed
    <3> QED
      BY <2>1, <3>2 DEF KeepInv
  <2> QED
    BY <2>2, <2>3
<1>6. KeepInv'
  BY <1>4, <1>5 DEF KeepInv, Shared, Found
<1>7. ASSUME NEW n \in Nodes, NEW w \in Parts
      PROVE  node'[n][w] >= node[n][w] \/ MayLose(n, w)
  <2>1. node[n][w] \in Nat
    BY DEF Typed, TypeOK
  <2>2. CASE n # path[j]
    BY <1>2, <2>1, <2>2
  <2>3. CASE w = Before
    BY <1>4, <2>1, <2>3 DEF KeepInv, MayLose
  <2>4. CASE n = path[j] /\ w # Before
    <3>1. w \in Jobs
      BY <2>4 DEF Parts
    <3>2. Shared(n) \/ job[j].read[w] = node[n][w]
      BY <1>1, <1>3, <2>4, <3>1, ParsedType
    <3>3. node'[n][w] = job[j].read[w] \/ node'[n][w] = job[j].read[w] + 1
      BY <1>2, <2>4, <3>1 DEF Parts
    <3> QED
      BY <2>1, <2>4, <3>2, <3>3 DEF MayLose
  <2> QED
    BY <2>2, <2>3, <2>4
<1> QED
  BY <1>6, <1>7

LEMMA NextKeep == Typed /\ KeepInv /\ [Next]_vars => KeepInv'
<1> SUFFICES ASSUME Typed, KeepInv, [Next]_vars PROVE KeepInv'
  OBVIOUS
<1>1. CASE Resolve
  BY <1>1, ResolveStep DEF KeepInv, Writing
<1>2. ASSUME NEW j \in Jobs, JobStep(j) PROVE KeepInv'
  <2>1. (Reads(j) \/ Leaves(j) \/ Writes(j)) /\ path' = path
    BY <1>2, StepCases
  <2>2. CASE Reads(j)
    <3>1. Parsed(path[j])[Before] = Found(path[j])
      BY <2>2, FoundIsRead DEF Reads, Typed, Placed
    <3>2. \A k \in Jobs : Parsed(path[k])' = Parsed(path[k])
      BY <2>1, <2>2 DEF Reads, Parsed
    <3> QED
      BY <2>1, <2>2, <3>1, <3>2 DEF Reads, Writing, KeepInv, Shared, Found
  <2>3. CASE Leaves(j)
    BY <2>1, <2>3 DEF Leaves, Restarts, Writing, KeepInv, Shared, Parsed, Found
  <2>4. CASE Writes(j)
    BY <2>1, <2>4, WriteKeeps
  <2> QED
    BY <2>1, <2>2, <2>3, <2>4
<1>3. CASE Shutdown
  BY <1>3 DEF Shutdown, KeepInv, Writing, Shared, Parsed, Found
<1>4. CASE UNCHANGED vars
  BY <1>4 DEF vars, KeepInv, Writing, Shared, Parsed, Found
<1>5. CASE Drop
  BY <1>5, DropStep DEF KeepInv, Writing, Shared, Parsed, Found
<1> QED
  BY <1>1, <1>2, <1>3, <1>4, <1>5 DEF Next, UploadStep, Returned

LEMMA NextLosesNothing ==
  Typed /\ KeepInv /\ [Next]_vars =>
    [\A n \in Nodes, w \in Parts :
       \/ node'[n][w] >= node[n][w]
       \/ w = Before /\ n \in Damaged
       \/ w # Before /\ Shared(n)]_node
<1> SUFFICES ASSUME Typed, KeepInv, [Next]_vars, node' # node
      PROVE  \A n \in Nodes, w \in Parts :
               node'[n][w] >= node[n][w] \/ MayLose(n, w)
  BY DEF MayLose
<1>1. PICK j \in Jobs : JobStep(j)
  BY DEF Next, UploadStep, Resolve, Drop, Shutdown, Returned, vars
<1>2. Writes(j) /\ path' = path
  BY <1>1, StepCases DEF Reads, Leaves
<1> QED
  BY <1>2, WriteKeeps

(***************************************************************************)
(* No step takes anything from a node but these two: what a job of this    *)
(* match added, where two jobs write one node, and what earlier matches    *)
(* left, where it does not parse.                                          *)
(***************************************************************************)
THEOREM NothingIsLost == Spec => NothingLost
BY InitKeep, NextKeep, NextLosesNothing, AlwaysTyped, PTL
   DEF Spec, NothingLost

-----------------------------------------------------------------------------
(* Which team a side's job writes to. *)

LEMMA SideJob == \A s \in Sides : <<"side", s>> \in Jobs
BY DEF Jobs

LEMMA OnIsFinite ==
  ASSUME NEW s
  PROVE  IsFiniteSet(DOMAIN Vote(s))
<1>1. On(s) \subseteq Players /\ DOMAIN Vote(s) = On(s)
  BY DEF On, Vote
<1> QED
  BY <1>1, FS_Subset, AggregationAssumption

LEMMA ResolveByMajority == Typed /\ Resolve => MajorityRule'
<1> SUFFICES ASSUME Typed, Resolve, NEW s \in Sides, NEW t \in Teams
      PROVE  path'[<<"side", s>>] = TeamNode(t) <=> Majority(Vote(s)', t)
  BY DEF MajorityRule
<1>1. PICK id \in [Sides -> Teams \cup {NoTeam}] :
        /\ \A r \in Sides : id[r] \in Resolutions(Vote(r), NoTeam)
        /\ path' = [j \in Jobs |-> Destination(id, j)]
  BY DEF Resolve, Destination
<1>2. Vote(s)' = Vote(s)
  BY DEF Resolve, Vote, On
<1>3. id[s] = t <=> Majority(Vote(s), t)
  BY <1>1, ResolutionIsMajority, OnIsFinite, AggregationAssumption
<1>4. path'[<<"side", s>>] =
        IF id[s] = NoTeam THEN TempNode(s) ELSE TeamNode(id[s])
  BY <1>1, SideJob DEF Destination
<1>5. path'[<<"side", s>>] = TeamNode(t) <=> id[s] = t
  BY <1>4, AggregationAssumption DEF TeamNode, TempNode
<1> QED
  BY <1>2, <1>3, <1>5

LEMMA NextMajority == Typed /\ MajorityRule /\ [Next]_vars => MajorityRule'
<1> SUFFICES ASSUME Typed, MajorityRule, [Next]_vars PROVE MajorityRule'
  OBVIOUS
<1>1. CASE Resolve
  BY <1>1, ResolveByMajority
<1>2. ASSUME UNCHANGED <<lineup, lookup, path>> PROVE MajorityRule'
  BY <1>2 DEF MajorityRule, Vote, On
<1>3. ASSUME NEW j \in Jobs, JobStep(j) PROVE UNCHANGED <<lineup, lookup, path>>
  BY <1>3, StepCases
<1> QED
  BY <1>1, <1>2, <1>3 DEF Next, UploadStep, Drop, Shutdown, Returned, vars

(***************************************************************************)
(* A side's statistics go to a registered team exactly if that team has    *)
(* the strict majority of the side's votes, however the tally's hash map   *)
(* is walked.                                                              *)
(***************************************************************************)
THEOREM ByMajority == Spec => []MajorityRule
<1>1. Init => MajorityRule
  BY SideJob DEF Init, MajorityRule
<1> QED
  BY <1>1, NextMajority, AlwaysTyped, PTL DEF Spec
=============================================================================
