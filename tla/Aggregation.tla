---------------------------- MODULE Aggregation ----------------------------
(***************************************************************************)
(* One call of upload_aggregation, which the router awaits at the end of a *)
(* match: the cumulative statistics of every player and of the two sides,  *)
(* each brought up to date by a job of its own that reads a database node, *)
(* adds the match and writes the node back.  The jobs run concurrently.    *)
(*                                                                         *)
(* The numbers in a node are abstracted to whose they are: how often each  *)
(* job added its own, on top of what earlier matches left (Before).  The   *)
(* match index and the player logs are written once each, under keys of    *)
(* their own, and left out.                                                *)
(***************************************************************************)
EXTENDS Roster

CONSTANTS
  Players,          \* sanitized keys of the players in the snapshot
  Teams,            \* registered teams
  Lineups,          \* the sides the players may be on
  Damaged,          \* nodes whose content from before the match does not parse
  MaxFailures       \* AGGREGATION_MAX_FAILURES

Sides == {"blue", "orange"}

Jobs == {<<"player", p>> : p \in Players} \cup {<<"side", s>> : s \in Sides}

PlayerNode(p) == <<"player", p>>
TeamNode(t) == <<"team", t>>
TempNode(s) == <<"temp", s>>
Nodes == {PlayerNode(p) : p \in Players} \cup {TeamNode(t) : t \in Teams}
         \cup {TempNode(s) : s \in Sides}
Nowhere == <<"nowhere", "nowhere">>

ASSUME AggregationAssumption ==
  /\ MaxFailures \in Nat /\ NoTeam \notin Teams /\ IsFiniteSet(Players)
  /\ Lineups \subseteq [Players -> Sides \cup {"none"}]
  /\ Damaged \subseteq Nodes

VARIABLES
  lineup,      \* extract_team of each player
  lookup,      \* what the registry answers for each player
  path,        \* the database node of each job, once the sides are resolved
  job,         \* update_cumulative_stats and update_cumulative_team_stats
  node,        \* the database: how often each job's numbers are in a node
  shutdown,
  doubtful     \* history: jobs with a PUT carried out but not acknowledged

vars == <<lineup, lookup, path, job, node, shutdown, doubtful>>

Before == <<"earlier", "matches">>
Parts == Jobs \cup {Before}

(* What a node held before the match; nothing has been read.               *)
Earlier == [w \in Parts |-> IF w = Before THEN 1 ELSE 0]
Unread == [w \in Parts |-> 0]

At(pc, read, n) == [pc |-> pc, read |-> read, failures |-> n]

Init ==
  /\ lineup \in Lineups /\ lookup \in [Players -> Teams \cup {NoTeam}]
  /\ path = [j \in Jobs |-> Nowhere]
  /\ job = [j \in Jobs |-> At("unborn", Unread, 0)]
  /\ node = [n \in Nodes |-> Earlier]
  /\ shutdown = FALSE /\ doubtful = {}

-----------------------------------------------------------------------------
(***************************************************************************)
(* Both sides are resolved before any job starts; a lookup that failed is  *)
(* no vote.  A side without players has no job.                            *)
(***************************************************************************)
On(s) == {p \in Players : lineup[p] = s}
Vote(s) == [p \in On(s) |-> lookup[p]]

Resolve ==
  /\ \A j \in Jobs : job[j].pc = "unborn"
  /\ \E id \in [Sides -> Teams \cup {NoTeam}] :
       /\ \A s \in Sides : id[s] \in Resolutions(Vote(s), NoTeam)
       /\ path' = [j \in Jobs |->
            IF j[1] = "player" THEN PlayerNode(j[2])
            ELSE IF id[j[2]] = NoTeam THEN TempNode(j[2])
            ELSE TeamNode(id[j[2]])]
  /\ job' = [j \in Jobs |->
       IF j[1] = "side" /\ On(j[2]) = {} THEN At("done", Unread, 0)
       ELSE At("top", Unread, 0)]
  /\ UNCHANGED <<lineup, lookup, node, shutdown, doubtful>>

-----------------------------------------------------------------------------
(* A job. *)
Goes(j, pc, read, n) == job' = [job EXCEPT ![j] = At(pc, read, n)]

Finish(j) == Goes(j, "done", Unread, 0)

(* Fault: every failure is taken for the first one.                        *)
FailUncounted(j) ==
  IF MaxFailures = 0 THEN Finish(j) ELSE Goes(j, "top", Unread, 1)

(* Fault: the budget is compared before the failure is counted.            *)
FailLate(j) ==
  IF job[j].failures > MaxFailures THEN Finish(j)
  ELSE Goes(j, "top", Unread, job[j].failures + 1)

(* A retryable failure: after a backoff another round, unless the budget   *)
(* is exceeded.                                                            *)
Fail(j) ==
  LET n == job[j].failures + 1
  IN IF n > MaxFailures THEN Finish(j) ELSE Goes(j, "top", Unread, n)

(* The token is looked at before every round, and ends a backoff.          *)
Stop(j) ==
  /\ shutdown /\ job[j].pc = "top"
  /\ Finish(j)
  /\ UNCHANGED <<lineup, lookup, path, node, shutdown, doubtful>>

(* A node that does not parse is taken for an empty one, with a warning;   *)
(* whatever a job of this program wrote parses.                            *)
Parsed(n) == IF n \in Damaged /\ node[n] = Earlier THEN Unread ELSE node[n]

(* Fault: a GET that fails is taken for an empty node.                     *)
GetFailedAsEmpty(j) ==
  /\ job[j].pc = "top" /\ ~shutdown
  /\ \/ Goes(j, "put", Parsed(path[j]), job[j].failures)
     \/ Goes(j, "put", Unread, job[j].failures)
  /\ UNCHANGED <<lineup, lookup, path, node, shutdown, doubtful>>

(* GET, answered with what the node holds, or failed: for good, or so that *)
(* it is retried.                                                          *)
Get(j) ==
  /\ job[j].pc = "top" /\ ~shutdown
  /\ \/ Goes(j, "put", Parsed(path[j]), job[j].failures)
     \/ Finish(j)
     \/ Fail(j)
  /\ UNCHANGED <<lineup, lookup, path, node, shutdown, doubtful>>

Written(j) == [node EXCEPT ![path[j]] = [job[j].read EXCEPT ![j] = @ + 1]]

(* Fault: the job starts another round after a PUT that succeeded.         *)
PutAgain(j) ==
  /\ job[j].pc \in {"put", "adrift"}
  /\ \/ node' = Written(j) /\ Goes(j, "top", Unread, job[j].failures)
     \/ UNCHANGED node /\ Finish(j)
  /\ UNCHANGED <<lineup, lookup, path, shutdown, doubtful>>

(* PUT of what was read with the match added: carried out and answered,    *)
(* refused for good, or left to itself by Drop and carried out or not.     *)
Put(j) ==
  /\ job[j].pc \in {"put", "adrift"}
  /\ node' \in {node, Written(j)}
  /\ Finish(j)
  /\ UNCHANGED <<lineup, lookup, path, shutdown, doubtful>>

(* No answer, or a retryable one; the PUT may have been carried out.  The  *)
(* next round reads the node anew.                                         *)
PutFail(j) ==
  /\ job[j].pc = "put"
  /\ \/ UNCHANGED <<node, doubtful>>
     \/ node' = Written(j) /\ doubtful' = doubtful \cup {j}
  /\ Fail(j)
  /\ UNCHANGED <<lineup, lookup, path, shutdown>>

Shutdown ==
  /\ ~shutdown /\ shutdown' = TRUE
  /\ UNCHANGED <<lineup, lookup, path, job, node, doubtful>>

(* The router's select! drops the session, and with it all jobs, at        *)
(* whatever await they are; a request under way may still be carried out.  *)
Drop ==
  /\ shutdown /\ \E j \in Jobs : job[j].pc \in {"unborn", "top", "put"}
  /\ job' = [j \in Jobs |-> IF job[j].pc \in {"put", "adrift"}
                           THEN At("adrift", job[j].read, job[j].failures)
                           ELSE At("done", Unread, 0)]
  /\ UNCHANGED <<lineup, lookup, path, node, shutdown, doubtful>>

Done == \A j \in Jobs : job[j].pc = "done"
Returned == Done /\ UNCHANGED vars

JobStep(j) == Stop(j) \/ Get(j) \/ Put(j) \/ PutFail(j)

UploadStep == Resolve \/ Drop \/ \E j \in Jobs : JobStep(j)

Next == UploadStep \/ Shutdown \/ Returned

Spec == Init /\ [][Next]_vars

(* The runtime polls the task, every request and every backoff ends; which *)
(* of its jobs the task serves first is left open.                         *)
FairSpec == Spec /\ WF_vars(UploadStep)

-----------------------------------------------------------------------------
(* Type invariant. *)
TypeOK ==
  /\ lineup \in [Players -> Sides \cup {"none"}]
  /\ lookup \in [Players -> Teams \cup {NoTeam}]
  /\ path \in [Jobs -> Nodes \cup {Nowhere}]
  /\ job \in [Jobs -> [pc : {"unborn", "top", "put", "adrift", "done"},
                       read : [Parts -> Nat], failures : 0..MaxFailures]]
  /\ node \in [Nodes -> [Parts -> Nat]]
  /\ shutdown \in BOOLEAN /\ doubtful \subseteq Jobs

(***************************************************************************)
(* A match is counted once in a node however often its job had to retry,   *)
(* unless a PUT was carried out whose acknowledgement was lost.            *)
(***************************************************************************)
CountedOnce ==
  \A n \in Nodes, j \in Jobs : node[n][j] <= 1 \/ j \in doubtful

(***************************************************************************)
(* A node loses something in two cases only, whatever request fails and    *)
(* however the jobs interleave.  What earlier matches left is lost where   *)
(* it does not parse: the code goes on from an empty node and writes it    *)
(* back.  What a job of this match added is lost where both sides were     *)
(* resolved to one team, whose node they then write over each other.       *)
(***************************************************************************)
Shared(n) == \E j, k \in Jobs : j # k /\ path[j] = n /\ path[k] = n

NothingLost ==
  [][\A n \in Nodes, w \in Parts :
       \/ node'[n][w] >= node[n][w]
       \/ w = Before /\ n \in Damaged
       \/ w # Before /\ Shared(n)]_node

(***************************************************************************)
(* A side's statistics go to a registered team exactly if that team has    *)
(* more of the side's players than every other one: the order in which the *)
(* tally's hash map is walked does not show.                               *)
(***************************************************************************)
MajorityRule ==
  \A s \in Sides, t \in Teams :
    path[<<"side", s>>] # Nowhere =>
      (path[<<"side", s>>] = TeamNode(t) <=> Majority(Vote(s), t))

(* The call returns: the router's wait for it ends.                        *)
AggregationEnds == <>Done
=============================================================================
