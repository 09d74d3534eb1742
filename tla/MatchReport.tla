---------------------------- MODULE MatchReport ----------------------------
(***************************************************************************)
(* From the game's UpdateStates to the rows of the match: the transformer  *)
(* makes a live state of each, the live actor merges them into one, and at *)
(* the boundary the aggregation turns what was merged into a log and a     *)
(* result for every player and every side.  Pipeline says which updates    *)
(* get that far, Aggregation how the rows are written.                     *)
(*                                                                         *)
(* Objects of JSON are functions, with the fields that are there as their  *)
(* domain.  Strings are sequences; the empty one is none                   *)
(* (extract_string_from_keys).  Of a player's numbers the model has shots, *)
(* which is summed, and score, which may be negative and decides who is    *)
(* MVP.                                                                    *)
(***************************************************************************)
EXTENDS Integers, Sequences, FiniteSetsExt, Functions

CONSTANTS
  Entries,      \* what the list of players may contain
  MaxEntries,   \* bound on the players in one update
  Goals,        \* goals a side may have
  MaxUpdates    \* bound on the updates

ASSUME ReportAssumption ==
  /\ \A e \in Entries :
       /\ DOMAIN e = {"id", "name", "stats"}
       /\ "shots" \in DOMAIN e.stats => e.stats["shots"] \in Nat
       /\ "score" \in DOMAIN e.stats => e.stats["score"] \in Int
  /\ Goals \subseteq Nat /\ MaxEntries \in Nat /\ MaxUpdates \in Nat

VARIABLES
  board,     \* score and player_telemetry of the live actor's master_state
  updates,   \* how many updates have been merged
  reported   \* history: the updates since the last boundary

vars == <<board, updates, reported>>

Blue == 0
Orange == 1
Sides == {Blue, Orange}

Nothing == <<>>
Field(f, x, default) == IF x \in DOMAIN f THEN f[x] ELSE default

(* What f has, and of g the rest.                                          *)
Over(f, g) == [x \in DOMAIN f \cup DOMAIN g |-> Field(f, x, g[x])]

-----------------------------------------------------------------------------
(* normalize_live_state. *)

UnknownId == <<"Unknown|0|0">>

Who(e) ==
  IF e.id \notin {<<>>, UnknownId} THEN e.id
  ELSE IF e.name # <<>> THEN <<"Bot_">> \o e.name ELSE <<"Unknown_Player">>

(* Entries without any number are skipped; of two entries of one player    *)
(* the later replaces the earlier.                                         *)
Telemetry(list) ==
  LET kept == {i \in DOMAIN list : list[i].stats # Nothing}
  IN  [who \in {Who(list[i]) : i \in kept} |->
         list[Max({i \in kept : Who(list[i]) = who})].stats]

(* extract_score_object: the sides whose goals the update tells.           *)
Scores == UNION {[told -> Goals] : told \in SUBSET Sides}

Lists == UNION {[1..n -> Entries] : n \in 0..MaxEntries}

LiveState(list, goals) == [goals |-> goals, players |-> Telemetry(list)]

-----------------------------------------------------------------------------
(* Fault: players who are not in the newest update are forgotten.          *)
MergeShallow(state, live) ==
  [goals |-> Over(live.goals, state.goals), players |-> live.players]

(* merge_json_value: what the update has replaces, the rest stays.         *)
Merge(state, live) ==
  [goals |-> Over(live.goals, state.goals),
   players |-> [who \in DOMAIN live.players \cup DOMAIN state.players |->
                  Over(Field(live.players, who, Nothing), Field(state.players, who, Nothing))]]

Init ==
  /\ board = [goals |-> Nothing, players |-> Nothing]
  /\ updates = 0 /\ reported = <<>>

Update(list, goals) ==
  /\ updates < MaxUpdates /\ updates' = updates + 1
  /\ board' = Merge(board, LiveState(list, goals))
  /\ reported' = Append(reported, list)

(* The snapshot is taken, reported (below), and the state reset.           *)
Boundary ==
  /\ board' = [goals |-> [s \in Sides |-> 0], players |-> Nothing]
  /\ reported' = <<>>
  /\ UNCHANGED updates

Next == Boundary \/ \E list \in Lists, goals \in Scores : Update(list, goals)

Spec == Init /\ [][Next]_vars

-----------------------------------------------------------------------------
(* upload_aggregation, with the snapshot as its argument.                  *)

Players == DOMAIN board.players
Number(who, f) == Field(board.players[who], f, 0)
Has(who, f) == f \in DOMAIN board.players[who]
On(side) == {who \in Players : Has(who, "team") /\ Number(who, "team") = side}

(* build_match_index_entry and compute_match_outcome.                      *)
Scored(side) == Field(board.goals, side, 0)

(* The side that won, if one did. *)
Winners == {s \in Sides : \A t \in Sides \ {s} : Scored(s) > Scored(t)}
OnWinners == UNION {On(s) : s \in Winners}

BestScores == {Number(who, "score") : who \in {w \in OnWinners : Has(w, "score")}}

(* sanitize_firebase_key: different players may come to have one key.      *)
Illegal == {".", "#", "$", "/", "[", "]"}
Key(who) == [i \in DOMAIN who |-> IF who[i] \in Illegal THEN "_" ELSE who[i]]

(* build_player_match_logs, and the log that is found for a player's key:  *)
(* the first one, in the order of a sorted map.                            *)
Log(who) == [f \in {"shots", "score"} |-> Number(who, f)]
LogFor(who) == Log(CHOOSE w \in Players : Key(w) = Key(who))

IsMvp(who) ==
  /\ who \in OnWinners /\ Has(who, "score")
  /\ Number(who, "score") = Max(BestScores)

(* What update_cumulative_stats adds: to wins, losses, mvps, or neither.   *)
PlayerResult(who) ==
  IF Winners = {} \/ ~Has(who, "team") THEN {}
  ELSE (IF who \in OnWinners THEN {"win"} ELSE {"loss"})
       \cup (IF IsMvp(who) THEN {"mvp"} ELSE {})

(* What update_cumulative_team_stats adds, for a side that has players.    *)
BlueWon == Blue \in Winners

(* Fault: both sides get the result of the blue one.                       *)
SideResultOfBlue(side) == {IF BlueWon THEN "win" ELSE "loss"}

SideResult(side) ==
  {IF side = Blue THEN IF BlueWon THEN "win" ELSE "loss"
                  ELSE IF ~BlueWon THEN "win" ELSE "loss"}

SideShots(side) == SumFunction([who \in On(side) |-> Number(who, "shots")])

-----------------------------------------------------------------------------
(* Where the updates since the boundary speak of who's f: <<update, entry>>, *)
(* of the entries that no later one of the same update replaces.           *)
Tells(list, i, who, f) ==
  /\ i \in DOMAIN list /\ Who(list[i]) = who /\ f \in DOMAIN list[i].stats
  /\ \A j \in DOMAIN list : j > i /\ Who(list[j]) = who => list[j].stats = Nothing

Mentions(who, f) ==
  {m \in (DOMAIN reported) \X (1..MaxEntries) : Tells(reported[m[1]], m[2], who, f)}

LastTold(who, f) ==
  LET of == Mentions(who, f)
      last == CHOOSE m \in of : \A n \in of : n[1] <= m[1]
  IN  IF of = {} THEN 0 ELSE reported[last[1]][last[2]].stats[f]

(* Where they speak of anybody, and who was said to be on a side at last.  *)
Told == {m \in (DOMAIN reported) \X (1..MaxEntries) :
           m[2] \in DOMAIN reported[m[1]] /\ reported[m[1]][m[2]].stats # Nothing}

OnASide == {who \in Players : Mentions(who, "team") # {} /\ LastTold(who, "team") \in Sides}

(***************************************************************************)
(* A match's log of a player whose key is nobody else's has the numbers    *)
(* the game told last in this match, though updates are sparse and players *)
(* come, go and are listed twice; nobody of an earlier match has one; and  *)
(* the two sides' shots are those of the logs of the players on a side.    *)
(***************************************************************************)
LogsTellTheMatch ==
  /\ Players = {Who(reported[m[1]][m[2]]) : m \in Told}
  /\ \A who \in Players :
       (\A w \in Players \ {who} : Key(w) # Key(who)) =>
         \A f \in {"shots", "score"} : LogFor(who)[f] = LastTold(who, f)
  /\ SideShots(Blue) + SideShots(Orange) =
       SumFunction([who \in OnASide |-> LastTold(who, "shots")])

(***************************************************************************)
(* When a side has won, every player has won or lost with their side, and  *)
(* the MVPs are the winners with a score that no other winner has outdone. *)
(***************************************************************************)
OneResult ==
  Winners # {} =>
    /\ \A side \in Sides, who \in Players :
         who \in On(side) => PlayerResult(who) \ {"mvp"} = SideResult(side)
    /\ \A who \in Players :
         "mvp" \in PlayerResult(who) <=>
           /\ "win" \in PlayerResult(who) /\ Has(who, "score")
           /\ \A w \in Players :
                "win" \in PlayerResult(w) /\ Has(w, "score")
                => Number(w, "score") <= Number(who, "score")

-----------------------------------------------------------------------------
(* What a test says of this code.                                          *)

(* compute_match_outcome_draw_returns_none: a draw has no winner.          *)
NobodyWinsADraw ==
  Scored(Blue) = Scored(Orange) =>
    \A side \in Sides : On(side) # {} => "win" \notin SideResult(side)
=============================================================================
