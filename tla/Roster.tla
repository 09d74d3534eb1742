------------------------------- MODULE Roster -------------------------------
(***************************************************************************)
(* Majority-rule roster resolution: which registered team played a side.   *)
(***************************************************************************)
EXTENDS Naturals, FiniteSets

(* What the registry answers for a player's key: a team, or NoTeam when    *)
(* the lookup failed, found nothing, or found no team.                     *)
CONSTANT NoTeam

(* The tally: how many of these players are registered to a team.          *)
Tally(vote, t) == Cardinality({p \in DOMAIN vote : vote[p] = t})

VotedFor(vote) == {vote[p] : p \in DOMAIN vote} \ {NoTeam}

(* max_by_key over a HashMap: one of the teams with the highest count,     *)
(* whichever the iteration meets last.                                     *)
MaxEntries(vote) ==
  {t \in VotedFor(vote) :
     \A u \in VotedFor(vote) : Tally(vote, u) <= Tally(vote, t)}

(* Fault: the entry found is not compared with the others.                 *)
ResolutionsUnchecked(vote, temp) ==
  IF MaxEntries(vote) = {} THEN {temp} ELSE MaxEntries(vote)

(* The results resolve_team_id can have: the entry found, if it is ahead   *)
(* of every other one, and the temporary id otherwise.                     *)
Resolutions(vote, temp) ==
  IF MaxEntries(vote) = {} THEN {temp}
  ELSE {IF \A u \in VotedFor(vote) \ {t} : Tally(vote, t) > Tally(vote, u)
        THEN t ELSE temp : t \in MaxEntries(vote)}

(* Strict majority rule, as a relation: t is ahead of every other team.    *)
Majority(vote, t) ==
  /\ t # NoTeam /\ Tally(vote, t) > 0
  /\ \A p \in DOMAIN vote :
       vote[p] \in {t, NoTeam} \/ Tally(vote, t) > Tally(vote, vote[p])
=============================================================================
