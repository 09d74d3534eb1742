\* Two players, two registered teams, one retry, two nodes that do not parse,
\* lost answers, a shutdown.
SPECIFICATION FairSpec
CONSTANTS
  p1 = p1
  p2 = p2
  t1 = t1
  Players = {p1, p2}
  Teams = {t1, t2}
  NoTeam = none
  Lineups <- TwoLineups
  Damaged <- SomeDamaged
  MaxFailures = 1
INVARIANTS
  TypeOK
  CountedOnce
  MajorityRule
PROPERTIES
  NothingLost
  AggregationEnds
