\* Matches that are initialized, played, ended and left.
SPECIFICATION Spec
CONSTANTS
  Matches = {m1}
  Fallback = f
  NoId = none
  Emitted <- MatchEvents
  ReplayFlags = {FALSE}
  LiveCap = 1
  FeedCap = 1
  FeedMaxFailures = 0
  CompactionMaxFailures = 0
  MayShutdown = FALSE
  MaxEvents = 5
INVARIANTS
  AggregatesTheMatch
  AggregatedOncePerVisit
