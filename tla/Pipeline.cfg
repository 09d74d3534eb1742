\* Late events, full lanes and lost deletes around a match boundary, with the token
\* firing at any moment.
SPECIFICATION FairSpec
CONSTANTS
  Matches = {m1}
  Fallback = f
  NoId = none
  Emitted <- BarrierEvents
  ReplayFlags = {FALSE}
  LiveCap = 2
  FeedCap = 1
  FeedMaxFailures = 1
  CompactionMaxFailures = 1
  MayShutdown = TRUE
  MaxEvents = 3
INVARIANTS
  TypeOK
  BarrierDrains
  NoDataBleed
  ResetNeverBlocks
  NoQueryWhileDraining
PROPERTIES
  FeedImplementsNode
  LiveImplementsNode
  CompactionEnds
  ShutdownJoins
