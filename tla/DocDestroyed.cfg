\* A statement of the documents that the code does not keep.
SPECIFICATION Spec
CONSTANTS
  Matches = {m1}
  Fallback = f
  NoId = none
  Emitted <- DocumentedEvents
  ReplayFlags = {FALSE}
  LiveCap = 1
  FeedCap = 1
  FeedMaxFailures = 3
  CompactionMaxFailures = 3
  MayShutdown = FALSE
  MaxEvents = 4
PROPERTY MatchDestroyedPreserved
