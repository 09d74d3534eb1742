\* A lane of two, four events, lost answers, refusals, a shutdown.
SPECIFICATION FairSpec
CONSTANTS
  HistoricalCap = 2
  MayShutdown = TRUE
  MaxEvents = 4
  MaxLog = 5
PROPERTIES
  Delivered
  JoinsHistorical
  ImplementsOutbox
