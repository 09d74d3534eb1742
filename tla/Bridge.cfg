\* Two clients and two daemons in turn, two statuses each, one frame on the way.
SPECIFICATION FairSpec
CONSTANTS
  MaxStatus = 1
  MaxDaemons = 2
  MaxLaunches = 2
  MaxFrames = 1
INVARIANT TypeOK
PROPERTIES
  ShownInOrder
  SilentAfterJoin
  CatchesUp
  ExitEnds
