\* A statement of the documents that the code does not keep.
SPECIFICATION FairSpec
CONSTANTS
  MaxStatus = 0
  MaxDaemons = 1
  MaxLaunches = 1
  MaxFrames = 1
PROPERTY ConnectedAgain
