\* Every stream of six units in chunks of at most three, with a buffer that
\* overflows, over both transports.
SPECIFICATION Spec
CONSTANTS
  Scheme = "ws"
  MaxText = 6
  MaxChunk = 3
  MaxPending = 3
INVARIANTS
  TypeOK
  DecodesTheStream
  StatusTellsSession
