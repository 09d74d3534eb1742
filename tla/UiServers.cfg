\* Two servers in a row, two clients, one control connection at a time beside
\* the timers and the supervisor, which stop the server as well.
SPECIFICATION FairSpec
CONSTANTS
  MaxServers = 2
  MaxConnections = 2
  Handlers = {h1}
INVARIANTS
  TypeOK
  NoOrphan
  CountIsClients
PROPERTIES
  OnlyLastTimerStops
  AbandonedServerStops
  ShutdownExits
