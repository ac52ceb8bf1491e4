\* Version, Authenticate and two comments, two pings queued at most.
SPECIFICATION FairSpec
CONSTANTS
  Main = "main"
  Asio = "asio"
  Senders <- MCSenders
  MaxMessages = 4
  MaxPings = 2
INVARIANTS
  TypeOK
  FaultNeedsRaceOrDisconnect
  NoMessageStranded
PROPERTIES
  DeliveredInOrder
  QueueDrains
\* A client that was disconnected, or crashed, stops.
CHECK_DEADLOCK FALSE
