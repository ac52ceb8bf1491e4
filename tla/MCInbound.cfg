\* Six messages, the first two of them the handshake's.
SPECIFICATION Spec
CONSTANTS
  HEADER = 2
  Body <- MCBody
  Sessions <- MCSessions
  Self = 1
  Channels <- MCChannels
  MaxMessages = 6
  ReadAhead = 3
INVARIANTS
  TypeOK
  FramesInSync
  RosterMirrors
  PromptUnlessSplit
\* The reader may stop after Disconnect or an error.
CHECK_DEADLOCK FALSE
