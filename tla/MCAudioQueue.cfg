\* Four frames, two changes of codec.
SPECIFICATION FairSpec
CONSTANTS
  AudioFrames = 2
  CodecMap <- MCCodecMap
  Versions <- MCVersions
  CELTTypes <- MCTypes
  Chunks <- MCChunks
  MaxFrames = 4
  MaxSelects = 2
INVARIANTS
  TypeOK
  AudioInOrder
  PacketsMatchAudio
  FaultNeedsCodecChange
PROPERTIES
  AudioFlows
\* The queue thread sleeps when no more audio comes, and a fault ends it all.
CHECK_DEADLOCK FALSE
