\* Two songs of up to 14 samples, or two short ones and two calls for the volume.
SPECIFICATION Spec
CONSTANTS
  ice = ice
  asio = asio
  FRAME_SIZE = 3
  GraphDelay = 1
  SAMPLES_IN_10MS = 2
  AudioFrames = 2
  Rates <- MCRates
  Chunks <- MCChunks
  Callers <- MCCallers
  MaxVolume = 3
  StartVolume = 2
  SizeValues = 64
  RepValues = 64
  Lateness = 3
  Bounds <- MCBounds
INVARIANTS
  TypeOK
  SamplesInOrder
  NoUnderrun
  VolumeHeard
\* The program ends at its last song or at a fault.
CHECK_DEADLOCK FALSE
