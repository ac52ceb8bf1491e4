\* Two songs, batches of two frames, a buffer that takes nothing once it has two.
SPECIFICATION Spec
CONSTANTS
  MaxSongs = 2
  Frames = 4
  BufferLimit = 1
  MaxBatch = 2
INVARIANTS
  TypeOK
  FramesInOrder
  StuckOnlyIfMissed
\* The program may stop at its last song or at a failed assertion.
CHECK_DEADLOCK FALSE
