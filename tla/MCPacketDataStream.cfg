\* Three items in buffers from none to more than enough.
SPECIFICATION StreamSpec
CONSTANTS
  Values <- MCValues
  Blocks <- MCBlocks
  Capacities <- MCCapacities
  MaxItems = 3
INVARIANTS
  StreamOK
  Accounting
  RoundTrip
\* Everything has been read.
CHECK_DEADLOCK FALSE
