\* Two keys, seven datagrams under the second, two under way at a time.
SPECIFICATION Spec
CONSTANTS
  Base = 6
  Half = 3
  Window = 3
  Nonces <- MCNonces
  MaxKeys = 2
  MaxSent <- MCSent
  MaxNet = 2
INVARIANTS
  TypeOK
  AcceptedOnce
  LostCounted
  RefusalIsStale
