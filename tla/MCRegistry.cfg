\* Three servers on two ids, three crashes.
SPECIFICATION Spec
CONSTANTS
  Infos = {"a", "b", "c"}
  Ids = {"id1", "id2"}
  Hash <- MCHash
  MaxCrashes = 3
INVARIANTS
  TypeOK
  FileIsMemory
  AckedIsDurable
  GoneStaysGone
\* A process that hangs in Connect stops once the crashes are used up.
CHECK_DEADLOCK FALSE
