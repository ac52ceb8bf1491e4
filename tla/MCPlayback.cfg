SPECIFICATION Spec
CONSTANTS
  s1 = s1
  s2 = s2
  ice = ice
  asio = asio
  Songs <- TwoSongs
  NoSong = NoSong
  Player = run
  Remote <- OneRemote
  Chat <- OneChat
  Free = Free
  Calls <- EveryCall
INVARIANTS
  TypeOK
  SongAlive
  RecordedOnce
  LockedStatusSafe
  EmptyPopNeedsClear
  SleepIsHeard
PROPERTY
  ImplementsPlaylist
