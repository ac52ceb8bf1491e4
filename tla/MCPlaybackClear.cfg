SPECIFICATION Spec
CONSTANTS
  s1 = s1
  s2 = s2
  ice = ice
  asio = asio
  Songs <- OneSong
  NoSong = NoSong
  Player = run
  Remote <- OneRemote
  Chat <- NoChat
  Free = Free
  Calls <- PlayAndClear
INVARIANT
  NoEmptyPop
