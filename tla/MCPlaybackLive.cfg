SPECIFICATION FairSpec
CONSTANTS
  s1 = s1
  s2 = s2
  ice = ice
  asio = asio
  Songs <- OneSong
  NoSong = NoSong
  Player = run
  Remote <- OneRemote
  Chat <- OneChat
  Free = Free
  Calls <- EveryCall
PROPERTY
  CallWakesPlayer
