----------------------------- MODULE MCPlayback -----------------------------
(* Instances of Playback for TLC: each cfg picks the songs, the threads and  *)
(* the calls of its run from the definitions below.                          *)
EXTENDS Playback

CONSTANTS s1, s2, ice, asio

OneSong == {s1}
TwoSongs == {s1, s2}
OneRemote == {ice}
OneChat == {asio}
NoChat == {}
EveryCall == AllCalls
PlayAndClear == {"play", "clearQueue"}
PlayAndStop == {"play", "stop"}
=============================================================================
