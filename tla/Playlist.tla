------------------------------ MODULE Playlist ------------------------------
(***************************************************************************)
(* What a Music object promises about the songs it is given, with no        *)
(* threads and no mutexes: songs are taken in the order in which they were  *)
(* accepted, one at a time, a song that was taken is finished exactly once  *)
(* before the next one is taken, a song is neither lost nor played twice    *)
(* (only clearing the queue drops songs), and the null song is never taken. *)
(***************************************************************************)
EXTENDS Sequences

CONSTANTS Songs, NoSong

VARIABLES
  pending,   \* accepted, not taken yet
  current,   \* the song that was taken, or NoSong
  finished,  \* the songs that were played or stopped
  dropped    \* the songs that were cleared away

lists == <<pending, current, finished, dropped>>

Members(s) == {s[i] : i \in DOMAIN s}
Known == Members(pending) \cup {current} \cup finished \cup dropped

Init ==
  /\ pending = <<>>
  /\ current = NoSong
  /\ finished = {}
  /\ dropped = {}

Accept(s) ==
  /\ s = NoSong \/ s \notin Known
  /\ pending' = Append(pending, s)
  /\ UNCHANGED <<current, finished, dropped>>

Take ==
  /\ current = NoSong
  /\ pending # <<>>
  /\ Head(pending) # NoSong
  /\ current' = Head(pending)
  /\ pending' = Tail(pending)
  /\ UNCHANGED <<finished, dropped>>

Finish ==
  /\ current # NoSong
  /\ finished' = finished \cup {current}
  /\ current' = NoSong
  /\ UNCHANGED <<pending, dropped>>

Clear ==
  /\ pending' = <<>>
  /\ dropped' = dropped \cup (Members(pending) \ {NoSong})
  /\ UNCHANGED <<current, finished>>

Next ==
  \/ \E s \in Songs \cup {NoSong} : Accept(s)
  \/ Take \/ Finish \/ Clear

Spec == Init /\ [][Next]_lists
=============================================================================
