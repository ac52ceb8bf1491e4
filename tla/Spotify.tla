------------------------------ MODULE Spotify ------------------------------
(***************************************************************************)
(* A Spotify song in play (spotify/spotify.cpp, spotifySong.cpp).            *)
(* The playback thread of Music is in Spotify::play; an Ice or chat thread   *)
(* is in Spotify::stop, which Music::stop calls with its songsMutex locked;  *)
(* Spotify::run handles the session's events in a third thread; libspotify,  *)
(* external, delivers frames in a fourth.                                    *)
(*                                                                          *)
(* A frame is <<song, number>>.  Songs come one after the other, with        *)
(* formats in turn.  One Music uses the session.                             *)
(***************************************************************************)
EXTENDS Integers, Sequences, SequencesExt

CONSTANTS MaxSongs,     \* bound: songs played
          Frames,       \* frames of a track
          BufferLimit,  \* 32768: a buffer with more gets nothing
          MaxBatch      \* frames that libspotify delivers at once

ASSUME SpotifyAssumption ==
  /\ MaxSongs \in Nat /\ Frames \in Nat /\ BufferLimit \in Nat /\ MaxBatch \in Nat \ {0}

None == 0
Song == 1 .. MaxSongs
Format(s) == s % 2

VARIABLES
  player,        \* where the playback thread is
  song,          \* the song it plays
  musicSong,     \* Music::currentSong
  currentSong, playback, endOfSong,
  framesBuffer, framesBufferFormat,
  stopper,       \* where the thread in stop is
  notify,
  main,          \* where run is; the event whose callback it is in
  \* libspotify
  track, delivered,   \* what is loaded, and how many frames of it were taken
  metadata,           \* tracks that are loaded well enough to be played
  events,             \* what process_events will call back for
  delivery,           \* frames on their way into musicDelivery
  \* history
  heard,         \* the last frame handed to Music
  missed,        \* a notification came between the player's test and its sleep
  unnotified,    \* why this song's player may sleep on although no frame comes
  late           \* a delivery ran after its track was unloaded

playing == <<song, musicSong>>
flags == <<currentSong, playback, endOfSong>>
buffer == <<framesBuffer, framesBufferFormat>>
running == <<notify, main>>
libspotify == <<track, delivered, metadata, events>>
history == <<heard, unnotified, late>>
vars == <<player, playing, flags, buffer, stopper, running, libspotify, delivery, history, missed>>

(* In place of a delivery whose format failed the assertion.                 *)
Misfit == << <<None, 0>> >>

Faulty == player = "thrown" \/ stopper = "notCurrent" \/ delivery = Misfit

Init ==
  /\ player = "idle" /\ song = 0 /\ musicSong = None
  /\ currentSong = None /\ playback = FALSE /\ endOfSong \in BOOLEAN
  /\ framesBuffer = <<>> /\ framesBufferFormat \in {0, 1}
  /\ stopper = "idle"
  /\ notify = FALSE /\ main = "untimed"
  /\ track = None /\ delivered = 0 /\ metadata = {} /\ events = {} /\ delivery = <<>>
  /\ heard = <<0, 0>> /\ missed = FALSE /\ unnotified = {} /\ late = FALSE

-----------------------------------------------------------------------------
(* Locks.  process_events runs its callbacks under spotifyApiMutex; stop       *)
(* holds playbackNotifyMutex from its notification to its end, and Music's    *)
(* songsMutex throughout.                                                    *)
ApiFree == main \in {"untimed", "timed", "process"}
NotifyMutexFree == stopper # "clear"
SongsMutexFree == stopper = "idle"

(* playbackNotifyCond has at most one waiter, so notify_one is notify_all.  A  *)
(* player that has tested what the notification is about and is not asleep    *)
(* yet misses it.                                                            *)
NotifyPlayer(tested) ==
  /\ player' = CASE player = "asleep" -> "woken"
                 [] player = "loadAsleep" -> "loadWoken"
                 [] OTHER -> player
  /\ missed' = (missed \/ player \in tested)
NotifyNobody == UNCHANGED <<player, missed>>

-----------------------------------------------------------------------------
(* The playback thread: Music::run, SpotifySong::play and Spotify::play.      *)

(* createSong and Music::run's step to it; what the last song unloaded stays.  *)
PlayBegins ==
  /\ player = "idle" /\ SongsMutexFree /\ song < MaxSongs
  /\ song' = song + 1 /\ musicSong' = song + 1
  /\ player' = "load" /\ missed' = FALSE /\ unnotified' = {}
  /\ UNCHANGED <<flags, buffer, stopper, running, libspotify, delivery, heard, late>>

(* sp_session_player_load, and with the lock still held player_play, which    *)
(* never has to wait in libspotify.  Another error is thrown, as a pointer    *)
(* that nothing catches.  A load drops what was loaded.                      *)
Load ==
  /\ player = "load" /\ ApiFree
  /\ \/ /\ song \in metadata
        /\ track' = song /\ delivered' = 0 /\ events' = events \ {"endOfTrack"}
        /\ player' = "current"
     \/ /\ song \notin metadata
        /\ player' = "loadTested" /\ UNCHANGED <<track, delivered, events>>
     \/ player' = "thrown" /\ UNCHANGED <<track, delivered, events>>
  /\ UNCHANGED <<playing, flags, buffer, stopper, running, metadata, delivery, history, missed>>

PlayerStep(from, to) ==
  /\ player = from /\ player' = to
  /\ UNCHANGED <<playing, buffer, stopper, running, libspotify, delivery, heard, late>>

SetCurrentSong ==
  /\ PlayerStep("current", "playback")
  /\ currentSong' = song
  /\ UNCHANGED <<playback, endOfSong, unnotified, missed>>

(* A stop that was as far as its notification is lost.                       *)
SetPlayback ==
  /\ PlayerStep("playback", "end")
  /\ playback' = TRUE
  /\ unnotified' = IF stopper = "clear" \/ musicSong # song
                   THEN unnotified \cup {"stopOverwritten"} ELSE unnotified
  /\ UNCHANGED <<currentSong, endOfSong, missed>>

(* A track that ended already never ends.                                    *)
ResetEndOfSong ==
  /\ PlayerStep("end", "loop")
  /\ endOfSong' = FALSE
  /\ unnotified' = IF endOfSong /\ track = None
                   THEN unnotified \cup {"endOverwritten"} ELSE unnotified
  /\ UNCHANGED <<currentSong, playback, missed>>

Loop ==
  /\ PlayerStep("loop", IF playback /\ (~endOfSong \/ framesBuffer # <<>>) THEN "take" ELSE "leave")
  /\ UNCHANGED <<flags, unnotified, missed>>

(* All frames there are go to Music, and the player sleeps for the time that  *)
(* Music::send asks for; or there are none.                                  *)
Take ==
  /\ player = "take"
  /\ IF framesBuffer # <<>>
       THEN /\ heard' = Last(framesBuffer) /\ framesBuffer' = <<>>
            /\ player' = "loop"
       ELSE player' = "tested" /\ UNCHANGED <<heard, framesBuffer>>
  /\ UNCHANGED <<playing, flags, framesBufferFormat, stopper, running, libspotify, delivery,
                 unnotified, late, missed>>

(* wait has no predicate.                                                    *)
Sleep ==
  /\ NotifyMutexFree
  /\ PlayerStep("tested", "asleep") \/ PlayerStep("loadTested", "loadAsleep")
  /\ UNCHANGED <<flags, unnotified, missed>>

(* A condition variable may wake its waiter unasked.                          *)
SpuriousWake ==
  /\ PlayerStep("asleep", "woken") \/ PlayerStep("loadAsleep", "loadWoken")
  /\ UNCHANGED <<flags, unnotified, missed>>

Wake ==
  /\ NotifyMutexFree
  /\ PlayerStep("woken", "loop") \/ PlayerStep("loadWoken", "load")
  /\ missed' = FALSE
  /\ UNCHANGED <<flags, unnotified>>

Leave ==
  /\ PlayerStep("leave", "left")
  /\ currentSong' = None
  /\ UNCHANGED <<playback, endOfSong, unnotified, missed>>

(* Music::run lets the song go, under songsMutex.                            *)
Ended ==
  /\ player = "left" /\ SongsMutexFree
  /\ player' = "idle" /\ musicSong' = None
  /\ UNCHANGED <<song, flags, buffer, stopper, running, libspotify, delivery, history, missed>>

-----------------------------------------------------------------------------
(* Music::stop with a song: the assertion, then unload without                *)
(* spotifyApiMutex, then the flags.                                          *)

StopBegins ==
  /\ stopper = "idle" /\ musicSong # None
  /\ stopper' = IF currentSong = musicSong THEN "unload" ELSE "notCurrent"
  /\ UNCHANGED <<playing, flags, buffer, running, libspotify, delivery, history>>
  /\ NotifyNobody

Unload == track' = None /\ events' = events \ {"endOfTrack"} /\ UNCHANGED <<delivered, metadata>>

StopUnloads ==
  /\ stopper = "unload" /\ stopper' = "reset"
  /\ Unload
  /\ UNCHANGED <<playing, flags, buffer, running, delivery, history>>
  /\ NotifyNobody

StopResets ==
  /\ stopper = "reset" /\ stopper' = "notify"
  /\ currentSong' = None
  /\ UNCHANGED <<playing, playback, endOfSong, buffer, running, libspotify, delivery, history>>
  /\ NotifyNobody

(* Faulty variant: the notification is forgotten.                            *)
StopNotifiesNobody ==
  /\ stopper = "notify" /\ stopper' = "clear"
  /\ playback' = FALSE
  /\ UNCHANGED <<playing, currentSong, endOfSong, buffer, running, libspotify, delivery, history>>
  /\ NotifyNobody

StopNotifies ==
  /\ stopper = "notify" /\ stopper' = "clear"
  /\ playback' = FALSE
  /\ UNCHANGED <<playing, currentSong, endOfSong, buffer, running, libspotify, delivery, history>>
  /\ NotifyPlayer({"take", "tested"})

StopClears ==
  /\ stopper = "clear" /\ stopper' = "idle"
  /\ framesBuffer' = <<>> /\ musicSong' = None
  /\ UNCHANGED <<song, flags, framesBufferFormat, running, libspotify, delivery, history>>
  /\ NotifyNobody

Stop == StopBegins \/ StopUnloads \/ StopResets \/ StopNotifies \/ StopClears

-----------------------------------------------------------------------------
(* libspotify, external.  What it wants run to know it says with              *)
(* notifyMainThread; unload takes back the end of a track.                   *)

Occurs(event) ==
  /\ events' = events \cup {event} /\ notify' = TRUE
  /\ UNCHANGED <<playing, flags, buffer, stopper, main, track, delivered, delivery, history>>
  /\ NotifyNobody

MetadataArrives ==
  /\ song # 0 /\ song \notin metadata
  /\ metadata' = metadata \cup {song}
  /\ Occurs("metadataUpdated")

TrackEnds ==
  /\ track # None /\ delivered = Frames /\ delivery = <<>>
  /\ "endOfTrack" \notin events /\ main # "endOfTrack"
  /\ UNCHANGED metadata
  /\ Occurs("endOfTrack")

PlaysElsewhere ==
  /\ track # None /\ "playTokenLost" \notin events
  /\ UNCHANGED metadata
  /\ Occurs("playTokenLost")

Delivers ==
  /\ delivery = <<>> /\ track # None
  /\ \E n \in 1 .. MaxBatch :
       /\ delivered + n <= Frames
       /\ delivery' = [k \in 1 .. n |-> <<track, delivered + k>>]
  /\ UNCHANGED <<playing, flags, buffer, stopper, running, libspotify, history>>
  /\ NotifyNobody

-----------------------------------------------------------------------------
(* musicDelivery.  What is not taken is delivered again.                     *)

(* Faulty variant: the limit is tested for samples of two channels.          *)
FullInSamples == Len(framesBuffer) > 2 * BufferLimit
Full == Len(framesBuffer) > BufferLimit
FormatFits == framesBuffer = <<>> \/ framesBufferFormat = Format(delivery[1][1])

DeliverInto(frames) ==
  /\ delivery # <<>> /\ ~Full /\ FormatFits
  /\ framesBuffer' = frames
  /\ framesBufferFormat' = Format(delivery[1][1])
  /\ delivered' = IF track = delivery[1][1] THEN delivered + Len(delivery) ELSE delivered
  /\ late' = (late \/ track # delivery[1][1])
  /\ delivery' = <<>>
  /\ UNCHANGED <<playing, flags, stopper, running, track, metadata, events, heard, unnotified>>

(* Faulty variant: the new frames come first.                                *)
DeliverNewFirst == DeliverInto(delivery \o framesBuffer) /\ NotifyPlayer({"tested"})
MusicDelivery == DeliverInto(framesBuffer \o delivery) /\ NotifyPlayer({"tested"})

DeliveryRefused ==
  /\ delivery # <<>> /\ (Full \/ ~FormatFits)
  /\ delivery' = IF Full THEN <<>> ELSE Misfit
  /\ UNCHANGED <<playing, flags, buffer, stopper, running, libspotify, history>>
  /\ NotifyNobody

-----------------------------------------------------------------------------
(* run: the first wait tests notify, the later ones only end, with a           *)
(* notification or a timeout: process_events leaves a timeout.               *)

RunWakes ==
  /\ main = "timed" \/ (main = "untimed" /\ notify)
  /\ notify' = FALSE /\ main' = "process"
  /\ UNCHANGED <<playing, flags, buffer, stopper, libspotify, delivery, history>>
  /\ NotifyNobody

(* With its lock, process_events calls back, or is done.                     *)
ProcessEvents ==
  /\ main = "process"
  /\ \/ \E event \in events : main' = event /\ events' = events \ {event}
     \/ events = {} /\ main' = "timed" /\ UNCHANGED events
  /\ UNCHANGED <<playing, flags, buffer, stopper, notify, track, delivered, metadata,
                 delivery, history>>
  /\ NotifyNobody

Returns(callback) ==
  /\ main = callback /\ main' = "process"
  /\ UNCHANGED <<playing, currentSong, playback, buffer, stopper, notify, delivery, heard, late>>

MetadataUpdated ==
  /\ Returns("metadataUpdated")
  /\ UNCHANGED <<endOfSong, libspotify, unnotified>>
  /\ NotifyPlayer({"loadTested"})

EndOfTrack ==
  /\ Returns("endOfTrack")
  /\ Unload
  /\ endOfSong' = TRUE
  /\ UNCHANGED unnotified
  /\ NotifyNobody

PlayTokenLost ==
  /\ Returns("playTokenLost")
  /\ Unload
  /\ unnotified' = unnotified \cup {"tokenLost"}
  /\ UNCHANGED endOfSong
  /\ NotifyNobody

-----------------------------------------------------------------------------
Next ==
  /\ ~Faulty
  /\ \/ PlayBegins \/ Load \/ SetCurrentSong \/ SetPlayback \/ ResetEndOfSong
     \/ Loop \/ Take \/ Sleep \/ SpuriousWake \/ Wake \/ Leave \/ Ended
     \/ Stop
     \/ MetadataArrives \/ TrackEnds \/ PlaysElsewhere \/ Delivers
     \/ MusicDelivery \/ DeliveryRefused
     \/ RunWakes \/ ProcessEvents \/ MetadataUpdated \/ EndOfTrack \/ PlayTokenLost

Spec == Init /\ [][Next]_vars

-----------------------------------------------------------------------------
Loading == {"load", "loadTested", "loadAsleep", "loadWoken", "current"}

(* Every variable stays in its range; the buffer holds at most a batch more    *)
(* than its limit allows.                                                    *)
TypeOK ==
  /\ player \in Loading \cup {"idle", "playback", "end", "loop", "take", "tested", "asleep",
                               "woken", "leave", "left", "thrown"}
  /\ song \in 0 .. MaxSongs /\ {musicSong, currentSong, track} \subseteq {None, song}
  /\ playback \in BOOLEAN /\ endOfSong \in BOOLEAN
  /\ Len(framesBuffer) <= BufferLimit + MaxBatch /\ framesBufferFormat \in {0, 1}
  /\ stopper \in {"idle", "unload", "reset", "notify", "clear", "notCurrent"}
  /\ notify \in BOOLEAN /\ metadata \subseteq Song
  /\ events \subseteq {"metadataUpdated", "endOfTrack", "playTokenLost"}
  /\ main \in {"untimed", "timed", "process", "metadataUpdated", "endOfTrack", "playTokenLost"}
  /\ delivered \in 0 .. Frames /\ Len(delivery) <= MaxBatch

(* Frames reach Music in the order of delivery, none lost, none twice, over    *)
(* the changes of songs: a song's first frame follows what was heard of the   *)
(* song before it, and stop throws away frames of its own song only.  The     *)
(* formats of two songs never meet in the buffer.  The one exception is a     *)
(* delivery that was under way when its track was unloaded.                  *)
Follows(a, b) == (b[1] = a[1] /\ b[2] = a[2] + 1) \/ (b[1] > a[1] /\ b[2] = 1)
FramesInOrder ==
  ~late =>
    /\ delivery # Misfit
    /\ LET all == <<heard>> \o framesBuffer
       IN  \A i \in 1 .. Len(all) - 1 : Follows(all[i], all[i + 1])
    /\ framesBuffer # <<>> => Last(framesBuffer)[1] = song
    /\ player = "idle" => framesBuffer = <<>>

(* A sleeping player is woken for what it waits for, unless the notification   *)
(* came between its test and its sleep.  A player for which no frame will      *)
(* come any more sleeps on only for one of these reasons: endOfTrack notifies  *)
(* nobody, neither does playTokenLost; play itself overwrites a stop or an    *)
(* end that comes while it starts.  And stop's assertion fails only while the  *)
(* song is being loaded or after play has let it go.                         *)
StuckOnlyIfMissed ==
  /\ player = "asleep" =>
       /\ framesBuffer # <<>> \/ ~playback => missed
       /\ track = None /\ delivery = <<>> /\ stopper = "idle" /\ ~missed =>
            endOfSong \/ unnotified # {}
  /\ player = "loadAsleep" /\ song \in metadata =>
       missed \/ "metadataUpdated" \in events \cup {main}
  /\ stopper = "notCurrent" => player \in Loading \cup {"left"}
=============================================================================
