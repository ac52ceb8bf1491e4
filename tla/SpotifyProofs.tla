--------------------------- MODULE SpotifyProofs ---------------------------
(***************************************************************************)
(* For every number of songs, length of a track, size of buffer and batch:   *)
(* frames reach Music in order (FramesInOrder), and a player that sleeps for *)
(* ever does so for one of the reasons StuckOnlyIfMissed names.              *)
(*                                                                          *)
(* Four parts make them inductive.  PhaseInv says which flags go with which  *)
(* line of play and of stop: a track is loaded only between Load and Leave,  *)
(* stop is past its assertion only while its song plays, and playback or     *)
(* endOfSong can end the loop only after the track was unloaded.            *)
(* DeliveryInv says what libspotify holds back: the frames after those       *)
(* taken, of a song that was loaded.  OrderInv makes the frames heard, in    *)
(* the buffer and under way one sequence, LeaveInv says that play leaves no  *)
(* frame behind that stop does not clear, and WakeInv follows the reasons    *)
(* for a lost wake-up from the notification to the sleep.                    *)
(***************************************************************************)
EXTENDS Spotify, SequenceTheorems, TLAPS

Frame == Nat \X Nat
Unloaded == {"load", "loadTested", "loadAsleep", "loadWoken"}
Looping == {"loop", "take", "tested", "asleep", "woken"}
Started == {"playback", "end"} \cup Looping

FrameInv ==
  /\ heard \in Frame /\ framesBuffer \in Seq(Frame) /\ delivery \in Seq(Frame)
  /\ missed \in BOOLEAN /\ late \in BOOLEAN

PhaseInv ==
  /\ player = "idle" => musicSong = None
  /\ player # "idle" => song \in Song
  /\ musicSong # None => musicSong = song
  /\ player \in Unloaded \cup {"current", "left", "idle"} => currentSong = None
  /\ track # None => track = song /\ player \in {"current"} \cup Started
  /\ stopper \in {"unload", "reset", "notify", "clear"} =>
       musicSong = song /\ player \in Started \cup {"leave", "left"}
  /\ stopper \in {"reset", "notify", "clear"} => track = None
  /\ player \in Started \cup {"leave"} /\ musicSong = song /\ stopper = "idle" =>
       currentSong = song
  /\ player \in {"end"} \cup Looping /\ ~playback => track = None
  /\ player \in Looping /\ endOfSong => track = None
  /\ stopper = "notCurrent" => player \in Loading \cup {"left"}

(* A delivery is of a song that was loaded, and goes on where the frames taken  *)
(* of it end.                                                                *)
DeliveryInv ==
  delivery # <<>> /\ delivery # Misfit =>
    /\ delivery[1][1] \in 1 .. song
    /\ delivery[1][2] >= 1 /\ delivery[1][2] + Len(delivery) - 1 <= Frames
    /\ \A i \in 1 .. Len(delivery) :
         delivery[i] = <<delivery[1][1], delivery[1][2] + i - 1>>
    /\ delivery[1][1] = song => delivery[1][2] = delivered + 1 /\ player \notin Unloaded

OrderInv ==
  ~late =>
    /\ delivery # Misfit
    /\ heard[1] <= song
    /\ framesBuffer # <<>> =>
         /\ Follows(heard, framesBuffer[1])
         /\ framesBuffer[Len(framesBuffer)][1] = song
         /\ framesBufferFormat = Format(song)
         /\ delivery # <<>> => delivery[1][1] = song
    /\ \A i \in 1 .. Len(framesBuffer) - 1 : Follows(framesBuffer[i], framesBuffer[i + 1])
    /\ player \in Unloaded => heard[1] < song
    /\ track # None =>
         IF framesBuffer # <<>> THEN framesBuffer[Len(framesBuffer)] = <<song, delivered>>
         ELSE heard = <<song, delivered>> \/ (heard[1] < song /\ delivered = 0)

LeaveInv ==
  ~late =>
    /\ player \in Unloaded \cup {"idle"} => framesBuffer = <<>>
    /\ player \in {"leave", "left"} \/ (player \in {"end"} \cup Looping /\ ~playback) =>
         framesBuffer = <<>> \/ stopper = "clear"

(* A stop that has unloaded the track has ended the loop, or is about to.      *)
Stopped ==
  \/ stopper \in {"reset", "notify"}
  \/ (stopper = "clear" \/ musicSong # song) /\ (player = "playback" \/ ~playback)

WakeInv ==
  /\ player \in {"tested", "asleep"} /\ framesBuffer # <<>> => missed
  /\ player \in {"take", "tested", "asleep"} /\ ~playback => missed
  /\ player \in {"current"} \cup Started /\ track = None =>
       endOfSong \/ unnotified # {} \/ Stopped
  /\ player \in {"loadTested", "loadAsleep"} /\ song \in metadata =>
       missed \/ "metadataUpdated" \in events \cup {main}

SpotifyInv ==
  TypeOK /\ FrameInv /\ PhaseInv /\ DeliveryInv /\ OrderInv /\ LeaveInv /\ WakeInv

-----------------------------------------------------------------------------
(* Frames are pairs of numbers, wherever they are.                             *)
LEMMA FrameStep ==
  ASSUME TypeOK, FrameInv, [Next]_vars
  PROVE  FrameInv'
<1> USE DEF playing, flags, buffer, running, libspotify, history, FrameInv
<1>1. CASE Take
  <2>1. CASE framesBuffer = <<>>
    BY <1>1, <2>1 DEF Take
  <2>2. CASE framesBuffer # <<>>
    <3>1. heard' = framesBuffer[Len(framesBuffer)] /\ framesBuffer' = <<>>
      BY <1>1, <2>2 DEF Take, Last
    <3> QED BY <1>1, <2>2, <3>1 DEF Take
  <2> QED BY <2>1, <2>2
<1>2. CASE Delivers
  <2>1. PICK n \in 1 .. MaxBatch : delivery' = [k \in 1 .. n |-> <<track, delivered + k>>]
    BY <1>2 DEF Delivers
  <2>2. n \in Nat /\ track \in Nat /\ delivered \in Nat
    BY SpotifyAssumption DEF TypeOK, None
  <2>3. \A k \in 1 .. n : <<track, delivered + k>> \in Frame
    BY <2>2 DEF Frame
  <2>4. delivery' \in [1 .. n -> Frame]
    BY <2>1, <2>3
  <2>5. delivery' \in Seq(Frame)
    BY <2>2, <2>4, SeqDef
  <2> QED BY <1>2, <2>5 DEF Delivers, NotifyNobody
<1>3. CASE MusicDelivery
  BY <1>3 DEF MusicDelivery, DeliverInto, NotifyPlayer
<1>4. CASE DeliveryRefused
  <2>1. <<None, 0>> \in Frame
    BY DEF Frame, None
  <2>2. Misfit \in Seq(Frame) /\ <<>> \in Seq(Frame)
    BY <2>1 DEF Misfit
  <2> QED BY <1>4, <2>2 DEF DeliveryRefused, NotifyNobody
<1>5. CASE PlayBegins \/ Load \/ Ended
  BY <1>5 DEF PlayBegins, Load, Ended
<1>6. CASE SetCurrentSong \/ SetPlayback \/ ResetEndOfSong \/ Loop \/ Sleep \/ Leave
  <2>1. UNCHANGED <<heard, framesBuffer, delivery, missed, late>>
    BY <1>6 DEF SetCurrentSong, SetPlayback, ResetEndOfSong, Loop, Sleep, Leave, PlayerStep
  <2> QED BY <2>1
<1>7. CASE Wake \/ SpuriousWake
  BY <1>7 DEF Wake, SpuriousWake, PlayerStep
<1>8. CASE Stop
  <2>1. CASE StopBegins \/ StopUnloads \/ StopResets
    BY <2>1 DEF StopBegins, StopUnloads, StopResets, Unload, NotifyNobody
  <2>2. CASE StopNotifies
    BY <2>2 DEF StopNotifies, NotifyPlayer
  <2>3. CASE StopClears
    BY <2>3 DEF StopClears, NotifyNobody
  <2> QED BY <1>8, <2>1, <2>2, <2>3 DEF Stop
<1>9. CASE MetadataArrives \/ TrackEnds \/ PlaysElsewhere
  BY <1>9 DEF MetadataArrives, TrackEnds, PlaysElsewhere, Occurs, NotifyNobody
<1>10. CASE RunWakes \/ ProcessEvents \/ MetadataUpdated \/ EndOfTrack \/ PlayTokenLost
  BY <1>10 DEF RunWakes, ProcessEvents, MetadataUpdated, EndOfTrack, PlayTokenLost, Returns,
              Unload, NotifyPlayer, NotifyNobody
<1>11. CASE UNCHANGED vars
  BY <1>11 DEF vars
<1> QED BY <1>1, <1>2, <1>3, <1>4, <1>5, <1>6, <1>7, <1>8, <1>9, <1>10, <1>11 DEF Next

(* Type correctness needs PhaseInv for the songs and DeliveryInv for delivered.  *)
LEMMA TypeStep ==
  ASSUME TypeOK, PhaseInv, FrameInv, DeliveryInv, ~Faulty, [Next]_vars
  PROVE  TypeOK'
<1> USE DEF playing, flags, buffer, running, libspotify, history, TypeOK,
           Unloaded, Looping, Started, Loading, None, Song
<1>1. CASE PlayBegins
  BY <1>1, SpotifyAssumption DEF PlayBegins, SongsMutexFree, PhaseInv
<1>2. CASE Load
  <2>1. delivered' \in 0 .. Frames /\ track' \in {None, song}
    BY <1>2, SpotifyAssumption DEF Load
  <2>2. player' \in Loading \cup {"thrown"} /\ events' \subseteq events
    BY <1>2 DEF Load
  <2> QED BY <1>2, <2>1, <2>2 DEF Load
<1>3. CASE SetCurrentSong
  BY <1>3 DEF SetCurrentSong, PlayerStep
<1>4. CASE SetPlayback
  BY <1>4 DEF SetPlayback, PlayerStep
<1>5. CASE ResetEndOfSong
  BY <1>5 DEF ResetEndOfSong, PlayerStep
<1>6. CASE Loop
  BY <1>6 DEF Loop, PlayerStep
<1>7. CASE Take
  <2>1. Len(framesBuffer') <= BufferLimit + MaxBatch
    BY <1>7, SpotifyAssumption DEF Take
  <2> QED BY <1>7, <2>1 DEF Take
<1>8. CASE Sleep
  BY <1>8 DEF Sleep, PlayerStep
<1>9. CASE Wake \/ SpuriousWake
  BY <1>9 DEF Wake, SpuriousWake, PlayerStep
<1>10. CASE Leave
  BY <1>10 DEF Leave, PlayerStep
<1>11. CASE Ended
  BY <1>11 DEF Ended, SongsMutexFree
<1>12. CASE StopBegins
  BY <1>12 DEF StopBegins, NotifyNobody
<1>13. CASE StopUnloads
  BY <1>13 DEF StopUnloads, NotifyNobody, Unload
<1>14. CASE StopResets
  BY <1>14 DEF StopResets, NotifyNobody
<1>15. CASE StopNotifies
  BY <1>15 DEF StopNotifies, NotifyPlayer
<1>16. CASE StopClears
  <2>1. Len(framesBuffer') <= BufferLimit + MaxBatch
    BY <1>16, SpotifyAssumption DEF StopClears
  <2> QED BY <1>16, <2>1 DEF StopClears, NotifyNobody
<1>17. CASE MetadataArrives
  BY <1>17 DEF MetadataArrives, Occurs, NotifyNobody
<1>18. CASE TrackEnds
  BY <1>18 DEF TrackEnds, Occurs, NotifyNobody
<1>19. CASE PlaysElsewhere
  BY <1>19 DEF PlaysElsewhere, Occurs, NotifyNobody
<1>20. CASE Delivers
  BY <1>20 DEF Delivers, NotifyNobody
<1>21. CASE MusicDelivery
  <2>1. /\ delivery # <<>> /\ delivery # Misfit /\ ~Full
        /\ framesBuffer' = framesBuffer \o delivery
        /\ framesBufferFormat' = Format(delivery[1][1])
        /\ delivered' = IF track = delivery[1][1] THEN delivered + Len(delivery) ELSE delivered
        /\ delivery' = <<>>
    BY <1>21 DEF MusicDelivery, DeliverInto, Faulty
  <2>2. framesBuffer \in Seq(Frame) /\ delivery \in Seq(Frame)
    BY DEF FrameInv
  <2>3. Len(framesBuffer') <= BufferLimit + MaxBatch
    BY <2>1, <2>2, SpotifyAssumption DEF Full
  <2>4. delivered' \in 0 .. Frames
    <3>1. Len(delivery) \in Nat /\ Frames \in Nat
      BY <2>2, SpotifyAssumption
    <3>2. CASE track # delivery[1][1]
      BY <2>1, <3>2
    <3>3. CASE track = delivery[1][1]
      <4>1. delivery[1][1] \in 1 .. song /\ delivery[1][2] + Len(delivery) - 1 <= Frames
        BY <2>1 DEF DeliveryInv
      <4>2. track = song
        BY <3>3, <4>1
      <4>3. delivery[1][2] = delivered + 1
        BY <2>1, <3>3, <4>2 DEF DeliveryInv
      <4> QED BY <2>1, <3>1, <3>3, <4>1, <4>3
    <3> QED BY <3>2, <3>3
  <2>5. framesBufferFormat' \in {0, 1}
    <3>1. delivery[1][1] \in Int
      BY <2>1 DEF DeliveryInv
    <3> QED BY <2>1, <3>1 DEF Format
  <2>6. Len(delivery') <= MaxBatch
    BY <2>1, SpotifyAssumption
  <2> QED BY <1>21, <2>3, <2>4, <2>5, <2>6 DEF MusicDelivery, DeliverInto, NotifyPlayer
<1>22. CASE DeliveryRefused
  <2>1. Len(delivery') <= MaxBatch
    BY <1>22, SpotifyAssumption DEF DeliveryRefused, Misfit
  <2> QED BY <1>22, <2>1 DEF DeliveryRefused, NotifyNobody
<1>23. CASE RunWakes
  BY <1>23 DEF RunWakes, NotifyNobody
<1>24. CASE ProcessEvents
  BY <1>24 DEF ProcessEvents, NotifyNobody
<1>25. CASE MetadataUpdated
  BY <1>25 DEF MetadataUpdated, Returns, NotifyPlayer
<1>26. CASE EndOfTrack
  BY <1>26 DEF EndOfTrack, Returns, Unload, NotifyNobody
<1>27. CASE PlayTokenLost
  BY <1>27 DEF PlayTokenLost, Returns, Unload, NotifyNobody
<1>28. CASE UNCHANGED vars
  BY <1>28 DEF vars
<1> QED BY <1>1, <1>2, <1>3, <1>4, <1>5, <1>6, <1>7, <1>8, <1>9, <1>10, <1>11, <1>12, <1>13,
  <1>14, <1>15, <1>16, <1>17, <1>18, <1>19, <1>20, <1>21, <1>22, <1>23, <1>24, <1>25, <1>26,
  <1>27, <1>28 DEF Next, Stop

(* Which flags go with which line of play and of stop.                        *)
LEMMA PhaseStep ==
  ASSUME TypeOK, PhaseInv, ~Faulty, [Next]_vars
  PROVE  PhaseInv'
<1> USE DEF playing, flags, buffer, running, libspotify, history, TypeOK, PhaseInv,
           Unloaded, Looping, Started, Loading, None, Song
<1>1. CASE PlayBegins
  BY <1>1, SpotifyAssumption DEF PlayBegins, SongsMutexFree
<1>2. CASE Load
  BY <1>2 DEF Load, Faulty
<1>3. CASE SetCurrentSong
  BY <1>3 DEF SetCurrentSong, PlayerStep, Faulty
<1>4. CASE SetPlayback
  BY <1>4 DEF SetPlayback, PlayerStep
<1>5. CASE ResetEndOfSong
  BY <1>5 DEF ResetEndOfSong, PlayerStep
<1>6. CASE Loop
  BY <1>6 DEF Loop, PlayerStep
<1>7. CASE Take
  BY <1>7 DEF Take, Last
<1>8. CASE Sleep
  BY <1>8 DEF Sleep, PlayerStep
<1>9. CASE Wake \/ SpuriousWake
  BY <1>9 DEF Wake, SpuriousWake, PlayerStep
<1>10. CASE Leave
  BY <1>10 DEF Leave, PlayerStep
<1>11. CASE Ended
  BY <1>11 DEF Ended, SongsMutexFree
<1>12. CASE StopBegins
  BY <1>12 DEF StopBegins, NotifyNobody, Faulty
<1>13. CASE StopUnloads
  BY <1>13 DEF StopUnloads, NotifyNobody, Unload
<1>14. CASE StopResets
  BY <1>14 DEF StopResets, NotifyNobody
<1>15. CASE StopNotifies
  BY <1>15 DEF StopNotifies, NotifyPlayer
<1>16. CASE StopClears
  BY <1>16 DEF StopClears, NotifyNobody
<1>17. CASE MetadataArrives
  BY <1>17 DEF MetadataArrives, Occurs, NotifyNobody
<1>18. CASE TrackEnds
  BY <1>18 DEF TrackEnds, Occurs, NotifyNobody
<1>19. CASE PlaysElsewhere
  BY <1>19 DEF PlaysElsewhere, Occurs, NotifyNobody
<1>20. CASE Delivers
  BY <1>20 DEF Delivers, NotifyNobody
<1>21. CASE MusicDelivery
  BY <1>21 DEF MusicDelivery, DeliverInto, NotifyPlayer
<1>22. CASE DeliveryRefused
  BY <1>22 DEF DeliveryRefused, NotifyNobody
<1>23. CASE RunWakes
  BY <1>23 DEF RunWakes, NotifyNobody
<1>24. CASE ProcessEvents
  BY <1>24 DEF ProcessEvents, NotifyNobody
<1>25. CASE MetadataUpdated
  BY <1>25 DEF MetadataUpdated, Returns, NotifyPlayer
<1>26. CASE EndOfTrack
  BY <1>26 DEF EndOfTrack, Returns, Unload, NotifyNobody
<1>27. CASE PlayTokenLost
  BY <1>27 DEF PlayTokenLost, Returns, Unload, NotifyNobody
<1>28. CASE UNCHANGED vars
  BY <1>28 DEF vars
<1> QED BY <1>1, <1>2, <1>3, <1>4, <1>5, <1>6, <1>7, <1>8, <1>9, <1>10, <1>11, <1>12, <1>13,
  <1>14, <1>15, <1>16, <1>17, <1>18, <1>19, <1>20, <1>21, <1>22, <1>23, <1>24, <1>25, <1>26,
  <1>27, <1>28 DEF Next, Stop

(* Every way to lose a wake-up is written down before the player sleeps.       *)
LEMMA WakeStep ==
  ASSUME TypeOK, PhaseInv, FrameInv, WakeInv, [Next]_vars
  PROVE  WakeInv'
<1> USE DEF playing, flags, buffer, running, libspotify, history, TypeOK, PhaseInv,
           WakeInv, FrameInv, Stopped, Unloaded, Looping, Started, Loading, None, Song
<1>1. CASE PlayBegins
  BY <1>1 DEF PlayBegins, SongsMutexFree
<1>2. CASE Load
  BY <1>2 DEF Load
<1>3. CASE SetCurrentSong
  BY <1>3 DEF SetCurrentSong, PlayerStep
<1>4. CASE SetPlayback
  BY <1>4 DEF SetPlayback, PlayerStep
<1>5. CASE ResetEndOfSong
  BY <1>5 DEF ResetEndOfSong, PlayerStep
<1>6. CASE Loop
  BY <1>6 DEF Loop, PlayerStep
<1>7. CASE Take
  BY <1>7 DEF Take, Last
<1>8. CASE Sleep
  BY <1>8 DEF Sleep, PlayerStep
<1>9. CASE Wake \/ SpuriousWake
  BY <1>9 DEF Wake, SpuriousWake, PlayerStep
<1>10. CASE Leave
  BY <1>10 DEF Leave, PlayerStep
<1>11. CASE Ended
  BY <1>11 DEF Ended, SongsMutexFree
<1>12. CASE StopBegins
  BY <1>12 DEF StopBegins, NotifyNobody
<1>13. CASE StopUnloads
  BY <1>13 DEF StopUnloads, NotifyNobody, Unload
<1>14. CASE StopResets
  BY <1>14 DEF StopResets, NotifyNobody
<1>15. CASE StopNotifies
  BY <1>15 DEF StopNotifies, NotifyPlayer
<1>16. CASE StopClears
  BY <1>16 DEF StopClears, NotifyNobody
<1>17. CASE MetadataArrives
  BY <1>17 DEF MetadataArrives, Occurs, NotifyNobody
<1>18. CASE TrackEnds
  BY <1>18 DEF TrackEnds, Occurs, NotifyNobody
<1>19. CASE PlaysElsewhere
  BY <1>19 DEF PlaysElsewhere, Occurs, NotifyNobody
<1>20. CASE Delivers
  BY <1>20 DEF Delivers, NotifyNobody
<1>21. CASE MusicDelivery
  BY <1>21 DEF MusicDelivery, DeliverInto, NotifyPlayer
<1>22. CASE DeliveryRefused
  BY <1>22 DEF DeliveryRefused, NotifyNobody
<1>23. CASE RunWakes
  BY <1>23 DEF RunWakes, NotifyNobody
<1>24. CASE ProcessEvents
  BY <1>24 DEF ProcessEvents, NotifyNobody
<1>25. CASE MetadataUpdated
  BY <1>25 DEF MetadataUpdated, Returns, NotifyPlayer
<1>26. CASE EndOfTrack
  BY <1>26 DEF EndOfTrack, Returns, Unload, NotifyNobody
<1>27. CASE PlayTokenLost
  BY <1>27 DEF PlayTokenLost, Returns, Unload, NotifyNobody
<1>28. CASE UNCHANGED vars
  BY <1>28 DEF vars
<1> QED BY <1>1, <1>2, <1>3, <1>4, <1>5, <1>6, <1>7, <1>8, <1>9, <1>10, <1>11, <1>12, <1>13,
  <1>14, <1>15, <1>16, <1>17, <1>18, <1>19, <1>20, <1>21, <1>22, <1>23, <1>24, <1>25, <1>26,
  <1>27, <1>28 DEF Next, Stop

(* What play leaves in the buffer, stop clears.                               *)
LEMMA LeaveStep ==
  ASSUME TypeOK, PhaseInv, FrameInv, DeliveryInv, LeaveInv, ~Faulty, [Next]_vars
  PROVE  LeaveInv'
<1> USE DEF playing, flags, buffer, running, libspotify, history, TypeOK, PhaseInv, LeaveInv,
           Unloaded, Looping, Started, Loading, None, Song
<1>1. CASE PlayBegins
  BY <1>1 DEF PlayBegins, SongsMutexFree
<1>2. CASE Load
  BY <1>2 DEF Load
<1>3. CASE SetCurrentSong
  BY <1>3 DEF SetCurrentSong, PlayerStep
<1>4. CASE SetPlayback
  BY <1>4 DEF SetPlayback, PlayerStep
<1>5. CASE ResetEndOfSong
  BY <1>5 DEF ResetEndOfSong, PlayerStep
<1>6. CASE Loop
  BY <1>6 DEF Loop, PlayerStep
<1>7. CASE Take
  BY <1>7 DEF Take, Last
<1>8. CASE Sleep
  BY <1>8 DEF Sleep, PlayerStep
<1>9. CASE Wake \/ SpuriousWake
  BY <1>9 DEF Wake, SpuriousWake, PlayerStep
<1>10. CASE Leave
  BY <1>10 DEF Leave, PlayerStep
<1>11. CASE Ended
  BY <1>11 DEF Ended, SongsMutexFree
<1>12. CASE StopBegins
  BY <1>12 DEF StopBegins, NotifyNobody
<1>13. CASE StopUnloads
  BY <1>13 DEF StopUnloads, NotifyNobody, Unload
<1>14. CASE StopResets
  BY <1>14 DEF StopResets, NotifyNobody
<1>15. CASE StopNotifies
  BY <1>15 DEF StopNotifies, NotifyPlayer
<1>16. CASE StopClears
  BY <1>16 DEF StopClears, NotifyNobody
<1>17. CASE MetadataArrives
  BY <1>17 DEF MetadataArrives, Occurs, NotifyNobody
<1>18. CASE TrackEnds
  BY <1>18 DEF TrackEnds, Occurs, NotifyNobody
<1>19. CASE PlaysElsewhere
  BY <1>19 DEF PlaysElsewhere, Occurs, NotifyNobody
<1>20. CASE Delivers
  BY <1>20 DEF Delivers, NotifyNobody
<1>21. CASE MusicDelivery
  <2> SUFFICES ASSUME ~late' PROVE LeaveInv'
    OBVIOUS
  <2>1. ~late /\ track = delivery[1][1] /\ delivery # <<>> /\ delivery # Misfit
    BY <1>21 DEF MusicDelivery, DeliverInto, Faulty, FrameInv
  <2>2. track # None
    BY <2>1 DEF DeliveryInv
  <2> QED BY <1>21, <2>1, <2>2 DEF MusicDelivery, DeliverInto, NotifyPlayer
<1>22. CASE DeliveryRefused
  BY <1>22 DEF DeliveryRefused, NotifyNobody
<1>23. CASE RunWakes
  BY <1>23 DEF RunWakes, NotifyNobody
<1>24. CASE ProcessEvents
  BY <1>24 DEF ProcessEvents, NotifyNobody
<1>25. CASE MetadataUpdated
  BY <1>25 DEF MetadataUpdated, Returns, NotifyPlayer
<1>26. CASE EndOfTrack
  BY <1>26 DEF EndOfTrack, Returns, Unload, NotifyNobody
<1>27. CASE PlayTokenLost
  BY <1>27 DEF PlayTokenLost, Returns, Unload, NotifyNobody
<1>28. CASE UNCHANGED vars
  BY <1>28 DEF vars
<1> QED BY <1>1, <1>2, <1>3, <1>4, <1>5, <1>6, <1>7, <1>8, <1>9, <1>10, <1>11, <1>12, <1>13,
  <1>14, <1>15, <1>16, <1>17, <1>18, <1>19, <1>20, <1>21, <1>22, <1>23, <1>24, <1>25, <1>26,
  <1>27, <1>28 DEF Next, Stop

(* What libspotify holds back goes on where the frames taken end.             *)
LEMMA DeliveryStep ==
  ASSUME TypeOK, PhaseInv, FrameInv, DeliveryInv, ~Faulty, [Next]_vars
  PROVE  DeliveryInv'
<1> USE DEF playing, flags, buffer, running, libspotify, history
<1>1. ASSUME UNCHANGED <<delivery, song, delivered>>, player' \in Unloaded => player \in Unloaded
      PROVE  DeliveryInv'
  BY <1>1 DEF DeliveryInv
<1>2. CASE PlayBegins
  <2>1. delivery' = delivery /\ delivered' = delivered /\ song' = song + 1 /\ song \in Nat
    BY <1>2 DEF PlayBegins, TypeOK
  <2>2. 1 .. song \subseteq 1 .. song' /\ song' \notin 1 .. song
    BY <2>1
  <2> QED BY <2>1, <2>2 DEF DeliveryInv
<1>3. CASE Load
  <2>1. delivery' = delivery /\ song' = song /\ player \in Unloaded
    BY <1>3 DEF Load, Unloaded
  <2> QED BY <2>1 DEF DeliveryInv
<1>4. CASE Delivers
  <2>1. PICK n \in 1 .. MaxBatch :
          /\ delivered + n <= Frames
          /\ delivery' = [k \in 1 .. n |-> <<track, delivered + k>>]
    BY <1>4 DEF Delivers
  <2>2. n \in Nat /\ n >= 1 /\ Frames \in Nat /\ delivered \in Nat /\ song \in Nat
    BY SpotifyAssumption DEF TypeOK
  <2>3. track = song /\ song >= 1 /\ player \notin Unloaded
    BY <1>4 DEF Delivers, PhaseInv, Song, None, Unloaded, Started, Looping
  <2>4. delivery'[1] = <<song, delivered + 1>> /\ Len(delivery') = n
    BY <2>1, <2>2, <2>3
  <2>5. delivery'[1][1] = song /\ delivery'[1][2] = delivered + 1
    BY <2>4
  <2>6. ASSUME NEW i \in 1 .. n
        PROVE  delivery'[i] = <<song, delivered + 1 + i - 1>>
    <3>1. delivered + 1 + i - 1 = delivered + i
      BY <2>2
    <3> QED BY <2>1, <2>3, <3>1
  <2>7. UNCHANGED <<song, delivered, player>>
    BY <1>4 DEF Delivers, NotifyNobody
  <2> QED BY <2>1, <2>2, <2>3, <2>4, <2>5, <2>6, <2>7 DEF DeliveryInv
<1>5. CASE MusicDelivery
  BY <1>5 DEF MusicDelivery, DeliverInto, DeliveryInv
<1>6. CASE DeliveryRefused
  BY <1>6 DEF DeliveryRefused, DeliveryInv
<1>7. CASE \/ SetCurrentSong \/ SetPlayback \/ ResetEndOfSong \/ Loop \/ Take \/ Sleep \/ Wake \/ SpuriousWake
           \/ Leave \/ Ended
  BY <1>1, <1>7 DEF SetCurrentSong, SetPlayback, ResetEndOfSong, Loop, Take, Sleep, Wake, SpuriousWake, Leave,
                    Ended, PlayerStep, Unloaded
<1>8. CASE Stop
  BY <1>1, <1>8 DEF Stop, StopBegins, StopUnloads, StopResets, StopNotifies, StopClears, Unload,
                    NotifyPlayer, NotifyNobody, Unloaded
<1>9. CASE MetadataArrives \/ TrackEnds \/ PlaysElsewhere
  BY <1>1, <1>9 DEF MetadataArrives, TrackEnds, PlaysElsewhere, Occurs, NotifyNobody, Unloaded
<1>10. CASE RunWakes \/ ProcessEvents \/ MetadataUpdated \/ EndOfTrack \/ PlayTokenLost
  BY <1>1, <1>10 DEF RunWakes, ProcessEvents, MetadataUpdated, EndOfTrack, PlayTokenLost, Returns,
                     Unload, NotifyPlayer, NotifyNobody, Unloaded
<1>11. CASE UNCHANGED vars
  BY <1>1, <1>11 DEF vars
<1> QED BY <1>2, <1>3, <1>4, <1>5, <1>6, <1>7, <1>8, <1>9, <1>10, <1>11 DEF Next

(* A delivery that is taken in time goes on where the buffer, or what was      *)
(* heard, ends.                                                              *)
LEMMA OrderDelivery ==
  ASSUME TypeOK, PhaseInv, FrameInv, DeliveryInv, OrderInv, ~Faulty, MusicDelivery
  PROVE  OrderInv'
<1> DEFINE m == Len(framesBuffer)
           n == Len(delivery)
<1> SUFFICES ASSUME ~late' PROVE OrderInv'
  BY DEF OrderInv
<1>1. /\ delivery # <<>> /\ delivery # Misfit /\ ~late /\ track = delivery[1][1]
      /\ framesBuffer' = framesBuffer \o delivery
      /\ framesBufferFormat' = Format(delivery[1][1])
      /\ delivered' = delivered + Len(delivery) /\ delivery' = <<>>
      /\ UNCHANGED <<heard, song, track>>
      /\ player' \in Unloaded => player \in Unloaded
  BY DEF MusicDelivery, DeliverInto, Faulty, FrameInv, playing, libspotify, NotifyPlayer, Unloaded
<1>2. /\ framesBuffer \in Seq(Frame) /\ delivery \in Seq(Frame) /\ heard \in Nat \X Nat
      /\ m \in Nat /\ n \in Nat /\ n >= 1 /\ song \in Nat /\ delivered \in Nat
  <2>1. framesBuffer \in Seq(Frame) /\ delivery \in Seq(Frame) /\ heard \in Nat \X Nat
    BY DEF FrameInv, Frame
  <2> QED BY <1>1, <2>1 DEF TypeOK
<1>3. track # None /\ track = song /\ delivery[1][1] = song /\ delivery[1][2] = delivered + 1
  <2>1. track # None /\ track = song
    BY <1>1 DEF DeliveryInv, TypeOK, None
  <2> QED BY <1>1, <2>1 DEF DeliveryInv
<1>4. ASSUME NEW i \in 1 .. n
      PROVE  delivery[i] = <<song, delivered + i>>
  <2>1. delivery[i] = <<song, delivered + 1 + i - 1>>
    BY <1>1, <1>3 DEF DeliveryInv
  <2>2. delivered + 1 + i - 1 = delivered + i
    BY <1>2
  <2> QED BY <2>1, <2>2
<1>5. /\ Len(framesBuffer') = m + n /\ framesBuffer' # <<>>
      /\ \A i \in 1 .. m : framesBuffer'[i] = framesBuffer[i]
      /\ \A i \in 1 .. n : framesBuffer'[m + i] = <<song, delivered + i>>
  <2>1. Len(framesBuffer') = m + n /\ \A i \in 1 .. m : framesBuffer'[i] = framesBuffer[i]
    BY <1>1, <1>2
  <2>2. ASSUME NEW i \in 1 .. n
        PROVE  framesBuffer'[m + i] = <<song, delivered + i>>
    <3>1. framesBuffer'[m + i] = delivery[i]
      BY <1>1, <1>2
    <3> QED BY <1>4, <3>1
  <2> QED BY <1>2, <2>1, <2>2
<1>6. framesBuffer'[m + n] = <<song, delivered'>>
  <2>1. n \in 1 .. n /\ delivered' = delivered + n
    BY <1>1, <1>2
  <2> QED BY <1>5, <2>1
<1> HIDE DEF m, n
<1>7. Follows(heard, framesBuffer'[1])
  <2>1. CASE framesBuffer = <<>>
    <3>1. m = 0 /\ 1 \in 1 .. n /\ m + 1 = 1
      BY <1>2, <2>1 DEF m
    <3>2. framesBuffer'[1] = <<song, delivered + 1>>
      BY <1>5, <3>1
    <3>3. heard = <<song, delivered>> \/ (heard[1] < song /\ delivered = 0)
      BY <1>1, <1>3, <2>1 DEF OrderInv
    <3> QED BY <1>2, <3>2, <3>3 DEF Follows
  <2>2. CASE framesBuffer # <<>>
    <3>1. 1 \in 1 .. m
      BY <1>2, <2>2 DEF m
    <3> QED BY <1>1, <1>5, <2>2, <3>1 DEF OrderInv
  <2> QED BY <2>1, <2>2
<1>8. ASSUME NEW i \in 1 .. Len(framesBuffer') - 1
      PROVE  Follows(framesBuffer'[i], framesBuffer'[i + 1])
  <2>0. i \in 1 .. m + n - 1
    BY <1>2, <1>5
  <2>1. CASE i + 1 <= m
    <3>1. i \in 1 .. m /\ i + 1 \in 1 .. m /\ i \in 1 .. m - 1
      BY <1>2, <2>0, <2>1
    <3>2. Follows(framesBuffer[i], framesBuffer[i + 1])
      BY <1>1, <3>1 DEF OrderInv, m
    <3> QED BY <1>5, <3>1, <3>2
  <2>2. CASE i = m
    <3>1. m \in 1 .. m /\ 1 \in 1 .. n
      BY <1>2, <2>0, <2>2
    <3>2. framesBuffer[m] = <<song, delivered>>
      BY <1>1, <1>2, <1>3, <3>1 DEF OrderInv, m
    <3>3. framesBuffer'[i] = <<song, delivered>> /\ framesBuffer'[i + 1] = <<song, delivered + 1>>
      BY <1>5, <2>2, <3>1, <3>2
    <3> QED BY <1>2, <3>3 DEF Follows
  <2>3. CASE i > m
    <3>1. PICK j \in 1 .. n - 1 : i = m + j
      <4>1. i - m \in 1 .. n - 1 /\ i = m + (i - m)
        BY <1>2, <2>0, <2>3
      <4> QED BY <4>1
    <3>2. j \in 1 .. n /\ j + 1 \in 1 .. n /\ i + 1 = m + (j + 1) /\ j \in Nat
      BY <1>2, <3>1
    <3>3. framesBuffer'[i] = <<song, delivered + j>>
      BY <1>5, <3>1, <3>2
    <3>4. framesBuffer'[i + 1] = <<song, delivered + (j + 1)>>
      BY <1>5, <3>2
    <3> QED BY <1>2, <3>2, <3>3, <3>4 DEF Follows
  <2> QED BY <1>2, <2>0, <2>1, <2>2, <2>3
<1>9. delivery' # Misfit /\ heard'[1] <= song' /\ (player' \in Unloaded => heard'[1] < song')
  <2>1. <<>> # Misfit
    BY DEF Misfit
  <2> QED BY <1>1, <2>1 DEF OrderInv
<1>10. framesBuffer'[m + n][1] = song
  BY <1>6
<1>11. /\ framesBufferFormat' = Format(song') /\ song' = song /\ heard' = heard
       /\ delivery' = <<>>
  BY <1>1, <1>3
<1>12. \A i \in 1 .. Len(framesBuffer') - 1 : Follows(framesBuffer'[i], framesBuffer'[i + 1])
  BY <1>8
<1> QED
  <2> SUFFICES
        /\ delivery' # Misfit
        /\ heard'[1] <= song'
        /\ framesBuffer' # <<>> =>
             /\ Follows(heard', framesBuffer'[1])
             /\ framesBuffer'[Len(framesBuffer')][1] = song'
             /\ framesBufferFormat' = Format(song')
             /\ delivery' # <<>> => delivery'[1][1] = song'
        /\ \A i \in 1 .. Len(framesBuffer') - 1 :
             Follows(framesBuffer'[i], framesBuffer'[i + 1])
        /\ player' \in Unloaded => heard'[1] < song'
        /\ track' # None => framesBuffer'[Len(framesBuffer')] = <<song', delivered'>>
    BY <1>5 DEF OrderInv, Follows, Format
  <2> QED BY ONLY <1>5, <1>6, <1>7, <1>9, <1>10, <1>11, <1>12

(* Heard, buffered and delivered frames stay one sequence.                    *)
LEMMA OrderStep ==
  ASSUME TypeOK, PhaseInv, FrameInv, DeliveryInv, OrderInv, LeaveInv, ~Faulty, [Next]_vars
  PROVE  OrderInv'
<1> USE DEF playing, flags, buffer, running, libspotify, history
<1>0. song \in Nat /\ heard \in Nat \X Nat /\ framesBuffer \in Seq(Frame)
  BY DEF TypeOK, FrameInv, Frame
<1>1. ASSUME UNCHANGED <<late, delivery, heard, song, framesBuffer, framesBufferFormat, delivered>>,
             track' \in {track, None}, player' \in Unloaded => player \in Unloaded
      PROVE  OrderInv'
  BY <1>1 DEF OrderInv, Follows, Format
<1>2. CASE PlayBegins
  <2>1. /\ UNCHANGED <<late, delivery, heard, framesBuffer, track>> /\ song' = song + 1
        /\ player = "idle"
    BY <1>2 DEF PlayBegins
  <2>2. track = None
    BY <2>1 DEF PhaseInv, Started, Looping
  <2>3. ~late => framesBuffer = <<>> /\ heard[1] <= song /\ delivery # Misfit
    BY <2>1 DEF LeaveInv, OrderInv
  <2>4. ~late => heard[1] < song' /\ heard[1] <= song'
    BY <1>0, <2>1, <2>3
  <2> QED BY <2>1, <2>2, <2>3, <2>4 DEF OrderInv
<1>3. CASE Load
  <2>1. /\ UNCHANGED <<late, delivery, heard, framesBuffer, song>> /\ player = "load"
        /\ (track' = song /\ delivered' = 0) \/ track' = track
    BY <1>3 DEF Load
  <2>2. track = None
    BY <2>1 DEF PhaseInv, Started, Looping
  <2>3. ~late => framesBuffer = <<>> /\ heard[1] < song /\ heard[1] <= song /\ delivery # Misfit
    BY <2>1 DEF LeaveInv, OrderInv, Unloaded
  <2> QED BY <2>1, <2>2, <2>3 DEF OrderInv
<1>4. CASE Take
  <2>1. CASE framesBuffer = <<>>
    BY <1>1, <1>4, <2>1 DEF Take, Unloaded
  <2>2. CASE framesBuffer # <<>>
    <3>1. /\ heard' = framesBuffer[Len(framesBuffer)] /\ framesBuffer' = <<>>
          /\ UNCHANGED <<late, delivery, song, track, delivered>> /\ player' = "loop"
      BY <1>4, <2>2 DEF Take, Last
    <3>2. ~late => delivery # Misfit /\ heard'[1] = song
                   /\ (track # None => heard' = <<song, delivered>>)
      BY <2>2, <3>1 DEF OrderInv
    <3> QED BY <1>0, <3>1, <3>2 DEF OrderInv, Unloaded
  <2> QED BY <2>1, <2>2
<1>5. CASE StopClears
  <2>1. UNCHANGED <<late, delivery, heard, song, track, player>> /\ framesBuffer' = <<>>
    BY <1>5 DEF StopClears, NotifyNobody
  <2>2. track = None
    BY <1>5 DEF PhaseInv, StopClears
  <2> QED BY <2>1, <2>2 DEF OrderInv
<1>6. CASE Delivers
  <2>1. PICK n \in 1 .. MaxBatch : delivery' = [k \in 1 .. n |-> <<track, delivered + k>>]
    BY <1>6 DEF Delivers
  <2>2. track = song /\ song # 0 /\ n \in Nat /\ n >= 1
    BY <1>6, SpotifyAssumption DEF Delivers, PhaseInv, None
  <2>3. delivery'[1][1] = song
    BY <2>1, <2>2
  <2>4. delivery' # Misfit
    BY <2>2, <2>3 DEF Misfit, None
  <2>5. UNCHANGED <<late, heard, song, framesBuffer, framesBufferFormat, track, delivered, player>>
    BY <1>6 DEF Delivers, NotifyNobody
  <2> QED BY <2>3, <2>4, <2>5 DEF OrderInv, Follows
<1>7. CASE MusicDelivery
  BY <1>7, OrderDelivery
<1>8. CASE DeliveryRefused
  <2>1. /\ delivery # <<>> /\ delivery # Misfit
        /\ UNCHANGED <<late, heard, song, framesBuffer, framesBufferFormat, track, delivered,
                        player>>
    BY <1>8 DEF DeliveryRefused, NotifyNobody, Faulty
  <2>2. ~late => delivery' = <<>>
    <3> SUFFICES ASSUME ~late PROVE FormatFits
      BY <1>8 DEF DeliveryRefused
    <3> QED BY <2>1 DEF OrderInv, FormatFits
  <2>3. <<>> # Misfit
    BY DEF Misfit
  <2> QED BY <2>1, <2>2, <2>3 DEF OrderInv, Follows
<1>9. CASE \/ SetCurrentSong \/ SetPlayback \/ ResetEndOfSong \/ Loop \/ Sleep \/ Wake \/ SpuriousWake
           \/ Leave \/ Ended
  BY <1>1, <1>9 DEF SetCurrentSong, SetPlayback, ResetEndOfSong, Loop, Sleep, Wake, SpuriousWake, Leave,
                    Ended, PlayerStep, Unloaded
<1>10. CASE StopBegins \/ StopUnloads \/ StopResets \/ StopNotifies
  BY <1>1, <1>10 DEF StopBegins, StopUnloads, StopResets, StopNotifies, Unload, NotifyPlayer,
                     NotifyNobody, Unloaded
<1>11. CASE MetadataArrives \/ TrackEnds \/ PlaysElsewhere
  BY <1>1, <1>11 DEF MetadataArrives, TrackEnds, PlaysElsewhere, Occurs, NotifyNobody, Unloaded
<1>12. CASE RunWakes \/ ProcessEvents \/ MetadataUpdated \/ EndOfTrack \/ PlayTokenLost
  BY <1>1, <1>12 DEF RunWakes, ProcessEvents, MetadataUpdated, EndOfTrack, PlayTokenLost, Returns,
                     Unload, NotifyPlayer, NotifyNobody, Unloaded
<1>13. CASE UNCHANGED vars
  BY <1>1, <1>13 DEF vars
<1> QED BY <1>2, <1>3, <1>4, <1>5, <1>6, <1>7, <1>8, <1>9, <1>10, <1>11, <1>12, <1>13
  DEF Next, Stop

-----------------------------------------------------------------------------
LEMMA InitInv == Init => SpotifyInv
<1> SUFFICES ASSUME Init PROVE SpotifyInv
  OBVIOUS
<1>1. TypeOK
  <2>1. /\ Len(framesBuffer) <= BufferLimit + MaxBatch /\ Len(delivery) <= MaxBatch
        /\ song \in 0 .. MaxSongs /\ delivered \in 0 .. Frames
    BY SpotifyAssumption DEF Init
  <2>2. playback \in BOOLEAN /\ endOfSong \in BOOLEAN /\ notify \in BOOLEAN
    BY Zenon DEF Init
  <2> QED BY <2>1, <2>2 DEF Init, TypeOK, None
<1>2. FrameInv
  <2>1. <<0, 0>> \in Frame
    BY DEF Frame
  <2>2. missed \in BOOLEAN /\ late \in BOOLEAN
    BY Zenon DEF Init
  <2> QED BY <2>1, <2>2 DEF Init, FrameInv
<1>3. PhaseInv
  BY DEF Init, PhaseInv, None, Song, Started, Looping, Unloaded
<1>4. OrderInv
  <2>1. <<>> # Misfit
    BY DEF Misfit
  <2> QED BY <2>1 DEF Init, OrderInv, Unloaded
<1>5. DeliveryInv /\ LeaveInv /\ WakeInv
  BY DEF Init, DeliveryInv, LeaveInv, WakeInv, Unloaded, Looping, Started
<1> QED BY <1>1, <1>2, <1>3, <1>4, <1>5 DEF SpotifyInv

(* SpotifyInv is an invariant of the session, whatever the number and length   *)
(* of songs and the interleaving of the four threads.                        *)
THEOREM SpotifyInvariance == Spec => []SpotifyInv
<1>1. SpotifyInv /\ [Next]_vars => SpotifyInv'
  <2> SUFFICES ASSUME SpotifyInv, [Next]_vars PROVE SpotifyInv'
    OBVIOUS
  <2>1. CASE UNCHANGED vars
    BY <2>1 DEF vars, playing, flags, buffer, running, libspotify, history, SpotifyInv, TypeOK,
                FrameInv, PhaseInv, DeliveryInv, OrderInv, LeaveInv, WakeInv, Stopped
  <2>2. CASE Next
    <3>1. ~Faulty
      BY <2>2 DEF Next
    <3> QED BY <3>1, TypeStep, FrameStep, PhaseStep, DeliveryStep, OrderStep, LeaveStep, WakeStep
      DEF SpotifyInv
  <2> QED BY <2>1, <2>2
<1> QED BY InitInv, <1>1, PTL DEF Spec

(* The player's state stays in its ranges, and the buffer holds at most a       *)
(* batch more than its limit, for every limit and batch.                     *)
THEOREM SpotifyTypes == Spec => []TypeOK
<1>1. SpotifyInv => TypeOK
  BY DEF SpotifyInv
<1> QED BY SpotifyInvariance, <1>1, PTL

(* Frames reach Music in the order of delivery over any number of songs, and   *)
(* no format assertion fails, unless a delivery ran after its track was       *)
(* unloaded.                                                                 *)
THEOREM SpotifyOrder == Spec => []FramesInOrder
<1>1. SpotifyInv => FramesInOrder
  <2> SUFFICES ASSUME SpotifyInv, ~late PROVE FramesInOrder
    BY DEF FramesInOrder
  <2> DEFINE all == <<heard>> \o framesBuffer
             m == Len(framesBuffer)
  <2>1. framesBuffer \in Seq(Frame) /\ heard \in Frame /\ m \in Nat /\ <<heard>> \in Seq(Frame)
    BY DEF SpotifyInv, FrameInv
  <2>2. Len(all) = m + 1 /\ all[1] = heard /\ \A i \in 2 .. m + 1 : all[i] = framesBuffer[i - 1]
    BY <2>1
  <2>3. ASSUME NEW i \in 1 .. Len(all) - 1
        PROVE  Follows(all[i], all[i + 1])
    <3> HIDE DEF all
    <3>1. i \in 1 .. m /\ i + 1 \in 2 .. m + 1 /\ i + 1 - 1 = i
      BY <2>1, <2>2
    <3>2. all[i + 1] = framesBuffer[i]
      BY <2>2, <3>1
    <3>3. CASE i = 1
      <4>1. framesBuffer # <<>>
        BY <2>1, <3>1
      <4> QED BY <2>2, <3>2, <3>3, <4>1 DEF SpotifyInv, OrderInv
    <3>4. CASE i # 1
      <4>1. i - 1 \in 1 .. m - 1 /\ i - 1 + 1 = i /\ i \in 2 .. m + 1
        BY <2>1, <3>1, <3>4
      <4>2. Follows(framesBuffer[i - 1], framesBuffer[i - 1 + 1])
        BY <4>1 DEF SpotifyInv, OrderInv
      <4> QED BY <2>2, <3>2, <4>1, <4>2
    <3> QED BY <3>3, <3>4
  <2>4. /\ delivery # Misfit
        /\ framesBuffer # <<>> => Last(framesBuffer)[1] = song
        /\ player = "idle" => framesBuffer = <<>>
    BY DEF SpotifyInv, OrderInv, LeaveInv, Last
  <2> HIDE DEF all
  <2>5. \A i \in 1 .. Len(all) - 1 : Follows(all[i], all[i + 1])
    BY <2>3
  <2> QED BY <2>4, <2>5 DEF FramesInOrder, all
<1> QED BY SpotifyInvariance, <1>1, PTL

(* A player that sleeps although what it waits for is there, or although no     *)
(* frame will come, does so for a reason that StuckOnlyIfMissed names, and    *)
(* stop's assertion fails only before play has set currentSong or after it   *)
(* has let it go.                                                            *)
THEOREM SpotifySleeps == Spec => []StuckOnlyIfMissed
<1>1. SpotifyInv => StuckOnlyIfMissed
  BY DEF SpotifyInv, StuckOnlyIfMissed, WakeInv, PhaseInv, Stopped, Started, Looping
<1> QED BY SpotifyInvariance, <1>1, PTL
=============================================================================
