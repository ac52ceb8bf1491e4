------------------------------ MODULE Pipeline ------------------------------
(***************************************************************************)
(* The way of the samples: FilePlayer::play decodes (dolanik/filePlayer.cpp), *)
(* Music::send resamples and enqueues (music.cpp, Resampler), Audio packs and *)
(* sends (libmumbleclient/Audio.cpp), and enqueue tells the player how long  *)
(* to sleep.  Callers change the volume meanwhile, without any lock, on the  *)
(* way through Music and Resampler to a filter that setInputFormat replaces. *)
(*                                                                          *)
(* Time counts frames of 10 ms.  Locks and codec changes of Audio are the    *)
(* subject of AudioQueue; here the codec is fixed.                           *)
(***************************************************************************)
EXTENDS Resampler

CONSTANTS
  SAMPLES_IN_10MS, AudioFrames,
  Rates,            \* ratios of the songs' sample rates, see Resampler
  Chunks,           \* samples a decoded frame may have
  Callers,          \* threads that set or adjust the volume
  MaxVolume,        \* volumes are 1 .. MaxVolume (0.01 .. 2.0 in the code)
  StartVolume,      \* 0.2
  SizeValues,       \* how many values size_t has
  RepValues,        \* how many the representation of chrono::milliseconds has
  Lateness,         \* how much later than asked a sleeping player may go on
  Bounds            \* bounds: a behaviour has one of these limits for its songs,
                    \* the samples of a song and the volume calls

ASSUME PipelineAssumption ==
  /\ SAMPLES_IN_10MS \in Nat \ {0} /\ AudioFrames \in Nat \ {0}
  /\ Rates \subseteq (Nat \ {0}) \X (Nat \ {0}) /\ Chunks \subseteq Nat \ {0}
  /\ MaxVolume \in Nat /\ StartVolume \in 1 .. MaxVolume
  /\ SizeValues \in Nat \ {0} /\ RepValues \in Nat /\ SizeValues <= RepValues
  /\ Lateness \in 0 .. RepValues
  /\ Bounds \subseteq [songs : Nat, samples : Nat, calls : Nat]

VARIABLES
  player,       \* where the playback thread is
  song,         \* the song it plays
  decoded,      \* samples decoded so far
  chunk,        \* samples of the frame at hand
  rate,         \* the song's, once setInputFormat was called
  stopped,      \* ~song.playback
  wait,         \* time until the player's sleep ends; negative when it is late
  resampler, pcmQueue,
  opus,         \* the codec is Opus
  bound,        \* the limits of this behaviour
  compressedQueue,
  sender,       \* time until the queue thread looks for a packet
  heard,        \* the last sample that was sent
  ended,        \* how many samples each song's graph had made when it was freed
  volume, resamplerVolume, filterVolume,   \* Music's, Resampler's, the filter's
  volumeFilter, \* "null", "live" or "freed"
  pc, arg, calls,   \* of the callers
  dropped,      \* the last volume found no filter
  overlapped    \* two volume calls, or one and setInputFormat, ran together

decoding == <<song, decoded, chunk, rate>>
buffers == <<resampler, pcmQueue, compressedQueue, ended>>
sending == <<sender, heard>>
levels == <<volume, resamplerVolume, filterVolume, volumeFilter>>
calling == <<pc, arg, calls, dropped>>
vars == <<player, decoding, stopped, wait, buffers, opus, bound, sending, levels, calling, overlapped>>

Faults == {"noFormat", "overrun", "overread", "freedFilter"}
Formatting == {"format", "filter", "volume"}
Faulty == player \in Faults \/ \E c \in Callers : pc[c] = "freedFilter"

Init ==
  /\ player = "idle" /\ song = 0 /\ decoded = 0 /\ chunk = 0 /\ rate = NoFormat
  /\ stopped = FALSE /\ wait = 0
  /\ resampler = NewResampler /\ pcmQueue = <<>> /\ compressedQueue = <<>>
  /\ opus \in BOOLEAN /\ bound \in Bounds
  /\ sender = 0 /\ heard = <<0, 0>> /\ ended = [s \in 0 .. bound.songs |-> 0]
  /\ volume = StartVolume /\ resamplerVolume = StartVolume /\ filterVolume = StartVolume
  /\ volumeFilter = "null"
  /\ pc = [c \in Callers |-> "idle"] /\ arg = [c \in Callers |-> 0] /\ calls = 0
  /\ dropped = FALSE /\ overlapped = FALSE

-----------------------------------------------------------------------------
(* FilePlayer::play.                                                         *)

PlayBegins ==
  /\ player = "idle" /\ song < bound.songs
  /\ song' = song + 1 /\ decoded' = 0 /\ chunk' = 0 /\ rate' = NoFormat
  /\ stopped' = FALSE
  /\ player' = "decode"
  /\ UNCHANGED <<wait, buffers, sending, levels, calling>>

(* decodeAudioFrame brings a frame, or none (an error, a packet too few).  The *)
(* first call must bring one: the graph of a frame without a format is not   *)
(* built, and the assertion on it fails.                                     *)
Decode(n) ==
  /\ player = "decode" /\ decoded + n <= bound.samples
  /\ decoded' = decoded + n /\ chunk' = n
  /\ \/ /\ rate # NoFormat
        /\ player' = "send" /\ UNCHANGED rate
     \/ /\ rate = NoFormat /\ n > 0
        /\ rate' \in Rates
        /\ player' = "format"
     \/ /\ rate = NoFormat /\ n = 0
        /\ player' = "noFormat" /\ UNCHANGED rate
  /\ UNCHANGED <<song, stopped, wait, buffers, sending, levels, calling>>

Finished ==
  /\ player = "decode"
  /\ player' = "idle"
  /\ UNCHANGED <<decoding, stopped, wait, buffers, sending, levels, calling>>

Stop ==
  /\ player # "idle" /\ ~stopped
  /\ stopped' = TRUE
  /\ UNCHANGED <<player, decoding, wait, buffers, sending, levels, calling>>

(* setInputFormat: the old graph is freed; the new one gets a volume filter;  *)
(* that filter gets the volume.                                              *)
Format ==
  /\ player = "format"
  /\ resampler' = SetInputFormat(resampler, song, rate)
  /\ ended' = [ended EXCEPT ![resampler.song] = Flush(resampler).made]
  /\ volumeFilter' = IF volumeFilter = "null" THEN "null" ELSE "freed"
  /\ player' = "filter"
  /\ UNCHANGED <<decoding, stopped, wait, pcmQueue, compressedQueue, sending, volume,
                 resamplerVolume, filterVolume, calling>>

AllocateFilter ==
  /\ player = "filter"
  /\ volumeFilter' = "live"
  /\ player' = "volume"
  /\ UNCHANGED <<decoding, stopped, wait, buffers, sending, volume, resamplerVolume,
                 filterVolume, calling>>

(* Faulty variant: the new filter starts at the volume of the start.          *)
InitFilterDefault ==
  /\ player = "volume"
  /\ filterVolume' = StartVolume
  /\ player' = "send"
  /\ UNCHANGED <<decoding, stopped, wait, buffers, sending, volume, resamplerVolume,
                 volumeFilter, calling>>

InitFilter ==
  /\ player = "volume"
  /\ filterVolume' = resamplerVolume
  /\ player' = "send"
  /\ UNCHANGED <<decoding, stopped, wait, buffers, sending, volume, resamplerVolume,
                 volumeFilter, calling>>

(* Any step of initFilterGraph may fail, and the assertion on its result with  *)
(* it.                                                                       *)
GraphFails ==
  /\ player \in Formatting
  /\ player' = "noFormat"
  /\ UNCHANGED <<decoding, stopped, wait, buffers, sending, levels, calling>>

-----------------------------------------------------------------------------
(* Music::send and Audio::enqueue.                                           *)

Packet == SAMPLES_IN_10MS * AudioFrames
FramesOf == IF opus THEN AudioFrames ELSE 1   \* frames in an entry of compressedQueue

(* What fills packets leaves pcmQueue, in entries of one encoder call.        *)
Entries(pcm) ==
  LET size == SAMPLES_IN_10MS * FramesOf
  IN  [i \in 1 .. (Len(pcm) - (Len(pcm) % Packet)) \div size |->
         SubSeq(pcm, (i - 1) * size + 1, i * size)]

Rest(pcm) == SubSeq(pcm, Len(pcm) - (Len(pcm) % Packet) + 1, Len(pcm))

(* size_t wraps below zero, max(0, .) leaves it alone, and the conversion to  *)
(* a signed count of milliseconds of the same width makes it negative again. *)
Signed(n) == IF 2 * n >= RepValues THEN n - RepValues ELSE n
(* Faulty variant: no reserve is kept.                                       *)
DelayNoReserve(entries) == entries * FramesOf
Delay(entries) == Signed((entries * FramesOf - 2 * AudioFrames) % SizeValues)

Send ==
  /\ player = "send"
  /\ LET room == CalculateDstSamplesNumber(resampler, chunk)
         result == Resample(resampler, Numbers(decoded - chunk + 1, decoded), room)
         pcm == pcmQueue \o result.data
         queue == compressedQueue \o Entries(pcm)
     IN  /\ resampler' = result.resampler
         /\ pcmQueue' = Rest(pcm)
         /\ compressedQueue' = queue
         /\ wait' = IF Len(pcm) >= Packet /\ result.data # <<>> THEN Delay(Len(queue)) ELSE 0
         /\ player' = IF Len(result.data) > room THEN "overrun"
                        ELSE IF wait' > 0 THEN "sleep" ELSE "loop"
  /\ UNCHANGED <<decoding, stopped, sending, levels, calling, ended>>

(* The graph refuses a frame: the negative result of resample becomes the     *)
(* number of samples that enqueue reads.                                     *)
SendFails ==
  /\ player = "send" /\ Len(resampler.in) + chunk >= FRAME_SIZE
  /\ player' = "overread"
  /\ UNCHANGED <<decoding, stopped, wait, buffers, sending, levels, calling>>

Wake ==
  /\ player = "loop" \/ (player = "sleep" /\ wait <= 0)
  /\ wait' = 0
  /\ player' = IF stopped THEN "idle" ELSE "decode"
  /\ UNCHANGED <<decoding, stopped, buffers, sending, levels, calling>>

(* processQueue.                                                             *)
SendPacket ==
  /\ sender = 0 /\ compressedQueue # <<>>
  /\ LET n == IF opus THEN 1 ELSE Min({AudioFrames, Len(compressedQueue)})
     IN  /\ compressedQueue' = SubSeq(compressedQueue, n + 1, Len(compressedQueue))
         /\ heard' = Last(compressedQueue[n])
         /\ sender' = n * FramesOf
  /\ UNCHANGED <<player, decoding, stopped, wait, resampler, pcmQueue, ended, levels, calling>>

(* Time passes when nobody has anything to do; only a sleeping player may be  *)
(* late.                                                                     *)
Tick ==
  /\ player = "idle" \/ (player = "sleep" /\ wait > - Lateness)
  /\ sender > 0 \/ compressedQueue = <<>>
  /\ wait' = IF player = "sleep" THEN wait - 1 ELSE wait
  /\ sender' = Max({0, sender - 1})
  /\ UNCHANGED <<player, decoding, stopped, buffers, heard, levels, calling>>

-----------------------------------------------------------------------------
(* Music::setVolume and adjustVolume, then Resampler::setVolume.  volume is a  *)
(* plain double: each statement of adjustVolume reads it and writes it.      *)

Limit(v) == Min({MaxVolume, Max({1, v})})
Quiet == \A c \in Callers : pc[c] = "idle"
PlayerRest == UNCHANGED <<decoding, stopped, wait, buffers, sending>>

Call(c) ==
  /\ pc[c] = "idle" /\ calls < bound.calls
  /\ calls' = calls + 1
  /\ \/ \E v \in 0 .. MaxVolume + 1 :
          /\ volume' = Limit(v) /\ arg' = [arg EXCEPT ![c] = Limit(v)]
          /\ pc' = [pc EXCEPT ![c] = "set"]
     \/ \E delta \in {-1, 1} :
          /\ arg' = [arg EXCEPT ![c] = volume + delta]
          /\ pc' = [pc EXCEPT ![c] = "add"]
          /\ UNCHANGED volume
  /\ UNCHANGED <<player, resamplerVolume, filterVolume, volumeFilter, dropped>> /\ PlayerRest

Write(c, at, to) ==
  /\ pc[c] = at
  /\ volume' = arg[c]
  /\ pc' = [pc EXCEPT ![c] = to]
  /\ UNCHANGED <<player, resamplerVolume, filterVolume, volumeFilter, arg, calls, dropped>>
  /\ PlayerRest

Read(c, at, to, result) ==
  /\ pc[c] = at
  /\ arg' = [arg EXCEPT ![c] = result]
  /\ pc' = [pc EXCEPT ![c] = to]
  /\ UNCHANGED <<player, levels, calls, dropped>> /\ PlayerRest

Adjust(c) ==
  \/ Write(c, "add", "max")
  \/ Read(c, "max", "maxed", Max({1, volume})) \/ Write(c, "maxed", "min")
  \/ Read(c, "min", "mined", Min({MaxVolume, volume})) \/ Write(c, "mined", "read")
  \/ Read(c, "read", "set", volume)

(* Resampler::setVolume: without a filter the volume is not even stored.      *)
SetVolume(c) ==
  /\ pc[c] = "set"
  /\ dropped' = (volumeFilter = "null")
  /\ resamplerVolume' = IF dropped' THEN resamplerVolume ELSE arg[c]
  /\ pc' = [pc EXCEPT ![c] = IF dropped' THEN "idle" ELSE "command"]
  /\ UNCHANGED <<player, volume, filterVolume, volumeFilter, arg, calls>> /\ PlayerRest

Command(c) ==
  /\ pc[c] = "command"
  /\ filterVolume' = IF volumeFilter = "live" THEN arg[c] ELSE filterVolume
  /\ pc' = [pc EXCEPT ![c] = IF volumeFilter = "live" THEN "idle" ELSE "freedFilter"]
  /\ UNCHANGED <<player, volume, resamplerVolume, volumeFilter, arg, calls, dropped>>
  /\ PlayerRest

-----------------------------------------------------------------------------
Noted ==
  /\ ~Faulty
  /\ overlapped' = \/ overlapped
                   \/ \E c, d \in Callers : c # d /\ pc'[c] # "idle" /\ pc'[d] # "idle"
                   \/ ~Quiet' /\ (player' \in Formatting \/ player \in Formatting)
  /\ UNCHANGED <<opus, bound>>

Play ==
  \/ PlayBegins \/ (\E n \in Chunks \cup {0} : Decode(n)) \/ Finished
  \/ Format \/ AllocateFilter \/ InitFilter
  \/ Send \/ Wake

Change(c) == Adjust(c) \/ SetVolume(c) \/ Command(c)

Next ==
  /\ \/ Play \/ GraphFails \/ SendFails \/ SendPacket \/ Tick \/ Stop
     \/ \E c \in Callers : Call(c) \/ Change(c)
  /\ Noted

Spec == Init /\ [][Next]_vars

-----------------------------------------------------------------------------
(* Every variable stays in its range, and inputBuffer never holds a frame.    *)
TypeOK ==
  /\ player \in {"idle", "decode", "send", "sleep", "loop"} \cup Formatting \cup Faults
  /\ song \in 0 .. bound.songs /\ decoded \in 0 .. bound.samples /\ chunk \in 0 .. bound.samples
  /\ rate \in Rates \cup {NoFormat} /\ stopped \in BOOLEAN
  /\ wait \in - RepValues .. RepValues
  /\ Len(resampler.in) < FRAME_SIZE /\ resampler.song \in 0 .. song
  /\ sender \in 0 .. AudioFrames
  /\ volumeFilter \in {"null", "live", "freed"}
  /\ volume \in Int /\ resamplerVolume \in Int /\ filterVolume \in Int

(* What has not been sent yet, in the order in which it will be.             *)
OnItsWay ==
  <<heard>> \o FlattenSeq(compressedQueue) \o pcmQueue \o resampler.out
            \o FlattenSeq(resampler.sink)

(* No sample is lost, doubled, reordered or overwritten on its way through     *)
(* inputBuffer, graph, outputBuffer, pcmQueue and compressedQueue, across      *)
(* stopped songs and new formats: after a sample comes the next one of its   *)
(* song, and a song follows what the graph made of the songs before it.  And   *)
(* resample never writes more than calculateDstSamplesNumber made room for,   *)
(* although outputBuffer is handed out without lowering dstSamples.          *)
Follows(a, b) ==
  \/ b[1] = a[1] /\ b[2] = a[2] + 1
  \/ /\ b[1] > a[1] /\ b[2] = 1 /\ a[2] = ended[a[1]]
     /\ \A s \in a[1] + 1 .. b[1] - 1 : ended[s] = 0
SamplesInOrder ==
  LET all == OnItsWay
  IN  /\ player # "overrun"
      /\ \A i \in 1 .. Len(all) - 1 : Follows(all[i], all[i + 1])
      /\ resampler.made > 0 => Last(all) = <<resampler.song, resampler.made>>

(* The player sleeps for what is encoded but two packets, "for jitter safety"  *)
(* (Audio.cpp:96): the queue thread has audio as long as a sleeping player is *)
(* less than two packets late; beyond the two packets, and a third while one *)
(* is on its way, the queue holds what the last Send added; and no sleep is   *)
(* longer than the queued audio, although the subtraction in size_t wraps.   *)
Queued == Len(compressedQueue) * FramesOf
(* The most that a Send can add: n samples and a remainder of inputBuffer at   *)
(* the rate r, and what flush made of a remainder at the rate s.             *)
Burst(n, r, s) ==
  LET samples == RoundUp((n + FRAME_SIZE) * r[1], r[2]) + RoundUp(FRAME_SIZE * s[1], s[2])
  IN  RoundUp(samples, Packet) * AudioFrames
Formats == Rates \cup {NoFormat}
NoUnderrun ==
  /\ player = "sleep" => compressedQueue # <<>> \/ sender > 0
  /\ \E n \in Chunks \cup {0}, r, s \in Formats : Queued <= 3 * AudioFrames + Burst(n, r, s)
  /\ wait <= Queued

(* What the above needs: the player is never two packets late; size_t is as    *)
(* wide as the representation of milliseconds, as in a build for 64 bits; and *)
(* what can be queued is well below half of its values.                      *)
ASSUME PacingAssumption ==
  /\ Lateness < 2 * AudioFrames
  /\ SizeValues = RepValues /\ 4 * AudioFrames <= RepValues
  /\ \A n \in Chunks \cup {0}, r, s \in Formats :
       2 * (AudioFrames + Burst(n, r, s)) < RepValues

(* Between calls the volume is in its limits, Resampler and filter have it    *)
(* too, the next song included, unless the last one came before the first    *)
(* song; a freed filter gets no command.  Unless two calls, or a call and     *)
(* setInputFormat, ran at once.                                              *)
VolumeHeard ==
  ~overlapped =>
    /\ \A c \in Callers : pc[c] # "freedFilter"
    /\ Quiet =>
         /\ volume \in 1 .. MaxVolume
         /\ ~dropped => resamplerVolume = volume
         /\ volumeFilter = "live" /\ player \notin Formatting \cup Faults =>
              filterVolume = resamplerVolume
=============================================================================
