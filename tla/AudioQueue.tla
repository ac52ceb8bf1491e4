----------------------------- MODULE AudioQueue -----------------------------
(***************************************************************************)
(* libmumbleclient/Audio.cpp: the playback thread encodes the PCM it gets   *)
(* into compressedQueue (enqueue), the queue thread sends what is there     *)
(* (processQueue), the io_service thread changes the codec (selectCodec)    *)
(* and starts the queue thread (run), Disconnect stops it (stop).           *)
(*                                                                          *)
(* queueMtx guards compressedQueue; nothing guards the codec fields and     *)
(* running.  Code that touches none of these, or only compressedQueue under *)
(* the lock, is part of one action.                                         *)
(*                                                                          *)
(* The unit of audio is a frame of 10 ms; frames are numbered as they come. *)
(* An entry of compressedQueue is a record of what was encoded: the codec,  *)
(* the first frame and how many.                                            *)
(***************************************************************************)
EXTENDS Integers, Sequences, SequencesExt

CONSTANTS AudioFrames,   \* audioFrames: frames per packet
          CodecMap,      \* the CELT versions the library has
          Versions,      \* the CELT versions a server may ask for
          CELTTypes,     \* the packet types for CELT (alpha and beta)
          Chunks,        \* how many frames a call of enqueue may bring
          MaxFrames,     \* bound: frames that come
          MaxSelects     \* bound: calls of selectCodec

ASSUME AudioAssumption ==
  /\ AudioFrames \in Nat \ {0}
  /\ "opus" \notin CELTTypes /\ "none" \notin CELTTypes
  /\ CodecMap \subseteq Versions /\ "none" \notin Versions
  /\ Chunks \subseteq Nat /\ MaxFrames \in Nat /\ MaxSelects \in Nat

Types == CELTTypes \cup {"opus"}

VARIABLES
  celtCodec,         \* a version, or "none" for nullptr
  celtEncoder,       \* whether there is one that is not destroyed
  codecMsgType,
  compressedQueue,
  pcmQueue,          \* number of frames in it
  offset,            \* of the call of enqueue under way
  encoded,           \* frames that have left pcmQueue
  packet,            \* the packet processQueue is about to send
  totalFrames,
  running,
  lock,              \* holder of queueMtx
  player, sender, asio, stopper,   \* where the four threads are
  request,           \* arguments of the selectCodec under way
  selects,           \* calls of selectCodec so far
  sentTo,            \* the last frame that was sent
  failed,            \* an encoder failed
  mixed,             \* the codec changed while audio was between the threads
  raced              \* enqueue and selectCodec have been under way together

codec == <<celtCodec, celtEncoder, codecMsgType, asio, request, selects>>
pcm == <<pcmQueue, offset, encoded, player, failed>>
sending == <<packet, totalFrames, sentTo, sender>>
stopping == <<running, stopper>>
vars == <<codec, compressedQueue, pcm, sending, stopping, lock, mixed, raced>>

Faults == {"noEncoder", "overread"}
Faulty == player \in Faults

Entry(c, first, n) == [codec |-> c, first |-> first, n |-> n]
NoPacket == [type |-> "none", entries |-> <<>>, frames |-> 0]

Init ==
  /\ celtCodec = "none" /\ celtEncoder = FALSE
  /\ codecMsgType \in Types   \* not initialised
  /\ compressedQueue = <<>>
  /\ pcmQueue = 0 /\ offset = 0 /\ encoded = 0
  /\ packet = NoPacket /\ totalFrames = 0
  /\ running = FALSE /\ lock = "free"
  /\ player = "idle" /\ sender = "none" /\ asio = "idle" /\ stopper = "idle"
  /\ request = [version |-> "none", type |-> "opus"] /\ selects = 0
  /\ sentTo = 0 /\ failed = FALSE /\ mixed = FALSE /\ raced = FALSE

-----------------------------------------------------------------------------
(* enqueue, in the playback thread.                                          *)

Wake == sender' = IF sender = "asleep" THEN "locking" ELSE sender

(* pcmQueue.insert, and the test whether there is enough for a packet.       *)
Enqueue(n) ==
  /\ player = "idle"
  /\ encoded + pcmQueue + n <= MaxFrames
  /\ pcmQueue' = pcmQueue + n
  /\ offset' = 0
  /\ player' = IF pcmQueue' >= AudioFrames THEN "loop" ELSE "idle"
  /\ UNCHANGED <<codec, compressedQueue, encoded, failed, sending, stopping, lock, mixed>>

MoreToEncode == offset < pcmQueue - (pcmQueue % AudioFrames)

(* An iteration with Opus.  The encoder reads a packet's worth of PCM.       *)
EncodeOpus ==
  /\ player = "loop" /\ MoreToEncode /\ lock = "free" /\ codecMsgType = "opus"
  /\ IF offset + AudioFrames > pcmQueue
       THEN /\ player' = "overread"
            /\ UNCHANGED <<compressedQueue, offset>>
       ELSE /\ compressedQueue' =
                 Append(compressedQueue, Entry("opus", encoded + offset + 1, AudioFrames))
            /\ offset' = offset + AudioFrames
            /\ UNCHANGED player
  /\ UNCHANGED <<codec, pcmQueue, encoded, failed, sending, stopping, lock, mixed>>

(* Faulty variant: CELT is encoded without queueMtx.                         *)
EncodeCELTTestUnlocked ==
  /\ player = "loop" /\ MoreToEncode /\ codecMsgType # "opus"
  /\ player' = IF celtCodec = "none" /\ ~celtEncoder THEN "nothing" ELSE "celt"
  /\ UNCHANGED <<codec, compressedQueue, pcmQueue, offset, encoded, failed, sending,
                 stopping, lock, mixed>>

(* An iteration with CELT: the test for an encoder, then its use.            *)
EncodeCELTTest ==
  /\ player = "loop" /\ MoreToEncode /\ lock = "free" /\ codecMsgType # "opus"
  /\ lock' = "player"
  /\ player' = IF celtCodec = "none" /\ ~celtEncoder THEN "nothing" ELSE "celt"
  /\ UNCHANGED <<codec, compressedQueue, pcmQueue, offset, encoded, failed, sending,
                 stopping, mixed>>

EncodeCELT ==
  /\ player \in {"celt", "nothing"}
  /\ lock' = "free"
  /\ IF player = "celt" /\ (celtCodec = "none" \/ ~celtEncoder)
       THEN /\ player' = "noEncoder"
            /\ UNCHANGED <<compressedQueue, offset>>
       ELSE /\ compressedQueue' = Append(compressedQueue, Entry("celt", encoded + offset + 1, 1))
            /\ offset' = offset + 1
            /\ player' = "loop"
  /\ UNCHANGED <<codec, pcmQueue, encoded, failed, sending, stopping, mixed>>

(* The encoder returns an error: the call returns and leaves pcmQueue alone, *)
(* with what it has encoded.                                                 *)
EncodeFails ==
  /\ \/ player = "loop" /\ MoreToEncode /\ lock = "free" /\ codecMsgType = "opus"
     \/ player = "celt" /\ celtCodec # "none" /\ celtEncoder
  /\ lock' = "free"
  /\ player' = "idle"
  /\ failed' = TRUE
  /\ UNCHANGED <<codec, compressedQueue, pcmQueue, offset, encoded, sending, stopping, mixed>>

(* Faulty variants: the encoded PCM stays in pcmQueue; nobody is notified.    *)
EnqueueDoneKeepsPcm ==
  /\ player = "loop" /\ ~MoreToEncode
  /\ player' = "idle"
  /\ Wake
  /\ UNCHANGED <<codec, compressedQueue, pcmQueue, offset, encoded, failed, packet,
                 totalFrames, sentTo, stopping, lock, mixed>>

EnqueueDoneSilent ==
  /\ player = "loop" /\ ~MoreToEncode
  /\ pcmQueue' = pcmQueue - offset
  /\ encoded' = encoded + offset
  /\ player' = "idle"
  /\ UNCHANGED <<codec, compressedQueue, offset, failed, sending, stopping, lock, mixed>>

(* What was encoded leaves pcmQueue, and the queue thread is notified.       *)
EnqueueDone ==
  /\ player = "loop" /\ ~MoreToEncode
  /\ pcmQueue' = pcmQueue - offset
  /\ encoded' = encoded + offset
  /\ player' = "idle"
  /\ Wake
  /\ UNCHANGED <<codec, compressedQueue, offset, failed, packet, totalFrames, sentTo,
                 stopping, lock, mixed>>

-----------------------------------------------------------------------------
(* processQueue, in the queue thread.                                        *)

RunningTest ==
  /\ sender = "top"
  /\ sender' = IF running THEN "locking" ELSE "done"
  /\ UNCHANGED <<codec, compressedQueue, pcm, packet, totalFrames, sentTo, stopping, lock, mixed>>

QueueLock ==
  /\ sender = "locking" /\ lock = "free"
  /\ sender' = "test" /\ lock' = "sender"
  /\ UNCHANGED <<codec, compressedQueue, pcm, packet, totalFrames, sentTo, stopping, mixed>>

(* The test of running and of the queue.                                     *)
QueueTest ==
  /\ sender = "test"
  /\ \/ running /\ compressedQueue = <<>> /\ sender' = "decided" /\ UNCHANGED lock
     \/ compressedQueue # <<>> /\ sender' = "header" /\ UNCHANGED lock
     \/ ~running /\ compressedQueue = <<>> /\ sender' = "done" /\ lock' = "free"
  /\ UNCHANGED <<codec, compressedQueue, pcm, packet, totalFrames, sentTo, stopping, mixed>>

QueueWait ==
  /\ sender = "decided"
  /\ sender' = "asleep" /\ lock' = "free"
  /\ UNCHANGED <<codec, compressedQueue, pcm, packet, totalFrames, sentTo, stopping, mixed>>

SpuriousWake ==
  /\ sender = "asleep"
  /\ sender' = "locking"
  /\ UNCHANGED <<codec, compressedQueue, pcm, packet, totalFrames, sentTo, stopping, lock, mixed>>

(* The packet's header takes the codec's type, the body is built for the      *)
(* type read a second time.                                                  *)
PacketHeader ==
  /\ sender = "header"
  /\ packet' = [NoPacket EXCEPT !.type = codecMsgType]
  /\ sender' = "body"
  /\ UNCHANGED <<codec, compressedQueue, pcm, totalFrames, sentTo, stopping, lock, mixed>>

(* Faulty variant: a CELT packet counts as a full one.                       *)
PacketBodyCountsFull ==
  /\ sender = "body"
  /\ LET ready == IF codecMsgType = "opus" THEN 1
                  ELSE IF Len(compressedQueue) < AudioFrames THEN Len(compressedQueue)
                  ELSE AudioFrames
     IN  /\ packet' = [packet EXCEPT !.entries = SubSeq(compressedQueue, 1, ready),
                                     !.frames = AudioFrames]
         /\ compressedQueue' = SubSeq(compressedQueue, ready + 1, Len(compressedQueue))
  /\ sender' = "send" /\ lock' = "free"
  /\ UNCHANGED <<codec, pcm, totalFrames, sentTo, stopping, mixed>>

PacketBody ==
  /\ sender = "body"
  /\ LET ready == IF codecMsgType = "opus" THEN 1
                  ELSE IF Len(compressedQueue) < AudioFrames THEN Len(compressedQueue)
                  ELSE AudioFrames
     IN  /\ packet' = [packet EXCEPT
              !.entries = SubSeq(compressedQueue, 1, ready),
              !.frames = IF codecMsgType = "opus" THEN AudioFrames ELSE ready]
         /\ compressedQueue' = SubSeq(compressedQueue, ready + 1, Len(compressedQueue))
  /\ sender' = "send" /\ lock' = "free"
  /\ UNCHANGED <<codec, pcm, totalFrames, sentTo, stopping, mixed>>

SendPacket ==
  /\ sender = "send"
  /\ totalFrames' = totalFrames + packet.frames
  /\ sentTo' = Last(packet.entries).first + Last(packet.entries).n - 1
  /\ packet' = NoPacket
  /\ sender' = "top"
  /\ UNCHANGED <<codec, compressedQueue, pcm, stopping, lock, mixed>>

ProcessQueue ==
  \/ RunningTest \/ QueueLock \/ QueueTest \/ QueueWait
  \/ PacketHeader \/ PacketBody \/ SendPacket

-----------------------------------------------------------------------------
(* run, at the end of the handshake, and stop, from Disconnect.              *)

Run ==
  /\ sender = "none" /\ asio = "idle"
  /\ running' = TRUE
  /\ sender' = "top"
  /\ UNCHANGED <<codec, compressedQueue, pcm, packet, totalFrames, sentTo, stopper, lock, mixed>>

Stop ==
  /\ stopper = "idle" /\ sender # "none"
  /\ running' = FALSE
  /\ stopper' = "notify"
  /\ UNCHANGED <<codec, compressedQueue, pcm, sending, lock, mixed>>

StopNotify ==
  /\ stopper = "notify"
  /\ stopper' = "join"
  /\ Wake
  /\ UNCHANGED <<codec, compressedQueue, pcm, packet, totalFrames, sentTo, running, lock, mixed>>

StopJoin ==
  /\ stopper = "join" /\ sender = "done"
  /\ stopper' = "stopped"
  /\ UNCHANGED <<codec, compressedQueue, pcm, sending, running, lock, mixed>>
-----------------------------------------------------------------------------
(* selectCodec, in the io_service thread: the old encoder goes, codec and     *)
(* type change, the new encoder comes, with the playback thread in between.  *)

SelectRest == UNCHANGED <<compressedQueue, pcm, sending, stopping, lock>>

(* The codec type changes: audio that is between the threads was encoded for *)
(* the old one.                                                              *)
SetType(type) ==
  /\ codecMsgType' = type
  /\ mixed' = (mixed \/ ( /\ type # codecMsgType
                          /\ compressedQueue # <<>> \/ sender \in {"header", "body"}
                               \/ player # "idle" ))

SelectOpus ==
  /\ asio = "idle" /\ selects < MaxSelects
  /\ selects' = selects + 1
  /\ request' = [version |-> "none", type |-> "opus"]
  /\ celtEncoder' = (celtEncoder /\ celtCodec = "none")
  /\ asio' = "opusType"
  /\ UNCHANGED <<celtCodec, codecMsgType, mixed>> /\ SelectRest

OpusType ==
  /\ asio = "opusType"
  /\ SetType("opus")
  /\ asio' = "idle"
  /\ UNCHANGED <<celtCodec, celtEncoder, request, selects>> /\ SelectRest

(* A CELT version: one the library lacks takes the old codec away, the       *)
(* present one changes nothing, another one replaces it.                     *)
SelectCELT(version, type) ==
  /\ asio = "idle" /\ selects < MaxSelects
  /\ selects' = selects + 1
  /\ request' = [version |-> version, type |-> type]
  /\ LET found == version \in CodecMap
         same == found /\ version = celtCodec
         destroy == ~same /\ celtCodec # "none" /\ celtEncoder
     IN  /\ celtEncoder' = (celtEncoder /\ ~destroy)
         /\ celtCodec' = IF destroy /\ ~found THEN "none" ELSE celtCodec
         /\ asio' = IF found /\ ~same THEN "celtCodec" ELSE "idle"
  /\ UNCHANGED <<codecMsgType, mixed>> /\ SelectRest

CELTCodec ==
  /\ asio = "celtCodec"
  /\ celtCodec' = request.version
  /\ SetType(request.type)
  /\ asio' = "celtEncoder"
  /\ UNCHANGED <<celtEncoder, request, selects>> /\ SelectRest

(* Faulty variant: the encoder of the new codec is not created.              *)
CELTEncoderSkipped ==
  /\ asio = "celtEncoder"
  /\ asio' = "idle"
  /\ UNCHANGED <<celtCodec, celtEncoder, codecMsgType, request, selects, mixed>> /\ SelectRest

CELTEncoder ==
  /\ asio = "celtEncoder"
  /\ celtEncoder' = TRUE
  /\ asio' = "idle"
  /\ UNCHANGED <<celtCodec, codecMsgType, request, selects, mixed>> /\ SelectRest

SelectCodec ==
  \/ SelectOpus \/ OpusType
  \/ \E version \in Versions, type \in CELTTypes : SelectCELT(version, type)
  \/ CELTCodec \/ CELTEncoder

-----------------------------------------------------------------------------
Encode == EncodeOpus \/ EncodeCELTTest \/ EncodeCELT \/ EncodeFails \/ EnqueueDone

Noted ==
  /\ ~Faulty
  /\ raced' = (raced \/ (player' # "idle" /\ (asio' # "idle" \/ selects' # selects)))

Next ==
  /\ \/ (\E n \in Chunks : Enqueue(n)) \/ Encode
     \/ ProcessQueue \/ SpuriousWake
     \/ SelectCodec
     \/ Run \/ Stop \/ StopNotify \/ StopJoin
  /\ Noted

Spec == Init /\ [][Next]_vars

(* Every thread goes on with what it has begun.  Nobody has to bring audio,   *)
(* start or stop, and no spurious wake-up has to come.                       *)
FairSpec ==
  /\ Spec
  /\ WF_vars(Encode /\ Noted)
  /\ WF_vars(ProcessQueue /\ Noted)

-----------------------------------------------------------------------------
(* Every variable stays in its range, and queueMtx is held only by a thread   *)
(* that is where it holds it.                                                *)
TypeOK ==
  /\ celtCodec \in CodecMap \cup {"none"}
  /\ celtEncoder \in BOOLEAN /\ codecMsgType \in Types
  /\ \A i \in DOMAIN compressedQueue :
       compressedQueue[i] \in [codec : {"opus", "celt"}, first : 1 .. MaxFrames,
                               n : {1, AudioFrames}]
  /\ encoded \in 0 .. MaxFrames /\ pcmQueue \in 0 .. MaxFrames - encoded
  /\ offset \in 0 .. MaxFrames
  /\ packet.type \in Types \cup {"none"} /\ packet.frames \in 0 .. AudioFrames
  /\ totalFrames \in Nat /\ sentTo \in 0 .. MaxFrames
  /\ player \in {"idle", "loop", "celt", "nothing"} \cup Faults
  /\ sender \in {"none", "top", "locking", "test", "decided", "asleep", "header", "body",
                 "send", "done"}
  /\ lock = IF player \in {"celt", "nothing"} THEN "player"
            ELSE IF sender \in {"test", "decided", "header", "body"} THEN "sender" ELSE "free"
  /\ running \in BOOLEAN /\ failed \in BOOLEAN /\ mixed \in BOOLEAN /\ raced \in BOOLEAN

(* Audio leaves in the order in which it came, no frame left out or sent      *)
(* twice, whatever the codec does meanwhile, unless an encoder failed: then  *)
(* what was encoded before the error is encoded again.                       *)
Contiguous(entries, after) ==
  \A i \in DOMAIN entries :
    entries[i].first = IF i = 1 THEN after + 1 ELSE entries[i - 1].first + entries[i - 1].n
AudioInOrder ==
  failed \/ Contiguous(packet.entries \o compressedQueue, sentTo)

(* totalFrames, the time stamp of the packets, counts the frames that were   *)
(* sent, and a packet holds only what was encoded for the type in its header, *)
(* unless the codec was changed under audio on its way.                      *)
PacketsMatchAudio ==
  ~mixed =>
    /\ ~failed => totalFrames = sentTo
    /\ \A i \in DOMAIN packet.entries :
         packet.entries[i].codec = IF packet.type = "opus" THEN "opus" ELSE "celt"

(* The unlocked codec fields lead to undefined behaviour only in a call of    *)
(* enqueue that a change of codec meets: an encoder that is missing or       *)
(* destroyed is never used, nor PCM read that is not there, otherwise.       *)
FaultNeedsCodecChange == Faulty => raced

(* What is in the queue of a running thread is sent: no notification is lost  *)
(* between enqueue and the queue thread's test.  An encoder error ends        *)
(* enqueue before the notification and may leave entries waiting.            *)
Waiting(f) == \E i \in DOMAIN compressedQueue : compressedQueue[i].first = f
AudioFlows ==
  \A f \in 1 .. MaxFrames :
    (Waiting(f) /\ running) ~> (~Waiting(f) \/ ~running \/ failed \/ Faulty)
=============================================================================
