---------------------------- MODULE AudioProofs ----------------------------
(***************************************************************************)
(* For every packet size, every set of codecs and any amount of audio: what  *)
(* AudioQueue promises about the audio between the threads.                  *)
(*                                                                          *)
(* The threads share compressedQueue under queueMtx and the codec fields      *)
(* under nothing.  So the invariant has a part that holds whatever the codec *)
(* does (TypeInv, QueueInv, ChainInv), one that holds until the codec changes *)
(* under audio on its way (MatchInv), and one that holds until a call of      *)
(* enqueue meets a change (RaceInv).                                         *)
(***************************************************************************)
EXTENDS AudioQueue, SequenceTheorems, TLAPS

LastFrame(e) == e.first + e.n - 1
Pieces == {e \in [codec : {"opus", "celt"}, first : 1 .. MaxFrames, n : {1, AudioFrames}] :
             LastFrame(e) <= MaxFrames}

Encoding == player # "idle"
PlayerLocks == player \in {"celt", "nothing"}
SenderLocks == sender \in {"test", "decided", "header", "body"}

(* TypeOK, and what the queue and the packet consist of.                      *)
TypeInv ==
  /\ TypeOK
  /\ compressedQueue \in Seq(Pieces)
  /\ packet \in [type : Types \cup {"none"}, entries : Seq(Pieces), frames : 0 .. AudioFrames]
  /\ asio = "celtCodec" => request.version \in CodecMap /\ request.type \in Types
  /\ selects \in Nat

(* The lock is held once; who is between its test and its use has still what   *)
(* it tested.                                                                *)
QueueInv ==
  /\ ~(PlayerLocks /\ SenderLocks)
  /\ sender \in {"header", "body"} => compressedQueue # <<>>
  /\ sender = "send" => packet.entries # <<>>
  /\ sender # "send" => packet.entries = <<>> /\ packet.frames = 0
  /\ Encoding => offset <= pcmQueue
  /\ PlayerLocks => MoreToEncode

(* What is on its way goes without a gap from the last frame that was sent to  *)
(* the last one that was encoded.                                            *)
Frontier == encoded + IF Encoding THEN offset ELSE 0
Chain(entries, from, to) ==
  /\ Contiguous(entries, from)
  /\ to = IF entries = <<>> THEN from ELSE LastFrame(entries[Len(entries)])
ChainInv == ~failed => Chain(packet.entries \o compressedQueue, sentTo, Frontier)

(* All of compressedQueue was encoded for the present type.                    *)
Sent == IF sender = "send" THEN LastFrame(Last(packet.entries)) ELSE sentTo
Kind(type) == IF type = "opus" THEN "opus" ELSE "celt"
MatchInv ==
  ~mixed =>
    /\ \A i \in DOMAIN compressedQueue :
         /\ compressedQueue[i].codec = Kind(codecMsgType)
         /\ codecMsgType = "opus" => compressedQueue[i].n = AudioFrames
         /\ codecMsgType # "opus" => compressedQueue[i].n = 1
         /\ (~failed /\ codecMsgType # "opus") => compressedQueue[i].first = Sent + i
    /\ PlayerLocks => codecMsgType # "opus"
    /\ sender = "body" => packet.type = codecMsgType
    /\ ~failed => totalFrames + packet.frames = Sent

(* There is an encoder for the codec whenever no change is under way and CELT   *)
(* is in use.                                                                *)
CodecInv ==
  /\ (asio = "idle" /\ codecMsgType # "opus") => (celtEncoder <=> (celtCodec # "none"))
  /\ asio = "celtEncoder" => celtCodec # "none"

Whole(n) == \E k \in Nat : n = AudioFrames * k   \* a number of packets

(* A call of enqueue that no change has met: its encoder is there, and with     *)
(* Opus it has taken whole packets only.                                     *)
RaceInv ==
  (~raced /\ Encoding) =>
    /\ asio = "idle" /\ ~Faulty
    /\ PlayerLocks => codecMsgType # "opus"
    /\ player = "celt" => celtCodec # "none" /\ celtEncoder
    /\ codecMsgType = "opus" => Whole(offset)

AudioInv ==
  TypeInv /\ QueueInv /\ ChainInv /\ MatchInv /\ PacketsMatchAudio /\ CodecInv /\ RaceInv

-----------------------------------------------------------------------------
(* An offset below the last whole packet is below the end; if it is a whole    *)
(* number of packets there is room for one more.                             *)
LEMMA RoomForPacket ==
  ASSUME NEW o \in Nat, NEW p \in Nat, o < p - (p % AudioFrames)
  PROVE  /\ o < p
         /\ Whole(o) => o + AudioFrames <= p /\ Whole(o + AudioFrames)
<1> DEFINE F == AudioFrames
           q == p \div F
<1>0. F \in Nat /\ F > 0
  BY AudioAssumption
<1>1. q \in Int /\ p = F * q + (p % F) /\ p % F \in 0 .. F - 1
  BY <1>0
<1>2. o < p
  BY <1>1
<1> HIDE DEF q
<1>3. ASSUME NEW k \in Nat, o = F * k
      PROVE  o + F <= p /\ o + F = F * (k + 1)
  <2>1. F * k < F * q
    BY <1>0, <1>1, <1>3
  <2>2. k < q
    <3> SUFFICES ASSUME k - q \in Nat PROVE FALSE
      BY <1>1
    <3>1. F * (k - q) >= 0
      BY <1>0
    <3>2. F * (k - q) = F * k - F * q
      BY <1>0, <1>1
    <3> QED BY <1>0, <1>1, <2>1, <3>1, <3>2
  <2>3. F * (k + 1) <= F * q
    <3>1. q - (k + 1) \in Nat
      BY <1>1, <2>2
    <3>2. F * (q - (k + 1)) >= 0
      BY <1>0, <3>1
    <3>3. F * (q - (k + 1)) = F * q - F * (k + 1)
      BY <1>0, <1>1
    <3> QED BY <1>0, <1>1, <3>2, <3>3
  <2>4. o + F = F * (k + 1)
    BY <1>0, <1>1, <1>3
  <2>5. F * (k + 1) \in Int /\ F * q \in Int
    BY <1>0, <1>1
  <2>6. F * q <= p
    BY <1>1, <2>5
  <2> QED BY <2>3, <2>4, <2>5, <2>6
<1>4. ASSUME Whole(o)
      PROVE  o + F <= p /\ Whole(o + F)
  <2>1. PICK k \in Nat : o = F * k
    BY <1>4 DEF Whole
  <2> QED BY <1>3, <2>1 DEF Whole
<1> QED BY <1>2, <1>4

LEMMA AppendToConcat ==
  ASSUME NEW S, NEW s \in Seq(S), NEW t \in Seq(S), NEW e \in S
  PROVE  s \o Append(t, e) = Append(s \o t, e)
<1>1. <<e>> \in Seq(S) /\ s \o t \in Seq(S)
  BY ConcatProperties
<1>2. Append(t, e) = t \o <<e>> /\ Append(s \o t, e) = (s \o t) \o <<e>>
  BY <1>1, AppendIsConcat
<1>3. (s \o t) \o <<e>> = s \o (t \o <<e>>)
  BY <1>1, ConcatAssociative
<1> QED
  BY <1>2, <1>3

(* An entry put behind a chain makes it longer.                               *)
LEMMA ChainAppend ==
  ASSUME NEW s \in Seq(Pieces), NEW from \in Int, NEW to \in Int, Chain(s, from, to),
         NEW e \in Pieces, e.first = to + 1
  PROVE  Chain(Append(s, e), from, LastFrame(e))
<1> DEFINE t == Append(s, e)
<1>1. /\ t \in Seq(Pieces) /\ Len(t) = Len(s) + 1 /\ t # <<>>
      /\ \A i \in 1 .. Len(s) : t[i] = s[i]
      /\ t[Len(s) + 1] = e
  BY AppendProperties
<1>2. Len(s) \in Nat /\ DOMAIN s = 1 .. Len(s) /\ DOMAIN t = 1 .. Len(s) + 1
  BY <1>1, LenProperties
<1> HIDE DEF t
<1>3. ASSUME NEW i \in 1 .. Len(s) + 1
      PROVE  t[i].first = IF i = 1 THEN from + 1 ELSE t[i - 1].first + t[i - 1].n
  <2>1. CASE i \in 1 .. Len(s)
    <3>1. t[i] = s[i] /\ (i # 1 => t[i - 1] = s[i - 1])
      BY <1>1, <1>2, <2>1
    <3> QED
      BY <1>2, <2>1, <3>1 DEF Chain, Contiguous
  <2>2. CASE i = Len(s) + 1 /\ Len(s) = 0
    <3>1. s = <<>>
      BY <2>2, EmptySeq
    <3> QED
      BY <1>1, <2>2, <3>1 DEF Chain
  <2>3. CASE i = Len(s) + 1 /\ Len(s) # 0
    <3>1. s # <<>> /\ t[i - 1] = s[Len(s)] /\ t[i] = e
      BY <1>1, <1>2, <2>3, EmptySeq
    <3>2. s[Len(s)] \in Pieces
      BY <1>2, <2>3, ElementOfSeq
    <3>3. s[Len(s)].first \in Int /\ s[Len(s)].n \in Int
      BY <3>2, AudioAssumption DEF Pieces
    <3>4. to = s[Len(s)].first + s[Len(s)].n - 1
      BY <3>1 DEF Chain, LastFrame
    <3> QED
      BY <1>2, <2>3, <3>1, <3>3, <3>4
  <2> QED BY <1>2, <2>1, <2>2, <2>3
<1>4. Contiguous(t, from)
  BY <1>2, <1>3 DEF Contiguous
<1> QED BY <1>1, <1>4 DEF Chain, t

(* What follows the first entries of a chain is a chain from their end on.     *)
LEMMA ChainDrop ==
  ASSUME NEW s \in Seq(Pieces), NEW t \in Seq(Pieces), s # <<>>,
         NEW from \in Int, NEW to \in Int, Chain(s \o t, from, to)
  PROVE  Chain(t, LastFrame(Last(s)), to)
<1> DEFINE u == s \o t
<1>1. /\ u \in Seq(Pieces) /\ Len(u) = Len(s) + Len(t)
      /\ \A i \in 1 .. Len(s) + Len(t) : u[i] = IF i <= Len(s) THEN s[i] ELSE t[i - Len(s)]
  BY ConcatProperties
<1>2. /\ Len(s) \in Nat \ {0} /\ Len(t) \in Nat
      /\ DOMAIN t = 1 .. Len(t) /\ DOMAIN u = 1 .. Len(s) + Len(t)
  BY <1>1, LenProperties, EmptySeq
<1> HIDE DEF u
<1>3. u[Len(s)] = Last(s) /\ Last(s) \in Pieces
  BY <1>1, <1>2, ElementOfSeq DEF Last
<1>4. Last(s).first \in Int /\ Last(s).n \in Int
  BY <1>3, AudioAssumption DEF Pieces
<1>5. ASSUME NEW i \in 1 .. Len(t)
      PROVE  t[i].first = IF i = 1 THEN LastFrame(Last(s)) + 1 ELSE t[i - 1].first + t[i - 1].n
  <2>1. Len(s) + i \in DOMAIN u /\ u[Len(s) + i] = t[i] /\ Len(s) + i # 1
    <3>1. Len(s) + i \in 1 .. Len(s) + Len(t) /\ ~(Len(s) + i <= Len(s))
          /\ Len(s) + i - Len(s) = i /\ Len(s) + i # 1
      BY <1>2
    <3>2. u[Len(s) + i] = t[Len(s) + i - Len(s)]
      BY <1>1, <3>1
    <3> QED BY <1>2, <3>1, <3>2
  <2>2. t[i].first = u[Len(s) + i - 1].first + u[Len(s) + i - 1].n
    <3>1. Contiguous(u, from)
      BY DEF Chain, u
    <3>2. \A j \in DOMAIN u : j # 1 => u[j].first = u[j - 1].first + u[j - 1].n
      BY <3>1 DEF Contiguous
    <3> HIDE DEF Contiguous
    <3> DEFINE j == Len(s) + i
    <3>3. u[j].first = u[j - 1].first + u[j - 1].n
      BY <2>1, <3>2
    <3> QED BY <2>1, <3>3
  <2>3. CASE i = 1
    BY <1>2, <1>3, <1>4, <2>2, <2>3 DEF LastFrame
  <2>4. CASE i # 1
    <3>1. u[Len(s) + i - 1] = t[i - 1]
      BY <1>1, <1>2, <2>4
    <3> QED BY <2>2, <2>4, <3>1
  <2> QED BY <2>3, <2>4
<1>6. to = IF t = <<>> THEN LastFrame(Last(s)) ELSE LastFrame(t[Len(t)])
  <2>1. u # <<>> /\ to = LastFrame(u[Len(u)])
    BY <1>1, <1>2, EmptySeq DEF Chain, u
  <2>2. CASE t = <<>>
    BY <1>1, <1>2, <1>3, <2>1, <2>2
  <2>3. CASE t # <<>>
    <3>1. Len(t) # 0
      BY <2>3, EmptySeq
    <3> QED BY <1>1, <1>2, <2>1, <2>3, <3>1
  <2> QED BY <2>2, <2>3
<1> QED BY <1>2, <1>5, <1>6 DEF Chain, Contiguous

-----------------------------------------------------------------------------
(* Types, the lock, and the tests that hold until they are used.               *)

LEMMA QueueTyped ==
  ASSUME NEW q \in Seq(Pieces)
  PROVE  /\ Len(q) \in Nat /\ DOMAIN q = 1 .. Len(q) /\ (q # <<>> => Len(q) > 0)
         /\ \A i \in DOMAIN q :
              /\ q[i] \in Pieces
              /\ q[i] \in [codec : {"opus", "celt"}, first : 1 .. MaxFrames,
                           n : {1, AudioFrames}]
<1>1. Len(q) \in Nat /\ DOMAIN q = 1 .. Len(q) /\ (q # <<>> => Len(q) > 0)
  BY LenProperties, EmptySeq
<1>2. \A i \in DOMAIN q : q[i] \in Pieces
  BY <1>1, ElementOfSeq
<1> QED BY <1>1, <1>2 DEF Pieces

LEMMA TypeInit == Init => TypeInv /\ QueueInv
<1> SUFFICES ASSUME Init PROVE TypeInv /\ QueueInv
  OBVIOUS
<1>1. compressedQueue \in Seq(Pieces) /\ packet.entries = <<>>
  BY DEF Init, NoPacket
<1>2. packet \in [type : Types \cup {"none"}, entries : Seq(Pieces), frames : 0 .. AudioFrames]
  BY AudioAssumption DEF Init, NoPacket
<1>3. TypeOK
  <2>1. /\ celtCodec \in CodecMap \cup {"none"} /\ codecMsgType \in Types
        /\ celtEncoder \in BOOLEAN /\ running \in BOOLEAN /\ failed \in BOOLEAN
        /\ mixed \in BOOLEAN /\ raced \in BOOLEAN
    BY Zenon DEF Init
  <2>2. DOMAIN compressedQueue = {}
    BY DEF Init
  <2>3. /\ encoded \in 0 .. MaxFrames /\ pcmQueue \in 0 .. MaxFrames - encoded
        /\ offset \in 0 .. MaxFrames /\ totalFrames \in Nat /\ sentTo \in 0 .. MaxFrames
    BY AudioAssumption DEF Init
  <2>4. packet.type \in Types \cup {"none"} /\ packet.frames \in 0 .. AudioFrames
    BY <1>2
  <2> QED
    BY <2>1, <2>2, <2>3, <2>4 DEF Init, TypeOK
<1> QED
  BY <1>1, <1>2, <1>3
     DEF Init, TypeInv, QueueInv, PlayerLocks, SenderLocks, Encoding, NoPacket

(* The steps of enqueue.                                                     *)
LEMMA TypePlayer ==
  ASSUME TypeInv, QueueInv, Noted, Encode \/ \E n \in Chunks : Enqueue(n)
  PROVE  TypeInv' /\ QueueInv'
<1> USE DEF TypeInv, TypeOK, QueueInv, PlayerLocks, SenderLocks, Encoding, Faults,
            codec, pcm, sending, stopping
<1>0. AudioFrames \in Nat \ {0} /\ MaxFrames \in Nat /\ Chunks \subseteq Nat
  BY AudioAssumption
<1>1. /\ offset \in Nat /\ pcmQueue \in Nat /\ encoded \in Nat
      /\ encoded + pcmQueue <= MaxFrames
  BY <1>0
<1>2. MoreToEncode => offset < pcmQueue
  BY <1>1, RoomForPacket DEF MoreToEncode
<1>3. raced' \in BOOLEAN
  BY DEF Noted
<1>4. ASSUME NEW n \in Chunks, Enqueue(n)
      PROVE  TypeInv' /\ QueueInv'
  BY <1>0, <1>1, <1>3, <1>4 DEF Enqueue
<1>5. CASE EncodeOpus /\ player' = "overread"
  BY <1>0, <1>1, <1>3, <1>5 DEF EncodeOpus
<1>6. CASE EncodeOpus /\ player' # "overread"
  <2> DEFINE e == Entry("opus", encoded + offset + 1, AudioFrames)
  <2>1. e \in Pieces
    BY <1>0, <1>1, <1>6 DEF EncodeOpus, Entry, Pieces, LastFrame
  <2>2. compressedQueue' \in Seq(Pieces) /\ compressedQueue' # <<>>
    <3>1. compressedQueue' = Append(compressedQueue, e)
      BY <1>6 DEF EncodeOpus
    <3> HIDE DEF e
    <3> QED BY <2>1, <3>1, AppendProperties
  <2>3. \A i \in DOMAIN compressedQueue' : compressedQueue'[i] \in
          [codec : {"opus", "celt"}, first : 1 .. MaxFrames, n : {1, AudioFrames}]
    BY <2>2, QueueTyped
  <2> QED
    BY <1>0, <1>1, <1>3, <1>6, <2>2, <2>3 DEF EncodeOpus
<1>7. CASE EncodeCELTTest
  BY <1>0, <1>1, <1>2, <1>3, <1>7 DEF EncodeCELTTest, MoreToEncode
<1>8. CASE EncodeCELT /\ player' = "noEncoder"
  BY <1>0, <1>1, <1>3, <1>8 DEF EncodeCELT
<1>9. CASE EncodeCELT /\ player' # "noEncoder"
  <2> DEFINE e == Entry("celt", encoded + offset + 1, 1)
  <2>1. e \in Pieces
    BY <1>0, <1>1, <1>2, <1>9 DEF EncodeCELT, Entry, Pieces, LastFrame
  <2>2. compressedQueue' \in Seq(Pieces) /\ compressedQueue' # <<>>
    <3>1. compressedQueue' = Append(compressedQueue, e)
      BY <1>9 DEF EncodeCELT
    <3> HIDE DEF e
    <3> QED BY <2>1, <3>1, AppendProperties
  <2>3. \A i \in DOMAIN compressedQueue' : compressedQueue'[i] \in
          [codec : {"opus", "celt"}, first : 1 .. MaxFrames, n : {1, AudioFrames}]
    BY <2>2, QueueTyped
  <2> QED
    BY <1>0, <1>1, <1>2, <1>3, <1>9, <2>2, <2>3 DEF EncodeCELT
<1>10. CASE EncodeFails
  BY <1>0, <1>1, <1>3, <1>10 DEF EncodeFails
<1>11. CASE EnqueueDone
  BY <1>0, <1>1, <1>3, <1>11 DEF EnqueueDone, Wake
<1> QED
  BY <1>4, <1>5, <1>6, <1>7, <1>8, <1>9, <1>10, <1>11 DEF Encode

(* The steps of processQueue.                                                *)
LEMMA TypeSender ==
  ASSUME TypeInv, QueueInv, Noted, ProcessQueue \/ SpuriousWake
  PROVE  TypeInv' /\ QueueInv'
<1> USE DEF TypeInv, TypeOK, QueueInv, PlayerLocks, SenderLocks, Encoding, Faults,
            codec, pcm, sending, stopping, MoreToEncode
<1>0. AudioFrames \in Nat \ {0} /\ MaxFrames \in Nat
  BY AudioAssumption
<1>3. raced' \in BOOLEAN
  BY DEF Noted
<1>4. CASE RunningTest \/ QueueLock \/ QueueTest \/ QueueWait \/ SpuriousWake
  <2>1. CASE RunningTest
    BY <1>3, <2>1 DEF RunningTest
  <2>2. CASE QueueLock
    BY <1>3, <2>2 DEF QueueLock
  <2>3. CASE QueueTest
    BY <1>3, <2>3 DEF QueueTest
  <2>4. CASE QueueWait
    BY <1>3, <2>4 DEF QueueWait
  <2>5. CASE SpuriousWake
    BY <1>3, <2>5 DEF SpuriousWake
  <2> QED
    BY <1>4, <2>1, <2>2, <2>3, <2>4, <2>5
<1>5. CASE PacketHeader
  <2>1. packet' = [type |-> codecMsgType, entries |-> <<>>, frames |-> 0]
    BY <1>5 DEF PacketHeader, NoPacket
  <2>2. /\ packet' \in [type : Types \cup {"none"}, entries : Seq(Pieces),
                        frames : 0 .. AudioFrames]
        /\ packet'.entries = <<>> /\ packet'.frames = 0
    BY <1>0, <2>1, EmptySeq
  <2> QED
    BY <1>3, <1>5, <2>2 DEF PacketHeader
<1>6. CASE PacketBody
  <2> DEFINE q == compressedQueue
             ready == IF codecMsgType = "opus" THEN 1
                      ELSE IF Len(q) < AudioFrames THEN Len(q) ELSE AudioFrames
  <2>1. Len(q) \in Nat \ {0} /\ \A i \in 1 .. Len(q) : q[i] \in Pieces
    BY <1>6, QueueTyped DEF PacketBody
  <2>2. ready \in 1 .. Len(q) /\ ready \in 1 .. AudioFrames
    BY <1>0, <2>1
  <2> HIDE DEF ready
  <2>3. /\ SubSeq(q, 1, ready) \in Seq(Pieces) /\ Len(SubSeq(q, 1, ready)) = ready
        /\ SubSeq(q, ready + 1, Len(q)) \in Seq(Pieces)
    BY <2>1, <2>2, SubSeqProperties
  <2>4. SubSeq(q, 1, ready) # <<>>
    <3>1. Len(SubSeq(q, 1, ready)) # 0
      BY <2>2, <2>3
    <3> QED BY <3>1, EmptySeq
  <2>5. /\ packet' = [packet EXCEPT !.entries = SubSeq(q, 1, ready),
              !.frames = IF codecMsgType = "opus" THEN AudioFrames ELSE ready]
        /\ compressedQueue' = SubSeq(q, ready + 1, Len(q))
    BY <1>6 DEF PacketBody, ready
  <2>6. compressedQueue' \in Seq(Pieces)
        /\ \A i \in DOMAIN compressedQueue' : compressedQueue'[i] \in
             [codec : {"opus", "celt"}, first : 1 .. MaxFrames, n : {1, AudioFrames}]
    BY <2>3, <2>5, QueueTyped
  <2>7. packet' \in [type : Types \cup {"none"}, entries : Seq(Pieces), frames : 0 .. AudioFrames]
        /\ packet'.entries # <<>>
    <3>1. packet \in [type : Types \cup {"none"}, entries : Seq(Pieces),
                      frames : 0 .. AudioFrames]
      OBVIOUS
    <3> DEFINE f == IF codecMsgType = "opus" THEN AudioFrames ELSE ready
    <3>2. f \in 0 .. AudioFrames
      BY <1>0, <2>2
    <3> HIDE DEF f
    <3>3. packet' = [packet EXCEPT !.entries = SubSeq(q, 1, ready), !.frames = f]
      BY <2>5 DEF f
    <3> QED BY ONLY <2>3, <2>4, <3>1, <3>2, <3>3
  <2> QED
    BY <1>3, <1>6, <2>6, <2>7 DEF PacketBody
<1>7. CASE SendPacket
  <2>1. Last(packet.entries) \in Pieces
    BY <1>7, QueueTyped DEF SendPacket, Last
  <2>2. sentTo' \in 0 .. MaxFrames /\ totalFrames' \in Nat
    BY <1>0, <1>7, <2>1 DEF SendPacket, Pieces, LastFrame
  <2> QED
    BY <1>0, <1>3, <1>7, <2>2, EmptySeq DEF SendPacket, NoPacket
<1> QED
  BY <1>4, <1>5, <1>6, <1>7 DEF ProcessQueue

(* The steps of run, stop and selectCodec.                                   *)
LEMMA TypeOthers ==
  ASSUME TypeInv, QueueInv, Noted, SelectCodec \/ Run \/ Stop \/ StopNotify \/ StopJoin
  PROVE  TypeInv' /\ QueueInv'
<1> USE DEF TypeInv, TypeOK, QueueInv, PlayerLocks, SenderLocks, Encoding, Faults,
            codec, pcm, sending, stopping, MoreToEncode
<1>3. raced' \in BOOLEAN
  BY DEF Noted
<1>1. CASE Run
  BY <1>3, <1>1 DEF Run
<1>2. CASE Stop
  <2>1. /\ running' \in BOOLEAN
        /\ UNCHANGED <<codec, compressedQueue, pcm, sending, lock, mixed>>
    BY <1>2 DEF Stop
  <2> QED
    BY <1>3, <2>1
<1>4. CASE StopJoin
  <2>1. stopper' = "stopped" /\ UNCHANGED <<codec, compressedQueue, pcm, sending, running, lock, mixed>>
    BY <1>4 DEF StopJoin
  <2> QED
    BY <1>3, <2>1
<1>10. CASE StopNotify
  <2>1. /\ stopper' = "join" /\ sender' \in {sender, "locking"}
        /\ UNCHANGED <<codec, compressedQueue, pcm, packet, totalFrames, sentTo, running, lock, mixed>>
    BY <1>10 DEF StopNotify, Wake
  <2>2. sender' # sender => sender = "asleep"
    BY <1>10 DEF StopNotify, Wake
  <2> QED
    BY <1>3, <2>1, <2>2
<1>5. CASE SelectOpus
  BY <1>3, <1>5 DEF SelectOpus, SelectRest
<1>8. CASE OpusType
  <2>1. mixed' \in BOOLEAN
    BY <1>8 DEF OpusType, SetType
  <2> QED
    BY <1>3, <1>8, <2>1 DEF OpusType, SelectRest, SetType, Types
<1>6. ASSUME NEW version \in Versions, NEW type \in CELTTypes, SelectCELT(version, type)
      PROVE  TypeInv' /\ QueueInv'
  BY <1>3, <1>6 DEF SelectCELT, SelectRest, Types
<1>7. CASE CELTEncoder
  BY <1>3, <1>7 DEF CELTEncoder, SelectRest
<1>9. CASE CELTCodec
  <2>1. mixed' \in BOOLEAN
    BY <1>9 DEF CELTCodec, SetType
  <2> QED
    BY <1>3, <1>9, <2>1 DEF CELTCodec, SelectRest, SetType
<1> QED
  BY <1>1, <1>2, <1>4, <1>5, <1>6, <1>7, <1>8, <1>9, <1>10 DEF SelectCodec

LEMMA TypeStep ==
  ASSUME TypeInv, QueueInv, [Next]_vars
  PROVE  TypeInv' /\ QueueInv'
<1>1. CASE Next
  BY <1>1, TypePlayer, TypeSender, TypeOthers DEF Next
<1>2. CASE UNCHANGED vars
  BY <1>2 DEF vars, codec, pcm, sending, stopping, TypeInv, TypeOK, QueueInv, PlayerLocks,
              SenderLocks, Encoding, MoreToEncode
<1> QED BY <1>1, <1>2

-----------------------------------------------------------------------------
(* The order of the audio.                                                   *)

LEMMA ChainInit == Init => ChainInv
<1> SUFFICES ASSUME Init PROVE ChainInv
  OBVIOUS
<1>1. packet.entries \o compressedQueue = <<>>
  <2>1. packet.entries = <<>> /\ compressedQueue = <<>>
    BY DEF Init, NoPacket
  <2> QED BY <2>1, EmptySeq, ConcatEmptySeq
<1>2. sentTo = 0 /\ Frontier = 0
  BY DEF Init, Frontier, Encoding
<1>3. Chain(<<>>, 0, 0)
  BY DEF Chain, Contiguous
<1> QED
  BY <1>1, <1>2, <1>3 DEF ChainInv

(* The encoder puts the entry behind what is on its way.                       *)
LEMMA ChainEncode ==
  ASSUME TypeInv, ChainInv, NEW e \in Pieces, e.first = Frontier + 1,
         compressedQueue' = Append(compressedQueue, e), Frontier' = LastFrame(e),
         UNCHANGED <<packet, sentTo, failed>>
  PROVE  ChainInv'
<1> SUFFICES ASSUME ~failed
             PROVE  Chain(packet.entries \o Append(compressedQueue, e), sentTo, LastFrame(e))
  BY DEF ChainInv
<1>1. packet.entries \in Seq(Pieces) /\ compressedQueue \in Seq(Pieces)
  BY DEF TypeInv
<1>2. packet.entries \o Append(compressedQueue, e) = Append(packet.entries \o compressedQueue, e)
  <2>1. \A s, t \in Seq(Pieces) : \A x \in Pieces : s \o Append(t, x) = Append(s \o t, x)
    BY AppendToConcat
  <2> QED BY <1>1, <2>1
<1>3. sentTo \in Int /\ Frontier \in Int
  BY AudioAssumption DEF TypeInv, TypeOK, Frontier
<1>4. Chain(packet.entries \o compressedQueue, sentTo, Frontier)
  BY DEF ChainInv
<1>5. packet.entries \o compressedQueue \in Seq(Pieces)
  BY <1>1, ConcatProperties
<1> QED
  BY <1>2, <1>3, <1>4, <1>5, ChainAppend

LEMMA ChainStep ==
  ASSUME TypeInv, QueueInv, ChainInv, [Next]_vars
  PROVE  ChainInv'
<1> USE DEF codec, pcm, sending, stopping
<1>1. packet.entries \in Seq(Pieces) /\ compressedQueue \in Seq(Pieces)
  BY DEF TypeInv
<1>2. /\ offset \in Nat /\ pcmQueue \in Nat /\ encoded \in Nat
      /\ encoded + pcmQueue <= MaxFrames /\ AudioFrames \in Nat \ {0} /\ MaxFrames \in Nat
  BY AudioAssumption DEF TypeInv, TypeOK
<1>3. ASSUME NEW n \in Chunks, Enqueue(n)
      PROVE  ChainInv'
  BY <1>2, <1>3 DEF Enqueue, ChainInv, Frontier, Encoding
<1>4. CASE EncodeOpus /\ player' # "overread"
  <2> DEFINE e == Entry("opus", encoded + offset + 1, AudioFrames)
  <2>1. /\ e \in Pieces /\ e.first = Frontier + 1 /\ Frontier' = LastFrame(e)
        /\ compressedQueue' = Append(compressedQueue, e)
        /\ UNCHANGED <<packet, sentTo, failed>>
    BY <1>2, <1>4 DEF EncodeOpus, Entry, Pieces, LastFrame, Frontier, Encoding
  <2> QED
    BY <2>1, ChainEncode
<1>5. CASE EncodeCELT /\ player' # "noEncoder"
  <2> DEFINE e == Entry("celt", encoded + offset + 1, 1)
  <2>0. offset < pcmQueue
    BY <1>2, <1>5, RoomForPacket DEF EncodeCELT, QueueInv, PlayerLocks, MoreToEncode
  <2>1. /\ e \in Pieces /\ e.first = Frontier + 1 /\ Frontier' = LastFrame(e)
        /\ compressedQueue' = Append(compressedQueue, e)
        /\ UNCHANGED <<packet, sentTo, failed>>
    BY <1>2, <1>5, <2>0 DEF EncodeCELT, Entry, Pieces, LastFrame, Frontier, Encoding
  <2> QED
    BY <2>1, ChainEncode
<1>6. CASE (EncodeOpus /\ player' = "overread") \/ (EncodeCELT /\ player' = "noEncoder")
           \/ EncodeCELTTest \/ EncodeFails
  BY <1>6 DEF EncodeOpus, EncodeCELT, EncodeCELTTest, EncodeFails, ChainInv, Frontier, Encoding
<1>7. CASE EnqueueDone
  BY <1>2, <1>7 DEF EnqueueDone, ChainInv, Frontier, Encoding
<1>8. CASE PacketHeader
  <2>1. packet'.entries = packet.entries
    BY <1>8 DEF PacketHeader, NoPacket, QueueInv
  <2> QED
    BY <1>8, <2>1 DEF PacketHeader, ChainInv, Frontier, Encoding
<1>9. CASE PacketBody
  <2> DEFINE q == compressedQueue
             ready == IF codecMsgType = "opus" THEN 1
                      ELSE IF Len(q) < AudioFrames THEN Len(q) ELSE AudioFrames
  <2>1. Len(q) \in Nat \ {0} /\ packet.entries = <<>>
    BY <1>1, <1>9, QueueTyped DEF PacketBody, QueueInv
  <2>2. ready \in 1 .. Len(q)
    BY <1>2, <2>1
  <2>3. packet'.entries = SubSeq(q, 1, ready) /\ compressedQueue' = SubSeq(q, ready + 1, Len(q))
    BY <1>9 DEF PacketBody, TypeInv
  <2> HIDE DEF ready
  <2>4. packet'.entries \o compressedQueue' = q
    <3>1. SubSeq(q, 1, ready) \o SubSeq(q, ready + 1, Len(q)) = SubSeq(q, 1, Len(q))
      <4>1. 1 \in 1 .. Len(q) + 1 /\ ready \in 1 - 1 .. Len(q) /\ Len(q) \in ready .. Len(q)
        BY <2>1, <2>2
      <4> QED BY <1>1, <4>1, ConcatAdjacentSubSeq
    <3> QED BY <1>1, <2>3, <3>1, SubSeqFull
  <2>5. packet.entries \o compressedQueue = q
    BY <1>1, <2>1, ConcatEmptySeq
  <2> QED
    BY <1>9, <2>4, <2>5 DEF PacketBody, ChainInv, Frontier, Encoding
<1>10. CASE SendPacket
  <2> SUFFICES ASSUME ~failed
               PROVE  Chain(<<>> \o compressedQueue, LastFrame(Last(packet.entries)), Frontier)
    BY <1>10 DEF SendPacket, ChainInv, Frontier, Encoding, NoPacket, LastFrame
  <2>1. packet.entries # <<>>
    BY <1>10 DEF SendPacket, QueueInv
  <2>2. sentTo \in Int /\ Frontier \in Int
    BY <1>2 DEF TypeInv, TypeOK, Frontier
  <2>3. Chain(compressedQueue, LastFrame(Last(packet.entries)), Frontier)
    BY <1>1, <2>1, <2>2, ChainDrop DEF ChainInv
  <2> QED
    BY <1>1, <2>3, ConcatEmptySeq
<1>11. CASE RunningTest \/ QueueLock \/ QueueTest \/ QueueWait \/ SpuriousWake
  BY <1>11 DEF RunningTest, QueueLock, QueueTest, QueueWait, SpuriousWake, ChainInv, Frontier,
               Encoding
<1>12. CASE SelectCodec \/ Run \/ Stop \/ StopNotify \/ StopJoin
  <2>1. UNCHANGED <<compressedQueue, packet, sentTo, failed, encoded, offset, player>>
    BY <1>12 DEF SelectCodec, SelectOpus, OpusType, SelectCELT, CELTCodec, CELTEncoder,
                 SelectRest, Run, Stop, StopNotify, StopJoin
  <2> QED
    BY <2>1 DEF ChainInv, Frontier, Encoding
<1>13. CASE UNCHANGED vars
  BY <1>13 DEF vars, ChainInv, Frontier, Encoding
<1> QED
  BY <1>3, <1>4, <1>5, <1>6, <1>7, <1>8, <1>9, <1>10, <1>11, <1>12, <1>13
     DEF Next, Encode, ProcessQueue

-----------------------------------------------------------------------------
(* What the queue holds while the codec has not changed under it.              *)

(* The next frame to be encoded follows the last one in the queue, or, when it  *)
(* is empty, the packet under way.                                           *)
LEMMA FrontierIs ==
  ASSUME TypeInv, QueueInv, ChainInv, ~failed
  PROVE  Frontier = IF compressedQueue = <<>> THEN Sent
                    ELSE LastFrame(compressedQueue[Len(compressedQueue)])
<1> DEFINE q == compressedQueue
<1>1. packet.entries \in Seq(Pieces) /\ q \in Seq(Pieces)
  BY DEF TypeInv
<1>2. sentTo \in Int /\ Frontier \in Int
  BY AudioAssumption DEF TypeInv, TypeOK, Frontier
<1>3. CASE sender = "send"
  <2>1. packet.entries # <<>>
    BY <1>3 DEF QueueInv
  <2>2. Chain(q, Sent, Frontier)
    BY <1>1, <1>2, <1>3, <2>1, ChainDrop DEF ChainInv, Sent
  <2> QED
    BY <2>2 DEF Chain
<1>4. CASE sender # "send"
  <2>1. packet.entries \o q = q
    BY <1>1, <1>4, ConcatEmptySeq DEF QueueInv
  <2>2. Chain(q, Sent, Frontier)
    BY <1>4, <2>1 DEF ChainInv, Sent
  <2> QED
    BY <2>2 DEF Chain
<1> QED BY <1>3, <1>4

(* A new entry is for the present type and has the next number.               *)
LEMMA MatchEncode ==
  ASSUME TypeInv, QueueInv, ChainInv, MatchInv, NEW e \in Pieces, e.first = Frontier + 1,
         ~mixed => e.codec = Kind(codecMsgType),
         ~mixed => e.n = IF codecMsgType = "opus" THEN AudioFrames ELSE 1,
         compressedQueue' = Append(compressedQueue, e), player' = "loop",
         UNCHANGED <<packet, sender, sentTo, failed, mixed, totalFrames, codecMsgType>>
  PROVE  MatchInv'
<1> DEFINE q == compressedQueue
<1> SUFFICES ASSUME ~mixed PROVE MatchInv'
  BY DEF MatchInv
<1>1. /\ q \in Seq(Pieces) /\ Len(q) \in Nat /\ DOMAIN q = 1 .. Len(q)
      /\ (q # <<>> => Len(q) > 0) /\ q' \in Seq(Pieces) /\ Len(q') = Len(q) + 1
      /\ DOMAIN q' = 1 .. Len(q) + 1
      /\ \A i \in 1 .. Len(q) : q'[i] = q[i]
      /\ q'[Len(q) + 1] = e
  <2>1. q \in Seq(Pieces)
    BY DEF TypeInv
  <2> QED BY <2>1, QueueTyped, AppendProperties
<1>2. Sent' = Sent /\ PlayerLocks' = FALSE
  BY DEF Sent, PlayerLocks
<1>3. ASSUME ~failed, codecMsgType # "opus"
      PROVE  e.first = Sent + (Len(q) + 1)
  <2>1. CASE q = <<>>
    <3>1. Frontier = Sent /\ Len(q) = 0
      BY <1>3, <2>1, FrontierIs, EmptySeq
    <3>2. Frontier \in Int
      BY AudioAssumption DEF TypeInv, TypeOK, Frontier
    <3> QED BY <3>1, <3>2
  <2>2. CASE q # <<>>
    <3>1. Len(q) \in DOMAIN q /\ Frontier = LastFrame(q[Len(q)])
      BY <1>1, <1>3, <2>2, FrontierIs
    <3>2. q[Len(q)].n = 1 /\ q[Len(q)].first = Sent + Len(q)
      BY <1>3, <3>1 DEF MatchInv
    <3>3. q[Len(q)].first \in Int
      BY <1>1, <3>1, QueueTyped
    <3>4. Sent \in Int
      <4>1. CASE sender = "send"
        <5>1. packet.entries \in Seq(Pieces) /\ packet.entries # <<>>
          BY <4>1 DEF TypeInv, QueueInv
        <5>2. Last(packet.entries) \in Pieces
          BY <5>1, QueueTyped DEF Last
        <5> QED BY <4>1, <5>2, AudioAssumption DEF LastFrame, Pieces, Sent
      <4>2. CASE sender # "send"
        BY <4>2, AudioAssumption DEF TypeInv, TypeOK, Sent
      <4> QED BY <4>1, <4>2
    <3> QED BY <1>1, <3>1, <3>2, <3>3, <3>4 DEF LastFrame
  <2> QED BY <2>1, <2>2
<1>4. ASSUME NEW i \in 1 .. Len(q)
      PROVE  /\ q'[i].codec = Kind(codecMsgType)
             /\ codecMsgType = "opus" => q'[i].n = AudioFrames
             /\ codecMsgType # "opus" => q'[i].n = 1
             /\ (~failed /\ codecMsgType # "opus") => q'[i].first = Sent + i
  <2>1. i \in DOMAIN q /\ q'[i] = q[i]
    BY <1>1
  <2>2. q'[i].codec = Kind(codecMsgType)
    BY <2>1 DEF MatchInv
  <2>3. codecMsgType = "opus" => q'[i].n = AudioFrames
    BY <2>1 DEF MatchInv
  <2>4. codecMsgType # "opus" => q'[i].n = 1
    BY <2>1 DEF MatchInv
  <2>5. (~failed /\ codecMsgType # "opus") => q'[i].first = Sent + i
    BY <2>1 DEF MatchInv
  <2> HIDE DEF q
  <2> QED BY <2>2, <2>3, <2>4, <2>5, Zenon
<1>6. /\ q'[Len(q) + 1].codec = Kind(codecMsgType)
      /\ codecMsgType = "opus" => q'[Len(q) + 1].n = AudioFrames
      /\ codecMsgType # "opus" => q'[Len(q) + 1].n = 1
      /\ (~failed /\ codecMsgType # "opus") => q'[Len(q) + 1].first = Sent + (Len(q) + 1)
  BY <1>1, <1>3
<1>5. /\ sender' = "body" => packet'.type = codecMsgType'
      /\ ~failed' => totalFrames' + packet'.frames = Sent'
  BY <1>2 DEF MatchInv
<1>7. ASSUME NEW i \in DOMAIN compressedQueue'
      PROVE  /\ compressedQueue'[i].codec = Kind(codecMsgType')
             /\ codecMsgType' = "opus" => compressedQueue'[i].n = AudioFrames
             /\ codecMsgType' # "opus" => compressedQueue'[i].n = 1
             /\ (~failed' /\ codecMsgType' # "opus") => compressedQueue'[i].first = Sent' + i
  <2>1. i \in 1 .. Len(q) \/ i = Len(q) + 1
    BY <1>1
  <2>2. codecMsgType' = codecMsgType /\ failed' = failed
    OBVIOUS
  <2> QED BY <1>2, <1>4, <1>6, <2>1, <2>2
<1> QED BY <1>2, <1>5, <1>7 DEF MatchInv

(* The body is taken from the queue: one entry of Opus, some of CELT.          *)
LEMMA MatchBody ==
  ASSUME TypeInv, QueueInv, ChainInv, MatchInv, PacketsMatchAudio, PacketBody
  PROVE  MatchInv' /\ PacketsMatchAudio'
<1> USE DEF codec, pcm, stopping
<1> DEFINE q == compressedQueue
           ready == IF codecMsgType = "opus" THEN 1
                    ELSE IF Len(q) < AudioFrames THEN Len(q) ELSE AudioFrames
           f == IF codecMsgType = "opus" THEN AudioFrames ELSE ready
<1> SUFFICES ASSUME ~mixed PROVE MatchInv' /\ PacketsMatchAudio'
  BY DEF PacketBody, MatchInv, PacketsMatchAudio
<1>1. /\ q \in Seq(Pieces) /\ Len(q) \in Nat \ {0} /\ DOMAIN q = 1 .. Len(q)
      /\ packet.entries = <<>> /\ packet.frames = 0 /\ packet.type = codecMsgType
      /\ sentTo \in Nat /\ totalFrames \in Nat /\ AudioFrames \in Nat \ {0}
  <2>1. q \in Seq(Pieces) /\ q # <<>>
    BY DEF TypeInv, QueueInv, PacketBody
  <2> QED
    BY <2>1, QueueTyped, AudioAssumption DEF TypeInv, TypeOK, QueueInv, MatchInv, PacketBody
<1>2. ready \in 1 .. Len(q)
  BY <1>1
<1>3. /\ q' = SubSeq(q, ready + 1, Len(q))
      /\ packet' = [packet EXCEPT !.entries = SubSeq(q, 1, ready), !.frames = f]
      /\ sender' = "send"
      /\ UNCHANGED <<codecMsgType, player, failed, mixed, totalFrames, sentTo>>
  BY DEF PacketBody
<1>a. codecMsgType = "opus" => ready = 1 /\ f = AudioFrames
  OBVIOUS
<1>b. codecMsgType # "opus" => f = ready
  OBVIOUS
<1> HIDE DEF ready, f
<1>4. packet'.entries = SubSeq(q, 1, ready) /\ packet'.frames = f /\ packet'.type = codecMsgType
  <2>1. packet \in [type : Types \cup {"none"}, entries : Seq(Pieces), frames : 0 .. AudioFrames]
    BY DEF TypeInv
  <2> QED BY ONLY <1>1, <1>3, <2>1
<1>5. /\ Len(SubSeq(q, 1, ready)) = ready /\ SubSeq(q, 1, ready) \in Seq(Pieces)
      /\ \A i \in 1 .. ready : SubSeq(q, 1, ready)[i] = q[i]
      /\ SubSeq(q, ready + 1, Len(q)) \in Seq(Pieces)
      /\ Len(SubSeq(q, ready + 1, Len(q))) = Len(q) - ready
      /\ \A i \in 1 .. Len(q) - ready : SubSeq(q, ready + 1, Len(q))[i] = q[ready + i]
  <2>1. \A i \in 1 .. Len(q) : q[i] \in Pieces
    BY <1>1, QueueTyped
  <2>2. /\ SubSeq(q, 1, ready) \in Seq(Pieces)
        /\ Len(SubSeq(q, 1, ready)) = IF 1 <= ready THEN ready - 1 + 1 ELSE 0
        /\ \A i \in 1 .. ready - 1 + 1 : SubSeq(q, 1, ready)[i] = q[1 + i - 1]
    BY <1>1, <1>2, <2>1, SubSeqProperties
  <2>3. /\ SubSeq(q, ready + 1, Len(q)) \in Seq(Pieces)
        /\ Len(SubSeq(q, ready + 1, Len(q))) =
             IF ready + 1 <= Len(q) THEN Len(q) - (ready + 1) + 1 ELSE 0
        /\ \A i \in 1 .. Len(q) - (ready + 1) + 1 :
             SubSeq(q, ready + 1, Len(q))[i] = q[ready + 1 + i - 1]
    BY <1>1, <1>2, <2>1, SubSeqProperties
  <2>4. \A i \in 1 .. ready : i \in 1 .. ready - 1 + 1 /\ 1 + i - 1 = i
    BY <1>2
  <2>5. \A i \in 1 .. Len(q) - ready :
           i \in 1 .. Len(q) - (ready + 1) + 1 /\ ready + 1 + i - 1 = ready + i
    BY <1>1, <1>2
  <2>6. /\ (IF 1 <= ready THEN ready - 1 + 1 ELSE 0) = ready
        /\ (IF ready + 1 <= Len(q) THEN Len(q) - (ready + 1) + 1 ELSE 0) = Len(q) - ready
    <3>1. ready \in Int /\ Len(q) \in Int /\ 1 <= ready /\ ready <= Len(q)
      BY <1>1, <1>2
    <3> QED BY ONLY <3>1
  <2> QED BY <2>2, <2>3, <2>4, <2>5, <2>6
<1>6. DOMAIN packet'.entries = 1 .. ready /\ DOMAIN q' = 1 .. Len(q) - ready
  BY <1>3, <1>4, <1>5, QueueTyped
<1>7. /\ q[ready].first \in Int /\ q[1].first \in Int
      /\ \A i \in 1 .. Len(q) :
           /\ q[i].codec = Kind(codecMsgType)
           /\ codecMsgType = "opus" => q[i].n = AudioFrames
           /\ codecMsgType # "opus" => q[i].n = 1
           /\ (~failed /\ codecMsgType # "opus") => q[i].first = sentTo + i
  <2>1. q[ready].first \in Int /\ q[1].first \in Int
    BY <1>1, <1>2, QueueTyped
  <2>2. Sent = sentTo
    BY DEF Sent, PacketBody
  <2> QED BY <1>1, <2>1, <2>2 DEF MatchInv
<1>8. Sent' = LastFrame(q[ready])
  BY <1>2, <1>3, <1>4, <1>5 DEF Sent, Last
<1>9. ASSUME ~failed
      PROVE  Sent' = sentTo + f
  <2>1. CASE codecMsgType = "opus"
    <3>1. q[1].first = sentTo + 1
      <4>1. packet.entries \o q = q
        BY <1>1, ConcatEmptySeq
      <4>2. Contiguous(q, sentTo)
        BY <1>9, <4>1 DEF ChainInv, Chain
      <4>3. 1 \in DOMAIN q
        BY <1>1
      <4> QED BY <4>2, <4>3 DEF Contiguous
    <3> QED BY <1>1, <1>2, <1>7, <1>8, <1>a, <2>1, <3>1 DEF LastFrame
  <2>2. CASE codecMsgType # "opus"
    BY <1>1, <1>2, <1>7, <1>8, <1>9, <1>b, <2>2 DEF LastFrame
  <2> QED BY <2>1, <2>2
<1>10. ~failed => totalFrames = sentTo
  BY DEF PacketsMatchAudio
<1>11. PacketsMatchAudio'
  <2>1. \A i \in 1 .. ready : packet'.entries[i].codec = Kind(codecMsgType)
    BY <1>2, <1>4, <1>5, <1>7
  <2> QED
    BY <1>3, <1>4, <1>6, <1>10, <2>1 DEF PacketsMatchAudio, Kind
<1>12. ASSUME NEW i \in 1 .. Len(q) - ready
       PROVE  /\ q'[i].codec = Kind(codecMsgType)
              /\ codecMsgType = "opus" => q'[i].n = AudioFrames
              /\ codecMsgType # "opus" => q'[i].n = 1
              /\ (~failed /\ codecMsgType # "opus") => q'[i].first = Sent' + i
  <2>1. q'[i] = q[ready + i] /\ ready + i \in 1 .. Len(q)
    BY <1>1, <1>2, <1>3, <1>5
  <2>2. (~failed /\ codecMsgType # "opus") => q[ready + i].first = Sent' + i
    BY <1>1, <1>2, <1>7, <1>9, <1>b, <2>1
  <2> QED BY <1>7, <2>1, <2>2
<1>13. PlayerLocks' => codecMsgType' # "opus"
  BY <1>3 DEF MatchInv, PlayerLocks
<1> QED
  BY <1>3, <1>4, <1>6, <1>9, <1>10, <1>11, <1>12, <1>13 DEF MatchInv

LEMMA MatchStep ==
  ASSUME TypeInv, QueueInv, ChainInv, MatchInv, PacketsMatchAudio, [Next]_vars
  PROVE  MatchInv' /\ PacketsMatchAudio'
<1> USE DEF codec, pcm, sending, stopping
<1>1. /\ offset \in Nat /\ pcmQueue \in Nat /\ encoded \in Nat
      /\ encoded + pcmQueue <= MaxFrames /\ AudioFrames \in Nat \ {0} /\ MaxFrames \in Nat
  BY AudioAssumption DEF TypeInv, TypeOK
<1>2. CASE UNCHANGED <<compressedQueue, packet, sender, totalFrames, sentTo, failed, mixed,
                       codecMsgType>> /\ (PlayerLocks' => PlayerLocks \/ codecMsgType # "opus")
  BY <1>2 DEF MatchInv, PacketsMatchAudio, Sent
<1>3. ASSUME NEW n \in Chunks, Enqueue(n)
      PROVE  MatchInv' /\ PacketsMatchAudio'
  BY <1>2, <1>3 DEF Enqueue, PlayerLocks
<1>4. CASE EncodeOpus /\ player' # "overread"
  <2> DEFINE e == Entry("opus", encoded + offset + 1, AudioFrames)
  <2>1. /\ e \in Pieces /\ e.first = Frontier + 1 /\ e.codec = "opus" /\ e.n = AudioFrames
        /\ compressedQueue' = Append(compressedQueue, e) /\ codecMsgType = "opus"
        /\ player' = "loop"
        /\ UNCHANGED <<packet, sender, sentTo, failed, mixed, totalFrames, codecMsgType>>
    BY <1>1, <1>4 DEF EncodeOpus, Entry, Pieces, LastFrame, Frontier, Encoding
  <2> HIDE DEF e
  <2> QED
    BY <2>1, MatchEncode DEF Kind, PacketsMatchAudio
<1>5. CASE EncodeCELT /\ player' # "noEncoder"
  <2> DEFINE e == Entry("celt", encoded + offset + 1, 1)
  <2>0. offset < pcmQueue
    BY <1>1, <1>5, RoomForPacket DEF EncodeCELT, QueueInv, PlayerLocks, MoreToEncode
  <2>1. /\ e \in Pieces /\ e.first = Frontier + 1 /\ e.codec = "celt" /\ e.n = 1
        /\ compressedQueue' = Append(compressedQueue, e)
        /\ player' = "loop"
        /\ UNCHANGED <<packet, sender, sentTo, failed, mixed, totalFrames, codecMsgType>>
    BY <1>1, <1>5, <2>0 DEF EncodeCELT, Entry, Pieces, LastFrame, Frontier, Encoding
  <2>2. ~mixed => codecMsgType # "opus"
    BY <1>5 DEF EncodeCELT, MatchInv, PlayerLocks
  <2> HIDE DEF e
  <2> QED
    BY <2>1, <2>2, MatchEncode DEF Kind, PacketsMatchAudio
<1>6. CASE (EncodeOpus /\ player' = "overread") \/ (EncodeCELT /\ player' = "noEncoder")
           \/ EncodeCELTTest
  BY <1>2, <1>6 DEF EncodeOpus, EncodeCELT, EncodeCELTTest, PlayerLocks
<1>7. CASE EncodeFails
  BY <1>7 DEF EncodeFails, MatchInv, PacketsMatchAudio, Sent, PlayerLocks
<1>8. CASE EnqueueDone \/ RunningTest \/ QueueLock \/ QueueTest \/ QueueWait \/ SpuriousWake
           \/ Run \/ Stop \/ StopNotify \/ StopJoin
  BY <1>8 DEF EnqueueDone, RunningTest, QueueLock, QueueTest, QueueWait, SpuriousWake,
              Run, Stop, StopNotify, StopJoin, Wake, MatchInv, PacketsMatchAudio, Sent,
              PlayerLocks
<1>9. CASE PacketHeader
  <2>1. /\ packet'.entries = packet.entries /\ packet'.frames = packet.frames
        /\ packet'.entries = <<>> /\ packet'.type = codecMsgType
    BY <1>9 DEF PacketHeader, NoPacket, QueueInv
  <2> QED
    BY <1>9, <2>1 DEF PacketHeader, MatchInv, PacketsMatchAudio, Sent, PlayerLocks
<1>10. CASE PacketBody
  BY <1>10, MatchBody
<1>11. CASE SendPacket
  <2>1. /\ sentTo' = Sent /\ Sent' = Sent /\ packet'.entries = <<>> /\ packet'.frames = 0
        /\ totalFrames' = totalFrames + packet.frames /\ sender' = "top" /\ Sent \in Int
        /\ UNCHANGED <<compressedQueue, failed, mixed, codecMsgType, player>>
    <3>1. packet.entries \in Seq(Pieces) /\ packet.entries # <<>>
      BY <1>11 DEF TypeInv, QueueInv, SendPacket
    <3>2. Last(packet.entries) \in Pieces
      BY <3>1, QueueTyped DEF Last
    <3>3. LastFrame(Last(packet.entries)) \in Int
      BY <1>1, <3>2 DEF LastFrame, Pieces
    <3> QED BY <1>11, <3>3 DEF SendPacket, Sent, LastFrame, NoPacket
  <2> QED
    BY <2>1 DEF MatchInv, PacketsMatchAudio, PlayerLocks
<1>12. CASE OpusType \/ CELTCodec
  <2>1. ~mixed' => ~mixed /\ ( codecMsgType' = codecMsgType
                               \/ (/\ compressedQueue = <<>> /\ player = "idle"
                                   /\ ~(sender \in {"header", "body"})))
    <3>1. PICK type : SetType(type)
      BY <1>12 DEF OpusType, CELTCodec
    <3>2. codecMsgType' = type
      BY <3>1 DEF SetType
    <3>3. ~mixed' => ~mixed /\ (type = codecMsgType \/ ~(compressedQueue # <<>>
                       \/ sender \in {"header", "body"} \/ player # "idle"))
      BY <3>1, Zenon DEF SetType
    <3> QED BY <3>2, <3>3
  <2>2. UNCHANGED <<compressedQueue, packet, sender, totalFrames, sentTo, failed, player>>
    BY <1>12 DEF OpusType, CELTCodec, SelectRest
  <2> QED
    BY <2>1, <2>2, EmptySeq DEF MatchInv, PacketsMatchAudio, Sent, PlayerLocks
<1>13. CASE SelectOpus \/ CELTEncoder
            \/ \E version \in Versions, type \in CELTTypes : SelectCELT(version, type)
  BY <1>2, <1>13 DEF SelectOpus, CELTEncoder, SelectCELT, SelectRest, PlayerLocks
<1>14. CASE UNCHANGED vars
  BY <1>2, <1>14 DEF vars, PlayerLocks
<1> QED
  BY <1>3, <1>4, <1>5, <1>6, <1>7, <1>8, <1>9, <1>10, <1>11, <1>12, <1>13, <1>14
     DEF Next, Encode, ProcessQueue, SelectCodec

-----------------------------------------------------------------------------
(* The codec fields, which nothing guards.                                    *)

LEMMA CodecStep ==
  ASSUME TypeInv, CodecInv, [Next]_vars
  PROVE  CodecInv'
<1> USE AudioAssumption DEF CodecInv
<1>1. CASE UNCHANGED <<asio, codecMsgType, celtEncoder, celtCodec>>
  BY <1>1
<1>2. CASE SelectOpus
  BY <1>2 DEF SelectOpus
<1>3. CASE OpusType
  BY <1>3 DEF OpusType, SetType
<1>4. ASSUME NEW version \in Versions, NEW type \in CELTTypes, SelectCELT(version, type)
      PROVE  CodecInv'
  BY <1>4 DEF SelectCELT
<1>5. CASE CELTCodec
  BY <1>5 DEF CELTCodec, TypeInv
<1>6. CASE CELTEncoder
  BY <1>6 DEF CELTEncoder
<1>7. CASE (\E n \in Chunks : Enqueue(n)) \/ Encode
  BY <1>1, <1>7 DEF Enqueue, Encode, EncodeOpus, EncodeCELTTest, EncodeCELT, EncodeFails,
                    EnqueueDone, codec
<1>8. CASE ProcessQueue \/ SpuriousWake
  BY <1>1, <1>8 DEF ProcessQueue, RunningTest, QueueLock, QueueTest, QueueWait, SpuriousWake,
                    PacketHeader, PacketBody, SendPacket, codec
<1>9. CASE Run \/ Stop \/ StopNotify \/ StopJoin
  BY <1>1, <1>9 DEF Run, Stop, StopNotify, StopJoin, codec
<1>10. CASE UNCHANGED vars
  BY <1>1, <1>10 DEF vars, codec
<1> QED
  BY <1>2, <1>3, <1>4, <1>5, <1>6, <1>7, <1>8, <1>9, <1>10 DEF Next, SelectCodec

(* While no change meets the call, nothing moves under enqueue between the      *)
(* test for an encoder and its use, and packets stay whole.                   *)
LEMMA RaceStep ==
  ASSUME TypeInv, QueueInv, CodecInv, RaceInv, [Next]_vars
  PROVE  RaceInv'
<1> USE DEF codec, pcm, sending, stopping, Faults, Faulty, Encoding, PlayerLocks
<1>0. offset \in Nat /\ pcmQueue \in Nat /\ AudioFrames \in Nat
  BY AudioAssumption DEF TypeInv, TypeOK
<1>1. CASE UNCHANGED vars
  BY <1>1 DEF vars, RaceInv
<1> SUFFICES ASSUME Next, ~raced', Encoding'
             PROVE  RaceInv'
  BY <1>1 DEF RaceInv
<1>2. ~raced /\ ~Faulty /\ asio' = "idle" /\ selects' = selects
  BY DEF Next, Noted
<1>3. CASE SelectCodec
  <2>1. CASE OpusType \/ CELTEncoder
    <3>1. asio # "idle" /\ player' = player
      BY <2>1 DEF OpusType, CELTEncoder, SelectRest
    <3> QED BY <1>2, <3>1 DEF RaceInv
  <2>2. CASE SelectOpus \/ CELTCodec
             \/ \E version \in Versions, type \in CELTTypes : SelectCELT(version, type)
    <3>1. asio' # "idle" \/ selects' = selects + 1
      BY <2>2 DEF SelectOpus, CELTCodec, SelectCELT
    <3>2. selects + 1 # selects
      BY DEF TypeInv
    <3> QED BY <1>2, <3>1, <3>2
  <2> QED BY <1>3, <2>1, <2>2 DEF SelectCodec
<1>4. ASSUME NEW n \in Chunks, Enqueue(n)
      PROVE  RaceInv'
  <2>1. offset' = 0 /\ 0 = AudioFrames * 0 /\ player' \in {"loop", "idle"}
    BY <1>0, <1>4 DEF Enqueue
  <2>2. Whole(offset')
    BY <2>1 DEF Whole
  <2> QED
    BY <1>2, <2>1, <2>2 DEF RaceInv
<1>5. CASE EncodeOpus
  <2>1. /\ offset + AudioFrames <= pcmQueue /\ Whole(offset + AudioFrames)
        /\ asio = "idle"
    BY <1>0, <1>2, <1>5, RoomForPacket DEF EncodeOpus, MoreToEncode, RaceInv
  <2>2. ~(offset + AudioFrames > pcmQueue)
    BY <1>0, <2>1
  <2>3. offset' = offset + AudioFrames /\ player' = player /\ player = "loop"
    BY <1>5, <2>2 DEF EncodeOpus
  <2> QED
    BY <1>2, <2>1, <2>3 DEF RaceInv
<1>6. CASE EncodeCELTTest
  <2>1. asio = "idle" /\ UNCHANGED <<codecMsgType, celtCodec, celtEncoder>>
        /\ codecMsgType # "opus"
    BY <1>2, <1>6 DEF EncodeCELTTest, RaceInv
  <2>2. player' = "celt" => celtCodec # "none" /\ celtEncoder
    BY <1>6, <2>1 DEF EncodeCELTTest, CodecInv
  <2>3. player' \in {"celt", "nothing"}
    BY <1>6 DEF EncodeCELTTest
  <2> QED
    BY <1>2, <2>1, <2>2, <2>3 DEF RaceInv
<1>7. CASE EncodeCELT
  BY <1>2, <1>7 DEF EncodeCELT, RaceInv
<1>8. CASE EncodeFails \/ EnqueueDone
  BY <1>8 DEF EncodeFails, EnqueueDone
<1>9. CASE ProcessQueue \/ SpuriousWake \/ Run \/ Stop \/ StopNotify \/ StopJoin
  <2>1. UNCHANGED <<player, asio, codecMsgType, celtCodec, celtEncoder, offset>>
    BY <1>9 DEF ProcessQueue, RunningTest, QueueLock, QueueTest, QueueWait, SpuriousWake,
                PacketHeader, PacketBody, SendPacket, Run, Stop, StopNotify, StopJoin
  <2> QED
    BY <1>2, <2>1 DEF RaceInv
<1> QED
  BY <1>3, <1>4, <1>5, <1>6, <1>7, <1>8, <1>9 DEF Next, Encode

-----------------------------------------------------------------------------
LEMMA AudioInit == Init => AudioInv
<1> SUFFICES ASSUME Init PROVE AudioInv
  OBVIOUS
<1>1. TypeInv /\ QueueInv /\ ChainInv
  BY TypeInit, ChainInit
<1>2. MatchInv /\ PacketsMatchAudio
  BY DEF Init, MatchInv, PacketsMatchAudio, PlayerLocks, Sent, NoPacket
<1>3. CodecInv /\ RaceInv
  BY DEF Init, CodecInv, RaceInv, Encoding
<1> QED
  BY <1>1, <1>2, <1>3 DEF AudioInv

(* The invariant holds in every state of the audio queue.                     *)
THEOREM AudioInvariance == Spec => []AudioInv
<1>1. AudioInv /\ [Next]_vars => AudioInv'
  <2> SUFFICES ASSUME AudioInv, [Next]_vars PROVE AudioInv'
    OBVIOUS
  <2>1. TypeInv /\ QueueInv /\ ChainInv /\ MatchInv /\ PacketsMatchAudio /\ CodecInv /\ RaceInv
    BY DEF AudioInv
  <2>2. TypeInv' /\ QueueInv'
    BY <2>1, TypeStep
  <2>3. ChainInv'
    BY <2>1, ChainStep
  <2>4. MatchInv' /\ PacketsMatchAudio'
    BY <2>1, MatchStep
  <2>5. CodecInv' /\ RaceInv'
    BY <2>1, CodecStep, RaceStep
  <2> QED
    BY <2>2, <2>3, <2>4, <2>5 DEF AudioInv
<1> QED
  BY <1>1, AudioInit, PTL DEF Spec

(* Every variable of Audio stays in its range, and queueMtx is held only by a    *)
(* thread that is where it holds it.                                          *)
THEOREM AudioTypes == Spec => []TypeOK
<1>1. AudioInv => TypeOK
  BY DEF AudioInv, TypeInv
<1> QED
  BY <1>1, AudioInvariance, PTL

(* The audio that enqueue encodes leaves in its order, without a gap and         *)
(* without a repetition, whatever selectCodec does, until an encoder fails.    *)
THEOREM AudioOrder == Spec => []AudioInOrder
<1>1. AudioInv => AudioInOrder
  BY DEF AudioInv, ChainInv, Chain, AudioInOrder
<1> QED
  BY <1>1, AudioInvariance, PTL

(* The packets that processQueue builds hold what their header says, and their   *)
(* time stamp counts the frames sent, until the codec changes under audio.     *)
THEOREM AudioPackets == Spec => []PacketsMatchAudio
<1>1. AudioInv => PacketsMatchAudio
  BY DEF AudioInv
<1> QED
  BY <1>1, AudioInvariance, PTL

(* enqueue uses a missing encoder or reads past its PCM only in a call that a     *)
(* call of selectCodec has met.                                               *)
THEOREM AudioFaults == Spec => []FaultNeedsCodecChange
<1>1. AudioInv => FaultNeedsCodecChange
  BY DEF AudioInv, RaceInv, FaultNeedsCodecChange, Faulty, Faults, Encoding
<1> QED
  BY <1>1, AudioInvariance, PTL
=============================================================================
