# A TLA+ model of dolanik

dolanik is a music bot for Mumble. A process keeps connections to several
Mumble servers; remote clients control it over Ice, users of a server by text
messages; songs are decoded, resampled, encoded and sent as audio packets. This
directory models the parts of it whose correctness depends on the order of
things: threads, asynchronous writes, datagrams, crashes. Paths below are
relative to the repository (`src/dolanik/music.cpp` and so on).

## The system

| Component | State | Operations | Threads |
|---|---|---|---|
| `Music`, `FileSong` (dolanik/music.cpp, fileSong.cpp) | queue, current song, history, `playback`, `replayCurrentSongFlag`, volume, two mutexes, a condition | play, stop, replay, clearQueue, setVolume, adjustVolume, getCurrentSong, onTxtMsg, run | playback thread, Ice threads, io thread |
| `FilePlayer` (filePlayer.cpp) | a decoder per song | createSong, play | playback thread |
| `Resampler` (resampler.cpp) | filter graph, input and output buffer, volume | setInputFormat, resample, setVolume | playback thread, volume from the others |
| `Audio` (libmumbleclient/Audio.cpp) | PCM and compressed queue, codec fields, `running`, frame counter | enqueue, processQueue, selectCodec, run, stop | playback, queue, io, disconnecting thread |
| `MumbleClient` (Client.cpp) | connection state, send queue, receive buffer, ping timer, users and channels | Connect, Disconnect, SendMessage, SetComment, handlers | connecting thread, io thread, playback thread |
| `CryptState` (CryptState.cpp) | key, two nonces, history of accepted datagrams, counters | setKey, encrypt, decrypt, setDecryptIV | queue thread, io thread |
| `PacketDataStream` | a write or read position | variable-length integers | the caller's |
| `Dolanik`, `State`, `Server` (dolanik.cpp, state.cpp, server.cpp) | servers by hash, state file | connect, disconnect, load, save | main thread, Ice thread |
| Ice adapter (ice/dolanI.cpp) | none | one call each | Ice thread |
| Spotify player (spotify/) | session, events, current song | play, stop, callbacks | off by default |
| Configuration, client library, codecs, logging | constants after start-up | | |

How they interact: `main` reads the configuration, creates `Dolanik`, which
starts the io thread and loads the state file (each saved server is connected,
and `Connect` waits until the server has accepted the client), and then serves
Ice calls. A call on the music of a server ends in `Music`, whose playback
thread decodes the song and hands PCM to `Audio::enqueue`; the queue thread of
`Audio` encrypts packets and sends them over UDP. `Music` reports what it does
as its user comment, a TCP message through `MumbleClient::SendMessage`. Text
messages reach `Music::onTxtMsg` from the io thread, codec and key messages
reach `Audio::selectCodec` and `CryptState::setKey` the same way.

What is hard here is what the hazards in PROJECT.json list, with their lines:
shared data read outside its mutex (the playback loop, the codec fields, the
whole send queue); waits without a predicate and notifications without the
mutex; asynchronous write handlers that outlive what they refer to; bytes that
stand for counters; a state file rewritten in place. For each component, what
makes it correct:

- **Music**: a queued song is played or dropped exactly once and recorded
  exactly once; the song being decoded is not freed; sleeping never makes the
  next call inaudible.
- **MumbleClient**: messages reach the server in order and once; nothing stays
  queued on a live connection; a handler never meets a queue it does not expect.
- **CryptState**: no datagram is accepted twice; the loss count is right.
- **Audio**: audio leaves in order, once, in packets that match their header.
- **Dolanik/State**: the file is what the memory is and what clients were told,
  and only a failed file operation or a crash while it is being rewritten excuses
  it.
- **FilePlayer, Resampler**: no sample is lost, doubled or moved between the
  decoder and the packets; the player neither starves the queue nor floods it;
  the volume that was asked for is the one that is heard.
- **Reading (MumbleClient)**: the reader never loses the boundary between
  messages; users and channels are the server's.
- **PacketDataStream**: what is written is what is read.
- **Spotify**: frames are handed over in order and to their own song; the player
  does not sleep for ever.

## The modules

| Module | Models | Checked by | Proofs |
|---|---|---|---|
| `Playlist` | abstract: what the lists of a Music promise | refined by Playback | |
| `Playback` | Music and the flag of FileSong | `MCPlayback`, four configurations | `PlaybackProofs` |
| `SendQueue` | the life of one MumbleClient | `MCSendQueue` | `SendProofs` |
| `CryptChannel` | the nonces of two CryptStates with UDP between | `MCCryptChannel` | `WireProofs` |
| `AudioQueue` | Audio and its four threads | `MCAudioQueue` | `AudioProofs` |
| `Registry` | Dolanik::servers and the state file | `MCRegistry` | `RegistryProofs` |
| `Resampler` | the operations of a resampler, as functions of its state | through Pipeline | `PipelineProofs` |
| `Pipeline` | FilePlayer, Music::send and the volume calls, Resampler, the queues of Audio, composed | `MCPipeline` | `PipelineProofs` |
| `Roster` | the handlers of users and channels, as functions of the two lists | through Inbound | |
| `Inbound` | the read loop of a MumbleClient, its Roster, and a server | `MCInbound` | `InboundProofs` |
| `PacketDataStream` | writing and reading a buffer | `MCPacketDataStream` | `WireProofs` |
| `Spotify` | Spotify and its four threads | `MCSpotify` | `SpotifyProofs` |

Common conventions. An action is the code between two accesses to data that
another thread may change without holding the same mutex; a critical section
that calls nothing else is one action. `pc` (or a variable per thread) says
where a thread is; the label is named for what comes next. Where the language
leaves the next step undefined, or an assertion fails, a thread goes to a label
of its own (`CrashSites`, `Faults`) and everything stops, so that the
properties can say exactly when this may happen. Definitions named "faulty
variant" are bugs that each property is tried against; they are not part of any
`Next`.

### Playback

`queue`, `currentSong`, `history`, `playback`, `replayCurrentSongFlag` and the
two mutexes are the members of Music; `songPlayback` is `FileSong::playback`.
`playing` is the song whose `play` is on the stack of `run`, and `cleared`
remembers what `clearQueue` threw away. `run` is split where it reads shared
data: `RunTest` and `RunTestPlayback` (the loop condition, without a mutex),
`RunPick`, `RunPop`, `RunTestSong` and `RunSongPlay` (the two reads of
`currentSong`), `RunSongEnter`, `RunSongEnd`, `RunRecord`, `RunIdleLock`,
`RunIdleWait`, `RunWoken`. `play` holds `songsMutex` from `Play` to `Unlock`,
through `notifyPlaybackThread` and `statusComment`. `statusComment` and
`genPlaylistString` are a small subroutine (`Status`) with a return label,
because every thread runs them and only some hold the mutex. Decoding a song is
one label that ends when the file ends or the flag is found cleared. A song may
be null, as `createSong` returns it for a file it cannot open.

`Playlist` is the abstract specification: songs are accepted, taken in order,
finished or dropped, each once. `ImplementsPlaylist` maps its lists to the queue,
the current song and the history.

### SendQueue

A message is its number in the order of the pushes, a ping is 0. `SendMessage`
is `Push`, `Test`, `Start`, `Front`: four accesses to data that nothing guards.
The write under way, its posted handlers and the connection are the model of
asio (`WriteDone`, `WriteFails`, `ConnectionLost`). A comment is two steps
(`SetComment`, the assertion; `PushComment`), and so is a text message: it is
read (`TextArrives`), passes the test of `ParseMessage` (`TextMessage`), and is
answered by `onTxtMsg` with one or two messages (`Reply`); Disconnect, or the loss
of the connection, may come between any two of them. A server whose `Connect`
failed (label "failed") stays in `Dolanik::servers` and gets comments like any
other. An exception before the socket is made leaves the client as an error
after it does; one of the socket options, after `state_` is set (Client.cpp
470-476), is left out. The reader's own use of the deleted socket after
Disconnect belongs to `Inbound`. `raced` records that two
threads were inside this code at once; most properties speak about the time
before that, because afterwards the language promises nothing, and
`QueueDrains` shows what the ping repairs if the race is benign.

### CryptChannel

An IV is a number; its low byte travels with the datagram and its second byte is
what `decrypt_history` keeps. `Guess` is the IV that decrypt derives from the
byte, and the tag check passes if and only if key and guess are the datagram's.
The carry loops of the code are the carry of the number. The network is a set
from which a datagram may arrive any number of times, in any order, or vanish.
`decrypt` is part of the library but nothing under `src/` calls it; the
receiving side is modelled as the counterpart of `encrypt`.

### AudioQueue

The unit is a frame of 10 ms, numbered as it comes; an entry of the compressed
queue is the codec, the first frame and the number of frames. `selectCodec` is
split where it changes the encoder, the codec and the type, with the playback
thread in between. `codecMsgType` starts with any value: the constructor leaves
it uninitialised.

### Registry

A server is its connection data; `Hash` need not be injective. Calls do not
overlap (one Ice thread) but a crash may come between any two steps, `Connect`
may throw or hang, and `Disconnect` may hang in `Audio::stop`. The file is
truncated in `OpenFile` and written in `WriteFile`. Nothing in state.cpp asks
whether the file could be read, opened or written, so each of the three may fail
and the call is acknowledged all the same; `behind` says that the file is not
what the memory says, and why, until a save succeeds, and `lost` collects the
reasons for which a restart may have forgotten an answer. A failed write leaves
a file that does not parse, which is the same as an empty one.

### Resampler and Pipeline

A sample is its number in its song, so that "in order and without loss" can be
said. `Resampler` holds what calls from the playback thread do to `inputBuffer`,
`outputBuffer` and the filter graph; the graph is external and is a rate and a
delay. `CalculateDstSamplesNumber`, `Resample`, `Flush` and `SetInputFormat` are
the functions of the code; what they cost in bytes per sample and plane is left
out. The loops over frames are recursive functions, one value for each frame
(`Fed`, `Taken`). The error returns of `flush` (resampler.cpp:99-101, 112-116),
which `setInputFormat` ignores and which would lose a song's last partial frame,
are left out. `Pipeline` calls them in the order of the code: `Decode`, `Format`,
`AllocateFilter`, `InitFilter` (the parts of `setInputFormat` between which a
volume call may come), `Send` (`Music::send` with `enqueue`, whose locking is the
subject of AudioQueue), `Wake`. `SendPacket` is the queue thread. Time counts
frames of 10 ms. `Delay` is the subtraction in `size_t`, and `Signed` the
conversion that saves it. `Limit` to `Command` are setVolume and adjustVolume:
every read and write of the plain double `volume` is a step. `overlapped`
remembers that two volume calls, or one and setInputFormat, ran at once; most of
`VolumeHeard` speaks about the time before that. `dropped` is the call that
found no filter. The faults are a frame without a format (the assertion in
`setInputFormat`), a refused frame (the negative result of `resample` becomes a
length), an overrun and the use of a freed filter.

### Roster and Inbound

`Roster` has one function per handler, with the assertion that failed, if one
did. `Inbound` counts the stream in bytes; a message is a header and a body, and
`sent` keeps with each message the server's state after it, which is what
`RosterMirrors` compares the lists with, and the length of the stream up to its
end, which is where the reader must find the next header. The server tells its client everything
in order and empties a channel before it removes it. A read brings at least
`need` new bytes and up to `ReadAhead` more. `ReadHeader`, `ContentMissing`,
`ParseAndGoOn`, `Requeue`, `ReadMore` are the parts of ReadHandler and
ReadHandlerContinue between which Disconnect (`Clear`, `Close`) may come.

### PacketDataStream

The eight bytes of a `uint64_t` are a sequence, so the full width is there.
`Encode` and `Decode` are the two operators. `operator>>` calls itself for a
negative number: `Decode` of a buffer is a function that says, for each place,
which number `operator>>` reads there and how many calls of `next` it takes. The
writing and reading calls move `offset` and count `overshoot`. What was written,
with its place and whether it fitted, and what was read are kept beside the
buffer for the comparison. The specification is `StreamSpec` and its type
invariant `StreamOK`, because `WireProofs` proves about it and about CryptChannel
in one module.

### Spotify

The playback thread is in `Spotify::play` (`Load` to `Leave`, with a step for
each of the three flags), another in `Spotify::stop` (`StopBegins` to
`StopClears`), `run` processes events, and libspotify delivers frames in a
thread of its own; `Delivers` is its decision, `MusicDelivery` the callback, and
between them stop may unload the track. Its two waits have no predicate and may
end unasked (`SpuriousWake`). `missed` is set by a notification that
comes between the player's test and its sleep. `unnotified` collects what
leaves the player asleep without any such race: a stop or an end that `play`
overwrites while it starts, and `playTokenLost`.

## The runs

Passing runs:

| Run | Bounds | States | What it shows |
|---|---|---|---|
| playback | 2 songs and null, 1 Ice thread, 1 chat thread, all calls | 2.9 million | bookkeeping, song lifetime, locked status, sleep, refinement |
| playback_live | 1 song, all calls, fairness | | a call wakes the sleeping thread |
| sendqueue | 4 messages, at most 2 pings queued, 1 unread text message, 3 threads | 0.51 million | order, draining, exact causes of faults |
| crypt | bytes of 6 values, window 3, 2 keys, 1 and 7 datagrams, 2 under way | 11.6 million | acceptance, loss count, refusals |
| audio | packets of 2 frames, 4 frames, 2 codec changes | 0.27 million | order, packets, faults, no lost notification |
| registry | 3 servers on 2 hashes, 3 crashes, any number of failed file operations | 0.21 million | file, memory and answers agree |
| pipeline | 2 songs of up to 14 samples, rates 1:2 and 3:2, or 2 short songs and 2 volume calls by 2 threads | 1.2 million | order of samples, pacing, volume |
| inbound | 6 messages, 2 users, 2 channels and the root, 3 bytes read ahead | 4.2 million | framing, roster, promptness |
| packet | 3 items out of boundary numbers, a float and blocks, 3 capacities | 0.8 million | round trip, accounting |
| spotify | 2 songs of 4 frames, batches of 2, a full buffer | 1.2 million | order of frames, causes of a stuck player |

Why the bounds are enough: two songs let one play while the other waits, is
cleared or is recorded, and no action compares more than two; one thread per
role already gives every pair of roles that meet in the code, and a second Ice
thread would add only pairs of calls that `songsMutex` serialises, which the
proofs cover for any number of threads. Four messages are the two of the
handshake and two comments that can race (`Room` admits a comment or an answer
only if the messages of those already begun leave one for it); one text message
at a time is read and not handled, because one more would be handled by the same
steps after it; two pings let one be queued behind
another. Bytes of six values with a window of three keep the proportions of 256
and 30 that matter (window at most half a turn, exact half possible) and the
seven datagrams under the second key take the byte through a whole turn and the
IV through two carries; the nonces 5 and 6 are one apart, so that the datagram
of the first key leaves an entry that a gap under the second one meets. Four frames
in packets of two leave a remainder and a full queue; two codec changes go to a
codec and back. Three servers on two hashes have a collision and a bystander;
three crashes allow one in a call, one in the load after it and one more.
Symmetry is not used.

In `pipeline` the resampler's frame (3 samples), the packet (4) and the chunks
(2 and 5) have no common measure, so that every buffer has remainders, and one
rate makes fewer and one more samples than it gets; 14 samples fill the queue
beyond its reserve of two packets. `Lateness` (3 frames) is the most a sleeping
player can be late without reaching two packets (4), which is the margin the
code keeps. A `size_t` of 64 values (`SizeValues`), converted to a signed number
of as many (`RepValues`), wraps and converts as one of 2^64 does, because the
queue stays well below the half of either; `PacingAssumption` says how far below,
and `NoUnderrun` is proved for all values that satisfy it. Samples and volume calls are not bounded high at the
same time (`Bounds`): they share nothing but the filter. In `inbound` a header
of 2 bytes and bodies of 0 to 2 can be split at every place, and 3 bytes ahead
make two messages in one read; the first messages are the handshake's, so that 6
leave 3 to 4 for joins, moves, comments and channels. In `packet` the numbers are the two sides of
every bound in the encoding, including -1, -4, -5, 2^32 and the largest; three
items put one before and one after. In `spotify` two songs have different
formats, a buffer is refused once it holds two frames, and a track takes at
least two batches.

Runs that TLC must find violated, each a statement of the repository that the
code does not keep (details under `findings`):

- **playback_clear**: `clearQueue` is marked thread safe (music.h:51), but it
  can empty the queue between the test and the pop of `run`.
- **playback_stop**: "stop - stop current song" (music.cpp:216), but a stop just
  before `FileSong::play` is overwritten.

Other disagreements, which have no run of their own:

- `play` is marked thread safe (music.h:45), but a song queued while the
  playback thread is on its way to sleep stays there until the next call;
  `SleepIsHeard` says that the next call does end it.
- "replay - play again last song" (music.cpp:217), but `run` resets `currentSong`
  after every song, so nothing is played again.
- The chat help advertises a command `next` (music.cpp:215) that `onTxtMsg` does
  not know.
- "Lost a few packets, but beyond that we're good." (CryptState.cpp:158), but a
  stale entry of `decrypt_history` may refuse the datagram after the gap;
  `RefusalIsStale` says exactly when.
- "returns enqueued data length + 2 frames" (Audio.cpp:96), but two packets are
  subtracted. With fewer than two packets queued the subtraction wraps; with a
  `size_t` of 64 bits the player then does not sleep, with one of 32 bits it
  would sleep for 49 days.
- `Spotify::stop` asserts that its song is the current one (spotify.cpp:211); it
  is not while the song is being loaded or after `play` has let it go
  (`StuckOnlyIfMissed` says when). `endOfTrack` wakes nobody, so the usual end
  of a Spotify song leaves its player asleep until a stop or another song's
  metadata.

## Fairness

Playback: weak fairness of the playback thread and of every call once begun,
because the scheduler runs threads that can run. Decoding ends: files are
finite. Nothing is assumed about clients or spurious wake-ups. SendQueue: weak
fairness of every thread inside a call (the answer to a text message included),
of the handlers, the timer and the end of a write; none of the peer, of failures or of clients. `DoPing` is fair
because a timer that was armed fires. AudioQueue: weak fairness of the encoder
and of the queue thread. The other modules check safety only.

Deadlock is checked in Playback and CryptChannel (a crash is an explicit
stuttering step there). SendQueue, AudioQueue and Registry do stop: after
Disconnect, when no audio comes any more, after a fault, or when a call hangs
and the crashes are used up; Pipeline, Inbound, PacketDataStream and Spotify
stop at the last song, message or item, or at a fault; the configurations say so.

## What is proved

With TLAPS, for every value of the constants that satisfies the named
assumptions (`PlaybackAssumption`: the thread and song identities differ;
`CryptAssumption`: the base of a byte is twice its half and the window at most
half; `RegistryAssumption`: the hash is a function into the ids; `PacketAssumption`:
numbers are eight bytes, blocks are sequences of bytes; `AudioAssumption`: a
packet holds at least a frame, Opus is none of the CELT types;
`SendQueueAssumption`: the threads differ and the senders are finitely many;
`InboundAssumption`: a header has bytes, the client is one of the users, channels
other than the root have ids above 0; `SpotifyAssumption`: bounds are numbers and
a batch has frames; `ResamplerAssumption` and `PipelineAssumption`: frames,
packets, chunks and rates are not zero, the first volume is within the limits, a
`size_t` has no more values than the representation of milliseconds;
`PacingAssumption`: see PipelineProofs below; the other conjuncts give each
parameter its type):

- **PlaybackProofs**: the type invariant, `SongAlive`, `RecordedOnce`,
  `LockedStatusSafe`, `EmptyPopNeedsClear`, `SleepIsHeard`, and that every step
  of Playback is a step of Playlist or leaves its lists alone. The properties
  are not inductive by themselves: the invariant adds who owns each mutex at
  which label, that a song is in at most one of queue, current song, history
  and cleared, where the return labels may point, and which song is on the
  stack at which label of `run`.
- **WireProofs**, CryptChannel: all four invariants. The type invariant contains that the
  receiver never gets ahead of the sender. `AcceptedOnce` needs that datagrams
  under way carry nonces the sender has used, and `SeenInv`: until a resync
  turns the nonce back, an accepted IV within the window behind the last one is
  still what `decrypt_history` has under its low byte. Two IVs less than a turn
  apart have different low bytes (`LowUnique`), so later acceptances in the
  window do not overwrite it; for older IVs the guess differs. `LostCounted` is
  inductive beside these: a datagram that is ahead adds an interval of missing
  IVs, a late one fills a gap that is there because it was not accepted before.
  `RefusalIsStale` needs `NewestInv`: a slot that this key has written holds
  the newest accepted IV with that low byte, so that a refusal on an equal
  second byte means a whole turn of two bytes.
- **SendProofs**: all three invariants and the action property
  `DeliveredInOrder`. No mutex guards the queue, so the invariant has two
  parts. One holds whatever the threads do: how far each is in its call, and
  what that says of `state_`, the socket, the timer and the text message that is
being answered. The other holds until
  two threads have met inside the queue's code (`raced`): the one inside still
  sees what it tested, the message being written is the front of the queue, and
  the queue holds, in order, the pushes that the server has not got.
- **AudioProofs**: all four invariants. The invariant has three parts, by what
  a `selectCodec` can break: always, `queueMtx` has one owner, who still has
  what it tested, and the frames in the PCM queue, the call of `enqueue`, the
  compressed queue and the packet go on from each other up to the first
  encoder that failed; until the codec changes under audio that is on its way,
  the packet and its header match; until a call of `enqueue` meets a change,
  it finds the encoder it tested.
- **InboundProofs**: all four invariants. Three arguments meet: the log `sent`
  (`SentInv`: each message tells how the server's state came from the one
  before it, and begins where that one ends), the position of the reader in it
  (`InStep`, `ReadsInv`: what a read asked for is what is missing up to a
  header or to the end of a message) and the lists (`RosterInv`). That a
  handler takes lists which mirror one entry to lists which mirror the next is
  one lemma per kind of message, each from a lemma about removing, appending or
  changing an element of a list (`ToldMirrored`).
- **SpotifyProofs**: all three invariants. `PhaseInv` says which flags go with
  which line of `play` and of `stop`; `DeliveryInv` what libspotify holds back;
  `OrderInv` that frames heard, in the buffer and under way are one sequence;
  `LeaveInv` that stop clears what `play` leaves behind; `WakeInv` follows each
  reason for a lost wake-up from the notification to the sleep.
- **RegistryProofs**: all four invariants. The invariant says, phase by phase,
  where file, memory and answers agree, and what a failed load or save leaves of
  that (a failed write leaves an empty file, which keeps no disconnected server;
  a failed open leaves an old one, which may); that a load restores what was
  saved rests on the file never holding two servers of one hash.
- **WireProofs**, PacketDataStream: all three invariants. `RoundTrip` rests on two
  halves. One is about the coding alone: whatever a buffer holds before and
  behind it, what `Encode` made of a number is decoded to that number, with as
  many calls of `next` as it has bytes, for all 2^64 numbers (`EncodeDecoded`;
  one step for each of the eight first bytes, and the two nested forms). `Decode`
  is a recursion along the buffer; that such a function exists for every buffer
  (`DecodeExists`) is an induction on its length. The other half is about the
  calls: `StreamInv` says that each item that fitted lies where its record says,
  one ends where the next begins, and reading goes from the start of one to the
  start of the next as long as all before it fitted. `Accounting` has a smaller
  invariant of its own: every encoding has a length, which is all that counts.
- **PipelineProofs**: all four invariants of the path from decoder to packet.
  First the resampler, as lemmas about its functions: a frame advances the graph
  by what `Made` says (`AddFrameAdvances`), the loop over the frames advances it
  by all of them (`FedAdvances`), `Resample` then hands out everything that
  outputBuffer and the graph hold and never more than dstSamples made room for
  (`ResampleCorrect`), and `Flush` leaves a stopped song's rest in outputBuffer
  (`FlushCorrect`). Then the steps: `FeedInv` counts what the decoder gave
  against what the resampler took, in each label of the player; `OrderInv` says
  that packets, queues and graph together are one sequence in which each sample
  is followed by the next of its song, and a song by the beginning of another
  once it has made what it could; `PaceInv` relates the sleep that is left, the
  packet on its way and the queue; `VolumeInv` says what one call of setVolume
  or adjustVolume knows at each of its steps while no other runs. The two halves
  share little, so a step is proved for the way of the samples (`WayStep`) and
  for the volume (`LevelStep`) apart.
  `NoUnderrun` needs `PacingAssumption`: a sleeping player is less than two packets
  late (what the code's reserve is for; with more, no reserve would do);
  `size_t` is as wide as the representation of milliseconds, as in a build for
  64 bits (with less, the wrapped difference is a sleep of weeks); and three
  packets with what one call adds (`Burst`) stay below half of its values, as
  they do by many orders of magnitude. The bound on the queue, three packets and
  a `Burst`, is what the player's sleep leaves, plus the packet on its way.

Induction over data: the library's theorems for it take a predicate as a
parameter, which the provers cannot instantiate. Here the predicate is a set of
numbers instead (`SetInduction`: a set that has 0 and with every number the next
is all of them, from the library's theorem that `<` is well-founded), which is
what the lemmas about `Fed`, `Taken`, `FlattenSeq` and `Decode` use.

Each invariant was model-checked before it was proved, and each proof has one
step per action.

Only model-checked: the liveness properties (`CallWakesPlayer`, `QueueDrains`,
`AudioFlows`). They need fairness and ENABLED, which are out of the provers'
reach. Every other property of a passing run is also a theorem.

## What is not modelled, and why

- The content of songs, comments, audio and messages: no property depends on it.
- The cipher: a wrong nonce or key never passes the tag check.
- Decoding, filtering and the codecs themselves: libraries.
- A second `Connect` on a client that is connected (dolanik.cpp:60: two servers
  of one hash, or the same server twice, share one MumbleClient with two reads
  into one buffer), and the lifetime of a Music whose Server is gone.
- Spotify: the login, whose flag nothing reads; titles; the destructor of
  SpotifySong, which locks the mutex that `metadataUpdated` already holds if the
  callback has the last reference to a song that was cleared from the queue; two
  servers that play through the one session.
- `CodecVersion`, `CryptSetup`, `ServerSync` and text messages in Inbound: they
  are in AudioQueue, CryptChannel, SendQueue and Playback.
- Errors of ffmpeg beyond a file that cannot be opened, a frame that cannot be
  read or decoded, a graph that cannot be built and a frame it refuses.
- `Audio::processQueue` never asks whether a packet was valid; the lengths that
  the encoders return fit its buffer.
- Configuration, logging, the loading of codec libraries: sequential start-up.

## Plan

1. `DeliveredInOrder` as the refinement of an abstract queue, and the log of
   `Inbound` as that of an abstract server.
2. A composition of `Playback` with `AudioQueue`'s stop and with the registry's
   disconnect, for the lifetime of a Music.
3. Two servers on one MumbleClient, and two Musics on one Spotify session.
