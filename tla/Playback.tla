------------------------------ MODULE Playback ------------------------------
(***************************************************************************)
(* The playback core of one server: class Music (dolanik/music.cpp) with    *)
(* the per-song flag of FileSong (dolanik/fileSong.cpp).                    *)
(*                                                                          *)
(* Three kinds of threads meet in a Music object:                           *)
(*   Player  the thread started by the constructor, running Music::run;     *)
(*   Remote  the threads that serve the Ice interface (ice/dolanI.cpp);     *)
(*   Chat    the asio thread, which calls Music::onTxtMsg.                  *)
(*                                                                          *)
(* One action is the code between two accesses to data that another thread  *)
(* may change without holding the same mutex.  A critical section that      *)
(* calls nothing else is a single action.  A thread that aborts, or whose   *)
(* next step the language leaves undefined, ends at a label of CrashSites   *)
(* and the process with it.                                                 *)
(***************************************************************************)
EXTENDS Integers, Sequences, FiniteSets

CONSTANTS
  Songs,     \* the Song objects; createSong allocates a new one per request
  NoSong,    \* the null Song::Ptr
  Player,    \* the thread of Music::run
  Remote,    \* threads that dispatch Ice calls
  Chat,      \* threads that deliver text messages (the asio thread)
  Free,      \* "no owner" of a mutex
  Calls      \* the entry points clients use in this instance

AllCalls == {"play", "stop", "replay", "clearQueue", "getCurrentSong",
             "volume", "status", "playlist", "other"}

ASSUME PlaybackAssumption ==
  /\ NoSong \notin Songs
  /\ Player \notin Remote \cup Chat
  /\ Remote \cap Chat = {}
  /\ Free \notin {Player} \cup Remote \cup Chat
  /\ Calls \subseteq AllCalls

Controllers == Remote \cup Chat
Threads == {Player} \cup Controllers
Tracks == Songs \cup {NoSong}

VARIABLES
  playback,               \* Music::playback
  replayCurrentSongFlag,
  currentSong,
  history,
  queue,
  songPlayback,           \* FileSong::playback of every song
  songsMutex,             \* owner of the mutex, or Free
  playbackThreadMutex,
  pc,                     \* where each thread is
  ret,                    \* where statusComment or genPlaylistString returns to
  idx,                    \* the loop counter of genPlaylistString, from 1
  playing,                \* the song whose play() is on the Player's stack
  cleared                 \* the songs removed by clearQueue

flags == <<playback, replayCurrentSongFlag>>
songVars == <<currentSong, history, queue, songPlayback, playing, cleared>>
lockVars == <<songsMutex, playbackThreadMutex>>
shared == <<flags, songVars, lockVars>>
stack == <<ret, idx>>
vars == <<shared, pc, stack>>

StatusLabels == {"status", "statusSong", "list", "item"}
PlayerLabels == {"test", "testPlayback", "pick", "pop", "beforePlay", "callPlay",
                 "songPlay", "songEnter", "decode", "record", "afterPlay",
                 "idleLock", "idleWait", "waiting", "woken"}
CallLabels == {"idle", "stopLock", "notifyTest", "notifyLock", "notifyWake",
               "notified", "statusMsg", "comment", "unlock"}
CrashSites == {"emptyPop", "nullCurrent", "nullQueued", "playlistRange"}

Crashed == \E t \in Threads : pc[t] \in CrashSites
Elements(s) == {s[i] : i \in DOMAIN s}

Init ==
  /\ playback = FALSE
  /\ replayCurrentSongFlag = FALSE
  /\ currentSong = NoSong
  /\ history = <<>>
  /\ queue = <<>>
  /\ songPlayback = [s \in Songs |-> TRUE]
  /\ songsMutex = Free
  /\ playbackThreadMutex = Free
  /\ pc = [t \in Threads |-> IF t = Player THEN "test" ELSE "idle"]
  /\ ret = [t \in Threads |-> "none"]
  /\ idx = [t \in Threads |-> 0]
  /\ playing = NoSong
  /\ cleared = {}

(* A crash of one thread ends them all.                                      *)
At(t, label) == ~Crashed /\ pc[t] = label
Goto(t, from, to) == At(t, from) /\ pc' = [pc EXCEPT ![t] = to]

(* A step that only reads what is shared.                                    *)
Look(t, from, to) == Goto(t, from, to) /\ UNCHANGED <<shared, stack>>

-----------------------------------------------------------------------------
(* statusComment and genPlaylistString, run by any thread, with or without   *)
(* songsMutex.  Only their reads of shared state are kept.                   *)

EnterStatus(t, from, back) ==
  /\ Goto(t, from, "status")
  /\ ret' = [ret EXCEPT ![t] = back]
  /\ UNCHANGED idx

StatusTest(t) ==
  Look(t, "status", IF playback /\ currentSong # NoSong THEN "statusSong" ELSE "list")

StatusSong(t) ==
  Look(t, "statusSong", IF currentSong = NoSong THEN "nullCurrent" ELSE "list")

ListTest(t) ==
  /\ At(t, "list")
  /\ IF idx[t] < Len(queue)
       THEN /\ Goto(t, "list", "item")
            /\ idx' = [idx EXCEPT ![t] = @ + 1]
            /\ UNCHANGED ret
       ELSE /\ Goto(t, "list", ret[t])
            /\ idx' = [idx EXCEPT ![t] = 0]
            /\ ret' = [ret EXCEPT ![t] = "none"]
  /\ UNCHANGED shared

ListItem(t) ==
  Look(t, "item", IF idx[t] > Len(queue) THEN "playlistRange"
                     ELSE IF queue[idx[t]] = NoSong THEN "nullQueued" ELSE "list")

Status(t) == StatusTest(t) \/ StatusSong(t) \/ ListTest(t) \/ ListItem(t)

-----------------------------------------------------------------------------
(* The entry points.  onTxtMsg ends with a statusComment of its own, the     *)
(* Ice calls just return.                                                    *)

Known == Elements(queue) \cup {currentSong} \cup Elements(history) \cup cleared
AfterCall(c) == IF c \in Chat THEN "comment" ELSE "idle"

(* play takes songsMutex and keeps it for the notification and the status    *)
(* comment.  createSong returns the null pointer if it cannot open the file. *)
Play(c, s) ==
  /\ c \in Remote /\ "play" \in Calls
  /\ s = NoSong \/ s \notin Known
  /\ songsMutex = Free
  /\ Goto(c, "idle", "notifyTest")
  /\ songsMutex' = c
  /\ queue' = Append(queue, s)
  /\ UNCHANGED <<flags, currentSong, history, songPlayback, playbackThreadMutex,
                 playing, cleared, stack>>

NotifyTest(c) ==
  Look(c, "notifyTest", IF playback THEN "notified" ELSE "notifyLock")

NotifyLock(c) ==
  /\ Goto(c, "notifyLock", "notifyWake")
  /\ playbackThreadMutex = Free
  /\ playbackThreadMutex' = c
  /\ UNCHANGED <<flags, songVars, songsMutex, stack>>

(* Faulty variant: playback is set, but nobody is notified.                  *)
NotifyWakeSilent(c) ==
  /\ Goto(c, "notifyWake", "notified")
  /\ playback' = TRUE
  /\ playbackThreadMutex' = Free
  /\ UNCHANGED <<replayCurrentSongFlag, songVars, songsMutex, stack>>

NotifyWake(c) ==
  /\ At(c, "notifyWake")
  /\ playback' = TRUE
  /\ pc' = [pc EXCEPT ![c] = "notified",
                      ![Player] = IF @ = "waiting" THEN "woken" ELSE @]
  /\ playbackThreadMutex' = Free
  /\ UNCHANGED <<replayCurrentSongFlag, songVars, songsMutex, stack>>

(* Back from notifyPlaybackThread: in play, or at the end of replay.         *)
Notified(c) ==
  /\ IF songsMutex = c THEN EnterStatus(c, "notified", "unlock")
                       ELSE Goto(c, "notified", AfterCall(c)) /\ UNCHANGED stack
  /\ UNCHANGED shared

Unlock(c) ==
  /\ Goto(c, "unlock", AfterCall(c))
  /\ songsMutex' = Free
  /\ UNCHANGED <<flags, songVars, playbackThreadMutex, stack>>

(* stop clears playback before it takes the mutex.                           *)
Stop(c) ==
  /\ "stop" \in Calls
  /\ Goto(c, "idle", "stopLock")
  /\ playback' = FALSE
  /\ UNCHANGED <<replayCurrentSongFlag, songVars, lockVars, stack>>

(* Faulty variants: the stopped song is not recorded; it stays current.      *)
StopCurrentDrops ==
  IF currentSong = NoSong THEN UNCHANGED <<songPlayback, history, currentSong>>
  ELSE /\ songPlayback' = [songPlayback EXCEPT ![currentSong] = FALSE]
       /\ currentSong' = NoSong
       /\ UNCHANGED history

StopCurrentKeeps ==
  IF currentSong = NoSong THEN UNCHANGED <<songPlayback, history, currentSong>>
  ELSE /\ songPlayback' = [songPlayback EXCEPT ![currentSong] = FALSE]
       /\ history' = Append(history, currentSong)
       /\ UNCHANGED currentSong

StopCurrent ==
  IF currentSong = NoSong THEN UNCHANGED <<songPlayback, history, currentSong>>
  ELSE /\ songPlayback' = [songPlayback EXCEPT ![currentSong] = FALSE]
       /\ history' = Append(history, currentSong)
       /\ currentSong' = NoSong

StopLock(c) ==
  /\ EnterStatus(c, "stopLock", "unlock")
  /\ songsMutex = Free
  /\ songsMutex' = c
  /\ StopCurrent
  /\ UNCHANGED <<flags, queue, playbackThreadMutex, playing, cleared>>

Replay(c) ==
  /\ "replay" \in Calls
  /\ Goto(c, "idle", "notifyTest")
  /\ replayCurrentSongFlag' = TRUE
  /\ UNCHANGED <<playback, songVars, lockVars, stack>>

(* Faulty variant: the queue is cleared without the mutex.                   *)
ClearQueueUnlocked(c) ==
  /\ c \in Remote /\ "clearQueue" \in Calls
  /\ At(c, "idle")
  /\ queue' = <<>>
  /\ cleared' = cleared \cup (Elements(queue) \ {NoSong})
  /\ UNCHANGED <<flags, currentSong, history, songPlayback, playing,
                 lockVars, pc, stack>>

ClearQueue(c) ==
  /\ c \in Remote /\ "clearQueue" \in Calls
  /\ At(c, "idle")
  /\ songsMutex = Free
  /\ queue' = <<>>
  /\ cleared' = cleared \cup (Elements(queue) \ {NoSong})
  /\ UNCHANGED <<flags, currentSong, history, songPlayback, playing,
                 lockVars, pc, stack>>

(* The Ice servant dereferences the pointer it gets without testing it.      *)
GetCurrentSong(c) ==
  /\ c \in Remote /\ "getCurrentSong" \in Calls
  /\ songsMutex = Free
  /\ Look(c, "idle", IF currentSong = NoSong THEN "nullCurrent" ELSE "idle")

(* setVolume and adjustVolume: all they do to the songs is the statusComment *)
(* they end with.                                                            *)
AdjustVolume(c) ==
  /\ "volume" \in Calls
  /\ EnterStatus(c, "idle", AfterCall(c))
  /\ UNCHANGED shared

(* The text commands that only report.  Any other text, help and eq among    *)
(* them, leads straight to the final statusComment.                          *)
ChatStatus(c) ==
  /\ c \in Chat /\ "status" \in Calls
  /\ Look(c, "idle", IF playback THEN "statusMsg" ELSE "comment")

ChatStatusSong(c) ==
  Look(c, "statusMsg", IF currentSong = NoSong THEN "nullCurrent" ELSE "comment")

ChatPlaylist(c) ==
  /\ c \in Chat /\ "playlist" \in Calls
  /\ Goto(c, "idle", "list")
  /\ ret' = [ret EXCEPT ![c] = "comment"]
  /\ UNCHANGED <<shared, idx>>

ChatOther(c) ==
  /\ c \in Chat /\ "other" \in Calls
  /\ Look(c, "idle", "comment")

Comment(c) == EnterStatus(c, "comment", "idle") /\ UNCHANGED shared

Call(c) ==
  \/ \E s \in Tracks : Play(c, s)
  \/ Stop(c) \/ Replay(c) \/ ClearQueue(c) \/ GetCurrentSong(c)
  \/ AdjustVolume(c) \/ ChatStatus(c) \/ ChatPlaylist(c) \/ ChatOther(c)

Continue(c) ==
  \/ NotifyTest(c) \/ NotifyLock(c) \/ NotifyWake(c) \/ Notified(c) \/ Unlock(c)
  \/ StopLock(c) \/ ChatStatusSong(c) \/ Comment(c) \/ Status(c)

-----------------------------------------------------------------------------
(* Music::run.  The loop condition reads the queue and the flags without a   *)
(* mutex.                                                                    *)

RunTest ==
  Look(Player, "test", IF queue # <<>> \/ replayCurrentSongFlag
                            THEN "testPlayback" ELSE "idleLock")

RunTestPlayback ==
  Look(Player, "testPlayback", IF playback THEN "pick" ELSE "idleLock")

(* Faulty variant: a replay also pops.                                       *)
RunPickPops ==
  /\ Goto(Player, "pick", "pop")
  /\ replayCurrentSongFlag' = FALSE
  /\ UNCHANGED <<playback, songVars, lockVars, stack>>

RunPick ==
  /\ Goto(Player, "pick", IF replayCurrentSongFlag THEN "beforePlay" ELSE "pop")
  /\ replayCurrentSongFlag' = FALSE
  /\ UNCHANGED <<playback, songVars, lockVars, stack>>

(* Faulty variant: the song is not removed from the queue.                   *)
RunPopPeeks ==
  /\ Goto(Player, "pop", IF queue = <<>> THEN "emptyPop" ELSE "beforePlay")
  /\ songsMutex = Free
  /\ currentSong' = IF queue = <<>> THEN currentSong ELSE Head(queue)
  /\ UNCHANGED <<flags, history, queue, songPlayback, playing, cleared,
                 lockVars, stack>>

(* Faulty variant: the lock of the pop lasts as long as the loop's body.      *)
RunPopKeepsLock ==
  /\ Goto(Player, "pop", IF queue = <<>> THEN "emptyPop" ELSE "beforePlay")
  /\ songsMutex = Free
  /\ songsMutex' = Player
  /\ IF queue = <<>> THEN UNCHANGED <<currentSong, queue>>
     ELSE currentSong' = Head(queue) /\ queue' = Tail(queue)
  /\ UNCHANGED <<flags, history, songPlayback, playing, cleared,
                 playbackThreadMutex, stack>>

RunPop ==
  /\ Goto(Player, "pop", IF queue = <<>> THEN "emptyPop" ELSE "beforePlay")
  /\ songsMutex = Free
  /\ IF queue = <<>> THEN UNCHANGED <<currentSong, queue>>
     ELSE currentSong' = Head(queue) /\ queue' = Tail(queue)
  /\ UNCHANGED <<flags, history, songPlayback, playing, cleared,
                 lockVars, stack>>

RunStatus ==
  /\ \/ EnterStatus(Player, "beforePlay", "callPlay")
     \/ EnterStatus(Player, "afterPlay", "test")
  /\ UNCHANGED shared

(* if(currentSong), then currentSong->play: the pointer is read twice.       *)
RunTestSong ==
  Look(Player, "callPlay", IF currentSong = NoSong THEN "afterPlay" ELSE "songPlay")

RunSongPlay ==
  /\ Goto(Player, "songPlay", IF currentSong = NoSong THEN "nullCurrent" ELSE "songEnter")
  /\ playing' = currentSong
  /\ UNCHANGED <<flags, currentSong, history, queue, songPlayback, cleared,
                 lockVars, stack>>

(* FileSong::play sets the flag of the song, then decodes frame after frame. *)
RunSongEnter ==
  /\ Goto(Player, "songEnter", "decode")
  /\ songPlayback' = [songPlayback EXCEPT ![playing] = TRUE]
  /\ UNCHANGED <<flags, currentSong, history, queue, playing, cleared,
                 lockVars, stack>>

(* The file ends, or the flag was found cleared after a frame.               *)
RunSongEnd ==
  /\ Goto(Player, "decode", "record")
  /\ playing' = NoSong
  /\ UNCHANGED <<flags, currentSong, history, queue, songPlayback, cleared,
                 lockVars, stack>>

RunRecord ==
  /\ Goto(Player, "record", "afterPlay")
  /\ songsMutex = Free
  /\ history' = Append(history, currentSong)
  /\ currentSong' = NoSong
  /\ UNCHANGED <<flags, queue, songPlayback, playing, cleared, lockVars, stack>>

RunIdleLock ==
  /\ Goto(Player, "idleLock", "idleWait")
  /\ playbackThreadMutex = Free
  /\ playbackThreadMutex' = Player
  /\ UNCHANGED <<flags, songVars, songsMutex, stack>>

(* Faulty variant: the thread sleeps without clearing playback.              *)
RunIdleWaitKeepsFlag ==
  /\ Goto(Player, "idleWait", "waiting")
  /\ playbackThreadMutex' = Free
  /\ UNCHANGED <<flags, songVars, songsMutex, stack>>

RunIdleWait ==
  /\ Goto(Player, "idleWait", "waiting")
  /\ playback' = FALSE
  /\ playbackThreadMutex' = Free
  /\ UNCHANGED <<replayCurrentSongFlag, songVars, songsMutex, stack>>

(* A condition variable may wake its waiter unasked; wait is not in a loop   *)
(* that tests a predicate.                                                   *)
SpuriousWake ==
  Look(Player, "waiting", "woken")

(* wait returns owning the mutex; the scope of the lock ends right after.    *)
RunWoken ==
  /\ playbackThreadMutex = Free
  /\ Look(Player, "woken", "test")

Run ==
  \/ RunTest \/ RunTestPlayback \/ RunPick \/ RunPop \/ RunStatus \/ RunTestSong
  \/ RunSongPlay \/ RunSongEnter \/ RunSongEnd \/ RunRecord
  \/ RunIdleLock \/ RunIdleWait \/ RunWoken \/ Status(Player)

-----------------------------------------------------------------------------
Exit == Crashed /\ UNCHANGED vars

Next ==
  \/ Run \/ SpuriousWake
  \/ \E c \in Controllers : Call(c) \/ Continue(c)
  \/ Exit

Spec == Init /\ [][Next]_vars

(* The scheduler runs every thread that can run.  Nothing makes a client     *)
(* call, and nothing makes a condition variable wake spuriously.             *)
Fairness ==
  /\ WF_vars(Run)
  /\ \A c \in Controllers : WF_vars(Continue(c))

FairSpec == Spec /\ Fairness
-----------------------------------------------------------------------------
(* Properties.                                                               *)

(* Every variable has the type its declaration in music.h gives it, and      *)
(* every thread is at one of its labels.  Music::run is never the owner of    *)
(* songsMutex outside its two critical sections, so a stop or a chat command   *)
(* never waits for a song to end.                                            *)
TypeOK ==
  /\ playback \in BOOLEAN /\ replayCurrentSongFlag \in BOOLEAN
  /\ currentSong \in Tracks /\ playing \in Tracks
  /\ history \in Seq(Tracks) /\ queue \in Seq(Tracks)
  /\ songPlayback \in [Songs -> BOOLEAN]
  /\ songsMutex \in Controllers \cup {Free}
  /\ playbackThreadMutex \in Threads \cup {Free}
  /\ pc \in [Threads -> StatusLabels \cup PlayerLabels \cup CallLabels \cup CrashSites]
  /\ pc[Player] \notin CallLabels
  /\ \A c \in Controllers : pc[c] \notin PlayerLabels
  /\ ret \in [Threads -> {"none", "callPlay", "test", "unlock", "comment", "idle"}]
  /\ idx \in [Threads -> Nat]
  /\ cleared \subseteq Songs

(* A FileSong lives as long as some list or pointer of Music holds it.  The  *)
(* song whose play() is on the stack of Music::run is held by currentSong or *)
(* by history, so a concurrent stop, which resets currentSong, never frees   *)
(* the object that is still decoding.                                        *)
SongAlive ==
  playing # NoSong => playing = currentSong \/ playing \in Elements(history)

(* Both stop and Music::run move currentSong to history; whichever of them   *)
(* comes first, a song is recorded once, and never while it waits in the     *)
(* queue.                                                                    *)
RecordedOnce ==
  /\ \A i, j \in DOMAIN history :
       history[i] = history[j] /\ history[i] # NoSong => i = j
  /\ Elements(history) \cap Elements(queue) \subseteq {NoSong}
  /\ currentSong \notin Songs \cap Elements(history)

(* The status comment that play and stop make while they hold songsMutex     *)
(* sees a list that does not move: the owner of the mutex never finds the    *)
(* current song or a list position gone.  It can only meet a null song.      *)
LockedStatusSafe ==
  songsMutex # Free => pc[songsMutex] \notin {"nullCurrent", "playlistRange", "emptyPop"}

(* Only clearQueue can take the last song between the loop condition of      *)
(* Music::run and the pop; without it the pop always finds a song.           *)
EmptyPopNeedsClear ==
  pc[Player] \in {"pop", "emptyPop"} /\ queue = <<>> => cleared # {}

(* However the wait without a predicate and the notifications interleave,    *)
(* when Music::run sleeps either playback is false, so that the next play or *)
(* replay will notify, or a notification is under way.  A missed wakeup is   *)
(* thus never permanent: the next call ends it.                              *)
SleepIsHeard ==
  pc[Player] = "waiting" =>
    \/ ~playback
    \/ \E c \in Controllers : pc[c] = "notifyWake"

(* A play or replay that reaches notifyPlaybackThread while Music::run       *)
(* sleeps wakes it, unless the process crashed.                              *)
CallWakesPlayer ==
  \A c \in Controllers :
    pc[c] = "notifyTest" /\ pc[Player] = "waiting" ~> pc[Player] # "waiting" \/ Crashed

(* Music implements Playlist: its three lists are the queue, the current     *)
(* song and the songs in the history.                                        *)
List == INSTANCE Playlist WITH
          pending <- queue, current <- currentSong,
          finished <- Elements(history) \ {NoSong}, dropped <- cleared
ImplementsPlaylist == List!Spec

(* What music.h and the chat help say.                                       *)

(* music.h marks play and clearQueue "Thread safe": no interleaving of them  *)
(* with Music::run takes a song from an empty queue.                         *)
NoEmptyPop == pc[Player] # "emptyPop"

(* The chat help: "stop - stop current song".  A song that stop moved to the *)
(* history does not go on decoding with its flag set.                        *)
StopStopsCurrentSong ==
  pc[Player] = "decode" /\ playing \in Elements(history) => ~songPlayback[playing]
=============================================================================
