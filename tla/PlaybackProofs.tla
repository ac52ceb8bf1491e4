--------------------------- MODULE PlaybackProofs ---------------------------
(***************************************************************************)
(* What TLAPS proves about Playback, for any number of songs and threads.   *)
(*                                                                          *)
(* IInv is the inductive invariant.  Its conjuncts say who owns a mutex     *)
(* where (MutexInv, ReturnInv), when the current song and the song on the   *)
(* stack are null (PlayerInv), that a list under the mutex has been walked  *)
(* up to idx (ListInv), that no song is in two places (OnceInv), and what a *)
(* pop and a sleep rely on (PopInv, SleepIsHeard).                          *)
(***************************************************************************)
EXTENDS Playback, TLAPS

HoldLabels == {"notifyTest", "notifyLock", "notifyWake", "notified", "unlock"}
                \cup StatusLabels \cup CrashSites

MutexInv ==
  /\ \A c \in Controllers :
       /\ songsMutex = c => pc[c] \in HoldLabels
       /\ pc[c] = "unlock" \/ ret[c] = "unlock" => songsMutex = c
       /\ songsMutex = c /\ pc[c] \in StatusLabels => ret[c] = "unlock"
  /\ \A t \in Threads :
       pc[t] \in {"notifyWake", "idleWait"} <=> playbackThreadMutex = t

ReturnInv ==
  /\ pc[Player] \in StatusLabels => ret[Player] \in {"callPlay", "test"}
  /\ \A c \in Controllers :
       pc[c] \in StatusLabels => ret[c] \in {"unlock", "comment", "idle"}
  /\ \A t \in Threads :
       /\ pc[t] \notin StatusLabels \cup CrashSites => ret[t] = "none"
       /\ pc[t] \notin {"list", "item"} \cup CrashSites => idx[t] = 0

(* Between the end of one song and the next pop there is no current song;    *)
(* play() is on the stack exactly while a song is entered or decoded.        *)
PlayerInv ==
  /\ pc[Player] \in {"test", "testPlayback", "pick", "pop", "afterPlay",
                     "idleLock", "idleWait", "waiting", "woken"} => currentSong = NoSong
  /\ pc[Player] \in StatusLabels /\ ret[Player] = "test" => currentSong = NoSong
  /\ playing # NoSong => pc[Player] \in {"songEnter", "decode"}
  /\ pc[Player] \in {"songEnter", "decode"} => playing # NoSong

(* A null song can be in the queue only until the play call that put it      *)
(* there has listed the queue.                                               *)
NoNull(n) == \A i \in 1..n : i \in DOMAIN queue => queue[i] # NoSong
ListInv ==
  /\ songsMutex = Free => NoNull(Len(queue))
  /\ \A c \in Controllers : songsMutex = c =>
       /\ pc[c] = "statusSong" => currentSong # NoSong
       /\ pc[c] = "list" => idx[c] <= Len(queue) /\ NoNull(idx[c])
       /\ pc[c] = "item" => idx[c] \in 1..Len(queue) /\ NoNull(idx[c] - 1)
       /\ pc[c] = "unlock" => NoNull(Len(queue))

OnceInv ==
  /\ RecordedOnce
  /\ \A i, j \in DOMAIN queue : queue[i] = queue[j] /\ queue[i] # NoSong => i = j
  /\ Elements(queue) \cap Songs \cap ({currentSong} \cup cleared) = {}
  /\ cleared \cap (Elements(history) \cup {currentSong}) = {}

PopInv ==
  /\ pc[Player] \in {"testPlayback", "pick"} /\ ~replayCurrentSongFlag /\ queue = <<>>
       => cleared # {}
  /\ EmptyPopNeedsClear

IInv ==
  /\ TypeOK /\ MutexInv /\ ReturnInv /\ PlayerInv /\ SongAlive /\ ListInv
  /\ OnceInv /\ PopInv /\ SleepIsHeard /\ LockedStatusSafe
-----------------------------------------------------------------------------
(* What the two changes of a list do to its elements.                        *)

(* push_back adds one element at the end.                                    *)
LEMMA AppendElements ==
  ASSUME NEW S, NEW q \in Seq(S), NEW e \in S
  PROVE  /\ Append(q, e) \in Seq(S)
         /\ Len(Append(q, e)) = Len(q) + 1
         /\ DOMAIN Append(q, e) = 1..(Len(q) + 1)
         /\ \A i \in 1..Len(q) : Append(q, e)[i] = q[i]
         /\ Append(q, e)[Len(q) + 1] = e
         /\ Elements(Append(q, e)) = Elements(q) \cup {e}
<1>1. /\ Append(q, e) \in Seq(S) /\ Len(Append(q, e)) = Len(q) + 1
      /\ DOMAIN Append(q, e) = 1..(Len(q) + 1) /\ DOMAIN q = 1..Len(q) /\ Len(q) \in Nat
      /\ \A i \in 1..Len(q) : Append(q, e)[i] = q[i]
      /\ Append(q, e)[Len(q) + 1] = e
  OBVIOUS
<1>2. Elements(q) \cup {e} \subseteq Elements(Append(q, e))
  <2>1. \A i \in DOMAIN q : i \in DOMAIN Append(q, e) /\ Append(q, e)[i] = q[i]  BY <1>1
  <2>2. Len(q) + 1 \in DOMAIN Append(q, e)  BY <1>1
  <2> QED BY <1>1, <2>1, <2>2 DEF Elements
<1>3. Elements(Append(q, e)) \subseteq Elements(q) \cup {e}
  <2>1. \A i \in DOMAIN Append(q, e) : i \in DOMAIN q \/ i = Len(q) + 1  BY <1>1
  <2> QED BY <1>1, <2>1 DEF Elements
<1> QED BY <1>1, <1>2, <1>3

(* pop_front of a list that is not empty removes its first element.          *)
LEMMA TailElements ==
  ASSUME NEW S, NEW q \in Seq(S), q # <<>>
  PROVE  /\ Head(q) \in S /\ Head(q) = q[1] /\ 1 \in DOMAIN q
         /\ Tail(q) \in Seq(S) /\ Len(Tail(q)) = Len(q) - 1
         /\ DOMAIN Tail(q) = 1..(Len(q) - 1)
         /\ \A i \in DOMAIN Tail(q) : i + 1 \in DOMAIN q /\ Tail(q)[i] = q[i + 1]
         /\ Elements(q) = {Head(q)} \cup Elements(Tail(q))
<1>1. /\ Head(q) \in S /\ Head(q) = q[1] /\ 1 \in DOMAIN q /\ DOMAIN q = 1..Len(q)
      /\ Tail(q) \in Seq(S) /\ Len(Tail(q)) = Len(q) - 1 /\ Len(q) \in Nat /\ Len(q) # 0
      /\ DOMAIN Tail(q) = 1..(Len(q) - 1)
  OBVIOUS
<1>2. \A i \in DOMAIN Tail(q) : i + 1 \in DOMAIN q /\ Tail(q)[i] = q[i + 1]
  BY <1>1
<1>3. Elements(Tail(q)) \subseteq Elements(q)  BY <1>2 DEF Elements
<1>4. \A i \in DOMAIN q : i = 1 \/ (i - 1 \in DOMAIN Tail(q) /\ Tail(q)[i - 1] = q[i])
  BY <1>1
<1>5. Elements(q) \subseteq {Head(q)} \cup Elements(Tail(q))
  <2> SUFFICES ASSUME NEW i \in DOMAIN q PROVE q[i] \in {Head(q)} \cup Elements(Tail(q))
    BY DEF Elements
  <2>1. CASE i = 1 BY <1>1, <2>1
  <2>2. CASE i - 1 \in DOMAIN Tail(q) /\ Tail(q)[i - 1] = q[i] BY <2>2 DEF Elements
  <2> QED BY <1>4, <2>1, <2>2
<1>6. Head(q) \in Elements(q)  BY <1>1 DEF Elements
<1> QED BY <1>1, <1>2, <1>3, <1>5, <1>6
-----------------------------------------------------------------------------
(* IInv is preserved by every step: one lemma for each conjunct, one step for *)
(* each action.                                                              *)

(* Types: pc and ret name a label of the thread's own program.               *)
LEMMA TypeStep == IInv /\ [Next]_vars => TypeOK'
<1> SUFFICES ASSUME IInv, [Next]_vars PROVE TypeOK'  OBVIOUS
<1> USE PlaybackAssumption DEF Controllers, Threads, Tracks, IInv, TypeOK
<1> USE DEF Look, Goto, At, EnterStatus, shared, stack, flags, songVars, lockVars
<1> USE DEF StatusLabels, PlayerLabels, CallLabels, CrashSites, AfterCall
<1>1. CASE Run
  <2>1. CASE RunTest BY <2>1 DEF RunTest
  <2>2. CASE RunTestPlayback BY <2>2 DEF RunTestPlayback
  <2>3. CASE RunPick BY <2>3 DEF RunPick
  <2>4. CASE RunPop
    <3>1. CASE queue = <<>> BY <2>4, <3>1 DEF RunPop
    <3>2. CASE queue # <<>>
      <4>1. Head(queue) \in Tracks /\ Tail(queue) \in Seq(Tracks) BY <3>2
      <4> QED BY <2>4, <3>2, <4>1 DEF RunPop
    <3> QED BY <3>1, <3>2
  <2>5. CASE RunStatus BY <2>5 DEF RunStatus
  <2>6. CASE RunTestSong BY <2>6 DEF RunTestSong
  <2>7. CASE RunSongPlay BY <2>7 DEF RunSongPlay
  <2>8. CASE RunSongEnter BY <2>8 DEF RunSongEnter
  <2>9. CASE RunSongEnd BY <2>9 DEF RunSongEnd
  <2>10. CASE RunRecord BY <2>10 DEF RunRecord
  <2>11. CASE RunIdleLock BY <2>11 DEF RunIdleLock
  <2>12. CASE RunIdleWait BY <2>12 DEF RunIdleWait
  <2>13. CASE RunWoken BY <2>13 DEF RunWoken
  <2>14. CASE Status(Player)
    <3>1. CASE StatusTest(Player) \/ StatusSong(Player) BY <3>1 DEF StatusTest,
        StatusSong
    <3>2. CASE ListTest(Player)
      <4>1. ret[Player] \in {"callPlay", "test"}  BY <3>2 DEF ListTest, ReturnInv
      <4>2. CASE idx[Player] < Len(queue) BY <4>2, <3>2 DEF ListTest
      <4>3. CASE ~(idx[Player] < Len(queue)) BY <4>1, <4>3, <3>2 DEF ListTest
      <4> QED BY <4>2, <4>3
    <3>3. CASE ListItem(Player) BY <3>3 DEF ListItem
    <3> QED BY <2>14, <3>1, <3>2, <3>3 DEF Status
  <2> QED BY <1>1, <2>1, <2>2, <2>3, <2>4, <2>5, <2>6, <2>7, <2>8, <2>9, <2>10, <2>11,
      <2>12, <2>13, <2>14 DEF Run
<1>2. CASE SpuriousWake BY <1>2 DEF SpuriousWake
<1>3. ASSUME NEW c \in Controllers, Call(c) PROVE TypeOK'
  <2>1. ASSUME NEW s \in Tracks, Play(c, s) PROVE TypeOK' BY <2>1 DEF Play
  <2>2. CASE Stop(c) BY <2>2 DEF Stop
  <2>3. CASE Replay(c) BY <2>3 DEF Replay
  <2>4. CASE ClearQueue(c) BY <2>4 DEF ClearQueue, Elements
  <2>5. CASE GetCurrentSong(c) BY <2>5 DEF GetCurrentSong
  <2>6. CASE AdjustVolume(c) BY <2>6 DEF AdjustVolume
  <2>7. CASE ChatStatus(c) BY <2>7 DEF ChatStatus
  <2>8. CASE ChatPlaylist(c) BY <2>8 DEF ChatPlaylist
  <2>9. CASE ChatOther(c) BY <2>9 DEF ChatOther
  <2> QED BY <1>3, <2>1, <2>2, <2>3, <2>4, <2>5, <2>6, <2>7, <2>8, <2>9 DEF Call
<1>4. ASSUME NEW c \in Controllers, Continue(c) PROVE TypeOK'
  <2>1. CASE NotifyTest(c) BY <2>1 DEF NotifyTest
  <2>2. CASE NotifyLock(c) BY <2>2 DEF NotifyLock
  <2>3. CASE NotifyWake(c)
    <3>1. c # Player OBVIOUS
    <3>2. pc' = [[pc EXCEPT ![c] = "notified"] EXCEPT ![Player] = IF pc[Player] =
        "waiting" THEN "woken" ELSE pc[Player]]
      BY <2>3, <3>1 DEF NotifyWake
    <3>3. \A t \in Threads : pc'[t] = IF t = c THEN "notified" ELSE IF t = Player /\
        pc[t] = "waiting" THEN "woken" ELSE pc[t]
      BY <3>1, <3>2
    <3> QED BY <2>3, <3>1, <3>2, <3>3 DEF NotifyWake
  <2>4. CASE Notified(c) BY <2>4 DEF Notified
  <2>5. CASE Unlock(c) BY <2>5 DEF Unlock
  <2>6. CASE StopLock(c)
    <3>1. CASE currentSong = NoSong BY <2>6, <3>1 DEF StopLock, StopCurrent
    <3>2. CASE currentSong # NoSong
      <4>1. Append(history, currentSong) \in Seq(Tracks)  OBVIOUS
      <4>2. [songPlayback EXCEPT ![currentSong] = FALSE] \in [Songs -> BOOLEAN]  OBVIOUS
      <4> QED BY <2>6, <3>2, <4>1, <4>2 DEF StopLock, StopCurrent
    <3> QED BY <3>1, <3>2
  <2>7. CASE ChatStatusSong(c) BY <2>7 DEF ChatStatusSong
  <2>8. CASE Comment(c) BY <2>8 DEF Comment
  <2>9. CASE StatusTest(c) \/ StatusSong(c) BY <2>9 DEF StatusTest, StatusSong
  <2>10. CASE ListTest(c)
      <4>1. ret[c] \in {"unlock", "comment", "idle"}  BY <2>10 DEF ListTest, ReturnInv
      <4>2. CASE idx[c] < Len(queue) BY <4>2, <2>10, SMTT(20) DEF ListTest
      <4>3. CASE ~(idx[c] < Len(queue)) BY <4>1, <4>3, <2>10 DEF ListTest
      <4> QED BY <4>2, <4>3
  <2>11. CASE ListItem(c) BY <2>11 DEF ListItem
  <2> QED BY <1>4, <2>1, <2>2, <2>3, <2>4, <2>5, <2>6, <2>7, <2>8, <2>9, <2>10, <2>11
      DEF Continue, Status
<1>5. CASE UNCHANGED vars BY <1>5 DEF vars
<1> QED BY <1>1, <1>2, <1>3, <1>4, <1>5 DEF Next, Exit

(* Mutexes: an owner is at a label that holds the mutex, and returns to unlock. *)
LEMMA MutexStep == IInv /\ [Next]_vars => MutexInv'
<1> SUFFICES ASSUME IInv, [Next]_vars PROVE MutexInv'  OBVIOUS
<1> USE PlaybackAssumption DEF Controllers, Threads, Tracks, IInv, Look, Goto, At,
    EnterStatus, shared, stack, flags, songVars, lockVars, TypeOK, StatusLabels,
    PlayerLabels, CallLabels, CrashSites, AfterCall, HoldLabels, MutexInv
<1>1. CASE Run
  <2>1. CASE RunTest BY <2>1 DEF RunTest
  <2>2. CASE RunTestPlayback BY <2>2 DEF RunTestPlayback
  <2>3. CASE RunPick BY <2>3 DEF RunPick
  <2>4. CASE RunPop BY <2>4 DEF RunPop
  <2>5. CASE RunStatus BY <2>5 DEF RunStatus
  <2>6. CASE RunTestSong BY <2>6 DEF RunTestSong
  <2>7. CASE RunSongPlay BY <2>7 DEF RunSongPlay
  <2>8. CASE RunSongEnter BY <2>8 DEF RunSongEnter
  <2>9. CASE RunSongEnd BY <2>9 DEF RunSongEnd
  <2>10. CASE RunRecord BY <2>10 DEF RunRecord
  <2>11. CASE RunIdleLock BY <2>11 DEF RunIdleLock
  <2>12. CASE RunIdleWait BY <2>12 DEF RunIdleWait
  <2>13. CASE RunWoken BY <2>13 DEF RunWoken
  <2>14. CASE StatusTest(Player) BY <2>14 DEF StatusTest
  <2>15. CASE StatusSong(Player) BY <2>15 DEF StatusSong
  <2>16. CASE ListTest(Player) BY <2>16, SMTT(20) DEF ListTest, ReturnInv
  <2>17. CASE ListItem(Player) BY <2>17 DEF ListItem
  <2> QED BY <1>1, <2>1, <2>2, <2>3, <2>4, <2>5, <2>6, <2>7, <2>8, <2>9, <2>10, <2>11,
      <2>12, <2>13, <2>14, <2>15, <2>16, <2>17 DEF Run, Status
<1>2. CASE SpuriousWake BY <1>2 DEF SpuriousWake
<1>3. ASSUME NEW c \in Controllers, Call(c) PROVE MutexInv'
  <2>1. ASSUME NEW s \in Tracks, Play(c, s) PROVE MutexInv' BY <2>1 DEF Play
  <2>2. CASE Stop(c) BY <2>2 DEF Stop
  <2>3. CASE Replay(c) BY <2>3 DEF Replay
  <2>4. CASE ClearQueue(c) BY <2>4 DEF ClearQueue
  <2>5. CASE GetCurrentSong(c) BY <2>5 DEF GetCurrentSong
  <2>6. CASE AdjustVolume(c) BY <2>6 DEF AdjustVolume
  <2>7. CASE ChatStatus(c) BY <2>7 DEF ChatStatus
  <2>8. CASE ChatPlaylist(c) BY <2>8 DEF ChatPlaylist
  <2>9. CASE ChatOther(c) BY <2>9 DEF ChatOther
  <2> QED BY <1>3, <2>1, <2>2, <2>3, <2>4, <2>5, <2>6, <2>7, <2>8, <2>9 DEF Call
<1>4. ASSUME NEW c \in Controllers, Continue(c) PROVE MutexInv'
  <2>1. CASE NotifyTest(c) BY <2>1 DEF NotifyTest
  <2>2. CASE NotifyLock(c) BY <2>2 DEF NotifyLock
  <2>3. CASE NotifyWake(c) BY <2>3, SMTT(20) DEF NotifyWake
  <2>4. CASE Notified(c) BY <2>4 DEF Notified
  <2>5. CASE Unlock(c) BY <2>5 DEF Unlock, ReturnInv
  <2>6. CASE StopLock(c) BY <2>6 DEF StopLock, ReturnInv
  <2>7. CASE ChatStatusSong(c) BY <2>7 DEF ChatStatusSong
  <2>8. CASE Comment(c) BY <2>8 DEF Comment
  <2>9. CASE StatusTest(c) BY <2>9 DEF StatusTest
  <2>10. CASE StatusSong(c) BY <2>10 DEF StatusSong
  <2>11. CASE ListTest(c) BY <2>11 DEF ListTest, ReturnInv
  <2>12. CASE ListItem(c) BY <2>12 DEF ListItem
  <2> QED BY <1>4, <2>1, <2>2, <2>3, <2>4, <2>5, <2>6, <2>7, <2>8, <2>9, <2>10, <2>11,
      <2>12 DEF Continue, Status
<1>5. CASE UNCHANGED vars BY <1>5 DEF vars, shared, stack, flags, songVars, lockVars
<1> QED BY <1>1, <1>2, <1>3, <1>4, <1>5 DEF Next, Exit

(* Return labels and loop counters are set only inside a status comment.     *)
LEMMA ReturnStep == IInv /\ [Next]_vars => ReturnInv'
<1> SUFFICES ASSUME IInv, [Next]_vars PROVE ReturnInv'  OBVIOUS
<1> USE PlaybackAssumption DEF Controllers, Threads, Tracks, IInv, Look, Goto, At,
    EnterStatus, shared, stack, flags, songVars, lockVars, TypeOK, StatusLabels,
    PlayerLabels, CallLabels, CrashSites, AfterCall, ReturnInv
<1>1. CASE Run
  <2>1. CASE RunTest BY <2>1 DEF RunTest
  <2>2. CASE RunTestPlayback BY <2>2 DEF RunTestPlayback
  <2>3. CASE RunPick BY <2>3 DEF RunPick
  <2>4. CASE RunPop BY <2>4 DEF RunPop
  <2>5. CASE RunStatus BY <2>5 DEF RunStatus
  <2>6. CASE RunTestSong BY <2>6 DEF RunTestSong
  <2>7. CASE RunSongPlay BY <2>7 DEF RunSongPlay
  <2>8. CASE RunSongEnter BY <2>8 DEF RunSongEnter
  <2>9. CASE RunSongEnd BY <2>9 DEF RunSongEnd
  <2>10. CASE RunRecord BY <2>10 DEF RunRecord
  <2>11. CASE RunIdleLock BY <2>11 DEF RunIdleLock
  <2>12. CASE RunIdleWait BY <2>12 DEF RunIdleWait
  <2>13. CASE RunWoken BY <2>13 DEF RunWoken
  <2>14. CASE StatusTest(Player) BY <2>14 DEF StatusTest
  <2>15. CASE StatusSong(Player) BY <2>15 DEF StatusSong
  <2>16. CASE ListTest(Player) BY <2>16 DEF ListTest
  <2>17. CASE ListItem(Player) BY <2>17 DEF ListItem
  <2> QED BY <1>1, <2>1, <2>2, <2>3, <2>4, <2>5, <2>6, <2>7, <2>8, <2>9, <2>10, <2>11,
      <2>12, <2>13, <2>14, <2>15, <2>16, <2>17 DEF Run, Status
<1>2. CASE SpuriousWake BY <1>2 DEF SpuriousWake
<1>3. ASSUME NEW c \in Controllers, Call(c) PROVE ReturnInv'
  <2>1. ASSUME NEW s \in Tracks, Play(c, s) PROVE ReturnInv' BY <2>1 DEF Play
  <2>2. CASE Stop(c) BY <2>2 DEF Stop
  <2>3. CASE Replay(c) BY <2>3 DEF Replay
  <2>4. CASE ClearQueue(c) BY <2>4 DEF ClearQueue
  <2>5. CASE GetCurrentSong(c) BY <2>5 DEF GetCurrentSong
  <2>6. CASE AdjustVolume(c) BY <2>6 DEF AdjustVolume
  <2>7. CASE ChatStatus(c) BY <2>7 DEF ChatStatus
  <2>8. CASE ChatPlaylist(c) BY <2>8 DEF ChatPlaylist
  <2>9. CASE ChatOther(c) BY <2>9 DEF ChatOther
  <2> QED BY <1>3, <2>1, <2>2, <2>3, <2>4, <2>5, <2>6, <2>7, <2>8, <2>9 DEF Call
<1>4. ASSUME NEW c \in Controllers, Continue(c) PROVE ReturnInv'
  <2>1. CASE NotifyTest(c) BY <2>1 DEF NotifyTest
  <2>2. CASE NotifyLock(c) BY <2>2 DEF NotifyLock
  <2>3. CASE NotifyWake(c) BY <2>3 DEF NotifyWake
  <2>4. CASE Notified(c) BY <2>4 DEF Notified
  <2>5. CASE Unlock(c) BY <2>5 DEF Unlock
  <2>6. CASE StopLock(c) BY <2>6 DEF StopLock
  <2>7. CASE ChatStatusSong(c) BY <2>7 DEF ChatStatusSong
  <2>8. CASE Comment(c) BY <2>8 DEF Comment
  <2>9. CASE StatusTest(c) BY <2>9 DEF StatusTest
  <2>10. CASE StatusSong(c) BY <2>10 DEF StatusSong
  <2>11. CASE ListTest(c) BY <2>11, SMTT(20) DEF ListTest
  <2>12. CASE ListItem(c) BY <2>12 DEF ListItem
  <2> QED BY <1>4, <2>1, <2>2, <2>3, <2>4, <2>5, <2>6, <2>7, <2>8, <2>9, <2>10, <2>11,
      <2>12 DEF Continue, Status
<1>5. CASE UNCHANGED vars BY <1>5 DEF vars, shared, stack, flags, songVars, lockVars
<1> QED BY <1>1, <1>2, <1>3, <1>4, <1>5 DEF Next, Exit

(* The Player: no current song between songs, play() only while one is run.  *)
LEMMA PlayerStep == IInv /\ [Next]_vars => PlayerInv'
<1> SUFFICES ASSUME IInv, [Next]_vars PROVE PlayerInv'  OBVIOUS
<1> USE PlaybackAssumption DEF Controllers, Threads, Tracks, IInv, Look, Goto, At,
    EnterStatus, shared, stack, flags, songVars, lockVars, TypeOK, StatusLabels,
    PlayerLabels, CallLabels, CrashSites, AfterCall, PlayerInv
<1>1. CASE Run
  <2>1. CASE RunTest BY <2>1 DEF RunTest
  <2>2. CASE RunTestPlayback BY <2>2 DEF RunTestPlayback
  <2>3. CASE RunPick BY <2>3 DEF RunPick
  <2>4. CASE RunPop BY <2>4 DEF RunPop
  <2>5. CASE RunStatus BY <2>5 DEF RunStatus
  <2>6. CASE RunTestSong BY <2>6 DEF RunTestSong
  <2>7. CASE RunSongPlay BY <2>7 DEF RunSongPlay
  <2>8. CASE RunSongEnter BY <2>8 DEF RunSongEnter
  <2>9. CASE RunSongEnd BY <2>9 DEF RunSongEnd
  <2>10. CASE RunRecord BY <2>10 DEF RunRecord
  <2>11. CASE RunIdleLock BY <2>11 DEF RunIdleLock
  <2>12. CASE RunIdleWait BY <2>12 DEF RunIdleWait
  <2>13. CASE RunWoken BY <2>13 DEF RunWoken
  <2>14. CASE StatusTest(Player) BY <2>14 DEF StatusTest
  <2>15. CASE StatusSong(Player) BY <2>15 DEF StatusSong
  <2>16. CASE ListTest(Player) BY <2>16 DEF ListTest
  <2>17. CASE ListItem(Player) BY <2>17 DEF ListItem
  <2> QED BY <1>1, <2>1, <2>2, <2>3, <2>4, <2>5, <2>6, <2>7, <2>8, <2>9, <2>10, <2>11,
      <2>12, <2>13, <2>14, <2>15, <2>16, <2>17 DEF Run, Status
<1>2. CASE SpuriousWake BY <1>2 DEF SpuriousWake
<1>3. ASSUME NEW c \in Controllers, Call(c) PROVE PlayerInv'
  <2>1. ASSUME NEW s \in Tracks, Play(c, s) PROVE PlayerInv' BY <2>1 DEF Play
  <2>2. CASE Stop(c) BY <2>2 DEF Stop
  <2>3. CASE Replay(c) BY <2>3 DEF Replay
  <2>4. CASE ClearQueue(c) BY <2>4 DEF ClearQueue
  <2>5. CASE GetCurrentSong(c) BY <2>5 DEF GetCurrentSong
  <2>6. CASE AdjustVolume(c) BY <2>6 DEF AdjustVolume
  <2>7. CASE ChatStatus(c) BY <2>7 DEF ChatStatus
  <2>8. CASE ChatPlaylist(c) BY <2>8 DEF ChatPlaylist
  <2>9. CASE ChatOther(c) BY <2>9 DEF ChatOther
  <2> QED BY <1>3, <2>1, <2>2, <2>3, <2>4, <2>5, <2>6, <2>7, <2>8, <2>9 DEF Call
<1>4. ASSUME NEW c \in Controllers, Continue(c) PROVE PlayerInv'
  <2>1. CASE NotifyTest(c) BY <2>1 DEF NotifyTest
  <2>2. CASE NotifyLock(c) BY <2>2 DEF NotifyLock
  <2>3. CASE NotifyWake(c) BY <2>3 DEF NotifyWake
  <2>4. CASE Notified(c) BY <2>4 DEF Notified
  <2>5. CASE Unlock(c) BY <2>5 DEF Unlock
  <2>6. CASE StopLock(c)
    <3>1. CASE currentSong = NoSong BY <2>6, <3>1 DEF StopLock, StopCurrent
    <3>2. CASE currentSong # NoSong BY <2>6, <3>2 DEF StopLock, StopCurrent
    <3> QED BY <3>1, <3>2
  <2>7. CASE ChatStatusSong(c) BY <2>7 DEF ChatStatusSong
  <2>8. CASE Comment(c) BY <2>8 DEF Comment
  <2>9. CASE StatusTest(c) BY <2>9 DEF StatusTest
  <2>10. CASE StatusSong(c) BY <2>10 DEF StatusSong
  <2>11. CASE ListTest(c) BY <2>11 DEF ListTest
  <2>12. CASE ListItem(c) BY <2>12 DEF ListItem
  <2> QED BY <1>4, <2>1, <2>2, <2>3, <2>4, <2>5, <2>6, <2>7, <2>8, <2>9, <2>10, <2>11,
      <2>12 DEF Continue, Status
<1>5. CASE UNCHANGED vars BY <1>5 DEF vars, shared, stack, flags, songVars, lockVars
<1> QED BY <1>1, <1>2, <1>3, <1>4, <1>5 DEF Next, Exit

(* The song on the stack stays referenced: stop moves it to the history.     *)
LEMMA SongAliveStep == IInv /\ [Next]_vars => SongAlive'
<1> SUFFICES ASSUME IInv, [Next]_vars PROVE SongAlive'  OBVIOUS
<1> USE PlaybackAssumption DEF Controllers, Threads, Tracks, IInv, Look, Goto, At,
    EnterStatus, shared, stack, flags, songVars, lockVars, TypeOK, StatusLabels,
    PlayerLabels, CallLabels, CrashSites, AfterCall, SongAlive
<1>1. CASE Run
  <2>1. CASE RunTest BY <2>1 DEF RunTest
  <2>2. CASE RunTestPlayback BY <2>2 DEF RunTestPlayback
  <2>3. CASE RunPick BY <2>3 DEF RunPick
  <2>4. CASE RunPop BY <2>4 DEF RunPop, PlayerInv
  <2>5. CASE RunStatus BY <2>5 DEF RunStatus
  <2>6. CASE RunTestSong BY <2>6 DEF RunTestSong
  <2>7. CASE RunSongPlay BY <2>7 DEF RunSongPlay
  <2>8. CASE RunSongEnter BY <2>8 DEF RunSongEnter
  <2>9. CASE RunSongEnd BY <2>9 DEF RunSongEnd
  <2>10. CASE RunRecord BY <2>10 DEF RunRecord, PlayerInv
  <2>11. CASE RunIdleLock BY <2>11 DEF RunIdleLock
  <2>12. CASE RunIdleWait BY <2>12 DEF RunIdleWait
  <2>13. CASE RunWoken BY <2>13 DEF RunWoken
  <2>14. CASE StatusTest(Player) BY <2>14 DEF StatusTest
  <2>15. CASE StatusSong(Player) BY <2>15 DEF StatusSong
  <2>16. CASE ListTest(Player) BY <2>16 DEF ListTest
  <2>17. CASE ListItem(Player) BY <2>17 DEF ListItem
  <2> QED BY <1>1, <2>1, <2>2, <2>3, <2>4, <2>5, <2>6, <2>7, <2>8, <2>9, <2>10, <2>11,
      <2>12, <2>13, <2>14, <2>15, <2>16, <2>17 DEF Run, Status
<1>2. CASE SpuriousWake BY <1>2 DEF SpuriousWake
<1>3. ASSUME NEW c \in Controllers, Call(c) PROVE SongAlive'
  <2>1. ASSUME NEW s \in Tracks, Play(c, s) PROVE SongAlive' BY <2>1 DEF Play
  <2>2. CASE Stop(c) BY <2>2 DEF Stop
  <2>3. CASE Replay(c) BY <2>3 DEF Replay
  <2>4. CASE ClearQueue(c) BY <2>4 DEF ClearQueue
  <2>5. CASE GetCurrentSong(c) BY <2>5 DEF GetCurrentSong
  <2>6. CASE AdjustVolume(c) BY <2>6 DEF AdjustVolume
  <2>7. CASE ChatStatus(c) BY <2>7 DEF ChatStatus
  <2>8. CASE ChatPlaylist(c) BY <2>8 DEF ChatPlaylist
  <2>9. CASE ChatOther(c) BY <2>9 DEF ChatOther
  <2> QED BY <1>3, <2>1, <2>2, <2>3, <2>4, <2>5, <2>6, <2>7, <2>8, <2>9 DEF Call
<1>4. ASSUME NEW c \in Controllers, Continue(c) PROVE SongAlive'
  <2>1. CASE NotifyTest(c) BY <2>1 DEF NotifyTest
  <2>2. CASE NotifyLock(c) BY <2>2 DEF NotifyLock
  <2>3. CASE NotifyWake(c) BY <2>3 DEF NotifyWake
  <2>4. CASE Notified(c) BY <2>4 DEF Notified
  <2>5. CASE Unlock(c) BY <2>5 DEF Unlock
  <2>6. CASE StopLock(c)
    <3>1. CASE currentSong = NoSong BY <2>6, <3>1 DEF StopLock, StopCurrent
    <3>2. CASE currentSong # NoSong
      <4>1. Elements(history') = Elements(history) \cup {currentSong}
        <5>1. history \in Seq(Tracks) /\ currentSong \in Tracks  OBVIOUS
        <5>2. history' = Append(history, currentSong)  BY <2>6, <3>2 DEF StopLock,
            StopCurrent
        <5> QED BY <5>1, <5>2, AppendElements
      <4> QED BY <2>6, <4>1 DEF StopLock
    <3> QED BY <3>1, <3>2
  <2>7. CASE ChatStatusSong(c) BY <2>7 DEF ChatStatusSong
  <2>8. CASE Comment(c) BY <2>8 DEF Comment
  <2>9. CASE StatusTest(c) BY <2>9 DEF StatusTest
  <2>10. CASE StatusSong(c) BY <2>10 DEF StatusSong
  <2>11. CASE ListTest(c) BY <2>11 DEF ListTest
  <2>12. CASE ListItem(c) BY <2>12 DEF ListItem
  <2> QED BY <1>4, <2>1, <2>2, <2>3, <2>4, <2>5, <2>6, <2>7, <2>8, <2>9, <2>10, <2>11,
      <2>12 DEF Continue, Status
<1>5. CASE UNCHANGED vars BY <1>5 DEF vars, shared, stack, flags, songVars, lockVars
<1> QED BY <1>1, <1>2, <1>3, <1>4, <1>5 DEF Next, Exit

(* A sleeping Player has playback = FALSE, or is about to be notified.       *)
LEMMA SleepStep == IInv /\ [Next]_vars => SleepIsHeard'
<1> SUFFICES ASSUME IInv, [Next]_vars PROVE SleepIsHeard'  OBVIOUS
<1> USE PlaybackAssumption DEF Controllers, Threads, Tracks, IInv, Look, Goto, At,
    EnterStatus, shared, stack, flags, songVars, lockVars, TypeOK, StatusLabels,
    PlayerLabels, CallLabels, CrashSites, AfterCall, SleepIsHeard
<1>1. CASE Run
  <2>1. CASE RunTest BY <2>1 DEF RunTest
  <2>2. CASE RunTestPlayback BY <2>2 DEF RunTestPlayback
  <2>3. CASE RunPick BY <2>3 DEF RunPick
  <2>4. CASE RunPop BY <2>4 DEF RunPop
  <2>5. CASE RunStatus BY <2>5 DEF RunStatus
  <2>6. CASE RunTestSong BY <2>6 DEF RunTestSong
  <2>7. CASE RunSongPlay BY <2>7 DEF RunSongPlay
  <2>8. CASE RunSongEnter BY <2>8 DEF RunSongEnter
  <2>9. CASE RunSongEnd BY <2>9 DEF RunSongEnd
  <2>10. CASE RunRecord BY <2>10 DEF RunRecord
  <2>11. CASE RunIdleLock BY <2>11 DEF RunIdleLock
  <2>12. CASE RunIdleWait BY <2>12 DEF RunIdleWait
  <2>13. CASE RunWoken BY <2>13 DEF RunWoken
  <2>14. CASE StatusTest(Player) BY <2>14 DEF StatusTest
  <2>15. CASE StatusSong(Player) BY <2>15 DEF StatusSong
  <2>16. CASE ListTest(Player) BY <2>16 DEF ListTest
  <2>17. CASE ListItem(Player) BY <2>17 DEF ListItem
  <2> QED BY <1>1, <2>1, <2>2, <2>3, <2>4, <2>5, <2>6, <2>7, <2>8, <2>9, <2>10, <2>11,
      <2>12, <2>13, <2>14, <2>15, <2>16, <2>17 DEF Run, Status
<1>2. CASE SpuriousWake BY <1>2 DEF SpuriousWake
<1>3. ASSUME NEW c \in Controllers, Call(c) PROVE SleepIsHeard'
  <2>1. ASSUME NEW s \in Tracks, Play(c, s) PROVE SleepIsHeard' BY <2>1 DEF Play
  <2>2. CASE Stop(c) BY <2>2 DEF Stop
  <2>3. CASE Replay(c) BY <2>3 DEF Replay
  <2>4. CASE ClearQueue(c) BY <2>4 DEF ClearQueue
  <2>5. CASE GetCurrentSong(c) BY <2>5 DEF GetCurrentSong
  <2>6. CASE AdjustVolume(c) BY <2>6 DEF AdjustVolume
  <2>7. CASE ChatStatus(c) BY <2>7 DEF ChatStatus
  <2>8. CASE ChatPlaylist(c) BY <2>8 DEF ChatPlaylist
  <2>9. CASE ChatOther(c) BY <2>9 DEF ChatOther
  <2> QED BY <1>3, <2>1, <2>2, <2>3, <2>4, <2>5, <2>6, <2>7, <2>8, <2>9 DEF Call
<1>4. ASSUME NEW c \in Controllers, Continue(c) PROVE SleepIsHeard'
  <2>1. CASE NotifyTest(c) BY <2>1 DEF NotifyTest
  <2>2. CASE NotifyLock(c) BY <2>2 DEF NotifyLock
  <2>3. CASE NotifyWake(c) BY <2>3 DEF NotifyWake
  <2>4. CASE Notified(c) BY <2>4 DEF Notified
  <2>5. CASE Unlock(c) BY <2>5 DEF Unlock
  <2>6. CASE StopLock(c) BY <2>6 DEF StopLock
  <2>7. CASE ChatStatusSong(c) BY <2>7 DEF ChatStatusSong
  <2>8. CASE Comment(c) BY <2>8 DEF Comment
  <2>9. CASE StatusTest(c) BY <2>9 DEF StatusTest
  <2>10. CASE StatusSong(c) BY <2>10 DEF StatusSong
  <2>11. CASE ListTest(c) BY <2>11 DEF ListTest
  <2>12. CASE ListItem(c) BY <2>12 DEF ListItem
  <2> QED BY <1>4, <2>1, <2>2, <2>3, <2>4, <2>5, <2>6, <2>7, <2>8, <2>9, <2>10, <2>11,
      <2>12 DEF Continue, Status
<1>5. CASE UNCHANGED vars BY <1>5 DEF vars, shared, stack, flags, songVars, lockVars
<1> QED BY <1>1, <1>2, <1>3, <1>4, <1>5 DEF Next, Exit

(* The loop condition holds at the pop unless the queue was cleared.         *)
LEMMA PopStep == IInv /\ [Next]_vars => PopInv'
<1> SUFFICES ASSUME IInv, [Next]_vars PROVE PopInv'  OBVIOUS
<1> USE PlaybackAssumption DEF Controllers, Threads, Tracks, IInv, Look, Goto, At,
    EnterStatus, shared, stack, flags, songVars, lockVars, TypeOK, StatusLabels,
    PlayerLabels, CallLabels, CrashSites, AfterCall, PopInv, EmptyPopNeedsClear
<1>1. CASE Run
  <2>1. CASE RunTest BY <2>1 DEF RunTest
  <2>2. CASE RunTestPlayback BY <2>2 DEF RunTestPlayback
  <2>3. CASE RunPick BY <2>3 DEF RunPick
  <2>4. CASE RunPop BY <2>4 DEF RunPop
  <2>5. CASE RunStatus BY <2>5 DEF RunStatus
  <2>6. CASE RunTestSong BY <2>6 DEF RunTestSong
  <2>7. CASE RunSongPlay BY <2>7 DEF RunSongPlay
  <2>8. CASE RunSongEnter BY <2>8 DEF RunSongEnter
  <2>9. CASE RunSongEnd BY <2>9 DEF RunSongEnd
  <2>10. CASE RunRecord BY <2>10 DEF RunRecord
  <2>11. CASE RunIdleLock BY <2>11 DEF RunIdleLock
  <2>12. CASE RunIdleWait BY <2>12 DEF RunIdleWait
  <2>13. CASE RunWoken BY <2>13 DEF RunWoken
  <2>14. CASE StatusTest(Player) BY <2>14 DEF StatusTest
  <2>15. CASE StatusSong(Player) BY <2>15 DEF StatusSong
  <2>16. CASE ListTest(Player) BY <2>16 DEF ListTest, ReturnInv
  <2>17. CASE ListItem(Player) BY <2>17 DEF ListItem
  <2> QED BY <1>1, <2>1, <2>2, <2>3, <2>4, <2>5, <2>6, <2>7, <2>8, <2>9, <2>10, <2>11,
      <2>12, <2>13, <2>14, <2>15, <2>16, <2>17 DEF Run, Status
<1>2. CASE SpuriousWake BY <1>2 DEF SpuriousWake
<1>3. ASSUME NEW c \in Controllers, Call(c) PROVE PopInv'
  <2>1. ASSUME NEW s \in Tracks, Play(c, s) PROVE PopInv' BY <2>1 DEF Play
  <2>2. CASE Stop(c) BY <2>2 DEF Stop
  <2>3. CASE Replay(c) BY <2>3 DEF Replay
  <2>4. CASE ClearQueue(c)
    <3>1. queue # <<>> => Elements(queue) \ {NoSong} # {}
      <4>1. queue # <<>> => 1 \in DOMAIN queue /\ 1 \in 1..Len(queue)  OBVIOUS
      <4>2. queue # <<>> => queue[1] # NoSong  BY <2>4, <4>1 DEF ClearQueue, ListInv,
          NoNull
      <4> QED BY <4>1, <4>2 DEF Elements
    <3> QED BY <2>4, <3>1 DEF ClearQueue
  <2>5. CASE GetCurrentSong(c) BY <2>5 DEF GetCurrentSong
  <2>6. CASE AdjustVolume(c) BY <2>6 DEF AdjustVolume
  <2>7. CASE ChatStatus(c) BY <2>7 DEF ChatStatus
  <2>8. CASE ChatPlaylist(c) BY <2>8 DEF ChatPlaylist
  <2>9. CASE ChatOther(c) BY <2>9 DEF ChatOther
  <2> QED BY <1>3, <2>1, <2>2, <2>3, <2>4, <2>5, <2>6, <2>7, <2>8, <2>9 DEF Call
<1>4. ASSUME NEW c \in Controllers, Continue(c) PROVE PopInv'
  <2>1. CASE NotifyTest(c) BY <2>1 DEF NotifyTest
  <2>2. CASE NotifyLock(c) BY <2>2 DEF NotifyLock
  <2>3. CASE NotifyWake(c) BY <2>3 DEF NotifyWake
  <2>4. CASE Notified(c) BY <2>4 DEF Notified
  <2>5. CASE Unlock(c) BY <2>5 DEF Unlock
  <2>6. CASE StopLock(c) BY <2>6 DEF StopLock
  <2>7. CASE ChatStatusSong(c) BY <2>7 DEF ChatStatusSong
  <2>8. CASE Comment(c) BY <2>8 DEF Comment
  <2>9. CASE StatusTest(c) BY <2>9 DEF StatusTest
  <2>10. CASE StatusSong(c) BY <2>10 DEF StatusSong
  <2>11. CASE ListTest(c) BY <2>11 DEF ListTest, ReturnInv
  <2>12. CASE ListItem(c) BY <2>12 DEF ListItem
  <2> QED BY <1>4, <2>1, <2>2, <2>3, <2>4, <2>5, <2>6, <2>7, <2>8, <2>9, <2>10, <2>11,
      <2>12 DEF Continue, Status
<1>5. CASE UNCHANGED vars BY <1>5 DEF vars, shared, stack, flags, songVars, lockVars
<1> QED BY <1>1, <1>2, <1>3, <1>4, <1>5 DEF Next, Exit

(* Whoever owns songsMutex finds what it tested.                             *)
LEMMA LockedStep == IInv /\ [Next]_vars => LockedStatusSafe'
<1> SUFFICES ASSUME IInv, [Next]_vars PROVE LockedStatusSafe'  OBVIOUS
<1> USE PlaybackAssumption DEF Controllers, Threads, Tracks, IInv, Look, Goto, At,
    EnterStatus, shared, stack, flags, songVars, lockVars, TypeOK, StatusLabels,
    PlayerLabels, CallLabels, CrashSites, AfterCall, LockedStatusSafe, HoldLabels,
    MutexInv
<1>1. CASE Run
  <2>1. CASE RunTest BY <2>1 DEF RunTest
  <2>2. CASE RunTestPlayback BY <2>2 DEF RunTestPlayback
  <2>3. CASE RunPick BY <2>3 DEF RunPick
  <2>4. CASE RunPop BY <2>4 DEF RunPop
  <2>5. CASE RunStatus BY <2>5 DEF RunStatus
  <2>6. CASE RunTestSong BY <2>6 DEF RunTestSong
  <2>7. CASE RunSongPlay BY <2>7 DEF RunSongPlay
  <2>8. CASE RunSongEnter BY <2>8 DEF RunSongEnter
  <2>9. CASE RunSongEnd BY <2>9 DEF RunSongEnd
  <2>10. CASE RunRecord BY <2>10 DEF RunRecord
  <2>11. CASE RunIdleLock BY <2>11 DEF RunIdleLock
  <2>12. CASE RunIdleWait BY <2>12 DEF RunIdleWait
  <2>13. CASE RunWoken BY <2>13 DEF RunWoken
  <2>14. CASE StatusTest(Player) BY <2>14 DEF StatusTest
  <2>15. CASE StatusSong(Player) BY <2>15 DEF StatusSong, ListInv
  <2>16. CASE ListTest(Player) BY <2>16 DEF ListTest
  <2>17. CASE ListItem(Player) BY <2>17 DEF ListItem, ListInv
  <2> QED BY <1>1, <2>1, <2>2, <2>3, <2>4, <2>5, <2>6, <2>7, <2>8, <2>9, <2>10, <2>11,
      <2>12, <2>13, <2>14, <2>15, <2>16, <2>17 DEF Run, Status
<1>2. CASE SpuriousWake BY <1>2 DEF SpuriousWake
<1>3. ASSUME NEW c \in Controllers, Call(c) PROVE LockedStatusSafe'
  <2>1. ASSUME NEW s \in Tracks, Play(c, s) PROVE LockedStatusSafe' BY <2>1 DEF Play
  <2>2. CASE Stop(c) BY <2>2 DEF Stop
  <2>3. CASE Replay(c) BY <2>3 DEF Replay
  <2>4. CASE ClearQueue(c) BY <2>4 DEF ClearQueue
  <2>5. CASE GetCurrentSong(c) BY <2>5 DEF GetCurrentSong
  <2>6. CASE AdjustVolume(c) BY <2>6 DEF AdjustVolume
  <2>7. CASE ChatStatus(c) BY <2>7 DEF ChatStatus
  <2>8. CASE ChatPlaylist(c) BY <2>8 DEF ChatPlaylist
  <2>9. CASE ChatOther(c) BY <2>9 DEF ChatOther
  <2> QED BY <1>3, <2>1, <2>2, <2>3, <2>4, <2>5, <2>6, <2>7, <2>8, <2>9 DEF Call
<1>4. ASSUME NEW c \in Controllers, Continue(c) PROVE LockedStatusSafe'
  <2>1. CASE NotifyTest(c) BY <2>1 DEF NotifyTest
  <2>2. CASE NotifyLock(c) BY <2>2 DEF NotifyLock
  <2>3. CASE NotifyWake(c) BY <2>3 DEF NotifyWake
  <2>4. CASE Notified(c) BY <2>4 DEF Notified
  <2>5. CASE Unlock(c) BY <2>5 DEF Unlock
  <2>6. CASE StopLock(c) BY <2>6 DEF StopLock
  <2>7. CASE ChatStatusSong(c) BY <2>7 DEF ChatStatusSong
  <2>8. CASE Comment(c) BY <2>8 DEF Comment
  <2>9. CASE StatusTest(c) BY <2>9 DEF StatusTest
  <2>10. CASE StatusSong(c) BY <2>10 DEF StatusSong, ListInv
  <2>11. CASE ListTest(c) BY <2>11 DEF ListTest
  <2>12. CASE ListItem(c) BY <2>12 DEF ListItem, ListInv
  <2> QED BY <1>4, <2>1, <2>2, <2>3, <2>4, <2>5, <2>6, <2>7, <2>8, <2>9, <2>10, <2>11,
      <2>12 DEF Continue, Status
<1>5. CASE UNCHANGED vars BY <1>5 DEF vars, shared, stack, flags, songVars, lockVars
<1> QED BY <1>1, <1>2, <1>3, <1>4, <1>5 DEF Next, Exit

(* Under the mutex the list is walked from the first song to the last.       *)
LEMMA ListStep == IInv /\ [Next]_vars => ListInv'
<1> SUFFICES ASSUME IInv, [Next]_vars PROVE ListInv'  OBVIOUS
<1> USE PlaybackAssumption DEF Controllers, Threads, Tracks, IInv, Look, Goto, At,
    EnterStatus, shared, stack, flags, songVars, lockVars, TypeOK, StatusLabels,
    PlayerLabels, CallLabels, CrashSites, AfterCall, ListInv, NoNull, HoldLabels,
    MutexInv
<1>1. CASE Run
  <2>1. CASE RunTest BY <2>1 DEF RunTest
  <2>2. CASE RunTestPlayback BY <2>2 DEF RunTestPlayback
  <2>3. CASE RunPick BY <2>3 DEF RunPick
  <2>4. CASE RunPop
    <3>1. CASE queue = <<>> BY <2>4, <3>1 DEF RunPop
    <3>2. CASE queue # <<>>
      <4>1. queue \in Seq(Tracks)  OBVIOUS
      <4>2. queue' = Tail(queue) /\ songsMutex = Free /\ songsMutex' = Free  BY <2>4,
          <3>2 DEF RunPop
      <4>3. \A i \in DOMAIN queue' : i + 1 \in DOMAIN queue /\ queue'[i] = queue[i + 1]
        BY <3>2, <4>1, <4>2, TailElements
      <4>4. \A i \in DOMAIN queue : i \in 1..Len(queue)  OBVIOUS
      <4>5. \A i \in DOMAIN queue : queue[i] # NoSong  BY <4>2, <4>4
      <4> QED BY <4>2, <4>3, <4>5
    <3> QED BY <3>1, <3>2
  <2>5. CASE RunStatus BY <2>5 DEF RunStatus
  <2>6. CASE RunTestSong BY <2>6 DEF RunTestSong
  <2>7. CASE RunSongPlay BY <2>7 DEF RunSongPlay
  <2>8. CASE RunSongEnter BY <2>8 DEF RunSongEnter
  <2>9. CASE RunSongEnd BY <2>9 DEF RunSongEnd
  <2>10. CASE RunRecord BY <2>10 DEF RunRecord
  <2>11. CASE RunIdleLock BY <2>11 DEF RunIdleLock
  <2>12. CASE RunIdleWait BY <2>12 DEF RunIdleWait
  <2>13. CASE RunWoken BY <2>13 DEF RunWoken
  <2>14. CASE StatusTest(Player) BY <2>14 DEF StatusTest, ReturnInv
  <2>15. CASE StatusSong(Player) BY <2>15 DEF StatusSong
  <2>16. CASE ListTest(Player) BY <2>16 DEF ListTest
  <2>17. CASE ListItem(Player) BY <2>17 DEF ListItem
  <2> QED BY <1>1, <2>1, <2>2, <2>3, <2>4, <2>5, <2>6, <2>7, <2>8, <2>9, <2>10, <2>11,
      <2>12, <2>13, <2>14, <2>15, <2>16, <2>17 DEF Run, Status
<1>2. CASE SpuriousWake BY <1>2 DEF SpuriousWake
<1>3. ASSUME NEW c \in Controllers, Call(c) PROVE ListInv'
  <2>1. ASSUME NEW s \in Tracks, Play(c, s) PROVE ListInv' BY <2>1 DEF Play
  <2>2. CASE Stop(c) BY <2>2 DEF Stop
  <2>3. CASE Replay(c) BY <2>3 DEF Replay
  <2>4. CASE ClearQueue(c) BY <2>4 DEF ClearQueue
  <2>5. CASE GetCurrentSong(c) BY <2>5 DEF GetCurrentSong
  <2>6. CASE AdjustVolume(c) BY <2>6 DEF AdjustVolume
  <2>7. CASE ChatStatus(c) BY <2>7 DEF ChatStatus
  <2>8. CASE ChatPlaylist(c) BY <2>8 DEF ChatPlaylist
  <2>9. CASE ChatOther(c) BY <2>9 DEF ChatOther
  <2> QED BY <1>3, <2>1, <2>2, <2>3, <2>4, <2>5, <2>6, <2>7, <2>8, <2>9 DEF Call
<1>4. ASSUME NEW c \in Controllers, Continue(c) PROVE ListInv'
  <2>1. CASE NotifyTest(c) BY <2>1 DEF NotifyTest
  <2>2. CASE NotifyLock(c) BY <2>2 DEF NotifyLock
  <2>3. CASE NotifyWake(c) BY <2>3 DEF NotifyWake
  <2>4. CASE Notified(c) BY <2>4 DEF Notified
  <2>5. CASE Unlock(c) BY <2>5 DEF Unlock
  <2>6. CASE StopLock(c) BY <2>6 DEF StopLock
  <2>7. CASE ChatStatusSong(c) BY <2>7 DEF ChatStatusSong
  <2>8. CASE Comment(c) BY <2>8 DEF Comment
  <2>9. CASE StatusTest(c) BY <2>9 DEF StatusTest, ReturnInv
  <2>10. CASE StatusSong(c)
    <3>1. idx[c] = 0  BY <2>10 DEF StatusSong, ReturnInv
    <3>2. UNCHANGED <<queue, currentSong, songsMutex, idx>>  BY <2>10 DEF StatusSong
    <3>3. \A d \in Controllers : d # c => pc'[d] = pc[d]  BY <2>10 DEF StatusSong
    <3>4. pc'[c] \in {"list", "nullCurrent"}  BY <2>10 DEF StatusSong
    <3> QED BY <3>1, <3>2, <3>3, <3>4
  <2>11. CASE ListTest(c) BY <2>11 DEF ListTest
  <2>12. CASE ListItem(c) BY <2>12 DEF ListItem
  <2> QED BY <1>4, <2>1, <2>2, <2>3, <2>4, <2>5, <2>6, <2>7, <2>8, <2>9, <2>10, <2>11,
      <2>12 DEF Continue, Status
<1>5. CASE UNCHANGED vars BY <1>5 DEF vars, shared, stack, flags, songVars, lockVars
<1> QED BY <1>1, <1>2, <1>3, <1>4, <1>5 DEF Next, Exit

(* The move of the current song to the history, in stop and in run.          *)
LEMMA MoveToHistory ==
  ASSUME TypeOK, OnceInv, history' = Append(history, currentSong), currentSong' =
      NoSong,
         UNCHANGED <<queue, cleared>>
  PROVE  OnceInv'
<1>1. /\ DOMAIN history' = 1..(Len(history) + 1)
      /\ \A i \in 1..Len(history) : history'[i] = history[i]
      /\ history'[Len(history) + 1] = currentSong
      /\ Elements(history') = Elements(history) \cup {currentSong}
  <2>1. history \in Seq(Tracks) /\ currentSong \in Tracks  BY DEF TypeOK
  <2> QED BY <2>1, AppendElements
<1> USE PlaybackAssumption DEF OnceInv, RecordedOnce, TypeOK, Tracks
<1>2. \A i, j \in DOMAIN history' :
        history'[i] = history'[j] /\ history'[i] # NoSong => i = j
  <2>1. \A i \in DOMAIN history' :
          (i \in 1..Len(history) /\ i \in DOMAIN history) \/ i = Len(history) + 1
    BY <1>1
  <2>2. \A i \in 1..Len(history) : history[i] \in Elements(history)  BY DEF Elements
  <2> QED BY <1>1, <2>1, <2>2
<1>3. Elements(history') \cap Elements(queue') \subseteq {NoSong}  BY <1>1
<1> QED BY <1>1, <1>2, <1>3

(* A song is in one place of the queue, current song, history and cleared.   *)
LEMMA OnceStep == IInv /\ [Next]_vars => OnceInv'
<1> SUFFICES ASSUME IInv, [Next]_vars PROVE OnceInv'  OBVIOUS
<1> USE PlaybackAssumption DEF Controllers, Threads, Tracks, IInv, Look, Goto, At,
    EnterStatus, shared, stack, flags, songVars, lockVars, TypeOK, StatusLabels,
    PlayerLabels, CallLabels, CrashSites, AfterCall, OnceInv, RecordedOnce
<1>1. CASE Run
  <2>1. CASE RunTest BY <2>1 DEF RunTest
  <2>2. CASE RunTestPlayback BY <2>2 DEF RunTestPlayback
  <2>3. CASE RunPick BY <2>3 DEF RunPick
  <2>4. CASE RunPop
    <3>1. CASE queue = <<>> BY <2>4, <3>1 DEF RunPop
    <3>2. CASE queue # <<>>
      <4>1. currentSong' = Head(queue) /\ queue' = Tail(queue) /\ UNCHANGED <<history,
          cleared>>
        BY <2>4, <3>2 DEF RunPop
      <4>2. /\ Head(queue) \in Tracks /\ Head(queue) = queue[1] /\ 1 \in DOMAIN queue
            /\ DOMAIN queue' \subseteq Nat \ {0}
            /\ \A i \in DOMAIN queue' : i + 1 \in DOMAIN queue /\ queue'[i] = queue[i
                + 1]
            /\ Elements(queue) = {Head(queue)} \cup Elements(queue')
        <5>1. queue \in Seq(Tracks)  OBVIOUS
        <5> QED BY <3>2, <4>1, <5>1, TailElements
      <4>3. \A i, j \in DOMAIN queue' : queue'[i] = queue'[j] /\ queue'[i] # NoSong =>
          i = j
        BY <4>2
      <4>4. Head(queue) # NoSong => Head(queue) \notin Elements(queue')
        BY <4>2 DEF Elements
      <4> QED BY <4>1, <4>2, <4>3, <4>4
    <3> QED BY <3>1, <3>2
  <2>5. CASE RunStatus BY <2>5 DEF RunStatus
  <2>6. CASE RunTestSong BY <2>6 DEF RunTestSong
  <2>7. CASE RunSongPlay BY <2>7 DEF RunSongPlay
  <2>8. CASE RunSongEnter BY <2>8 DEF RunSongEnter
  <2>9. CASE RunSongEnd BY <2>9 DEF RunSongEnd
  <2>10. CASE RunRecord BY <2>10, MoveToHistory DEF RunRecord
  <2>11. CASE RunIdleLock BY <2>11 DEF RunIdleLock
  <2>12. CASE RunIdleWait BY <2>12 DEF RunIdleWait
  <2>13. CASE RunWoken BY <2>13 DEF RunWoken
  <2>14. CASE StatusTest(Player) BY <2>14 DEF StatusTest
  <2>15. CASE StatusSong(Player) BY <2>15 DEF StatusSong
  <2>16. CASE ListTest(Player) BY <2>16 DEF ListTest
  <2>17. CASE ListItem(Player) BY <2>17 DEF ListItem
  <2> QED BY <1>1, <2>1, <2>2, <2>3, <2>4, <2>5, <2>6, <2>7, <2>8, <2>9, <2>10, <2>11,
      <2>12, <2>13, <2>14, <2>15, <2>16, <2>17 DEF Run, Status
<1>2. CASE SpuriousWake BY <1>2 DEF SpuriousWake
<1>3. ASSUME NEW c \in Controllers, Call(c) PROVE OnceInv'
  <2>1. ASSUME NEW s \in Tracks, Play(c, s) PROVE OnceInv'
    <3>1. queue' = Append(queue, s) /\ UNCHANGED <<history, currentSong, cleared>>
      BY <2>1 DEF Play
    <3>2. s = NoSong \/ s \notin Known  BY <2>1 DEF Play
    <3>3. /\ DOMAIN queue' = 1..(Len(queue) + 1)
          /\ \A i \in 1..Len(queue) : queue'[i] = queue[i] /\ i \in DOMAIN queue
          /\ queue'[Len(queue) + 1] = s
          /\ Elements(queue') = Elements(queue) \cup {s}
      BY <3>1, AppendElements
    <3>4. \A i, j \in DOMAIN queue' : queue'[i] = queue'[j] /\ queue'[i] # NoSong => i
        = j
      <4>1. \A i \in DOMAIN queue' : i \in 1..Len(queue) \/ i = Len(queue) + 1  BY <3>3
      <4>2. \A i \in 1..Len(queue) : queue[i] \in Elements(queue)  BY DEF Elements
      <4> QED BY <3>2, <3>3, <4>1, <4>2 DEF Known
    <3> QED BY <3>1, <3>2, <3>3, <3>4 DEF Known
  <2>2. CASE Stop(c) BY <2>2 DEF Stop
  <2>3. CASE Replay(c) BY <2>3 DEF Replay
  <2>4. CASE ClearQueue(c)
    <3>1. queue' = <<>> /\ cleared' = cleared \cup (Elements(queue) \ {NoSong})
          /\ UNCHANGED <<history, currentSong>>
      BY <2>4 DEF ClearQueue
    <3>2. Elements(queue') = {} /\ DOMAIN queue' = {}  BY <3>1 DEF Elements
    <3> QED BY <3>1, <3>2
  <2>5. CASE GetCurrentSong(c) BY <2>5 DEF GetCurrentSong
  <2>6. CASE AdjustVolume(c) BY <2>6 DEF AdjustVolume
  <2>7. CASE ChatStatus(c) BY <2>7 DEF ChatStatus
  <2>8. CASE ChatPlaylist(c) BY <2>8 DEF ChatPlaylist
  <2>9. CASE ChatOther(c) BY <2>9 DEF ChatOther
  <2> QED BY <1>3, <2>1, <2>2, <2>3, <2>4, <2>5, <2>6, <2>7, <2>8, <2>9 DEF Call
<1>4. ASSUME NEW c \in Controllers, Continue(c) PROVE OnceInv'
  <2>1. CASE NotifyTest(c) BY <2>1 DEF NotifyTest
  <2>2. CASE NotifyLock(c) BY <2>2 DEF NotifyLock
  <2>3. CASE NotifyWake(c) BY <2>3 DEF NotifyWake
  <2>4. CASE Notified(c) BY <2>4 DEF Notified
  <2>5. CASE Unlock(c) BY <2>5 DEF Unlock
  <2>6. CASE StopLock(c)
    <3>1. CASE currentSong = NoSong BY <2>6, <3>1 DEF StopLock, StopCurrent
    <3>2. CASE currentSong # NoSong BY <2>6, <3>2, MoveToHistory DEF StopLock,
        StopCurrent
    <3> QED BY <3>1, <3>2
  <2>7. CASE ChatStatusSong(c) BY <2>7 DEF ChatStatusSong
  <2>8. CASE Comment(c) BY <2>8 DEF Comment
  <2>9. CASE StatusTest(c) BY <2>9 DEF StatusTest
  <2>10. CASE StatusSong(c) BY <2>10 DEF StatusSong
  <2>11. CASE ListTest(c) BY <2>11 DEF ListTest
  <2>12. CASE ListItem(c) BY <2>12 DEF ListItem
  <2> QED BY <1>4, <2>1, <2>2, <2>3, <2>4, <2>5, <2>6, <2>7, <2>8, <2>9, <2>10, <2>11,
      <2>12 DEF Continue, Status
<1>5. CASE UNCHANGED vars BY <1>5 DEF vars, shared, stack, flags, songVars, lockVars
<1> QED BY <1>1, <1>2, <1>3, <1>4, <1>5 DEF Next, Exit

-----------------------------------------------------------------------------
(* The constructor establishes IInv.                                         *)
LEMMA InitInv == Init => IInv
<1> SUFFICES ASSUME Init PROVE IInv  OBVIOUS
<1> USE PlaybackAssumption DEF Init, Controllers, Threads, Tracks, Elements
<1> USE DEF StatusLabels, PlayerLabels, CallLabels, CrashSites, HoldLabels
<1>1. TypeOK
  <2>1. <<>> \in Seq(Tracks)  OBVIOUS
  <2> QED BY <2>1 DEF TypeOK
<1>2. MutexInv BY DEF MutexInv
<1>3. ReturnInv BY DEF ReturnInv
<1>4. PlayerInv /\ SongAlive BY DEF PlayerInv, SongAlive
<1>5. ListInv BY DEF ListInv, NoNull
<1>6. OnceInv BY DEF OnceInv, RecordedOnce
<1>7. PopInv BY DEF PopInv, EmptyPopNeedsClear
<1>8. SleepIsHeard /\ LockedStatusSafe BY DEF SleepIsHeard, LockedStatusSafe
<1> QED BY <1>1, <1>2, <1>3, <1>4, <1>5, <1>6, <1>7, <1>8 DEF IInv

(* IInv is an invariant of Playback.                                         *)
THEOREM Invariance == Spec => []IInv
<1>1. Init => IInv  BY InitInv
<1>2. IInv /\ [Next]_vars => IInv'
  BY TypeStep, MutexStep, ReturnStep, PlayerStep, SongAliveStep, SleepStep, PopStep,
     LockedStep, ListStep, OnceStep DEF IInv
<1> QED BY <1>1, <1>2, PTL DEF Spec

(* The types of the fields of Music and the labels of its threads.           *)
THEOREM TypeCorrect == Spec => []TypeOK
<1>1. IInv => TypeOK  BY DEF IInv
<1> QED BY <1>1, Invariance, PTL

(* The song that is decoding is never freed: Music::stop may drop it from    *)
(* currentSong at any moment, but has put it in the history by then.         *)
THEOREM PlayingSongAlive == Spec => []SongAlive
<1>1. IInv => SongAlive  BY DEF IInv
<1> QED BY <1>1, Invariance, PTL

(* A song enters the history once, although both stop and run record it.     *)
THEOREM HistoryOnce == Spec => []RecordedOnce
<1>1. IInv => RecordedOnce  BY DEF IInv, OnceInv
<1> QED BY <1>1, Invariance, PTL

(* The status comments that play and stop make under songsMutex never meet a *)
(* song or a list position that has vanished.                                *)
THEOREM LockedStatus == Spec => []LockedStatusSafe
<1>1. IInv => LockedStatusSafe  BY DEF IInv
<1> QED BY <1>1, Invariance, PTL

(* Music::run pops an empty queue only if clearQueue emptied it.             *)
THEOREM EmptyPopCause == Spec => []EmptyPopNeedsClear
<1>1. IInv => EmptyPopNeedsClear  BY DEF IInv, PopInv
<1> QED BY <1>1, Invariance, PTL

(* Every step of Music is a step of Playlist or changes none of its lists.   *)
LEMMA StepImplements ==
  IInv /\ [Next]_vars => [List!Next]_(List!lists)
<1> SUFFICES ASSUME IInv, [Next]_vars PROVE [List!Next]_(List!lists)  OBVIOUS
<1> USE DEF List!lists, Look, Goto, EnterStatus, shared, flags, songVars, stack,
    lockVars
<1>1. \A q : List!Members(q) = Elements(q)  BY DEF List!Members, Elements
<1>2. CASE RunPop
  <2>1. CASE queue = <<>>  BY <1>2, <2>1 DEF RunPop
  <2>2. CASE queue # <<>>
    <3>1. 1 \in 1..Len(queue) /\ 1 \in DOMAIN queue /\ Head(queue) = queue[1]
      <4>1. queue \in Seq(Tracks)  BY DEF IInv, TypeOK
      <4> QED BY <2>2, <4>1
    <3>2. Head(queue) # NoSong  BY <1>2, <3>1 DEF RunPop, IInv, ListInv, NoNull
    <3>3. currentSong = NoSong  BY <1>2 DEF RunPop, At, IInv, PlayerInv
    <3> QED BY <1>2, <2>2, <3>2, <3>3 DEF RunPop, List!Take, List!Next
  <2> QED BY <2>1, <2>2
<1>3. ASSUME history' = Append(history, currentSong), currentSong' = NoSong,
             UNCHANGED <<queue, cleared>>
      PROVE  [List!Next]_(List!lists)
  <2>1. history \in Seq(Tracks) /\ currentSong \in Tracks  BY DEF IInv, TypeOK
  <2>2. Elements(history') = Elements(history) \cup {currentSong}
    BY <1>3, <2>1, AppendElements
  <2> QED BY <1>3, <2>2 DEF List!Finish, List!Next
<1>4. CASE RunRecord  BY <1>3, <1>4 DEF RunRecord
<1>5. ASSUME NEW c \in Controllers, StopLock(c) PROVE [List!Next]_(List!lists)
  <2>1. CASE currentSong = NoSong  BY <1>5, <2>1 DEF StopLock, StopCurrent
  <2>2. CASE currentSong # NoSong  BY <1>3, <1>5, <2>2 DEF StopLock, StopCurrent
  <2> QED BY <2>1, <2>2
<1>6. ASSUME NEW c \in Controllers, NEW s \in Tracks, Play(c, s)
      PROVE  [List!Next]_(List!lists)
  <2>1. s = NoSong \/ s \notin List!Known
    BY <1>1, <1>6 DEF Play, Known, List!Known
  <2> QED BY <1>6, <2>1 DEF Play, Tracks, List!Accept, List!Next
<1>7. ASSUME NEW c \in Controllers, ClearQueue(c) PROVE [List!Next]_(List!lists)
  BY <1>1, <1>7 DEF ClearQueue, List!Clear, List!Next
<1>8. CASE UNCHANGED List!lists  BY <1>8
<1>9. ASSUME UNCHANGED <<currentSong, history, queue, cleared>> PROVE UNCHANGED
    List!lists
  BY <1>9
<1>10. CASE Run
  <2> USE DEF RunTest, RunTestPlayback, RunPick, RunStatus, RunTestSong, RunSongPlay,
        RunSongEnter, RunSongEnd, RunIdleLock, RunIdleWait, RunWoken, Status,
        StatusTest, StatusSong, ListTest, ListItem
  <2> QED BY <1>2, <1>4, <1>8, <1>9, <1>10 DEF Run
<1>11. CASE SpuriousWake  BY <1>11 DEF SpuriousWake
<1>12. ASSUME NEW c \in Controllers, Call(c) PROVE [List!Next]_(List!lists)
  <2> USE DEF Stop, Replay, GetCurrentSong, AdjustVolume, ChatStatus, ChatPlaylist,
      ChatOther
  <2> QED BY <1>6, <1>7, <1>8, <1>9, <1>12 DEF Call
<1>13. ASSUME NEW c \in Controllers, Continue(c) PROVE [List!Next]_(List!lists)
  <2> USE DEF NotifyTest, NotifyLock, NotifyWake, Notified, Unlock, ChatStatusSong,
        Comment, Status, StatusTest, StatusSong, ListTest, ListItem
  <2> QED BY <1>5, <1>8, <1>9, <1>13 DEF Continue
<1>14. CASE UNCHANGED vars  BY <1>9, <1>14 DEF vars
<1> QED BY <1>10, <1>11, <1>12, <1>13, <1>14 DEF Next, Exit

(* Music implements Playlist: first in first out, nothing lost, nothing      *)
(* played twice, and a null song is never taken.                             *)
THEOREM Implementation == Spec => ImplementsPlaylist
<1>1. Init => List!Init  BY DEF Init, List!Init, Elements
<1>2. IInv /\ [Next]_vars => [List!Next]_(List!lists)  BY StepImplements
<1> QED BY <1>1, <1>2, Invariance, PTL DEF Spec, ImplementsPlaylist, List!Spec

(* A sleeping Music::run is always within reach of the next notification.    *)
THEOREM SleepHeard == Spec => []SleepIsHeard
<1>1. IInv => SleepIsHeard  BY DEF IInv
<1> QED BY <1>1, Invariance, PTL
=============================================================================
