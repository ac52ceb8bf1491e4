----------------------------- MODULE SendProofs -----------------------------
(***************************************************************************)
(* For any number of sending threads, messages and pings: what SendQueue     *)
(* promises about the TCP send queue of a client.                            *)
(*                                                                          *)
(* No mutex keeps the threads apart, so the invariant has a part that holds   *)
(* however they meet (TypeInv, LifeInv) and one that holds as long as no two *)
(* have met (CalmInv, FlowInv, WriteInv, OrderInv).                          *)
(***************************************************************************)
EXTENDS SendQueue, FiniteSetTheorems, SequenceTheorems, TLAPS

InCall == {"test", "start", "front"}                  \* in SendMessage
Writing == {"start", "front", "popped", "clear"}      \* between two writes
Early == {"connected", "authenticate", "ping", "await", "decided", "asleep"}
Cleared == {"clearing", "closing", "down"}            \* after Disconnect cleared the queue
Answering == {"message", "status"}                    \* in the callback of a text message

Places == Outside \cup Faults \cup
            {"test", "start", "front", "popped", "clear", "clearing", "closing"}
Returns == {"authenticate", "ping", "await", "up", "failed", "run", "status", "idle"}
PlaceType ==
  /\ pc \in [Threads -> Places] /\ ret \in [Threads -> {"none"} \cup Outside]
  /\ \A t \in Threads : pc[t] \in Calling => ret[t] \in Returns
TypeInv == TypeOK /\ PlaceType /\ queue \in Seq(0 .. sent)

(* The threads go through the calls in their order, with state_ and the socket *)
(* to match.                                                                 *)
Course ==
  /\ Place(Main) \in {"new", "failed", "up"} \cup Early \cup Cleared
  /\ Place(Asio) \in {"run", "notify", "popped", "clear"} \cup Answering
  /\ \A t \in Senders : Place(t) = "idle"
  /\ state = "new" <=> Place(Main) \in {"new", "failed", "down"}
  /\ Place(Main) \in {"up", "clearing", "closing"} => state = "authenticated"
  /\ Place(Main) \in Early \cup {"up", "clearing"} => socket
  /\ Place(Main) \in {"new", "failed", "closing", "down"} => ~open
  /\ Place(Main) = "closing" => ~socket
  /\ Place(Main) = "new" \/ state = "handshake" => Place(Asio) \notin Answering

(* A client whose Connect has not begun, or failed, has done nothing.          *)
Unused == Place(Main) \in {"new", "failed"} \/ (Place(Main) = "down" /\ socket)
Fresh ==
  /\ timer = FALSE /\ queue = <<>> /\ handlers = <<>> /\ writing = NoWrite /\ processing = FALSE
  /\ sent = 0
  /\ Inside = {} /\ \A t \in Threads : pc[t] \notin {"comment"} \cup Answering
LifeInv == ~Faulty => Course /\ (Unused => Fresh)

CalmInv == ~raced => \A s, t \in Inside : s = t

(* Whoever is inside still has what it came for.                              *)
FlowInv ==
  (~raced /\ ~Faulty) =>
    /\ \A t \in Threads : pc[t] \in InCall => queue # <<>>
    /\ pc[Main] = "clearing" => queue = <<>>
    /\ handlers \in {<<>>, <<"ok">>, <<"error">>}
    /\ writing # NoWrite => handlers = <<>>
    /\ handlers = <<"error">> => ~open
    /\ pc[Main] = "down" => \A t \in Threads \ {Asio} : pc[t] \notin {"start", "front"}

(* Until Disconnect there is one write, handler or thread between two writes   *)
(* while processing_tcp_queue_ is set, and none otherwise; what is written is *)
(* the front of the queue.                                                   *)
WriteInv ==
  (~raced /\ ~Faulty /\ pc[Main] \notin Cleared) =>
    /\ (writing # NoWrite \/ handlers # <<>>) =>
          processing /\ queue # <<>> /\ \A t \in Threads : pc[t] \notin Writing
    /\ writing # NoWrite => Head(queue) = writing
    /\ \A t \in Threads : pc[t] \in {"front", "popped", "clear"} => processing
    /\ pc[Asio] = "clear" => queue = <<>>
    /\ processing => (writing # NoWrite \/ handlers # <<>> \/ \E t \in Threads : pc[t] \in Writing)
    /\ (open /\ queue # <<>> /\ ~processing) => \E t \in Threads : pc[t] \in {"test", "start"}

(* The queue holds, in their order, the messages that the server has not got,  *)
(* and at its front the one whose handler is due.                            *)
Acked == handlers = <<"ok">>
Ordered(q, last, pushed, acked) ==
  /\ \A i, j \in DOMAIN q : (i < j /\ q[i] # Ping /\ q[j] # Ping) => q[i] < q[j]
  /\ \A m \in last + 1 .. pushed : \E i \in DOMAIN q : q[i] = m
  /\ \A i \in DOMAIN q : q[i] = Ping \/ (q[i] > last <=> ~(i = 1 /\ acked))
OrderInv ==
  (~raced /\ ~Faulty /\ pc[Main] \notin Cleared) => Ordered(queue, delivered, sent, Acked)

SendInv ==
  /\ TypeInv /\ LifeInv /\ CalmInv /\ FlowInv /\ WriteInv /\ OrderInv
  /\ FaultNeedsRaceOrDisconnect

-----------------------------------------------------------------------------
LEMMA TheThreads ==
  /\ Main \in Threads /\ Asio \in Threads /\ Senders \subseteq Threads
  /\ Main # Asio /\ Main \notin Senders /\ Asio \notin Senders
  /\ \A t \in Threads : t = Main \/ t = Asio \/ t \in Senders
BY SendQueueAssumption DEF Threads

(* A set with two elements counts more than one.                              *)
LEMMA TwoCount ==
  ASSUME NEW S, IsFiniteSet(S), NEW s \in S, NEW t \in S, s # t
  PROVE  Cardinality(S) > 1
<1>1. Cardinality({s, t}) = 2 /\ IsFiniteSet({s, t})
  <2>1. IsFiniteSet({s}) /\ Cardinality({s}) = 1
    BY FS_Singleton
  <2>2. t \notin {s} /\ {s, t} = {s} \cup {t}
    OBVIOUS
  <2> QED BY <2>1, <2>2, FS_AddElement
<1>2. {s, t} \subseteq S
  OBVIOUS
<1>3. Cardinality({s, t}) <= Cardinality(S) /\ Cardinality(S) \in Nat
  BY <1>2, FS_Subset, FS_CardinalityType
<1> QED
  BY <1>1, <1>3

(* Inside counts right, so a step that does not set raced leaves at most one    *)
(* thread inside.                                                            *)
LEMMA CalmStep ==
  ASSUME CalmInv, [Next]_vars
  PROVE  CalmInv' /\ (raced => raced')
<1>1. CASE UNCHANGED vars
  BY <1>1 DEF vars, CalmInv, Inside
<1>2. CASE Noted
  <2>1. ASSUME ~raced', NEW s \in Inside', NEW t \in Inside', s # t
        PROVE  FALSE
    <3>1. IsFiniteSet(Threads)
      <4>1. IsFiniteSet({Main, Asio})
        <5>1. {Main, Asio} = {Main} \cup {Asio}
          OBVIOUS
        <5>2. IsFiniteSet({Main})
          BY FS_Singleton
        <5> QED BY <5>1, <5>2, FS_AddElement
      <4> QED BY <4>1, SendQueueAssumption, FS_Union DEF Threads
    <3>2. Inside' \subseteq Threads
      BY DEF Inside
    <3>3. IsFiniteSet(Inside')
      BY <3>1, <3>2, FS_Subset
    <3>4. Cardinality(Inside') > 1
      BY <2>1, <3>3, TwoCount
    <3> QED BY <1>2, <2>1, <3>4 DEF Noted
  <2> QED BY <1>2, <2>1 DEF CalmInv, Noted
<1> QED BY <1>1, <1>2 DEF Next

(* A step of one thread.                                                      *)
LEMMA GotoIs ==
  ASSUME PlaceType, NEW t \in Threads, NEW from, NEW to, Goto(t, from, to)
  PROVE  /\ ~Faulty /\ pc[t] = from /\ pc'[t] = to
         /\ \A s \in Threads : s # t => pc'[s] = pc[s]
BY DEF PlaceType, Goto, At

-----------------------------------------------------------------------------
(* Types.                                                                    *)

LEMMA TypeInit == Init => TypeInv
<1> SUFFICES ASSUME Init PROVE TypeInv
  OBVIOUS
<1>1. 0 \in Nat /\ 0 \in 0 .. 0
  OBVIOUS
<1>2. PlaceType
  BY DEF Init, PlaceType, Places, Outside, Calling
<1>3. queue \in Seq(0 .. sent) /\ queue \in Seq(Nat)
      /\ handlers \in Seq({"ok", "error"})
  BY DEF Init
<1> QED
  BY <1>1, <1>2, <1>3 DEF Init, TypeInv, TypeOK, PlaceType, Places

(* What a step does to pc and ret.                                            *)
LEMMA PlaceStep ==
  ASSUME TypeInv, [Next]_vars
  PROVE  PlaceType'
<1> USE DEF netVars, rest, Returns
<1>1. CASE UNCHANGED <<pc, ret>>
  BY <1>1 DEF TypeInv, PlaceType
<1>2. ASSUME NEW t \in Threads, NEW to \in Places, pc' = [pc EXCEPT ![t] = to],
             \/ UNCHANGED ret
             \/ \E back \in Returns : ret' = [ret EXCEPT ![t] = back],
             to \in Calling => ret'[t] \in Returns
      PROVE  PlaceType'
  BY <1>2 DEF TypeInv, PlaceType, Outside
<1>3. ASSUME NEW t \in Threads, NEW from, NEW back \in Returns, NEW m, Push(t, from, back, m)
      PROVE  PlaceType'
  <2>1. pc' = [pc EXCEPT ![t] = "test"] /\ ret' = [ret EXCEPT ![t] = back]
    BY <1>3 DEF Push, Goto
  <2>2. ret'[t] \in Returns /\ "test" \in Places
    BY <2>1 DEF TypeInv, PlaceType, Places
  <2> QED BY <1>2, <2>1, <2>2
<1>4. ASSUME NEW t \in Threads, NEW from, NEW to \in Places, Goto(t, from, to), UNCHANGED ret,
             to \in Calling => ret[t] \in Returns
      PROVE  PlaceType'
  BY <1>2, <1>4 DEF Goto
<1>5. ASSUME NEW t \in Threads, Send(t)
      PROVE  PlaceType'
  <2>1. pc[t] \in Calling /\ ret[t] \in Returns /\ UNCHANGED ret
    BY <1>5 DEF Send, Test, Start, Front, Goto, At, Calling, TypeInv, PlaceType
  <2>2. PICK to \in {"start", "front", "frontEmpty", "nullSocket", "overlap", ret[t]} :
          pc' = [pc EXCEPT ![t] = to]
    BY <1>5 DEF Send, Test, Start, Front, Goto
  <2>3. to \in Places
    BY <2>1, <2>2 DEF Places, Faults, Outside
  <2> QED BY <1>2, <2>1, <2>2, <2>3
<1>6. ASSUME NEW t \in Threads, NEW from, NEW back \in Returns, SetComment(t, from, back)
      PROVE  PlaceType'
  <2>1. CASE Goto(t, from, "comment") /\ ret' = [ret EXCEPT ![t] = back]
    <3>1. "comment" \in Places /\ ret'[t] \in Returns
      BY <2>1 DEF Places, Outside, TypeInv, PlaceType
    <3>2. pc' = [pc EXCEPT ![t] = "comment"]
      BY <2>1 DEF Goto
    <3> QED BY <1>2, <2>1, <3>1, <3>2
  <2>2. CASE Goto(t, from, "notAuthenticated") /\ UNCHANGED ret
    BY <1>4, <2>2 DEF Places, Faults, Calling
  <2> QED BY <1>6, <2>1, <2>2 DEF SetComment
<1>6a. ASSUME NEW t \in Threads, PushComment(t)
       PROVE  PlaceType'
  <2>1. ret[t] \in Returns
    BY <1>6a DEF PushComment, Push, Goto, At, Calling, TypeInv, PlaceType
  <2> QED BY <1>3, <1>6a, <2>1 DEF PushComment
<1>7. CASE WriteDone
  <2>1. CASE UNCHANGED pc
    BY <1>1, <1>7, <2>1 DEF WriteDone
  <2>2. CASE pc' = [pc EXCEPT ![Asio] = "freedBuffer"]
    BY <1>2, <1>7, <2>2, TheThreads DEF WriteDone, Places, Faults, Calling
  <2> QED BY <1>7, <2>1, <2>2 DEF WriteDone
<1>8. CASE WriteFails \/ ConnectionLost \/ HandlerError \/ TextArrives
  BY <1>1, <1>8 DEF WriteFails, ConnectionLost, HandlerError, TextArrives
<1>9. CASE HandlerPop \/ HandlerClear
  <2>1. PICK to \in {"popEmpty", "popped", "run"} :
          pc' = [pc EXCEPT ![Asio] = to] /\ UNCHANGED ret
    BY <1>9 DEF HandlerPop, HandlerClear, Goto
  <2> QED BY <1>2, <2>1, TheThreads DEF Places, Faults, Calling, Outside
<1>10. CASE HandlerTest
  <2>1. PICK to \in {"clear", "start"} : pc' = [pc EXCEPT ![Asio] = to]
    BY <1>10 DEF HandlerTest, Goto
  <2>2. ret' = [ret EXCEPT ![Asio] = "run"] /\ "run" \in Returns
    BY <1>10 DEF HandlerTest, Outside
  <2>3. ret'[Asio] \in Returns
    BY <2>2, TheThreads DEF TypeInv, PlaceType
  <2> QED BY <1>2, <2>1, <2>2, <2>3, TheThreads DEF Places
<1>11. CASE DoPing
  BY <1>3, <1>11, TheThreads DEF DoPing
<1>11a. CASE TextMessage
  <2>1. CASE Goto(Asio, "run", "message")
    BY <1>4, <1>11a, <2>1, TheThreads DEF TextMessage, Places, Outside, Calling
  <2>2. CASE UNCHANGED pc
    BY <1>1, <1>11a, <2>2 DEF TextMessage
  <2> QED BY <1>11a, <2>1, <2>2 DEF TextMessage
<1>11b. CASE Reply
  BY <1>3, <1>6, <1>11b, TheThreads DEF Reply, PushNext
<1>12. CASE ServerSync
  BY <1>4, <1>12, TheThreads DEF ServerSync, Places, Outside, Calling
<1>13. CASE SyncNotify
  <2>1. \A t \in Threads : pc'[t] \in {"run", "await", pc[t]}
    BY <1>13 DEF SyncNotify
  <2>2. pc' = [t \in Threads |-> pc'[t]] /\ UNCHANGED ret
    BY <1>13 DEF SyncNotify
  <2>3. \A t \in Threads : pc'[t] \in Calling => pc'[t] = pc[t]
    BY <2>1 DEF Calling
  <2>4. \A t \in Threads : pc'[t] \in Places
    BY <2>1 DEF TypeInv, PlaceType, Places, Outside
  <2> QED BY <2>2, <2>3, <2>4 DEF TypeInv, PlaceType
<1>14. CASE SendVersion \/ SendAuthenticate \/ FirstPing
  BY <1>3, <1>14, TheThreads DEF SendVersion, SendAuthenticate, FirstPing, PushNext, Outside
<1>15. CASE \/ AwaitTest \/ AwaitSleep \/ CloseSocket \/ Disconnected \/ Connect
            \/ Disconnect \/ DisconnectFailed
  <2>1. PICK to \in {"up", "decided", "asleep", "closing", "down", "connected", "failed", "clearing"} :
          pc' = [pc EXCEPT ![Main] = to] /\ UNCHANGED ret
    BY <1>15 DEF AwaitTest, AwaitSleep, CloseSocket, Disconnected, Connect, Disconnect,
                 DisconnectFailed, Goto
  <2> QED BY <1>2, <2>1, TheThreads DEF Places, Outside, Calling
<1>16. CASE UNCHANGED vars
  BY <1>1, <1>16 DEF vars
<1>17. ASSUME NEW t \in Threads, Comment(t)
       PROVE  PlaceType'
  BY <1>6, <1>17, TheThreads DEF Comment
<1> QED
  BY <1>5, <1>6a, <1>7, <1>8, <1>9, <1>10, <1>11, <1>11a, <1>11b, <1>12, <1>13, <1>14,
     <1>15, <1>16, <1>17
     DEF Next, Step, Handle, MainProceeds

LEMMA QueueGrows ==
  ASSUME NEW n \in Nat, NEW k \in Nat, n <= k, NEW q \in Seq(0 .. n)
  PROVE  q \in Seq(0 .. k)
<1>1. Len(q) \in Nat /\ \A i \in 1 .. Len(q) : q[i] \in 0 .. n
  BY ElementOfSeq, LenProperties
<1>2. \A i \in 1 .. Len(q) : q[i] \in 0 .. k
  BY <1>1
<1>3. q = [i \in 1 .. Len(q) |-> q[i]]
  OBVIOUS
<1> QED BY <1>1, <1>2, <1>3, IsASeq

LEMMA QueueOfNats ==
  ASSUME NEW n \in Nat, NEW q \in Seq(0 .. n)
  PROVE  q \in Seq(Nat)
<1>1. Len(q) \in Nat /\ \A i \in 1 .. Len(q) : q[i] \in 0 .. n
  BY ElementOfSeq, LenProperties
<1>2. \A i \in 1 .. Len(q) : q[i] \in Nat
  BY <1>1
<1>3. q = [i \in 1 .. Len(q) |-> q[i]]
  OBVIOUS
<1> QED BY <1>1, <1>2, <1>3, IsASeq

(* tcp_socket_ is there while state_ says so.                                  *)
Socketed == state # "new" => socket \/ pc[Main] = "closing"

LEMMA SocketStep ==
  ASSUME TypeInv, Socketed, [Next]_vars
  PROVE  Socketed'
<1> USE TheThreads DEF netVars, rest, Socketed
<1>1. ASSUME NEW t \in Threads, NEW from, NEW to, Goto(t, from, to), from # "closing"
      PROVE  pc[Main] = "closing" => pc'[Main] = "closing"
  BY <1>1, GotoIs DEF TypeInv
<1>2. ASSUME UNCHANGED <<state, socket>>, pc[Main] = "closing" => pc'[Main] = "closing"
      PROVE  Socketed'
  BY <1>2
<1>3. ASSUME NEW t \in Threads, NEW from, NEW back, NEW m, Push(t, from, back, m),
             from # "closing"
      PROVE  Socketed'
  BY <1>1, <1>2, <1>3 DEF Push
<1>4. ASSUME NEW t \in Threads, NEW from, NEW back, SetComment(t, from, back),
             from # "closing"
      PROVE  Socketed'
  BY <1>1, <1>2, <1>4 DEF SetComment
<1>5. ASSUME NEW t \in Threads, Send(t) \/ Comment(t) \/ PushComment(t)
      PROVE  Socketed'
  BY <1>1, <1>2, <1>3, <1>4, <1>5 DEF Send, Test, Start, Front, Comment, PushComment
<1>6. CASE WriteDone \/ WriteFails \/ ConnectionLost \/ HandlerError \/ TextArrives
  <2>1. UNCHANGED <<state, socket>> /\ pc'[Main] = pc[Main]
    BY <1>6 DEF WriteDone, WriteFails, ConnectionLost, HandlerError, TextArrives, TypeInv, PlaceType
  <2> QED BY <1>2, <2>1
<1>7. CASE HandlerPop \/ HandlerTest \/ HandlerClear
  BY <1>1, <1>2, <1>7 DEF HandlerPop, HandlerTest, HandlerClear
<1>8. CASE ServerSync
  BY <1>1, <1>8 DEF ServerSync
<1>9. CASE SyncNotify
  BY <1>2, <1>9 DEF SyncNotify
<1>10. CASE TextMessage
  BY <1>1, <1>2, <1>10 DEF TextMessage
<1>11. CASE Reply
  BY <1>3, <1>4, <1>11 DEF Reply, PushNext
<1>12. CASE DoPing \/ SendVersion \/ SendAuthenticate \/ FirstPing
  BY <1>3, <1>12 DEF DoPing, SendVersion, SendAuthenticate, FirstPing, PushNext
<1>13. CASE AwaitTest \/ AwaitSleep \/ Disconnect \/ DisconnectFailed
  BY <1>1, <1>2, <1>13 DEF AwaitTest, AwaitSleep, Disconnect, DisconnectFailed
<1>14. CASE Connect \/ Disconnected
  BY <1>14 DEF Connect, Disconnected
<1>15. CASE CloseSocket
  BY <1>15, GotoIs DEF CloseSocket, TypeInv
<1>16. CASE UNCHANGED vars
  BY <1>2, <1>16 DEF vars
<1> QED
  BY <1>5, <1>6, <1>7, <1>8, <1>9, <1>10, <1>11, <1>12, <1>13, <1>14, <1>15, <1>16
     DEF Next, Step, Handle, MainProceeds

LEMMA TypeStep ==
  ASSUME TypeInv, [Next]_vars
  PROVE  TypeInv'
<1> USE DEF netVars, rest
<1>1. PlaceType'
  BY PlaceStep
<1>2. /\ sent \in Nat /\ delivered \in 0 .. sent
      /\ queue \in Seq(0 .. sent) /\ handlers \in Seq({"ok", "error"})
      /\ writing \in Nat \cup {NoWrite}
      /\ state \in {"new", "handshake", "authenticated"}
      /\ open \in BOOLEAN /\ socket \in BOOLEAN /\ processing \in BOOLEAN
      /\ timer \in BOOLEAN /\ unread \in BOOLEAN
  BY DEF TypeInv, TypeOK
<1>3. queue # <<>> => Head(queue) \in 0 .. sent /\ Tail(queue) \in Seq(0 .. sent)
  BY <1>2, HeadTailProperties
<1>4. /\ handlers # <<>> => Tail(handlers) \in Seq({"ok", "error"})
      /\ Append(handlers, "ok") \in Seq({"ok", "error"})
      /\ Append(handlers, "error") \in Seq({"ok", "error"})
  BY <1>2, HeadTailProperties, AppendProperties
<1> DEFINE Data == /\ sent' \in Nat /\ delivered' \in 0 .. sent'
                   /\ queue' \in Seq(0 .. sent') /\ handlers' \in Seq({"ok", "error"})
                   /\ writing' \in Nat \cup {NoWrite}
                   /\ state' \in {"new", "handshake", "authenticated"}
                   /\ open' \in BOOLEAN /\ socket' \in BOOLEAN /\ processing' \in BOOLEAN
                   /\ timer' \in BOOLEAN /\ unread' \in BOOLEAN
<1> SUFFICES Data
  <2> SUFFICES ASSUME Data PROVE TypeInv'
    OBVIOUS
  <2>1. queue' \in Seq(Nat)
    BY QueueOfNats
  <2>2. raced' \in BOOLEAN
    BY DEF Next, Noted, TypeInv, TypeOK, vars
  <2>3. Socketed'
    BY SocketStep DEF Socketed, TypeInv, TypeOK
  <2> QED
    BY <1>1, <2>1, <2>2, <2>3 DEF TypeInv, TypeOK, PlaceType, Places, Socketed
<1>5. ASSUME NEW t, NEW from, NEW back, NEW m, Push(t, from, back, m),
             m = Ping \/ m = sent + 1, timer' \in BOOLEAN, unread' = unread
      PROVE  Data
  <2>1. sent' \in Nat /\ delivered \in 0 .. sent' /\ m \in 0 .. sent' /\ sent <= sent'
    BY <1>2, <1>5 DEF Push, Ping
  <2>2. queue \in Seq(0 .. sent')
    BY <1>2, <2>1, QueueGrows
  <2>3. Append(queue, m) \in Seq(0 .. sent')
    BY <2>1, <2>2, AppendProperties
  <2> QED BY <1>2, <1>5, <2>1, <2>3 DEF Push
<1>6. ASSUME NEW t, Send(t)
      PROVE  Data
  <2>1. writing' \in Nat \cup {NoWrite}
    <3>1. CASE queue = <<>>
      BY <1>2, <1>6, <3>1 DEF Send, Test, Start, Front
    <3>2. CASE queue # <<>>
      <4>1. Head(queue) \in Nat
        BY <1>2, <1>3, <3>2
      <4> QED BY <1>2, <1>6, <3>2, <4>1 DEF Send, Test, Start, Front
    <3> QED BY <3>1, <3>2
  <2> QED BY <1>2, <1>6, <2>1 DEF Send, Test, Start, Front
<1>7. ASSUME NEW t, NEW from, NEW back, SetComment(t, from, back)
      PROVE  Data
  BY <1>2, <1>7 DEF SetComment
<1>8. CASE WriteDone
  <2>1. CASE UNCHANGED <<writing, handlers, delivered>>
    BY <1>2, <1>8, <2>1 DEF WriteDone
  <2>2. CASE /\ queue # <<>> /\ Head(queue) = writing /\ writing' = NoWrite
             /\ delivered' = IF writing = Ping THEN delivered ELSE writing
             /\ handlers' = Append(handlers, "ok")
    BY <1>2, <1>3, <1>4, <1>8, <2>2 DEF WriteDone
  <2> QED BY <1>8, <2>1, <2>2 DEF WriteDone
<1>9. CASE WriteFails \/ ConnectionLost \/ HandlerPop \/ HandlerTest \/ HandlerClear
           \/ HandlerError \/ ServerSync \/ SyncNotify \/ TextArrives \/ TextMessage
  BY <1>2, <1>3, <1>4, <1>9
     DEF WriteFails, ConnectionLost, HandlerPop, HandlerTest, HandlerClear, HandlerError,
         ServerSync, SyncNotify, TextArrives, TextMessage
<1>10. CASE DoPing \/ SendVersion \/ SendAuthenticate \/ FirstPing
  BY <1>2, <1>5, <1>10 DEF DoPing, SendVersion, SendAuthenticate, FirstPing, PushNext
<1>11. CASE AwaitTest \/ AwaitSleep \/ Connect \/ Disconnected \/ DisconnectFailed
  BY <1>2, <1>11 DEF AwaitTest, AwaitSleep, Connect, Disconnected, DisconnectFailed
<1>12. CASE CloseSocket \/ Disconnect
  <2>1. <<>> \in Seq(0 .. sent)
    OBVIOUS
  <2> QED BY <1>2, <1>4, <1>12, <2>1 DEF CloseSocket, Disconnect
<1>13. CASE UNCHANGED vars
  BY <1>2, <1>13 DEF vars
<1>14. ASSUME NEW t, Comment(t) \/ PushComment(t)
       PROVE  Data
  BY <1>2, <1>5, <1>7, <1>14 DEF Comment, PushComment
<1>15. CASE Reply
  BY <1>2, <1>5, <1>7, <1>15 DEF Reply, PushNext
<1> QED
  BY <1>6, <1>8, <1>9, <1>10, <1>11, <1>12, <1>13, <1>14, <1>15
     DEF Next, Step, Handle, MainProceeds

-----------------------------------------------------------------------------
(* The course of the calls.                                                  *)

LEMMA NotFaulty == ASSUME Next PROVE ~Faulty
BY DEF Next, Step, Send, Test, Start, Front, Comment, SetComment, PushComment, PushNext, Push,
       WriteDone, WriteFails, ConnectionLost, Handle, HandlerPop, HandlerTest, HandlerClear,
       HandlerError, DoPing, ServerSync, SyncNotify, TextArrives, TextMessage, Reply,
       MainProceeds, SendVersion, SendAuthenticate, FirstPing, AwaitTest, AwaitSleep,
       CloseSocket, Disconnected, Connect, Disconnect, DisconnectFailed, Goto, At

LEMMA PlacePush ==
  ASSUME TypeInv, NEW t \in Threads, NEW from \in Outside, NEW back, NEW m,
         Push(t, from, back, m)
  PROVE  /\ Place(t) = IF from = "comment" THEN ret[t] ELSE from
         /\ Place(t)' = back
         /\ \A s \in Threads : s # t => Place(s)' = Place(s)
<1>1. /\ pc[t] = from /\ pc'[t] = "test" /\ ret'[t] = back
      /\ \A s \in Threads : s # t => pc'[s] = pc[s] /\ ret'[s] = ret[s]
  BY DEF TypeInv, PlaceType, Push, Goto, At
<1>2. from \in Calling <=> from = "comment"
  BY DEF Outside, Calling
<1> QED BY <1>1, <1>2 DEF Place, Calling

(* SendMessage is called within SetComment, which leaves Place alone.          *)
LEMMA PlacePushComment ==
  ASSUME TypeInv, NEW t \in Threads, PushComment(t)
  PROVE  \A s \in Threads : Place(s)' = Place(s)
<1>1. Push(t, "comment", ret[t], sent + 1)
  BY DEF PushComment
<1>2. "comment" \in Outside
  BY DEF Outside
<1> QED BY <1>1, <1>2, PlacePush

LEMMA PlaceGoto ==
  ASSUME TypeInv, NEW t \in Threads, NEW from, NEW to, Goto(t, from, to), UNCHANGED ret,
         from \notin Calling, to \notin Calling
  PROVE  /\ Place(t) = from /\ Place(t)' = to
         /\ \A s \in Threads : s # t => Place(s)' = Place(s)
BY GotoIs DEF TypeInv, Place

(* A call of SetComment that gets past the assertion.                          *)
LEMMA PlaceComment ==
  ASSUME TypeInv, NEW t \in Threads, NEW from, NEW back, SetComment(t, from, back),
         from \notin Calling, ~Faulty'
  PROVE  /\ ~Faulty /\ state = "authenticated" /\ pc[t] = from /\ pc'[t] = "comment"
         /\ Place(t) = from /\ Place(t)' = back
         /\ \A s \in Threads : s # t => Place(s)' = Place(s) /\ pc'[s] = pc[s]
         /\ UNCHANGED <<rest, netVars, queue, processing>>
<1>1. ~Goto(t, from, "notAuthenticated")
  BY GotoIs DEF TypeInv, Faulty, Faults
<1>2. state = "authenticated" /\ Goto(t, from, "comment") /\ ret' = [ret EXCEPT ![t] = back]
  BY <1>1 DEF SetComment
<1>3. /\ ~Faulty /\ pc[t] = from /\ pc'[t] = "comment" /\ ret'[t] = back
      /\ \A s \in Threads : s # t => pc'[s] = pc[s] /\ ret'[s] = ret[s]
  BY <1>2, GotoIs DEF TypeInv, PlaceType
<1> QED BY <1>2, <1>3 DEF Place, Calling, SetComment

LEMMA PlaceSend ==
  ASSUME TypeInv, NEW t \in Threads, Send(t), ~Faulty'
  PROVE  \A s \in Threads : Place(s)' = Place(s)
<1>1. UNCHANGED ret /\ pc[t] \in Calling /\ ret[t] \in Returns
  BY DEF Send, Test, Start, Front, Goto, At, Calling, TypeInv, PlaceType
<1>2. PICK to \in {"start", "front", "frontEmpty", "nullSocket", "overlap", ret[t]} :
          pc' = [pc EXCEPT ![t] = to]
  BY DEF Send, Test, Start, Front, Goto
<1>3. pc'[t] = to /\ \A s \in Threads : s # t => pc'[s] = pc[s]
  BY <1>2 DEF TypeInv, PlaceType
<1>4. to \notin Faults
  BY <1>3 DEF Faulty
<1>5. ret[t] \notin Calling
  BY <1>1 DEF Returns, Calling
<1> QED BY <1>1, <1>2, <1>3, <1>4, <1>5 DEF Place, Faults, Calling

(* The comments a thread begins by itself.                                     *)
LEMMA CommentIs ==
  ASSUME NEW t \in Threads, Comment(t)
  PROVE  /\ Room
         /\ \E from \in {"up", "failed", "idle"} :
              /\ SetComment(t, from, from)
              /\ from = "idle" =>
                   t \in Senders /\ Place(Main) \in {"up", "failed", "clearing", "closing", "down"}
              /\ from # "idle" => t = Main
BY DEF Comment

LEMMA CourseStep ==
  ASSUME TypeInv, Course, Next, ~Faulty'
  PROVE  Course'
<1> USE TheThreads DEF netVars, rest
<1>1. ASSUME \A t \in Threads : Place(t)' = Place(t), state' = state, socket' = socket,
             open' => open
      PROVE  Course'
  BY <1>1 DEF Course
<1>2. ASSUME NEW t \in Threads, Send(t)
      PROVE  Course'
  BY <1>1, <1>2, PlaceSend DEF Send, Test, Start, Front
<1>3. ASSUME NEW t \in Threads, NEW from \in Outside \ {"comment"}, NEW m, Push(t, from, from, m)
      PROVE  Course'
  <2>1. \A s \in Threads : Place(s)' = Place(s)
    BY <1>3, PlacePush
  <2> QED BY <1>1, <1>3, <2>1 DEF Push
<1>4. ASSUME NEW t \in Threads, NEW from \in Outside \ {"comment"}, SetComment(t, from, from)
      PROVE  Course'
  <2>1. from \notin Calling
    BY <1>4 DEF Calling, Outside
  <2>2. \A s \in Threads : Place(s)' = Place(s)
    BY <1>4, <2>1, PlaceComment
  <2> QED BY <1>1, <1>4, <2>2 DEF SetComment
<1>4a. ASSUME NEW t \in Threads, Comment(t) PROVE Course'
  BY <1>4, <1>4a, CommentIs DEF Outside
<1>4b. ASSUME NEW t \in Threads, PushComment(t) PROVE Course'
  <2>1. \A s \in Threads : Place(s)' = Place(s)
    BY <1>4b, PlacePushComment
  <2> QED BY <1>1, <1>4b, <2>1 DEF PushComment, Push
(* The io thread between its handlers and the callback of a text message.       *)
<1>4c. ASSUME Place(Asio)' \in {"run", "status", "message"},
              \A t \in Threads : t # Asio => Place(t)' = Place(t),
              UNCHANGED <<state, socket, open>>,
              Place(Asio)' \in Answering => Place(Asio) \in Answering \/ state = "authenticated"
       PROVE  Course'
  BY <1>4c DEF Course, Answering
<1>4d. CASE TextMessage
  <2>1. CASE state = "authenticated" /\ Goto(Asio, "run", "message")
    <3>1. Place(Asio)' = "message" /\ \A t \in Threads : t # Asio => Place(t)' = Place(t)
      BY <1>4d, <2>1, PlaceGoto DEF TextMessage, Calling
    <3> QED BY <1>4c, <1>4d, <2>1, <3>1 DEF TextMessage
  <2>2. CASE UNCHANGED pc
    <3>1. \A t \in Threads : Place(t)' = Place(t)
      BY <1>4d, <2>2 DEF TextMessage, Place
    <3> QED BY <1>1, <1>4d, <3>1 DEF TextMessage
  <2> QED BY <1>4d, <2>1, <2>2 DEF TextMessage
<1>4e. CASE Reply
  <2>1. CASE PushNext(Asio, "message", "status")
    <3>1. /\ Place(Asio) = "message" /\ Place(Asio)' = "status"
          /\ \A t \in Threads : t # Asio => Place(t)' = Place(t)
      BY <2>1, PlacePush DEF PushNext, Outside
    <3> QED BY <1>4c, <2>1, <3>1 DEF PushNext, Push, Answering
  <2>2. ASSUME NEW from \in Answering, NEW back \in {"run", "status"}, SetComment(Asio, from, back)
        PROVE  Course'
    <3>1. /\ Place(Asio)' = back /\ state = "authenticated"
          /\ \A t \in Threads : t # Asio => Place(t)' = Place(t)
      BY <2>2, PlaceComment DEF Answering, Calling
    <3> QED BY <1>4c, <2>2, <3>1 DEF SetComment
  <2> QED BY <1>4e, <2>1, <2>2 DEF Reply, Answering
<1>5. CASE WriteDone \/ WriteFails \/ ConnectionLost \/ HandlerError \/ TextArrives
  <2>1. UNCHANGED <<pc, ret, state, socket>> /\ (open' => open)
    BY <1>5 DEF WriteDone, WriteFails, ConnectionLost, HandlerError, TextArrives, TypeInv, PlaceType,
                Faulty, Faults
  <2> QED BY <1>1, <2>1 DEF Place
<1>6. CASE HandlerPop \/ HandlerClear
  <2>1. PICK from \in {"run", "clear"}, to \in {"popEmpty", "popped", "run"} :
           Goto(Asio, from, to) /\ UNCHANGED <<ret, state, socket, open>>
    BY <1>6 DEF HandlerPop, HandlerClear
  <2>2. to # "popEmpty"
    BY <2>1, GotoIs DEF TypeInv, Faulty, Faults
  <2>3. Place(Asio)' = to /\ \A t \in Threads : t # Asio => Place(t)' = Place(t)
    BY <2>1, PlaceGoto DEF Calling
  <2> QED BY <2>1, <2>2, <2>3 DEF Course, Answering
<1>7. CASE HandlerTest
  <2>1. PICK to \in {"clear", "start"} : Goto(Asio, "popped", to)
    BY <1>7 DEF HandlerTest
  <2>2. /\ pc'[Asio] = to /\ ret'[Asio] = "run"
        /\ \A t \in Threads : t # Asio => pc'[t] = pc[t] /\ ret'[t] = ret[t]
    BY <1>7, <2>1, GotoIs DEF HandlerTest, TypeInv, PlaceType
  <2>3. Place(Asio)' \in {"clear", "run"} /\ \A t \in Threads : t # Asio => Place(t)' = Place(t)
    BY <2>2 DEF Place, Calling
  <2> QED BY <1>7, <2>3 DEF HandlerTest, Course, Answering
<1>8. CASE DoPing
  BY <1>3, <1>8 DEF DoPing, Outside
<1>9. CASE ServerSync
  <2>1. Place(Asio)' = "notify" /\ \A t \in Threads : t # Asio => Place(t)' = Place(t)
    BY <1>9, PlaceGoto DEF ServerSync, Calling
  <2> QED BY <1>9, <2>1 DEF ServerSync, Course, Answering
<1>10. CASE SyncNotify
  <2>1. \A t \in Threads : pc'[t] = IF t = Asio THEN "run"
                                    ELSE IF pc[t] = "asleep" THEN "await" ELSE pc[t]
    BY <1>10 DEF SyncNotify
  <2>2. ASSUME NEW t \in Threads
        PROVE  \/ Place(t)' = Place(t) /\ t # Asio
               \/ t = Asio /\ Place(t)' = "run"
               \/ Place(t) = "asleep" /\ Place(t)' = "await"
    <3>1. CASE pc[t] \in Calling
      BY <1>10, <2>1, <3>1 DEF SyncNotify, At, Place, Calling
    <3>2. CASE pc[t] \notin Calling
      BY <1>10, <2>1, <3>2 DEF SyncNotify, Place, Calling
    <3> QED BY <3>1, <3>2
  <2> QED BY <1>10, <2>2 DEF SyncNotify, Course, Early, Cleared, Answering
<1>11. CASE SendVersion \/ SendAuthenticate \/ FirstPing
  <2>1. PICK from, back, m :
          /\ from \in {"connected", "authenticate", "ping"}
          /\ back \in {"authenticate", "ping", "await"}
          /\ Push(Main, from, back, m)
    BY <1>11 DEF SendVersion, SendAuthenticate, FirstPing, PushNext
  <2>2. Place(Main) = from /\ Place(Main)' = back
        /\ \A t \in Threads : t # Main => Place(t)' = Place(t)
    BY <2>1, PlacePush DEF Outside
  <2> QED BY <2>1, <2>2 DEF Push, Course, Early, Cleared
<1>12. ASSUME NEW from, NEW to, Goto(Main, from, to), UNCHANGED ret,
              from \notin Calling, to \notin Calling
       PROVE  /\ Place(Main) = from /\ Place(Main)' = to
              /\ \A t \in Threads : t # Main => Place(t)' = Place(t)
  BY <1>12, PlaceGoto
<1>13. CASE AwaitTest
  <2>1. PICK to \in {"up", "decided"} :
          Goto(Main, "await", to) /\ (to = "up" => state = "authenticated")
    BY <1>13 DEF AwaitTest
  <2> QED BY <1>12, <1>13, <2>1 DEF AwaitTest, Course, Early, Cleared, Calling
<1>14. CASE AwaitSleep
  BY <1>12, <1>14 DEF AwaitSleep, Course, Early, Cleared, Calling
<1>15. CASE CloseSocket
  BY <1>12, <1>15 DEF CloseSocket, Course, Early, Cleared, Calling
<1>16. CASE Disconnected
  BY <1>12, <1>16 DEF Disconnected, Course, Early, Cleared, Calling
<1>17. CASE Connect
  <2>1. CASE Goto(Main, "new", "failed") /\ UNCHANGED <<state, open>>
    BY <1>12, <1>17, <2>1 DEF Connect, Course, Early, Cleared, Calling
  <2>2. CASE Goto(Main, "new", "connected") /\ socket' = TRUE /\ state' = "handshake"
    BY <1>12, <1>17, <2>2 DEF Connect, Course, Early, Cleared, Calling
  <2> QED BY <1>17, <2>1, <2>2 DEF Connect
<1>18. CASE Disconnect
  BY <1>12, <1>18 DEF Disconnect, Course, Early, Cleared, Calling
<1>19. CASE DisconnectFailed
  BY <1>12, <1>19 DEF DisconnectFailed, Course, Early, Cleared, Calling
<1> QED
  BY <1>2, <1>4a, <1>4b, <1>4d, <1>4e, <1>5, <1>6, <1>7, <1>8, <1>9, <1>10, <1>11, <1>13, <1>14,
     <1>15, <1>16, <1>17, <1>18, <1>19
     DEF Next, Step, Handle, MainProceeds

(* Nothing but Connect happens to a client that is not used.                   *)
LEMMA FreshStep ==
  ASSUME TypeInv, Course, Unused => Fresh, Next, ~Faulty'
  PROVE  Unused' => Fresh'
<1> USE TheThreads DEF netVars, rest
<1>1. CASE Unused
  <2>1. /\ timer = FALSE /\ queue = <<>> /\ handlers = <<>> /\ writing = NoWrite
        /\ processing = FALSE /\ sent = 0 /\ Inside = {} /\ state = "new" /\ ~open
        /\ Place(Main) \in {"new", "failed", "down"}
    BY <1>1 DEF Fresh, Unused, Course
  <2>2. \A t \in Threads : pc[t] \in Outside /\ pc[t] \notin {"comment", "message", "status"}
    BY <1>1, <2>1 DEF Fresh, Inside, Answering
  <2>3. pc[Main] \in {"new", "failed", "down"}
    BY <2>1, <2>2 DEF Place, Outside, Calling
  <2>4. ASSUME NEW t \in Threads, Send(t) \/ PushComment(t) PROVE FALSE
    BY <2>2, <2>4 DEF Send, Test, Start, Front, PushComment, Push, Goto, At, Outside
  <2>5. ASSUME NEW t \in Threads, Comment(t) PROVE FALSE
    <3>1. PICK from \in {"up", "failed", "idle"} : SetComment(t, from, from)
      BY <2>5, CommentIs
    <3>2. state = "authenticated"
      BY <3>1, PlaceComment DEF Calling
    <3> QED BY <2>1, <3>2
  <2>6. ~(WriteDone \/ WriteFails \/ ConnectionLost \/ HandlerPop \/ HandlerTest
            \/ HandlerClear \/ HandlerError \/ DoPing \/ ServerSync \/ TextArrives)
    BY <2>1, <2>2 DEF WriteDone, WriteFails, ConnectionLost, HandlerPop, HandlerTest,
         HandlerClear, HandlerError, DoPing, ServerSync, TextArrives, Goto, At, Outside
  <2>7. ~(SendVersion \/ SendAuthenticate \/ FirstPing \/ AwaitTest \/ AwaitSleep
            \/ CloseSocket \/ Disconnected \/ Disconnect)
    BY <2>3 DEF SendVersion, SendAuthenticate, FirstPing, AwaitTest, AwaitSleep, CloseSocket,
         Disconnected, Disconnect, PushNext, Push, Goto, At
  <2>8. ~Reply
    BY <2>2 DEF Reply, SetComment, PushNext, Push, Goto, At
  <2> DEFINE Calm == \A t \in Threads : pc'[t] \in Outside \ ({"comment"} \cup Answering)
  <2>9. ASSUME Calm, UNCHANGED <<timer, queue, handlers, writing, processing, sent>>
        PROVE  Fresh'
    BY <2>1, <2>9 DEF Fresh, Inside
  <2>10. CASE SyncNotify
    <3>1. Calm
      BY <2>2, <2>10 DEF SyncNotify, Outside, Answering
    <3> QED BY <2>9, <2>10, <3>1 DEF SyncNotify
  <2>11. CASE TextMessage
    <3>1. UNCHANGED <<pc, timer, queue, handlers, writing, processing, sent>>
      BY <2>1, <2>11 DEF TextMessage
    <3>2. Calm
      BY <2>2, <3>1 DEF Answering
    <3> QED BY <2>9, <3>1, <3>2
  <2>12. CASE Connect \/ DisconnectFailed
    <3>1. PICK from \in {"new", "failed"}, to \in {"failed", "connected", "down"} :
            Goto(Main, from, to)
      BY <2>12 DEF Connect, DisconnectFailed
    <3>2. Calm
      BY <2>2, <3>1, GotoIs DEF TypeInv, Outside, Answering
    <3> QED BY <2>9, <2>12, <3>2 DEF Connect, DisconnectFailed
  <2> QED
    BY <2>4, <2>5, <2>6, <2>7, <2>8, <2>10, <2>11, <2>12 DEF Next, Step, Handle, MainProceeds
<1>2. CASE ~Unused
  <2>1. ASSUME Place(Main)' = Place(Main), socket' = socket PROVE ~Unused'
    BY <1>2, <2>1 DEF Unused
  <2>2. ASSUME NEW t \in Threads, Send(t) PROVE ~Unused'
    BY <2>1, <2>2, PlaceSend DEF Send, Test, Start, Front
  <2>3. ASSUME NEW t \in Threads, NEW from \in Outside, NEW back, NEW m, Push(t, from, back, m),
               t = Main => back = from /\ from # "comment"
        PROVE  ~Unused'
    <3>1. Place(Main)' = Place(Main)
      BY <2>3, PlacePush
    <3> QED BY <2>1, <2>3, <3>1 DEF Push
  <2>4. ASSUME NEW t \in Threads, NEW from, NEW back, SetComment(t, from, back),
               from \notin Calling, t = Main => back = from
        PROVE  ~Unused'
    <3>1. Place(Main)' = Place(Main) /\ socket' = socket
      BY <2>4, PlaceComment
    <3> QED BY <2>1, <3>1
  <2>4a. ASSUME NEW t \in Threads, Comment(t) \/ PushComment(t) PROVE ~Unused'
    <3>1. CASE Comment(t)
      BY <2>4, <3>1, CommentIs DEF Calling
    <3>2. CASE PushComment(t)
      BY <2>1, <3>2, PlacePushComment DEF PushComment, Push
    <3> QED BY <2>4a, <3>1, <3>2
  <2>5. CASE WriteDone \/ WriteFails \/ ConnectionLost \/ HandlerPop \/ HandlerTest
               \/ HandlerClear \/ HandlerError \/ ServerSync \/ TextArrives \/ TextMessage
    <3>1. pc'[Main] = pc[Main] /\ ret'[Main] = ret[Main] /\ socket' = socket
      BY <2>5 DEF WriteDone, WriteFails, ConnectionLost, HandlerPop, HandlerTest, HandlerClear,
           HandlerError, ServerSync, TextArrives, TextMessage, Goto, TypeInv, PlaceType
    <3> QED BY <2>1, <3>1 DEF Place
  <2>6. CASE DoPing
    BY <2>3, <2>6 DEF DoPing, Outside
  <2>6a. CASE Reply
    BY <2>3, <2>4, <2>6a DEF Reply, PushNext, Outside, Calling
  <2>7. CASE SyncNotify
    <3>1. pc'[Main] \in {pc[Main], "await"} /\ UNCHANGED <<ret, socket>>
      BY <2>7 DEF SyncNotify, At
    <3>2. pc'[Main] # pc[Main] => Place(Main)' = "await"
      BY <3>1 DEF Place, Calling
    <3> QED BY <2>1, <3>1, <3>2 DEF Unused, Place
  <2>8. CASE SendVersion \/ SendAuthenticate \/ FirstPing
    <3>1. PICK from, back, m :
            /\ from \in {"connected", "authenticate", "ping"}
            /\ back \in {"authenticate", "ping", "await"}
            /\ Push(Main, from, back, m)
      BY <2>8 DEF SendVersion, SendAuthenticate, FirstPing, PushNext
    <3>2. Place(Main)' = back
      BY <3>1, PlacePush DEF Outside
    <3> QED BY <3>1, <3>2 DEF Unused
  <2>9. ASSUME NEW from, NEW to, Goto(Main, from, to), UNCHANGED ret,
               from \notin Calling, to \notin Calling
        PROVE  Place(Main) = from /\ Place(Main)' = to
    BY <2>9, PlaceGoto
  <2>10. CASE AwaitTest
    <3>1. PICK to \in {"up", "decided"} : Goto(Main, "await", to)
      BY <2>10 DEF AwaitTest
    <3> QED BY <2>9, <2>10, <3>1 DEF AwaitTest, Calling, Unused
  <2>11. CASE AwaitSleep \/ CloseSocket \/ Disconnect
    <3>1. PICK from \in {"decided", "clearing", "up"}, to \in {"asleep", "closing", "clearing"} :
            Goto(Main, from, to) /\ UNCHANGED ret
      BY <2>11 DEF AwaitSleep, CloseSocket, Disconnect
    <3> QED BY <2>9, <3>1 DEF Calling, Unused
  <2>12. CASE Disconnected
    BY <2>9, <2>12 DEF Disconnected, Calling, Unused, Course
  <2>13. CASE Connect \/ DisconnectFailed
    <3>1. PICK from \in {"new", "failed"}, to \in {"failed", "connected", "down"} :
            Goto(Main, from, to)
      BY <2>13 DEF Connect, DisconnectFailed
    <3>2. Place(Main) = from
      BY <3>1, GotoIs DEF TypeInv, Place, Calling
    <3> QED BY <1>2, <3>2 DEF Unused
  <2> QED
    BY <2>2, <2>4a, <2>5, <2>6, <2>6a, <2>7, <2>8, <2>10, <2>11, <2>12, <2>13
       DEF Next, Step, Handle, MainProceeds
<1> QED BY <1>1, <1>2

LEMMA LifeStep ==
  ASSUME TypeInv, LifeInv, [Next]_vars
  PROVE  LifeInv'
<1>1. CASE UNCHANGED vars
  BY <1>1 DEF vars, rest, netVars, LifeInv, Faulty, Course, Unused, Fresh, Inside, Place
<1>2. CASE Next
  BY <1>2, NotFaulty, CourseStep, FreshStep DEF LifeInv
<1> QED BY <1>1, <1>2

-----------------------------------------------------------------------------
(* One thread at a time.                                                     *)

(* Between Disconnect's first step and its last one nobody else is inside, and  *)
(* where Main is says what there is to write with.                           *)
LEMMA Whereabouts ==
  ASSUME TypeInv, Course, Unused => Fresh, FlowInv, ~raced, ~Faulty,
         \A s, t \in Inside : s = t,
         NEW t \in Threads, pc[t] \notin Outside, pc[t] \notin {"clearing", "closing"}
  PROVE  /\ pc[Main] \notin {"new", "failed", "clearing", "closing"}
         /\ pc[Main] = "down" => ~socket /\ (pc[t] \in {"start", "front"} => t = Asio)
         /\ state = "new" => pc[Main] = "down"
         /\ ~socket => pc[Main] = "down"
<1> USE TheThreads
<1>1. t \in Inside /\ (Main \in Inside => pc[Main] \notin {"clearing", "closing"})
  BY DEF Inside
<1>2. pc[Main] \notin {"clearing", "closing"}
  BY <1>1 DEF Inside, Outside
<1>3. pc[Main] \in Calling => Place(Main) \in Returns
  BY DEF Place, TypeInv, PlaceType
<1>4. pc[Main] \notin Calling => Place(Main) = pc[Main]
  BY DEF Place
<1>5. ~Unused
  BY <1>1 DEF Fresh
<1>6. pc[Main] \notin {"new", "failed"} /\ (pc[Main] = "down" => ~socket)
      /\ Place(Main) \notin {"new", "failed"}
  BY <1>5 DEF Unused, Place, Calling
<1>7. pc[Main] = "down" /\ pc[t] \in {"start", "front"} => t = Asio
  BY DEF FlowInv
<1>8. state = "new" => pc[Main] = "down"
  BY <1>3, <1>4, <1>6 DEF Course, Returns
<1>9. ~socket => pc[Main] = "down"
  BY <1>2, <1>3, <1>4, <1>6 DEF Course, Returns, Cleared
<1> QED BY <1>2, <1>6, <1>7, <1>8, <1>9

LEMMA TailOfOne == \A x : Tail(<<x>>) = <<>>
OBVIOUS

LEMMA FlowStep ==
  ASSUME TypeInv, LifeInv, CalmInv, FlowInv, WriteInv, [Next]_vars
  PROVE  FlowInv'
<1> USE TheThreads DEF netVars, rest
<1>1. CASE UNCHANGED vars
  BY <1>1 DEF vars, FlowInv, Faulty, Inside
<1> SUFFICES ASSUME Next, ~raced', ~Faulty' PROVE FlowInv'
  BY <1>1 DEF FlowInv
<1>2. /\ ~raced /\ ~Faulty /\ (\A s, t \in Inside : s = t) /\ (\A s, t \in Inside' : s = t)
      /\ Course /\ (Unused => Fresh)
  BY CalmStep, NotFaulty DEF CalmInv, LifeInv
<1>3. /\ \A t \in Threads : pc[t] \in InCall => queue # <<>>
      /\ pc[Main] = "clearing" => queue = <<>>
      /\ handlers \in {<<>>, <<"ok">>, <<"error">>}
      /\ writing # NoWrite => handlers = <<>>
      /\ handlers = <<"error">> => ~open
      /\ pc[Main] = "down" => \A t \in Threads \ {Asio} : pc[t] \notin {"start", "front"}
  BY <1>2 DEF FlowInv
<1>4. \A t \in Threads : /\ t \in Inside <=> pc[t] \notin Outside
                         /\ t \in Inside' <=> pc'[t] \notin Outside
  BY DEF Inside
<1>5. \A t \in Threads : pc[t] \in InCall => t \in Inside
  BY <1>4 DEF InCall, Outside
<1>6. \A t \in Threads : pc'[t] \in InCall => t \in Inside'
  BY <1>4 DEF InCall, Outside
<1> DEFINE Goal == /\ \A t \in Threads : pc'[t] \in InCall => queue' # <<>>
                   /\ pc'[Main] = "clearing" => queue' = <<>>
                   /\ handlers' \in {<<>>, <<"ok">>, <<"error">>}
                   /\ writing' # NoWrite => handlers' = <<>>
                   /\ handlers' = <<"error">> => ~open'
                   /\ pc'[Main] = "down" =>
                        \A t \in Threads \ {Asio} : pc'[t] \notin {"start", "front"}
<1> SUFFICES Goal
  BY DEF FlowInv
<1>7. ASSUME NEW t \in Threads, NEW from, NEW back, NEW m, Push(t, from, back, m)
      PROVE  Goal
  <2>1. /\ pc'[t] = "test" /\ \A s \in Threads : s # t => pc'[s] = pc[s]
        /\ queue' = Append(queue, m) /\ UNCHANGED <<handlers, writing, open>>
    BY <1>7, GotoIs DEF Push, TypeInv
  <2>2. queue' # <<>>
    BY <2>1 DEF TypeInv
  <2>3. pc'[Main] # "clearing"
    BY <1>2, <1>4, <2>1 DEF Outside
  <2>4. pc'[Main] = "down" => \A s \in Threads \ {Asio} : pc'[s] \notin {"start", "front"}
    BY <1>3, <2>1
  <2> QED BY <1>3, <2>1, <2>2, <2>3, <2>4
<1>8. ASSUME NEW t \in Threads, Send(t) PROVE Goal
  <2>1. PICK to : Goto(t, pc[t], to) /\ to \in {"start", "front", ret[t]} \cup Faults
    BY <1>8 DEF Send, Test, Start, Front, Goto, At, Faults
  <2>2. /\ pc'[t] = to /\ \A s \in Threads : s # t => pc'[s] = pc[s]
        /\ pc[t] \in InCall /\ UNCHANGED <<queue, handlers, open>>
    BY <1>8, <2>1, GotoIs DEF TypeInv, Send, Test, Start, Front, Goto, At, InCall
  <2>3. to \in {"start", "front", ret[t]} /\ ret[t] \in Returns
    BY <2>1, <2>2 DEF Faulty, TypeInv, PlaceType, InCall, Calling
  <2>4. /\ pc[Main] \notin {"new", "clearing", "closing"}
        /\ pc[Main] = "down" => ~socket /\ (pc[t] \in {"start", "front"} => t = Asio)
    BY <1>2, <2>2, Whereabouts DEF InCall, Outside
  <2>5. pc'[Main] # "clearing" /\ (pc'[Main] = "down" => pc[Main] = "down")
    BY <2>2, <2>3, <2>4 DEF Returns
  <2>6. pc'[Main] = "down" => \A s \in Threads \ {Asio} : pc'[s] \notin {"start", "front"}
    <3> SUFFICES ASSUME pc[Main] = "down", NEW s \in Threads \ {Asio},
                        pc'[s] \in {"start", "front"}
                 PROVE  FALSE
      BY <2>5
    <3>1. s = t
      BY <1>3, <2>2
    <3>2. pc[t] = "test"
      BY <2>2, <2>4, <3>1 DEF InCall
    <3>3. Test(t)
      BY <1>8, <3>2 DEF Send, Start, Front, Goto, At
    <3>4. state = "new"
      BY <1>2 DEF Course, Place, Calling
    <3>5. pc'[t] = ret[t]
      BY <3>3, <3>4, GotoIs DEF Test, TypeInv
    <3> QED BY <2>3, <3>1, <3>5 DEF Returns
  <2>7. writing' # NoWrite => handlers = <<>>
    <3>1. CASE UNCHANGED writing
      BY <1>3, <3>1
    <3>2. CASE Front(t)
      <4>1. pc[t] = "front" /\ (~socket => pc'[t] \in Faults)
        BY <3>2, <2>2 DEF Front, Goto, At, Faults, TypeInv, PlaceType
      <4>2. socket
        BY <4>1 DEF Faulty
      <4>3. pc[Main] \notin Cleared
        BY <2>4, <4>2 DEF Cleared
      <4> QED BY <1>2, <4>1, <4>3 DEF WriteInv, Writing
    <3> QED BY <1>8, <3>1, <3>2 DEF Send, Test, Start
  <2>8. \A s \in Threads : pc'[s] \in InCall => queue' # <<>>
    BY <1>3, <2>2 DEF InCall
  <2> QED BY <1>3, <2>2, <2>5, <2>6, <2>7, <2>8
(* A thread moves outside the queue's code.                                    *)
<1>9. ASSUME UNCHANGED <<queue, handlers, writing, open>>,
             \A t \in Threads : \/ pc'[t] = pc[t]
                                \/ pc'[t] \in {"notify", "run", "await", "message", "comment"}
      PROVE  Goal
  <2>1. \A t \in Threads : pc'[t] \in InCall \cup {"clearing", "down", "start", "front"}
                             => pc'[t] = pc[t]
    BY <1>9 DEF InCall
  <2> QED BY <1>3, <1>9, <2>1
<1>9a. ASSUME NEW t \in Threads, NEW from, NEW back, SetComment(t, from, back), from \notin Calling
       PROVE  Goal
  <2>1. pc'[t] = "comment" /\ \A s \in Threads : s # t => pc'[s] = pc[s]
    BY <1>9a, PlaceComment
  <2> QED BY <1>9, <1>9a, <2>1 DEF SetComment
<1>9b. ASSUME NEW t \in Threads, Comment(t) \/ PushComment(t) PROVE Goal
  <2>1. CASE Comment(t)
    BY <1>9a, <2>1, CommentIs DEF Calling
  <2>2. CASE PushComment(t)
    BY <1>7, <2>2 DEF PushComment
  <2> QED BY <1>9b, <2>1, <2>2
<1>9c. CASE Reply
  BY <1>7, <1>9a, <1>9c DEF Reply, PushNext, Calling
<1>9d. CASE TextArrives \/ TextMessage
  <2>1. pc'[Asio] \in {pc[Asio], "message"} /\ \A t \in Threads : t # Asio => pc'[t] = pc[t]
    BY <1>9d, GotoIs DEF TextArrives, TextMessage, TypeInv
  <2> QED BY <1>9, <1>9d, <2>1 DEF TextArrives, TextMessage
<1>10. CASE WriteDone \/ WriteFails
  <2>1. /\ UNCHANGED <<pc, queue, open>> /\ writing # NoWrite /\ writing' = NoWrite
        /\ \/ handlers' = Append(handlers, "ok")
           \/ handlers' = Append(handlers, "error") /\ ~open
    BY <1>10 DEF WriteDone, WriteFails, TypeInv, PlaceType, Faulty, Faults
  <2>2. handlers' = <<"ok">> \/ (handlers' = <<"error">> /\ ~open)
    BY <1>3, <2>1
  <2> QED BY <1>3, <2>1, <2>2
<1>11. CASE ConnectionLost
  BY <1>3, <1>11 DEF ConnectionLost
<1>12. CASE HandlerPop
  <2>1. /\ pc'[Asio] = "popped" /\ \A s \in Threads : s # Asio => pc'[s] = pc[s]
        /\ handlers # <<>> /\ handlers' = Tail(handlers) /\ UNCHANGED <<writing, open>>
    BY <1>12, GotoIs DEF HandlerPop, TypeInv, Faulty, Faults
  <2>2. handlers' = <<>>
    <3>1. handlers = <<"ok">> \/ handlers = <<"error">>
      BY <1>3, <2>1
    <3>2. Tail(<<"ok">>) = <<>> /\ Tail(<<"error">>) = <<>>
      BY TailOfOne
    <3> QED BY <2>1, <3>1, <3>2, Zenon
  <2>3. Asio \in Inside'
    BY <1>4, <2>1 DEF Outside
  <2>5. /\ pc'[Main] # "clearing" /\ \A t \in Threads : pc'[t] \notin InCall
        /\ \A t \in Threads \ {Asio} : pc'[t] \notin {"start", "front"}
    BY <1>2, <1>4, <1>6, <2>1, <2>3 DEF Outside, InCall
  <2> QED BY <2>2, <2>5
<1>13. CASE HandlerTest \/ HandlerClear
  <2>1. PICK to \in {"clear", "start", "run"} :
          /\ pc'[Asio] = to /\ \A s \in Threads : s # Asio => pc'[s] = pc[s]
          /\ to = "start" => queue # <<>>
    BY <1>13, GotoIs DEF HandlerTest, HandlerClear, TypeInv
  <2>2. UNCHANGED <<queue, handlers, writing, open>>
    BY <1>13 DEF HandlerTest, HandlerClear
  <2>3. pc'[Main] = pc[Main] /\ \A t \in Threads \ {Asio} : pc'[t] = pc[t]
    BY <2>1
  <2>4. \A t \in Threads : pc'[t] \in InCall => queue # <<>>
    BY <1>3, <2>1 DEF InCall
  <2> QED BY <1>3, <2>2, <2>3, <2>4
<1>14. CASE HandlerError
  <2>1. /\ UNCHANGED <<pc, queue, writing, open>> /\ handlers # <<>>
        /\ handlers' = Tail(handlers)
    BY <1>14 DEF HandlerError
  <2>2. handlers' = <<>>
    <3>1. handlers = <<"ok">> \/ handlers = <<"error">>
      BY <1>3, <2>1
    <3>2. Tail(<<"ok">>) = <<>> /\ Tail(<<"error">>) = <<>>
      BY TailOfOne
    <3> QED BY <2>1, <3>1, <3>2, Zenon
  <2> QED BY <1>3, <2>1, <2>2
<1>15. CASE DoPing
  BY <1>7, <1>15 DEF DoPing
<1>16. CASE ServerSync \/ SyncNotify
  <2>1. \A t \in Threads : pc'[t] = pc[t] \/ pc'[t] \in {"notify", "run", "await"}
    BY <1>16, GotoIs DEF ServerSync, SyncNotify, TypeInv
  <2> QED BY <1>9, <1>16, <2>1 DEF ServerSync, SyncNotify
<1>17. CASE SendVersion \/ SendAuthenticate \/ FirstPing
  BY <1>7, <1>17 DEF SendVersion, SendAuthenticate, FirstPing, PushNext
<1>18. ASSUME NEW from, NEW to \in {"up", "decided", "asleep", "connected", "failed"}, Goto(Main, from, to),
              UNCHANGED <<queue, handlers, writing>>, open' => open \/ handlers = <<>>
       PROVE  Goal
  <2>1. pc'[Main] = to /\ \A s \in Threads : s # Main => pc'[s] = pc[s]
    BY <1>18, GotoIs DEF TypeInv
  <2> QED BY <1>3, <1>18, <2>1 DEF InCall
<1>19. CASE AwaitTest \/ AwaitSleep
  BY <1>18, <1>19 DEF AwaitTest, AwaitSleep
<1>20. CASE CloseSocket
  <2>1. /\ pc'[Main] = "closing" /\ \A s \in Threads : s # Main => pc'[s] = pc[s]
        /\ open' = FALSE /\ writing' = NoWrite /\ queue' = queue
    BY <1>20, GotoIs DEF CloseSocket, TypeInv
  <2>2. handlers' = handlers \/ handlers' = <<"error">>
    <3>1. \/ handlers' = handlers
          \/ handlers' = Append(handlers, "error") /\ writing # NoWrite
      BY <1>20 DEF CloseSocket
    <3>2. writing # NoWrite => handlers = <<>>
      BY <1>3
    <3>3. Append(<<>>, "error") = <<"error">>
      OBVIOUS
    <3> QED BY <3>1, <3>2, <3>3, Zenon
  <2> QED BY <1>3, <2>1, <2>2 DEF InCall
<1>21. ASSUME NEW from, Goto(Main, from, "down"), UNCHANGED <<queue, handlers, writing, open>>,
              \A t \in Threads \ {Main} : pc[t] \in Outside
       PROVE  Goal
  <2>1. pc'[Main] = "down" /\ \A s \in Threads : s # Main => pc'[s] = pc[s]
    BY <1>21, GotoIs DEF TypeInv
  <2>2. \A t \in Threads : pc'[t] \in Outside
    BY <1>21, <2>1 DEF Outside
  <2>3. \A t \in Threads : pc'[t] \notin InCall /\ pc'[t] \notin {"start", "front"}
    BY <2>2 DEF Outside, InCall
  <2> QED BY <1>3, <1>21, <2>1, <2>3
<1>22. CASE Disconnected
  <2>1. Main \in Inside
    BY <1>4, <1>22, GotoIs DEF Disconnected, TypeInv, Outside
  <2>2. \A t \in Threads \ {Main} : pc[t] \in Outside
    BY <1>2, <1>4, <2>1
  <2> QED BY <1>21, <1>22, <2>2 DEF Disconnected
<1>23. CASE Connect \/ DisconnectFailed
  <2>1. PICK from \in {"new", "failed"} : pc[Main] = from
    BY <1>23, GotoIs DEF Connect, DisconnectFailed, TypeInv
  <2>2. Inside = {} /\ handlers = <<>>
    BY <1>2, <2>1 DEF Unused, Fresh, Place, Calling
  <2>3. \A t \in Threads : pc[t] \in Outside
    BY <1>4, <2>2
  <2> QED BY <1>18, <1>21, <1>23, <2>2, <2>3 DEF Connect, DisconnectFailed
<1>24. CASE Disconnect
  <2>1. /\ pc'[Main] = "clearing" /\ queue' = <<>> /\ UNCHANGED <<handlers, writing, open>>
    BY <1>24, GotoIs DEF Disconnect, TypeInv
  <2>2. \A t \in Threads : pc'[t] \notin InCall
    BY <1>2, <1>4, <1>6, <2>1 DEF InCall, Outside
  <2> QED BY <1>3, <2>1, <2>2
<1> QED
  BY <1>8, <1>9b, <1>9c, <1>9d, <1>10, <1>11, <1>12, <1>13, <1>14, <1>15, <1>16, <1>17, <1>19, <1>20, <1>22,
     <1>23, <1>24 DEF Next, Step, Handle, MainProceeds

(* Nothing leads back from Disconnect.                                        *)
LEMMA ClearedStays ==
  ASSUME TypeInv, Next, pc[Main] \in Cleared
  PROVE  pc'[Main] \in Cleared
<1> USE TheThreads DEF netVars, rest, Cleared
<1>1. ASSUME NEW t \in Threads, NEW from, NEW to, Goto(t, from, to), from \notin Cleared
      PROVE  pc'[Main] = pc[Main]
  BY <1>1, GotoIs DEF TypeInv
<1>2. ASSUME NEW t \in Threads, NEW from, NEW back, NEW m, Push(t, from, back, m),
             from \notin Cleared
      PROVE  pc'[Main] = pc[Main]
  BY <1>1, <1>2 DEF Push
<1>3. ASSUME NEW t \in Threads, Send(t) PROVE pc'[Main] = pc[Main]
  BY <1>1, <1>3 DEF Send, Test, Start, Front
<1>4. ASSUME NEW t \in Threads, NEW from, NEW back, SetComment(t, from, back), from \notin Cleared
      PROVE  pc'[Main] = pc[Main]
  BY <1>1, <1>4 DEF SetComment
<1>4a. ASSUME NEW t \in Threads, Comment(t) \/ PushComment(t) PROVE pc'[Main] = pc[Main]
  BY <1>2, <1>4, <1>4a DEF Comment, PushComment
<1>4b. CASE Reply
  BY <1>2, <1>4, <1>4b DEF Reply, PushNext
<1>4c. CASE TextMessage
  BY <1>1, <1>4c DEF TextMessage
<1>5. CASE WriteDone \/ WriteFails \/ ConnectionLost \/ HandlerError \/ SyncNotify
           \/ TextArrives
  BY <1>5 DEF WriteDone, WriteFails, ConnectionLost, HandlerError, SyncNotify, TextArrives, TypeInv, PlaceType
<1>6. CASE HandlerPop \/ HandlerTest \/ HandlerClear \/ ServerSync
  BY <1>1, <1>6 DEF HandlerPop, HandlerTest, HandlerClear, ServerSync
<1>7. CASE DoPing \/ SendVersion \/ SendAuthenticate \/ FirstPing
  BY <1>2, <1>7 DEF DoPing, SendVersion, SendAuthenticate, FirstPing, PushNext
<1>8. CASE AwaitTest \/ AwaitSleep \/ Connect \/ Disconnect \/ DisconnectFailed
  BY <1>1, <1>8 DEF AwaitTest, AwaitSleep, Connect, Disconnect, DisconnectFailed
<1>9. CASE CloseSocket \/ Disconnected
  BY <1>9, GotoIs DEF CloseSocket, Disconnected, TypeInv
<1> QED
  BY <1>3, <1>4a, <1>4b, <1>4c, <1>5, <1>6, <1>7, <1>8, <1>9 DEF Next, Step, Handle, MainProceeds

LEMMA WriteStep ==
  ASSUME TypeInv, LifeInv, CalmInv, FlowInv, WriteInv, [Next]_vars
  PROVE  WriteInv'
<1> USE TheThreads DEF netVars, rest
<1>1. CASE UNCHANGED vars
  BY <1>1 DEF vars, WriteInv, Faulty
<1> SUFFICES ASSUME Next, ~raced', ~Faulty', pc'[Main] \notin Cleared PROVE WriteInv'
  BY <1>1 DEF WriteInv
<1>2. /\ ~raced /\ ~Faulty /\ (\A s, t \in Inside : s = t) /\ (\A s, t \in Inside' : s = t)
      /\ Course /\ (Unused => Fresh)
  BY CalmStep, NotFaulty DEF CalmInv, LifeInv
<1>3. /\ \A t \in Threads : pc[t] \in InCall => queue # <<>>
      /\ handlers \in {<<>>, <<"ok">>, <<"error">>}
      /\ writing # NoWrite => handlers = <<>>
      /\ handlers = <<"error">> => ~open
  BY <1>2 DEF FlowInv
<1>4. pc[Main] \notin Cleared
  BY ClearedStays
<1>5. /\ (writing # NoWrite \/ handlers # <<>>) =>
           processing /\ queue # <<>> /\ \A t \in Threads : pc[t] \notin Writing
      /\ writing # NoWrite => Head(queue) = writing
      /\ \A t \in Threads : pc[t] \in {"front", "popped", "clear"} => processing
      /\ pc[Asio] = "clear" => queue = <<>>
      /\ processing => (writing # NoWrite \/ handlers # <<>> \/ \E t \in Threads : pc[t] \in Writing)
      /\ (open /\ queue # <<>> /\ ~processing) => \E t \in Threads : pc[t] \in {"test", "start"}
  BY <1>2, <1>4 DEF WriteInv
<1>6. /\ \A s, t \in Threads : (pc[s] \notin Outside /\ pc[t] \notin Outside) => s = t
      /\ \A s, t \in Threads : (pc'[s] \notin Outside /\ pc'[t] \notin Outside) => s = t
  BY <1>2 DEF Inside
<1>7. \A label \in Writing \cup InCall : label \notin Outside
  BY DEF Writing, InCall, Outside
<1>8. Returns \subseteq Outside
  BY DEF Returns, Outside
<1> DEFINE Goal ==
      /\ (writing' # NoWrite \/ handlers' # <<>>) =>
           processing' /\ queue' # <<>> /\ \A t \in Threads : pc'[t] \notin Writing
      /\ writing' # NoWrite => Head(queue') = writing'
      /\ \A t \in Threads : pc'[t] \in {"front", "popped", "clear"} => processing'
      /\ pc'[Asio] = "clear" => queue' = <<>>
      /\ processing' =>
           (writing' # NoWrite \/ handlers' # <<>> \/ \E t \in Threads : pc'[t] \in Writing)
      /\ (open' /\ queue' # <<>> /\ ~processing') =>
           \E t \in Threads : pc'[t] \in {"test", "start"}
<1> SUFFICES Goal
  BY DEF WriteInv
<1>9. ASSUME NEW t \in Threads, NEW from \in Outside, NEW back, NEW m, Push(t, from, back, m)
      PROVE  Goal
  <2>1. /\ pc[t] = from /\ pc'[t] = "test" /\ \A s \in Threads : s # t => pc'[s] = pc[s]
        /\ queue' = Append(queue, m) /\ UNCHANGED <<handlers, writing, open, processing>>
    BY <1>9, GotoIs DEF Push, TypeInv
  <2>2. queue' # <<>> /\ (queue # <<>> => Head(queue') = Head(queue))
    <3>1. queue \in Seq(0 .. sent)
      BY DEF TypeInv
    <3> QED BY <2>1, <3>1
  <2>3. "test" \notin Writing /\ from \notin Writing
    BY <1>7, <1>9 DEF Writing
  <2>4. \A s \in Threads : (pc'[s] \in Writing \/ pc[s] \in Writing) => pc'[s] = pc[s]
    BY <2>1, <2>3
  <2>5. pc'[Asio] # "clear"
    BY <1>6, <2>1 DEF Outside
  <2>6. \A s \in Threads : pc'[s] \notin {"front", "popped", "clear"}
    BY <1>6, <2>1 DEF Outside
  <2> QED BY <1>5, <2>1, <2>2, <2>4, <2>5, <2>6
<1>10. ASSUME NEW t \in Threads, Test(t) PROVE Goal
  <2>1. /\ pc[t] = "test" /\ pc'[t] = IF state # "new" /\ ~processing THEN "start" ELSE ret[t]
        /\ \A s \in Threads : s # t => pc'[s] = pc[s]
        /\ UNCHANGED <<queue, handlers, writing, open, processing>>
    BY <1>10, GotoIs DEF Test, TypeInv
  <2>2. state # "new"
    BY <1>2, <1>4, <2>1, Whereabouts DEF Outside, Cleared
  <2>3. ret[t] \in Returns
    BY <2>1 DEF TypeInv, PlaceType, Calling
  <2>4. \A s \in Threads : s # t => pc[s] \in Outside
    BY <1>6, <2>1 DEF Outside
  <2>5. CASE processing
    <3>1. pc'[t] \in Outside
      BY <1>8, <2>1, <2>3, <2>5
    <3>2. \A s \in Threads : pc[s] \notin Writing /\ pc'[s] \notin Writing
      BY <1>7, <2>1, <2>4, <3>1 DEF Writing
    <3> QED BY <1>5, <2>1, <2>5, <3>2 DEF Writing
  <2>6. CASE ~processing
    <3>1. pc'[t] = "start" /\ handlers = <<>> /\ writing = NoWrite
      BY <1>5, <2>1, <2>2, <2>6
    <3>2. \A s \in Threads : pc'[s] \notin {"front", "popped", "clear"}
      BY <2>1, <2>4, <3>1 DEF Outside
    <3> QED BY <2>1, <2>6, <3>1, <3>2
  <2> QED BY <2>5, <2>6
<1>11. ASSUME NEW t \in Threads, Start(t) PROVE Goal
  <2>1. /\ pc[t] = "start" /\ pc'[t] = "front" /\ processing' = TRUE
        /\ \A s \in Threads : s # t => pc'[s] = pc[s]
        /\ UNCHANGED <<queue, handlers, writing, open>>
    BY <1>11, GotoIs DEF Start, TypeInv
  <2>2. handlers = <<>> /\ writing = NoWrite
    BY <1>5, <2>1 DEF Writing
  <2>3. pc'[Asio] # "clear"
    BY <1>6, <2>1 DEF Outside
  <2> QED BY <2>1, <2>2, <2>3 DEF Writing
<1>12. ASSUME NEW t \in Threads, Front(t) PROVE Goal
  <2>1. /\ pc[t] = "front" /\ queue # <<>> /\ pc'[t] \in {ret[t]} \cup Faults
        /\ \A s \in Threads : s # t => pc'[s] = pc[s]
        /\ UNCHANGED <<queue, handlers, open, processing>> /\ writing' = Head(queue)
    BY <1>3, <1>12, GotoIs DEF Front, TypeInv, InCall, Goto, At, Faults
  <2>2. pc'[t] \in Outside
    BY <1>8, <2>1 DEF Faulty, TypeInv, PlaceType, Calling
  <2>3. processing
    BY <1>5, <2>1
  <2>4. \A s \in Threads : pc'[s] \in Outside
    BY <1>6, <2>1, <2>2 DEF Outside
  <2>5. \A s \in Threads : pc'[s] \notin Writing /\ pc'[s] \notin {"front", "popped", "clear"}
    BY <2>4 DEF Writing, Outside
  <2>6. writing' # NoWrite
    <3>1. Head(queue) \in 0 .. sent
      BY <2>1, HeadTailProperties DEF TypeInv
    <3>2. sent \in Nat
      BY DEF TypeInv, TypeOK
    <3> QED BY <2>1, <3>1, <3>2 DEF NoWrite
  <2> QED BY <2>1, <2>3, <2>5, <2>6
<1>13. ASSUME UNCHANGED <<queue, handlers, writing, processing>>, open' => open,
              \A t \in Threads : pc'[t] = pc[t] \/ (pc[t] \in Outside /\ pc'[t] \in Outside)
       PROVE  Goal
  <2>1. \A t \in Threads, label \in Writing \cup {"test"} : pc'[t] = label <=> pc[t] = label
    BY <1>7, <1>13 DEF InCall
  <2> QED BY <1>5, <1>13, <2>1 DEF Writing
<1>13a. ASSUME NEW t \in Threads, NEW from \in Outside, NEW back, SetComment(t, from, back),
               from \notin Calling
        PROVE  Goal
  <2>1. pc[t] = from /\ pc'[t] = "comment" /\ \A s \in Threads : s # t => pc'[s] = pc[s]
    BY <1>13a, PlaceComment
  <2> QED BY <1>13, <1>13a, <2>1 DEF SetComment, Outside
<1>13b. ASSUME NEW t \in Threads, Comment(t) \/ PushComment(t) PROVE Goal
  <2>1. CASE Comment(t)
    BY <1>13a, <2>1, CommentIs DEF Calling, Outside
  <2>2. CASE PushComment(t)
    BY <1>9, <2>2 DEF PushComment, Outside
  <2> QED BY <1>13b, <2>1, <2>2
<1>13c. CASE Reply
  BY <1>9, <1>13a, <1>13c DEF Reply, PushNext, Calling, Outside
<1>13d. CASE TextArrives \/ TextMessage
  <2>1. \A t \in Threads : pc'[t] = pc[t] \/ (pc[t] \in Outside /\ pc'[t] \in Outside)
    BY <1>13d, GotoIs DEF TextArrives, TextMessage, TypeInv, Outside
  <2> QED BY <1>13, <1>13d, <2>1 DEF TextArrives, TextMessage
<1>14. CASE WriteDone \/ WriteFails
  <2>1. /\ UNCHANGED <<pc, queue, processing>> /\ writing # NoWrite /\ writing' = NoWrite
        /\ handlers' # <<>>
    <3>1. Append(handlers, "ok") # <<>> /\ Append(handlers, "error") # <<>>
      BY AppendProperties DEF TypeInv, TypeOK
    <3> QED BY <1>14, <3>1 DEF WriteDone, WriteFails, TypeInv, PlaceType, Faulty, Faults
  <2> QED BY <1>5, <2>1
<1>15. CASE ConnectionLost
  BY <1>5, <1>15 DEF ConnectionLost
<1>16. CASE HandlerPop
  <2>1. /\ pc[Asio] = "run" /\ pc'[Asio] = "popped" /\ handlers # <<>> /\ handlers' = Tail(handlers)
        /\ \A s \in Threads : s # Asio => pc'[s] = pc[s]
        /\ UNCHANGED <<writing, open, processing>>
    BY <1>16, GotoIs DEF HandlerPop, TypeInv, Faulty, Faults
  <2>2. handlers' = <<>>
    <3>1. handlers = <<"ok">> \/ handlers = <<"error">>
      BY <1>3, <2>1
    <3>2. Tail(<<"ok">>) = <<>> /\ Tail(<<"error">>) = <<>>
      BY TailOfOne
    <3> QED BY <2>1, <3>1, <3>2, Zenon
  <2> QED BY <1>3, <1>5, <2>1, <2>2 DEF Writing
<1>17. CASE HandlerTest
  <2>1. /\ pc[Asio] = "popped" /\ pc'[Asio] = IF queue = <<>> THEN "clear" ELSE "start"
        /\ \A s \in Threads : s # Asio => pc'[s] = pc[s]
        /\ UNCHANGED <<handlers, queue, writing, open, processing>>
    BY <1>17, GotoIs DEF HandlerTest, TypeInv
  <2>2. processing /\ handlers = <<>> /\ writing = NoWrite
    BY <1>5, <2>1 DEF Writing
  <2> QED BY <2>1, <2>2 DEF Writing
<1>18. CASE HandlerClear
  <2>1. /\ pc[Asio] = "clear" /\ pc'[Asio] = "run" /\ processing' = FALSE
        /\ \A s \in Threads : s # Asio => pc'[s] = pc[s]
        /\ UNCHANGED <<handlers, queue, writing, open>>
    BY <1>18, GotoIs DEF HandlerClear, TypeInv
  <2>2. queue = <<>> /\ handlers = <<>> /\ writing = NoWrite
    BY <1>5, <2>1 DEF Writing
  <2>3. \A s \in Threads : pc'[s] \notin {"front", "popped", "clear"}
    BY <1>6, <2>1 DEF Outside
  <2> QED BY <2>1, <2>2, <2>3
<1>19. CASE HandlerError
  <2>1. /\ UNCHANGED <<pc, queue, writing, open>> /\ handlers # <<>> /\ Head(handlers) = "error"
        /\ handlers' = Tail(handlers) /\ processing' = FALSE
    BY <1>19 DEF HandlerError
  <2>2. handlers = <<"error">>
    <3>1. Head(<<"ok">>) = "ok"
      OBVIOUS
    <3> QED BY <1>3, <2>1, <3>1
  <2>3. handlers' = <<>> /\ ~open /\ writing = NoWrite
    BY <1>3, <2>1, <2>2, TailOfOne
  <2>4. \A t \in Threads : pc[t] \notin {"front", "popped", "clear"}
    BY <1>5, <2>1 DEF Writing
  <2> QED BY <2>1, <2>3, <2>4
<1>20. CASE DoPing
  BY <1>9, <1>20 DEF DoPing, Outside
<1>22. CASE ServerSync \/ SyncNotify
  BY <1>13, <1>22, GotoIs DEF ServerSync, SyncNotify, At, TypeInv, Outside
<1>23. CASE SendVersion \/ SendAuthenticate \/ FirstPing
  BY <1>9, <1>23 DEF SendVersion, SendAuthenticate, FirstPing, PushNext, Outside
<1>24. CASE AwaitTest \/ AwaitSleep
  <2>1. PICK from \in Outside, to \in Outside : Goto(Main, from, to)
    BY <1>24 DEF AwaitTest, AwaitSleep, Outside
  <2> QED BY <1>13, <1>24, <2>1, GotoIs DEF AwaitTest, AwaitSleep, TypeInv
<1>25. CASE CloseSocket \/ Disconnected \/ Disconnect
  BY <1>4, <1>25, GotoIs DEF CloseSocket, Disconnected, Disconnect, TypeInv, Cleared
<1>26. CASE Connect \/ DisconnectFailed
  <2>1. pc[Main] \in {"new", "failed"} /\ UNCHANGED <<queue, handlers, writing, processing>>
    BY <1>26, GotoIs DEF Connect, DisconnectFailed, TypeInv
  <2>2. queue = <<>> /\ handlers = <<>> /\ writing = NoWrite /\ processing = FALSE /\ Inside = {}
    BY <1>2, <2>1 DEF Unused, Fresh, Place, Calling
  <2>3. \A t \in Threads : pc[t] \in Outside
    BY <2>2 DEF Inside
  <2>4. \A t \in Threads : pc'[t] \in Outside
    <3>1. PICK from \in {"new", "failed"}, to \in Outside : Goto(Main, from, to)
      BY <1>26 DEF Connect, DisconnectFailed, Outside
    <3> QED BY <2>3, <3>1, GotoIs DEF TypeInv
  <2>5. \A t \in Threads : pc'[t] \notin {"front", "popped", "clear"}
    BY <2>4 DEF Outside
  <2> QED BY <2>1, <2>2, <2>5
<1> QED
  BY <1>10, <1>11, <1>12, <1>13b, <1>13c, <1>13d, <1>14, <1>15, <1>16, <1>17, <1>18, <1>19, <1>20, <1>22, <1>23,
     <1>24, <1>25, <1>26 DEF Next, Step, Send, Handle, MainProceeds

-----------------------------------------------------------------------------
(* What the queue holds.                                                     *)

(* A message that is written is the next one.                                 *)
LEMMA HeadIsNext ==
  ASSUME TypeInv, Ordered(queue, delivered, sent, FALSE), queue # <<>>, Head(queue) # Ping
  PROVE  Head(queue) = delivered + 1
<1>1. /\ Len(queue) \in Nat /\ DOMAIN queue = 1 .. Len(queue) /\ 1 \in DOMAIN queue
      /\ Head(queue) = queue[1] /\ \A i \in DOMAIN queue : queue[i] \in 0 .. sent
      /\ delivered \in Nat /\ sent \in Nat
  BY LenProperties, ElementOfSeq, EmptySeq DEF TypeInv, TypeOK
<1>2. queue[1] > delivered
  BY <1>1 DEF Ordered
<1>3. delivered + 1 \in delivered + 1 .. sent
  BY <1>1, <1>2
<1>4. PICK i \in DOMAIN queue : queue[i] = delivered + 1
  BY <1>3 DEF Ordered
<1>5. CASE i = 1
  BY <1>1, <1>4, <1>5
<1>6. CASE i # 1
  <2>1. 1 < i /\ queue[i] # Ping
    BY <1>1, <1>4, <1>6 DEF Ping
  <2>2. queue[1] < queue[i]
    BY <1>1, <2>1 DEF Ordered
  <2> QED BY <1>1, <1>2, <1>4, <2>2
<1> QED BY <1>5, <1>6

LEMMA OrderPush ==
  ASSUME TypeInv, Ordered(queue, delivered, sent, Acked), Acked => queue # <<>>,
         NEW m, m = Ping \/ m = sent + 1, queue' = Append(queue, m),
         sent' = IF m = Ping THEN sent ELSE m, UNCHANGED <<handlers, delivered>>
  PROVE  Ordered(queue', delivered', sent', Acked')
<1> DEFINE n == Len(queue)
<1>1. /\ n \in Nat /\ DOMAIN queue = 1 .. n
      /\ \A i \in 1 .. n : queue[i] \in 0 .. sent
      /\ delivered \in Nat /\ sent \in Nat /\ delivered <= sent /\ m \in Nat
      /\ Acked => n > 0
  BY LenProperties, ElementOfSeq, EmptySeq DEF TypeInv, TypeOK, Ping
<1>2. /\ DOMAIN queue' = 1 .. n + 1 /\ queue'[n + 1] = m
      /\ \A i \in 1 .. n : queue'[i] = queue[i]
  <2>1. queue \in Seq(Nat) /\ m \in Nat
    <3>1. queue = [i \in 1 .. n |-> queue[i]] /\ \A i \in 1 .. n : queue[i] \in Nat
      BY <1>1 DEF TypeInv
    <3> QED BY <1>1, <3>1, IsASeq
  <2> QED BY <2>1, AppendProperties, LenProperties
<1>3. Acked' = Acked
  BY DEF Acked
<1> HIDE DEF n
<1>4. \A i, j \in DOMAIN queue' :
        (i < j /\ queue'[i] # Ping /\ queue'[j] # Ping) => queue'[i] < queue'[j]
  <2> TAKE i, j \in DOMAIN queue'
  <2> HAVE i < j /\ queue'[i] # Ping /\ queue'[j] # Ping
  <2>1. i \in 1 .. n /\ queue'[i] = queue[i]
    BY <1>1, <1>2
  <2>2. CASE j \in 1 .. n
    BY <1>1, <1>2, <2>1, <2>2 DEF Ordered
  <2>3. CASE j = n + 1
    BY <1>1, <1>2, <2>1, <2>3
  <2> QED BY <1>1, <1>2, <2>2, <2>3
<1>5. \A k \in delivered' + 1 .. sent' : \E i \in DOMAIN queue' : queue'[i] = k
  <2> TAKE k \in delivered' + 1 .. sent'
  <2>1. CASE k \in delivered + 1 .. sent
    <3>1. PICK i \in DOMAIN queue : queue[i] = k
      BY <2>1 DEF Ordered
    <3>2. i \in DOMAIN queue' /\ queue'[i] = k
      BY <1>1, <1>2, <3>1
    <3> QED BY <3>2
  <2>2. CASE k = m
    BY <1>1, <1>2, <2>2
  <2> QED BY <1>1, <2>1, <2>2
<1>6. \A i \in DOMAIN queue' :
        queue'[i] = Ping \/ (queue'[i] > delivered' <=> ~(i = 1 /\ Acked'))
  <2> TAKE i \in DOMAIN queue'
  <2>1. CASE i \in 1 .. n
    BY <1>1, <1>2, <1>3, <2>1 DEF Ordered
  <2>2. CASE i = n + 1
    <3>1. queue'[i] = m /\ (m = Ping \/ m > delivered) /\ ~(i = 1 /\ Acked)
      BY <1>1, <1>2, <2>2
    <3> QED BY <1>3, <3>1
  <2> QED BY <1>1, <1>2, <2>1, <2>2
<1> QED BY <1>4, <1>5, <1>6 DEF Ordered

LEMMA OrderStep ==
  ASSUME TypeInv, LifeInv, CalmInv, FlowInv, WriteInv, OrderInv, [Next]_vars
  PROVE  OrderInv'
<1> USE TheThreads DEF netVars, rest
<1>1. CASE UNCHANGED vars
  <2>1. UNCHANGED <<queue, delivered, handlers, sent, pc, raced>>
    BY <1>1 DEF vars
  <2>2. Ordered(queue, delivered, sent, Acked) => Ordered(queue', delivered', sent', Acked')
    BY <2>1 DEF Ordered, Acked
  <2>3. Faulty' <=> Faulty
    BY <2>1 DEF Faulty
  <2> QED BY <2>1, <2>2, <2>3 DEF OrderInv, Ordered
<1> SUFFICES ASSUME Next, ~raced', ~Faulty', pc'[Main] \notin Cleared
             PROVE  Ordered(queue', delivered', sent', Acked')
  BY <1>1 DEF OrderInv, Ordered
<1>2. /\ ~raced /\ ~Faulty /\ (\A s, t \in Inside' : s = t)
  BY CalmStep, NotFaulty DEF CalmInv
<1>3. pc[Main] \notin Cleared
  BY ClearedStays
<1>4. /\ handlers \in {<<>>, <<"ok">>, <<"error">>} /\ (writing # NoWrite => handlers = <<>>)
      /\ (writing # NoWrite \/ handlers # <<>>) => queue # <<>>
      /\ writing # NoWrite => Head(queue) = writing
      /\ Ordered(queue, delivered, sent, Acked)
  BY <1>2, <1>3 DEF FlowInv, WriteInv, OrderInv
<1>5. ASSUME UNCHANGED <<queue, delivered, handlers, sent>>
      PROVE  Ordered(queue', delivered', sent', Acked')
  BY <1>4, <1>5 DEF Ordered, Acked
<1>6. ASSUME NEW t, NEW from, NEW back, NEW m, Push(t, from, back, m), m = Ping \/ m = sent + 1
      PROVE  Ordered(queue', delivered', sent', Acked')
  <2>1. Acked => queue # <<>>
    BY <1>4 DEF Acked
  <2> QED BY <1>4, <1>6, <2>1, OrderPush DEF Push
<1>7. ASSUME NEW t \in Threads, Send(t) PROVE Ordered(queue', delivered', sent', Acked')
  BY <1>5, <1>7 DEF Send, Test, Start, Front
<1>8. ASSUME NEW t \in Threads, Comment(t) \/ PushComment(t)
      PROVE  Ordered(queue', delivered', sent', Acked')
  BY <1>5, <1>6, <1>8 DEF Comment, PushComment, SetComment
<1>8a. CASE Reply
  BY <1>5, <1>6, <1>8a DEF Reply, PushNext, SetComment
<1>9. CASE WriteDone
  <2>1. /\ writing # NoWrite /\ handlers' = Append(handlers, "ok") /\ UNCHANGED <<queue, sent>>
        /\ delivered' = IF writing = Ping THEN delivered ELSE writing
    BY <1>9 DEF WriteDone, TypeInv, PlaceType, Faulty, Faults
  <2>2. Acked' /\ ~Acked /\ queue # <<>> /\ Head(queue) = writing
    <3>1. Append(<<>>, "ok") = <<"ok">> /\ <<>> # <<"ok">>
      OBVIOUS
    <3>2. handlers = <<>> /\ queue # <<>> /\ Head(queue) = writing
      BY <1>4, <2>1
    <3> QED BY <2>1, <3>1, <3>2, Zenon DEF Acked
  <2>3. /\ Len(queue) \in Nat /\ DOMAIN queue = 1 .. Len(queue) /\ 1 \in DOMAIN queue
        /\ Head(queue) = queue[1] /\ \A i \in DOMAIN queue : queue[i] \in 0 .. sent
        /\ delivered \in Nat /\ sent \in Nat
    BY <2>2, LenProperties, ElementOfSeq, EmptySeq DEF TypeInv, TypeOK
  <2>4. Ordered(queue, delivered, sent, FALSE)
    BY <1>4, <2>2 DEF Ordered
  <2>5. CASE writing = Ping
    <3>1. delivered' = delivered /\ queue[1] = Ping
      BY <2>1, <2>2, <2>3, <2>5
    <3>2. \A i \in DOMAIN queue : queue[i] = Ping \/ (queue[i] > delivered <=> ~(i = 1 /\ TRUE))
      BY <2>4, <3>1 DEF Ordered
    <3> QED BY <2>1, <2>2, <2>4, <3>1, <3>2 DEF Ordered
  <2>6. CASE writing # Ping
    <3>1. delivered' = delivered + 1 /\ queue[1] = delivered + 1
      BY <2>1, <2>2, <2>3, <2>4, <2>6, HeadIsNext
    <3>2. ASSUME NEW i \in DOMAIN queue, queue[i] # Ping
          PROVE  queue[i] > delivered + 1 <=> i # 1
      <4>1. CASE i = 1
        BY <2>3, <3>1, <4>1
      <4>2. CASE i # 1
        <5>1. queue[1] # Ping /\ 1 < i
          BY <2>3, <3>1, <4>2 DEF Ping
        <5>2. queue[1] < queue[i]
          BY <2>3, <2>4, <3>2, <5>1 DEF Ordered
        <5> QED BY <2>3, <3>1, <4>2, <5>2
      <4> QED BY <4>1, <4>2
    <3>3. \A k \in delivered + 1 + 1 .. sent : k \in delivered + 1 .. sent
      BY <2>3
    <3>4. \A k \in delivered + 1 + 1 .. sent : \E i \in DOMAIN queue : queue[i] = k
      BY <2>4, <3>3 DEF Ordered
    <3> QED BY <2>1, <2>2, <2>4, <3>1, <3>2, <3>4 DEF Ordered
  <2> QED BY <2>5, <2>6
<1>10. CASE WriteFails
  <2>1. /\ writing # NoWrite /\ handlers' = Append(handlers, "error")
        /\ UNCHANGED <<queue, sent, delivered>>
    BY <1>10 DEF WriteFails
  <2>2. ~Acked' /\ ~Acked
    <3>1. Append(<<>>, "error") = <<"error">> /\ <<>> # <<"ok">> /\ <<"error">> # <<"ok">>
      OBVIOUS
    <3>2. handlers = <<>>
      BY <1>4, <2>1
    <3> QED BY <2>1, <3>1, <3>2, Zenon DEF Acked
  <2> QED BY <1>4, <2>1, <2>2 DEF Ordered
<1>11. CASE ConnectionLost \/ HandlerTest \/ HandlerClear \/ TextArrives \/ TextMessage
  BY <1>5, <1>11 DEF ConnectionLost, HandlerTest, HandlerClear, TextArrives, TextMessage
<1>12. CASE HandlerPop
  <2>1. /\ handlers # <<>> /\ Head(handlers) = "ok" /\ handlers' = Tail(handlers)
        /\ queue # <<>> /\ queue' = Tail(queue) /\ UNCHANGED <<sent, delivered>>
    BY <1>12, GotoIs DEF HandlerPop, TypeInv, Faulty, Faults
  <2>2. handlers = <<"ok">>
    <3>1. Head(<<"error">>) = "error"
      OBVIOUS
    <3> QED BY <1>4, <2>1, <3>1
  <2>3. Acked /\ ~Acked'
    <3>1. <<>> # <<"ok">>
      OBVIOUS
    <3> QED BY <2>1, <2>2, <3>1, TailOfOne DEF Acked
  <2> DEFINE n == Len(queue)
  <2>4. /\ n \in Nat /\ DOMAIN queue = 1 .. n /\ n > 0
        /\ \A i \in DOMAIN queue : queue[i] \in 0 .. sent
        /\ delivered \in Nat /\ sent \in Nat
    BY <2>1, LenProperties, ElementOfSeq, EmptySeq DEF TypeInv, TypeOK
  <2>5. DOMAIN queue' = 1 .. n - 1 /\ \A i \in 1 .. n - 1 : queue'[i] = queue[i + 1]
    <3>1. queue \in Seq(0 .. sent)
      BY DEF TypeInv
    <3> QED BY <2>1, <2>4, <3>1
  <2> HIDE DEF n
  <2>6. ~(queue[1] > delivered) \/ queue[1] = Ping
    BY <1>4, <2>3, <2>4 DEF Ordered
  <2>7. \A i \in 1 .. n - 1 : i + 1 \in DOMAIN queue /\ i + 1 # 1
    BY <2>4
  <2>8. \A i, j \in DOMAIN queue' :
          (i < j /\ queue'[i] # Ping /\ queue'[j] # Ping) => queue'[i] < queue'[j]
    <3> TAKE i, j \in DOMAIN queue'
    <3> HAVE i < j /\ queue'[i] # Ping /\ queue'[j] # Ping
    <3>1. i + 1 < j + 1
      BY <2>4, <2>5
    <3> QED BY <1>4, <2>5, <2>7, <3>1 DEF Ordered
  <2>9. \A k \in delivered' + 1 .. sent' : \E i \in DOMAIN queue' : queue'[i] = k
    <3> TAKE k \in delivered' + 1 .. sent'
    <3>1. PICK i \in DOMAIN queue : queue[i] = k
      BY <1>4, <2>1 DEF Ordered
    <3>2. i # 1
      BY <2>1, <2>4, <2>6, <3>1 DEF Ping
    <3>3. i - 1 \in DOMAIN queue' /\ queue'[i - 1] = queue[i]
      BY <2>4, <2>5, <3>2
    <3> QED BY <3>1, <3>3
  <2>10. \A i \in DOMAIN queue' : queue'[i] = Ping \/ (queue'[i] > delivered' <=> ~(i = 1 /\ Acked'))
    BY <1>4, <2>1, <2>3, <2>5, <2>7 DEF Ordered
  <2> QED BY <2>8, <2>9, <2>10 DEF Ordered
<1>13. CASE HandlerError
  <2>1. /\ handlers # <<>> /\ Head(handlers) = "error" /\ handlers' = Tail(handlers)
        /\ UNCHANGED <<queue, sent, delivered>>
    BY <1>13 DEF HandlerError
  <2>2. ~Acked /\ ~Acked'
    <3>1. Head(<<"ok">>) = "ok" /\ <<>> # <<"ok">>
      OBVIOUS
    <3>2. handlers = <<"error">>
      BY <1>4, <2>1, <3>1
    <3> QED BY <2>1, <3>1, <3>2, TailOfOne DEF Acked
  <2>3. Ordered(queue, delivered, sent, FALSE)
    BY <1>4, <2>2 DEF Ordered
  <2> QED BY <2>1, <2>2, <2>3 DEF Ordered
<1>14. CASE DoPing \/ SendVersion \/ SendAuthenticate \/ FirstPing
  BY <1>6, <1>14 DEF DoPing, SendVersion, SendAuthenticate, FirstPing, PushNext
<1>15. CASE ServerSync \/ SyncNotify \/ AwaitTest \/ AwaitSleep \/ Connect \/ DisconnectFailed
  BY <1>5, <1>15 DEF ServerSync, SyncNotify, AwaitTest, AwaitSleep, Connect, DisconnectFailed
<1>16. CASE CloseSocket \/ Disconnected \/ Disconnect
  BY <1>3, <1>16, GotoIs DEF CloseSocket, Disconnected, Disconnect, TypeInv, Cleared
<1> QED
  BY <1>7, <1>8, <1>8a, <1>9, <1>10, <1>11, <1>12, <1>13, <1>14, <1>15, <1>16
     DEF Next, Step, Handle, MainProceeds

-----------------------------------------------------------------------------
(* Undefined behaviour, and what the server gets.                              *)

LEMMA FaultStep ==
  ASSUME TypeInv, LifeInv, CalmInv, FlowInv, WriteInv, FaultNeedsRaceOrDisconnect, [Next]_vars
  PROVE  FaultNeedsRaceOrDisconnect'
<1> USE TheThreads DEF netVars, rest
<1>1. CASE UNCHANGED vars
  BY <1>1 DEF vars, FaultNeedsRaceOrDisconnect, Faulty
<1> SUFFICES ASSUME Next, ~raced', Faulty' PROVE FaultNeedsRaceOrDisconnect'
  BY <1>1 DEF FaultNeedsRaceOrDisconnect
<1>2. /\ ~raced /\ ~Faulty /\ (\A s, t \in Inside : s = t) /\ (\A s, t \in Inside' : s = t)
      /\ Course /\ (Unused => Fresh)
  BY CalmStep, NotFaulty DEF CalmInv, LifeInv
<1>3. \A t \in Threads : pc[t] \notin Faults
  BY <1>2 DEF Faulty
<1>4. \A s, t \in Threads : (pc'[s] \notin Outside /\ pc'[t] \notin Outside) => s = t
  BY <1>2 DEF Inside
<1>5. (\A t \in Threads : pc'[t] \in {pc[t], "test", "start", "front", "popped", "clear"} \cup Outside
         \/ pc'[t] \in {"clearing", "closing"}) => FALSE
  BY <1>3 DEF Faulty, Faults, Outside
<1>6. ASSUME NEW t \in Threads, NEW from, NEW to, Goto(t, from, to),
             to \in {"test", "start", "front", "popped", "clear", "clearing", "closing"} \cup Outside
      PROVE  FALSE
  BY <1>5, <1>6, GotoIs DEF TypeInv
<1>7. ASSUME NEW t \in Threads, Test(t) \/ Start(t) PROVE FALSE
  <2>1. ret[t] \in Outside
    BY <1>7, GotoIs DEF Test, Start, TypeInv, PlaceType, Calling, Returns, Outside
  <2> QED BY <1>6, <1>7, <2>1 DEF Test, Start
<1>8. ASSUME NEW t \in Threads, Front(t) PROVE FaultNeedsRaceOrDisconnect'
  <2>1. /\ pc[t] = "front" /\ \A s \in Threads : s # t => pc'[s] = pc[s]
        /\ pc'[t] = IF queue = <<>> THEN "frontEmpty" ELSE IF ~socket THEN "nullSocket"
                    ELSE IF writing # NoWrite THEN "overlap" ELSE ret[t]
    BY <1>8, GotoIs DEF Front, TypeInv
  <2>2. queue # <<>> /\ ret[t] \in Outside
    BY <1>2, <2>1 DEF FlowInv, TypeInv, PlaceType, InCall, Calling, Returns, Outside
  <2>3. /\ pc[Main] \notin {"new", "clearing", "closing"}
        /\ pc[Main] = "down" => ~socket /\ (pc[t] \in {"start", "front"} => t = Asio)
        /\ ~socket => pc[Main] = "down"
    BY <1>2, <2>1, Whereabouts DEF Outside
  <2>4. CASE ~socket
    BY <2>1, <2>2, <2>3, <2>4 DEF FaultNeedsRaceOrDisconnect
  <2>5. CASE socket
    <3>1. writing = NoWrite
      BY <1>2, <2>1, <2>3, <2>5 DEF WriteInv, Cleared, Writing
    <3> QED BY <1>6, <1>8, <2>1, <2>2, <2>5, <3>1 DEF Front
  <2> QED BY <2>4, <2>5
<1>9. ASSUME NEW t \in Threads, NEW from, NEW back, NEW m, Push(t, from, back, m) PROVE FALSE
  BY <1>6, <1>9 DEF Push
<1>9a. ASSUME NEW t \in Threads, PushComment(t) PROVE FALSE
  BY <1>9, <1>9a DEF PushComment
(* SetComment without a connection.                                            *)
<1>10. ASSUME NEW t \in Threads, NEW from \in {"up", "failed", "idle", "message", "status"},
              NEW back, SetComment(t, from, back)
       PROVE  /\ state # "authenticated" /\ pc[t] = from /\ Place(t) = from
              /\ pc'[t] = "notAuthenticated" /\ \A s \in Threads : s # t => pc'[s] = pc[s]
              /\ sent' = sent
  <2>1. ~Goto(t, from, "comment")
    BY <1>6 DEF Outside
  <2>2. state # "authenticated" /\ Goto(t, from, "notAuthenticated") /\ sent' = sent
    BY <1>10, <2>1 DEF SetComment
  <2>3. pc[t] = from /\ Place(t) = from
    BY <2>2, GotoIs DEF TypeInv, Place, Calling
  <2> QED BY <2>2, <2>3, GotoIs DEF TypeInv
<1>10a. Place(Main) = "down" => pc[Main] = "down"
  BY DEF TypeInv, PlaceType, Place, Returns
<1>10b. Place(Main) = "failed" => /\ pc[Main] = "failed" /\ sent = 0
                                  /\ pc[Asio] \notin Answering
  BY <1>2 DEF Unused, Fresh, Inside, Place, Calling, Outside
<1>11. ASSUME NEW t \in Threads, Comment(t) PROVE FaultNeedsRaceOrDisconnect'
  <2>1. PICK from \in {"up", "failed", "idle"} :
          /\ SetComment(t, from, from)
          /\ from = "idle" => /\ t \in Senders
                             /\ Place(Main) \in {"up", "failed", "clearing", "closing", "down"}
          /\ from # "idle" => t = Main
    BY <1>11, CommentIs
  <2>2. /\ state # "authenticated" /\ Place(t) = from /\ pc'[t] = "notAuthenticated"
        /\ sent' = sent /\ \A s \in Threads : s # t => pc'[s] = pc[s]
    BY <1>10, <2>1
  <2>3. CASE from = "idle"
    <3>1. Place(Main) \in {"failed", "down"}
      BY <1>2, <2>1, <2>2, <2>3 DEF Course
    <3>2. pc[Main] \in {"failed", "down"}
      BY <1>10a, <1>10b, <3>1
    <3> QED BY <2>1, <2>2, <2>3, <3>2 DEF FaultNeedsRaceOrDisconnect
  <2>4. CASE from # "idle"
    <3>1. from = "failed"
      BY <1>2, <2>1, <2>2, <2>4 DEF Course
    <3> QED BY <1>10b, <2>1, <2>2, <2>4, <3>1 DEF FaultNeedsRaceOrDisconnect
  <2> QED BY <2>3, <2>4
<1>11a. CASE Reply
  <2>1. PICK from \in Answering, back \in {"run", "status"} : SetComment(Asio, from, back)
    BY <1>9, <1>11a DEF Reply, PushNext, Answering
  <2>2. /\ state # "authenticated" /\ pc[Asio] = from /\ Place(Asio) = from
        /\ pc'[Asio] = "notAuthenticated" /\ \A s \in Threads : s # Asio => pc'[s] = pc[s]
    BY <1>10, <2>1 DEF Answering
  <2>3. state = "new" /\ Place(Main) # "new"
    BY <1>2, <2>1, <2>2 DEF Course, TypeInv, TypeOK
  <2>4. Place(Main) \in {"failed", "down"}
    BY <1>2, <2>3 DEF Course
  <2>5. pc[Main] = "down"
    BY <1>10a, <1>10b, <2>1, <2>2, <2>4
  <2> QED BY <2>2, <2>5 DEF FaultNeedsRaceOrDisconnect
<1>11b. CASE TextArrives \/ TextMessage
  <2>1. UNCHANGED pc \/ Goto(Asio, "run", "message")
    BY <1>11b DEF TextArrives, TextMessage
  <2> QED BY <1>5, <1>6, <2>1 DEF Outside
<1>12. CASE WriteDone
  <2>1. pc'[Asio] = "freedBuffer" /\ pc'[Main] = pc[Main] /\ (queue = <<>> \/ Head(queue) # writing)
        /\ writing # NoWrite /\ open
    <3>1. ~UNCHANGED pc
      BY <1>3 DEF Faulty
    <3> QED BY <1>12, <3>1 DEF WriteDone, TypeInv, PlaceType
  <2>2. pc[Main] \in Cleared
    BY <1>2, <2>1 DEF WriteInv
  <2>3. pc[Main] \notin {"clearing", "closing"}
    BY <1>4, <2>1 DEF Outside
  <2>4. pc[Main] # "down"
    BY <1>2, <2>1 DEF Course, Place, Calling
  <2> QED BY <2>2, <2>3, <2>4 DEF Cleared
<1>13. CASE WriteFails \/ ConnectionLost \/ HandlerError
  BY <1>5, <1>13 DEF WriteFails, ConnectionLost, HandlerError
<1>14. CASE HandlerPop
  <2>1. /\ handlers # <<>> /\ Goto(Asio, "run", IF queue = <<>> THEN "popEmpty" ELSE "popped")
    BY <1>14 DEF HandlerPop
  <2>2. queue = <<>>
    BY <1>6, <2>1
  <2>3. pc[Main] \in Cleared
    BY <1>2, <2>1, <2>2 DEF WriteInv
  <2>4. pc'[Asio] = "popEmpty" /\ pc'[Main] = pc[Main]
    BY <2>1, <2>2, GotoIs DEF TypeInv
  <2>5. pc'[Main] = "down"
    BY <1>4, <2>3, <2>4 DEF Cleared, Outside
  <2> QED BY <2>4, <2>5 DEF FaultNeedsRaceOrDisconnect
<1>15. CASE HandlerTest \/ HandlerClear \/ ServerSync
  BY <1>6, <1>15 DEF HandlerTest, HandlerClear, ServerSync, Outside
<1>16. CASE SyncNotify
  <2>1. \A t \in Threads : pc'[t] \in {"run", "await", pc[t]}
    BY <1>16 DEF SyncNotify
  <2> QED BY <1>5, <2>1 DEF Outside
<1>17. CASE DoPing \/ SendVersion \/ SendAuthenticate \/ FirstPing
  BY <1>9, <1>17 DEF DoPing, SendVersion, SendAuthenticate, FirstPing, PushNext
<1>18. CASE \/ AwaitTest \/ AwaitSleep \/ CloseSocket \/ Disconnected \/ Connect
            \/ Disconnect \/ DisconnectFailed
  <2>1. PICK from \in {"await", "decided", "clearing", "closing", "new", "failed", "up"},
             to \in {"up", "decided", "asleep", "closing", "down", "connected", "failed", "clearing"} :
          Goto(Main, from, to)
    BY <1>18 DEF AwaitTest, AwaitSleep, CloseSocket, Disconnected, Connect, Disconnect,
                 DisconnectFailed
  <2> QED BY <1>6, <2>1 DEF Outside
<1> QED
  BY <1>7, <1>8, <1>9a, <1>11, <1>11a, <1>11b, <1>12, <1>13, <1>14, <1>15, <1>16, <1>17, <1>18
     DEF Next, Step, Send, Handle, MainProceeds

(* A write that succeeds delivers the next message.                            *)
LEMMA DeliverStep ==
  ASSUME TypeInv, LifeInv, CalmInv, FlowInv, WriteInv, OrderInv, [Next]_vars
  PROVE  raced' \/ delivered' = IF Arrives THEN delivered + 1 ELSE delivered
<1> USE DEF netVars, rest
<1> SUFFICES ASSUME ~raced' PROVE delivered' = IF Arrives THEN delivered + 1 ELSE delivered
  OBVIOUS
<1>1. handlers \in Seq({"ok", "error"}) /\ NoWrite < 0 /\ queue \in Seq(0 .. sent)
      /\ sent \in Nat /\ delivered \in Nat
  BY DEF TypeInv, TypeOK, NoWrite
<1>2. handlers # Append(handlers, "ok") /\ Append(handlers, "error") # Append(handlers, "ok")
      /\ (handlers # <<>> => Tail(handlers) # Append(handlers, "ok"))
  <2>1. /\ Len(handlers) \in Nat
        /\ Len(Append(handlers, "ok")) = Len(handlers) + 1
        /\ Append(handlers, "ok")[Len(handlers) + 1] = "ok"
        /\ Append(handlers, "error")[Len(handlers) + 1] = "error"
        /\ handlers # <<>> => Len(Tail(handlers)) = Len(handlers) - 1
    BY <1>1, AppendProperties, HeadTailProperties, LenProperties
  <2>2. Len(handlers) # Len(handlers) + 1 /\ Len(handlers) - 1 # Len(handlers) + 1
    BY <2>1
  <2> QED BY <2>1, <2>2
<1>3. CASE WriteDone /\ Next
  <2>1. ~raced /\ ~Faulty /\ (\A s, t \in Inside' : s = t) /\ Course
    BY <1>3, CalmStep, NotFaulty DEF CalmInv, LifeInv
  <2>2. CASE queue = <<>> \/ Head(queue) # writing
    <3>1. UNCHANGED <<delivered, handlers>>
      BY <1>3, <2>2 DEF WriteDone
    <3> QED BY <1>2, <3>1 DEF Arrives
  <2>3. CASE queue # <<>> /\ Head(queue) = writing
    <3>1. /\ writing # NoWrite /\ handlers' = Append(handlers, "ok") /\ writing' = NoWrite
          /\ delivered' = IF writing = Ping THEN delivered ELSE writing
          /\ UNCHANGED pc /\ open
      BY <1>3, <2>3 DEF WriteDone
    <3>2. writing \in Nat /\ (writing # Ping <=> writing > 0)
      BY <1>1, <2>3, HeadTailProperties DEF Ping
    <3>3. Arrives <=> writing # Ping
      BY <3>1, <3>2 DEF Arrives
    <3>4. pc[Main] \notin Cleared
      <4>1. pc[Main] # "clearing"
        BY <2>1, <2>3 DEF FlowInv
      <4>2. pc[Main] \notin {"closing", "down"}
        BY <2>1, <3>1 DEF Course, Place, Calling
      <4> QED BY <4>1, <4>2 DEF Cleared
    <3>5. handlers = <<>> /\ Ordered(queue, delivered, sent, Acked)
      BY <2>1, <3>1, <3>4 DEF FlowInv, OrderInv
    <3>6. ~Acked
      <4>1. <<>> # <<"ok">>
        OBVIOUS
      <4> QED BY <3>5, <4>1 DEF Acked
    <3>7. Ordered(queue, delivered, sent, FALSE)
      BY <3>5, <3>6 DEF Ordered
    <3>8. writing # Ping => writing = delivered + 1
      BY <2>3, <3>7, HeadIsNext
    <3> QED BY <3>1, <3>3, <3>8
  <2> QED BY <2>2, <2>3
<1>4. ASSUME delivered' = delivered, writing' = writing \/ handlers' # Append(handlers, "ok")
      PROVE  delivered' = IF Arrives THEN delivered + 1 ELSE delivered
  <2>1. ~Arrives
    BY <1>4 DEF Arrives, NoWrite
  <2> QED BY <1>4, <2>1
<1>5. CASE UNCHANGED vars
  BY <1>4, <1>5 DEF vars
<1>6. ASSUME NEW t \in Threads, Send(t) PROVE delivered' = delivered /\ handlers' = handlers
  BY <1>6 DEF Send, Test, Start, Front
<1>7. ASSUME NEW t, NEW from, NEW back, NEW m, Push(t, from, back, m)
      PROVE  delivered' = delivered /\ handlers' = handlers
  BY <1>7 DEF Push
<1>8. ASSUME NEW t \in Threads, Comment(t) \/ PushComment(t)
      PROVE  delivered' = delivered /\ handlers' = handlers
  BY <1>7, <1>8 DEF Comment, PushComment, SetComment
<1>9. CASE HandlerTest \/ HandlerClear \/ ConnectionLost \/ ServerSync \/ SyncNotify
           \/ AwaitTest \/ AwaitSleep \/ Connect \/ Disconnected \/ Disconnect
           \/ DisconnectFailed \/ TextArrives \/ TextMessage
  BY <1>2, <1>4, <1>9 DEF HandlerTest, HandlerClear, ConnectionLost, ServerSync, SyncNotify,
       AwaitTest, AwaitSleep, Connect, Disconnected, Disconnect, DisconnectFailed, TextArrives,
       TextMessage
<1>10. CASE HandlerPop \/ HandlerError
  BY <1>4, <1>10 DEF HandlerPop, HandlerError
<1>11. CASE WriteFails
  BY <1>2, <1>4, <1>11 DEF WriteFails
<1>12. CASE CloseSocket
  BY <1>2, <1>4, <1>12 DEF CloseSocket
<1>13. CASE DoPing \/ Reply \/ SendVersion \/ SendAuthenticate \/ FirstPing
  <2>1. delivered' = delivered /\ handlers' = handlers
    BY <1>7, <1>13 DEF DoPing, Reply, SetComment, SendVersion, SendAuthenticate, FirstPing, PushNext
  <2> QED BY <1>2, <1>4, <2>1
<1> QED
  BY <1>2, <1>3, <1>4, <1>5, <1>6, <1>8, <1>9, <1>10, <1>11, <1>12, <1>13
     DEF Next, Step, Handle, MainProceeds

-----------------------------------------------------------------------------
LEMMA SendInit == Init => SendInv
<1> SUFFICES ASSUME Init PROVE SendInv
  OBVIOUS
<1> USE TheThreads
<1>1. \A t \in Threads : /\ pc[t] \in Outside /\ pc[t] \notin Calling /\ pc[t] \notin Faults
                         /\ pc[t] \notin InCall \cup {"comment"} \cup Answering
  BY DEF Init, Outside, InCall, Calling, Faults, Answering
<1>2. Inside = {} /\ ~Faulty
  BY <1>1 DEF Inside, Faulty
<1>3. /\ Place(Main) = "new" /\ Place(Asio) = "run" /\ \A t \in Senders : Place(t) = "idle"
  BY <1>1 DEF Init, Place
<1>4. LifeInv
  BY <1>1, <1>2, <1>3 DEF Init, LifeInv, Course, Fresh, Early, Cleared, Answering
<1>5. CalmInv /\ FaultNeedsRaceOrDisconnect
  BY <1>2 DEF CalmInv, FaultNeedsRaceOrDisconnect
<1>6. FlowInv
  BY <1>1 DEF Init, FlowInv
<1>7. WriteInv
  BY <1>1 DEF Init, WriteInv, Outside
<1>8. OrderInv
  BY DEF Init, OrderInv, Ordered
<1> QED
  BY <1>4, <1>5, <1>6, <1>7, <1>8, TypeInit DEF SendInv

(* The invariant holds in every state of a client.                             *)
THEOREM SendInvariance == Spec => []SendInv
<1>1. SendInv /\ [Next]_vars => SendInv'
  BY TypeStep, LifeStep, CalmStep, FlowStep, WriteStep, OrderStep, FaultStep DEF SendInv
<1> QED
  BY <1>1, SendInit, PTL DEF Spec

(* Every variable of the client's send queue stays in its range.               *)
THEOREM SendTypes == Spec => []TypeOK
<1>1. SendInv => TypeOK
  BY DEF SendInv, TypeInv
<1> QED
  BY <1>1, SendInvariance, PTL

(* While no two threads have been inside SendMessage, its helpers and            *)
(* Disconnect at once, a fault is that of a handler left over from before       *)
(* Disconnect, of a comment that the io thread or the playback thread makes     *)
(* after it, or of one made after a Connect that failed.                       *)
THEOREM SendFaults == Spec => []FaultNeedsRaceOrDisconnect
<1>1. SendInv => FaultNeedsRaceOrDisconnect
  BY DEF SendInv
<1> QED
  BY <1>1, SendInvariance, PTL

(* While no two threads have been inside at once, no message waits in            *)
(* send_queue_ on a live connection without a write or a handler under way.    *)
THEOREM SendProgress == Spec => []NoMessageStranded
<1>1. SendInv => NoMessageStranded
  <2> SUFFICES ASSUME SendInv, ~raced, Inside = {}, state # "new"
               PROVE  /\ processing <=> (writing # NoWrite \/ handlers # <<>>)
                      /\ (open /\ queue # <<>>) => processing
    BY DEF NoMessageStranded
  <2>1. \A t \in Threads : pc[t] \in Outside
    BY DEF Inside
  <2>2. ~Faulty
    BY <2>1 DEF Faulty, Faults, Outside
  <2>3. pc[Main] \notin Cleared
    BY <2>1, <2>2, TheThreads
       DEF SendInv, LifeInv, Course, Place, Calling, Outside, Cleared
  <2>4. \A t \in Threads : pc[t] \notin Writing \cup {"test", "start"}
    BY <2>1 DEF Writing, Outside
  <2> QED
    BY <2>2, <2>3, <2>4 DEF SendInv, WriteInv
<1> QED
  BY <1>1, SendInvariance, PTL

(* While no two threads have been inside at once, the server gets the messages   *)
(* in the order in which SendMessage pushed them, none lost or repeated.       *)
THEOREM SendOrder == Spec => DeliveredInOrder
<1>1. SendInv /\ [Next]_vars =>
        [raced' \/ delivered' = IF Arrives THEN delivered + 1 ELSE delivered]_vars
  BY DeliverStep DEF SendInv
<1> QED
  BY <1>1, SendInvariance, PTL DEF Spec, DeliveredInOrder
=============================================================================
