----------------------------- MODULE SendQueue -----------------------------
(***************************************************************************)
(* The life of one MumbleClient (libmumbleclient/Client.cpp) as its TCP     *)
(* send queue sees it: Connect, the messages that several threads send, the *)
(* asynchronous writes and their completion handlers, the ping timer and    *)
(* Disconnect.                                                              *)
(*                                                                          *)
(* Nothing in Client.cpp takes a mutex around send_queue_ or                *)
(* processing_tcp_queue_, so the code between two accesses to them is one   *)
(* action.  Threads:                                                        *)
(*   Main     the thread that calls Connect and Disconnect (the main thread *)
(*            or the one thread of Ice's default server pool);              *)
(*   Asio     the io_service thread: completion handlers, timer, reads;     *)
(*   Senders  the other threads that call SetComment (the playback thread). *)
(* A message is its number in the order of the pushes; a ping is 0.         *)
(***************************************************************************)
EXTENDS Integers, Sequences, FiniteSets

CONSTANTS Main, Asio, Senders,
          MaxMessages,  \* bound: how many messages that are not pings are sent
          MaxPings      \* bound: the timer fires when fewer pings are queued

ASSUME SendQueueAssumption ==
  /\ Main # Asio /\ Main \notin Senders /\ Asio \notin Senders /\ IsFiniteSet(Senders)
  /\ MaxMessages \in Nat /\ MaxPings \in Nat \ {0}

Threads == {Main, Asio} \cup Senders
Ping == 0
NoWrite == -1

VARIABLES
  state,        \* state_
  open,         \* the TCP connection works
  socket,       \* tcp_socket_ # NULL
  queue,        \* send_queue_
  processing,   \* processing_tcp_queue_
  writing,      \* the message of the async_write under way, or NoWrite
  handlers,     \* results of finished writes whose handler has not run yet
  timer,        \* the ping timer is armed
  unread,       \* a text message has been read and not been handled (bound: one)
  sent,         \* messages pushed so far
  delivered,    \* the last message the server got
  pc, ret,
  raced         \* two threads have been inside this code at the same time

netVars == <<open, socket, writing, handlers, delivered>>
rest == <<state, timer, unread, sent>>
vars == <<rest, netVars, queue, processing, pc, ret, raced>>

Faults == {"popEmpty", "frontEmpty", "nullSocket", "overlap", "freedBuffer",
           "notAuthenticated"}
Faulty == \E t \in Threads : pc[t] \in Faults

(* A thread is inside between the first and the last access of a call.  At    *)
(* "comment" it is in SetComment, past the assertion; at "message" and        *)
(* "status" it is in the callback of a text message.                         *)
Outside == {"new", "connected", "authenticate", "ping", "await", "decided", "asleep",
            "up", "down", "failed", "run", "notify", "message", "status", "idle", "comment"}
Inside == {t \in Threads : pc[t] \notin Outside}

(* Where a thread is, seen from outside SendMessage and SetComment.           *)
Calling == {"comment", "test", "start", "front"}
Place(t) == IF pc[t] \in Calling THEN ret[t] ELSE pc[t]

Init ==
  /\ state = "new" /\ open = FALSE /\ socket = FALSE
  /\ queue = <<>> /\ processing = FALSE
  /\ writing = NoWrite /\ handlers = <<>>
  /\ timer = FALSE /\ unread = FALSE /\ sent = 0 /\ delivered = 0
  /\ pc = [t \in Threads |-> IF t = Main THEN "new" ELSE IF t = Asio THEN "run" ELSE "idle"]
  /\ ret = [t \in Threads |-> "none"]
  /\ raced = FALSE

At(t, label) == ~Faulty /\ pc[t] = label
Goto(t, from, to) == At(t, from) /\ pc' = [pc EXCEPT ![t] = to]

-----------------------------------------------------------------------------
(* SendMessage and SendFirstQueued, in any thread.                           *)

Push(t, from, back, m) ==
  /\ Goto(t, from, "test")
  /\ ret' = [ret EXCEPT ![t] = back]
  /\ queue' = Append(queue, m)
  /\ sent' = IF m = Ping THEN sent ELSE m
  /\ UNCHANGED <<state, processing, netVars>>

PushNext(t, from, back) ==
  /\ sent < MaxMessages
  /\ Push(t, from, back, sent + 1)
  /\ UNCHANGED <<timer, unread>>

(* Faulty variant: SendMessage starts a write although one is under way.     *)
TestIgnoresWrite(t) ==
  /\ Goto(t, "test", IF state # "new" THEN "start" ELSE ret[t])
  /\ UNCHANGED <<rest, netVars, queue, processing, ret>>

Test(t) ==
  /\ Goto(t, "test", IF state # "new" /\ ~processing THEN "start" ELSE ret[t])
  /\ UNCHANGED <<rest, netVars, queue, processing, ret>>

Start(t) ==
  /\ Goto(t, "start", "front")
  /\ processing' = TRUE
  /\ UNCHANGED <<rest, netVars, queue, ret>>

Front(t) ==
  /\ Goto(t, "front", IF queue = <<>> THEN "frontEmpty"
                      ELSE IF ~socket THEN "nullSocket"
                      ELSE IF writing # NoWrite THEN "overlap" ELSE ret[t])
  /\ writing' = IF queue = <<>> THEN writing ELSE Head(queue)
  /\ UNCHANGED <<rest, open, socket, handlers, delivered, queue, processing, ret>>

Send(t) == Test(t) \/ Start(t) \/ Front(t)

-----------------------------------------------------------------------------
(* The network.  A write that succeeds gives the whole message to the server *)
(* and posts its handler; after the first error every write fails.           *)

WriteDone ==
  /\ ~Faulty /\ writing # NoWrite /\ open
  /\ IF queue = <<>> \/ Head(queue) # writing   \* its buffers went with the queue
       THEN /\ pc' = [pc EXCEPT ![Asio] = "freedBuffer"]
            /\ UNCHANGED <<writing, handlers, delivered>>
       ELSE /\ delivered' = IF writing = Ping THEN delivered ELSE writing
            /\ handlers' = Append(handlers, "ok")
            /\ writing' = NoWrite
            /\ UNCHANGED pc
  /\ UNCHANGED <<rest, open, socket, queue, processing, ret>>

WriteFails ==
  /\ ~Faulty /\ writing # NoWrite /\ ~open
  /\ handlers' = Append(handlers, "error")
  /\ writing' = NoWrite
  /\ UNCHANGED <<rest, open, socket, delivered, queue, processing, pc, ret>>

ConnectionLost ==
  /\ ~Faulty /\ open
  /\ open' = FALSE
  /\ UNCHANGED <<rest, socket, writing, handlers, delivered, queue, processing, pc, ret>>

-----------------------------------------------------------------------------
(* ProcessTCPSendQueue, the handler of a write.                              *)

(* Faulty variant: the flag is cleared although messages are left.           *)
HandlerPopForgets ==
  /\ handlers # <<>> /\ Head(handlers) = "ok" /\ queue # <<>>
  /\ Goto(Asio, "run", "clear")
  /\ handlers' = Tail(handlers)
  /\ queue' = Tail(queue)
  /\ UNCHANGED <<rest, open, socket, writing, delivered, processing, ret>>

(* Faulty variant: the message that was written stays in the queue.          *)
HandlerPopKeeps ==
  /\ handlers # <<>> /\ Head(handlers) = "ok"
  /\ Goto(Asio, "run", "popped")
  /\ handlers' = Tail(handlers)
  /\ UNCHANGED <<rest, open, socket, writing, delivered, queue, processing, ret>>

HandlerPop ==
  /\ handlers # <<>> /\ Head(handlers) = "ok"
  /\ Goto(Asio, "run", IF queue = <<>> THEN "popEmpty" ELSE "popped")
  /\ handlers' = Tail(handlers)
  /\ queue' = IF queue = <<>> THEN queue ELSE Tail(queue)
  /\ UNCHANGED <<rest, open, socket, writing, delivered, processing, ret>>

HandlerTest ==
  /\ Goto(Asio, "popped", IF queue = <<>> THEN "clear" ELSE "start")
  /\ ret' = [ret EXCEPT ![Asio] = "run"]
  /\ UNCHANGED <<rest, netVars, queue, processing>>

HandlerClear ==
  /\ Goto(Asio, "clear", "run")
  /\ processing' = FALSE
  /\ UNCHANGED <<rest, netVars, queue, ret>>

(* The failed message stays at the front of the queue.                       *)
HandlerError ==
  /\ handlers # <<>> /\ Head(handlers) = "error"
  /\ At(Asio, "run")
  /\ handlers' = Tail(handlers)
  /\ processing' = FALSE
  /\ UNCHANGED <<rest, open, socket, writing, delivered, queue, pc, ret>>

(* Faulty variant: the timer is not armed again.                             *)
DoPingOnce ==
  /\ timer
  /\ Push(Asio, "run", "run", Ping)
  /\ timer' = FALSE
  /\ UNCHANGED unread

(* DoPing: the timer is armed again at the end of the same handler.          *)
DoPing ==
  /\ timer
  /\ Cardinality({i \in DOMAIN queue : queue[i] = Ping}) < MaxPings
  /\ Push(Asio, "run", "run", Ping)
  /\ UNCHANGED <<timer, unread>>

(* ParseMessage: ServerSync ends the handshake and wakes Connect, without     *)
(* state_cv_mtx_.  The message may have been read before the connection broke. *)
ServerSync ==
  /\ state = "handshake" /\ delivered >= 2
  /\ Goto(Asio, "run", "notify")
  /\ state' = "authenticated"
  /\ UNCHANGED <<timer, unread, sent, netVars, queue, processing, ret>>

SyncNotify ==
  /\ At(Asio, "notify")
  /\ pc' = [t \in Threads |-> IF t = Asio THEN "run"
                             ELSE IF pc[t] = "asleep" THEN "await" ELSE pc[t]]
  /\ UNCHANGED <<rest, netVars, queue, processing, ret>>

Handle ==
  \/ HandlerPop \/ HandlerTest \/ HandlerClear \/ HandlerError
  \/ DoPing \/ ServerSync \/ SyncNotify

-----------------------------------------------------------------------------
(* SetComment asserts that the client is authenticated, and then sends.       *)

SetComment(t, from, back) ==
  /\ \/ /\ state = "authenticated"
        /\ Goto(t, from, "comment")
        /\ ret' = [ret EXCEPT ![t] = back]
     \/ /\ state # "authenticated"
        /\ Goto(t, from, "notAuthenticated")
        /\ UNCHANGED ret
  /\ UNCHANGED <<rest, netVars, queue, processing>>

PushComment(t) ==
  /\ Push(t, "comment", ret[t], sent + 1)
  /\ UNCHANGED <<timer, unread>>

(* The comments that are still to come out of the calls begun.                *)
Due == Cardinality({t \in Threads : pc[t] = "comment"})
         + Cardinality({t \in Threads : Place(t) \in {"message", "status"}})
Room == sent + Due < MaxMessages

(* A server gets songs, and so comments, once Connect has returned, whatever   *)
(* became of it: from the playback thread, and from the thread that called    *)
(* Connect until it calls Disconnect.                                        *)
Comment(t) ==
  /\ Room
  /\ \/ \E from \in {"up", "failed"} : t = Main /\ SetComment(Main, from, from)
     \/ /\ t \in Senders /\ Place(Main) \in {"up", "failed", "clearing", "closing", "down"}
        /\ SetComment(t, "idle", "idle")

(* The server sends a text message to a user it knows.                       *)
TextArrives ==
  /\ ~Faulty /\ open /\ state = "authenticated" /\ ~unread
  /\ unread' = TRUE
  /\ UNCHANGED <<state, timer, sent, netVars, queue, processing, pc, ret>>

(* ParseMessage of a text message, which a connection that broke or was closed *)
(* after the read does not stop: without the authentication it is dropped,     *)
(* and "eq reset" is the one that onTxtMsg answers with nothing.               *)
TextMessage ==
  /\ unread /\ unread' = FALSE
  /\ \/ state = "authenticated" /\ Room /\ Goto(Asio, "run", "message")
     \/ At(Asio, "run") /\ UNCHANGED pc
  /\ UNCHANGED <<state, timer, sent, netVars, queue, processing, ret>>

(* onTxtMsg: "stop", "+" and "-" set the comment, "status", "playlist" and     *)
(* "help" send a text to "music" if it is known, and all end with a comment.  *)
Reply ==
  \/ Room /\ SetComment(Asio, "message", "status")
  \/ Room /\ PushNext(Asio, "message", "status")
  \/ \E from \in {"message", "status"} : SetComment(Asio, from, "run")

-----------------------------------------------------------------------------
(* Connect and Disconnect.                                                   *)

(* Connect up to the end of the handshake.  On an error it returns, with the   *)
(* socket it made, or throws, before it has made one; the server stays in     *)
(* Dolanik::servers either way, and nothing looks at that socket.              *)
Connect ==
  /\ socket' = TRUE
  /\ \/ /\ Goto(Main, "new", "failed")
        /\ UNCHANGED <<state, open>>
     \/ /\ Goto(Main, "new", "connected")
        /\ state' = "handshake" /\ open' = TRUE
  /\ UNCHANGED <<timer, unread, sent, writing, handlers, delivered, queue, processing, ret>>

SendVersion == PushNext(Main, "connected", "authenticate")
SendAuthenticate == PushNext(Main, "authenticate", "ping")
FirstPing ==
  /\ Push(Main, "ping", "await", Ping)
  /\ timer' = TRUE
  /\ UNCHANGED unread

(* The wait for the end of the handshake tests, then sleeps: ServerSync may   *)
(* come in between.                                                          *)
AwaitTest ==
  /\ Goto(Main, "await", IF state = "authenticated" THEN "up" ELSE "decided")
  /\ UNCHANGED <<rest, netVars, queue, processing, ret>>

AwaitSleep ==
  /\ Goto(Main, "decided", "asleep")
  /\ UNCHANGED <<rest, netVars, queue, processing, ret>>

(* Disconnect: the queue is cleared before the operations on the socket are  *)
(* cancelled; a finished write keeps its handler, a pending one is aborted.  *)
(* cancel() does not reach a timer handler that is already due.              *)
Disconnect ==
  /\ Goto(Main, "up", "clearing")
  /\ timer' \in {timer, FALSE}
  /\ queue' = <<>>
  /\ UNCHANGED <<state, unread, sent, netVars, processing, ret>>

(* After a failed Connect state_ is kStateNew, and Disconnect returns at once. *)
DisconnectFailed ==
  /\ Goto(Main, "failed", "down")
  /\ UNCHANGED <<rest, netVars, queue, processing, ret>>

CloseSocket ==
  /\ Goto(Main, "clearing", "closing")
  /\ open' = FALSE /\ socket' = FALSE
  /\ handlers' = IF writing = NoWrite THEN handlers ELSE Append(handlers, "error")
  /\ writing' = NoWrite
  /\ UNCHANGED <<rest, delivered, queue, processing, ret>>

(* Faulty variant: state_ is not reset.                                      *)
DisconnectedKeepsState ==
  /\ Goto(Main, "closing", "down")
  /\ UNCHANGED <<rest, netVars, queue, processing, ret>>

Disconnected ==
  /\ Goto(Main, "closing", "down")
  /\ state' = "new"
  /\ UNCHANGED <<timer, unread, sent, netVars, queue, processing, ret>>

MainProceeds ==
  \/ SendVersion \/ SendAuthenticate \/ FirstPing
  \/ AwaitTest \/ AwaitSleep \/ CloseSocket \/ Disconnected

-----------------------------------------------------------------------------
Step ==
  \/ \E t \in Threads : Send(t) \/ Comment(t) \/ PushComment(t)
  \/ WriteDone \/ WriteFails \/ ConnectionLost
  \/ Handle \/ TextArrives \/ TextMessage \/ Reply
  \/ MainProceeds \/ Connect \/ Disconnect \/ DisconnectFailed

Noted == raced' = (raced \/ Cardinality(Inside') > 1)

Next == Step /\ Noted

Spec == Init /\ [][Next]_vars

(* A thread that is inside a call goes on, the io_service thread runs the    *)
(* handlers that are due, and a write ends one way or the other.  Nothing    *)
(* makes a peer answer, a connection fail or a client connect.               *)
FairSpec ==
  /\ Spec
  /\ \A t \in Threads : WF_vars((Send(t) \/ PushComment(t)) /\ Noted)
  /\ WF_vars((HandlerPop \/ HandlerTest \/ HandlerClear \/ HandlerError) /\ Noted)
  /\ WF_vars(DoPing /\ Noted)
  /\ WF_vars((SyncNotify \/ Reply) /\ Noted)
  /\ WF_vars(MainProceeds /\ Noted)
  /\ WF_vars((WriteDone \/ WriteFails) /\ Noted)

-----------------------------------------------------------------------------
(* Every variable stays in its range, and tcp_socket_ is there whenever state_ *)
(* says that the client is connected, but for the end of Disconnect.          *)
TypeOK ==
  /\ state \in {"new", "handshake", "authenticated"}
  /\ state # "new" => socket \/ pc[Main] = "closing"
  /\ open \in BOOLEAN /\ socket \in BOOLEAN /\ processing \in BOOLEAN
  /\ timer \in BOOLEAN /\ unread \in BOOLEAN /\ raced \in BOOLEAN
  /\ sent \in Nat /\ delivered \in 0 .. sent
  /\ queue \in Seq(Nat)
  /\ writing \in Nat \cup {NoWrite}
  /\ handlers \in Seq({"ok", "error"})
  /\ pc \in [Threads -> Outside \cup Faults \cup
                          {"test", "start", "front", "popped", "clear", "clearing", "closing"}]
  /\ ret \in [Threads -> {"none"} \cup Outside]

(* As long as no two threads were inside the queue's code at once, no message *)
(* is lost, sent twice or overtaken: the server gets them in the order in    *)
(* which SendMessage pushed them, across failures and Disconnect.            *)
Arrives == writing > 0 /\ writing' = NoWrite /\ handlers' = Append(handlers, "ok")
DeliveredInOrder ==
  [][raced' \/ delivered' = IF Arrives THEN delivered + 1 ELSE delivered]_vars

(* As long as no two threads were inside the queue's code at once, these are   *)
(* the only ways to a failed assertion or to undefined behaviour in it:        *)
(* after Disconnect, on the io thread, the handler of a write that had ended   *)
(* before the queue was cleared (it pops the empty queue, or what was pushed   *)
(* since, and writes to the deleted socket) and the comment that answers a     *)
(* text message taken up before; the comment of any other thread without a     *)
(* connection: after Disconnect, or after a Connect that failed.               *)
(* While connected no write overlaps another, reads an empty queue or sends    *)
(* freed memory.                                                             *)
FaultNeedsRaceOrDisconnect ==
  (Faulty /\ ~raced) =>
    \/ pc[Main] = "down" /\ pc[Asio] \in {"popEmpty", "nullSocket", "notAuthenticated"}
    \/ pc[Main] \in {"down", "failed"} /\ \E t \in Senders : pc[t] = "notAuthenticated"
    \/ pc[Main] = "notAuthenticated" /\ sent = 0

(* While nobody is inside, processing_tcp_queue_ says that a write or its    *)
(* handler is under way, and a live connection leaves no message behind      *)
(* without one: no call has to come to get the queue moving.                 *)
NoMessageStranded ==
  (~raced /\ Inside = {} /\ state # "new") =>
    /\ processing <=> (writing # NoWrite \/ handlers # <<>>)
    /\ (open /\ queue # <<>>) => processing

(* Even when a push and the end of a write race, a message queued on a live   *)
(* connection leaves the queue in the end: the next ping restarts it.        *)
Queued(m) == \E i \in DOMAIN queue : queue[i] = m
QueueDrains ==
  \A m \in 1 .. MaxMessages : Queued(m) ~> (~Queued(m) \/ Faulty \/ ~open)
=============================================================================
