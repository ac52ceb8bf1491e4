------------------------------ MODULE Inbound ------------------------------
(***************************************************************************)
(* What comes in from a Mumble server (libmumbleclient/Client.cpp): the      *)
(* stream, split anywhere, is read into recv_buffer_, cut into messages by   *)
(* ReadHandler, HandleMessageContent and ReadHandlerContinue in the          *)
(* io_service thread, and applied to the lists of users and channels         *)
(* (Roster), which Disconnect clears in another thread.                      *)
(*                                                                          *)
(* The stream is counted in bytes; a message is HEADER bytes and a body      *)
(* whose size depends on its type.                                           *)
(***************************************************************************)
EXTENDS Roster, FiniteSets, Functions

CONSTANTS HEADER,        \* bytes of a header, 6 in the code
          Body,          \* bytes of a body, by type
          Sessions, Self,  \* users of the server; the client's own
          Channels,      \* channels there may be, the root not among them
          MaxMessages,   \* bound: messages the server sends
          ReadAhead      \* bound: how much more than it asked for a read brings

ASSUME InboundAssumption ==
  /\ HEADER \in Nat \ {0}
  /\ Body \in [{"UserRemove", "UserState", "ChannelRemove", "ChannelState", "Other"} -> Nat]
  /\ Self \in Sessions /\ Channels # {} /\ Channels \subseteq Nat \ {Root}
  /\ MaxMessages \in Nat
  /\ ReadAhead \in Nat

VARIABLES
  users, tree,   \* the server: user -> channel and comment; channel -> parent
  comments,
  leaving,       \* the channel the server is about to remove, or Absent
  sent,          \* the messages it sent, each with the server's state after it
                 \* and with the length of the stream up to its end
  arrived,       \* bytes of the stream read into recv_buffer_
  parsed,        \* bytes taken out of it
  handled,       \* messages parsed
  reader,        \* where the reading is
  handler,       \* the handler of the read under way or of the last one
  need,          \* transfer_at_least of the read under way
  after,         \* the handler that started it
  roster,
  link,          \* "up", "cleared", "closed": Disconnect; "lost": an error
  fault          \* what went wrong in the reader

server == <<users, tree, comments, leaving, sent>>
reading == <<arrived, parsed, handled, reader, handler, need, after, roster, fault>>
vars == <<server, reading, link>>

Size(m) == HEADER + Body[m.type]
End(i) == IF i = 0 THEN 0 ELSE sent[i].ends
Stream == End(Len(sent))   \* bytes of the whole stream
Following == sent[handled + 1].message
Buffered == arrived - parsed
Faulty == fault # "none" \/ roster.fault # "none"

UserState(s, channel, comment) ==
  [type |-> "UserState", session |-> s, channel |-> channel, comment |-> comment]
ChannelState(id, parent) == [type |-> "ChannelState", id |-> id, parent |-> parent]

Entry(m, us, cs, tr, ends) ==
  [message |-> m, users |-> us, comments |-> cs, tree |-> tr, ends |-> ends]
With(f, x, y) == [z \in DOMAIN f \cup {x} |-> IF z = x THEN y ELSE f[z]]

(* After the handshake the server has sent its channels, parents first, and    *)
(* the client's own user; the client has begun to read.                      *)
First == CHOOSE c \in Channels : TRUE
Init ==
  /\ users \in [{Self} -> {Root, First}]
  /\ tree = [c \in {Root, First} |-> Root] /\ comments = [s \in {Self} |-> 0]
  /\ leaving = Absent
  /\ LET own == IF users[Self] = Root THEN Absent ELSE users[Self]
         m1 == ChannelState(Root, Root)
         m2 == ChannelState(First, Root)
         m3 == UserState(Self, own, Absent)
     IN  sent = << Entry(m1, <<>>, <<>>, [c \in {Root} |-> Root], Size(m1)),
                   Entry(m2, <<>>, <<>>, tree, Size(m1) + Size(m2)),
                   Entry(m3, users, comments, tree, Size(m1) + Size(m2) + Size(m3)) >>
  /\ arrived = 0 /\ parsed = 0 /\ handled = 0
  /\ reader = "reading" /\ handler = "ReadHandler" /\ need = HEADER
  /\ after = "ReadHandler"
  /\ roster = EmptyRoster /\ link = "up" /\ fault = "none"

-----------------------------------------------------------------------------
(* The server, external: it tells its client every change in order.  It      *)
(* removes a channel only when its channels and users have left it.  What it   *)
(* sends while Disconnect runs is as if it had been on its way before.       *)

Sends(m) ==
  /\ Len(sent) < MaxMessages /\ link = "up"
  /\ sent' = Append(sent, Entry(m, users', comments', tree', Stream + Size(m)))
  /\ UNCHANGED <<reading, link>>

Join(s) ==
  /\ s \notin DOMAIN users
  /\ users' = With(users, s, Root) /\ comments' = With(comments, s, 0)
  /\ UNCHANGED <<tree, leaving>>
  /\ Sends(UserState(s, Absent, Absent))

Leave(s) ==
  /\ s \in DOMAIN users \ {Self}
  /\ users' = Restrict(users, DOMAIN users \ {s})
  /\ comments' = Restrict(comments, DOMAIN comments \ {s})
  /\ UNCHANGED <<tree, leaving>>
  /\ Sends([type |-> "UserRemove", session |-> s])

Move(c) ==
  /\ c \in DOMAIN tree \ {users[Self], leaving}
  /\ users' = [users EXCEPT ![Self] = c]
  /\ UNCHANGED <<tree, comments, leaving>>
  /\ Sends(UserState(Self, c, Absent))

SetComment ==
  /\ comments' = [comments EXCEPT ![Self] = 1 - @]
  /\ UNCHANGED <<users, tree, leaving>>
  /\ Sends(UserState(Self, Absent, comments'[Self]))

AddChannel(c, parent) ==
  /\ c \in Channels \ DOMAIN tree /\ parent \in DOMAIN tree \ {leaving}
  /\ tree' = With(tree, c, parent)
  /\ UNCHANGED <<users, comments, leaving>>
  /\ Sends(ChannelState(c, parent))

BeginRemove(c) ==
  /\ leaving = Absent /\ link = "up" /\ c \in DOMAIN tree \ {Root}
  /\ \A d \in DOMAIN tree : tree[d] # c
  /\ leaving' = c
  /\ UNCHANGED <<users, tree, comments, sent, reading, link>>

RemoveChannel ==
  /\ leaving # Absent /\ \A s \in DOMAIN users : users[s] # leaving
  /\ tree' = Restrict(tree, DOMAIN tree \ {leaving})
  /\ leaving' = Absent
  /\ UNCHANGED <<users, comments>>
  /\ Sends([type |-> "ChannelRemove", id |-> leaving])

(* A message about something else, or about a channel that has changed.      *)
Other ==
  /\ UNCHANGED <<users, tree, comments, leaving>>
  /\ \/ Sends([type |-> "Other"])
     \/ First \in DOMAIN tree /\ Sends(ChannelState(First, tree[First]))

Server ==
  \/ \E s \in Sessions : Join(s) \/ Leave(s)
  \/ \E c \in Channels \cup {Root} : Move(c)
  \/ \E c \in Channels : BeginRemove(c) \/ \E p \in Channels \cup {Root} : AddChannel(c, p)
  \/ RemoveChannel \/ SetComment \/ Other

-----------------------------------------------------------------------------
(* The io_service thread.  async_read counts the new bytes only.             *)

ReadCompletes ==
  /\ reader = "reading" /\ link \in {"up", "cleared"}
  /\ \E n \in need .. need + ReadAhead : arrived + n <= Stream /\ arrived' = arrived + n
  /\ reader' = IF handler = "ReadHandler" THEN "header" ELSE "content"
  /\ UNCHANGED <<server, parsed, handled, handler, need, after, roster, link, fault>>

(* The read is cancelled or fails, and its handler returns.                   *)
ReadFails ==
  /\ reader = "reading" /\ link \in {"up", "closed"}
  /\ reader' = "stopped" /\ link' = IF link = "up" THEN "lost" ELSE link
  /\ UNCHANGED <<server, arrived, parsed, handled, handler, need, after, roster, fault>>

(* The top of ReadHandler's loop.                                            *)
ReadHeader ==
  /\ reader = "header"
  /\ IF parsed = End(handled) /\ Buffered >= HEADER
       THEN /\ parsed' = parsed + HEADER
            /\ reader' = "content"
            /\ UNCHANGED fault
       ELSE fault' = "garbled" /\ UNCHANGED <<parsed, reader>>
  /\ UNCHANGED <<server, arrived, handled, handler, need, after, roster, link>>

BodyHere == Buffered >= Body[Following.type]

(* HandleMessageContent with a body that is not all there.  ReadHandler        *)
(* returns then, ReadHandlerContinue would go on to a second read.           *)
ContentMissing(bytes) ==
  /\ reader = "content" /\ ~BodyHere
  /\ IF link = "closed"
       THEN reader' = "stopped" /\ UNCHANGED <<handler, need, after, fault>>
       ELSE /\ reader' = "reading" /\ handler' = "ReadHandlerContinue" /\ after' = handler
            /\ need' = bytes
            /\ fault' = IF handler = "ReadHandlerContinue" THEN "twoReads" ELSE fault
  /\ UNCHANGED <<server, arrived, parsed, handled, roster, link>>

(* Faulty variants: what is there already is asked for again; the difference  *)
(* is taken the wrong way round.                                             *)
ContentAsksTooMuch == ContentMissing(Body[Following.type])
ContentNegative == ContentMissing(Buffered - Body[Following.type])
Content == ContentMissing(Body[Following.type] - Buffered)

(* The message is parsed; then ReadHandler's loop condition, and its end.     *)
ParseAndGoOn(least) ==
  /\ reader = "content" /\ BodyHere
  /\ parsed' = parsed + Body[Following.type]
  /\ roster' = ParseMessage(roster, Following)
  /\ handled' = handled + 1
  /\ reader' = IF handler = "ReadHandler" /\ arrived - parsed' >= least THEN "header"
               ELSE "requeue"
  /\ UNCHANGED <<server, arrived, handler, need, after, link, fault>>

(* Faulty variant: the loop goes on with any byte that is left.              *)
ParseLoopsOnByte == ParseAndGoOn(1)
Parse == ParseAndGoOn(HEADER)

(* The test of tcp_socket_, and the read it guards.                          *)
Requeue ==
  /\ reader = "requeue"
  /\ reader' = IF link = "closed" THEN "stopped" ELSE "requeued"
  /\ UNCHANGED <<server, arrived, parsed, handled, handler, need, after, roster, link, fault>>

ReadMore ==
  /\ reader = "requeued"
  /\ IF link = "closed"
       THEN fault' = "noSocket" /\ UNCHANGED <<reader, handler, need, after>>
       ELSE /\ reader' = "reading" /\ handler' = "ReadHandler" /\ need' = HEADER
            /\ after' = handler
            /\ UNCHANGED fault
  /\ UNCHANGED <<server, arrived, parsed, handled, roster, link>>

-----------------------------------------------------------------------------
(* Disconnect, in another thread: it clears the lists, under the eyes of a    *)
(* handler that may be in them, then closes the socket and deletes it.       *)

Clear ==
  /\ link \in {"up", "lost"}
  /\ link' = "cleared"
  /\ roster' = EmptyRoster
  /\ \/ UNCHANGED fault
     \/ reader = "content" /\ fault' = "raced"
  /\ UNCHANGED <<server, arrived, parsed, handled, reader, handler, need, after>>

Close ==
  /\ link = "cleared"
  /\ link' = "closed"
  /\ UNCHANGED <<server, arrived, parsed, handled, reader, handler, need, after, roster, fault>>

-----------------------------------------------------------------------------
Next ==
  /\ ~Faulty
  /\ \/ Server
     \/ ReadCompletes \/ ReadFails \/ ReadHeader \/ Content \/ Parse \/ Requeue \/ ReadMore
     \/ Clear \/ Close

Spec == Init /\ [][Next]_vars

-----------------------------------------------------------------------------
(* Every variable stays in its range; no read asks for more than a message.   *)
TypeOK ==
  /\ DOMAIN users \subseteq Sessions /\ DOMAIN tree \subseteq Channels \cup {Root}
  /\ leaving \in Channels \cup {Absent}
  /\ parsed \in 0 .. arrived /\ arrived \in 0 .. Stream /\ handled \in 0 .. Len(sent)
  /\ reader \in {"reading", "header", "content", "requeue", "requeued", "stopped"}
  /\ {handler, after} \subseteq {"ReadHandler", "ReadHandlerContinue"}
  /\ need \in Nat \ {0} /\ (need <= HEADER \/ \E t \in DOMAIN Body : need <= Body[t])
  /\ link \in {"up", "lost", "cleared", "closed"}
  /\ fault \in {"none", "garbled", "twoReads", "noSocket", "raced"}

(* However the stream is split, the reader stays in step with it: headers are  *)
(* read where messages begin, no byte is skipped or parsed twice, and a        *)
(* second read is never started while one is under way.                      *)
InBody == reader = "content" \/ (reader = "reading" /\ handler = "ReadHandlerContinue")
FramesInSync ==
  /\ fault \notin {"garbled", "twoReads"}
  /\ reader # "stopped" =>
       parsed = End(handled) + IF InBody THEN HEADER ELSE 0

(* Until Disconnect the lists are the server's as of the last message parsed,  *)
(* no one twice, everyone in a channel that is there, and no assertion of a    *)
(* handler fails.  Only Disconnect, whose lists are cleared under a handler    *)
(* that may still run, brings a failed assertion or a deleted socket in use. *)
RosterMirrors ==
  link \in {"up", "lost"} =>
    /\ ~Faulty
    /\ Cardinality(Range(roster.users)) = Len(roster.users)
    /\ handled > 0 =>
         LET now == sent[handled]
         IN  /\ Range(roster.channels) = DOMAIN now.tree
             /\ Range(roster.users) =
                  {[session |-> s, channel |-> now.users[s], comment |-> now.comments[s]] :
                     s \in DOMAIN now.users}

(* A message that has come as a whole waits for a later one only when the      *)
(* message before it came in pieces (ReadHandlerContinue does not look for     *)
(* more in recv_buffer_) or its own header did (a read counts new bytes).    *)
PromptUnlessSplit ==
  reader = "reading" /\ link = "up" /\ Stream - arrived < need /\ handled < Len(sent) =>
    /\ handler = "ReadHandler"
    /\ after = "ReadHandlerContinue" \/ Buffered \in 1 .. HEADER - 1
=============================================================================
