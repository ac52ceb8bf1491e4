------------------------------- MODULE Roster -------------------------------
(***************************************************************************)
(* The users and channels of a server as a MumbleClient knows them           *)
(* (libmumbleclient/Client.cpp, HandleUserRemove to HandleChannelState).     *)
(* A roster is a record of user_list_, channel_list_ and of the assertion    *)
(* that failed, if one did.  A user's weak pointer to a channel is that      *)
(* channel's id; names, hashes and parents are left out.                     *)
(***************************************************************************)
EXTENDS Integers, Sequences, SequencesExt

Absent == -1   \* an optional field of a message that is not there
Root == 0
EmptyRoster == [users |-> <<>>, channels |-> <<>>, fault |-> "none"]

FindUser(r, session) == {i \in DOMAIN r.users : r.users[i].session = session}
FindChannel(r, id) == {i \in DOMAIN r.channels : r.channels[i] = id}
The(found) == CHOOSE i \in found : TRUE   \* what the loop finds: there is no other (RosterMirrors)

Asserted(r, condition, name, result) ==
  IF condition THEN result ELSE [r EXCEPT !.fault = name]

HandleUserRemove(r, ur) ==
  Asserted(r, FindUser(r, ur.session) # {}, "user",
    [r EXCEPT !.users = RemoveAt(@, The(FindUser(r, ur.session)))])

(* channel_id() of a message without one is 0, the root channel.             *)
NewUser(r, us) ==
  LET channel == IF us.channel = Absent THEN Root ELSE us.channel
      comment == IF us.comment = Absent THEN 0 ELSE us.comment
  IN  Asserted(r, FindChannel(r, channel) # {}, "channel",
        [r EXCEPT !.users = Append(@, [session |-> us.session, channel |-> channel,
                                       comment |-> comment])])

(* Faulty variant: a message without a channel moves a user to the root.     *)
KnownUserNoTest(r, us) ==
  LET i == The(FindUser(r, us.session))
  IN  [r EXCEPT !.users[i].channel = IF us.channel = Absent THEN Root ELSE us.channel]

KnownUser(r, us) ==
  Asserted(r, us.channel = Absent \/ FindChannel(r, us.channel) # {}, "channel",
    LET i == The(FindUser(r, us.session))
    IN  [r EXCEPT !.users[i].channel = IF us.channel = Absent THEN @ ELSE us.channel,
                  !.users[i].comment = IF us.comment = Absent THEN @ ELSE us.comment])

HandleUserState(r, us) ==
  IF FindUser(r, us.session) = {} THEN NewUser(r, us) ELSE KnownUser(r, us)

HandleChannelRemove(r, cr) ==
  Asserted(r, FindChannel(r, cr.id) # {}, "channel",
    [r EXCEPT !.channels = RemoveAt(@, The(FindChannel(r, cr.id)))])

(* A channel that is known already keeps the name and parent it has.          *)
HandleChannelState(r, cs) ==
  IF FindChannel(r, cs.id) # {} THEN r
  ELSE Asserted(r, cs.parent = Root \/ FindChannel(r, cs.parent) # {}, "parent",
         [r EXCEPT !.channels = Append(@, cs.id)])

(* ParseMessage, for the messages that change the roster.                    *)
ParseMessage(r, m) ==
  CASE m.type = "UserRemove" -> HandleUserRemove(r, m)
    [] m.type = "UserState" -> HandleUserState(r, m)
    [] m.type = "ChannelRemove" -> HandleChannelRemove(r, m)
    [] m.type = "ChannelState" -> HandleChannelState(r, m)
    [] OTHER -> r
=============================================================================
