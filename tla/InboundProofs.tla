--------------------------- MODULE InboundProofs ---------------------------
(***************************************************************************)
(* Proofs about Inbound: however the stream of a server is split, its reader *)
(* stays in step with it (ReadHandler, HandleMessageContent and              *)
(* ReadHandlerContinue of libmumbleclient/Client.cpp), and until Disconnect  *)
(* the lists of users and channels are the server's as of the last message   *)
(* parsed.                                                                  *)
(*                                                                          *)
(* Three arguments meet in the invariant InboundInv: the log of the server   *)
(* (SentInv: what each message told, and where it ends in the stream), the   *)
(* position of the reader in that log (InStep, ReadsInv), and the lists,     *)
(* compared with the entry of the log the reader has come to (RosterInv).    *)
(***************************************************************************)
EXTENDS Inbound, FiniteSetTheorems, SequenceTheorems, TLAPS

(* What user_list_ holds.                                                  *)
UserRecord == [session : Sessions, channel : Int, comment : Int]

(* The list has every user of the server once, where the server has them.  *)
(* It is said by index, as the handlers search; InboundMirrors turns it    *)
(* into an equality of sets.                                               *)
UsersMirror(list, us, cs) ==
  /\ list \in Seq(UserRecord)
  /\ \A i \in 1 .. Len(list) :
       /\ list[i].session \in DOMAIN us
       /\ list[i].channel = us[list[i].session]
       /\ list[i].comment = cs[list[i].session]
  /\ \A s \in DOMAIN us : \E i \in 1 .. Len(list) : list[i].session = s
  /\ \A i, j \in 1 .. Len(list) : list[i].session = list[j].session => i = j

(* The same of the list of channels.                                       *)
ChannelsMirror(list, tr) ==
  /\ list \in Seq(Int)
  /\ \A i \in 1 .. Len(list) : list[i] \in DOMAIN tr
  /\ \A c \in DOMAIN tr : \E i \in 1 .. Len(list) : list[i] = c
  /\ \A i, j \in 1 .. Len(list) : list[i] = list[j] => i = j

-----------------------------------------------------------------------------
(* user_list_.remove and channel_list_.remove: what follows the element    *)
(* moves up by one.                                                        *)
LEMMA RemoveAtFacts ==
  ASSUME NEW S, NEW list \in Seq(S), NEW k \in 1 .. Len(list)
  PROVE  /\ RemoveAt(list, k) \in Seq(S)
         /\ Len(RemoveAt(list, k)) = Len(list) - 1
         /\ \A j \in 1 .. Len(list) - 1 :
              RemoveAt(list, k)[j] = list[IF j < k THEN j ELSE j + 1]
<1> DEFINE a == SubSeq(list, 1, k - 1)
           b == SubSeq(list, k + 1, Len(list))
<1>1. Len(list) \in Nat /\ k \in Int
  OBVIOUS
<1>2. /\ a \in Seq(S) /\ Len(a) = k - 1
      /\ \A j \in 1 .. k - 1 : a[j] = list[j]
  BY <1>1
<1>3. /\ b \in Seq(S) /\ Len(b) = Len(list) - k
      /\ \A j \in 1 .. Len(list) - k : b[j] = list[k + j]
  BY <1>1
<1>4. RemoveAt(list, k) = a \o b
  BY DEF RemoveAt
<1> HIDE DEF a, b
<1>5. /\ a \o b \in Seq(S) /\ Len(a \o b) = Len(list) - 1
  <2>1. a \o b \in Seq(S) /\ Len(a \o b) = Len(a) + Len(b)
    BY <1>2, <1>3, ConcatProperties
  <2>2. (k - 1) + (Len(list) - k) = Len(list) - 1
    BY <1>1
  <2> QED BY <1>2, <1>3, <2>1, <2>2
<1>6. ASSUME NEW j \in 1 .. Len(list) - 1
      PROVE  (a \o b)[j] = list[IF j < k THEN j ELSE j + 1]
  <2>1. CASE j < k
    BY <1>1, <1>2, <1>3, <2>1
  <2>2. CASE ~(j < k)
    <3>1. j - (k - 1) \in 1 .. Len(list) - k /\ k + (j - (k - 1)) = j + 1
      BY <1>1, <2>2
    <3>2. (a \o b)[j] = b[j - (k - 1)]
      BY <1>1, <1>2, <1>3, <2>2
    <3> QED BY <1>3, <2>2, <3>1, <3>2
  <2> QED BY <2>1, <2>2
<1> QED BY <1>4, <1>5, <1>6

(* Removing the record of a user mirrors the server without that user      *)
(* (HandleUserRemove).                                                     *)
LEMMA UsersRemoved ==
  ASSUME NEW list, NEW us, NEW cs, UsersMirror(list, us, cs), DOMAIN cs = DOMAIN us,
         NEW k \in 1 .. Len(list)
  PROVE  LET rest == DOMAIN us \ {list[k].session}
         IN  UsersMirror(RemoveAt(list, k), Restrict(us, rest), Restrict(cs, rest))
<1> DEFINE x == list[k].session
           new == RemoveAt(list, k)
           At0(j) == IF j < k THEN j ELSE j + 1
           rest == DOMAIN us \ {x}
<1>1. list \in Seq(UserRecord) /\ Len(list) \in Nat
  BY DEF UsersMirror
<1>2. /\ new \in Seq(UserRecord) /\ Len(new) = Len(list) - 1
      /\ \A j \in 1 .. Len(list) - 1 : new[j] = list[IF j < k THEN j ELSE j + 1]
  BY ONLY <1>1, k \in 1 .. Len(list), RemoveAtFacts
<1>3. /\ DOMAIN Restrict(us, rest) = rest
      /\ \A y \in rest : Restrict(us, rest)[y] = us[y] /\ Restrict(cs, rest)[y] = cs[y]
  BY DEF Restrict
<1>4. ASSUME NEW j \in 1 .. Len(new)
      PROVE  At0(j) \in 1 .. Len(list) /\ At0(j) # k /\ new[j] = list[At0(j)]
  BY <1>1, <1>2
<1> HIDE DEF new, At0
<1>5. ASSUME NEW j \in 1 .. Len(new)
      PROVE  /\ new[j].session \in rest
             /\ new[j].channel = us[new[j].session] /\ new[j].comment = cs[new[j].session]
  <2>1. PICK i \in 1 .. Len(list) : i # k /\ new[j] = list[i]
    BY <1>4
  <2>2. list[i].session # x
    BY <2>1 DEF UsersMirror
  <2> QED BY <2>1, <2>2 DEF UsersMirror
<1>6. ASSUME NEW s \in rest
      PROVE  \E j \in 1 .. Len(new) : new[j].session = s
  <2>1. PICK i \in 1 .. Len(list) : list[i].session = s
    BY DEF UsersMirror
  <2>2. i # k
    BY <2>1
  <2>3. CASE i < k
    <3>1. i \in 1 .. Len(new) /\ At0(i) = i
      BY <1>1, <1>2, <2>3 DEF At0
    <3> QED BY <1>4, <2>1, <3>1
  <2>4. CASE i > k
    <3>1. i - 1 \in 1 .. Len(new) /\ At0(i - 1) = i
      BY <1>1, <1>2, <2>4 DEF At0
    <3> QED BY <1>4, <2>1, <3>1
  <2> QED BY <1>1, <2>2, <2>3, <2>4
<1>7. ASSUME NEW i \in 1 .. Len(new), NEW j \in 1 .. Len(new), new[i].session = new[j].session
      PROVE  i = j
  <2>1. PICK m \in 1 .. Len(list) : m = At0(i) /\ new[i] = list[m]
    BY <1>4
  <2>2. PICK n \in 1 .. Len(list) : n = At0(j) /\ new[j] = list[n]
    BY <1>4
  <2>3. m = n
    <3>1. list[m].session = list[n].session
      BY <1>7, <2>1, <2>2
    <3>2. \A y, z \in 1 .. Len(list) : list[y].session = list[z].session => y = z
      BY DEF UsersMirror
    <3> QED BY <3>1, <3>2
  <2>4. i \in Int /\ j \in Int /\ k \in Int /\ At0(i) = At0(j)
    BY <1>1, <1>2, <2>1, <2>2, <2>3
  <2> QED BY <2>4 DEF At0
<1> HIDE DEF rest
<1>8. UsersMirror(new, Restrict(us, rest), Restrict(cs, rest))
  BY <1>2, <1>3, <1>5, <1>6, <1>7 DEF UsersMirror
<1> QED BY <1>8 DEF new, rest

(* A record put at the end mirrors the server with one user more.          *)
LEMMA UserAppended ==
  ASSUME NEW list, NEW us, NEW cs, UsersMirror(list, us, cs), DOMAIN cs = DOMAIN us,
         NEW u \in UserRecord, u.session \notin DOMAIN us
  PROVE  UsersMirror(Append(list, u), With(us, u.session, u.channel),
                     With(cs, u.session, u.comment))
<1> DEFINE new == Append(list, u)
           us2 == With(us, u.session, u.channel)
           cs2 == With(cs, u.session, u.comment)
<1>1. list \in Seq(UserRecord) /\ Len(list) \in Nat
  BY DEF UsersMirror
<1>2. /\ new \in Seq(UserRecord) /\ Len(new) = Len(list) + 1
      /\ \A j \in 1 .. Len(list) : new[j] = list[j]
      /\ new[Len(list) + 1] = u
  BY <1>1
<1>3. /\ DOMAIN us2 = DOMAIN us \cup {u.session}
      /\ \A y \in DOMAIN us : us2[y] = us[y] /\ cs2[y] = cs[y]
      /\ us2[u.session] = u.channel /\ cs2[u.session] = u.comment
  BY DEF With
<1> HIDE DEF new, us2, cs2
<1>4. ASSUME NEW j \in 1 .. Len(new)
      PROVE  /\ new[j].session \in DOMAIN us2
             /\ new[j].channel = us2[new[j].session] /\ new[j].comment = cs2[new[j].session]
  <2>1. CASE j \in 1 .. Len(list)
    <3>1. /\ list[j].session \in DOMAIN us
          /\ list[j].channel = us[list[j].session] /\ list[j].comment = cs[list[j].session]
      BY <2>1 DEF UsersMirror
    <3>2. new[j] = list[j]
      BY <1>2, <2>1
    <3> QED BY <1>3, <3>1, <3>2
  <2>2. CASE j = Len(list) + 1
    BY <1>2, <1>3, <2>2
  <2> QED BY <1>1, <1>2, <2>1, <2>2
<1>5. ASSUME NEW s \in DOMAIN us2
      PROVE  \E j \in 1 .. Len(new) : new[j].session = s
  <2>1. CASE s = u.session
    BY <1>1, <1>2, <2>1
  <2>2. CASE s \in DOMAIN us
    <3>1. PICK i \in 1 .. Len(list) : list[i].session = s
      BY <2>2 DEF UsersMirror
    <3> QED BY <1>1, <1>2, <3>1
  <2> QED BY <1>3, <2>1, <2>2
<1>6. ASSUME NEW i \in 1 .. Len(new), NEW j \in 1 .. Len(new), new[i].session = new[j].session
      PROVE  i = j
  <2>1. CASE i \in 1 .. Len(list) /\ j \in 1 .. Len(list)
    BY <1>2, <1>6, <2>1 DEF UsersMirror
  <2>2. ASSUME NEW n \in 1 .. Len(list)
        PROVE  new[n].session # u.session
    BY <1>2 DEF UsersMirror
  <2> QED BY <1>1, <1>2, <1>6, <2>1, <2>2
<1> QED BY <1>2, <1>4, <1>5, <1>6 DEF UsersMirror, new, us2, cs2

(* A record changed in place mirrors the server with that user changed.    *)
LEMMA UserChanged ==
  ASSUME NEW list, NEW us, NEW cs, UsersMirror(list, us, cs),
         NEW k \in 1 .. Len(list), NEW u \in UserRecord, u.session = list[k].session,
         NEW us2, NEW cs2, DOMAIN us2 = DOMAIN us,
         us2[u.session] = u.channel, cs2[u.session] = u.comment,
         \A y \in DOMAIN us \ {u.session} : us2[y] = us[y] /\ cs2[y] = cs[y]
  PROVE  UsersMirror([list EXCEPT ![k] = u], us2, cs2)
<1> DEFINE new == [list EXCEPT ![k] = u]
<1>1. list \in Seq(UserRecord) /\ Len(list) \in Nat
  BY DEF UsersMirror
<1>2. /\ new \in Seq(UserRecord) /\ Len(new) = Len(list)
      /\ new[k] = u /\ \A j \in 1 .. Len(list) : j # k => new[j] = list[j]
  BY <1>1
<1> HIDE DEF new
<1>3. \A j \in 1 .. Len(list) : new[j].session = list[j].session
  BY <1>2
<1>4. ASSUME NEW j \in 1 .. Len(list)
      PROVE  /\ new[j].session \in DOMAIN us2
             /\ new[j].channel = us2[new[j].session] /\ new[j].comment = cs2[new[j].session]
  <2>1. CASE j = k
    BY <1>2, <2>1 DEF UsersMirror
  <2>2. CASE j # k
    <3>1. new[j] = list[j]
      BY <1>2, <2>2
    <3>2. list[j].session \in DOMAIN us \ {u.session}
      BY <2>2 DEF UsersMirror
    <3>3. list[j].channel = us[list[j].session] /\ list[j].comment = cs[list[j].session]
      BY DEF UsersMirror
    <3> QED BY <3>1, <3>2, <3>3
  <2> QED BY <2>1, <2>2
<1>5. /\ \A s \in DOMAIN us2 : \E i \in 1 .. Len(list) : new[i].session = s
      /\ \A i, j \in 1 .. Len(list) : new[i].session = new[j].session => i = j
  BY <1>3 DEF UsersMirror
<1> QED BY <1>2, <1>4, <1>5 DEF UsersMirror, new

(* Removing a channel mirrors the server without it                        *)
(* (HandleChannelRemove).                                                  *)
LEMMA ChannelRemoved ==
  ASSUME NEW list, NEW tr, ChannelsMirror(list, tr), NEW k \in 1 .. Len(list)
  PROVE  ChannelsMirror(RemoveAt(list, k), Restrict(tr, DOMAIN tr \ {list[k]}))
<1> DEFINE new == RemoveAt(list, k)
           At0(j) == IF j < k THEN j ELSE j + 1
           rest == DOMAIN tr \ {list[k]}
<1>1. list \in Seq(Int) /\ Len(list) \in Nat
  BY DEF ChannelsMirror
<1>2. /\ new \in Seq(Int) /\ Len(new) = Len(list) - 1
      /\ \A j \in 1 .. Len(list) - 1 : new[j] = list[IF j < k THEN j ELSE j + 1]
  BY ONLY <1>1, k \in 1 .. Len(list), RemoveAtFacts
<1>3. DOMAIN Restrict(tr, rest) = rest
  BY DEF Restrict
<1>4. ASSUME NEW j \in 1 .. Len(new)
      PROVE  At0(j) \in 1 .. Len(list) /\ At0(j) # k /\ new[j] = list[At0(j)]
  BY <1>1, <1>2
<1> HIDE DEF new, At0
<1>5. ASSUME NEW j \in 1 .. Len(new)
      PROVE  new[j] \in rest
  <2>1. PICK i \in 1 .. Len(list) : i # k /\ new[j] = list[i]
    BY <1>4
  <2> QED BY <2>1 DEF ChannelsMirror
<1>6. ASSUME NEW c \in rest
      PROVE  \E j \in 1 .. Len(new) : new[j] = c
  <2>1. PICK i \in 1 .. Len(list) : list[i] = c
    BY DEF ChannelsMirror
  <2>2. i # k
    BY <2>1
  <2>3. CASE i < k
    <3>1. i \in 1 .. Len(new) /\ At0(i) = i
      BY <1>1, <1>2, <2>3 DEF At0
    <3> QED BY <1>4, <2>1, <3>1
  <2>4. CASE i > k
    <3>1. i - 1 \in 1 .. Len(new) /\ At0(i - 1) = i
      BY <1>1, <1>2, <2>4 DEF At0
    <3> QED BY <1>4, <2>1, <3>1
  <2> QED BY <1>1, <2>2, <2>3, <2>4
<1>7. ASSUME NEW i \in 1 .. Len(new), NEW j \in 1 .. Len(new), new[i] = new[j]
      PROVE  i = j
  <2>1. PICK m \in 1 .. Len(list) : m = At0(i) /\ new[i] = list[m]
    BY <1>4
  <2>2. PICK n \in 1 .. Len(list) : n = At0(j) /\ new[j] = list[n]
    BY <1>4
  <2>3. m = n
    <3>1. list[m] = list[n]
      BY <1>7, <2>1, <2>2
    <3>2. \A y, z \in 1 .. Len(list) : list[y] = list[z] => y = z
      BY DEF ChannelsMirror
    <3> QED BY <3>1, <3>2
  <2>4. i \in Int /\ j \in Int /\ k \in Int /\ At0(i) = At0(j)
    BY <1>1, <1>2, <2>1, <2>2, <2>3
  <2> QED BY <2>4 DEF At0
<1> HIDE DEF rest
<1>8. ChannelsMirror(new, Restrict(tr, rest))
  BY <1>2, <1>3, <1>5, <1>6, <1>7 DEF ChannelsMirror
<1> QED BY <1>8 DEF new, rest

(* A channel put at the end mirrors the server with one channel more.      *)
LEMMA ChannelAppended ==
  ASSUME NEW list, NEW tr, ChannelsMirror(list, tr), NEW c \in Int, c \notin DOMAIN tr, NEW parent
  PROVE  ChannelsMirror(Append(list, c), With(tr, c, parent))
<1> DEFINE new == Append(list, c)
<1>1. list \in Seq(Int) /\ Len(list) \in Nat
  BY DEF ChannelsMirror
<1>2. /\ new \in Seq(Int) /\ Len(new) = Len(list) + 1
      /\ \A j \in 1 .. Len(list) : new[j] = list[j]
      /\ new[Len(list) + 1] = c
  BY <1>1
<1>3. DOMAIN With(tr, c, parent) = DOMAIN tr \cup {c}
  BY DEF With
<1> HIDE DEF new
<1>4. ASSUME NEW d \in DOMAIN tr \cup {c}
      PROVE  \E j \in 1 .. Len(new) : new[j] = d
  <2>1. CASE d = c
    BY <1>1, <1>2, <2>1
  <2>2. CASE d \in DOMAIN tr
    <3>1. PICK i \in 1 .. Len(list) : list[i] = d
      BY <2>2 DEF ChannelsMirror
    <3> QED BY <1>1, <1>2, <3>1
  <2> QED BY <2>1, <2>2
<1>5. ASSUME NEW i \in 1 .. Len(new), NEW j \in 1 .. Len(new), new[i] = new[j]
      PROVE  i = j
  <2>1. CASE i \in 1 .. Len(list) /\ j \in 1 .. Len(list)
    BY <1>2, <1>5, <2>1 DEF ChannelsMirror
  <2>2. ASSUME NEW n \in 1 .. Len(list)
        PROVE  new[n] # c
    BY <1>2 DEF ChannelsMirror
  <2> QED BY <1>1, <1>2, <1>5, <2>1, <2>2
<1>6. ASSUME NEW i \in 1 .. Len(new)
      PROVE  new[i] \in DOMAIN tr \cup {c}
  <2>1. CASE i \in 1 .. Len(list)
    BY <1>2, <2>1 DEF ChannelsMirror
  <2>2. CASE i = Len(list) + 1
    BY <1>2, <2>2
  <2> QED BY <1>1, <1>2, <2>1, <2>2
<1> QED BY <1>2, <1>3, <1>4, <1>5, <1>6 DEF ChannelsMirror, new

-----------------------------------------------------------------------------
(* A state of the server: every user has a comment and is in a channel     *)
(* that is there.                                                          *)
WellFormed(us, cs, tr) ==
  /\ DOMAIN us \subseteq Sessions /\ us \in [DOMAIN us -> DOMAIN tr]
  /\ cs \in [DOMAIN us -> {0, 1}]
  /\ DOMAIN tr \subseteq Channels \cup {Root} /\ tr \in [DOMAIN tr -> Int]

(* A roster holds the state of the server that an entry of the log         *)
(* records, and no assertion has failed.                                   *)
Mirrors(r, e) ==
  /\ r \in [users : Seq(UserRecord), channels : Seq(Int), fault : {"none"}]
  /\ UsersMirror(r.users, e.users, e.comments)
  /\ ChannelsMirror(r.channels, e.tree)

(* What each message says of the server: its state before is p, after it   *)
(* e.                                                                      *)
Same(p, e) == e.users = p.users /\ e.comments = p.comments

ToldUserRemove(p, m, e) ==
  /\ m.type = "UserRemove" /\ m.session \in DOMAIN p.users
  /\ e.users = Restrict(p.users, DOMAIN p.users \ {m.session})
  /\ e.comments = Restrict(p.comments, DOMAIN p.users \ {m.session})
  /\ e.tree = p.tree

ToldNewUser(p, m, e) ==
  /\ m.type = "UserState" /\ m.session \in Sessions \ DOMAIN p.users
  /\ m.channel \in DOMAIN p.tree \cup {Absent} /\ m.comment = Absent
  /\ e.users = With(p.users, m.session, IF m.channel = Absent THEN Root ELSE m.channel)
  /\ e.comments = With(p.comments, m.session, 0)
  /\ Root \in DOMAIN p.tree
  /\ e.tree = p.tree

ToldKnownUser(p, m, e) ==
  /\ m.type = "UserState" /\ m.session \in DOMAIN p.users
  /\ m.channel \in DOMAIN p.tree \cup {Absent} /\ m.comment \in {Absent, 0, 1}
  /\ e.users = IF m.channel = Absent THEN p.users ELSE [p.users EXCEPT ![m.session] = m.channel]
  /\ e.comments = IF m.comment = Absent THEN p.comments
                  ELSE [p.comments EXCEPT ![m.session] = m.comment]
  /\ e.tree = p.tree

ToldChannelState(p, m, e) ==
  /\ m.type = "ChannelState" /\ Same(p, e)
  /\ \/ /\ m.id \in Int \ DOMAIN p.tree /\ m.parent \in DOMAIN p.tree \cup {Root}
        /\ e.tree = With(p.tree, m.id, m.parent)
     \/ m.id \in DOMAIN p.tree /\ e.tree = p.tree

ToldChannelRemove(p, m, e) ==
  /\ m.type = "ChannelRemove" /\ Same(p, e)
  /\ m.id \in DOMAIN p.tree /\ e.tree = Restrict(p.tree, DOMAIN p.tree \ {m.id})

ToldOther(p, m, e) == m.type = "Other" /\ Same(p, e) /\ e.tree = p.tree

Told(p, m, e) ==
  \/ ToldUserRemove(p, m, e) \/ ToldNewUser(p, m, e) \/ ToldKnownUser(p, m, e)
  \/ ToldChannelState(p, m, e) \/ ToldChannelRemove(p, m, e) \/ ToldOther(p, m, e)

(* Ids of channels are integers, and none is the mark of an absent field.  *)
LEMMA ChannelIds == /\ Channels \cup {Root} \subseteq Int /\ Absent \notin Channels \cup {Root}
                    /\ First \in Channels
<1>1. Channels # {} /\ Channels \subseteq Nat \ {Root}
  BY InboundAssumption
<1> QED BY <1>1 DEF Root, Absent, First

(* FindUser finds the record of a user of the server, and none of anyone   *)
(* else.                                                                   *)
LEMMA FoundUser ==
  ASSUME NEW r, NEW e, Mirrors(r, e), NEW s
  PROVE  /\ s \in DOMAIN e.users =>
              /\ FindUser(r, s) # {}
              /\ The(FindUser(r, s)) \in 1 .. Len(r.users)
              /\ r.users[The(FindUser(r, s))].session = s
         /\ s \notin DOMAIN e.users => FindUser(r, s) = {}
<1>1. r.users \in Seq(UserRecord) /\ DOMAIN r.users = 1 .. Len(r.users)
  BY DEF Mirrors
<1>2. CASE s \in DOMAIN e.users
  <2>1. PICK i \in 1 .. Len(r.users) : r.users[i].session = s
    BY <1>2 DEF Mirrors, UsersMirror
  <2>2. FindUser(r, s) # {}
    BY <1>1, <2>1 DEF FindUser
  <2>3. The(FindUser(r, s)) \in FindUser(r, s)
    BY <2>2 DEF The
  <2> QED BY <1>1, <1>2, <2>2, <2>3 DEF FindUser
<1>3. CASE s \notin DOMAIN e.users
  BY <1>1, <1>3 DEF Mirrors, UsersMirror, FindUser
<1> QED BY <1>2, <1>3

(* FindChannel does so for channels.                                       *)
LEMMA FoundChannel ==
  ASSUME NEW r, NEW e, Mirrors(r, e), NEW c
  PROVE  /\ c \in DOMAIN e.tree =>
              /\ FindChannel(r, c) # {}
              /\ The(FindChannel(r, c)) \in 1 .. Len(r.channels)
              /\ r.channels[The(FindChannel(r, c))] = c
         /\ c \notin DOMAIN e.tree => FindChannel(r, c) = {}
<1>1. r.channels \in Seq(Int) /\ DOMAIN r.channels = 1 .. Len(r.channels)
  BY DEF Mirrors
<1>2. CASE c \in DOMAIN e.tree
  <2>1. PICK i \in 1 .. Len(r.channels) : r.channels[i] = c
    BY <1>2 DEF Mirrors, ChannelsMirror
  <2>2. FindChannel(r, c) # {}
    BY <1>1, <2>1 DEF FindChannel
  <2>3. The(FindChannel(r, c)) \in FindChannel(r, c)
    BY <2>2 DEF The
  <2> QED BY <1>1, <1>2, <2>2, <2>3 DEF FindChannel
<1>3. CASE c \notin DOMAIN e.tree
  BY <1>1, <1>3 DEF Mirrors, ChannelsMirror, FindChannel
<1> QED BY <1>2, <1>3

(* HandleUserRemove keeps the lists in step with the server.               *)
LEMMA UserRemoveMirrored ==
  ASSUME NEW r, NEW p, NEW m, NEW e, Mirrors(r, p), DOMAIN p.comments = DOMAIN p.users,
         ToldUserRemove(p, m, e)
  PROVE  Mirrors(ParseMessage(r, m), e)
<1> DEFINE k == The(FindUser(r, m.session))
<1>1. /\ FindUser(r, m.session) # {}
      /\ k \in 1 .. Len(r.users) /\ r.users[k].session = m.session
  BY FoundUser DEF ToldUserRemove
<1> HIDE DEF k
<1>2. ParseMessage(r, m) = [r EXCEPT !.users = RemoveAt(r.users, k)]
  BY <1>1 DEF ToldUserRemove, ParseMessage, HandleUserRemove, Asserted, k
<1>3. UsersMirror(r.users, p.users, p.comments)
  BY DEF Mirrors
<1>4. UsersMirror(RemoveAt(r.users, k), e.users, e.comments)
  BY <1>1, <1>3, UsersRemoved DEF ToldUserRemove
<1>5. RemoveAt(r.users, k) \in Seq(UserRecord)
  BY <1>4 DEF UsersMirror
<1> QED BY <1>2, <1>4, <1>5 DEF Mirrors, ToldUserRemove

(* HandleUserState of a user who joins finds the channel and adds the      *)
(* user.                                                                   *)
LEMMA NewUserMirrored ==
  ASSUME NEW r, NEW p, NEW m, NEW e, Mirrors(r, p),
         WellFormed(p.users, p.comments, p.tree), ToldNewUser(p, m, e)
  PROVE  Mirrors(ParseMessage(r, m), e)
<1> DEFINE c == IF m.channel = Absent THEN Root ELSE m.channel
           u == [session |-> m.session, channel |-> c, comment |-> 0]
<1>1. c \in DOMAIN p.tree /\ c \in Int
  BY ChannelIds DEF ToldNewUser, WellFormed
<1>2. FindUser(r, m.session) = {} /\ FindChannel(r, c) # {}
  BY <1>1, FoundUser, FoundChannel DEF ToldNewUser
<1>3. ParseMessage(r, m) = [r EXCEPT !.users = Append(r.users, u)]
  BY <1>2 DEF ToldNewUser, ParseMessage, HandleUserState, NewUser, Asserted
<1>4. u \in UserRecord /\ u.session \notin DOMAIN p.users
  BY <1>1 DEF ToldNewUser, UserRecord
<1>5. UsersMirror(r.users, p.users, p.comments) /\ DOMAIN p.comments = DOMAIN p.users
  BY DEF Mirrors, WellFormed
<1>6. /\ e.users = With(p.users, u.session, u.channel)
      /\ e.comments = With(p.comments, u.session, u.comment)
  BY DEF ToldNewUser
<1> HIDE DEF u, c
<1>7. UsersMirror(Append(r.users, u), e.users, e.comments)
  BY <1>4, <1>5, <1>6, UserAppended
<1>8. Append(r.users, u) \in Seq(UserRecord)
  BY <1>7 DEF UsersMirror
<1> QED BY <1>3, <1>7, <1>8 DEF Mirrors, ToldNewUser

(* A record with its channel and its comment replaced.                     *)
LEMMA ChangedUser ==
  ASSUME NEW old \in UserRecord, NEW c, NEW d
  PROVE  [old EXCEPT !.channel = c, !.comment = d]
           = [session |-> old.session, channel |-> c, comment |-> d]
<1> DEFINE new == [old EXCEPT !.channel = c, !.comment = d]
<1>1. new.session = old.session
  BY DEF UserRecord
<1>2. new \in [session : Sessions, channel : {c}, comment : {d}]
  BY DEF UserRecord
<1> HIDE DEF new
<1>3. new = [session |-> old.session, channel |-> c, comment |-> d]
  BY <1>1, <1>2
<1> QED BY <1>3 DEF new

(* HandleUserState of a known user changes only the fields the message     *)
(* has.                                                                    *)
LEMMA KnownUserMirrored ==
  ASSUME NEW r, NEW p, NEW m, NEW e, Mirrors(r, p),
         WellFormed(p.users, p.comments, p.tree), ToldKnownUser(p, m, e)
  PROVE  Mirrors(ParseMessage(r, m), e)
<1> DEFINE k == The(FindUser(r, m.session))
           old == r.users[k]
           u == [session |-> m.session,
                 channel |-> IF m.channel = Absent THEN old.channel ELSE m.channel,
                 comment |-> IF m.comment = Absent THEN old.comment ELSE m.comment]
<1>1. /\ FindUser(r, m.session) # {}
      /\ k \in 1 .. Len(r.users) /\ r.users[k].session = m.session
  BY FoundUser DEF ToldKnownUser
<1>2. m.channel = Absent \/ FindChannel(r, m.channel) # {}
  BY FoundChannel DEF ToldKnownUser
<1> HIDE DEF k
<1>3. /\ old \in UserRecord /\ old.session = m.session
      /\ old.channel = p.users[m.session] /\ old.comment = p.comments[m.session]
  BY <1>1 DEF Mirrors, UsersMirror
<1>4. u \in UserRecord
  <2>1. m.channel \in Int /\ m.comment \in Int
    <3>1. Absent \in Int
      BY DEF Absent
    <3> QED BY ChannelIds, <3>1 DEF ToldKnownUser, WellFormed
  <2> QED BY <1>3, <2>1 DEF UserRecord
<1>5. ParseMessage(r, m) = [r EXCEPT !.users = [r.users EXCEPT ![k] = u]]
  <2>1. r.users \in Seq(UserRecord)
    BY DEF Mirrors
  <2>2. [r.users EXCEPT ![k].channel = IF m.channel = Absent THEN @ ELSE m.channel,
                        ![k].comment = IF m.comment = Absent THEN @ ELSE m.comment]
          = [r.users EXCEPT ![k] = u]
    <3> DEFINE v == [old EXCEPT !.channel = IF m.channel = Absent THEN @ ELSE m.channel,
                                !.comment = IF m.comment = Absent THEN @ ELSE m.comment]
    <3>1. v = u
      <4> DEFINE c == IF m.channel = Absent THEN old.channel ELSE m.channel
                 d == IF m.comment = Absent THEN old.comment ELSE m.comment
      <4>1. v = [old EXCEPT !.channel = c, !.comment = d]
        OBVIOUS
      <4> HIDE DEF v, c, d
      <4>2. v = [session |-> old.session, channel |-> c, comment |-> d]
        BY <1>3, <4>1, ChangedUser, Zenon
      <4>3. v = [session |-> m.session, channel |-> c, comment |-> d]
        BY <1>3, <4>2
      <4> QED BY <4>3 DEF c, d
    <3>2. [r.users EXCEPT ![k].channel = IF m.channel = Absent THEN @ ELSE m.channel,
                          ![k].comment = IF m.comment = Absent THEN @ ELSE m.comment]
            = [r.users EXCEPT ![k] = v]
      BY <1>1, <1>3, <2>1
    <3> QED BY <3>1, <3>2
  <2>3. ParseMessage(r, m) = KnownUser(r, m)
    BY <1>1 DEF ToldKnownUser, ParseMessage, HandleUserState
  <2>4. KnownUser(r, m) =
          [r EXCEPT !.users[k].channel = IF m.channel = Absent THEN @ ELSE m.channel,
                    !.users[k].comment = IF m.comment = Absent THEN @ ELSE m.comment]
    BY <1>2 DEF KnownUser, Asserted, k
  <2> QED BY <2>2, <2>3, <2>4 DEF Mirrors
<1>6. /\ DOMAIN e.users = DOMAIN p.users
      /\ e.users[m.session] = u.channel /\ e.comments[m.session] = u.comment
      /\ \A y \in DOMAIN p.users \ {m.session} :
           e.users[y] = p.users[y] /\ e.comments[y] = p.comments[y]
  BY <1>3 DEF ToldKnownUser, WellFormed
<1>7. u.session = m.session
  OBVIOUS
<1> HIDE DEF u, old
<1>8. UsersMirror([r.users EXCEPT ![k] = u], e.users, e.comments)
  BY <1>1, <1>4, <1>6, <1>7, UserChanged DEF Mirrors
<1>9. [r.users EXCEPT ![k] = u] \in Seq(UserRecord)
  BY <1>8 DEF UsersMirror
<1> QED BY <1>5, <1>8, <1>9 DEF Mirrors, ToldKnownUser

(* HandleChannelState adds a channel that is new and ignores one it        *)
(* knows.                                                                  *)
LEMMA ChannelStateMirrored ==
  ASSUME NEW r, NEW p, NEW m, NEW e, Mirrors(r, p), ToldChannelState(p, m, e)
  PROVE  Mirrors(ParseMessage(r, m), e)
<1>1. CASE m.id \in DOMAIN p.tree /\ e.tree = p.tree
  <2>1. ParseMessage(r, m) = r
    BY <1>1, FoundChannel DEF ToldChannelState, ParseMessage, HandleChannelState
  <2> QED BY <1>1, <2>1 DEF Mirrors, ToldChannelState, Same
<1>2. CASE /\ m.id \in Int \ DOMAIN p.tree /\ m.parent \in DOMAIN p.tree \cup {Root}
           /\ e.tree = With(p.tree, m.id, m.parent)
  <2>1. FindChannel(r, m.id) = {} /\ (m.parent = Root \/ FindChannel(r, m.parent) # {})
    BY <1>2, FoundChannel
  <2>2. ParseMessage(r, m) = [r EXCEPT !.channels = Append(r.channels, m.id)]
    BY <2>1 DEF ToldChannelState, ParseMessage, HandleChannelState, Asserted
  <2>3. ChannelsMirror(Append(r.channels, m.id), e.tree)
    BY <1>2, ChannelAppended DEF Mirrors
  <2>4. Append(r.channels, m.id) \in Seq(Int)
    BY <2>3 DEF ChannelsMirror
  <2> QED BY <2>2, <2>3, <2>4 DEF Mirrors, ToldChannelState, Same
<1> QED BY <1>1, <1>2 DEF ToldChannelState

(* HandleChannelRemove finds the channel and removes it.                   *)
LEMMA ChannelRemoveMirrored ==
  ASSUME NEW r, NEW p, NEW m, NEW e, Mirrors(r, p), ToldChannelRemove(p, m, e)
  PROVE  Mirrors(ParseMessage(r, m), e)
<1> DEFINE k == The(FindChannel(r, m.id))
<1>1. /\ FindChannel(r, m.id) # {}
      /\ k \in 1 .. Len(r.channels) /\ r.channels[k] = m.id
  BY FoundChannel DEF ToldChannelRemove
<1> HIDE DEF k
<1>2. ParseMessage(r, m) = [r EXCEPT !.channels = RemoveAt(r.channels, k)]
  BY <1>1 DEF ToldChannelRemove, ParseMessage, HandleChannelRemove, Asserted, k
<1>3. ChannelsMirror(RemoveAt(r.channels, k), e.tree)
  BY <1>1, ChannelRemoved DEF ToldChannelRemove, Mirrors
<1>4. RemoveAt(r.channels, k) \in Seq(Int)
  BY <1>3 DEF ChannelsMirror
<1> QED BY <1>2, <1>3, <1>4 DEF Mirrors, ToldChannelRemove, Same

(* ParseMessage: whatever the message is, lists that mirrored the server   *)
(* before it mirror the server after it, and no assertion of a handler     *)
(* fails.                                                                  *)
LEMMA ToldMirrored ==
  ASSUME NEW r, NEW p, NEW m, NEW e, Mirrors(r, p),
         WellFormed(p.users, p.comments, p.tree), Told(p, m, e)
  PROVE  Mirrors(ParseMessage(r, m), e)
<1>1. DOMAIN p.comments = DOMAIN p.users
  BY DEF WellFormed
<1>2. ToldOther(p, m, e) => Mirrors(ParseMessage(r, m), e)
  BY DEF ToldOther, ParseMessage, Mirrors, Same
<1> QED
  BY <1>1, <1>2, UserRemoveMirrored, NewUserMirrored, KnownUserMirrored,
     ChannelStateMirrored, ChannelRemoveMirrored DEF Told

-----------------------------------------------------------------------------
(* The state of the server before its first message, and after its i-th.   *)
Nothing == Entry("none", <<>>, <<>>, <<>>, 0)
At(i) == IF i = 0 THEN Nothing ELSE sent[i]

(* The state of the server is well formed, and the channel it is about to  *)
(* remove is there.                                                        *)
ServerInv ==
  /\ WellFormed(users, comments, tree)
  /\ Self \in DOMAIN users /\ Root \in DOMAIN tree
  /\ leaving \in DOMAIN tree \cup {Absent} /\ leaving # Root

(* The log: each message ends where the next begins, says how the          *)
(* server's state came from the one before, and the last entry is the      *)
(* server's state now.                                                     *)
SentInv ==
  /\ \E S : sent \in Seq(S)
  /\ Len(sent) >= 1
  /\ \A i \in 1 .. Len(sent) :
       /\ sent[i].ends \in Nat /\ sent[i].ends = End(i - 1) + Size(sent[i].message)
       /\ Told(At(i - 1), sent[i].message, sent[i])
       /\ WellFormed(sent[i].users, sent[i].comments, sent[i].tree)
  /\ \A i, j \in 0 .. Len(sent) : i <= j => End(i) <= End(j)
  /\ sent[Len(sent)].users = users /\ sent[Len(sent)].comments = comments
  /\ sent[Len(sent)].tree = tree

(* The reader stands at the beginning of a message, or behind its header   *)
(* while the body is due.                                                  *)
InStep ==
  /\ reader # "stopped" => parsed = End(handled) + IF InBody THEN HEADER ELSE 0
  /\ InBody => handled < Len(sent)
(* What the reads ask for, and what is known to be in recv_buffer_.        *)
ReadsInv ==
  /\ reader = "content" /\ handler = "ReadHandlerContinue" => BodyHere
  /\ reader = "reading" /\ handler = "ReadHandlerContinue" =>
       need = Body[Following.type] - Buffered
  /\ reader = "reading" /\ handler = "ReadHandler" =>
       need = HEADER /\ (after = "ReadHandler" => Buffered < HEADER)
  /\ reader \in {"requeue", "requeued"} /\ handler = "ReadHandler" => Buffered < HEADER
  /\ reader = "header" => handler = "ReadHandler" /\ Buffered >= HEADER
(* Only Disconnect brings a fault.                                         *)
FaultInv ==
  /\ fault \notin {"garbled", "twoReads"}
  /\ fault # "none" => link \in {"cleared", "closed"}

(* Until Disconnect the lists mirror the entry of the last message         *)
(* parsed.                                                                 *)
RosterInv == link \in {"up", "lost"} => Mirrors(roster, At(handled))

(* The inductive invariant.                                                *)
InboundInv ==
  TypeOK /\ ServerInv /\ SentInv /\ InStep /\ ReadsInv /\ FaultInv /\ RosterInv

-----------------------------------------------------------------------------
(* Every message the server sends is of a type that has a size.            *)
LEMMA Bodies ==
  /\ HEADER \in Nat /\ HEADER > 0
  /\ \A p, m, e : Told(p, m, e) => m.type \in DOMAIN Body
  /\ \A t \in DOMAIN Body : Body[t] \in Nat
<1>1. /\ HEADER \in Nat \ {0}
      /\ Body \in [{"UserRemove", "UserState", "ChannelRemove", "ChannelState", "Other"} -> Nat]
  BY InboundAssumption
<1>2. ASSUME NEW p, NEW m, NEW e, Told(p, m, e)
      PROVE  m.type \in {"UserRemove", "UserState", "ChannelRemove", "ChannelState", "Other"}
  BY <1>2 DEF Told, ToldUserRemove, ToldNewUser, ToldKnownUser, ToldChannelState,
              ToldChannelRemove, ToldOther
<1> QED BY <1>1, <1>2

(* A message is a header and its body.                                     *)
LEMMA SizeOf ==
  ASSUME NEW p, NEW m, NEW e, Told(p, m, e)
  PROVE  Size(m) = HEADER + Body[m.type] /\ Size(m) \in Nat /\ Size(m) >= HEADER
BY Bodies DEF Size

(* Every message ends within the stream.                                   *)
LEMMA Ends ==
  ASSUME SentInv
  PROVE  /\ Len(sent) \in Nat
         /\ \A i \in 0 .. Len(sent) : End(i) \in Nat /\ End(i) <= Stream
         /\ Stream \in Nat /\ End(0) = 0
<1>1. Len(sent) \in Nat
  BY DEF SentInv
<1>2. ASSUME NEW i \in 0 .. Len(sent)
      PROVE  End(i) \in Nat /\ End(i) <= End(Len(sent))
  <2>1. End(i) <= End(Len(sent))
    BY <1>1 DEF SentInv
  <2>2. End(i) \in Nat
    BY <1>1 DEF End, SentInv
  <2> QED BY <2>1, <2>2
<1>3. Len(sent) \in 0 .. Len(sent) /\ 0 \in 0 .. Len(sent)
  BY <1>1
<1> QED BY <1>1, <1>2, <1>3 DEF Stream, End

(* The message that follows the i-th, which begins where that one ends.    *)
LEMMA NextMessage ==
  ASSUME SentInv, NEW i \in 0 .. Len(sent) - 1
  PROVE  /\ i + 1 \in 1 .. Len(sent)
         /\ Told(At(i), sent[i + 1].message, sent[i + 1])
         /\ sent[i + 1].message.type \in DOMAIN Body
         /\ Body[sent[i + 1].message.type] \in Nat
         /\ End(i + 1) = End(i) + HEADER + Body[sent[i + 1].message.type]
         /\ End(i + 1) <= Stream
<1>1. Len(sent) \in Nat /\ i \in Nat
  BY Ends
<1>2. i + 1 \in 1 .. Len(sent) /\ (i + 1) - 1 = i /\ i + 1 \in 0 .. Len(sent) /\ i \in 0 .. Len(sent)
  BY <1>1
<1>3. /\ Told(At(i), sent[i + 1].message, sent[i + 1])
      /\ sent[i + 1].ends = End(i) + Size(sent[i + 1].message)
  BY <1>2 DEF SentInv
<1>4. End(i + 1) = sent[i + 1].ends
  BY <1>1 DEF End
<1>5. Body[sent[i + 1].message.type] \in Nat /\ HEADER \in Nat
  BY <1>3, Bodies
<1>6. End(i) \in Nat /\ End(i + 1) <= Stream
  BY <1>2, Ends
<1> QED BY <1>2, <1>3, <1>4, <1>5, <1>6, Bodies DEF Size

-----------------------------------------------------------------------------
(* The server sends a message that tells its new state: the log stays a    *)
(* log and only grows at its end.                                          *)
LEMMA Appended ==
  ASSUME SentInv, NEW m, Sends(m), WellFormed(users', comments', tree'),
         Told(At(Len(sent)), m, Entry(m, users', comments', tree', Stream + Size(m)))
  PROVE  /\ SentInv'
         /\ Len(sent') = Len(sent) + 1
         /\ \A i \in 1 .. Len(sent) : sent'[i] = sent[i]
<1> DEFINE e == Entry(m, users', comments', tree', Stream + Size(m))
           n == Len(sent)
           NewEnd(i) == IF i = 0 THEN 0 ELSE sent'[i].ends
           NewAt(i) == IF i = 0 THEN Nothing ELSE sent'[i]
<1>1. PICK S : sent \in Seq(S)
  BY DEF SentInv
<1>2. n \in Nat /\ n >= 1 /\ Stream \in Nat /\ Stream = End(n)
  BY Ends DEF SentInv, Stream
<1>3. Size(m) \in Nat
  BY SizeOf
<1>4. sent' = Append(sent, e)
  BY DEF Sends
<1>5. /\ e.message = m /\ e.users = users' /\ e.comments = comments' /\ e.tree = tree'
      /\ e.ends = Stream + Size(m) /\ e.ends \in Nat
  BY <1>2, <1>3 DEF Entry
<1>6. Told(At(n), m, e)
  OBVIOUS
<1> HIDE DEF e
<1>7. sent \in Seq(S \cup {e}) /\ e \in S \cup {e}
  BY <1>1
<1>8. /\ sent' \in Seq(S \cup {e}) /\ Len(sent') = n + 1
      /\ \A i \in 1 .. n : sent'[i] = sent[i]
      /\ sent'[n + 1] = e
  BY <1>2, <1>4, <1>7
<1>9. /\ \A i \in 0 .. n : NewEnd(i) = End(i) /\ NewAt(i) = At(i)
      /\ NewEnd(n + 1) = e.ends
  BY <1>2, <1>8 DEF End, At
<1>10. \A i \in 0 .. n : End(i) \in Nat /\ End(i) <= Stream
  BY Ends
<1> HIDE DEF n, NewEnd, NewAt
<1>11. ASSUME NEW i \in 1 .. Len(sent')
       PROVE  /\ sent'[i].ends \in Nat
              /\ sent'[i].ends = NewEnd(i - 1) + Size(sent'[i].message)
              /\ Told(NewAt(i - 1), sent'[i].message, sent'[i])
              /\ WellFormed(sent'[i].users, sent'[i].comments, sent'[i].tree)
  <2>1. CASE i \in 1 .. n
    <3>1. i - 1 \in 0 .. n
      BY <1>2, <2>1
    <3>2. NewEnd(i - 1) = End(i - 1) /\ NewAt(i - 1) = At(i - 1) /\ sent'[i] = sent[i]
      BY <1>8, <1>9, <2>1, <3>1
    <3> QED BY <2>1, <3>2 DEF SentInv, n
  <2>2. CASE i = n + 1
    <3>1. i - 1 = n /\ n \in 0 .. n
      BY <1>2, <2>2
    <3>2. NewEnd(i - 1) = Stream /\ NewAt(i - 1) = At(n) /\ sent'[i] = e
      BY <1>2, <1>8, <1>9, <2>2, <3>1
    <3> QED BY <1>5, <1>6, <3>2
  <2> QED BY <1>2, <1>8, <2>1, <2>2
<1>12. ASSUME NEW i \in 0 .. Len(sent'), NEW j \in 0 .. Len(sent'), i <= j
       PROVE  NewEnd(i) <= NewEnd(j)
  <2>1. CASE i \in 0 .. n /\ j \in 0 .. n
    BY <1>9, <1>12, <2>1 DEF SentInv, n
  <2>2. CASE i \in 0 .. n /\ j = n + 1
    <3>1. NewEnd(i) \in Nat /\ NewEnd(i) <= Stream
      BY <1>9, <1>10, <2>2
    <3> QED BY <1>2, <1>3, <1>5, <1>9, <2>2, <3>1
  <2>3. CASE i = n + 1 /\ j = n + 1
    BY <1>5, <1>9, <2>3
  <2> QED BY <1>2, <1>8, <1>12, <2>1, <2>2, <2>3
<1>13. /\ Len(sent') >= 1
       /\ sent'[Len(sent')].users = users' /\ sent'[Len(sent')].comments = comments'
       /\ sent'[Len(sent')].tree = tree'
  BY <1>2, <1>5, <1>8
<1>14. SentInv'
  BY <1>8, <1>11, <1>12, <1>13 DEF SentInv, End, At, Nothing, NewEnd, NewAt
<1> QED BY <1>8, <1>14 DEF n

(* The last entry is the state of the server.                              *)
LEMMA Latest ==
  ASSUME SentInv
  PROVE  /\ At(Len(sent)).users = users /\ At(Len(sent)).comments = comments
         /\ At(Len(sent)).tree = tree
BY DEF SentInv, At

(* What a step of the server does to the log, and leaves of the reader.    *)
Grown ==
  /\ ServerInv' /\ SentInv' /\ Len(sent) <= Len(sent')
  /\ \A i \in 1 .. Len(sent) : sent'[i] = sent[i]
  /\ UNCHANGED <<reading, link>>

(* A message that tells the server's new state lets the log grow.          *)
LEMMA SendGrows ==
  ASSUME SentInv, ServerInv', NEW m, Sends(m),
         Told(At(Len(sent)), m, Entry(m, users', comments', tree', Stream + Size(m)))
  PROVE  Grown
<1>1. WellFormed(users', comments', tree')
  BY DEF ServerInv
<1>2. /\ SentInv' /\ Len(sent') = Len(sent) + 1
      /\ \A i \in 1 .. Len(sent) : sent'[i] = sent[i]
  BY <1>1, Appended
<1>3. Len(sent) \in Nat
  BY Ends
<1> QED BY <1>2, <1>3 DEF Grown, Sends

(* Every action of the server keeps its state well formed and lets the     *)
(* log grow.                                                               *)
LEMMA ServerGrows ==
  ASSUME ServerInv, SentInv, Server
  PROVE  Grown
<1> DEFINE p == At(Len(sent))
           E(m) == Entry(m, users', comments', tree', Stream + Size(m))
<1>1. p.users = users /\ p.comments = comments /\ p.tree = tree
  BY Latest
<1>2. ASSUME NEW m
      PROVE  E(m).users = users' /\ E(m).comments = comments' /\ E(m).tree = tree'
  BY DEF Entry
<1>3. /\ DOMAIN users \subseteq Sessions /\ users \in [DOMAIN users -> DOMAIN tree]
      /\ comments \in [DOMAIN users -> {0, 1}]
      /\ DOMAIN tree \subseteq Channels \cup {Root} /\ tree \in [DOMAIN tree -> Int]
      /\ Self \in DOMAIN users /\ Root \in DOMAIN tree
      /\ leaving \in DOMAIN tree \cup {Absent} /\ leaving # Root
  BY DEF ServerInv, WellFormed
<1>4. Root \in Int /\ Absent \in Int /\ Absent \notin DOMAIN tree /\ DOMAIN tree \subseteq Int
  BY <1>3, ChannelIds DEF Root, Absent
<1>5. ASSUME NEW m, Sends(m), ServerInv', Told(p, m, E(m))
      PROVE  Grown
  BY <1>5, SendGrows
<1> HIDE DEF p, E
<1>6. ASSUME NEW s \in Sessions, Join(s)
      PROVE  Grown
  <2> DEFINE m == UserState(s, Absent, Absent)
  <2>1. /\ s \notin DOMAIN users /\ users' = With(users, s, Root)
        /\ comments' = With(comments, s, 0) /\ tree' = tree /\ leaving' = leaving
        /\ Sends(m)
    BY <1>6 DEF Join
  <2>2. /\ DOMAIN users' = DOMAIN users \cup {s} /\ users' \in [DOMAIN users' -> DOMAIN tree]
        /\ comments' \in [DOMAIN users' -> {0, 1}]
    BY <1>3, <2>1 DEF With
  <2>3. ServerInv'
    BY <1>3, <2>1, <2>2 DEF ServerInv, WellFormed
  <2>4. ToldNewUser(p, m, E(m))
    BY <1>1, <1>2, <1>3, <2>1 DEF ToldNewUser, UserState
  <2> QED BY <1>5, <2>1, <2>3, <2>4 DEF Told
<1>7. ASSUME NEW s \in Sessions, Leave(s)
      PROVE  Grown
  <2> DEFINE m == [type |-> "UserRemove", session |-> s]
             rest == DOMAIN users \ {s}
  <2>1. /\ s \in DOMAIN users /\ s # Self /\ users' = Restrict(users, rest)
        /\ comments' = Restrict(comments, rest) /\ tree' = tree /\ leaving' = leaving
        /\ Sends(m)
    BY <1>3, <1>7 DEF Leave
  <2>2. /\ DOMAIN users' = rest /\ users' \in [rest -> DOMAIN tree]
        /\ comments' \in [rest -> {0, 1}]
    BY <1>3, <2>1 DEF Restrict
  <2>3. ServerInv'
    BY <1>3, <2>1, <2>2 DEF ServerInv, WellFormed
  <2>4. ToldUserRemove(p, m, E(m))
    BY <1>1, <1>2, <2>1 DEF ToldUserRemove
  <2> QED BY <1>5, <2>1, <2>3, <2>4 DEF Told
<1>8. ASSUME NEW c \in Channels \cup {Root}, Move(c)
      PROVE  Grown
  <2> DEFINE m == UserState(Self, c, Absent)
  <2>1. /\ c \in DOMAIN tree /\ users' = [users EXCEPT ![Self] = c]
        /\ comments' = comments /\ tree' = tree /\ leaving' = leaving
        /\ Sends(m)
    BY <1>8 DEF Move
  <2>2. DOMAIN users' = DOMAIN users /\ users' \in [DOMAIN users -> DOMAIN tree]
    BY <1>3, <2>1
  <2>3. ServerInv'
    BY <1>3, <2>1, <2>2 DEF ServerInv, WellFormed
  <2>4. ToldKnownUser(p, m, E(m))
    BY <1>1, <1>2, <1>3, <1>4, <2>1 DEF ToldKnownUser, UserState
  <2> QED BY <1>5, <2>1, <2>3, <2>4 DEF Told
<1>9. ASSUME SetComment
      PROVE  Grown
  <2>1. /\ comments' = [comments EXCEPT ![Self] = 1 - @]
        /\ users' = users /\ tree' = tree /\ leaving' = leaving
    BY <1>9 DEF SetComment
  <2>2. comments' \in [DOMAIN users -> {0, 1}] /\ comments' = [comments EXCEPT ![Self] = comments'[Self]]
    BY <1>3, <2>1
  <2>3. PICK k \in {0, 1} : k = comments'[Self]
    BY <1>3, <2>2
  <2> DEFINE m == UserState(Self, Absent, k)
  <2>4. Sends(m)
    BY <1>9, <2>3 DEF SetComment
  <2>5. ServerInv'
    BY <1>3, <2>1, <2>2 DEF ServerInv, WellFormed
  <2>6. ToldKnownUser(p, m, E(m))
    <3>1. /\ m.type = "UserState" /\ m.session = Self /\ m.channel = Absent /\ m.comment = k
          /\ k # Absent
      BY DEF UserState, Absent
    <3>2. E(m).comments = [p.comments EXCEPT ![Self] = k]
      BY <1>1, <1>2, <2>2, <2>3
    <3> HIDE DEF m
    <3> QED BY <1>1, <1>2, <1>3, <2>1, <3>1, <3>2 DEF ToldKnownUser
  <2> QED BY <1>5, <2>4, <2>5, <2>6 DEF Told
<1>10. ASSUME NEW c \in Channels, NEW parent \in Channels \cup {Root}, AddChannel(c, parent)
       PROVE  Grown
  <2> DEFINE m == ChannelState(c, parent)
  <2>1. /\ c \notin DOMAIN tree /\ parent \in DOMAIN tree /\ tree' = With(tree, c, parent)
        /\ users' = users /\ comments' = comments /\ leaving' = leaving
        /\ Sends(m)
    BY <1>10 DEF AddChannel
  <2>2. DOMAIN tree' = DOMAIN tree \cup {c} /\ tree' \in [DOMAIN tree' -> Int]
    BY <1>3, <1>4, <2>1 DEF With
  <2>3. users' \in [DOMAIN users -> DOMAIN tree']
    BY <1>3, <2>1, <2>2
  <2>4. ServerInv'
    BY <1>3, <2>1, <2>2, <2>3 DEF ServerInv, WellFormed
  <2>5. ToldChannelState(p, m, E(m))
    BY <1>1, <1>2, <2>1, ChannelIds DEF ToldChannelState, ChannelState, Same
  <2> QED BY <1>5, <2>1, <2>4, <2>5 DEF Told
<1>11. ASSUME NEW c \in Channels, BeginRemove(c)
       PROVE  Grown
  <2>1. /\ c \in DOMAIN tree /\ c # Root /\ leaving' = c
        /\ UNCHANGED <<users, tree, comments, sent, reading, link>>
    BY <1>11 DEF BeginRemove
  <2>2. ServerInv'
    BY <1>3, <2>1 DEF ServerInv, WellFormed
  <2>3. SentInv'
    BY <2>1 DEF SentInv, End, At, Nothing
  <2>4. Len(sent) \in Nat
    BY Ends
  <2> QED BY <2>1, <2>2, <2>3, <2>4 DEF Grown
<1>12. ASSUME RemoveChannel
       PROVE  Grown
  <2> DEFINE m == [type |-> "ChannelRemove", id |-> leaving]
             rest == DOMAIN tree \ {leaving}
  <2>1. /\ leaving \in DOMAIN tree /\ \A s \in DOMAIN users : users[s] # leaving
        /\ tree' = Restrict(tree, rest) /\ leaving' = Absent
        /\ users' = users /\ comments' = comments
        /\ Sends(m)
    BY <1>3, <1>12 DEF RemoveChannel
  <2>2. DOMAIN tree' = rest /\ tree' \in [rest -> Int] /\ users' \in [DOMAIN users -> rest]
    BY <1>3, <2>1 DEF Restrict
  <2>3. Absent # Root
    BY DEF Absent, Root
  <2>4. ServerInv'
    BY <1>3, <2>1, <2>2, <2>3 DEF ServerInv, WellFormed
  <2>5. PICK c : c = leaving
    OBVIOUS
  <2> DEFINE mc == [type |-> "ChannelRemove", id |-> c]
  <2>6. ToldChannelRemove(p, mc, E(mc)) /\ Sends(mc)
    BY <1>1, <1>2, <2>1, <2>5 DEF ToldChannelRemove, Same
  <2> QED BY <1>5, <2>4, <2>6 DEF Told
<1>13. ASSUME Other
       PROVE  Grown
  <2>1. users' = users /\ comments' = comments /\ tree' = tree /\ leaving' = leaving
    BY <1>13 DEF Other
  <2>2. ServerInv'
    BY <1>3, <2>1 DEF ServerInv, WellFormed
  <2>3. CASE Sends([type |-> "Other"])
    <3> DEFINE m == [type |-> "Other"]
    <3>1. ToldOther(p, m, E(m))
      BY <1>1, <1>2, <2>1 DEF ToldOther, Same
    <3> QED BY <1>5, <2>2, <2>3, <3>1 DEF Told
  <2>4. CASE First \in DOMAIN tree /\ Sends(ChannelState(First, tree[First]))
    <3>1. PICK parent : parent = tree[First]
      OBVIOUS
    <3> DEFINE m == ChannelState(First, parent)
    <3>2. ToldChannelState(p, m, E(m))
      BY <1>1, <1>2, <2>1, <2>4 DEF ToldChannelState, ChannelState, Same
    <3> QED BY <1>5, <2>2, <2>4, <3>1, <3>2 DEF Told
  <2> QED BY <1>13, <2>3, <2>4 DEF Other
<1> QED
  BY <1>6, <1>7, <1>8, <1>9, <1>10, <1>11, <1>12, <1>13 DEF Server

(* The reader's part of the invariant is about entries the log keeps.      *)
LEMMA ReaderStays ==
  ASSUME InboundInv, Grown
  PROVE  /\ InStep' /\ ReadsInv' /\ FaultInv' /\ RosterInv'
         /\ parsed' \in 0 .. arrived' /\ arrived' \in 0 .. Stream' /\ handled' \in 0 .. Len(sent')
<1>1. /\ parsed \in 0 .. arrived /\ arrived \in 0 .. Stream /\ handled \in 0 .. Len(sent)
      /\ Len(sent) \in Nat /\ Stream \in Nat
  BY Ends DEF InboundInv, TypeOK
<1>2. /\ arrived' = arrived /\ parsed' = parsed /\ handled' = handled /\ reader' = reader
      /\ handler' = handler /\ need' = need /\ after' = after /\ roster' = roster
      /\ fault' = fault /\ link' = link
  BY DEF Grown, reading
<1>3. Len(sent') \in Nat /\ Stream' \in Nat
  <2>1. Len(sent') \in Nat /\ Len(sent') >= 1
    BY DEF Grown, SentInv
  <2>2. sent'[Len(sent')].ends \in Nat
    BY <2>1 DEF Grown, SentInv
  <2> QED BY <2>1, <2>2 DEF Stream, End
<1>4. Len(sent) <= Len(sent') /\ \A i \in 1 .. Len(sent) : sent'[i] = sent[i]
  BY DEF Grown
<1>5. Stream <= Stream'
  <2>1. Len(sent) \in 0 .. Len(sent') /\ Len(sent') \in 0 .. Len(sent')
    BY <1>1, <1>3, <1>4
  <2>2. \A i, j \in 0 .. Len(sent') : i <= j =>
           (IF i = 0 THEN 0 ELSE sent'[i].ends) <= (IF j = 0 THEN 0 ELSE sent'[j].ends)
    BY DEF Grown, SentInv, End
  <2>3. (IF Len(sent) = 0 THEN 0 ELSE sent'[Len(sent)].ends) <= Stream'
    BY <1>4, <2>1, <2>2 DEF Stream, End
  <2>4. Stream = IF Len(sent) = 0 THEN 0 ELSE sent'[Len(sent)].ends
    BY <1>1, <1>4 DEF Stream, End
  <2> QED BY <2>3, <2>4
<1>6. End(handled)' = End(handled) /\ At(handled)' = At(handled)
  <2>1. handled = 0 \/ handled \in 1 .. Len(sent)
    BY <1>1
  <2>2. (IF handled = 0 THEN 0 ELSE sent'[handled].ends) = End(handled)
    BY <1>4, <2>1 DEF End
  <2>3. (IF handled = 0 THEN Nothing ELSE sent'[handled]) = At(handled)
    BY <1>4, <2>1 DEF At
  <2> QED BY <1>2, <2>2, <2>3 DEF End, At, Nothing
<1>7. InBody => Following' = Following /\ handled < Len(sent)
  BY <1>1, <1>2, <1>4 DEF InboundInv, InStep, Following
<1>8. Buffered' = Buffered /\ InBody' = InBody
  BY <1>2 DEF Buffered, InBody
<1>9. InStep'
  BY <1>1, <1>2, <1>3, <1>4, <1>6, <1>7, <1>8 DEF InboundInv, InStep
<1>10. ReadsInv'
  BY <1>2, <1>7, <1>8 DEF InboundInv, ReadsInv, BodyHere, InBody
<1>11. FaultInv' /\ RosterInv'
  BY <1>2, <1>6 DEF InboundInv, FaultInv, RosterInv
<1> QED BY <1>1, <1>2, <1>3, <1>4, <1>5, <1>9, <1>10, <1>11

-----------------------------------------------------------------------------
(* After the handshake the log has three entries and the reader has read   *)
(* nothing.                                                                *)
LEMMA Init_Inbound == Init => InboundInv
<1> SUFFICES ASSUME Init PROVE InboundInv
  OBVIOUS
<1> DEFINE own == IF users[Self] = Root THEN Absent ELSE users[Self]
           m1 == ChannelState(Root, Root)
           m2 == ChannelState(First, Root)
           m3 == UserState(Self, own, Absent)
           t1 == [c \in {Root} |-> Root]
           e1 == Entry(m1, <<>>, <<>>, t1, Size(m1))
           e2 == Entry(m2, <<>>, <<>>, tree, Size(m1) + Size(m2))
           e3 == Entry(m3, users, comments, tree, Size(m1) + Size(m2) + Size(m3))
<1>1. /\ users \in [{Self} -> {Root, First}]
      /\ tree = [c \in {Root, First} |-> Root] /\ comments = [s \in {Self} |-> 0]
      /\ leaving = Absent /\ sent = <<e1, e2, e3>>
  BY DEF Init
<1>2. /\ First \in Channels /\ First # Root /\ First \in Int /\ Root \in Int /\ First # Absent
      /\ Root # Absent /\ Self \in Sessions
  BY InboundAssumption, ChannelIds DEF Root, Absent
<1>3. DOMAIN <<>> = {}
  OBVIOUS
<1>4. /\ WellFormed(<<>>, <<>>, t1) /\ WellFormed(<<>>, <<>>, tree)
      /\ WellFormed(users, comments, tree)
  BY <1>1, <1>2 DEF WellFormed
<1>5. /\ e1.message = m1 /\ e1.users = <<>> /\ e1.comments = <<>> /\ e1.tree = t1
      /\ e1.ends = Size(m1)
  BY DEF Entry
<1>6. /\ e2.message = m2 /\ e2.users = <<>> /\ e2.comments = <<>> /\ e2.tree = tree
      /\ e2.ends = Size(m1) + Size(m2)
  BY DEF Entry
<1>7. /\ e3.message = m3 /\ e3.users = users /\ e3.comments = comments /\ e3.tree = tree
      /\ e3.ends = Size(m1) + Size(m2) + Size(m3)
  BY DEF Entry
<1>8. Nothing.users = <<>> /\ Nothing.comments = <<>> /\ Nothing.tree = <<>>
  BY DEF Nothing, Entry
<1>9. Told(Nothing, m1, e1)
  BY <1>2, <1>5, <1>8 DEF Told, ToldChannelState, ChannelState, Same, With
<1>10. Told(e1, m2, e2)
  BY <1>1, <1>2, <1>5, <1>6 DEF Told, ToldChannelState, ChannelState, Same, With
<1>11. Told(e2, m3, e3)
  <2>1. m3.type = "UserState" /\ m3.session = Self /\ m3.channel = own /\ m3.comment = Absent
    BY DEF UserState
  <2>2. (IF own = Absent THEN Root ELSE own) = users[Self] /\ own \in DOMAIN tree \cup {Absent}
    BY <1>1, <1>2
  <2>3. users = With(<<>>, Self, users[Self]) /\ comments = With(<<>>, Self, 0)
    BY <1>1 DEF With
  <2>4. Root \in DOMAIN tree
    BY <1>1
  <2> HIDE DEF own, m3, e3, e2
  <2> QED BY <1>2, <1>3, <1>6, <1>7, <2>1, <2>2, <2>3, <2>4 DEF Told, ToldNewUser
<1>12. Size(m1) \in Nat /\ Size(m2) \in Nat /\ Size(m3) \in Nat
  BY <1>9, <1>10, <1>11, SizeOf
<1> HIDE DEF e1, e2, e3, m1, m2, m3, own, t1
<1>13. /\ sent \in Seq({e1, e2, e3}) /\ Len(sent) = 3
       /\ sent[1] = e1 /\ sent[2] = e2 /\ sent[3] = e3
  BY <1>1
<1>14. /\ End(0) = 0 /\ End(1) = Size(m1) /\ End(2) = Size(m1) + Size(m2)
       /\ End(3) = Size(m1) + Size(m2) + Size(m3)
       /\ At(0) = Nothing /\ At(1) = e1 /\ At(2) = e2 /\ At(3) = e3
  BY <1>5, <1>6, <1>7, <1>13 DEF End, At
<1>15. SentInv
  <2>1. ASSUME NEW i \in 1 .. Len(sent)
        PROVE  /\ sent[i].ends \in Nat /\ sent[i].ends = End(i - 1) + Size(sent[i].message)
               /\ Told(At(i - 1), sent[i].message, sent[i])
               /\ WellFormed(sent[i].users, sent[i].comments, sent[i].tree)
    <3>1. CASE i = 1
      BY <1>4, <1>5, <1>9, <1>12, <1>13, <1>14, <3>1
    <3>2. CASE i = 2
      BY <1>4, <1>6, <1>10, <1>12, <1>13, <1>14, <3>2
    <3>3. CASE i = 3
      BY <1>4, <1>7, <1>11, <1>12, <1>13, <1>14, <3>3
    <3> QED BY <1>13, <3>1, <3>2, <3>3
  <2>2. ASSUME NEW i \in 0 .. Len(sent), NEW j \in 0 .. Len(sent), i <= j
        PROVE  End(i) <= End(j)
    <3>1. i \in {0, 1, 2, 3} /\ j \in {0, 1, 2, 3}
      BY <1>13
    <3> QED BY <1>12, <1>14, <2>2, <3>1
  <2>3. \E S : sent \in Seq(S)
    BY <1>13
  <2> QED BY <1>7, <1>13, <2>1, <2>2, <2>3 DEF SentInv
<1>16. ServerInv
  BY <1>1, <1>2, <1>4 DEF ServerInv
<1>17. /\ arrived = 0 /\ parsed = 0 /\ handled = 0
       /\ reader = "reading" /\ handler = "ReadHandler" /\ need = HEADER
       /\ after = "ReadHandler"
       /\ roster = EmptyRoster /\ link = "up" /\ fault = "none"
  BY DEF Init
<1>18. TypeOK
  <2>1. Stream \in Nat
    BY <1>15, Ends
  <2>2. DOMAIN users \subseteq Sessions /\ DOMAIN tree \subseteq Channels \cup {Root}
    BY <1>4 DEF WellFormed
  <2> QED BY <1>1, <1>13, <1>17, <2>1, <2>2, Bodies DEF TypeOK
<1>19. InStep /\ ReadsInv /\ FaultInv
  BY <1>13, <1>14, <1>17, Bodies DEF InStep, ReadsInv, FaultInv, InBody, Buffered
<1>20. RosterInv
  <2>1. UsersMirror(<<>>, <<>>, <<>>) /\ ChannelsMirror(<<>>, <<>>)
    BY DEF UsersMirror, ChannelsMirror
  <2>2. EmptyRoster \in [users : Seq(UserRecord), channels : Seq(Int), fault : {"none"}]
    BY DEF EmptyRoster
  <2>3. EmptyRoster.users = <<>> /\ EmptyRoster.channels = <<>>
    BY DEF EmptyRoster
  <2> QED BY <1>8, <1>14, <1>17, <2>1, <2>2, <2>3 DEF RosterInv, Mirrors
<1> QED BY <1>15, <1>16, <1>18, <1>19, <1>20 DEF InboundInv

-----------------------------------------------------------------------------
(* The counters are numbers, in order.                                     *)
LEMMA Ranges ==
  ASSUME InboundInv
  PROVE  /\ arrived \in Nat /\ parsed \in Nat /\ handled \in Nat /\ Len(sent) \in Nat
         /\ Stream \in Nat /\ parsed <= arrived /\ arrived <= Stream /\ handled <= Len(sent)
         /\ HEADER \in Nat /\ HEADER > 0 /\ Buffered \in Nat /\ Buffered = arrived - parsed
         /\ End(handled) \in Nat
<1>1. Len(sent) \in Nat /\ Stream \in Nat /\ \A i \in 0 .. Len(sent) : End(i) \in Nat
  BY Ends DEF InboundInv
<1> QED BY <1>1, Bodies DEF InboundInv, TypeOK, Buffered

(* The message being read, while its body is due.                             *)
LEMMA Due ==
  ASSUME InboundInv, InBody
  PROVE  /\ handled \in 0 .. Len(sent) - 1
         /\ Told(At(handled), Following, sent[handled + 1])
         /\ Following.type \in DOMAIN Body /\ Body[Following.type] \in Nat
         /\ End(handled + 1) = parsed + Body[Following.type]
         /\ End(handled + 1) <= Stream /\ reader # "stopped"
<1>1. handled \in 0 .. Len(sent) - 1
  BY Ranges DEF InboundInv, InStep
<1>2. reader # "stopped"
  BY DEF InBody
<1>3. parsed = End(handled) + HEADER
  BY <1>2 DEF InboundInv, InStep
<1>4. SentInv
  BY DEF InboundInv
<1>5. /\ Told(At(handled), Following, sent[handled + 1])
      /\ Following.type \in DOMAIN Body /\ Body[Following.type] \in Nat
      /\ End(handled + 1) = End(handled) + HEADER + Body[Following.type]
      /\ End(handled + 1) <= Stream
  BY <1>1, <1>4, NextMessage DEF Following
<1> QED BY <1>1, <1>2, <1>3, <1>5, Ranges

(* What a step of the reader leaves alone.                                    *)
LEMMA ServerStays ==
  ASSUME InboundInv, UNCHANGED server
  PROVE  /\ ServerInv' /\ SentInv' /\ Stream' = Stream /\ sent' = sent
         /\ DOMAIN users' \subseteq Sessions /\ DOMAIN tree' \subseteq Channels \cup {Root}
         /\ leaving' \in Channels \cup {Absent}
<1>1. UNCHANGED <<users, tree, comments, leaving, sent>>
  BY DEF server
<1> QED
  BY <1>1 DEF InboundInv, TypeOK, ServerInv, SentInv, Stream, End, At, Nothing

(* A read brings a whole header, or the rest of the body that is due.      *)
LEMMA ReadCompletesKeeps ==
  ASSUME InboundInv, ReadCompletes
  PROVE  InboundInv'
<1>1. PICK n \in need .. need + ReadAhead : arrived + n <= Stream /\ arrived' = arrived + n
  BY DEF ReadCompletes
<1>2. /\ reader = "reading" /\ link \in {"up", "cleared"}
      /\ reader' = IF handler = "ReadHandler" THEN "header" ELSE "content"
      /\ UNCHANGED <<server, parsed, handled, handler, need, after, roster, link, fault>>
  BY DEF ReadCompletes
<1>3. handler \in {"ReadHandler", "ReadHandlerContinue"} /\ need \in Nat /\ ReadAhead \in Nat
  BY InboundAssumption DEF InboundInv, TypeOK
<1>4. /\ ServerInv' /\ SentInv' /\ Stream' = Stream /\ sent' = sent
      /\ DOMAIN users' \subseteq Sessions /\ DOMAIN tree' \subseteq Channels \cup {Root}
      /\ leaving' \in Channels \cup {Absent}
  BY <1>2, ServerStays
<1>5. n \in Nat /\ n >= need
  BY <1>1, <1>3
<1>6. /\ arrived' \in 0 .. Stream /\ parsed \in 0 .. arrived' /\ Buffered' >= Buffered + need
      /\ Buffered' \in Int /\ Buffered \in Nat /\ HEADER \in Nat
  BY <1>1, <1>2, <1>3, <1>5, Ranges DEF Buffered
<1>7. TypeOK'
  BY <1>2, <1>3, <1>4, <1>6 DEF InboundInv, TypeOK
<1>8. InBody' = InBody /\ End(handled)' = End(handled)
  BY <1>2, <1>3, <1>4 DEF InBody, End
<1>9. InStep'
  BY <1>2, <1>3, <1>4, <1>8 DEF InboundInv, InStep
<1>10. ReadsInv'
  <2>1. CASE handler = "ReadHandler"
    <3>1. need = HEADER /\ Buffered' >= HEADER
      BY <1>2, <1>6, <2>1, Ranges DEF InboundInv, ReadsInv
    <3> QED BY <1>2, <2>1, <3>1 DEF ReadsInv
  <2>2. CASE handler = "ReadHandlerContinue"
    <3>1. need = Body[Following.type] - Buffered /\ Body[Following.type] \in Nat
      BY <1>2, <2>2, Due DEF InboundInv, ReadsInv, InBody
    <3>2. Buffered' >= Body[Following.type]
      BY <1>6, <3>1
    <3>3. Following' = Following
      BY <1>2, <1>4 DEF Following
    <3> QED BY <1>2, <2>2, <3>2, <3>3 DEF ReadsInv, BodyHere
  <2> QED BY <1>3, <2>1, <2>2
<1>11. FaultInv' /\ RosterInv'
  BY <1>2, <1>4 DEF InboundInv, FaultInv, RosterInv, At, Nothing
<1> QED BY <1>4, <1>7, <1>9, <1>10, <1>11 DEF InboundInv

(* The loop of ReadHandler takes a header where one is, and its message    *)
(* has been sent.                                                          *)
LEMMA ReadHeaderKeeps ==
  ASSUME InboundInv, ReadHeader
  PROVE  InboundInv'
<1>1. /\ reader = "header"
      /\ UNCHANGED <<server, arrived, handled, handler, need, after, roster, link>>
  BY DEF ReadHeader
<1>2. parsed = End(handled) /\ Buffered >= HEADER /\ handler = "ReadHandler"
  BY <1>1, Ranges DEF InboundInv, InStep, ReadsInv, InBody
<1>3. parsed' = parsed + HEADER /\ reader' = "content" /\ fault' = fault
  BY <1>2 DEF ReadHeader
<1>4. /\ ServerInv' /\ SentInv' /\ Stream' = Stream /\ sent' = sent
      /\ DOMAIN users' \subseteq Sessions /\ DOMAIN tree' \subseteq Channels \cup {Root}
      /\ leaving' \in Channels \cup {Absent}
  BY <1>1, ServerStays
<1>5. parsed' \in 0 .. arrived
  BY <1>2, <1>3, Ranges
<1>6. TypeOK'
  BY <1>1, <1>3, <1>4, <1>5 DEF InboundInv, TypeOK
<1>7. handled < Len(sent)
  <2>1. End(handled) + HEADER <= Stream
    BY <1>2, Ranges
  <2>2. End(handled) # Stream
    BY <2>1, Ranges
  <2> QED BY <2>2, Ranges DEF Stream
<1>8. InStep'
  BY <1>1, <1>2, <1>3, <1>4, <1>7 DEF InStep, InBody, End
<1>9. ReadsInv'
  BY <1>1, <1>2, <1>3 DEF ReadsInv
<1>10. FaultInv' /\ RosterInv'
  BY <1>1, <1>3, <1>4 DEF InboundInv, FaultInv, RosterInv, At, Nothing
<1> QED BY <1>4, <1>6, <1>8, <1>9, <1>10 DEF InboundInv

(* HandleMessageContent with a part of the body: only ReadHandler comes    *)
(* here, so no second read is started, and the read asks for the rest of   *)
(* it.                                                                     *)
LEMMA ContentKeeps ==
  ASSUME InboundInv, Content
  PROVE  InboundInv'
<1>1. /\ reader = "content" /\ ~BodyHere
      /\ UNCHANGED <<server, arrived, parsed, handled, roster, link>>
  BY DEF Content, ContentMissing
<1>2. handler = "ReadHandler"
  BY <1>1 DEF InboundInv, TypeOK, ReadsInv
<1>3. /\ ServerInv' /\ SentInv' /\ Stream' = Stream /\ sent' = sent
      /\ DOMAIN users' \subseteq Sessions /\ DOMAIN tree' \subseteq Channels \cup {Root}
      /\ leaving' \in Channels \cup {Absent}
  BY <1>1, ServerStays
<1>4. FaultInv /\ RosterInv /\ InStep
  BY DEF InboundInv
<1>5. CASE link = "closed"
  <2>1. reader' = "stopped" /\ UNCHANGED <<handler, need, after, fault>>
    BY <1>5 DEF Content, ContentMissing
  <2>2. TypeOK'
    BY <1>1, <1>3, <2>1 DEF InboundInv, TypeOK
  <2>3. InStep' /\ ReadsInv'
    BY <2>1 DEF InStep, ReadsInv, InBody
  <2>4. FaultInv' /\ RosterInv'
    BY <1>1, <1>3, <1>4, <2>1 DEF FaultInv, RosterInv, At, Nothing
  <2> QED BY <1>3, <2>2, <2>3, <2>4 DEF InboundInv
<1>6. CASE link # "closed"
  <2>1. /\ reader' = "reading" /\ handler' = "ReadHandlerContinue" /\ after' = handler
        /\ need' = Body[Following.type] - Buffered /\ fault' = fault
    BY <1>2, <1>6 DEF Content, ContentMissing
  <2>2. Following.type \in DOMAIN Body /\ Body[Following.type] \in Nat /\ InBody
    BY <1>1, Due DEF InBody
  <2>3. need' \in Nat \ {0} /\ need' <= Body[Following.type]
    BY <1>1, <2>1, <2>2, Ranges DEF BodyHere
  <2>4. TypeOK'
    BY <1>1, <1>2, <1>3, <2>1, <2>2, <2>3 DEF InboundInv, TypeOK
  <2>5. InBody' /\ Buffered' = Buffered /\ Following' = Following /\ End(handled)' = End(handled)
    BY <1>1, <1>3, <2>1 DEF InBody, Buffered, Following, End
  <2>6. InStep' /\ ReadsInv'
    BY <1>1, <1>3, <1>4, <2>1, <2>2, <2>5 DEF InStep, ReadsInv
  <2>7. FaultInv' /\ RosterInv'
    BY <1>1, <1>3, <1>4, <2>1 DEF FaultInv, RosterInv, At, Nothing
  <2> QED BY <1>3, <2>4, <2>6, <2>7 DEF InboundInv
<1> QED BY <1>5, <1>6

(* HandleMessageContent with the whole body: the reader moves to the next  *)
(* message, and the lists to the next entry of the log.                    *)
LEMMA ParseKeeps ==
  ASSUME InboundInv, Parse
  PROVE  InboundInv'
<1>1. /\ reader = "content" /\ BodyHere /\ InBody
      /\ parsed' = parsed + Body[Following.type]
      /\ roster' = ParseMessage(roster, Following)
      /\ handled' = handled + 1
      /\ UNCHANGED <<server, arrived, handler, need, after, link, fault>>
  BY DEF Parse, ParseAndGoOn, InBody
<1>2. reader' = IF handler = "ReadHandler" /\ arrived - parsed' >= HEADER THEN "header"
                ELSE "requeue"
  BY DEF Parse, ParseAndGoOn
<1>3. /\ ServerInv' /\ SentInv' /\ Stream' = Stream /\ sent' = sent
      /\ DOMAIN users' \subseteq Sessions /\ DOMAIN tree' \subseteq Channels \cup {Root}
      /\ leaving' \in Channels \cup {Absent}
  BY <1>1, ServerStays
<1>4. /\ handled \in 0 .. Len(sent) - 1
      /\ Told(At(handled), Following, sent[handled + 1])
      /\ Body[Following.type] \in Nat
      /\ End(handled + 1) = parsed + Body[Following.type]
  BY <1>1, Due
<1>5. parsed' \in 0 .. arrived /\ handled' \in 0 .. Len(sent) /\ handled' # 0
  <2>1. Body[Following.type] <= Buffered
    BY <1>1 DEF BodyHere
  <2>2. parsed' \in 0 .. arrived
    BY <1>1, <1>4, <2>1, Ranges
  <2> QED BY <1>1, <1>4, <2>2, Ranges
<1>6. reader' \in {"header", "requeue"}
  BY <1>2
<1>7. TypeOK'
  BY <1>1, <1>3, <1>5, <1>6 DEF InboundInv, TypeOK
<1>8. End(handled)' = parsed' /\ ~InBody'
  BY <1>1, <1>3, <1>4, <1>6 DEF End, InBody
<1>9. parsed' \in Nat
  BY <1>5, Ranges
<1>10. InStep'
  BY <1>8, <1>9 DEF InStep, End
<1>11. Buffered' = arrived - parsed' /\ Buffered' \in Int
  BY <1>1, <1>9, Ranges DEF Buffered
<1>12. ReadsInv'
  <2>1. CASE handler = "ReadHandler" /\ arrived - parsed' >= HEADER
    BY <1>1, <1>2, <1>11, <2>1 DEF ReadsInv
  <2>2. CASE handler = "ReadHandler" /\ ~(arrived - parsed' >= HEADER)
    BY <1>1, <1>2, <1>11, <2>2, Ranges DEF ReadsInv
  <2>3. CASE handler # "ReadHandler"
    BY <1>1, <1>2, <2>3 DEF ReadsInv
  <2> QED BY <2>1, <2>2, <2>3
<1>13. FaultInv'
  BY <1>1 DEF InboundInv, FaultInv
<1>14. RosterInv'
  <2>1. SUFFICES ASSUME link \in {"up", "lost"}
                 PROVE  Mirrors(ParseMessage(roster, Following), sent[handled + 1])
    <3>1. (IF handled' = 0 THEN Nothing ELSE sent'[handled']) = sent[handled + 1]
      BY <1>1, <1>3, <1>5
    <3> QED BY <1>1, <3>1 DEF RosterInv, At, Nothing
  <2>2. Mirrors(roster, At(handled))
    BY <2>1 DEF InboundInv, RosterInv
  <2>3. WellFormed(At(handled).users, At(handled).comments, At(handled).tree)
    <3>1. CASE handled = 0
      BY <3>1 DEF At, Nothing, Entry, WellFormed
    <3>2. CASE handled # 0
      <4>1. handled \in 1 .. Len(sent)
        BY <3>2, Ranges
      <4> QED BY <3>2, <4>1 DEF At, InboundInv, SentInv
    <3> QED BY <3>1, <3>2
  <2> QED BY <1>4, <2>2, <2>3, ToldMirrored
<1> QED BY <1>3, <1>7, <1>10, <1>12, <1>13, <1>14 DEF InboundInv

(* The test of tcp_socket_ before the next read.                           *)
LEMMA RequeueKeeps ==
  ASSUME InboundInv, Requeue
  PROVE  InboundInv'
<1>1. /\ reader = "requeue" /\ reader' = IF link = "closed" THEN "stopped" ELSE "requeued"
      /\ UNCHANGED <<server, arrived, parsed, handled, handler, need, after, roster, link, fault>>
  BY DEF Requeue
<1>2. /\ ServerInv' /\ SentInv' /\ Stream' = Stream /\ sent' = sent
      /\ DOMAIN users' \subseteq Sessions /\ DOMAIN tree' \subseteq Channels \cup {Root}
      /\ leaving' \in Channels \cup {Absent}
  BY <1>1, ServerStays
<1>3. reader' \in {"stopped", "requeued"} /\ ~InBody /\ ~InBody' /\ Buffered' = Buffered
  BY <1>1 DEF InBody, Buffered
<1>4. TypeOK'
  BY <1>1, <1>2, <1>3 DEF InboundInv, TypeOK
<1>5. InStep'
  BY <1>1, <1>2, <1>3 DEF InboundInv, InStep, End
<1>6. ReadsInv'
  BY <1>1, <1>3 DEF InboundInv, ReadsInv
<1>7. FaultInv' /\ RosterInv'
  BY <1>1, <1>2 DEF InboundInv, FaultInv, RosterInv, At, Nothing
<1> QED BY <1>2, <1>4, <1>5, <1>6, <1>7 DEF InboundInv

(* The next read of a header; after ReadHandler there is less than a       *)
(* header left.                                                            *)
LEMMA ReadMoreKeeps ==
  ASSUME InboundInv, ReadMore
  PROVE  InboundInv'
<1>1. /\ reader = "requeued"
      /\ UNCHANGED <<server, arrived, parsed, handled, roster, link>>
  BY DEF ReadMore
<1>2. /\ ServerInv' /\ SentInv' /\ Stream' = Stream /\ sent' = sent
      /\ DOMAIN users' \subseteq Sessions /\ DOMAIN tree' \subseteq Channels \cup {Root}
      /\ leaving' \in Channels \cup {Absent}
  BY <1>1, ServerStays
<1>3. RosterInv'
  BY <1>1, <1>2 DEF InboundInv, RosterInv, At, Nothing
<1>4. handler \in {"ReadHandler", "ReadHandlerContinue"} /\ HEADER \in Nat \ {0}
  BY Bodies DEF InboundInv, TypeOK
<1>5. CASE link = "closed"
  <2>1. fault' = "noSocket" /\ UNCHANGED <<reader, handler, need, after>>
    BY <1>5 DEF ReadMore
  <2>2. TypeOK'
    BY <1>1, <1>2, <2>1 DEF InboundInv, TypeOK
  <2>3. InStep' /\ ReadsInv'
    BY <1>1, <1>2, <2>1 DEF InboundInv, InStep, ReadsInv, InBody, End, Buffered
  <2>4. FaultInv'
    BY <1>1, <1>5, <2>1 DEF FaultInv
  <2> QED BY <1>2, <1>3, <2>2, <2>3, <2>4 DEF InboundInv
<1>6. CASE link # "closed"
  <2>1. /\ reader' = "reading" /\ handler' = "ReadHandler" /\ need' = HEADER
        /\ after' = handler /\ fault' = fault
    BY <1>6 DEF ReadMore
  <2>2. TypeOK'
    BY <1>1, <1>2, <1>4, <2>1 DEF InboundInv, TypeOK
  <2>3. ~InBody /\ ~InBody' /\ Buffered' = Buffered
    BY <1>1, <2>1 DEF InBody, Buffered
  <2>4. InStep'
    BY <1>1, <1>2, <2>1, <2>3 DEF InboundInv, InStep, End
  <2>5. ReadsInv'
    BY <1>1, <2>1, <2>3 DEF InboundInv, ReadsInv
  <2>6. FaultInv'
    BY <1>1, <2>1 DEF InboundInv, FaultInv
  <2> QED BY <1>2, <1>3, <2>2, <2>4, <2>5, <2>6 DEF InboundInv
<1> QED BY <1>5, <1>6

(* A read that fails ends the reading.                                     *)
LEMMA ReadFailsKeeps ==
  ASSUME InboundInv, ReadFails
  PROVE  InboundInv'
<1>1. /\ reader = "reading" /\ link \in {"up", "closed"}
      /\ reader' = "stopped" /\ link' = IF link = "up" THEN "lost" ELSE link
      /\ UNCHANGED <<server, arrived, parsed, handled, handler, need, after, roster, fault>>
  BY DEF ReadFails
<1>2. /\ ServerInv' /\ SentInv' /\ Stream' = Stream /\ sent' = sent
      /\ DOMAIN users' \subseteq Sessions /\ DOMAIN tree' \subseteq Channels \cup {Root}
      /\ leaving' \in Channels \cup {Absent}
  BY <1>1, ServerStays
<1>3. link' \in {"lost", "closed"} /\ (link' = "lost" <=> link = "up")
  BY <1>1
<1>4. TypeOK'
  BY <1>1, <1>2, <1>3 DEF InboundInv, TypeOK
<1>5. InStep' /\ ReadsInv'
  BY <1>1 DEF InStep, ReadsInv, InBody
<1>6. FaultInv' /\ RosterInv'
  BY <1>1, <1>2, <1>3 DEF InboundInv, FaultInv, RosterInv, At, Nothing
<1> QED BY <1>2, <1>4, <1>5, <1>6 DEF InboundInv

(* Disconnect: the lists are no longer the server's, and faults may come.     *)
LEMMA DisconnectKeeps ==
  ASSUME InboundInv, Clear \/ Close
  PROVE  InboundInv'
<1>1. /\ link' \in {"cleared", "closed"} /\ fault' \in {fault, "raced"}
      /\ UNCHANGED <<server, arrived, parsed, handled, reader, handler, need, after>>
  BY DEF Clear, Close
<1>2. /\ ServerInv' /\ SentInv' /\ Stream' = Stream /\ sent' = sent
      /\ DOMAIN users' \subseteq Sessions /\ DOMAIN tree' \subseteq Channels \cup {Root}
      /\ leaving' \in Channels \cup {Absent}
  BY <1>1, ServerStays
<1>3. TypeOK'
  BY <1>1, <1>2 DEF InboundInv, TypeOK
<1>4. InStep' /\ ReadsInv'
  BY <1>1, <1>2 DEF InboundInv, InStep, ReadsInv, InBody, End, Buffered, Following, BodyHere
<1>5. FaultInv' /\ RosterInv'
  BY <1>1 DEF InboundInv, FaultInv, RosterInv
<1> QED BY <1>2, <1>3, <1>4, <1>5 DEF InboundInv

(* A step of the server keeps the invariant.                               *)
LEMMA ServerKeeps ==
  ASSUME InboundInv, Server
  PROVE  InboundInv'
<1>1. Grown
  BY ServerGrows DEF InboundInv
<1>2. /\ InStep' /\ ReadsInv' /\ FaultInv' /\ RosterInv'
      /\ parsed' \in 0 .. arrived' /\ arrived' \in 0 .. Stream' /\ handled' \in 0 .. Len(sent')
  BY <1>1, ReaderStays
<1>3. ServerInv' /\ SentInv' /\ UNCHANGED <<reading, link>>
  BY <1>1 DEF Grown
<1>4. /\ DOMAIN users' \subseteq Sessions /\ DOMAIN tree' \subseteq Channels \cup {Root}
      /\ leaving' \in Channels \cup {Absent}
  BY <1>3 DEF ServerInv, WellFormed
<1>5. TypeOK'
  BY <1>2, <1>3, <1>4 DEF InboundInv, TypeOK, reading
<1> QED BY <1>2, <1>3, <1>5 DEF InboundInv

(* A step that changes nothing keeps it.                                   *)
LEMMA Unchanged_Inbound ==
  ASSUME InboundInv, UNCHANGED vars
  PROVE  InboundInv'
<1>1. UNCHANGED <<server, reading, link>>
  BY DEF vars
<1>2. /\ ServerInv' /\ SentInv' /\ Stream' = Stream /\ sent' = sent
      /\ DOMAIN users' \subseteq Sessions /\ DOMAIN tree' \subseteq Channels \cup {Root}
      /\ leaving' \in Channels \cup {Absent}
  BY <1>1, ServerStays
<1>3. UNCHANGED <<arrived, parsed, handled, reader, handler, need, after, roster, fault, link>>
  BY <1>1 DEF reading
<1>4. TypeOK'
  BY <1>2, <1>3 DEF InboundInv, TypeOK
<1>5. InStep' /\ ReadsInv'
  BY <1>2, <1>3 DEF InboundInv, InStep, ReadsInv, InBody, End, Buffered, Following, BodyHere
<1>6. FaultInv' /\ RosterInv'
  BY <1>2, <1>3 DEF InboundInv, FaultInv, RosterInv, At, Nothing
<1> QED BY <1>2, <1>4, <1>5, <1>6 DEF InboundInv

(* Every reachable state satisfies the inductive invariant.                *)
THEOREM InboundInvariance == Spec => []InboundInv
<1>1. Init => InboundInv
  BY Init_Inbound
<1>2. InboundInv /\ [Next]_vars => InboundInv'
  <2> SUFFICES ASSUME InboundInv, [Next]_vars PROVE InboundInv'
    OBVIOUS
  <2>1. CASE UNCHANGED vars
    BY <2>1, Unchanged_Inbound
  <2>2. CASE Next
    BY <2>2, ServerKeeps, ReadCompletesKeeps, ReadFailsKeeps, ReadHeaderKeeps, ContentKeeps,
       ParseKeeps, RequeueKeeps, ReadMoreKeeps, DisconnectKeeps DEF Next
  <2> QED BY <2>1, <2>2
<1> QED BY <1>1, <1>2, PTL DEF Spec

-----------------------------------------------------------------------------
(* Every variable of the reader stays in its range, and no read asks for   *)
(* more than a message (async_read with transfer_at_least).                *)
THEOREM InboundTypes == Spec => []TypeOK
<1>1. InboundInv => TypeOK
  BY DEF InboundInv
<1> QED BY <1>1, InboundInvariance, PTL

(* However the stream is split into reads, headers are read where          *)
(* messages begin, no byte is skipped or parsed twice, and                 *)
(* HandleMessageContent never starts a second read.                        *)
THEOREM InboundSync == Spec => []FramesInSync
<1>1. InboundInv => FramesInSync
  BY DEF InboundInv, InStep, FaultInv, FramesInSync
<1> QED BY <1>1, InboundInvariance, PTL

(* A message that has come as a whole waits for a later one only after a   *)
(* message or a header that came in pieces (ReadHandlerContinue goes on    *)
(* without a look at recv_buffer_).                                        *)
THEOREM InboundPrompt == Spec => []PromptUnlessSplit
<1>1. ASSUME InboundInv PROVE PromptUnlessSplit
  <2> SUFFICES ASSUME reader = "reading", Stream - arrived < need, handled < Len(sent)
               PROVE  /\ handler = "ReadHandler"
                      /\ after = "ReadHandlerContinue" \/ Buffered \in 1 .. HEADER - 1
    BY DEF PromptUnlessSplit
  <2>1. /\ handler \in {"ReadHandler", "ReadHandlerContinue"}
        /\ after \in {"ReadHandler", "ReadHandlerContinue"}
    BY <1>1 DEF InboundInv, TypeOK
  <2>2. handler # "ReadHandlerContinue"
    <3> SUFFICES ASSUME handler = "ReadHandlerContinue" PROVE FALSE
      OBVIOUS
    <3>1. need = Body[Following.type] - Buffered
      BY <1>1 DEF InboundInv, ReadsInv
    <3>2. /\ Body[Following.type] \in Nat
          /\ End(handled + 1) = parsed + Body[Following.type] /\ End(handled + 1) <= Stream
      BY <1>1, Due DEF InBody
    <3>3. parsed + Body[Following.type] <= Stream
      BY <3>2
    <3> HIDE DEF Following
    <3>4. need = Body[Following.type] - (arrived - parsed)
      BY <1>1, <3>1, Ranges
    <3> QED BY <1>1, <3>2, <3>3, <3>4, Ranges
  <2>3. ASSUME after = "ReadHandler"
        PROVE  Buffered \in 1 .. HEADER - 1
    <3>1. need = HEADER /\ Buffered < HEADER
      BY <1>1, <2>1, <2>2, <2>3 DEF InboundInv, ReadsInv
    <3>2. Buffered # 0
      <4> SUFFICES ASSUME Buffered = 0 PROVE FALSE
        OBVIOUS
      <4>1. parsed = End(handled)
        BY <1>1, <2>1, <2>2, Ranges DEF InboundInv, InStep, InBody
      <4>2. End(handled + 1) = End(handled) + HEADER + Body[sent[handled + 1].message.type]
            /\ End(handled + 1) <= Stream /\ Body[sent[handled + 1].message.type] \in Nat
        <5>1. handled \in 0 .. Len(sent) - 1
          BY <1>1, Ranges
        <5> QED BY <1>1, <5>1, NextMessage DEF InboundInv
      <4>3. PICK b \in Nat : End(handled) + HEADER + b <= Stream
        BY <4>2
      <4> QED BY <1>1, <3>1, <4>1, <4>3, Ranges
    <3> QED BY <1>1, <3>1, <3>2, Ranges
  <2> QED BY <2>1, <2>2, <2>3
<1> QED BY <1>1, InboundInvariance, PTL

(* The elements of a list.                                                 *)
LEMMA RangeIs ==
  ASSUME NEW f, NEW S,
         \A i \in DOMAIN f : f[i] \in S, \A x \in S : \E i \in DOMAIN f : f[i] = x
  PROVE  Range(f) = S
BY DEF Range

(* A list without repetition has as many elements as it is long.           *)
LEMMA DistinctCount ==
  ASSUME NEW n \in Nat, NEW f, DOMAIN f = 1 .. n,
         \A i, j \in 1 .. n : f[i] = f[j] => i = j
  PROVE  Cardinality(Range(f)) = n
<1> DEFINE g == [i \in 1 .. n |-> f[i]]
<1>1. g \in Bijection(1 .. n, Range(f))
  BY DEF Bijection, Injection, Surjection, IsInjective, Range
<1>2. IsFiniteSet(1 .. n) /\ Cardinality(1 .. n) = n
  BY FS_Interval
<1> QED BY <1>1, <1>2, FS_Bijection, Zenon DEF ExistsBijection

(* Until Disconnect user_list_ and channel_list_ are the server's as of    *)
(* the last message parsed, no one twice, and no assertion of              *)
(* HandleUserRemove, HandleUserState, HandleChannelRemove or               *)
(* HandleChannelState fails.                                               *)
THEOREM InboundMirrors == Spec => []RosterMirrors
<1>1. ASSUME InboundInv PROVE RosterMirrors
  <2> SUFFICES ASSUME link \in {"up", "lost"}
               PROVE  /\ ~Faulty
                      /\ Cardinality(Range(roster.users)) = Len(roster.users)
                      /\ handled > 0 =>
                           LET now == sent[handled]
                           IN  /\ Range(roster.channels) = DOMAIN now.tree
                               /\ Range(roster.users) =
                                    {[session |-> s, channel |-> now.users[s],
                                      comment |-> now.comments[s]] : s \in DOMAIN now.users}
    BY DEF RosterMirrors
  <2>1. Mirrors(roster, At(handled)) /\ FaultInv
    BY <1>1 DEF InboundInv, RosterInv
  <2>2. ~Faulty
    BY <2>1 DEF FaultInv, Mirrors, Faulty
  <2>3. /\ roster.users \in Seq(UserRecord) /\ Len(roster.users) \in Nat
        /\ DOMAIN roster.users = 1 .. Len(roster.users)
        /\ roster.channels \in Seq(Int) /\ DOMAIN roster.channels = 1 .. Len(roster.channels)
    BY <2>1 DEF Mirrors
  <2>4. Cardinality(Range(roster.users)) = Len(roster.users)
    <3>1. \A i, j \in 1 .. Len(roster.users) : roster.users[i] = roster.users[j] => i = j
      BY <2>1 DEF Mirrors, UsersMirror
    <3> QED BY <2>3, <3>1, DistinctCount
  <2>5. ASSUME handled > 0, NEW now, now = sent[handled]
        PROVE  /\ Range(roster.channels) = DOMAIN now.tree
               /\ Range(roster.users) =
                    {[session |-> s, channel |-> now.users[s],
                      comment |-> now.comments[s]] : s \in DOMAIN now.users}
    <3>1. UsersMirror(roster.users, now.users, now.comments)
          /\ ChannelsMirror(roster.channels, now.tree)
      BY <2>1, <2>5, <1>1, Ranges DEF Mirrors, At
    <3>2. Range(roster.channels) = DOMAIN now.tree
      <4>1. /\ \A i \in DOMAIN roster.channels : roster.channels[i] \in DOMAIN now.tree
            /\ \A c \in DOMAIN now.tree :
                 \E i \in DOMAIN roster.channels : roster.channels[i] = c
        BY <2>3, <3>1 DEF ChannelsMirror
      <4> QED BY <4>1, RangeIs
    <3> DEFINE Listed(s) == [session |-> s, channel |-> now.users[s],
                          comment |-> now.comments[s]]
               all == {Listed(s) : s \in DOMAIN now.users}
    <3>3. ASSUME NEW i \in 1 .. Len(roster.users)
          PROVE  /\ roster.users[i].session \in DOMAIN now.users
                 /\ roster.users[i] = Listed(roster.users[i].session)
      <4>1. roster.users[i] \in UserRecord
        BY <2>3
      <4> QED BY <3>1, <4>1 DEF UsersMirror, UserRecord
    <3>4. ASSUME NEW x \in all
          PROVE  \E i \in 1 .. Len(roster.users) : roster.users[i] = x
      <4>1. PICK s \in DOMAIN now.users : x = Listed(s)
        OBVIOUS
      <4>2. PICK i \in 1 .. Len(roster.users) : roster.users[i].session = s
        BY <3>1 DEF UsersMirror
      <4> QED BY <3>3, <4>1, <4>2
    <3>5. \A i \in 1 .. Len(roster.users) : roster.users[i] \in all
      BY <3>3
    <3> HIDE DEF all
    <3>6. Range(roster.users) = all
      <4>1. /\ \A i \in DOMAIN roster.users : roster.users[i] \in all
            /\ \A x \in all : \E i \in DOMAIN roster.users : roster.users[i] = x
        BY <2>3, <3>4, <3>5
      <4> QED BY <4>1, RangeIs
    <3> QED BY <3>2, <3>6 DEF all
  <2> QED BY <2>2, <2>4, <2>5
<1> QED BY <1>1, InboundInvariance, PTL
=============================================================================
