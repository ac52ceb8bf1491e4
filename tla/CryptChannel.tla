---------------------------- MODULE CryptChannel ----------------------------
(***************************************************************************)
(* The nonces of libmumbleclient/CryptState.cpp: encrypt counts its IV up   *)
(* and sends the IV's low byte with the datagram, decrypt guesses the whole *)
(* IV from that byte and from the last IV it accepted.  Between the two is  *)
(* UDP: datagrams are lost, repeated and overtake each other.               *)
(*                                                                          *)
(* An IV is a number n.  Its first byte is Low(n), its second byte Next(n); *)
(* Base is the number of values of a byte (256), Half is 128, Window is 30. *)
(* A datagram is its key and its IV.  The tag check (ocb_decrypt) passes iff *)
(* key and IV are those of the datagram: a wrong guess never passes by       *)
(* chance.                                                                  *)
(***************************************************************************)
EXTENDS Integers, FiniteSets

CONSTANTS Base, Half, Window,
          Nonces,      \* the nonces a CryptSetup message may bring
          MaxKeys,     \* bound: how many keys are set
          MaxSent,     \* bound: how many datagrams are encrypted under each key
          MaxNet       \* bound: how many datagrams are under way when one is sent

ASSUME CryptAssumption ==
  /\ Half \in Nat /\ Base = 2 * Half
  /\ Window \in 1 .. Half
  /\ Nonces \subseteq Nat
  /\ MaxKeys \in Nat /\ MaxSent \in [1 .. MaxKeys -> Nat] /\ MaxNet \in Nat

Low(n) == n % Base
Second(n) == (n \div Base) % Base

VARIABLES
  key,          \* raw_key: the number of setKey calls (0: bInit is FALSE)
  encrypt_iv,   \* of the sending side
  decrypt_iv, decrypt_history, uiGood, uiLate, uiLost,   \* of the receiving side
  net,          \* datagrams that may still arrive
  resync,       \* nonces of resync messages under way
  start, lostBefore,   \* decrypt_iv and uiLost when the key was set
  accepted,     \* the IVs accepted under this key
  twice,        \* some IV was accepted twice under one key
  jumped, rewound   \* setDecryptIV moved decrypt_iv forward, back

sender == <<key, encrypt_iv, net, resync>>
history == <<start, lostBefore, accepted, twice>>
jumps == <<jumped, rewound>>
receiver == <<decrypt_iv, decrypt_history, uiGood, uiLate, uiLost>>
vars == <<sender, receiver, history, jumps>>

Datagram(k, n) == [key |-> k, iv |-> n]

Init ==
  /\ key = 0 /\ encrypt_iv = 0 /\ decrypt_iv = 0
  /\ decrypt_history = [b \in 0 .. Base - 1 |-> 0]
  /\ uiGood = 0 /\ uiLate = 0 /\ uiLost = 0
  /\ net = {} /\ resync = {}
  /\ start = 0 /\ lostBefore = 0 /\ accepted = {} /\ twice = FALSE
  /\ jumped = FALSE /\ rewound = FALSE

-----------------------------------------------------------------------------
(* setKey, on both sides; decrypt_history and the counters stay.             *)
SetKey(nonce) ==
  /\ key < MaxKeys
  /\ key' = key + 1
  /\ encrypt_iv' = nonce /\ decrypt_iv' = nonce
  /\ start' = nonce /\ lostBefore' = uiLost /\ accepted' = {} /\ twice' = FALSE
  /\ resync' = {} /\ jumped' = FALSE /\ rewound' = FALSE
  /\ UNCHANGED <<decrypt_history, uiGood, uiLate, uiLost, net>>

Encrypt ==
  /\ key > 0 /\ encrypt_iv < start + MaxSent[key] /\ Cardinality(net) < MaxNet
  /\ encrypt_iv' = encrypt_iv + 1
  /\ net' = net \cup {Datagram(key, encrypt_iv + 1)}
  /\ UNCHANGED <<key, resync, receiver, history, jumps>>

Lose(d) ==
  /\ net' = net \ {d}
  /\ UNCHANGED <<key, encrypt_iv, resync, receiver, history, jumps>>

-----------------------------------------------------------------------------
(* decrypt.                                                                  *)

(* How far ahead of iv the low byte b is taken to be: more than half a turn  *)
(* is taken to be the other direction, exactly half a turn is ahead or       *)
(* refused.                                                                  *)
Diff(b, iv) ==
  LET d == b - Low(iv)
  IN  IF d > Half THEN d - Base ELSE IF d < -Half THEN d + Base ELSE d

InOrder(b) == (Low(decrypt_iv) + 1) % Base = b
Late(b) == ~InOrder(b) /\ -Window < Diff(b, decrypt_iv) /\ Diff(b, decrypt_iv) < 0
Ahead(b) == ~InOrder(b) /\ Diff(b, decrypt_iv) > 0

Guess(b) == IF InOrder(b) THEN decrypt_iv + 1 ELSE decrypt_iv + Diff(b, decrypt_iv)

(* Faulty variant: a byte seen once is a repeat for ever.                    *)
IsRepeatByLow(n) == decrypt_history[Low(n)] # 0

IsRepeat(n) == decrypt_history[Low(n)] = Second(n)

(* Whether decrypt returns true for d.                                       *)
Accepts(d) ==
  LET b == Low(d.iv)
  IN  /\ InOrder(b) \/ ((Late(b) \/ Ahead(b)) /\ ~IsRepeat(Guess(b)))
      /\ d = Datagram(key, Guess(b))

(* Faulty variant: a late datagram stays counted as lost.                    *)
LostKeepsLate(b) == IF InOrder(b) \/ Late(b) THEN 0 ELSE Diff(b, decrypt_iv) - 1

Lost(b) == IF InOrder(b) THEN 0 ELSE IF Late(b) THEN -1 ELSE Diff(b, decrypt_iv) - 1

(* Faulty variant: the history is written after decrypt_iv was restored.     *)
DecryptRestoresFirst(d) ==
  LET b == Low(d.iv)
      iv == IF Late(b) THEN decrypt_iv ELSE d.iv IN
  /\ Accepts(d)
  /\ decrypt_iv' = iv
  /\ decrypt_history' = [decrypt_history EXCEPT ![Low(iv)] = Second(iv)]
  /\ uiGood' = uiGood + 1
  /\ uiLate' = IF Late(b) THEN uiLate + 1 ELSE uiLate
  /\ uiLost' = uiLost + Lost(b)
  /\ accepted' = accepted \cup {d.iv}
  /\ twice' = (twice \/ d.iv \in accepted)
  /\ UNCHANGED <<sender, start, lostBefore, jumps>>

Decrypt(d) ==
  LET b == Low(d.iv) IN
  /\ Accepts(d)
  /\ decrypt_history' = [decrypt_history EXCEPT ![b] = Second(d.iv)]
  /\ decrypt_iv' = IF Late(b) THEN decrypt_iv ELSE d.iv
  /\ uiGood' = uiGood + 1
  /\ uiLate' = IF Late(b) THEN uiLate + 1 ELSE uiLate
  /\ uiLost' = uiLost + Lost(b)
  /\ accepted' = accepted \cup {d.iv}
  /\ twice' = (twice \/ d.iv \in accepted)
  /\ UNCHANGED <<sender, start, lostBefore, jumps>>

(* A datagram arrives, and may arrive again; one that is refused changes     *)
(* nothing.                                                                  *)
Arrive(d) == Decrypt(d) \/ (~Accepts(d) /\ UNCHANGED vars)

-----------------------------------------------------------------------------
(* A resync message carries the sender's IV at the time it was written; it    *)
(* travels over TCP and is applied by setDecryptIV when it arrives.           *)
RequestResync ==
  /\ key > 0 /\ resync = {}   \* bound: one resync message at a time
  /\ resync' = {encrypt_iv}
  /\ UNCHANGED <<key, encrypt_iv, net, receiver, history, jumps>>

(* Faulty variant: the IV of the next datagram instead of the last one's.     *)
SetDecryptIVNext(n) ==
  /\ resync' = resync \ {n}
  /\ decrypt_iv' = n + 1
  /\ jumped' = (jumped \/ n + 1 > decrypt_iv)
  /\ rewound' = (rewound \/ n + 1 < decrypt_iv)
  /\ UNCHANGED <<key, encrypt_iv, net, decrypt_history, uiGood, uiLate, uiLost, history>>

SetDecryptIV(n) ==
  /\ resync' = resync \ {n}
  /\ decrypt_iv' = n
  /\ jumped' = (jumped \/ n > decrypt_iv)
  /\ rewound' = (rewound \/ n < decrypt_iv)
  /\ UNCHANGED <<key, encrypt_iv, net, decrypt_history, uiGood, uiLate, uiLost, history>>

-----------------------------------------------------------------------------
Next ==
  \/ \E nonce \in Nonces : SetKey(nonce)
  \/ Encrypt
  \/ \E d \in net : Lose(d) \/ Arrive(d)
  \/ RequestResync
  \/ \E n \in resync : SetDecryptIV(n)

Spec == Init /\ [][Next]_vars

-----------------------------------------------------------------------------
(* Every variable stays in its range: bytes stay bytes, and the receiver is   *)
(* never ahead of the sender.                                                *)
TypeOK ==
  /\ key \in 0 .. MaxKeys
  /\ encrypt_iv \in Nat /\ start \in Nat /\ decrypt_iv \in start .. encrypt_iv
  /\ decrypt_history \in [0 .. Base - 1 -> 0 .. Base - 1]
  /\ uiGood \in Nat /\ uiLate \in 0 .. uiGood /\ uiLost \in Int /\ lostBefore \in Int
  /\ net \subseteq [key : 1 .. key, iv : Nat]
  /\ resync \subseteq start .. encrypt_iv /\ accepted \subseteq start + 1 .. encrypt_iv
  /\ twice \in BOOLEAN /\ jumped \in BOOLEAN /\ rewound \in BOOLEAN

(* decrypt accepts no datagram twice under one key, however the network       *)
(* repeats and reorders it; only a resync message that was overtaken by       *)
(* datagrams, and so turns decrypt_iv back, opens a way.                     *)
AcceptedOnce == twice => rewound

(* uiLost is what it says: the datagrams between the nonce and the last IV    *)
(* that were not accepted.  It cannot fall below what it was when the key    *)
(* was set, so the unsigned counter does not wrap, until a resync skips      *)
(* datagrams without counting them.                                          *)
LostCounted ==
  (~jumped /\ ~rewound) =>
    uiLost - lostBefore = Cardinality((start + 1 .. decrypt_iv) \ accepted)

Fresh(d) == d.key = key /\ d.iv \in decrypt_iv + 1 .. decrypt_iv + Half - 1

(* A datagram ahead by less than half a turn of the byte is refused only for   *)
(* what an earlier key, or the constructor, left in decrypt_history, or what  *)
(* its own key left there a whole turn of two bytes ago, unless a resync       *)
(* turned decrypt_iv back.                                                   *)
RefusalIsStale ==
  \A d \in net :
    (~rewound /\ Fresh(d) /\ ~Accepts(d)) =>
      \A n \in accepted : Low(n) = Low(d.iv) => d.iv - n >= Base * Base
=============================================================================
