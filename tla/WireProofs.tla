----------------------------- MODULE WireProofs -----------------------------
(***************************************************************************)
(* What a voice packet goes through on its way over the wire: its fields are *)
(* written by PacketDataStream, and the datagram is encrypted and decrypted   *)
(* by CryptState.  Part one is about CryptChannel, part two about             *)
(* PacketDataStream; neither uses the other.                                 *)
(*                                                                          *)
(* 1. For every byte size, window and bound: decrypt accepts no datagram      *)
(* twice under a key unless a resync turned its IV back.                     *)
(*                                                                          *)
(* AcceptedOnce alone is not inductive.  What makes it so is SeenInv: an    *)
(* accepted IV is not ahead of decrypt_iv, and while it is so close behind   *)
(* that decrypt could take a repeat for a late datagram, decrypt_history     *)
(* still holds it.  It does because two IVs closer than a turn of the byte   *)
(* that share their low byte are the same (LowUnique), so nothing accepted   *)
(* since has overwritten the slot.                                           *)
(*                                                                          *)
(* LostCounted adds the count to it: a datagram ahead adds an interval of     *)
(* missing IVs, a late one fills a gap.  RefusalIsStale rests on NewestInv: a *)
(* slot of decrypt_history that this key has written holds its newest IV with *)
(* that low byte, so an equal second byte means a whole turn of two bytes.   *)
(*                                                                          *)
(* 2. For every capacity, all numbers and any number of items: what was        *)
(* written and fitted is read back.  EncodeDecoded says it of one number at  *)
(* one place, form by form; StreamInv says that the places are right: every  *)
(* item that fitted lies where its record says, the next one starts where it *)
(* ends, and reading goes from start to start.  Decode is a recursive         *)
(* function: that it exists (DecodeExists) and what it returns (DecodeType)   *)
(* is shown by induction on the distance to the end of the buffer.            *)
(***************************************************************************)
EXTENDS CryptChannel, PacketDataStream, FiniteSetTheorems, SequenceTheorems,
        WellFoundedInduction, TLAPS

(* What was encrypted under the present key lies between nonce and IV.        *)
NetInv == \A d \in net : d.key = key => d.iv \in start + 1 .. encrypt_iv

SeenInv ==
  ~rewound =>
    \A a \in accepted :
      /\ a <= decrypt_iv
      /\ a + Window > decrypt_iv => decrypt_history[Low(a)] = Second(a)

(* No accepted IV is newer than the one whose second byte its slot holds.     *)
NewestInv ==
  ~rewound =>
    \A a \in accepted : \E m \in accepted :
      a <= m /\ Low(m) = Low(a) /\ decrypt_history[Low(a)] = Second(m)

IInv == TypeOK /\ NetInv /\ SeenInv /\ AcceptedOnce /\ NewestInv /\ LostCounted

(* The IVs between nonce and decrypt_iv that were not accepted.               *)
Missing == (start + 1 .. decrypt_iv) \ accepted

-----------------------------------------------------------------------------
(* Two ways to write a number as a multiple of Base and a rest are the same if  *)
(* the rests are closer than Base.                                           *)
LEMMA DivideOnce ==
  ASSUME NEW q \in Int, NEW r \in Int, NEW x \in Int, NEW y \in Int,
         Base * q + x = Base * r + y, x - y < Base, y - x < Base
  PROVE  q = r /\ x = y
<1>1. Base \in Nat /\ Base > 0
  BY CryptAssumption
<1>2. ~(q > r)
  <2> SUFFICES ASSUME q > r PROVE FALSE
    OBVIOUS
  <2>1. Base * (q - r - 1) >= 0
    <3>1. q - r - 1 \in Nat
      OBVIOUS
    <3> QED BY <3>1, <1>1
  <2>2. Base * q - Base * r = Base * (q - r - 1) + Base
    BY <1>1
  <2> QED BY <1>1, <2>1, <2>2
<1>3. ~(r > q)
  <2> SUFFICES ASSUME r > q PROVE FALSE
    OBVIOUS
  <2>1. Base * (r - q - 1) >= 0
    <3>1. r - q - 1 \in Nat
      OBVIOUS
    <3> QED BY <3>1, <1>1
  <2>2. Base * r - Base * q = Base * (r - q - 1) + Base
    BY <1>1
  <2> QED BY <1>1, <2>1, <2>2
<1>4. q = r
  BY <1>2, <1>3
<1>5. Base * q = Base * r /\ Base * q \in Int
  BY <1>1, <1>4
<1> QED BY <1>4, <1>5

LEMMA Quotient ==
  ASSUME NEW n \in Int
  PROVE  n \div Base \in Int /\ Low(n) \in Int /\ n = Base * (n \div Base) + Low(n)
<1>1. Base \in Nat /\ Base > 0
  BY CryptAssumption
<1> QED BY <1>1 DEF Low

(* Numbers closer than Base with the same remainder are equal: the low byte   *)
(* tells IVs apart that are less than a turn apart.                          *)
LEMMA LowUnique ==
  ASSUME NEW a \in Int, NEW b \in Int, a - b < Base, b - a < Base, Low(a) = Low(b)
  PROVE  a = b
<1> DEFINE q == a \div Base
           r == b \div Base
<1>1. Base \in Int /\ q \in Int /\ r \in Int /\ Low(a) \in Int
  BY Quotient, CryptAssumption
<1>2. a = Base * q + Low(a) /\ b = Base * r + Low(a)
  <2>1. a = Base * q + Low(a)
    BY Quotient
  <2>2. b = Base * r + Low(b)
    BY Quotient
  <2> QED BY <2>1, <2>2
<1> HIDE DEF q, r
<1>3. Base * q \in Int /\ Base * r \in Int
  BY <1>1
<1>4. Base * q + b = Base * r + a
  BY <1>1, <1>2, <1>3
<1> QED BY <1>1, <1>4, DivideOnce

(* What is left of a number when a multiple of Base is taken away is its Low.  *)
LEMMA LowOf ==
  ASSUME NEW n \in Int, NEW q \in Int, NEW r \in 0 .. Base - 1, n = Base * q + r
  PROVE  Low(n) = r
<1> DEFINE p == n \div Base
<1>1. Base \in Nat /\ p \in Int /\ n = Base * p + Low(n) /\ Low(n) \in 0 .. Base - 1
  <2>1. Base \in Nat /\ Base > 0
    BY CryptAssumption
  <2> QED BY <2>1, Quotient DEF Low
<1> HIDE DEF p
<1>2. Base * p + Low(n) = Base * q + r /\ Low(n) - r < Base /\ r - Low(n) < Base
  BY <1>1
<1>3. r \in Int /\ Low(n) \in Int
  BY <1>1
<1> QED BY <1>1, <1>2, <1>3, DivideOnce

(* Low and Second are bytes.                                                 *)
LEMMA Bytes ==
  ASSUME NEW n \in Int
  PROVE  Low(n) \in 0 .. Base - 1 /\ Second(n) \in 0 .. Base - 1
<1>1. Base \in Nat /\ Base > 0
  BY CryptAssumption
<1>2. n \div Base \in Int
  BY <1>1
<1> QED BY <1>1, <1>2 DEF Low, Second

(* What decrypt accepts is the IV it guessed: the next one, a late one inside  *)
(* the window that is not in the history, or one ahead.                      *)
LEMMA AcceptedIV ==
  ASSUME TypeOK, NEW d \in net, Accepts(d)
  PROVE  /\ d.iv \in Nat /\ d.key = key
         /\ IF Late(Low(d.iv))
              THEN d.iv + Window > decrypt_iv /\ d.iv < decrypt_iv /\ ~IsRepeat(d.iv)
              ELSE d.iv > decrypt_iv
<1>1. d \in [key : 1 .. key, iv : Nat] /\ decrypt_iv \in Nat
  BY DEF TypeOK
<1>2. d = [key |-> key, iv |-> Guess(Low(d.iv))]
  BY DEF Accepts, Datagram
<1>3. d.key = key /\ d.iv = Guess(Low(d.iv))
  BY <1>2
<1>4. Low(d.iv) \in Int /\ Low(decrypt_iv) \in Int /\ Half \in Nat /\ Base \in Nat /\ Window \in Nat
  BY <1>1, Bytes, CryptAssumption
<1>5. Diff(Low(d.iv), decrypt_iv) \in Int
  BY <1>4 DEF Diff
<1>6. CASE InOrder(Low(d.iv))
  BY <1>1, <1>3, <1>6 DEF Guess, Late
<1>7. CASE ~InOrder(Low(d.iv)) /\ Late(Low(d.iv))
  <2>1. ~IsRepeat(d.iv)
    BY <1>3, <1>7 DEF Accepts
  <2>2. d.iv = decrypt_iv + Diff(Low(d.iv), decrypt_iv)
    BY <1>3, <1>7 DEF Guess
  <2> QED BY <1>1, <1>3, <1>4, <1>5, <1>7, <2>1, <2>2 DEF Late
<1>8. CASE ~InOrder(Low(d.iv)) /\ ~Late(Low(d.iv))
  <2>1. Diff(Low(d.iv), decrypt_iv) > 0
    BY <1>8 DEF Accepts, Ahead
  <2>2. d.iv = decrypt_iv + Diff(Low(d.iv), decrypt_iv)
    BY <1>3, <1>8 DEF Guess
  <2> QED BY <1>1, <1>3, <1>5, <1>8, <2>1, <2>2
<1> QED BY <1>6, <1>7, <1>8
-----------------------------------------------------------------------------
(* Type correctness is inductive together with NetInv.                        *)
LEMMA TypeStep ==
  ASSUME TypeOK, NetInv, [Next]_vars
  PROVE  TypeOK' /\ NetInv'
<1> USE CryptAssumption
<1>1. ASSUME NEW nonce \in Nonces, SetKey(nonce)
      PROVE  TypeOK' /\ NetInv'
  <2>0. net' \subseteq [key : 1 .. key', iv : Nat]
    BY <1>1 DEF TypeOK, SetKey
  <2>3. /\ key' \in 0 .. MaxKeys
        /\ encrypt_iv' \in Nat /\ start' \in Nat /\ decrypt_iv' \in start' .. encrypt_iv'
        /\ resync' \subseteq start' .. encrypt_iv'
        /\ accepted' \subseteq start' + 1 .. encrypt_iv'
    BY <1>1 DEF TypeOK, SetKey
  <2>4. /\ decrypt_history' \in [0 .. Base - 1 -> 0 .. Base - 1]
        /\ uiGood' \in Nat /\ uiLate' \in 0 .. uiGood' /\ uiLost' \in Int
        /\ lostBefore' \in Int
        /\ twice' \in BOOLEAN /\ jumped' \in BOOLEAN /\ rewound' \in BOOLEAN
    BY <1>1 DEF TypeOK, SetKey
  <2>1. TypeOK'
    BY <2>0, <2>3, <2>4 DEF TypeOK
  <2>2. NetInv'
    BY <1>1 DEF TypeOK, SetKey, NetInv
  <2> QED BY <2>1, <2>2
<1>2. CASE Encrypt
  <2>1. TypeOK'
    <3>1. /\ encrypt_iv \in Nat /\ encrypt_iv' = encrypt_iv + 1 /\ key \in 1 .. MaxKeys
          /\ UNCHANGED <<key, resync, receiver, history, jumps>>
      BY <1>2, CryptAssumption DEF TypeOK, Encrypt
    <3>2. net' \subseteq [key : 1 .. key, iv : Nat]
      <4>1. Datagram(key, encrypt_iv + 1) \in [key : 1 .. key, iv : Nat]
        BY <3>1, CryptAssumption DEF Datagram
      <4> QED BY <1>2, <4>1 DEF TypeOK, Encrypt
    <3>3. /\ start .. encrypt_iv \subseteq start .. encrypt_iv'
          /\ start + 1 .. encrypt_iv \subseteq start + 1 .. encrypt_iv'
      BY <3>1 DEF TypeOK
    <3> QED BY <3>1, <3>2, <3>3 DEF TypeOK, receiver, history, jumps
  <2>2. NetInv'
    <3>1. /\ net' = net \cup {Datagram(key, encrypt_iv + 1)} /\ key' = key /\ start' = start
          /\ encrypt_iv' = encrypt_iv + 1 /\ encrypt_iv \in Nat /\ start \in Nat
          /\ start <= encrypt_iv
      BY <1>2 DEF TypeOK, Encrypt, receiver, history
    <3>2. Datagram(key, encrypt_iv + 1).iv = encrypt_iv + 1
      BY DEF Datagram
    <3> QED BY <3>1, <3>2 DEF NetInv
  <2> QED BY <2>1, <2>2
<1>3. ASSUME NEW d \in net, Lose(d)
      PROVE  TypeOK' /\ NetInv'
  BY <1>3 DEF TypeOK, Lose, receiver, history, jumps, NetInv
<1>4. ASSUME NEW d \in net, Decrypt(d)
      PROVE  TypeOK' /\ NetInv'
  <2>1. d.iv \in Nat /\ d.key = key
    BY <1>4, AcceptedIV DEF Decrypt
  <2>2. d.iv \in start + 1 .. encrypt_iv
    BY <2>1 DEF NetInv
  <2>3. Low(d.iv) \in 0 .. Base - 1 /\ Second(d.iv) \in 0 .. Base - 1
    <3>1. d.iv \in Int
      BY <2>1
    <3> QED BY ONLY <3>1, Bytes
  <2>4. Low(decrypt_iv) \in Int
    BY Bytes DEF TypeOK
  <2>a. Half \in Int /\ Base \in Int
    BY CryptAssumption
  <2>b. Diff(Low(d.iv), decrypt_iv) \in Int
    BY <2>3, <2>4, <2>a DEF Diff
  <2>5. Lost(Low(d.iv)) \in Int
    BY <2>b DEF Lost
  <2>6. /\ decrypt_history' = [decrypt_history EXCEPT ![Low(d.iv)] = Second(d.iv)]
        /\ decrypt_iv' \in {decrypt_iv, d.iv}
        /\ uiGood' = uiGood + 1 /\ uiLate' \in {uiLate, uiLate + 1}
        /\ uiLost' = uiLost + Lost(Low(d.iv))
        /\ accepted' = accepted \cup {d.iv}
        /\ twice' = (twice \/ d.iv \in accepted)
        /\ UNCHANGED <<key, encrypt_iv, net, resync, start, lostBefore, jumped, rewound>>
    BY <1>4 DEF Decrypt, sender, jumps
  <2>7. decrypt_history' \in [0 .. Base - 1 -> 0 .. Base - 1]
    BY <2>3, <2>6 DEF TypeOK
  <2>8. twice' \in BOOLEAN
    BY <2>6 DEF TypeOK
  <2>11. decrypt_iv' \in start' .. encrypt_iv' /\ accepted' \subseteq start' + 1 .. encrypt_iv'
    <3>1. start \in Nat /\ encrypt_iv \in Nat /\ d.iv \in start .. encrypt_iv
      BY <2>2 DEF TypeOK
    <3>2. decrypt_iv' \in start .. encrypt_iv
      BY <2>6, <3>1 DEF TypeOK
    <3>3. accepted' \subseteq start + 1 .. encrypt_iv
      BY <2>2, <2>6 DEF TypeOK
    <3> QED BY <2>6, <3>2, <3>3
  <2>12. uiGood' \in Nat /\ uiLate' \in 0 .. uiGood'
    BY <2>6 DEF TypeOK
  <2>13. uiLost' \in Int /\ lostBefore' \in Int
    BY <2>5, <2>6 DEF TypeOK
  <2>14. /\ key' \in 0 .. MaxKeys /\ encrypt_iv' \in Nat /\ start' \in Nat
         /\ net' \subseteq [key : 1 .. key', iv : Nat] /\ resync' \subseteq start' .. encrypt_iv'
         /\ jumped' \in BOOLEAN /\ rewound' \in BOOLEAN
    BY <2>6 DEF TypeOK
  <2>9. TypeOK'
    BY <2>7, <2>8, <2>11, <2>12, <2>13, <2>14 DEF TypeOK
  <2>10. NetInv'
    BY <2>6 DEF NetInv
  <2> QED BY <2>9, <2>10
<1>5. CASE RequestResync
  BY <1>5 DEF TypeOK, RequestResync, receiver, history, jumps, NetInv
<1>6. ASSUME NEW n \in resync, SetDecryptIV(n)
      PROVE  TypeOK' /\ NetInv'
  BY <1>6 DEF TypeOK, SetDecryptIV, history, NetInv
<1>7. CASE UNCHANGED vars
  BY <1>7 DEF TypeOK, NetInv, vars, sender, receiver, history, jumps
<1> QED BY <1>1, <1>2, <1>3, <1>4, <1>5, <1>6, <1>7 DEF Next, Arrive

(* One accepted datagram.                                                     *)
LEMMA SeenDecrypt ==
  ASSUME TypeOK, SeenInv, AcceptedOnce, NEW d \in net, Decrypt(d)
  PROVE  SeenInv' /\ AcceptedOnce'
<1> DEFINE b == Low(d.iv)
<1>1. /\ d.iv \in Nat
      /\ IF Late(b) THEN d.iv + Window > decrypt_iv /\ d.iv < decrypt_iv /\ ~IsRepeat(d.iv)
                    ELSE d.iv > decrypt_iv
  BY AcceptedIV DEF Decrypt
<1>2. /\ decrypt_history' = [decrypt_history EXCEPT ![b] = Second(d.iv)]
      /\ decrypt_iv' = IF Late(b) THEN decrypt_iv ELSE d.iv
      /\ accepted' = accepted \cup {d.iv}
      /\ twice' = (twice \/ d.iv \in accepted)
      /\ rewound' = rewound
  BY DEF Decrypt, jumps
<1>3. /\ accepted \subseteq Int
      /\ decrypt_history \in [0 .. Base - 1 -> 0 .. Base - 1]
  BY CryptAssumption DEF TypeOK
<1>6. /\ Base \in Nat /\ Window \in Nat /\ Window <= Base /\ decrypt_iv \in Nat
  BY CryptAssumption DEF TypeOK
<1> HIDE DEF b
<1>4. AcceptedOnce'
  <2> SUFFICES ASSUME ~rewound, d.iv \in accepted PROVE FALSE
    BY <1>2 DEF AcceptedOnce
  <2>1. d.iv <= decrypt_iv
    BY DEF SeenInv
  <2>2. Late(b) /\ d.iv + Window > decrypt_iv
    BY <1>1, <1>3, <1>6, <2>1
  <2> QED BY <1>1, <2>2 DEF SeenInv, IsRepeat
<1>5. SeenInv'
  <2> SUFFICES ASSUME ~rewound, NEW a \in accepted'
               PROVE  /\ a <= decrypt_iv'
                      /\ a + Window > decrypt_iv' => decrypt_history'[Low(a)] = Second(a)
    BY <1>2 DEF SeenInv
  <2>a. a \in Int /\ d.iv \in Int
    BY <1>1, <1>2, <1>3, <1>6
  <2>0. a \in Int /\ b \in 0 .. Base - 1 /\ Low(a) \in 0 .. Base - 1
    BY <2>a, Bytes DEF b
  <2>1. decrypt_iv' >= decrypt_iv /\ decrypt_iv' >= d.iv /\ decrypt_iv' \in Nat
        /\ d.iv + Window > decrypt_iv'
    <3>1. CASE Late(b)
      BY <1>1, <1>2, <1>6, <3>1
    <3>2. CASE ~Late(b)
      BY <1>1, <1>2, <1>6, <3>2, CryptAssumption
    <3> QED BY <3>1, <3>2
  <2>2. CASE a = d.iv
    BY <1>2, <1>3, <1>6, <2>0, <2>1, <2>2 DEF b
  <2>3. CASE a \in accepted /\ a # d.iv
    <3>1. a <= decrypt_iv /\ (a + Window > decrypt_iv => decrypt_history[Low(a)] = Second(a))
      BY <2>3 DEF SeenInv
    <3>2. a <= decrypt_iv'
      BY <1>3, <1>6, <2>0, <2>1, <3>1
    <3>3. ASSUME a + Window > decrypt_iv'
          PROVE  decrypt_history'[Low(a)] = Second(a)
      <4>1. a + Window > decrypt_iv
        BY <1>6, <2>a, <2>1, <3>3
      <4>4. decrypt_history[Low(a)] = Second(a)
        BY <3>1, <4>1
      <4>2. a - d.iv < Base /\ d.iv - a < Base
        BY <1>6, <2>a, <2>1, <3>2, <3>3
      <4>3. Low(a) # b
        BY <1>1, <2>0, <2>3, <4>2, LowUnique DEF b
      <4> QED BY <1>2, <1>3, <1>6, <2>0, <4>3, <4>4
    <3> QED BY <3>2, <3>3
  <2> QED BY <1>2, <2>2, <2>3
<1> QED BY <1>4, <1>5

LEMMA SeenStep ==
  ASSUME TypeOK, SeenInv, AcceptedOnce, [Next]_vars
  PROVE  SeenInv' /\ AcceptedOnce'
<1>1. ASSUME NEW nonce \in Nonces, SetKey(nonce)
      PROVE  SeenInv' /\ AcceptedOnce'
  BY <1>1 DEF SetKey, SeenInv, AcceptedOnce
<1>2. CASE Encrypt
  BY <1>2 DEF Encrypt, receiver, history, jumps, SeenInv, AcceptedOnce
<1>3. ASSUME NEW d \in net, Lose(d)
      PROVE  SeenInv' /\ AcceptedOnce'
  BY <1>3 DEF Lose, receiver, history, jumps, SeenInv, AcceptedOnce
<1>4. ASSUME NEW d \in net, Decrypt(d)
      PROVE  SeenInv' /\ AcceptedOnce'
  BY <1>4, SeenDecrypt
<1>5. CASE RequestResync
  BY <1>5 DEF RequestResync, receiver, history, jumps, SeenInv, AcceptedOnce
<1>6. ASSUME NEW n \in resync, SetDecryptIV(n)
      PROVE  SeenInv' /\ AcceptedOnce'
  <2>1. n \in Int /\ decrypt_iv \in Int /\ accepted \subseteq Int /\ Window \in Int
    BY CryptAssumption DEF TypeOK
  <2>2. /\ decrypt_iv' = n /\ rewound' = (rewound \/ n < decrypt_iv)
        /\ decrypt_history' = decrypt_history /\ accepted' = accepted /\ twice' = twice
    BY <1>6 DEF SetDecryptIV, history
  <2>3. rewound => rewound'
    BY <2>2
  <2>4. ASSUME ~rewound'
        PROVE  n >= decrypt_iv
    <3>1. ~(n < decrypt_iv)
      BY <2>2, <2>4, Zenon
    <3> QED BY <2>1, <3>1
  <2>5. SeenInv'
    <3> SUFFICES ASSUME ~rewound', NEW a \in accepted
                 PROVE  a <= n /\ (a + Window > n => decrypt_history[Low(a)] = Second(a))
      BY <2>2 DEF SeenInv
    <3>1. a <= decrypt_iv /\ (a + Window > decrypt_iv => decrypt_history[Low(a)] = Second(a))
      BY <2>3 DEF SeenInv
    <3> QED BY <2>1, <2>4, <3>1
  <2>6. AcceptedOnce'
    BY <2>2, <2>3 DEF AcceptedOnce
  <2> QED BY <2>5, <2>6
<1>7. CASE UNCHANGED vars
  BY <1>7 DEF SeenInv, AcceptedOnce, vars, receiver, history, jumps
<1> QED BY <1>1, <1>2, <1>3, <1>4, <1>5, <1>6, <1>7 DEF Next, Arrive

(* What is accepted is new, and newer than all accepted IVs that share its     *)
(* low byte.                                                                 *)
LEMMA AcceptedIsNew ==
  ASSUME TypeOK, SeenInv, AcceptedOnce, NEW d \in net, Decrypt(d), ~rewound
  PROVE  /\ d.iv \notin accepted
         /\ \A a \in accepted : Low(a) = Low(d.iv) => a <= d.iv
<1>1. AcceptedOnce' /\ rewound' = rewound /\ twice' = (twice \/ d.iv \in accepted)
  BY SeenDecrypt DEF Decrypt, jumps
<1>2. d.iv \notin accepted
  BY <1>1 DEF AcceptedOnce
<1>3. ASSUME NEW a \in accepted, Low(a) = Low(d.iv)
      PROVE  a <= d.iv
  <2>1. /\ d.iv \in Nat
        /\ d.iv + Window > decrypt_iv
    <3>1. d.iv \in Nat /\ (d.iv > decrypt_iv \/ d.iv + Window > decrypt_iv)
      BY AcceptedIV DEF Decrypt
    <3> QED BY <3>1, CryptAssumption DEF TypeOK
  <2>2. a \in Int /\ a <= decrypt_iv /\ decrypt_iv \in Nat
    BY DEF SeenInv, TypeOK
  <2>3. Base \in Nat /\ Window \in Nat /\ Window <= Base
    BY CryptAssumption
  <2>4. CASE a > d.iv
    <3>1. a - d.iv < Base /\ d.iv - a < Base /\ d.iv \in Int
      BY <2>1, <2>2, <2>3, <2>4
    <3>2. a = d.iv
      BY <2>2, <3>1, <1>3, LowUnique
    <3> QED BY <1>2, <3>2
  <2> QED BY <2>1, <2>2, <2>4
<1> QED BY <1>2, <1>3

LEMMA NewestStep ==
  ASSUME TypeOK, SeenInv, AcceptedOnce, NewestInv, [Next]_vars
  PROVE  NewestInv'
<1>1. ASSUME NEW nonce \in Nonces, SetKey(nonce)
      PROVE  NewestInv'
  BY <1>1 DEF SetKey, NewestInv
<1>2. CASE Encrypt
  BY <1>2 DEF Encrypt, receiver, history, jumps, NewestInv
<1>3. ASSUME NEW d \in net, Lose(d)
      PROVE  NewestInv'
  BY <1>3 DEF Lose, receiver, history, jumps, NewestInv
<1>4. ASSUME NEW d \in net, Decrypt(d)
      PROVE  NewestInv'
  <2> DEFINE b == Low(d.iv)
  <2>1. /\ decrypt_history' = [decrypt_history EXCEPT ![b] = Second(d.iv)]
        /\ accepted' = accepted \cup {d.iv} /\ rewound' = rewound
    BY <1>4 DEF Decrypt, jumps
  <2>2. d.iv \in Nat /\ accepted \subseteq Int /\ decrypt_history \in [0 .. Base - 1 -> 0 .. Base - 1]
    BY <1>4, AcceptedIV DEF Decrypt, TypeOK
  <2>3. b \in 0 .. Base - 1
    <3>1. d.iv \in Int
      BY <2>2
    <3> QED BY ONLY <3>1, Bytes
  <2> SUFFICES ASSUME ~rewound, NEW a \in accepted'
               PROVE  \E m \in accepted' :
                        a <= m /\ Low(m) = Low(a) /\ decrypt_history'[Low(a)] = Second(m)
    BY <2>1 DEF NewestInv
  <2>4. a \in Int /\ d.iv \in accepted'
    BY <2>1, <2>2
  <2>5. Low(a) \in 0 .. Base - 1
    BY <2>4, Bytes
  <2>6. CASE Low(a) = b
    <3>1. a <= d.iv
      BY <1>4, <2>1, <2>2, <2>6, AcceptedIsNew
    <3>2. decrypt_history'[Low(a)] = Second(d.iv)
      BY <2>1, <2>2, <2>3, <2>6
    <3> QED BY <2>4, <2>6, <3>1, <3>2
  <2>7. CASE Low(a) # b
    <3>1. a \in accepted
      BY <2>1, <2>7
    <3>2. PICK m \in accepted :
            a <= m /\ Low(m) = Low(a) /\ decrypt_history[Low(a)] = Second(m)
      BY <3>1 DEF NewestInv
    <3>3. decrypt_history'[Low(a)] = decrypt_history[Low(a)] /\ m \in accepted'
      BY <2>1, <2>2, <2>5, <2>7
    <3> QED BY <3>2, <3>3
  <2> QED BY <2>6, <2>7
<1>5. CASE RequestResync
  BY <1>5 DEF RequestResync, receiver, history, jumps, NewestInv
<1>6. ASSUME NEW n \in resync, SetDecryptIV(n)
      PROVE  NewestInv'
  BY <1>6 DEF SetDecryptIV, history, NewestInv
<1>7. CASE UNCHANGED vars
  BY <1>7 DEF NewestInv, vars, receiver, history, jumps
<1> QED BY <1>1, <1>2, <1>3, <1>4, <1>5, <1>6, <1>7 DEF Next, Arrive

-----------------------------------------------------------------------------
(* The counter of lost datagrams: a late datagram takes one from Missing, one  *)
(* ahead of decrypt_iv adds those it skips.                                  *)
LEMMA LostDecrypt ==
  ASSUME TypeOK, NetInv, SeenInv, AcceptedOnce, LostCounted, NEW d \in net, Decrypt(d)
  PROVE  LostCounted'
<1> DEFINE b == Low(d.iv)
           skipped == decrypt_iv + 1 .. d.iv - 1
<1>1. /\ d.iv \in Nat /\ d.key = key
      /\ IF Late(b) THEN d.iv < decrypt_iv ELSE d.iv > decrypt_iv
  BY AcceptedIV DEF Decrypt
<1>2. /\ decrypt_iv' = IF Late(b) THEN decrypt_iv ELSE d.iv
      /\ uiLost' = uiLost + Lost(b)
      /\ accepted' = accepted \cup {d.iv}
      /\ start' = start /\ lostBefore' = lostBefore
      /\ rewound' = rewound /\ jumped' = jumped
  BY DEF Decrypt, jumps
<1>3. /\ decrypt_iv \in Nat /\ start \in Nat /\ start <= decrypt_iv
      /\ uiLost \in Int /\ lostBefore \in Int /\ accepted \subseteq Int
  BY DEF TypeOK
<1>4. d.iv >= start + 1
  BY <1>1 DEF NetInv
<1> SUFFICES ASSUME ~jumped, ~rewound
             PROVE  uiLost' - lostBefore = Cardinality(Missing')
  BY <1>2 DEF LostCounted, Missing
<1>5. d.iv \notin accepted /\ \A a \in accepted : a <= decrypt_iv
  BY AcceptedIsNew DEF SeenInv
<1>6. uiLost - lostBefore = Cardinality(Missing)
  BY DEF LostCounted, Missing
<1>7. IsFiniteSet(Missing) /\ Cardinality(Missing) \in Nat
  <2>1. IsFiniteSet(start + 1 .. decrypt_iv)
    BY <1>3, FS_Interval
  <2> QED BY <2>1, FS_Difference, FS_CardinalityType DEF Missing
<1>8. CASE Late(b)
  <2>1. Missing' = Missing \ {d.iv} /\ d.iv \in Missing
    BY <1>1, <1>2, <1>3, <1>4, <1>5, <1>8 DEF Missing
  <2>2. Cardinality(Missing') = Cardinality(Missing) - 1
    BY <1>7, <2>1, FS_RemoveElement
  <2>3. Lost(b) = -1
    BY <1>8 DEF Lost, Late
  <2> QED BY <1>2, <1>3, <1>6, <1>7, <2>2, <2>3
<1>9. CASE ~Late(b)
  <2>1. d.iv > decrypt_iv
    BY <1>1, <1>9
  <2>2. Missing' = Missing \cup skipped /\ Missing \cap skipped = {}
    BY <1>1, <1>2, <1>3, <1>5, <1>9, <2>1 DEF Missing
  <2>3. IsFiniteSet(skipped) /\ Cardinality(skipped) = d.iv - 1 - decrypt_iv
    <3>1. decrypt_iv + 1 \in Int /\ d.iv - 1 \in Int
      BY <1>1, <1>3
    <3>2. /\ IsFiniteSet(skipped)
          /\ Cardinality(skipped) =
               IF decrypt_iv + 1 > d.iv - 1 THEN 0 ELSE d.iv - 1 - (decrypt_iv + 1) + 1
      BY <3>1, FS_Interval
    <3> QED BY <1>1, <1>3, <2>1, <3>2
  <2>4. Cardinality(Missing') = Cardinality(Missing) + (d.iv - 1 - decrypt_iv)
    <3>1. Cardinality(Missing \cap skipped) = 0
      BY <2>2, FS_EmptySet
    <3>2. Cardinality(Missing \cup skipped)
            = Cardinality(Missing) + Cardinality(skipped) - Cardinality(Missing \cap skipped)
      BY <1>7, <2>3, FS_Union
    <3> HIDE DEF skipped
    <3> QED BY <1>1, <1>3, <1>7, <2>2, <2>3, <3>1, <3>2
  <2>5. Lost(b) = d.iv - 1 - decrypt_iv
    <3>1. d = [key |-> key, iv |-> Guess(b)]
      BY DEF Decrypt, Accepts, Datagram
    <3>2. d.iv = Guess(b)
      BY <3>1
    <3>3. CASE InOrder(b)
      BY <1>1, <1>3, <3>2, <3>3 DEF Lost, Guess
    <3>4. CASE ~InOrder(b)
      <4>1. d.iv = decrypt_iv + Diff(b, decrypt_iv) /\ Lost(b) = Diff(b, decrypt_iv) - 1
        BY <1>9, <3>2, <3>4 DEF Lost, Guess
      <4>0. d.iv \in Int /\ decrypt_iv \in Int /\ Half \in Int /\ Base \in Int
        BY <1>1, <1>3, CryptAssumption
      <4>2. b \in Int /\ Low(decrypt_iv) \in Int
        <5>1. b \in 0 .. Base - 1 /\ Low(decrypt_iv) \in 0 .. Base - 1
          BY ONLY <4>0, Bytes
        <5> QED BY <4>0, <5>1
      <4>3. Diff(b, decrypt_iv) \in Int
        BY <4>0, <4>2 DEF Diff
      <4> QED BY <1>1, <1>3, <4>1, <4>3
    <3> QED BY <3>3, <3>4
  <2> QED BY <1>1, <1>2, <1>3, <1>6, <1>7, <2>4, <2>5
<1> QED BY <1>8, <1>9

LEMMA LostStep ==
  ASSUME TypeOK, NetInv, SeenInv, AcceptedOnce, LostCounted, [Next]_vars
  PROVE  LostCounted'
<1>1. ASSUME NEW nonce \in Nonces, SetKey(nonce)
      PROVE  LostCounted'
  <2>1. nonce \in Nat /\ uiLost \in Int
    BY CryptAssumption DEF TypeOK
  <2>2. (nonce + 1 .. nonce) \ {} = {}
    BY <2>1
  <2>3. Cardinality((nonce + 1 .. nonce) \ {}) = 0
    BY <2>2, FS_EmptySet
  <2>4. /\ start' = nonce /\ decrypt_iv' = nonce /\ accepted' = {}
        /\ uiLost' = uiLost /\ lostBefore' = uiLost
    BY <1>1 DEF SetKey
  <2> QED BY <2>1, <2>3, <2>4 DEF LostCounted
<1>2. CASE Encrypt
  BY <1>2 DEF Encrypt, receiver, history, jumps, LostCounted
<1>3. ASSUME NEW d \in net, Lose(d)
      PROVE  LostCounted'
  BY <1>3 DEF Lose, receiver, history, jumps, LostCounted
<1>4. ASSUME NEW d \in net, Decrypt(d)
      PROVE  LostCounted'
  BY <1>4, LostDecrypt
<1>5. CASE RequestResync
  BY <1>5 DEF RequestResync, receiver, history, jumps, LostCounted
<1>6. ASSUME NEW n \in resync, SetDecryptIV(n)
      PROVE  LostCounted'
  <2>1. n \in Int /\ decrypt_iv \in Int
    BY DEF TypeOK
  <2>2. /\ decrypt_iv' = n /\ rewound' = (rewound \/ n < decrypt_iv)
        /\ jumped' = (jumped \/ n > decrypt_iv)
        /\ start' = start /\ accepted' = accepted
        /\ uiLost' = uiLost /\ lostBefore' = lostBefore
    BY <1>6 DEF SetDecryptIV, history
  <2> SUFFICES ASSUME ~jumped', ~rewound'
               PROVE  LostCounted'
    BY DEF LostCounted
  <2>3. ~jumped /\ ~rewound /\ ~(n > decrypt_iv) /\ ~(n < decrypt_iv)
    BY <2>2, Zenon
  <2>4. n = decrypt_iv
    BY <2>1, <2>3
  <2> QED BY <2>2, <2>3, <2>4 DEF LostCounted
<1>7. CASE UNCHANGED vars
  BY <1>7 DEF LostCounted, vars, receiver, history, jumps
<1> QED BY <1>1, <1>2, <1>3, <1>4, <1>5, <1>6, <1>7 DEF Next, Arrive

-----------------------------------------------------------------------------
LEMMA InitInv == Init => IInv
<1> SUFFICES ASSUME Init PROVE IInv
  OBVIOUS
<1>1. decrypt_history \in [0 .. Base - 1 -> 0 .. Base - 1]
  BY CryptAssumption DEF Init
<1>2. key \in 0 .. MaxKeys /\ decrypt_iv \in start .. encrypt_iv /\ uiLate \in 0 .. uiGood
  BY CryptAssumption DEF Init
<1>4. /\ net \subseteq [key : 1 .. key, iv : Nat]
      /\ resync \subseteq start .. encrypt_iv /\ accepted \subseteq start + 1 .. encrypt_iv
  BY DEF Init
<1>5. /\ encrypt_iv \in Nat /\ start \in Nat
      /\ uiGood \in Nat /\ uiLost \in Int /\ lostBefore \in Int
  BY DEF Init
<1>6. twice \in BOOLEAN /\ jumped \in BOOLEAN /\ rewound \in BOOLEAN
  BY Zenon DEF Init
<1>3. TypeOK
  BY <1>1, <1>2, <1>4, <1>5, <1>6 DEF TypeOK
<1>7. LostCounted
  <2>1. (0 + 1 .. 0) \ {} = {}
    OBVIOUS
  <2>2. Cardinality((0 + 1 .. 0) \ {}) = 0
    BY <2>1, FS_EmptySet
  <2>3. start = 0 /\ decrypt_iv = 0 /\ accepted = {} /\ uiLost = 0 /\ lostBefore = 0
    BY DEF Init
  <2> QED BY <2>2, <2>3 DEF LostCounted
<1> QED BY <1>3, <1>7 DEF Init, IInv, NetInv, SeenInv, AcceptedOnce, NewestInv

(* IInv is an invariant of decrypt under every behaviour of the network.      *)
THEOREM CryptInvariance == Spec => []IInv
<1>1. IInv /\ [Next]_vars => IInv'
  BY TypeStep, SeenStep, NewestStep, LostStep DEF IInv
<1> QED BY InitInv, <1>1, PTL DEF Spec

(* The bytes of CryptState stay bytes, and the receiving IV stays between the  *)
(* nonce and the sender's IV.                                                *)
THEOREM CryptTypes == Spec => []TypeOK
<1>1. IInv => TypeOK
  BY DEF IInv
<1> QED BY CryptInvariance, <1>1, PTL

(* decrypt accepts no datagram twice under one key unless a resync turned its  *)
(* IV back, for every byte size, window and traffic.                         *)
THEOREM NoRepeatAccepted == Spec => []AcceptedOnce
<1>1. IInv => AcceptedOnce
  BY DEF IInv
<1> QED BY CryptInvariance, <1>1, PTL

-----------------------------------------------------------------------------
(* Counting on by less than a turn carries at most once.                      *)
LEMMA LowAdd ==
  ASSUME NEW n \in Int, NEW k \in 0 .. Base
  PROVE  Low(n + k) = IF Low(n) + k < Base THEN Low(n) + k ELSE Low(n) + k - Base
<1> DEFINE q == n \div Base
           l == Low(n)
<1>1. Base \in Nat /\ q \in Int /\ n = Base * q + l /\ l \in 0 .. Base - 1
  <2>1. Base \in Nat /\ Base > 0
    BY CryptAssumption
  <2> QED BY <2>1, Quotient DEF Low
<1> HIDE DEF q, l
<1>2. /\ n + k \in Int /\ q + 1 \in Int
      /\ n + k = Base * q + (l + k) /\ n + k = Base * (q + 1) + (l + k - Base)
  BY <1>1
<1>3. CASE l + k < Base
  <2>1. l + k \in 0 .. Base - 1
    BY <1>1, <1>3
  <2> QED BY <1>1, <1>2, <1>3, <2>1, LowOf DEF l
<1>4. CASE ~(l + k < Base)
  <2>1. l + k - Base \in 0 .. Base - 1
    BY <1>1, <1>4
  <2> QED BY <1>1, <1>2, <1>4, <2>1, LowOf DEF l
<1> QED BY <1>3, <1>4

(* A datagram ahead by less than half a turn is guessed right.                *)
LEMMA GuessFresh ==
  ASSUME decrypt_iv \in Nat, NEW n \in decrypt_iv + 1 .. decrypt_iv + Half - 1
  PROVE  Guess(Low(n)) = n /\ (InOrder(Low(n)) \/ Ahead(Low(n)))
<1> DEFINE k == n - decrypt_iv
           l == Low(decrypt_iv)
<1>2. Half \in Nat /\ Base = 2 * Half /\ Base > 0 /\ Base \in Nat
  BY CryptAssumption
<1>1. decrypt_iv \in Int /\ n \in Int /\ k \in 1 .. Half - 1 /\ n = decrypt_iv + k
  BY <1>2
<1>3. l \in 0 .. Base - 1
  BY ONLY <1>1, Bytes
<1>4. Low(n) = IF l + k < Base THEN l + k ELSE l + k - Base
  <2>1. k \in 0 .. Base
    BY <1>1, <1>2
  <2> HIDE DEF k
  <2>2. Low(decrypt_iv + k) = IF l + k < Base THEN l + k ELSE l + k - Base
    BY <1>1, <2>1, LowAdd
  <2> QED BY <1>1, <2>2
<1>5. Diff(Low(n), decrypt_iv) = k
  <2> HIDE DEF k, l
  <2>1. Diff(Low(n), decrypt_iv) =
          IF Low(n) - l > Half THEN Low(n) - l - Base
          ELSE IF Low(n) - l < -Half THEN Low(n) - l + Base ELSE Low(n) - l
    BY DEF Diff, l
  <2> QED BY <1>1, <1>2, <1>3, <1>4, <2>1
<1>6. CASE InOrder(Low(n))
  <2>1. (l + 1) % Base = Low(n)
    BY <1>6 DEF InOrder
  <2>2. Low(l + 1) = Low(n)
    BY <2>1 DEF Low
  <2>3. Low(decrypt_iv + 1) = Low(l + 1)
    <3> HIDE DEF k, l
    <3>1. 1 \in 0 .. Base /\ l \in Int /\ l + 1 \in Int /\ 0 \in Int
      BY <1>2, <1>3
    <3>2. Low(decrypt_iv + 1) = IF l + 1 < Base THEN l + 1 ELSE l + 1 - Base
      BY <1>1, <3>1, LowAdd DEF l
    <3>3. CASE l + 1 < Base
      <4>1. l + 1 \in 0 .. Base - 1 /\ l + 1 = Base * 0 + (l + 1)
        BY <1>2, <1>3, <3>3
      <4> QED BY <3>1, <3>2, <3>3, <4>1, LowOf
    <3>4. CASE ~(l + 1 < Base)
      <4>1. 0 \in 0 .. Base - 1 /\ l + 1 = Base * 1 + 0 /\ l + 1 - Base = 0 /\ 1 \in Int
        BY <1>2, <1>3, <3>4
      <4> QED BY <3>1, <3>2, <3>4, <4>1, LowOf
    <3> QED BY <3>3, <3>4
  <2>4. /\ n \in Int /\ decrypt_iv + 1 \in Int
        /\ n - (decrypt_iv + 1) < Base /\ (decrypt_iv + 1) - n < Base
    BY <1>1, <1>2
  <2>5. n = decrypt_iv + 1
    BY <2>2, <2>3, <2>4, LowUnique
  <2> QED BY <1>6, <2>5 DEF Guess
<1>7. CASE ~InOrder(Low(n))
  BY <1>1, <1>5, <1>7 DEF Guess, Ahead
<1> QED BY <1>6, <1>7

(* IVs that share both bytes are a whole turn of two bytes apart.             *)
LEMMA TwoBytes ==
  ASSUME NEW m \in Int, NEW n \in Int, m < n, Low(m) = Low(n), Second(m) = Second(n)
  PROVE  n - m >= Base * Base
<1> DEFINE p == m \div Base
           q == n \div Base
<1>1. Base \in Nat /\ Base > 0
  BY CryptAssumption
<1>2. p \in Int /\ q \in Int /\ m = Base * p + Low(m) /\ n = Base * q + Low(m)
  <2>1. p \in Int /\ m = Base * p + Low(m)
    BY Quotient
  <2>2. q \in Int /\ n = Base * q + Low(n)
    BY Quotient
  <2> QED BY <2>1, <2>2
<1>3. Low(m) \in Int
  BY Quotient
<1>4. Low(p) = Low(q)
  BY DEF Second, Low
<1> HIDE DEF p, q
<1>5. n - m = Base * (q - p)
  BY <1>1, <1>2, <1>3
<1>6. q - p >= Base
  <2> SUFFICES ASSUME q - p < Base PROVE FALSE
    BY <1>1, <1>2
  <2>1. CASE p > q
    <3>1. p - q \in Nat
      BY <1>2, <2>1
    <3>2. Base * (p - q) >= 0 /\ Base * (q - p) = - (Base * (p - q))
      BY <1>1, <1>2, <3>1
    <3> QED BY <1>1, <1>2, <1>5, <3>2
  <2>2. CASE ~(p > q)
    <3>1. p - q < Base
      BY <1>1, <1>2, <2>2
    <3>2. p = q
      BY <1>2, <1>4, <3>1, LowUnique
    <3> QED BY <1>2, <1>3, <3>2
  <2> QED BY <2>1, <2>2
<1>7. Base * (q - p) - Base * Base = Base * (q - p - Base) /\ q - p - Base \in Nat
  BY <1>1, <1>2, <1>6
<1>8. Base * (q - p - Base) >= 0
  BY <1>1, <1>7
<1>9. Base * (q - p) \in Int /\ Base * Base \in Int
  BY <1>1, <1>2
<1> QED BY <1>5, <1>7, <1>8, <1>9

(* uiLost counts the IVs that are missing, for every byte size and traffic,    *)
(* until a resync moves decrypt_iv.                                          *)
THEOREM LossesCounted == Spec => []LostCounted
<1>1. IInv => LostCounted
  BY DEF IInv
<1> QED BY CryptInvariance, <1>1, PTL

(* decrypt refuses a datagram that is fresh by less than half a turn only for   *)
(* what an earlier key left in its history or its own key a whole turn of two *)
(* bytes ago, as long as no resync turned decrypt_iv back.                   *)
THEOREM FreshAccepted == Spec => []RefusalIsStale
<1>1. IInv => RefusalIsStale
  <2> SUFFICES ASSUME IInv, NEW d \in net, ~rewound, Fresh(d), ~Accepts(d),
                      NEW n \in accepted, Low(n) = Low(d.iv)
               PROVE  d.iv - n >= Base * Base
    BY DEF RefusalIsStale
  <2>1. /\ decrypt_iv \in Nat /\ d \in [key : 1 .. key, iv : Nat] /\ d.key = key
        /\ d.iv \in decrypt_iv + 1 .. decrypt_iv + Half - 1
        /\ accepted \subseteq Int
    BY DEF IInv, TypeOK, Fresh
  <2>2. Guess(Low(d.iv)) = d.iv /\ (InOrder(Low(d.iv)) \/ Ahead(Low(d.iv)))
    BY <2>1, GuessFresh
  <2>3. d = Datagram(key, Guess(Low(d.iv)))
    BY <2>1, <2>2 DEF Datagram
  <2>4. IsRepeat(d.iv)
    BY <2>2, <2>3 DEF Accepts
  <2>5. PICK m \in accepted :
          n <= m /\ Low(m) = Low(n) /\ decrypt_history[Low(n)] = Second(m)
    BY DEF IInv, NewestInv
  <2>6. Second(m) = Second(d.iv)
    BY <2>4, <2>5 DEF IsRepeat
  <2>7. m \in Int /\ d.iv \in Int /\ m < d.iv
    <3>1. m <= decrypt_iv
      BY DEF IInv, SeenInv
    <3> QED BY <2>1, <3>1, CryptAssumption
  <2>8. d.iv - m >= Base * Base
    BY <2>5, <2>6, <2>7, TwoBytes
  <2>9. Base * Base \in Int /\ n \in Int
    BY <2>1, CryptAssumption
  <2> QED BY <2>5, <2>7, <2>8, <2>9
<1> QED BY CryptInvariance, <1>1, PTL

-----------------------------------------------------------------------------
(* Induction over the natural numbers.                                        *)

LessThan == {ss \in Nat \X Nat : ss[1] < ss[2]}

(* A set of numbers that is not empty has a least element.                   *)
LEMMA LeastElement ==
  ASSUME NEW T \in SUBSET Nat, T # {}
  PROVE  \E m \in T : \A n \in T : m <= n
<1>1. IsWellFoundedOn(LessThan, Nat)
  BY NatLessThanWellFounded, Zenon DEF OpToRel, LessThan
<1>2. PICK m \in T : \A n \in T : <<n, m>> \notin LessThan
  BY <1>1, WFMin
<1>3. ASSUME NEW n \in Nat, NEW k \in Nat, <<n, k>> \notin LessThan PROVE k <= n
  BY <1>3 DEF LessThan
<1> QED BY <1>2, <1>3

LEMMA SetInduction ==
  ASSUME NEW T \in SUBSET Nat, 0 \in T, \A n \in T : n + 1 \in T
  PROVE  T = Nat
<1>1. SUFFICES ASSUME Nat \ T # {} PROVE FALSE
  OBVIOUS
<1>2. PICK m \in Nat \ T : \A n \in Nat \ T : m <= n
  BY <1>1, LeastElement
<1>3. m # 0 /\ m - 1 \in Nat /\ m - 1 \in T
  BY <1>2
<1> QED BY <1>2, <1>3


-----------------------------------------------------------------------------
(* Decode takes back what Encode made.  Its recursion ends at the end of the   *)
(* buffer, so that the function it stands for exists for every buffer.        *)

Value == [1 .. 8 -> Byte]
From(k, max) == {o \in Nat : max <= o + k}
Decodes(f, d, max, k) == f = [o \in From(k, max) |-> Number(f, d, max, o)]

LEMMA NumberLocal ==
  ASSUME NEW f, NEW g, NEW d, NEW max, NEW o, f[o + 1] = g[o + 1]
  PROVE  Number(f, d, max, o) = Number(g, d, max, o)
BY DEF Number

LEMMA NumberAtEnd ==
  ASSUME NEW f, NEW d, NEW max \in Nat, NEW o \in Nat, max <= o
  PROVE  Number(f, d, max, o) = Take(d, max, <<0>>, o, 0)
<1>1. At(d, max, o) = 0
  BY DEF At
<1> DEFINE b == At(d, max, o)
           T(bits, n) == Take(d, max, bits, o, n)
<1>2. b = 0 /\ b < 128 /\ b \notin 128 .. 191 /\ b \notin 192 .. 223 /\ b \notin 224 .. 239
      /\ b \notin 240 .. 243 /\ b \notin 244 .. 247 /\ b \notin 248 .. 251 /\ b \notin 252 .. 255
  BY <1>1
<1> HIDE DEF T, b
<1>3. Number(f, d, max, o) = T(<<b>>, 0)
  BY <1>2 DEF Number, T, b
<1> QED BY <1>2, <1>3 DEF T

LEMMA DecodeExists ==
  ASSUME NEW d, NEW max \in Nat
  PROVE  \E f : Decodes(f, d, max, max)
<1> DEFINE T == {k \in Nat : \E f : Decodes(f, d, max, k)}
<1>1. 0 \in T
  <2> DEFINE f == [o \in From(0, max) |-> Take(d, max, <<0>>, o, 0)]
  <2>1. ASSUME NEW o \in From(0, max) PROVE Take(d, max, <<0>>, o, 0) = Number(f, d, max, o)
    <3>1. o \in Nat /\ max <= o
      BY DEF From
    <3> HIDE DEF f
    <3> QED BY <3>1, NumberAtEnd
  <2>2. Decodes(f, d, max, 0)
    BY <2>1, Zenon DEF Decodes
  <2> QED BY <2>2
<1>2. ASSUME NEW k \in T PROVE k + 1 \in T
  <2>1. PICK f : Decodes(f, d, max, k)
    OBVIOUS
  <2>2. k \in Nat /\ k + 1 \in Nat
    OBVIOUS
  <2> DEFINE g == [o \in From(k + 1, max) |->
                    IF o \in From(k, max) THEN f[o] ELSE Number(f, d, max, o)]
  <2>3. ASSUME NEW o \in From(k + 1, max)
        PROVE  (IF o \in From(k, max) THEN f[o] ELSE Number(f, d, max, o)) = Number(g, d, max, o)
    <3>1. o + 1 \in From(k, max) /\ o + 1 \in From(k + 1, max)
      BY <2>2 DEF From
    <3>2. g[o + 1] = f[o + 1]
      BY <3>1, Zenon
    <3> HIDE DEF g
    <3>3. Number(f, d, max, o) = Number(g, d, max, o)
      BY <3>2, NumberLocal
    <3>4. o \in From(k, max) => f[o] = Number(f, d, max, o)
      BY <2>1, Zenon DEF Decodes
    <3> QED BY <3>3, <3>4
  <2>4. Decodes(g, d, max, k + 1)
    BY <2>3, Zenon DEF Decodes
  <2> QED BY <2>2, <2>4
<1>3. T = Nat
  <2> HIDE DEF T
  <2>1. T \in SUBSET Nat
    BY DEF T
  <2> QED BY <1>1, <1>2, <2>1, SetInduction
<1> QED BY <1>3

LEMMA DecodeValue ==
  ASSUME NEW d, NEW max \in Nat, NEW o \in Nat
  PROVE  Decode(d, max)[o] = Number(Decode(d, max), d, max, o)
<1> DEFINE f == CHOOSE f : f = [p \in Nat |-> Number(f, d, max, p)]
<1>2. \E g : g = [p \in Nat |-> Number(g, d, max, p)]
  <2> DEFINE F == From(max, max)
  <2>1. PICK g : g = [p \in F |-> Number(g, d, max, p)]
    BY DecodeExists, Zenon DEF Decodes
  <2>2. F = Nat
    BY DEF From
  <2> HIDE DEF F
  <2>3. [p \in F |-> Number(g, d, max, p)] = [p \in Nat |-> Number(g, d, max, p)]
    BY <2>2, Zenon
  <2> QED BY <2>1, <2>3, Zenon
<1>3. f = [p \in Nat |-> Number(f, d, max, p)]
  BY <1>2, Zenon
<1>4. Decode(d, max) = f
  BY Zenon DEF Decode
<1> HIDE DEF f
<1>5. f[o] = Number(f, d, max, o)
  BY <1>3, Zenon
<1> QED BY <1>4, <1>5, Zenon

-----------------------------------------------------------------------------
(* What the bytes of a number are worth.                                      *)

(* The last bytes of a number, when those before them are zero.               *)
Ends(b, v) ==
  /\ b \in Seq(Byte) /\ Len(b) <= 8
  /\ Zero(v, 8 - Len(b))
  /\ \A k \in 1 .. Len(b) : b[k] = v[8 - Len(b) + k]

LEMMA ZerosSequence ==
  ASSUME NEW n \in Nat
  PROVE  /\ [k \in 1 .. n |-> 0] \in Seq(Byte)
         /\ Len([k \in 1 .. n |-> 0]) = n
         /\ \A k \in 1 .. n : [i \in 1 .. n |-> 0][k] = 0
<1> DEFINE z == [k \in 1 .. n |-> 0]
<1>1. z \in [1 .. n -> Byte]
  BY DEF Byte
<1>2. z \in Seq(Byte)
  BY <1>1, SeqDef
<1> QED BY <1>1, <1>2, LenProperties

LEMMA WideSequence ==
  ASSUME NEW b \in Seq(Byte), Len(b) <= 8
  PROVE  /\ Wide(b) \in Seq(Byte) /\ Len(Wide(b)) = 8
         /\ \A k \in 1 .. 8 : Wide(b)[k] = IF k <= 8 - Len(b) THEN 0 ELSE b[k - (8 - Len(b))]
<1>0. Len(b) \in Nat /\ 8 - Len(b) \in Nat
  BY LenProperties
<1> DEFINE n == 8 - Len(b)
           z == [k \in 1 .. n |-> 0]
<1>1. Wide(b) = z \o b
  BY Zenon DEF Wide
<1>2. z \in Seq(Byte) /\ Len(z) = n /\ \A k \in 1 .. n : z[k] = 0
  BY <1>0, ZerosSequence
<1>3. n + Len(b) = 8 /\ n \in Nat
  BY <1>0
<1> HIDE DEF z, n
<1>4. /\ z \o b \in Seq(Byte) /\ Len(z \o b) = 8
      /\ \A k \in 1 .. 8 : (z \o b)[k] = IF k <= n THEN z[k] ELSE b[k - n]
  <2>1. z \in Seq(Byte) /\ Len(z) = n
    BY <1>2
  <2>2. /\ z \o b \in Seq(Byte) /\ Len(z \o b) = Len(z) + Len(b)
        /\ \A k \in 1 .. Len(z) + Len(b) :
             (z \o b)[k] = IF k <= Len(z) THEN z[k] ELSE b[k - Len(z)]
    BY <2>1, ConcatProperties
  <2> QED BY <1>3, <2>1, <2>2, Zenon
<1>5. ASSUME NEW k \in 1 .. 8 PROVE (z \o b)[k] = IF k <= n THEN 0 ELSE b[k - n]
  <2>1. k <= n => z[k] = 0
    BY <1>2, <1>3
  <2>2. (z \o b)[k] = IF k <= n THEN z[k] ELSE b[k - n]
    BY <1>4
  <2> QED BY <2>1, <2>2, Zenon
<1> QED BY <1>1, <1>4, <1>5 DEF n

LEMMA ValueSequence ==
  ASSUME NEW v
  PROVE  v \in Value <=> v \in Seq(Byte) /\ Len(v) = 8
<1>1. ASSUME v \in Value PROVE v \in Seq(Byte) /\ Len(v) = 8
  <2>1. v \in [1 .. 8 -> Byte] /\ 8 \in Nat
    BY <1>1 DEF Value
  <2>2. v \in Seq(Byte)
    BY <2>1, SeqDef
  <2> QED BY <2>1, <2>2, LenProperties
<1>2. ASSUME v \in Seq(Byte), Len(v) = 8 PROVE v \in Value
  BY <1>2, LenProperties DEF Value
<1> QED BY <1>1, <1>2

LEMMA WideType ==
  ASSUME NEW b \in Seq(Byte), Len(b) <= 8
  PROVE  Wide(b) \in Value
BY WideSequence, ValueSequence

LEMMA WideValue ==
  ASSUME NEW b, NEW v \in Value, Ends(b, v)
  PROVE  Wide(b) = v
<1>1. b \in Seq(Byte) /\ Len(b) <= 8 /\ Len(b) \in Nat
  BY LenProperties DEF Ends
<1>2. /\ Wide(b) \in Seq(Byte) /\ Len(Wide(b)) = 8
      /\ \A k \in 1 .. 8 : Wide(b)[k] = IF k <= 8 - Len(b) THEN 0 ELSE b[k - (8 - Len(b))]
  BY <1>1, WideSequence
<1>3. v \in Seq(Byte) /\ Len(v) = 8
  BY ValueSequence
<1>4. ASSUME NEW k \in 1 .. 8 PROVE Wide(b)[k] = v[k]
  <2>1. CASE k <= 8 - Len(b)
    <3>1. v[k] = 0
      BY <1>1, <2>1 DEF Ends, Zero
    <3> QED BY <1>1, <1>2, <2>1, <3>1
  <2>2. CASE ~(k <= 8 - Len(b))
    <3> DEFINE i == k - (8 - Len(b))
    <3>1. i \in 1 .. Len(b) /\ 8 - Len(b) + i = k
      BY <1>1, <2>2
    <3>2. b[i] = v[8 - Len(b) + i]
      BY <3>1 DEF Ends
    <3> QED BY <1>1, <1>2, <2>2, <3>1, <3>2
  <2> QED BY <2>1, <2>2
<1> DEFINE w == Wide(b)
<1> HIDE DEF w
<1>5. w = v
  BY <1>2, <1>3, <1>4, SeqEqual DEF w
<1> QED BY <1>5 DEF w

(* The bytes that next() delivers, past the end zeros.                        *)
Rest(d, max, o, n) == [k \in 1 .. n |-> At(d, max, o + k)]

LEMMA RestSequence ==
  ASSUME NEW d \in Seq(Byte), NEW max \in 0 .. Len(d), NEW o \in Nat, NEW n \in Nat
  PROVE  /\ Rest(d, max, o, n) \in Seq(Byte) /\ Len(Rest(d, max, o, n)) = n
         /\ \A k \in 1 .. n : Rest(d, max, o, n)[k] = At(d, max, o + k)
<1> DEFINE rest == [k \in 1 .. n |-> At(d, max, o + k)]
<1>0. Len(d) \in Nat
  BY LenProperties
<1>1. ASSUME NEW k \in 1 .. n PROVE At(d, max, o + k) \in Byte
  <2>1. CASE o + k < max
    <3>1. o + k + 1 \in 1 .. Len(d)
      BY <1>0, <2>1
    <3>2. d[o + k + 1] \in Byte
      BY <3>1, ElementOfSeq
    <3> QED BY <2>1, <3>2 DEF At
  <2>2. CASE ~(o + k < max)
    BY <2>2 DEF At, Byte
  <2> QED BY <2>1, <2>2
<1>2. rest \in [1 .. n -> Byte]
  BY <1>1
<1>3. rest \in Seq(Byte)
  BY <1>2, SeqDef
<1> QED BY <1>2, <1>3, LenProperties DEF Rest

LEMMA TakeType ==
  ASSUME NEW d \in Seq(Byte), NEW max \in 0 .. Len(d), NEW o \in Nat,
         NEW bits \in Seq(Byte), NEW n \in Nat, Len(bits) + n <= 8
  PROVE  Take(d, max, bits, o, n) \in [value : Value, taken : Nat \ {0}]
<1> DEFINE rest == Rest(d, max, o, n)
<1>1. rest \in Seq(Byte) /\ Len(rest) = n
  BY RestSequence
<1> HIDE DEF rest
<1>2. bits \o rest \in Seq(Byte) /\ Len(bits \o rest) <= 8
  BY <1>1, ConcatProperties
<1> DEFINE b == bits \o rest
<1> HIDE DEF b
<1>3. Wide(b) \in Value
  BY <1>2, WideType DEF b
<1>4. Take(d, max, bits, o, n) = [value |-> Wide(b), taken |-> n + 1]
  BY Zenon DEF Take, Rest, b, rest
<1>5. n + 1 \in Nat \ {0}
  OBVIOUS
<1> QED BY <1>3, <1>4, <1>5

(* The bits of the first byte and the bytes behind it are the number.         *)
Assembles(d, o, bits, n, v) ==
  /\ d \in Seq(Byte) /\ o \in Nat /\ bits \in Seq(Byte) /\ n \in Nat /\ v \in Value
  /\ Len(bits) + n <= 8 /\ o + 1 + n <= Len(d)
  /\ Zero(v, 8 - (Len(bits) + n))
  /\ \A k \in 1 .. Len(bits) : bits[k] = v[8 - (Len(bits) + n) + k]
  /\ \A k \in 1 .. n : d[o + 1 + k] = v[8 - n + k]

LEMMA TakeValue ==
  ASSUME NEW d, NEW o, NEW bits, NEW n, NEW v, Assembles(d, o, bits, n, v)
  PROVE  Take(d, Len(d), bits, o, n) = [value |-> v, taken |-> n + 1]
<1> DEFINE max == Len(d)
           rest == Rest(d, max, o, n)
           m == Len(bits)
<1>a. /\ d \in Seq(Byte) /\ o \in Nat /\ bits \in Seq(Byte) /\ n \in Nat /\ v \in Value
      /\ m + n <= 8 /\ o + 1 + n <= max /\ Zero(v, 8 - (m + n))
      /\ \A k \in 1 .. m : bits[k] = v[8 - (m + n) + k]
      /\ \A k \in 1 .. n : d[o + 1 + k] = v[8 - n + k]
  BY DEF Assembles
<1>0. max \in Nat /\ max \in 0 .. Len(d) /\ m \in Nat
  BY <1>a, LenProperties
<1>1. rest \in Seq(Byte) /\ Len(rest) = n /\ \A k \in 1 .. n : rest[k] = At(d, max, o + k)
  BY <1>a, <1>0, RestSequence
<1>2. ASSUME NEW k \in 1 .. n PROVE rest[k] = v[8 - n + k]
  <2>1. o + k < max /\ o + k + 1 = o + 1 + k
    BY <1>a, <1>0
  <2>2. At(d, max, o + k) = d[o + 1 + k]
    BY <2>1 DEF At
  <2> QED BY <1>a, <1>1, <2>2
<1> DEFINE b == bits \o rest
<1>4. Take(d, max, bits, o, n) = [value |-> Wide(b), taken |-> n + 1]
  BY Zenon DEF Take, Rest
<1> HIDE DEF rest, max, b, m
<1>5. /\ b \in Seq(Byte) /\ Len(b) = m + n
      /\ \A k \in 1 .. m + n : b[k] = IF k <= m THEN bits[k] ELSE rest[k - m]
  BY <1>a, <1>0, <1>1, ConcatProperties DEF b, m
<1>6. ASSUME NEW k \in 1 .. Len(b) PROVE b[k] = v[8 - Len(b) + k]
  <2>1. CASE k <= m
    <3>1. k \in 1 .. m
      BY <1>a, <1>0, <1>5, <2>1
    <3>2. bits[k] = v[8 - (m + n) + k]
      BY <1>a, <3>1
    <3> QED BY <1>5, <2>1, <3>2
  <2>2. CASE ~(k <= m)
    <3>0. n \in Nat /\ m \in Nat /\ k \in 1 .. m + n
      BY <1>a, <1>0, <1>5, Zenon
    <3>1. k - m \in 1 .. n /\ 8 - n + (k - m) = 8 - (m + n) + k
      BY <2>2, <3>0
    <3>2. rest[k - m] = v[8 - n + (k - m)]
      BY <1>2, <3>1
    <3> QED BY <1>5, <2>2, <3>1, <3>2
  <2> QED BY <2>1, <2>2
<1>7. Ends(b, v)
  BY <1>a, <1>0, <1>5, <1>6 DEF Ends
<1>8. Wide(b) = v
  BY <1>a, <1>7, WideValue
<1> QED BY <1>4, <1>8 DEF max

-----------------------------------------------------------------------------
(* The forms of a number, and which first byte stands for which.              *)

(* u is the byte x and then the last n bytes of v.                            *)
Form(u, v, x, n) ==
  /\ u \in Seq(Byte) /\ Len(u) = n + 1 /\ u[1] = x
  /\ \A k \in 1 .. n : u[k + 1] = v[8 - n + k]

UnsignedForm(u, v) ==
  \/ Form(u, v, v[8], 0) /\ v[8] < 128 /\ Zero(v, 7)
  \/ Form(u, v, 128 + v[7], 1) /\ v[7] < 64 /\ Zero(v, 6)
  \/ Form(u, v, 192 + v[6], 2) /\ v[6] < 32 /\ Zero(v, 5)
  \/ Form(u, v, 224 + v[5], 3) /\ v[5] < 16 /\ Zero(v, 4)
  \/ Form(u, v, 240, 4) /\ Zero(v, 4)
  \/ Form(u, v, 244, 8)

LEMMA PrefixProperties ==
  ASSUME NEW x \in Byte, NEW r \in Seq(Byte)
  PROVE  /\ <<x>> \o r \in Seq(Byte) /\ Len(<<x>> \o r) = Len(r) + 1
         /\ (<<x>> \o r)[1] = x
         /\ \A k \in 1 .. Len(r) : (<<x>> \o r)[k + 1] = r[k]
<1> DEFINE h == <<x>>
<1>1. h \in Seq(Byte) /\ Len(h) = 1 /\ h[1] = x
  OBVIOUS
<1> HIDE DEF h
<1>2. /\ h \o r \in Seq(Byte) /\ Len(h \o r) = Len(h) + Len(r)
      /\ \A i \in 1 .. Len(h) + Len(r) :
           (h \o r)[i] = IF i <= Len(h) THEN h[i] ELSE r[i - Len(h)]
  BY <1>1, ConcatProperties
<1>3. Len(r) \in Nat
  BY LenProperties
<1>4. (h \o r)[1] = x
  BY <1>1, <1>2, <1>3
<1>5. ASSUME NEW k \in 1 .. Len(r) PROVE (h \o r)[k + 1] = r[k]
  <2>1. k + 1 \in 1 .. Len(h) + Len(r) /\ ~(k + 1 <= Len(h)) /\ (k + 1) - Len(h) = k
    BY <1>1, <1>3
  <2> QED BY <1>2, <2>1
<1> QED BY <1>1, <1>2, <1>3, <1>4, <1>5 DEF h

LEMMA LongForm ==
  ASSUME NEW v \in Value
  PROVE  /\ Form(<<240>> \o SubSeq(v, 5, 8), v, 240, 4)
         /\ Form(<<244>> \o v, v, 244, 8)
<1>1. v \in Seq(Byte) /\ Len(v) = 8
  BY ValueSequence
<1>2. ASSUME NEW x \in Byte, NEW r \in Seq(Byte), NEW n \in 0 .. 8, Len(r) = n,
             \A k \in 1 .. n : r[k] = v[8 - n + k]
      PROVE  Form(<<x>> \o r, v, x, n)
  <2> DEFINE u == <<x>> \o r
  <2>1. /\ u \in Seq(Byte) /\ Len(u) = Len(r) + 1 /\ u[1] = x
        /\ \A k \in 1 .. Len(r) : u[k + 1] = r[k]
    BY PrefixProperties
  <2> HIDE DEF u
  <2>2. Form(u, v, x, n)
    BY <1>2, <2>1 DEF Form
  <2> QED BY <2>2 DEF u
<1>3. Form(<<244>> \o v, v, 244, 8)
  <2> DEFINE x == 244
             n == 8
  <2>1. x \in Byte /\ n \in 0 .. 8 /\ Len(v) = n
    BY <1>1 DEF Byte
  <2>2. \A k \in 1 .. n : v[k] = v[8 - n + k]
    OBVIOUS
  <2> HIDE DEF x, n
  <2>3. Form(<<x>> \o v, v, x, n)
    BY <1>1, <1>2, <2>1, <2>2
  <2> QED BY <2>3 DEF x, n
<1>4. Form(<<240>> \o SubSeq(v, 5, 8), v, 240, 4)
  <2> DEFINE r == SubSeq(v, 5, 8)
             x == 240
             n == 4
  <2>a. \A i \in 5 .. 8 : v[i] \in Byte
    BY DEF Value
  <2>1. r \in Seq(Byte) /\ Len(r) = 4 /\ \A i \in 1 .. 4 : r[i] = v[4 + i]
    <3>1. /\ SubSeq(v, 5, 8) \in Seq(Byte) /\ Len(SubSeq(v, 5, 8)) = 4
          /\ \A i \in 1 .. 8 - 5 + 1 : SubSeq(v, 5, 8)[i] = v[5 + i - 1]
      BY <2>a, SubSeqProperties
    <3> QED BY <3>1
  <2> HIDE DEF r
  <2>2. x \in Byte /\ n \in 0 .. 8 /\ Len(r) = n /\ \A k \in 1 .. n : r[k] = v[8 - n + k]
    BY <2>1 DEF Byte
  <2> HIDE DEF x, n
  <2>3. Form(<<x>> \o r, v, x, n)
    BY <1>2, <2>1, <2>2
  <2> QED BY <2>3 DEF x, n, r
<1> QED BY <1>3, <1>4

LEMMA UnsignedForms ==
  ASSUME NEW v \in Value
  PROVE  UnsignedForm(Unsigned(v), v)
<1>0. \A k \in 1 .. 8 : v[k] \in 0 .. 255
  BY DEF Value, Byte
<1> DEFINE b8 == Below(v, 8, 128)
           b7 == Below(v, 7, 64)
           b6 == Below(v, 6, 32)
           b5 == Below(v, 5, 16)
           z4 == Zero(v, 4)
           u == Unsigned(v)
<1>1. (b8 => b7) /\ (b7 => b6) /\ (b6 => b5) /\ (b5 => z4)
  BY <1>0 DEF Below, Zero
<1>2. /\ b8 => v[8] < 128 /\ Zero(v, 7)
      /\ b7 => v[7] < 64 /\ Zero(v, 6)
      /\ b6 => v[6] < 32 /\ Zero(v, 5)
      /\ b5 => v[5] < 16 /\ Zero(v, 4)
  BY DEF Below
<1>3. u = CASE b8 -> <<v[8]>>
            [] b7 /\ ~b8 -> <<128 + v[7], v[8]>>
            [] b6 /\ ~b7 -> <<192 + v[6], v[7], v[8]>>
            [] b5 /\ ~b6 -> <<224 + v[5], v[6], v[7], v[8]>>
            [] z4 /\ ~b5 -> <<240>> \o SubSeq(v, 5, 8)
            [] ~z4 -> <<244>> \o v
  BY Zenon DEF Unsigned
<1> HIDE DEF b8, b7, b6, b5, z4, u
<1>4. CASE b8
  <2>1. u = <<v[8]>>
    BY <1>1, <1>3, <1>4
  <2> QED BY <1>0, <1>2, <1>4, <2>1 DEF UnsignedForm, Form, u, Byte
<1>5. CASE b7 /\ ~b8
  <2>1. u = <<128 + v[7], v[8]>>
    BY <1>1, <1>3, <1>5
  <2>2. v[7] < 64 /\ Zero(v, 6)
    BY <1>2, <1>5
  <2>3. Form(u, v, 128 + v[7], 1)
    BY <1>0, <2>1, <2>2 DEF Form, Byte
  <2> QED BY <2>2, <2>3 DEF UnsignedForm, u
<1>6. CASE b6 /\ ~b7
  <2>1. u = <<192 + v[6], v[7], v[8]>>
    BY <1>1, <1>3, <1>6
  <2>2. v[6] < 32 /\ Zero(v, 5)
    BY <1>2, <1>6
  <2>3. Form(u, v, 192 + v[6], 2)
    BY <1>0, <2>1, <2>2 DEF Form, Byte
  <2> QED BY <2>2, <2>3 DEF UnsignedForm, u
<1>7. CASE b5 /\ ~b6
  <2>1. u = <<224 + v[5], v[6], v[7], v[8]>>
    BY <1>1, <1>3, <1>7
  <2>2. v[5] < 16 /\ Zero(v, 4)
    BY <1>2, <1>7
  <2>3. Form(u, v, 224 + v[5], 3)
    BY <1>0, <2>1, <2>2 DEF Form, Byte
  <2> QED BY <2>2, <2>3 DEF UnsignedForm, u
<1>8. CASE z4 /\ ~b5
  <2>1. u = <<240>> \o SubSeq(v, 5, 8)
    BY <1>1, <1>3, <1>8
  <2>2. Form(u, v, 240, 4) /\ Zero(v, 4)
    BY <1>8, <2>1, LongForm DEF z4
  <2> QED BY <2>2 DEF UnsignedForm, u
<1>9. CASE ~z4
  <2>1. u = <<244>> \o v
    BY <1>1, <1>3, <1>9
  <2>2. Form(u, v, 244, 8)
    BY <2>1, LongForm
  <2> QED BY <2>2 DEF UnsignedForm, u
<1> QED BY <1>1, <1>4, <1>5, <1>6, <1>7, <1>8, <1>9

FirstByte(d, max, o, b) == b \in Byte /\ At(d, max, o) = b

(* What operator>> does with the first byte b.                                *)
NumberIs(f, d, max, o, b) ==
  /\ b < 128 => Number(f, d, max, o) = Take(d, max, <<b>>, o, 0)
  /\ b \in 128 .. 191 => Number(f, d, max, o) = Take(d, max, <<b - 128>>, o, 1)
  /\ b \in 192 .. 223 => Number(f, d, max, o) = Take(d, max, <<b - 192>>, o, 2)
  /\ b \in 224 .. 239 => Number(f, d, max, o) = Take(d, max, <<b - 224>>, o, 3)
  /\ b \in 240 .. 243 => Number(f, d, max, o) = Take(d, max, <<>>, o, 4)
  /\ b \in 244 .. 247 => Number(f, d, max, o) = Take(d, max, <<>>, o, 8)
  /\ b \in 248 .. 251 => Number(f, d, max, o) = Complement(f[o + 1], 1)
  /\ b \in 252 .. 255 =>
       Number(f, d, max, o) = Complement(Take(d, max, <<b - 252>>, o, 0), 0)

LEMMA NumberForms ==
  ASSUME NEW f, NEW d, NEW max, NEW o, NEW b, FirstByte(d, max, o, b)
  PROVE  NumberIs(f, d, max, o, b)
<1> DEFINE t1 == Take(d, max, <<b>>, o, 0)
           t2 == Take(d, max, <<b - 128>>, o, 1)
           t3 == Take(d, max, <<b - 192>>, o, 2)
           t4 == Take(d, max, <<b - 224>>, o, 3)
           t5 == Take(d, max, <<>>, o, 4)
           t6 == Take(d, max, <<>>, o, 8)
           t7 == Complement(f[o + 1], 1)
           t8 == Complement(Take(d, max, <<b - 252>>, o, 0), 0)
           r == Number(f, d, max, o)
<1>1. r = CASE b < 128 -> t1
            [] b \in 128 .. 191 -> t2
            [] b \in 192 .. 223 -> t3
            [] b \in 224 .. 239 -> t4
            [] b \in 240 .. 243 -> t5
            [] b \in 244 .. 247 -> t6
            [] b \in 248 .. 251 -> t7
            [] b \in 252 .. 255 -> t8
  BY Zenon DEF Number, FirstByte
<1>2. b \in 0 .. 255
  BY DEF Byte, FirstByte
<1> HIDE DEF t1, t2, t3, t4, t5, t6, t7, t8, r
<1>3. /\ b < 128 => r = t1
      /\ b \in 128 .. 191 => r = t2
      /\ b \in 192 .. 223 => r = t3
      /\ b \in 224 .. 239 => r = t4
      /\ b \in 240 .. 243 => r = t5
      /\ b \in 244 .. 247 => r = t6
      /\ b \in 248 .. 251 => r = t7
      /\ b \in 252 .. 255 => r = t8
  BY <1>1, <1>2
<1> QED BY <1>3, Zenon DEF NumberIs, t1, t2, t3, t4, t5, t6, t7, t8, r

-----------------------------------------------------------------------------
(* What Encode made and the buffer holds, Decode gives back.                  *)

Stored(d, o, bytes) ==
  /\ d \in Seq(Byte) /\ o \in Nat /\ bytes \in Seq(Byte)
  /\ o + Len(bytes) <= Len(d)
  /\ \A k \in 1 .. Len(bytes) : d[o + k] = bytes[k]

FormAt(d, o, u, v, x, n) ==
  /\ v \in Value /\ n \in 0 .. 8
  /\ Form(u, v, x, n) /\ Stored(d, o, u)

LEMMA StoredForm ==
  ASSUME NEW d, NEW o, NEW u, NEW v, NEW x, NEW n, FormAt(d, o, u, v, x, n)
  PROVE  /\ x \in Byte /\ At(d, Len(d), o) = x /\ o + 1 + n <= Len(d)
         /\ \A k \in 1 .. n : d[o + 1 + k] = v[8 - n + k]
<1>1. /\ d \in Seq(Byte) /\ o \in Nat /\ n \in Nat
      /\ Len(u) = n + 1 /\ u[1] = x /\ u \in Seq(Byte) /\ Len(d) \in Nat
  BY LenProperties DEF FormAt, Form, Stored
<1>2. o + (n + 1) <= Len(d) /\ \A k \in 1 .. Len(u) : d[o + k] = u[k]
  BY <1>1 DEF FormAt, Stored
<1>3. d[o + 1] = x
  <2>1. 1 \in 1 .. Len(u)
    BY <1>1
  <2> QED BY <1>1, <1>2, <2>1
<1>4. ASSUME NEW k \in 1 .. n PROVE d[o + 1 + k] = v[8 - n + k]
  <2>1. k + 1 \in 1 .. Len(u) /\ o + 1 + k = o + (k + 1)
    BY <1>1
  <2>2. d[o + (k + 1)] = u[k + 1]
    BY <1>2, <2>1
  <2>3. u[k + 1] = v[8 - n + k]
    BY DEF FormAt, Form
  <2> QED BY <2>1, <2>2, <2>3
<1>5. At(d, Len(d), o) = x
  BY <1>1, <1>2, <1>3 DEF At
<1>6. x \in Byte
  <2>1. 1 \in 1 .. Len(u)
    BY <1>1
  <2> QED BY <1>1, <2>1, ElementOfSeq
<1> QED BY <1>1, <1>2, <1>4, <1>5, <1>6

(* The value of a form whose first byte holds the upper bits b of it.          *)
LEMMA FormValue ==
  ASSUME NEW d, NEW o, NEW u, NEW v, NEW x, NEW n, FormAt(d, o, u, v, x, n),
         n <= 7, Zero(v, 7 - n)
  PROVE  Take(d, Len(d), <<v[8 - n]>>, o, n) = [value |-> v, taken |-> Len(u)]
<1> DEFINE b == v[8 - n]
           h == <<b>>
<1>0. /\ d \in Seq(Byte) /\ o \in Nat /\ v \in Value /\ n \in 0 .. 7 /\ Len(u) = n + 1
  BY DEF FormAt, Form, Stored
<1>a. b \in Byte
  BY <1>0 DEF Value
<1> HIDE DEF b
<1>1. h \in Seq(Byte) /\ Len(h) = 1 /\ h[1] = b
  BY <1>a
<1>2. /\ o + 1 + n <= Len(d)
      /\ \A k \in 1 .. n : d[o + 1 + k] = v[8 - n + k]
  BY StoredForm
<1> HIDE DEF h
<1>3. Len(h) + n <= 8 /\ 8 - (Len(h) + n) = 7 - n /\ n \in Nat
  BY <1>0, <1>1
<1>4. ASSUME NEW k \in 1 .. Len(h) PROVE h[k] = v[8 - (Len(h) + n) + k]
  <2>1. k = 1 /\ 8 - (Len(h) + n) + k = 8 - n
    BY <1>0, <1>1
  <2> QED BY <1>1, <2>1 DEF b
<1>5. Assembles(d, o, h, n, v)
  BY <1>0, <1>1, <1>2, <1>3, <1>4 DEF Assembles
<1>6. Take(d, Len(d), h, o, n) = [value |-> v, taken |-> n + 1]
  BY <1>5, TakeValue
<1> QED BY <1>0, <1>6 DEF h, b

LEMMA LongFormValue ==
  ASSUME NEW d, NEW o, NEW u, NEW v, NEW x, NEW n, FormAt(d, o, u, v, x, n), Zero(v, 8 - n)
  PROVE  Take(d, Len(d), <<>>, o, n) = [value |-> v, taken |-> Len(u)]
<1> DEFINE h == <<>>
<1>0. /\ d \in Seq(Byte) /\ o \in Nat /\ v \in Value /\ n \in 0 .. 8 /\ Len(u) = n + 1
  BY DEF FormAt, Form, Stored
<1>1. h \in Seq(Byte) /\ Len(h) = 0
  OBVIOUS
<1>2. /\ o + 1 + n <= Len(d)
      /\ \A k \in 1 .. n : d[o + 1 + k] = v[8 - n + k]
  BY StoredForm
<1> HIDE DEF h
<1>3. Len(h) + n <= 8 /\ 8 - (Len(h) + n) = 8 - n /\ n \in Nat
  BY <1>0, <1>1
<1>4. \A k \in 1 .. Len(h) : h[k] = v[8 - (Len(h) + n) + k]
  BY <1>1
<1>5. Assembles(d, o, h, n, v)
  BY <1>0, <1>1, <1>2, <1>3, <1>4 DEF Assembles
<1>6. Take(d, Len(d), h, o, n) = [value |-> v, taken |-> n + 1]
  BY <1>5, TakeValue
<1> QED BY <1>0, <1>6 DEF h

LEMMA UnsignedDecoded ==
  ASSUME NEW f, NEW d, NEW o, NEW v, v \in Value, Stored(d, o, Unsigned(v))
  PROVE  Number(f, d, Len(d), o) = [value |-> v, taken |-> Len(Unsigned(v))]
<1> DEFINE u == Unsigned(v)
           max == Len(d)
<1>0. v[5] \in 0 .. 255 /\ v[6] \in 0 .. 255 /\ v[7] \in 0 .. 255 /\ v[8] \in 0 .. 255
  BY DEF Value, Byte
<1>1. UnsignedForm(u, v) /\ Stored(d, o, u)
  BY UnsignedForms
<1> HIDE DEF u
<1>a. ASSUME NEW x, NEW n \in 0 .. 8, Form(u, v, x, n)
      PROVE  FormAt(d, o, u, v, x, n) /\ FirstByte(d, max, o, x)
  <2>1. FormAt(d, o, u, v, x, n)
    BY <1>1, <1>a DEF FormAt
  <2> QED BY <2>1, StoredForm DEF FirstByte
<1>2. CASE Form(u, v, v[8], 0) /\ v[8] < 128 /\ Zero(v, 7)
  <2> DEFINE x == v[8]
  <2>1. x \in 0 .. 127 /\ x = v[8] /\ 0 <= 7 /\ 0 \in 0 .. 8
    BY <1>0, <1>2
  <2>a. 8 = 8 - 0 /\ 7 = 7 - 0
    OBVIOUS
  <2>b. Zero(v, 7 - 0) /\ v[8] = v[8 - 0]
    BY <1>2, <2>a, Zenon
  <2>2. Form(u, v, x, 0)
    BY <1>2
  <2> HIDE DEF x
  <2>3. FormAt(d, o, u, v, x, 0) /\ FirstByte(d, max, o, x)
    BY <1>a, <2>1, <2>2
  <2>4. Take(d, max, <<v[8 - 0]>>, o, 0) = [value |-> v, taken |-> Len(u)]
    BY <2>1, <2>3, <2>b, FormValue
  <2>5. Number(f, d, max, o) = Take(d, max, <<x>>, o, 0)
    <3>1. NumberIs(f, d, max, o, x)
      BY <2>3, NumberForms
    <3>2. x < 128
      BY <2>1
    <3> QED BY <3>1, <3>2, Zenon DEF NumberIs
  <2> QED BY <2>1, <2>4, <2>5, <2>b, Zenon DEF u
<1>3. CASE Form(u, v, 128 + v[7], 1) /\ v[7] < 64 /\ Zero(v, 6)
  <2> DEFINE x == 128 + v[7]
  <2>1. x \in 128 .. 191 /\ x - 128 = v[7] /\ 1 <= 7 /\ 1 \in 0 .. 8
    BY <1>0, <1>3
  <2>a. 7 = 8 - 1 /\ 6 = 7 - 1
    OBVIOUS
  <2>b. Zero(v, 7 - 1) /\ v[7] = v[8 - 1]
    BY <1>3, <2>a, Zenon
  <2>2. Form(u, v, x, 1)
    BY <1>3
  <2> HIDE DEF x
  <2>3. FormAt(d, o, u, v, x, 1) /\ FirstByte(d, max, o, x)
    BY <1>a, <2>1, <2>2
  <2>4. Take(d, max, <<v[8 - 1]>>, o, 1) = [value |-> v, taken |-> Len(u)]
    BY <2>1, <2>3, <2>b, FormValue
  <2>5. Number(f, d, max, o) = Take(d, max, <<x - 128>>, o, 1)
    <3>1. NumberIs(f, d, max, o, x)
      BY <2>3, NumberForms
    <3>2. x \in 128 .. 191
      BY <2>1
    <3> QED BY <3>1, <3>2, Zenon DEF NumberIs
  <2> QED BY <2>1, <2>4, <2>5, <2>b, Zenon DEF u
<1>4. CASE Form(u, v, 192 + v[6], 2) /\ v[6] < 32 /\ Zero(v, 5)
  <2> DEFINE x == 192 + v[6]
  <2>1. x \in 192 .. 223 /\ x - 192 = v[6] /\ 2 <= 7 /\ 2 \in 0 .. 8
    BY <1>0, <1>4
  <2>a. 6 = 8 - 2 /\ 5 = 7 - 2
    OBVIOUS
  <2>b. Zero(v, 7 - 2) /\ v[6] = v[8 - 2]
    BY <1>4, <2>a, Zenon
  <2>2. Form(u, v, x, 2)
    BY <1>4
  <2> HIDE DEF x
  <2>3. FormAt(d, o, u, v, x, 2) /\ FirstByte(d, max, o, x)
    BY <1>a, <2>1, <2>2
  <2>4. Take(d, max, <<v[8 - 2]>>, o, 2) = [value |-> v, taken |-> Len(u)]
    BY <2>1, <2>3, <2>b, FormValue
  <2>5. Number(f, d, max, o) = Take(d, max, <<x - 192>>, o, 2)
    <3>1. NumberIs(f, d, max, o, x)
      BY <2>3, NumberForms
    <3>2. x \in 192 .. 223
      BY <2>1
    <3> QED BY <3>1, <3>2, Zenon DEF NumberIs
  <2> QED BY <2>1, <2>4, <2>5, <2>b, Zenon DEF u
<1>5. CASE Form(u, v, 224 + v[5], 3) /\ v[5] < 16 /\ Zero(v, 4)
  <2> DEFINE x == 224 + v[5]
  <2>1. x \in 224 .. 239 /\ x - 224 = v[5] /\ 3 <= 7 /\ 3 \in 0 .. 8
    BY <1>0, <1>5
  <2>a. 5 = 8 - 3 /\ 4 = 7 - 3
    OBVIOUS
  <2>b. Zero(v, 7 - 3) /\ v[5] = v[8 - 3]
    BY <1>5, <2>a, Zenon
  <2>2. Form(u, v, x, 3)
    BY <1>5
  <2> HIDE DEF x
  <2>3. FormAt(d, o, u, v, x, 3) /\ FirstByte(d, max, o, x)
    BY <1>a, <2>1, <2>2
  <2>4. Take(d, max, <<v[8 - 3]>>, o, 3) = [value |-> v, taken |-> Len(u)]
    BY <2>1, <2>3, <2>b, FormValue
  <2>5. Number(f, d, max, o) = Take(d, max, <<x - 224>>, o, 3)
    <3>1. NumberIs(f, d, max, o, x)
      BY <2>3, NumberForms
    <3>2. x \in 224 .. 239
      BY <2>1
    <3> QED BY <3>1, <3>2, Zenon DEF NumberIs
  <2> QED BY <2>1, <2>4, <2>5, <2>b, Zenon DEF u
<1>6. CASE Form(u, v, 240, 4) /\ Zero(v, 4)
  <2>1. FormAt(d, o, u, v, 240, 4) /\ FirstByte(d, max, o, 240)
    BY <1>a, <1>6
  <2>2. Number(f, d, max, o) = Take(d, max, <<>>, o, 4)
    <3>1. NumberIs(f, d, max, o, 240)
      BY <2>1, NumberForms
    <3>2. 240 \in 240 .. 243
      BY <2>1
    <3> QED BY <3>1, <3>2, Zenon DEF NumberIs
  <2>a. 4 = 8 - 4
    OBVIOUS
  <2>3. Zero(v, 8 - 4)
    BY <1>6, <2>a, Zenon
  <2>4. Take(d, max, <<>>, o, 4) = [value |-> v, taken |-> Len(u)]
    BY <2>1, <2>3, LongFormValue
  <2> QED BY <2>2, <2>4 DEF u
<1>7. CASE Form(u, v, 244, 8)
  <2>1. FormAt(d, o, u, v, 244, 8) /\ FirstByte(d, max, o, 244)
    BY <1>a, <1>7
  <2>2. Number(f, d, max, o) = Take(d, max, <<>>, o, 8)
    <3>1. NumberIs(f, d, max, o, 244)
      BY <2>1, NumberForms
    <3>2. 244 \in 244 .. 247
      BY <2>1
    <3> QED BY <3>1, <3>2, Zenon DEF NumberIs
  <2>3. Zero(v, 8 - 8)
    BY DEF Zero
  <2>4. Take(d, max, <<>>, o, 8) = [value |-> v, taken |-> Len(u)]
    BY <2>1, <2>3, LongFormValue
  <2> QED BY <2>2, <2>4 DEF u
<1> QED BY <1>1, <1>2, <1>3, <1>4, <1>5, <1>6, <1>7 DEF UnsignedForm

LEMMA ComplementTwice ==
  ASSUME NEW v, v \in Value
  PROVE  Not(v) \in Value /\ Not(Not(v)) = v
<1>0. ASSUME NEW u, u \in [1 .. 8 -> 0 .. 255]
      PROVE  Not(u) \in [1 .. 8 -> 0 .. 255] /\ \A k \in 1 .. 8 : Not(u)[k] = 255 - u[k]
  BY <1>0 DEF Not
<1>1. v \in [1 .. 8 -> 0 .. 255]
  BY DEF Value, Byte
<1>2. Not(v) \in [1 .. 8 -> 0 .. 255] /\ \A k \in 1 .. 8 : Not(v)[k] = 255 - v[k]
  BY <1>0, <1>1
<1>3. Not(v) \in Value
  BY <1>2 DEF Value, Byte
<1> DEFINE w == Not(v)
<1> HIDE DEF w
<1>4. Not(w) \in [1 .. 8 -> 0 .. 255] /\ \A k \in 1 .. 8 : Not(w)[k] = 255 - w[k]
  <2>1. w \in [1 .. 8 -> 0 .. 255]
    BY <1>2 DEF w
  <2> QED BY <1>0, <2>1
<1>5. ASSUME NEW k \in 1 .. 8 PROVE Not(w)[k] = v[k]
  <2>1. w[k] = 255 - v[k] /\ Not(w)[k] = 255 - w[k] /\ v[k] \in 0 .. 255
    BY <1>1, <1>2, <1>4 DEF w
  <2> QED BY <2>1
<1>6. Not(w) = v
  BY <1>1, <1>4, <1>5
<1> QED BY <1>3, <1>6 DEF w

LEMMA UnsignedSequence ==
  ASSUME NEW v, v \in Value
  PROVE  Unsigned(v) \in Seq(Byte) /\ Len(Unsigned(v)) \in 1 .. 9
<1>1. UnsignedForm(Unsigned(v), v)
  BY UnsignedForms
<1>2. PICK n \in 0 .. 8 : \E x : Form(Unsigned(v), v, x, n)
  BY <1>1 DEF UnsignedForm
<1> QED BY <1>2 DEF Form

LEMMA EncodeSequence ==
  ASSUME NEW v, v \in Value
  PROVE  Encode(v) \in Seq(Byte) /\ Len(Encode(v)) \in 1 .. 10
<1> DEFINE w == Not(v)
           u == Unsigned(w)
<1>1. w \in Value
  BY ComplementTwice
<1> HIDE DEF w
<1>2. u \in Seq(Byte) /\ Len(u) \in 1 .. 9
  BY <1>1, UnsignedSequence
<1>3. CASE ~IsSmallNegative(v)
  BY <1>3, UnsignedSequence DEF Encode
<1>4. CASE IsSmallNegative(v) /\ Below(w, 8, 4)
  <2>1. w[8] \in 0 .. 255 /\ w[8] < 4
    BY <1>1, <1>4 DEF Value, Byte, Below
  <2>2. <<252 + w[8]>> \in Seq(Byte) /\ Len(<<252 + w[8]>>) = 1
    BY <2>1 DEF Byte
  <2> QED BY <1>4, <2>2 DEF Encode, w
<1>5. CASE IsSmallNegative(v) /\ ~Below(w, 8, 4)
  <2>1. 248 \in Byte
    BY DEF Byte
  <2> HIDE DEF u
  <2>2. <<248>> \o u \in Seq(Byte) /\ Len(<<248>> \o u) = Len(u) + 1
    BY <1>2, <2>1, PrefixProperties
  <2> DEFINE c == <<248>> \o u
  <2>3. Encode(v) = c
    BY <1>5, Zenon DEF Encode, u, w
  <2> HIDE DEF c
  <2>4. c \in Seq(Byte) /\ Len(c) = Len(u) + 1
    BY <2>2 DEF c
  <2>5. Len(u) \in 1 .. 9 /\ Len(c) = Len(u) + 1
    BY <1>2, <2>4, Zenon
  <2>6. Len(c) \in 1 .. 10
    <3>1. ASSUME NEW m, m \in 1 .. 9 PROVE m + 1 \in 1 .. 10
      BY <3>1
    <3>2. Len(u) + 1 \in 1 .. 10
      BY <2>5, <3>1, Zenon
    <3> QED BY <2>5, <3>2, Zenon
  <2> QED BY <2>3, <2>4, <2>6, Zenon
<1> QED BY <1>3, <1>4, <1>5

(* operator>> reads from the place of a number what operator<< wrote, and     *)
(* takes as many bytes.                                                      *)
LEMMA EncodeDecoded ==
  ASSUME NEW d, NEW o, NEW v, v \in Value, Stored(d, o, Encode(v))
  PROVE  Decode(d, Len(d))[o] = [value |-> v, taken |-> Len(Encode(v))]
<1> DEFINE max == Len(d)
           f == Decode(d, max)
           w == Not(v)
<1>0. d \in Seq(Byte) /\ o \in Nat /\ max \in Nat /\ o + 1 \in Nat
  BY LenProperties DEF Stored
<1>1. f[o] = Number(f, d, max, o) /\ f[o + 1] = Number(f, d, max, o + 1)
  <2>1. f[o] = Number(f, d, max, o)
    BY <1>0, DecodeValue
  <2> DEFINE p == o + 1
  <2>2. p \in Nat
    BY <1>0
  <2> HIDE DEF p
  <2>3. f[p] = Number(f, d, max, p)
    BY <1>0, <2>2, DecodeValue
  <2> QED BY <2>1, <2>3 DEF p
<1>2. w \in Value /\ Not(w) = v
  BY ComplementTwice
<1> HIDE DEF f, w
<1>3. CASE ~IsSmallNegative(v)
  <2>1. Encode(v) = Unsigned(v)
    BY <1>3, Zenon DEF Encode
  <2>2. Number(f, d, max, o) = [value |-> v, taken |-> Len(Unsigned(v))]
    BY <2>1, UnsignedDecoded
  <2> QED BY <1>1, <2>1, <2>2 DEF f
<1>4. CASE IsSmallNegative(v) /\ Below(w, 8, 4)
  <2> DEFINE b == w[8]
             x == 252 + b
             u == <<x>>
  <2>1. b \in 0 .. 3 /\ Zero(w, 7)
    BY <1>2, <1>4 DEF Value, Byte, Below
  <2>2. Encode(v) = u
    BY <1>4, Zenon DEF Encode, w
  <2>3. x \in 252 .. 255 /\ x \in Byte /\ x - 252 = b /\ b \in Byte
    BY <2>1 DEF Byte
  <2> HIDE DEF b, x
  <2>4. u \in Seq(Byte) /\ Len(u) = 1 /\ u[1] = x
    BY <2>3
  <2> HIDE DEF u
  <2>5. d[o + 1] = x /\ o + 1 <= max
    BY <2>2, <2>4 DEF Stored
  <2>6. FirstByte(d, max, o, x)
    BY <1>0, <2>3, <2>5 DEF FirstByte, At
  <2>7. NumberIs(f, d, max, o, x)
    BY <2>6, NumberForms
  <2>8. Number(f, d, max, o) = Complement(Take(d, max, <<x - 252>>, o, 0), 0)
    BY <2>3, <2>7, Zenon DEF NumberIs
  <2> DEFINE h == <<b>>
  <2>9. h \in Seq(Byte) /\ Len(h) = 1 /\ h[1] = w[8]
    BY <2>3 DEF b
  <2> HIDE DEF h
  <2>10. 8 - (Len(h) + 0) = 7 /\ Len(h) + 0 <= 8 /\ 0 \in Nat /\ o + 1 + 0 <= Len(d)
    BY <1>0, <2>5, <2>9
  <2>11. Zero(w, 8 - (Len(h) + 0))
    BY <2>1, <2>10, Zenon
  <2>12. ASSUME NEW k \in 1 .. Len(h) PROVE h[k] = w[8 - (Len(h) + 0) + k]
    <3>1. k = 1 /\ 8 - (Len(h) + 0) + k = 8
      BY <2>9
    <3> QED BY <2>9, <3>1
  <2>13. Assembles(d, o, h, 0, w)
    BY <1>0, <1>2, <2>9, <2>10, <2>11, <2>12 DEF Assembles
  <2>14. Take(d, max, h, o, 0) = [value |-> w, taken |-> 0 + 1]
    BY <2>13, TakeValue
  <2>15. Complement([value |-> w, taken |-> 0 + 1], 0) = [value |-> v, taken |-> 1]
    BY <1>2 DEF Complement
  <2>16. Number(f, d, max, o) = Complement(Take(d, max, h, o, 0), 0)
    BY <2>3, <2>8, Zenon DEF h
  <2> QED BY <1>1, <2>2, <2>4, <2>14, <2>15, <2>16, Zenon DEF f
<1>5. CASE IsSmallNegative(v) /\ ~Below(w, 8, 4)
  <2> DEFINE r == Unsigned(w)
             u == <<248>> \o r
             p == o + 1
  <2>1. Encode(v) = u
    BY <1>5, Zenon DEF Encode, w
  <2>2. r \in Seq(Byte) /\ Len(r) \in Nat /\ 248 \in Byte
    BY <1>2, UnsignedSequence DEF Byte
  <2> HIDE DEF r
  <2>3. /\ u \in Seq(Byte) /\ Len(u) = Len(r) + 1 /\ u[1] = 248
        /\ \A k \in 1 .. Len(r) : u[k + 1] = r[k]
    BY <2>2, PrefixProperties
  <2> HIDE DEF u
  <2>4. Stored(d, o, u)
    BY <2>1, Zenon
  <2>5. o + (Len(r) + 1) <= max /\ \A k \in 1 .. Len(r) + 1 : d[o + k] = u[k]
    BY <2>3, <2>4 DEF Stored
  <2>6. FirstByte(d, max, o, 248)
    BY <1>0, <2>2, <2>3, <2>5 DEF FirstByte, At
  <2>7. NumberIs(f, d, max, o, 248)
    BY <2>6, NumberForms
  <2>8. Number(f, d, max, o) = Complement(f[o + 1], 1)
    <3>1. 248 \in 248 .. 251
      OBVIOUS
    <3> QED BY <2>7, <3>1, Zenon DEF NumberIs
  <2>9. Stored(d, p, r)
    <3>1. ASSUME NEW k \in 1 .. Len(r) PROVE d[p + k] = r[k]
      <4>1. k + 1 \in 1 .. Len(r) + 1 /\ p + k = o + (k + 1)
        BY <1>0, <2>2
      <4>2. d[o + (k + 1)] = u[k + 1] /\ u[k + 1] = r[k]
        BY <2>3, <2>5, <4>1
      <4> QED BY <4>1, <4>2
    <3>2. p + Len(r) <= Len(d) /\ p \in Nat
      BY <1>0, <2>2, <2>5
    <3> HIDE DEF p
    <3> QED BY <1>0, <2>2, <3>1, <3>2 DEF Stored
  <2>10. Number(f, d, max, p) = [value |-> w, taken |-> Len(r)]
    <3> HIDE DEF p
    <3> QED BY <1>2, <2>9, UnsignedDecoded DEF r
  <2>11. Complement([value |-> w, taken |-> Len(r)], 1) = [value |-> v, taken |-> Len(r) + 1]
    BY <1>2, Zenon DEF Complement
  <2>12. f[o + 1] = [value |-> w, taken |-> Len(r)]
    BY <1>1, <2>10
  <2> QED BY <1>1, <2>1, <2>3, <2>8, <2>11, <2>12, Zenon DEF f
<1> QED BY <1>3, <1>4, <1>5

-----------------------------------------------------------------------------
(* Whatever the buffer holds, what is read as a number is one.                *)

Numbers == [value : Value, taken : Nat \ {0}]

LEMMA ComplementNumber ==
  ASSUME NEW r, r \in Numbers, NEW n, n \in Nat
  PROVE  Complement(r, n) \in Numbers
<1>1. Not(r.value) \in Value
  BY ComplementTwice DEF Numbers
<1>2. r.taken + n \in Nat \ {0}
  BY DEF Numbers
<1> QED BY <1>1, <1>2 DEF Complement, Numbers

(* In the buffer next() takes a byte, and so does everything behind it.        *)
LEMMA NumberType ==
  ASSUME NEW d, d \in Seq(Byte), NEW max, max \in 0 .. Len(d), NEW o, o \in Nat,
         NEW f, f[o + 1] \in Numbers
  PROVE  Number(f, d, max, o) \in Numbers
<1> DEFINE b == At(d, max, o)
<1>0. Len(d) \in Nat
  BY LenProperties
<1>1. b \in Byte
  <2>1. CASE o < max
    <3>1. o + 1 \in 1 .. Len(d)
      BY <1>0, <2>1
    <3>2. d[o + 1] \in Byte
      BY <3>1, ElementOfSeq
    <3> QED BY <2>1, <3>2 DEF At
  <2>2. CASE ~(o < max)
    BY <2>2 DEF At, Byte
  <2> QED BY <2>1, <2>2
<1> HIDE DEF b
<1>2. FirstByte(d, max, o, b)
  BY <1>1 DEF FirstByte, b
<1>3. NumberIs(f, d, max, o, b)
  BY <1>2, NumberForms
<1>4. ASSUME NEW c, c \in Byte, NEW n, n \in 0 .. 3
      PROVE  Take(d, max, <<c>>, o, n) \in Numbers
  <2> DEFINE h == <<c>>
  <2>1. h \in Seq(Byte) /\ Len(h) = 1
    BY <1>4
  <2> HIDE DEF h
  <2>2. Len(h) + n <= 8 /\ n \in Nat
    BY <1>4, <2>1
  <2>3. Take(d, max, h, o, n) \in Numbers
    BY <2>1, <2>2, TakeType DEF Numbers
  <2> QED BY <2>3 DEF h
<1>5. Take(d, max, <<>>, o, 4) \in Numbers /\ Take(d, max, <<>>, o, 8) \in Numbers
  <2> DEFINE h == <<>>
  <2>1. h \in Seq(Byte) /\ Len(h) = 0
    OBVIOUS
  <2> HIDE DEF h
  <2>2. ASSUME NEW n, n \in 4 .. 8 PROVE Take(d, max, h, o, n) \in Numbers
    <3>1. Len(h) + n <= 8 /\ n \in Nat
      BY <2>1, <2>2
    <3> QED BY <2>1, <3>1, TakeType DEF Numbers
  <2> QED BY <2>2 DEF h
<1>6. b \in 0 .. 255
  BY <1>1 DEF Byte
<1>7. CASE b < 128
  <2>1. Number(f, d, max, o) = Take(d, max, <<b>>, o, 0)
    BY <1>3, <1>7, Zenon DEF NumberIs
  <2> QED BY <1>1, <1>4, <2>1
<1>8. CASE b \in 128 .. 191
  <2> DEFINE c == b - 128
  <2>1. Number(f, d, max, o) = Take(d, max, <<c>>, o, 1)
    BY <1>3, <1>8, Zenon DEF NumberIs
  <2>2. c \in Byte
    BY <1>8 DEF Byte
  <2> HIDE DEF c
  <2> QED BY <1>4, <2>1, <2>2
<1>9. CASE b \in 192 .. 223
  <2> DEFINE c == b - 192
  <2>1. Number(f, d, max, o) = Take(d, max, <<c>>, o, 2)
    BY <1>3, <1>9, Zenon DEF NumberIs
  <2>2. c \in Byte
    BY <1>9 DEF Byte
  <2> HIDE DEF c
  <2> QED BY <1>4, <2>1, <2>2
<1>10. CASE b \in 224 .. 239
  <2> DEFINE c == b - 224
  <2>1. Number(f, d, max, o) = Take(d, max, <<c>>, o, 3)
    BY <1>3, <1>10, Zenon DEF NumberIs
  <2>2. c \in Byte
    BY <1>10 DEF Byte
  <2> HIDE DEF c
  <2> QED BY <1>4, <2>1, <2>2
<1>11. CASE b \in 240 .. 243
  <2>1. Number(f, d, max, o) = Take(d, max, <<>>, o, 4)
    BY <1>3, <1>11, Zenon DEF NumberIs
  <2> QED BY <1>5, <2>1
<1>12. CASE b \in 244 .. 247
  <2>1. Number(f, d, max, o) = Take(d, max, <<>>, o, 8)
    BY <1>3, <1>12, Zenon DEF NumberIs
  <2> QED BY <1>5, <2>1
<1>13. CASE b \in 248 .. 251
  <2>1. Number(f, d, max, o) = Complement(f[o + 1], 1)
    BY <1>3, <1>13, Zenon DEF NumberIs
  <2> QED BY <2>1, ComplementNumber
<1>14. CASE b \in 252 .. 255
  <2> DEFINE c == b - 252
             t == Take(d, max, <<c>>, o, 0)
  <2>1. Number(f, d, max, o) = Complement(t, 0)
    BY <1>3, <1>14, Zenon DEF NumberIs
  <2>2. c \in Byte
    BY <1>14 DEF Byte
  <2> HIDE DEF c
  <2>3. t \in Numbers
    BY <1>4, <2>2
  <2> HIDE DEF t
  <2> QED BY <2>1, <2>3, ComplementNumber
<1> QED BY <1>6, <1>7, <1>8, <1>9, <1>10, <1>11, <1>12, <1>13, <1>14

LEMMA DecodeType ==
  ASSUME NEW d, d \in Seq(Byte), NEW max, max \in 0 .. Len(d), NEW o, o \in Nat
  PROVE  Decode(d, max)[o] \in Numbers
<1> DEFINE f == Decode(d, max)
           T == {k \in Nat : \A p \in Nat : max <= p + k => f[p] \in Numbers}
<1>0. max \in Nat
  BY LenProperties
<1>1. ASSUME NEW p \in Nat PROVE f[p] = Number(f, d, max, p)
  BY <1>0, DecodeValue
<1> HIDE DEF f
<1>2. 0 \in T
  <2>1. ASSUME NEW p \in Nat, max <= p + 0 PROVE f[p] \in Numbers
    <3>1. max <= p
      BY <1>0, <2>1
    <3>2. Number(f, d, max, p) = Take(d, max, <<0>>, p, 0)
      BY <1>0, <3>1, NumberAtEnd
    <3> DEFINE h == <<0>>
    <3>3. h \in Seq(Byte) /\ Len(h) + 0 <= 8 /\ 0 \in Nat
      BY DEF Byte
    <3> HIDE DEF h
    <3>4. Take(d, max, h, p, 0) \in Numbers
      BY <3>3, TakeType DEF Numbers
    <3> QED BY <1>1, <3>2, <3>4 DEF h
  <2> QED BY <2>1
<1>3. ASSUME NEW k \in T PROVE k + 1 \in T
  <2>1. ASSUME NEW p \in Nat, max <= p + (k + 1) PROVE f[p] \in Numbers
    <3>1. p + 1 \in Nat /\ max <= (p + 1) + k
      BY <1>0, <2>1
    <3>2. f[p + 1] \in Numbers
      BY <3>1
    <3> HIDE DEF T
    <3>3. Number(f, d, max, p) \in Numbers
      BY <3>2, NumberType
    <3> QED BY <1>1, <3>3
  <2> QED BY <2>1
<1>4. T = Nat
  <2>1. T \in SUBSET Nat
    OBVIOUS
  <2> HIDE DEF T
  <2> QED BY <1>2, <1>3, <2>1, SetInduction
<1> HIDE DEF T
<1>5. max <= o + max /\ max \in T
  BY <1>0, <1>4
<1> QED BY <1>5 DEF f, T

-----------------------------------------------------------------------------
(* The inductive invariant: what fitted lies where its record says, one item    *)
(* behind the other, and reading goes from the start of one to that of the     *)
(* next.                                                                     *)

Item ==
  {it \in [kind : {"number", "float", "block"}, value : Seq(Byte), at : Nat, fits : BOOLEAN] :
     /\ it.kind = "number" => it.value \in Value
     /\ it.kind = "float" => Len(it.value) = 4}

BytesOf(it) == IF it.kind = "number" THEN Encode(it.value) ELSE it.value

TypesInv ==
  /\ data \in Seq(Byte) /\ maxsize \in Nat
  /\ offset \in 0 .. maxsize /\ overshoot \in Nat /\ demanded \in Nat
  /\ ok \in BOOLEAN /\ writing \in BOOLEAN
  /\ Len(data) = IF writing THEN offset ELSE maxsize
  /\ written \in Seq(Item) /\ result \in Seq(Seq(Byte))
  /\ Len(written) <= MaxItems /\ Len(result) <= Len(written)
  /\ writing => Len(result) = 0

(* Where item j of w ends in d: where the next one starts, or d does.          *)
EndOf(w, d, j) == IF j < Len(w) THEN w[j + 1].at ELSE Len(d)

Placed(w, d, j) ==
  w[j].fits => /\ Stored(d, w[j].at, BytesOf(w[j]))
               /\ EndOf(w, d, j) = w[j].at + Len(BytesOf(w[j]))

PlacedInv ==
  /\ EndOf(written, data, 0) = 0
  /\ \A j \in 1 .. Len(written) : Placed(written, data, j)

FitInv == ok => \A j \in 1 .. Len(written) : written[j].fits
FitTo(i) == \A j \in 1 .. i : written[j].fits

ReadInv ==
  ~writing =>
    /\ FitTo(Len(result)) => offset = EndOf(written, data, Len(result))
    /\ \A i \in 1 .. Len(result) : FitTo(i) => result[i] = written[i].value

StreamInv == TypesInv /\ PlacedInv /\ FitInv /\ ReadInv

LEMMA StreamInvInit == StreamInit => StreamInv
<1> SUFFICES ASSUME StreamInit PROVE StreamInv
  OBVIOUS
<1>1. maxsize \in Nat /\ MaxItems \in Nat
  BY PacketAssumption DEF StreamInit
<1>2. /\ data = <<>> /\ offset = 0 /\ overshoot = 0 /\ ok = TRUE
      /\ writing = TRUE /\ demanded = 0 /\ written = <<>> /\ result = <<>>
  BY DEF StreamInit
<1>3. /\ data \in Seq(Byte) /\ written \in Seq(Item) /\ result \in Seq(Seq(Byte))
      /\ Len(data) = 0 /\ Len(written) = 0 /\ Len(result) = 0
  BY <1>2
<1>4. TypesInv
  BY <1>1, <1>2, <1>3 DEF TypesInv
<1>5. PlacedInv
  BY <1>3 DEF PlacedInv, EndOf
<1>6. FitInv /\ ReadInv
  BY <1>2, <1>3 DEF FitInv, ReadInv
<1> QED BY <1>4, <1>5, <1>6 DEF StreamInv

(* A write puts as much of the bytes into the buffer as there is room for, or  *)
(* as many zeros.                                                            *)
Puts(kind, value, bytes, chunk) ==
  /\ Advance(kind, value, bytes)
  /\ value \in Seq(Byte) /\ kind \in {"number", "float", "block"}
  /\ kind = "number" => value \in Value /\ bytes = Encode(value)
  /\ kind # "number" => bytes = value
  /\ kind = "float" => Len(value) = 4
  /\ bytes \in Seq(Byte) /\ chunk \in Seq(Byte)
  /\ Len(chunk) = IF Len(bytes) <= Left THEN Len(bytes) ELSE Left
  /\ Len(bytes) <= Left => chunk = bytes
  /\ data' = data \o chunk

LEMMA Room ==
  ASSUME TypesInv, NEW kind, NEW value, NEW bytes, bytes \in Seq(Byte),
         Advance(kind, value, bytes)
  PROVE  /\ offset' - offset = IF Len(bytes) <= Left THEN Len(bytes) ELSE Left
         /\ Left \in Nat /\ Len(bytes) \in Nat
<1>1. offset \in Nat /\ Left \in Nat /\ Len(bytes) \in Nat
  BY LenProperties DEF TypesInv, Left
<1> DEFINE room == IF Len(bytes) <= Left THEN Len(bytes) ELSE Left
<1>2. offset' = offset + room
  BY DEF Advance
<1>3. room \in Nat
  BY <1>1
<1> HIDE DEF room
<1>4. offset' - offset = room
  BY <1>1, <1>2, <1>3
<1> QED BY <1>1, <1>4 DEF room

LEMMA FirstBytes ==
  ASSUME NEW bytes, bytes \in Seq(Byte), NEW n, n \in 0 .. Len(bytes)
  PROVE  /\ SubSeq(bytes, 1, n) \in Seq(Byte) /\ Len(SubSeq(bytes, 1, n)) = n
         /\ n = Len(bytes) => SubSeq(bytes, 1, n) = bytes
<1>0. Len(bytes) \in Nat
  BY LenProperties
<1>1. \A i \in 1 .. n : bytes[i] \in Byte
  BY <1>0, ElementOfSeq
<1>2. /\ SubSeq(bytes, 1, n) \in Seq(Byte)
      /\ Len(SubSeq(bytes, 1, n)) = IF 1 <= n THEN n - 1 + 1 ELSE 0
  BY <1>0, <1>1, SubSeqProperties
<1> QED BY <1>0, <1>2, SubSeqFull

LEMMA WriteBytesPuts ==
  ASSUME TypesInv, NEW kind, NEW value, NEW bytes, bytes \in Seq(Byte),
         WriteBytes(kind, value, bytes),
         value \in Seq(Byte), kind \in {"number", "float"},
         kind = "number" => value \in Value /\ bytes = Encode(value),
         kind # "number" => bytes = value,
         kind = "float" => Len(value) = 4
  PROVE  \E chunk : Puts(kind, value, bytes, chunk)
<1> DEFINE n == offset' - offset
           chunk == SubSeq(bytes, 1, n)
<1>1. Advance(kind, value, bytes) /\ data' = data \o chunk
  BY DEF WriteBytes
<1>2. n = (IF Len(bytes) <= Left THEN Len(bytes) ELSE Left) /\ Left \in Nat /\ Len(bytes) \in Nat
  BY <1>1, Room
<1> HIDE DEF n
<1>3. n \in 0 .. Len(bytes) /\ (Len(bytes) <= Left => n = Len(bytes))
  BY <1>2
<1>4. chunk \in Seq(Byte) /\ Len(chunk) = n /\ (n = Len(bytes) => chunk = bytes)
  BY <1>3, FirstBytes
<1> HIDE DEF chunk
<1>5. Puts(kind, value, bytes, chunk)
  BY <1>1, <1>2, <1>3, <1>4 DEF Puts
<1> QED BY <1>5

LEMMA WriteBlockPuts ==
  ASSUME TypesInv, NEW bytes, bytes \in Seq(Byte), WriteBlock(bytes)
  PROVE  \E chunk : Puts("block", bytes, bytes, chunk)
<1> DEFINE n == offset' - offset
           z == [k \in 1 .. n |-> 0]
           chunk == IF n = Len(bytes) THEN bytes ELSE z
<1>1. Advance("block", bytes, bytes) /\ data' = data \o chunk
  BY DEF WriteBlock
<1>2. n = (IF Len(bytes) <= Left THEN Len(bytes) ELSE Left) /\ Left \in Nat /\ Len(bytes) \in Nat
  BY <1>1, Room
<1> HIDE DEF n
<1>3. n \in Nat /\ (Len(bytes) <= Left => n = Len(bytes))
  BY <1>2
<1>4. z \in Seq(Byte) /\ Len(z) = n
  BY <1>3, ZerosSequence
<1> HIDE DEF z
<1>5. chunk \in Seq(Byte) /\ Len(chunk) = n /\ (n = Len(bytes) => chunk = bytes)
  BY <1>4
<1> HIDE DEF chunk
<1>6. Puts("block", bytes, bytes, chunk)
  BY <1>1, <1>2, <1>3, <1>5 DEF Puts
<1> QED BY <1>6

LEMMA StoredFurther ==
  ASSUME NEW d, NEW o, NEW b, Stored(d, o, b), NEW c, c \in Seq(Byte)
  PROVE  Stored(d \o c, o, b)
<1> DEFINE e == d \o c
<1>1. /\ d \in Seq(Byte) /\ o \in Nat /\ b \in Seq(Byte) /\ o + Len(b) <= Len(d)
      /\ \A k \in 1 .. Len(b) : d[o + k] = b[k]
  BY DEF Stored
<1>2. Len(b) \in Nat /\ Len(d) \in Nat /\ Len(c) \in Nat
  BY <1>1, LenProperties
<1>3. /\ e \in Seq(Byte) /\ Len(e) = Len(d) + Len(c)
      /\ \A k \in 1 .. Len(d) + Len(c) : e[k] = IF k <= Len(d) THEN d[k] ELSE c[k - Len(d)]
  BY <1>1, ConcatProperties
<1> HIDE DEF e
<1>4. ASSUME NEW k \in 1 .. Len(b) PROVE e[o + k] = b[k]
  <2>1. o + k \in 1 .. Len(d) + Len(c) /\ o + k <= Len(d)
    BY <1>1, <1>2
  <2>2. e[o + k] = d[o + k]
    BY <1>3, <2>1
  <2> QED BY <1>1, <2>2
<1>5. o + Len(b) <= Len(e)
  BY <1>1, <1>2, <1>3
<1>6. Stored(e, o, b)
  BY <1>1, <1>3, <1>4, <1>5 DEF Stored
<1> QED BY <1>6 DEF e

LEMMA StoredLast ==
  ASSUME NEW d, d \in Seq(Byte), NEW b, b \in Seq(Byte)
  PROVE  Stored(d \o b, Len(d), b)
<1> DEFINE e == d \o b
           n == Len(d)
<1>1. n \in Nat /\ Len(b) \in Nat
  BY LenProperties
<1>2. /\ e \in Seq(Byte) /\ Len(e) = n + Len(b)
      /\ \A k \in 1 .. n + Len(b) : e[k] = IF k <= n THEN d[k] ELSE b[k - n]
  BY ConcatProperties
<1> HIDE DEF e, n
<1>3. ASSUME NEW k \in 1 .. Len(b) PROVE e[n + k] = b[k]
  <2>1. n + k \in 1 .. n + Len(b) /\ ~(n + k <= n) /\ (n + k) - n = k
    BY <1>1
  <2> QED BY <1>2, <2>1
<1>4. n + Len(b) <= Len(e)
  BY <1>1, <1>2
<1>5. Stored(e, n, b)
  BY <1>1, <1>2, <1>3, <1>4 DEF Stored
<1> QED BY <1>5 DEF e, n

LEMMA PutsStreamInv ==
  ASSUME StreamInv, NEW kind, NEW value, NEW bytes, NEW chunk,
         Puts(kind, value, bytes, chunk)
  PROVE  StreamInv'
<1> DEFINE room == IF Len(bytes) <= Left THEN Len(bytes) ELSE Left
           it == [kind |-> kind, value |-> value, at |-> offset, fits |-> room = Len(bytes)]
           n == Len(written)
<1>1. /\ writing /\ writing' = writing /\ maxsize' = maxsize /\ result' = result
      /\ n < MaxItems
      /\ offset' = offset + room
      /\ overshoot' = overshoot + Len(bytes) - room
      /\ ok' = (ok /\ room = Len(bytes))
      /\ demanded' = demanded + Len(bytes)
      /\ written' = Append(written, it)
      /\ data' = data \o chunk
  BY DEF Puts, Advance
<1>2. /\ maxsize \in Nat /\ offset \in Nat /\ offset <= maxsize /\ overshoot \in Nat
      /\ demanded \in Nat /\ ok \in BOOLEAN /\ Len(data) = offset /\ Len(result) = 0
      /\ Left = maxsize - offset /\ n \in Nat
  BY <1>1, LenProperties DEF StreamInv, TypesInv, Left
<1>3. data \in Seq(Byte) /\ written \in Seq(Item) /\ result \in Seq(Seq(Byte))
  BY DEF StreamInv, TypesInv
<1>4. Len(bytes) \in Nat /\ chunk \in Seq(Byte) /\ bytes \in Seq(Byte) /\ Len(chunk) = room
  BY LenProperties DEF Puts
<1>5. room \in Nat /\ room <= Len(bytes) /\ offset + room <= maxsize
  BY <1>2, <1>4
<1>6. room = Len(bytes) => chunk = bytes
  <2>1. HAVE room = Len(bytes)
  <2>2. Len(bytes) <= Left
    BY <1>2, <1>4, <2>1
  <2> QED BY <2>2 DEF Puts
<1>7. it \in Item /\ BytesOf(it) = bytes
  <2>0. it.kind = kind /\ it.value = value
    OBVIOUS
  <2>a. it \in [kind : {"number", "float", "block"}, value : Seq(Byte), at : Nat, fits : BOOLEAN]
    BY <1>2 DEF Puts
  <2> HIDE DEF it
  <2>1. it \in Item
    BY <2>0, <2>a DEF Puts, Item
  <2>2. BytesOf(it) = bytes
    BY <2>0 DEF Puts, BytesOf
  <2> QED BY <2>1, <2>2
<1>8. it.at = offset /\ it.fits = (room = Len(bytes))
  OBVIOUS
<1> HIDE DEF it, room
<1>9. /\ data' \in Seq(Byte) /\ Len(data') = offset'
  <2>1. data \o chunk \in Seq(Byte) /\ Len(data \o chunk) = Len(data) + Len(chunk)
    BY <1>3, <1>4, ConcatProperties
  <2> QED BY <1>1, <1>2, <1>4, <2>1
<1>10. /\ written' \in Seq(Item) /\ Len(written') = n + 1
       /\ \A j \in 1 .. n : written'[j] = written[j]
       /\ written'[n + 1] = it
  BY <1>1, <1>3, <1>7, AppendProperties
<1>t. TypesInv'
  <2>1. offset' \in 0 .. maxsize' /\ overshoot' \in Nat /\ demanded' \in Nat /\ maxsize' \in Nat
    <3>1. overshoot + Len(bytes) - room \in Nat /\ demanded + Len(bytes) \in Nat
      BY <1>2, <1>4, <1>5
    <3>2. offset + room \in 0 .. maxsize
      BY <1>2, <1>5
    <3> QED BY <1>1, <1>2, <3>1, <3>2, Zenon
  <2>2. Len(written') <= MaxItems' /\ Len(result') <= Len(written') /\ Len(result') = 0
    <3>1. n + 1 <= MaxItems /\ 0 <= n + 1
      BY <1>1, <1>2, PacketAssumption
    <3> QED BY <1>1, <1>2, <1>10, <3>1
  <2>3. ok' \in BOOLEAN /\ writing' \in BOOLEAN
    BY <1>1, <1>2
  <2>4. result' \in Seq(Seq(Byte))
    BY <1>1, <1>3, Zenon
  <2>5. Len(data') = IF writing' THEN offset' ELSE maxsize'
    BY <1>1, <1>9, Zenon
  <2>6. data' \in Seq(Byte) /\ written' \in Seq(Item)
    BY <1>9, <1>10, Zenon
  <2> QED BY <2>1, <2>2, <2>3, <2>4, <2>5, <2>6, Zenon DEF TypesInv
<1>11. PlacedInv /\ FitInv
  BY DEF StreamInv
<1>e. ASSUME NEW j, j \in 0 .. n PROVE EndOf(written', data', j) = EndOf(written, data, j)
  <2>1. j < Len(written')
    BY <1>2, <1>10, <1>e
  <2>2. EndOf(written', data', j) = written'[j + 1].at
    BY <2>1, Zenon DEF EndOf
  <2>3. CASE j < n
    <3>1. j + 1 \in 1 .. n
      BY <1>2, <1>e, <2>3
    <3>2. written'[j + 1] = written[j + 1]
      BY <1>10, <3>1
    <3> QED BY <2>2, <2>3, <3>2, Zenon DEF EndOf
  <2>4. CASE ~(j < n)
    <3>1. j + 1 = n + 1
      BY <1>2, <1>e, <2>4
    <3>2. written'[j + 1].at = Len(data)
      BY <1>2, <1>8, <1>10, <3>1, Zenon
    <3> QED BY <2>2, <2>4, <3>2, Zenon DEF EndOf
  <2> QED BY <2>3, <2>4
<1>p. PlacedInv'
  <2>1. EndOf(written', data', 0) = 0
    <3>1. 0 \in 0 .. n
      BY <1>2
    <3> QED BY <1>e, <1>11, <3>1 DEF PlacedInv
  <2>2. ASSUME NEW j, j \in 1 .. n PROVE Placed(written', data', j)
    <3>1. Placed(written, data, j) /\ written'[j] = written[j] /\ j \in 0 .. n
      BY <1>2, <1>10, <1>11, <2>2 DEF PlacedInv
    <3>2. EndOf(written', data', j) = EndOf(written, data, j)
      BY <1>e, <3>1
    <3>3. ASSUME Stored(data, written[j].at, BytesOf(written[j]))
          PROVE  Stored(data', written[j].at, BytesOf(written[j]))
      <4> DEFINE o == written[j].at
                 b == BytesOf(written[j])
      <4>1. Stored(data, o, b) /\ chunk \in Seq(Byte)
        BY <1>4, <3>3
      <4> HIDE DEF o, b
      <4>2. Stored(data \o chunk, o, b)
        BY <4>1, StoredFurther
      <4> QED BY <1>1, <4>2, Zenon DEF o, b
    <3> QED BY <3>1, <3>2, <3>3, Zenon DEF Placed
  <2>3. Placed(written', data', n + 1)
    <3>1. ~(n + 1 < Len(written'))
      BY <1>2, <1>10
    <3>2. EndOf(written', data', n + 1) = offset + room
      BY <1>1, <1>9, <3>1, Zenon DEF EndOf
    <3>3. ASSUME it.fits
          PROVE  Stored(data', it.at, BytesOf(it)) /\ offset + room = it.at + Len(BytesOf(it))
      <4>1. room = Len(bytes) /\ chunk = bytes
        BY <1>6, <1>8, <3>3
      <4>2. Stored(data \o bytes, Len(data), bytes)
        BY <1>3, <1>4, StoredLast
      <4> QED BY <1>1, <1>2, <1>7, <1>8, <4>1, <4>2, Zenon
    <3> QED BY <1>10, <3>2, <3>3, Zenon DEF Placed
  <2>4. ASSUME NEW j, j \in 1 .. Len(written') PROVE j \in 1 .. n \/ j = n + 1
    BY <1>2, <1>10, <2>4
  <2> QED BY <2>1, <2>2, <2>3, <2>4, Zenon DEF PlacedInv
<1>f. FitInv'
  <2>1. SUFFICES ASSUME ok', NEW j, j \in 1 .. Len(written') PROVE written'[j].fits
    BY Zenon DEF FitInv
  <2>2. ok /\ room = Len(bytes)
    BY <1>1, <2>1
  <2>3. j \in 1 .. n \/ j = n + 1
    BY <1>2, <1>10, <2>1
  <2>4. CASE j \in 1 .. n
    BY <1>10, <1>11, <2>2, <2>4 DEF FitInv
  <2>5. CASE j = n + 1
    BY <1>8, <1>10, <2>2, <2>5, Zenon
  <2> QED BY <2>3, <2>4, <2>5
<1>r. ReadInv'
  BY <1>1, Zenon DEF ReadInv
<1> QED BY <1>t, <1>p, <1>f, <1>r DEF StreamInv

LEMMA RewindStreamInv ==
  ASSUME StreamInv, Rewind
  PROVE  StreamInv'
<1>1. /\ writing /\ writing' = FALSE /\ maxsize' = offset /\ offset' = 0 /\ demanded' = 0
      /\ data' = data /\ overshoot' = overshoot /\ ok' = ok
      /\ written' = written /\ result' = result
  BY DEF Rewind
<1>2. /\ Len(result) = 0 /\ offset \in Nat /\ Len(data) = offset
  BY <1>1 DEF StreamInv, TypesInv
<1>3. TypesInv'
  <2>1. offset' \in 0 .. maxsize' /\ maxsize' \in Nat /\ demanded' \in Nat
    BY <1>1, <1>2
  <2>2. /\ Len(data') = (IF writing' THEN offset' ELSE maxsize')
        /\ (writing' => Len(result') = 0) /\ writing' \in BOOLEAN
    BY <1>1, <1>2
  <2>3. /\ data' \in Seq(Byte) /\ overshoot' \in Nat /\ ok' \in BOOLEAN
        /\ written' \in Seq(Item) /\ result' \in Seq(Seq(Byte))
        /\ Len(written') <= MaxItems' /\ Len(result') <= Len(written')
    BY <1>1, Zenon DEF StreamInv, TypesInv
  <2> QED BY <2>1, <2>2, <2>3, Zenon DEF TypesInv
<1>4. PlacedInv' /\ FitInv'
  BY <1>1, Zenon DEF StreamInv, PlacedInv, FitInv, Placed, EndOf
<1>5. ReadInv'
  <2>1. EndOf(written, data, 0) = 0
    BY DEF StreamInv, PlacedInv
  <2>2. EndOf(written', data', Len(result')) = 0
    BY <1>1, <1>2, <2>1, Zenon
  <2>3. 1 .. Len(result') = {}
    BY <1>1, <1>2
  <2> QED BY <1>1, <2>2, <2>3, Zenon DEF ReadInv
<1> QED BY <1>3, <1>4, <1>5 DEF StreamInv

(* What is read next is the item behind those that have been read, and when it  *)
(* and all before it fitted, it lies at offset.                              *)
LEMMA ReadingItem ==
  ASSUME StreamInv, NEW kind, Reading(kind)
  PROVE  LET n == Len(result) + 1
             it == written[n]
         IN  /\ n \in 1 .. Len(written) /\ it \in Item /\ it.kind = kind
             /\ Expected = it.value /\ Expected \in Seq(Byte) /\ ~writing
             /\ data \in Seq(Byte) /\ Len(data) = maxsize /\ maxsize \in Nat
             /\ offset \in 0 .. maxsize
             /\ FitTo(n) => /\ Stored(data, offset, BytesOf(it))
                            /\ EndOf(written, data, n) = offset + Len(BytesOf(it))
<1> DEFINE n == Len(result) + 1
           it == written[n]
<1>1. /\ ~writing /\ Len(result) < Len(written) /\ it.kind = kind
  BY DEF Reading
<1>2. /\ written \in Seq(Item) /\ result \in Seq(Seq(Byte))
      /\ data \in Seq(Byte) /\ Len(data) = maxsize /\ maxsize \in Nat /\ offset \in 0 .. maxsize
  BY <1>1 DEF StreamInv, TypesInv
<1>3. Len(result) \in Nat /\ Len(written) \in Nat
  BY <1>2, LenProperties
<1>4. n \in 1 .. Len(written) /\ Len(result) = n - 1
  BY <1>1, <1>3
<1>5. it \in Item
  BY <1>2, <1>4, ElementOfSeq
<1>6. Expected = it.value
  BY Zenon DEF Expected
<1>7. it.value \in Seq(Byte)
  BY <1>5 DEF Item
<1>8. ASSUME FitTo(n)
      PROVE  /\ Stored(data, offset, BytesOf(it))
             /\ EndOf(written, data, n) = offset + Len(BytesOf(it))
  <2>1. it.fits
    <3>1. n \in 1 .. n
      BY <1>4
    <3> QED BY <1>8, <3>1, Zenon DEF FitTo
  <2>2. Placed(written, data, n)
    BY <1>4, Zenon DEF StreamInv, PlacedInv
  <2>3. Stored(data, it.at, BytesOf(it)) /\ EndOf(written, data, n) = it.at + Len(BytesOf(it))
    BY <2>1, <2>2, Zenon DEF Placed
  <2>4. FitTo(Len(result))
    <3>1. \A j \in 1 .. Len(result) : j \in 1 .. n
      BY <1>3
    <3> QED BY <1>8, <3>1, Zenon DEF FitTo
  <2>5. offset = EndOf(written, data, Len(result))
    BY <1>1, <2>4, Zenon DEF StreamInv, ReadInv
  <2>6. EndOf(written, data, Len(result)) = it.at
    BY <1>1, Zenon DEF EndOf
  <2>7. offset = it.at
    BY <2>5, <2>6
  <2> QED BY <2>3, <2>7, Zenon
<1> QED BY <1>1, <1>2, <1>4, <1>5, <1>6, <1>7, <1>8, Zenon

(* A read that delivers the item when it lies at offset, and goes to its end.   *)
Delivers(kind, x) ==
  /\ Reading(kind) /\ result' = Append(result, x) /\ x \in Seq(Byte)
  /\ offset' \in 0 .. maxsize /\ demanded' \in Nat
  /\ ok' \in BOOLEAN /\ (ok' => ok)
  /\ Stored(data, offset, BytesOf(written[Len(result) + 1])) =>
       /\ x = written[Len(result) + 1].value
       /\ offset' = offset + Len(BytesOf(written[Len(result) + 1]))

LEMMA DeliversStreamInv ==
  ASSUME StreamInv, NEW kind, NEW x, Delivers(kind, x)
  PROVE  StreamInv'
<1> DEFINE n == Len(result) + 1
           it == written[n]
<1>1. /\ Reading(kind) /\ result' = Append(result, x) /\ x \in Seq(Byte)
      /\ offset' \in 0 .. maxsize /\ demanded' \in Nat
      /\ ok' \in BOOLEAN /\ (ok' => ok)
      /\ Stored(data, offset, BytesOf(it)) =>
           x = it.value /\ offset' = offset + Len(BytesOf(it))
  BY Zenon DEF Delivers
<1>2. /\ data' = data /\ maxsize' = maxsize /\ overshoot' = overshoot
      /\ writing' = writing /\ written' = written
  BY <1>1 DEF Reading
<1>3. /\ n \in 1 .. Len(written) /\ ~writing
      /\ FitTo(n) => /\ Stored(data, offset, BytesOf(it))
                     /\ EndOf(written, data, n) = offset + Len(BytesOf(it))
  BY <1>1, ReadingItem, Zenon
<1>4. result \in Seq(Seq(Byte)) /\ Len(result) \in Nat
  BY LenProperties DEF StreamInv, TypesInv
<1>5. /\ result' \in Seq(Seq(Byte)) /\ Len(result') = n
      /\ \A i \in 1 .. Len(result) : result'[i] = result[i]
      /\ result'[n] = x
  BY <1>1, <1>4, AppendProperties
<1> HIDE DEF n
<1>6. TypesInv'
  <2>1. Len(result') <= Len(written')
    BY <1>2, <1>3, <1>5
  <2>2. Len(data') = (IF writing' THEN offset' ELSE maxsize')
    BY <1>2, <1>3, Zenon DEF StreamInv, TypesInv
  <2>3. /\ data' \in Seq(Byte) /\ maxsize' \in Nat /\ overshoot' \in Nat
        /\ writing' \in BOOLEAN /\ written' \in Seq(Item) /\ Len(written') <= MaxItems'
    BY <1>2, Zenon DEF StreamInv, TypesInv
  <2>4. offset' \in 0 .. maxsize'
    BY <1>1, <1>2, Zenon
  <2> QED BY <1>1, <1>2, <1>3, <1>5, <2>1, <2>2, <2>3, <2>4, Zenon DEF TypesInv
<1>7. PlacedInv'
  BY <1>2, Zenon DEF StreamInv, PlacedInv, Placed, EndOf
<1>8. FitInv'
  BY <1>1, <1>2, Zenon DEF StreamInv, FitInv
<1>9. ReadInv'
  <2>1. ASSUME FitTo(n)
        PROVE  offset' = EndOf(written, data, n) /\ x = it.value
    BY <1>1, <1>3, <2>1, Zenon
  <2>2. ASSUME NEW i, i \in 1 .. n, FitTo(i) PROVE result'[i] = written[i].value
    <3>1. i = n \/ i \in 1 .. Len(result)
      BY <1>4, <2>2 DEF n
    <3>2. CASE i = n
      BY <1>5, <2>1, <2>2, <3>2, Zenon
    <3>3. CASE i \in 1 .. Len(result)
      <4>1. result[i] = written[i].value
        BY <1>3, <2>2, <3>3, Zenon DEF StreamInv, ReadInv
      <4> QED BY <1>5, <3>3, <4>1, Zenon
    <3> QED BY <3>1, <3>2, <3>3
  <2>3. ASSUME NEW i PROVE FitTo(i)' <=> FitTo(i)
    BY <1>2, Zenon DEF FitTo
  <2> QED
    BY <1>2, <1>5, <2>1, <2>2, <2>3, Zenon DEF ReadInv, FitTo
<1> QED BY <1>6, <1>7, <1>8, <1>9 DEF StreamInv

LEMMA ReadNumberDelivers ==
  ASSUME StreamInv, ReadNumber
  PROVE  \E x : Delivers("number", x)
<1> DEFINE it == written[Len(result) + 1]
           r == Decode(data, maxsize)[offset]
           k == r.taken
<1>1. /\ Reading("number") /\ result' = Append(result, r.value)
      /\ offset' = offset + (IF k <= Left THEN k ELSE Left)
      /\ ok' = (ok /\ k <= Left)
      /\ demanded' = demanded + k
  BY Zenon DEF ReadNumber, TakeBytes
<1>2. /\ it.kind = "number" /\ it \in Item /\ data \in Seq(Byte) /\ Len(data) = maxsize
      /\ maxsize \in Nat /\ offset \in 0 .. maxsize
  BY <1>1, ReadingItem, Zenon
<1>3. r \in Numbers
  <2>1. maxsize \in 0 .. Len(data) /\ offset \in Nat
    BY <1>2
  <2> QED BY <1>2, <2>1, DecodeType
<1>4. r.value \in Seq(Byte) /\ k \in Nat
  <2>1. r.value \in Value
    BY <1>3 DEF Numbers
  <2> HIDE DEF r
  <2> QED BY <1>3, <2>1, ValueSequence DEF Numbers
<1>5. demanded \in Nat /\ ok \in BOOLEAN
  BY DEF StreamInv, TypesInv
<1>6. it.value \in Value /\ BytesOf(it) = Encode(it.value)
  BY <1>2 DEF Item, BytesOf
<1> HIDE DEF it
<1>7. ASSUME Stored(data, offset, BytesOf(it))
      PROVE  r.value = it.value /\ offset' = offset + Len(BytesOf(it))
  <2> DEFINE v == it.value
             e == Encode(v)
  <2>1. v \in Value /\ Stored(data, offset, e)
    BY <1>6, <1>7, Zenon
  <2> HIDE DEF v
  <2>2. Decode(data, Len(data))[offset] = [value |-> v, taken |-> Len(e)]
    BY <2>1, EncodeDecoded
  <2>3. r.value = v /\ k = Len(e)
    <3>1. r = [value |-> v, taken |-> Len(e)]
      BY <1>2, <2>2, Zenon
    <3> HIDE DEF r
    <3> QED BY <3>1
  <2> HIDE DEF e
  <2>4. offset + Len(e) <= Len(data)
    BY <2>1 DEF Stored
  <2>5. k <= Left
    BY <1>2, <1>4, <2>3, <2>4 DEF Left
  <2>6. offset' = offset + k
    BY <1>1, <2>5, Zenon
  <2> QED BY <1>6, <2>3, <2>6, Zenon DEF e, v
<1> HIDE DEF r, k
<1>8. offset' \in 0 .. maxsize /\ demanded' \in Nat
  BY <1>1, <1>2, <1>4, <1>5 DEF Left
<1>9. ok' \in BOOLEAN /\ (ok' => ok)
  BY <1>1, <1>5, Zenon
<1>10. Delivers("number", r.value)
  BY <1>1, <1>4, <1>7, <1>8, <1>9, Zenon DEF Delivers, it
<1> QED BY <1>10

LEMMA ReadFloatDelivers ==
  ASSUME StreamInv, ReadFloat
  PROVE  \E x : Delivers("float", x)
<1> DEFINE it == written[Len(result) + 1]
           b == BytesOf(it)
           x == [k \in 1 .. 4 |-> IF offset + k <= maxsize THEN data[offset + k] ELSE 0]
<1>1. /\ Reading("float") /\ result' = Append(result, x)
      /\ offset' = offset + (IF 4 <= Left THEN 4 ELSE Left)
      /\ ok' = (ok /\ 4 <= Left)
      /\ demanded' = demanded + 4
  BY Zenon DEF ReadFloat, TakeBytes
<1>2. /\ it.kind = "float" /\ it \in Item /\ data \in Seq(Byte) /\ Len(data) = maxsize
      /\ maxsize \in Nat /\ offset \in 0 .. maxsize
  BY <1>1, ReadingItem, Zenon
<1>3. ASSUME NEW k, k \in 1 .. 4
      PROVE  (IF offset + k <= maxsize THEN data[offset + k] ELSE 0) \in Byte
  <2>1. CASE offset + k <= maxsize
    <3> DEFINE p == offset + k
    <3>1. p \in 1 .. Len(data)
      BY <1>2, <1>3, <2>1
    <3> HIDE DEF p
    <3>2. data[p] \in Byte
      BY <1>2, <3>1, ElementOfSeq
    <3> QED BY <2>1, <3>2, Zenon DEF p
  <2>2. CASE ~(offset + k <= maxsize)
    BY <2>2 DEF Byte
  <2> QED BY <2>1, <2>2
<1>4. x \in Seq(Byte) /\ Len(x) = 4
  <2>1. x \in [1 .. 4 -> Byte] /\ 4 \in Nat
    BY <1>3
  <2> HIDE DEF x
  <2>2. x \in Seq(Byte)
    BY <2>1, SeqDef
  <2> QED BY <2>1, <2>2, LenProperties
<1>5. demanded \in Nat /\ ok \in BOOLEAN
  BY DEF StreamInv, TypesInv
<1>6. b = it.value /\ b \in Seq(Byte) /\ Len(b) = 4
  BY <1>2 DEF Item, BytesOf
<1> HIDE DEF b
<1>7. ASSUME Stored(data, offset, b)
      PROVE  x = b /\ offset' = offset + Len(b)
  <2>1. offset + 4 <= maxsize /\ \A k \in 1 .. 4 : data[offset + k] = b[k]
    BY <1>2, <1>6, <1>7 DEF Stored
  <2>2. ASSUME NEW k, k \in 1 .. 4 PROVE x[k] = b[k]
    <3>1. offset + k <= maxsize
      BY <1>2, <2>1, <2>2
    <3>2. x[k] = data[offset + k]
      BY <2>2, <3>1
    <3> QED BY <2>1, <2>2, <3>2, Zenon
  <2>3. 4 <= Left
    BY <1>2, <2>1 DEF Left
  <2>4. offset' = offset + Len(b)
    BY <1>1, <1>6, <2>3, Zenon
  <2> HIDE DEF x
  <2>5. x = b
    BY <1>4, <1>6, <2>2, SeqEqual
  <2> QED BY <2>4, <2>5
<1> HIDE DEF x
<1>8. offset' \in 0 .. maxsize /\ demanded' \in Nat
  BY <1>1, <1>2, <1>5 DEF Left
<1>9. ok' \in BOOLEAN /\ (ok' => ok)
  BY <1>1, <1>5, Zenon
<1>10. Delivers("float", x)
  BY <1>1, <1>4, <1>6, <1>7, <1>8, <1>9, Zenon DEF Delivers, it, b
<1> QED BY <1>10

LEMMA BlockDelivers ==
  ASSUME StreamInv, ReadBlock \/ Skip
  PROVE  \E x : Delivers("block", x)
<1> DEFINE it == written[Len(result) + 1]
           b == Expected
           x == IF ReadBlock THEN SubSeq(data, offset + 1, offset') ELSE b
<1>1. /\ Reading("block") /\ result' = Append(result, x)
      /\ offset' = IF Len(b) <= Left THEN offset + Len(b) ELSE offset
      /\ ok' = (ok /\ Len(b) <= Left)
      /\ demanded' = demanded + Len(b)
  BY Zenon DEF ReadBlock, Skip, AllOrNothing
<1>2. /\ it.kind = "block" /\ it \in Item /\ data \in Seq(Byte) /\ Len(data) = maxsize
      /\ maxsize \in Nat /\ offset \in 0 .. maxsize /\ b = it.value /\ b \in Seq(Byte)
  BY <1>1, ReadingItem, Zenon
<1>3. BytesOf(it) = b
  BY <1>2 DEF BytesOf
<1> HIDE DEF b
<1>4. Len(b) \in Nat /\ demanded \in Nat /\ ok \in BOOLEAN
  BY <1>2, LenProperties DEF StreamInv, TypesInv
<1>5. offset' \in offset .. maxsize /\ demanded' \in Nat
  BY <1>1, <1>2, <1>4 DEF Left
<1>6. ok' \in BOOLEAN /\ (ok' => ok)
  BY <1>1, <1>4, Zenon
<1> DEFINE y == SubSeq(data, offset + 1, offset')
<1>7. /\ y \in Seq(Byte)
      /\ Len(y) = (IF offset + 1 <= offset' THEN offset' - (offset + 1) + 1 ELSE 0)
      /\ \A i \in 1 .. offset' - (offset + 1) + 1 : y[i] = data[(offset + 1) + i - 1]
  <2>1. \A i \in (offset + 1) .. offset' : i \in 1 .. Len(data)
    BY <1>2, <1>5
  <2>2. \A i \in 1 .. Len(data) : data[i] \in Byte
    BY <1>2, ElementOfSeq
  <2>3. \A i \in (offset + 1) .. offset' : data[i] \in Byte
    BY <2>1, <2>2, Zenon
  <2> DEFINE m == offset + 1
             l == offset'
  <2>4. m \in Int /\ l \in Int /\ \A i \in m .. l : data[i] \in Byte
    BY <1>2, <1>5, <2>3
  <2> HIDE DEF m, l
  <2>5. /\ SubSeq(data, m, l) \in Seq(Byte)
        /\ Len(SubSeq(data, m, l)) = (IF m <= l THEN l - m + 1 ELSE 0)
        /\ \A i \in 1 .. l - m + 1 : SubSeq(data, m, l)[i] = data[m + i - 1]
    BY <2>4, SubSeqProperties
  <2> QED BY <2>5, Zenon DEF m, l
<1> HIDE DEF y
<1>8. x \in Seq(Byte)
  BY <1>2, <1>7, Zenon DEF y
<1>9. ASSUME Stored(data, offset, b)
      PROVE  x = b /\ offset' = offset + Len(b)
  <2>1. offset + Len(b) <= maxsize /\ \A k \in 1 .. Len(b) : data[offset + k] = b[k]
    BY <1>2, <1>9 DEF Stored
  <2>2. Len(b) <= Left
    BY <1>2, <1>4, <2>1 DEF Left
  <2>3. offset' = offset + Len(b)
    BY <1>1, <2>2, Zenon
  <2>4. Len(y) = Len(b)
    <3>1. offset' - (offset + 1) + 1 = Len(b) /\ (offset + 1 <= offset' <=> Len(b) # 0)
      BY <1>2, <1>4, <2>3
    <3> QED BY <1>4, <1>7, <3>1, Zenon
  <2>5. ASSUME NEW k, k \in 1 .. Len(b) PROVE y[k] = b[k]
    <3>1. k \in 1 .. offset' - (offset + 1) + 1 /\ (offset + 1) + k - 1 = offset + k
      BY <1>2, <1>4, <2>3, <2>5
    <3>2. y[k] = data[(offset + 1) + k - 1]
      BY <1>7, <3>1, Zenon
    <3> QED BY <2>1, <2>5, <3>1, <3>2, Zenon
  <2>6. y = b
    BY <1>2, <1>7, <2>4, <2>5, SeqEqual
  <2> QED BY <2>3, <2>6, Zenon DEF y
<1> HIDE DEF x
<1>10. offset' \in 0 .. maxsize
  BY <1>2, <1>5
<1>11. Delivers("block", x)
  BY <1>1, <1>2, <1>3, <1>5, <1>6, <1>8, <1>9, <1>10, Zenon DEF Delivers, it
<1> QED BY <1>11

LEMMA StreamInvStep == StreamInv /\ [StreamNext]_streamVars => StreamInv'
<1> SUFFICES ASSUME StreamInv, [StreamNext]_streamVars
             PROVE  StreamInv'
  OBVIOUS
<1>0. TypesInv
  BY DEF StreamInv
<1>1. ASSUME NEW v \in Values, WriteNumber(v)
      PROVE  StreamInv'
  <2>1. v \in Value
    BY PacketAssumption, Zenon DEF Value
  <2>2. Encode(v) \in Seq(Byte) /\ v \in Seq(Byte)
    BY <2>1, EncodeSequence, ValueSequence
  <2>3. WriteBytes("number", v, Encode(v))
    BY <1>1 DEF WriteNumber
  <2>4. \E chunk : Puts("number", v, Encode(v), chunk)
    BY <1>0, <2>1, <2>2, <2>3, WriteBytesPuts
  <2> QED BY <2>4, PutsStreamInv, Zenon
<1>2. ASSUME NEW b \in Blocks, WriteFloat(b)
      PROVE  StreamInv'
  <2>1. b \in Seq(Byte)
    BY PacketAssumption, Zenon
  <2>2. WriteBytes("float", b, b) /\ Len(b) = 4
    BY <1>2 DEF WriteFloat
  <2>3. \E chunk : Puts("float", b, b, chunk)
    BY <1>0, <2>1, <2>2, WriteBytesPuts
  <2> QED BY <2>3, PutsStreamInv, Zenon
<1>3. ASSUME NEW b \in Blocks, WriteBlock(b)
      PROVE  StreamInv'
  <2>1. b \in Seq(Byte)
    BY PacketAssumption, Zenon
  <2>2. \E chunk : Puts("block", b, b, chunk)
    BY <1>0, <1>3, <2>1, WriteBlockPuts
  <2> QED BY <2>2, PutsStreamInv, Zenon
<1>4. CASE Rewind
  BY <1>4, RewindStreamInv
<1>5. CASE ReadNumber
  BY <1>5, ReadNumberDelivers, DeliversStreamInv, Zenon
<1>6. CASE ReadFloat
  BY <1>6, ReadFloatDelivers, DeliversStreamInv, Zenon
<1>7. CASE ReadBlock \/ Skip
  BY <1>7, BlockDelivers, DeliversStreamInv, Zenon
<1>8. CASE UNCHANGED streamVars
  <2>1. /\ data' = data /\ maxsize' = maxsize /\ offset' = offset /\ overshoot' = overshoot
        /\ ok' = ok /\ writing' = writing /\ demanded' = demanded /\ written' = written
        /\ result' = result
    BY <1>8 DEF streamVars
  <2>2. TypesInv' /\ FitInv'
    BY <2>1, Zenon DEF StreamInv, TypesInv, FitInv
  <2>3. PlacedInv' /\ ReadInv'
    BY <2>1, Zenon DEF StreamInv, PlacedInv, ReadInv, Placed, EndOf, FitTo
  <2> QED BY <2>2, <2>3 DEF StreamInv
<1> QED
  BY <1>1, <1>2, <1>3, <1>4, <1>5, <1>6, <1>7, <1>8 DEF StreamNext

(* The inductive invariant holds of every reachable state.                    *)
THEOREM PacketInvariance == StreamSpec => []StreamInv
BY StreamInvInit, StreamInvStep, PTL DEF StreamSpec

(* The type invariant: no call goes past the end of the buffer, whatever bytes  *)
(* are decoded.                                                              *)
THEOREM PacketTypes == StreamSpec => []StreamOK
<1>1. StreamInv => StreamOK
  BY DEF StreamInv, TypesInv, StreamOK
<1> QED
  BY <1>1, PacketInvariance, PTL

(* Every number, float and block comes back as it was written: for all 2^64     *)
(* numbers, every capacity and any number of items before and after it.       *)
THEOREM PacketRoundTrip == StreamSpec => []RoundTrip
<1>1. StreamInv => RoundTrip
  <2> SUFFICES ASSUME StreamInv, NEW i \in DOMAIN result,
                      ok \/ (\A j \in 1 .. i : written[j].fits)
               PROVE  result[i] = written[i].value
    BY Zenon DEF RoundTrip
  <2>1. result \in Seq(Seq(Byte)) /\ Len(result) <= Len(written) /\ (writing => Len(result) = 0)
    BY DEF StreamInv, TypesInv
  <2>2. Len(result) \in Nat /\ i \in 1 .. Len(result)
    BY <2>1, LenProperties
  <2>3. written \in Seq(Item) /\ Len(written) \in Nat
    BY LenProperties DEF StreamInv, TypesInv
  <2>4. FitTo(i)
    <3>1. \A j \in 1 .. i : j \in 1 .. Len(written)
      BY <2>1, <2>2, <2>3
    <3> QED BY <3>1, Zenon DEF StreamInv, FitInv, FitTo
  <2>5. ~writing
    BY <2>1, <2>2
  <2> QED BY <2>2, <2>4, <2>5, Zenon DEF StreamInv, ReadInv
<1> QED
  BY <1>1, PacketInvariance, PTL

-----------------------------------------------------------------------------
(* The accounts.                                                             *)

(* While the stream is written, what did not fit is counted from the moment    *)
(* the buffer is full.  Reading leaves the count alone and can only make the  *)
(* stream invalid.                                                           *)
WritingInv ==
  writing =>
    /\ maxsize \in Nat /\ offset \in 0 .. maxsize
    /\ overshoot \in Nat /\ demanded \in Nat
    /\ offset + overshoot = demanded
    /\ ~ok => overshoot > 0 /\ offset = maxsize
ValidInv == ok => overshoot = 0
AccountInv == writing \in BOOLEAN /\ ok \in BOOLEAN /\ ValidInv /\ WritingInv

LEMMA AccountInit == StreamInit => AccountInv
BY PacketAssumption, SMT DEF StreamInit, AccountInv, ValidInv, WritingInv

(* Whatever is written, it has a length, and that is all that counts.         *)
LEMMA AdvanceAccounts ==
  ASSUME AccountInv, NEW kind, NEW value, NEW bytes, Len(bytes) \in Nat,
         Advance(kind, value, bytes)
  PROVE  AccountInv'
<1> DEFINE room == IF Len(bytes) <= Left THEN Len(bytes) ELSE Left
<1>1. /\ writing /\ writing' = writing /\ maxsize' = maxsize
      /\ offset' = offset + room
      /\ overshoot' = overshoot + Len(bytes) - room
      /\ ok' = (ok /\ room = Len(bytes))
      /\ demanded' = demanded + Len(bytes)
  BY DEF Advance
<1>2. /\ maxsize \in Nat /\ offset \in 0 .. maxsize
      /\ overshoot \in Nat /\ demanded \in Nat
      /\ offset + overshoot = demanded
      /\ ok \in BOOLEAN /\ (ok => overshoot = 0)
      /\ (~ok => overshoot > 0 /\ offset = maxsize)
  BY <1>1 DEF AccountInv, ValidInv, WritingInv
<1> HIDE DEF room
<1>r. /\ room \in 0 .. maxsize - offset /\ room <= Len(bytes)
      /\ room # Len(bytes) => room = maxsize - offset
      /\ offset = maxsize => room = 0
  <2>1. /\ maxsize \in Nat /\ offset \in 0 .. maxsize /\ Len(bytes) \in Nat
    BY <1>2
  <2> QED
    BY <2>1, SMT DEF room, Left
<1>3. /\ offset' \in 0 .. maxsize' /\ overshoot' \in Nat /\ demanded' \in Nat
      /\ offset' + overshoot' = demanded'
  <2>1. /\ maxsize' = maxsize /\ offset' = offset + room
        /\ overshoot' = overshoot + Len(bytes) - room
        /\ demanded' = demanded + Len(bytes)
    BY <1>1
  <2>2. /\ maxsize \in Nat /\ offset \in 0 .. maxsize
        /\ overshoot \in Nat /\ demanded \in Nat
        /\ offset + overshoot = demanded
    BY <1>2
  <2> QED
    BY <1>r, <2>1, <2>2, SMT
<1>4. ok' => overshoot' = 0
  <2>1. HAVE ok'
  <2>2. ok /\ room = Len(bytes)
    BY <1>1, <2>1
  <2> QED
    BY <1>1, <1>2, <2>2, SMT
<1>5. ~ok' => overshoot' > 0 /\ offset' = maxsize'
  <2>1. HAVE ~ok'
  <2>a. /\ maxsize' = maxsize /\ offset' = offset + room
        /\ overshoot' = overshoot + Len(bytes) - room
    BY <1>1
  <2>b. maxsize \in Nat /\ offset \in 0 .. maxsize /\ overshoot \in Nat
    BY <1>2
  <2>2. CASE ~ok
    <3>1. overshoot > 0 /\ offset = maxsize
      BY <1>2, <2>2
    <3> QED
      BY <3>1, <1>r, <2>a, <2>b, SMT
  <2>3. CASE room # Len(bytes)
    BY <1>r, <2>a, <2>b, <2>3, SMT
  <2> QED
    BY <1>1, <2>1, <2>2, <2>3
<1>6. ok' \in BOOLEAN /\ writing' \in BOOLEAN
  BY <1>1, <1>2 DEF AccountInv
<1> QED
  BY <1>1, <1>2, <1>3, <1>4, <1>5, <1>6 DEF AccountInv, ValidInv, WritingInv

(* Reading takes nothing from the count and only ever clears ok.               *)
LEMMA ReadingAccounts ==
  ASSUME AccountInv, NEW kind, Reading(kind), ok' \in BOOLEAN, ok' => ok
  PROVE  AccountInv'
BY DEF Reading, AccountInv, ValidInv, WritingInv

LEMMA AccountStep == AccountInv /\ [StreamNext]_streamVars => AccountInv'
<1> SUFFICES ASSUME AccountInv, [StreamNext]_streamVars
             PROVE  AccountInv'
  OBVIOUS
<1>1. ASSUME NEW v \in Values, WriteNumber(v)
      PROVE  AccountInv'
  <2>1. v \in Value
    BY PacketAssumption, Zenon DEF Value
  <2>2. Len(Encode(v)) \in Nat
    BY <2>1, EncodeSequence
  <2> QED
    BY <1>1, <2>2, AdvanceAccounts DEF WriteNumber, WriteBytes
<1>2. ASSUME NEW b \in Blocks, WriteFloat(b) \/ WriteBlock(b)
      PROVE  AccountInv'
  <2>1. Len(b) \in Nat
    BY PacketAssumption, LenProperties
  <2>2. \E kind \in {"float", "block"} : Advance(kind, b, b)
    BY <1>2 DEF WriteFloat, WriteBytes, WriteBlock
  <2> QED
    BY <2>1, <2>2, AdvanceAccounts
<1>3. CASE Rewind
  BY <1>3 DEF Rewind, AccountInv, ValidInv, WritingInv
<1>4. CASE ReadNumber
  <2>1. Reading("number") /\ \E n : TakeBytes(n)
    BY <1>4 DEF ReadNumber
  <2> QED
    BY <2>1, ReadingAccounts DEF TakeBytes
<1>5. CASE ReadFloat
  BY <1>5, ReadingAccounts DEF ReadFloat, TakeBytes
<1>6. CASE ReadBlock
  BY <1>6, ReadingAccounts DEF ReadBlock, AllOrNothing
<1>7. CASE Skip
  BY <1>7, ReadingAccounts DEF Skip, AllOrNothing
<1>8. CASE UNCHANGED streamVars
  BY <1>8 DEF streamVars, AccountInv, ValidInv, WritingInv
<1> QED
  BY <1>1, <1>2, <1>3, <1>4, <1>5, <1>6, <1>7, <1>8 DEF StreamNext

LEMMA AccountInvariant == StreamSpec => []AccountInv
BY AccountInit, AccountStep, PTL DEF StreamSpec

(* size() and undersize() together are what all the calls of append were for,  *)
(* isValid() tells whether everything fitted, and nothing is written behind    *)
(* what did not: for every capacity, every value and any number of items.     *)
THEOREM PacketAccounting == StreamSpec => []Accounting
<1>1. AccountInv => Accounting
  BY DEF AccountInv, ValidInv, WritingInv, Accounting
<1> QED
  BY <1>1, AccountInvariant, PTL
=============================================================================
