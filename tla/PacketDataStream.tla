-------------------------- MODULE PacketDataStream --------------------------
(***************************************************************************)
(* libmumbleclient/PacketDataStream.hpp: numbers of one to ten bytes, floats  *)
(* and blocks are written into a buffer of fixed size; rewind and truncate   *)
(* turn what was written into what is read.                                  *)
(*                                                                          *)
(* A uint64_t is the sequence of its eight bytes, the highest first: TLC's   *)
(* integers are too narrow for it.  The callers of the int, short, char,      *)
(* bool and double operators convert to and from uint64_t.                   *)
(***************************************************************************)
EXTENDS Integers, Sequences, SequencesExt

CONSTANTS Values,       \* numbers that may be written
          Blocks,       \* blocks of bytes that may be written
          Capacities,   \* sizes a buffer may have
          MaxItems      \* bound: how many items are written

Byte == 0 .. 255
ASSUME PacketAssumption ==
  /\ Values \subseteq [1 .. 8 -> Byte]
  /\ Blocks \subseteq Seq(Byte)
  /\ Capacities \subseteq Nat /\ MaxItems \in Nat

VARIABLES
  data, maxsize, offset, overshoot, ok,
  writing,     \* rewind has not been called yet
  demanded,    \* bytes that the calls so far were for
  written,     \* what was written: kind, value, where, and whether it had room
  result       \* what was read

streamVars == <<data, maxsize, offset, overshoot, ok, writing, demanded, written, result>>

Not(v) == [k \in 1 .. 8 |-> 255 - v[k]]
Zero(v, n) == \A k \in 1 .. n : v[k] = 0
Below(v, n, limit) == Zero(v, n - 1) /\ v[n] < limit   \* v < limit * 2^(8 * (8 - n))
Wide(bytes) == [k \in 1 .. 8 - Len(bytes) |-> 0] \o bytes

-----------------------------------------------------------------------------
(* operator<< : the number of leading ones in the first byte tells how many    *)
(* bytes follow.                                                             *)
Unsigned(v) ==
  CASE Below(v, 8, 128) -> <<v[8]>>
    [] Below(v, 7, 64) /\ ~Below(v, 8, 128) -> <<128 + v[7], v[8]>>
    [] Below(v, 6, 32) /\ ~Below(v, 7, 64) -> <<192 + v[6], v[7], v[8]>>
    [] Below(v, 5, 16) /\ ~Below(v, 6, 32) -> <<224 + v[5], v[6], v[7], v[8]>>
    [] Zero(v, 4) /\ ~Below(v, 5, 16) -> <<240>> \o SubSeq(v, 5, 8)
    [] ~Zero(v, 4) -> <<244>> \o v

IsSmallNegative(v) == v[1] >= 128 /\ Zero(Not(v), 4)

(* Faulty variant: the short form goes one too far.                          *)
EncodeShortTooFar(v) ==
  IF ~IsSmallNegative(v) THEN Unsigned(v)
  ELSE IF Below(Not(v), 8, 5) THEN <<252 + (Not(v)[8] % 4)>>
  ELSE <<248>> \o Unsigned(Not(v))

Encode(v) ==
  IF ~IsSmallNegative(v) THEN Unsigned(v)
  ELSE IF Below(Not(v), 8, 4) THEN <<252 + Not(v)[8]>>
  ELSE <<248>> \o Unsigned(Not(v))

(* operator>> at each place: the number and how many calls of next() it takes. *)
(* next() past the end gives 0.  The operands of | are taken from the left.   *)
At(d, max, o) == IF o < max THEN d[o + 1] ELSE 0
Take(d, max, bits, o, n) ==
  [value |-> Wide(bits \o [k \in 1 .. n |-> At(d, max, o + k)]), taken |-> n + 1]
Complement(r, n) == [value |-> Not(r.value), taken |-> r.taken + n]

Number(f, d, max, o) ==
  LET b == At(d, max, o)
  IN  CASE b < 128 -> Take(d, max, <<b>>, o, 0)
        [] b \in 128 .. 191 -> Take(d, max, <<b - 128>>, o, 1)
        [] b \in 192 .. 223 -> Take(d, max, <<b - 192>>, o, 2)
        [] b \in 224 .. 239 -> Take(d, max, <<b - 224>>, o, 3)
        [] b \in 240 .. 243 -> Take(d, max, <<>>, o, 4)
        [] b \in 244 .. 247 -> Take(d, max, <<>>, o, 8)
        [] b \in 248 .. 251 -> Complement(f[o + 1], 1)
        [] b \in 252 .. 255 -> Complement(Take(d, max, <<b - 252>>, o, 0), 0)
Decode(d, max) == LET f[o \in Nat] == Number(f, d, max, o) IN f

-----------------------------------------------------------------------------
Left == maxsize - offset

StreamInit ==
  /\ maxsize \in Capacities
  /\ data = <<>> /\ offset = 0 /\ overshoot = 0 /\ ok = TRUE
  /\ writing = TRUE /\ demanded = 0 /\ written = <<>> /\ result = <<>>

(* Faulty variant: only the last item's missing bytes are counted.            *)
AdvanceCountsLast(kind, value, bytes) ==
  LET room == IF Len(bytes) <= Left THEN Len(bytes) ELSE Left
  IN  /\ writing /\ Len(written) < MaxItems
      /\ offset' = offset + room
      /\ overshoot' = Len(bytes) - room
      /\ ok' = (ok /\ room = Len(bytes))
      /\ demanded' = demanded + Len(bytes)
      /\ written' = Append(written, [kind |-> kind, value |-> value, at |-> offset,
                                     fits |-> room = Len(bytes)])
      /\ UNCHANGED <<maxsize, writing, result>>

(* What all calls of append do, but for the bytes: as many as there is room    *)
(* for move offset, the others are counted.                                  *)
Advance(kind, value, bytes) ==
  LET room == IF Len(bytes) <= Left THEN Len(bytes) ELSE Left
  IN  /\ writing /\ Len(written) < MaxItems
      /\ offset' = offset + room
      /\ overshoot' = overshoot + Len(bytes) - room
      /\ ok' = (ok /\ room = Len(bytes))
      /\ demanded' = demanded + Len(bytes)
      /\ written' = Append(written, [kind |-> kind, value |-> value, at |-> offset,
                                     fits |-> room = Len(bytes)])
      /\ UNCHANGED <<maxsize, writing, result>>

(* append byte by byte, for numbers and floats.                              *)
WriteBytes(kind, value, bytes) ==
  /\ Advance(kind, value, bytes)
  /\ data' = data \o SubSeq(bytes, 1, offset' - offset)

WriteNumber(v) == WriteBytes("number", v, Encode(v))
WriteFloat(bytes) == Len(bytes) = 4 /\ WriteBytes("float", bytes, bytes)

(* A block that does not fit leaves zeros.                                   *)
WriteBlock(bytes) ==
  /\ Advance("block", bytes, bytes)
  /\ data' = data \o (IF offset' - offset = Len(bytes) THEN bytes
                      ELSE [k \in 1 .. offset' - offset |-> 0])

(* Faulty variant: the buffer keeps the size it was made with.               *)
RewindOnly ==
  /\ writing
  /\ offset' = 0 /\ demanded' = 0
  /\ writing' = FALSE
  /\ UNCHANGED <<data, maxsize, overshoot, ok, written, result>>

(* truncate and rewind: what was written can be read.                        *)
Rewind ==
  /\ writing
  /\ maxsize' = offset /\ offset' = 0 /\ demanded' = 0
  /\ writing' = FALSE
  /\ UNCHANGED <<data, overshoot, ok, written, result>>

Reading(kind) ==
  /\ ~writing /\ Len(result) < Len(written)
  /\ written[Len(result) + 1].kind = kind
  /\ UNCHANGED <<data, maxsize, overshoot, writing, written>>

Expected == written[Len(result) + 1].value   \* what is to be read

(* next(), n times.                                                          *)
TakeBytes(n) ==
  /\ offset' = offset + (IF n <= Left THEN n ELSE Left)
  /\ ok' = (ok /\ n <= Left)
  /\ demanded' = demanded + n

ReadNumber ==
  /\ Reading("number")
  /\ LET r == Decode(data, maxsize)[offset]
     IN  TakeBytes(r.taken) /\ result' = Append(result, r.value)

(* The value 0 for a float that is not all there is overwritten at once.      *)
ReadFloat ==
  /\ Reading("float")
  /\ TakeBytes(4)
  /\ result' = Append(result, [k \in 1 .. 4 |->
                 IF offset + k <= maxsize THEN data[offset + k] ELSE 0])

(* dataBlock and skip: all of it or nothing.                                 *)
AllOrNothing(n) ==
  /\ offset' = IF n <= Left THEN offset + n ELSE offset
  /\ ok' = (ok /\ n <= Left)
  /\ demanded' = demanded + n

ReadBlock ==
  /\ Reading("block")
  /\ AllOrNothing(Len(Expected))
  /\ result' = Append(result, SubSeq(data, offset + 1, offset'))

Skip ==
  /\ Reading("block")
  /\ AllOrNothing(Len(Expected))
  /\ result' = Append(result, Expected)

StreamNext ==
  \/ \E v \in Values : WriteNumber(v)
  \/ \E b \in Blocks : WriteFloat(b) \/ WriteBlock(b)
  \/ Rewind
  \/ ReadNumber \/ ReadFloat \/ ReadBlock \/ Skip

StreamSpec == StreamInit /\ [][StreamNext]_streamVars

-----------------------------------------------------------------------------
(* Every variable stays in its range, and no call goes past the buffer.       *)
StreamOK ==
  /\ data \in Seq(Byte) /\ maxsize \in Nat
  /\ offset \in 0 .. maxsize /\ overshoot \in Nat /\ demanded \in Nat
  /\ ok \in BOOLEAN /\ writing \in BOOLEAN
  /\ Len(data) = IF writing THEN offset ELSE maxsize
  /\ Len(written) <= MaxItems /\ Len(result) <= Len(written)

(* size() and undersize() together are what the calls were for, so a caller    *)
(* learns what a buffer would have needed; isValid() says whether it all      *)
(* fitted; and after what did not fit nothing is written behind it.          *)
Accounting ==
  /\ writing => offset + overshoot = demanded
  /\ ok => overshoot = 0
  /\ writing /\ ~ok => overshoot > 0 /\ offset = maxsize

(* Every number, the negative and the 64-bit ones included, comes back as it    *)
(* was written, whatever was written before and after it; when the stream is   *)
(* valid to the end, everything did.                                         *)
RoundTrip ==
  \A i \in DOMAIN result :
    ok \/ (\A j \in 1 .. i : written[j].fits) => result[i] = written[i].value
=============================================================================
