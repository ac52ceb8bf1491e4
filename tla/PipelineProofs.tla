--------------------------- MODULE PipelineProofs ---------------------------
(***************************************************************************)
(* Proofs about Pipeline, for every frame size, rate, chunk and number of    *)
(* callers.                                                                 *)
(*                                                                          *)
(* What a resampler does is a function of its state, and some of it is        *)
(* recursive: frame after frame.  Induction is over sets of numbers           *)
(* (SetInduction): a set that has 0, and with a number the next one, is Nat.  *)
(***************************************************************************)
EXTENDS Pipeline, TLAPS, WellFoundedInduction, SequenceTheorems

-----------------------------------------------------------------------------
(* Induction.                                                                *)

LessThan == {ss \in Nat \X Nat : ss[1] < ss[2]}

(* A set of numbers that is not empty has a least element.                   *)
LEMMA LeastElement ==
  ASSUME NEW T \in SUBSET Nat, T # {}
  PROVE  \E m \in T : \A n \in T : m <= n
<1>1. IsWellFoundedOn(LessThan, Nat)
  BY NatLessThanWellFounded, Zenon DEF OpToRel, LessThan
<1>2. PICK m \in T : \A n \in T : <<n, m>> \notin LessThan
  BY <1>1, WFMin
<1>3. ASSUME NEW n \in Nat, NEW k \in Nat, <<n, k>> \notin LessThan PROVE k <= n
  BY <1>3 DEF LessThan
<1> QED BY <1>2, <1>3

LEMMA SetInduction ==
  ASSUME NEW T \in SUBSET Nat, 0 \in T, \A n \in T : n + 1 \in T
  PROVE  T = Nat
<1>1. SUFFICES ASSUME Nat \ T # {} PROVE FALSE
  OBVIOUS
<1>2. PICK m \in Nat \ T : \A n \in Nat \ T : m <= n
  BY <1>1, LeastElement
<1>3. m # 0 /\ m - 1 \in Nat /\ m - 1 \in T
  BY <1>2
<1> QED BY <1>2, <1>3

-----------------------------------------------------------------------------
(* FlattenSeq: what its recursive function is, and what it does to Append,     *)
(* concatenation and entries of one length.                                  *)

Flattens(f, s, n) == f = [i \in 1 .. n |-> IF i = 1 THEN s[i] ELSE f[i - 1] \o s[i]]

LEMMA FlattenStep ==
  ASSUME NEW f, NEW s, NEW n, Flattens(f, s, n), NEW i \in 1 .. n
  PROVE  f[i] = IF i = 1 THEN s[i] ELSE f[i - 1] \o s[i]
BY Zenon DEF Flattens

LEMMA FlattenExists ==
  ASSUME NEW s, NEW n \in Nat
  PROVE  \E f : Flattens(f, s, n)
<1> DEFINE T == {k \in Nat : \E f : Flattens(f, s, k)}
<1>1. 0 \in T
  <2>1. Flattens([i \in 1 .. 0 |-> s[i]], s, 0)
    BY DEF Flattens
  <2> QED BY <2>1
<1>2. ASSUME NEW k \in T PROVE k + 1 \in T
  <2>1. PICK f : Flattens(f, s, k)
    OBVIOUS
  <2> DEFINE g == [i \in 1 .. k + 1 |->
                     IF i <= k THEN f[i] ELSE IF i = 1 THEN s[i] ELSE f[i - 1] \o s[i]]
  <2>2. ASSUME NEW i \in 1 .. k + 1
        PROVE  g[i] = IF i = 1 THEN s[i] ELSE g[i - 1] \o s[i]
    <3>1. i \in Int /\ k \in Nat
      OBVIOUS
    <3>2. CASE i <= k
      <4>1. i \in 1 .. k /\ (i # 1 => i - 1 \in 1 .. k + 1 /\ i - 1 <= k)
        BY <3>1, <3>2
      <4>2. f[i] = IF i = 1 THEN s[i] ELSE f[i - 1] \o s[i]
        BY <2>1, <4>1, FlattenStep
      <4> QED BY <3>2, <4>1, <4>2, Zenon
    <3>3. CASE ~(i <= k)
      <4>1. i # 1 => i - 1 \in 1 .. k + 1 /\ i - 1 <= k
        BY <3>1, <3>3
      <4> QED BY <3>3, <4>1, Zenon
    <3> QED BY <3>2, <3>3
  <2>3. Flattens(g, s, k + 1)
    BY <2>2, Zenon DEF Flattens
  <2> QED BY <2>3
<1>3. T = Nat
  <2> HIDE DEF T
  <2>1. T \in SUBSET Nat BY DEF T
  <2> QED BY <2>1, <1>1, <1>2, SetInduction
<1> QED BY <1>3

LEMMA FlattenUnique ==
  ASSUME NEW s, NEW t, NEW n \in Nat, NEW m \in Nat, NEW f, NEW g,
         Flattens(f, s, n), Flattens(g, t, m), n <= m, \A i \in 1 .. n : s[i] = t[i]
  PROVE  \A i \in 1 .. n : f[i] = g[i]
<1> DEFINE T == {i \in Nat : i \in 1 .. n => f[i] = g[i]}
<1>1. 0 \in T
  OBVIOUS
<1>2. ASSUME NEW i \in T PROVE i + 1 \in T
  <2>1. SUFFICES ASSUME i + 1 \in 1 .. n PROVE f[i + 1] = g[i + 1]
    OBVIOUS
  <2>2. i \in Nat /\ i + 1 - 1 = i /\ i + 1 \in 1 .. n /\ i + 1 \in 1 .. m
    BY <2>1
  <2>3. f[i + 1] = (IF i + 1 = 1 THEN s[i + 1] ELSE f[i] \o s[i + 1])
    BY <2>2, FlattenStep
  <2>4. g[i + 1] = (IF i + 1 = 1 THEN t[i + 1] ELSE g[i] \o t[i + 1])
    BY <2>2, FlattenStep
  <2>5. i + 1 = 1 \/ f[i] = g[i]
    BY <2>1
  <2>6. s[i + 1] = t[i + 1]
    BY <2>1
  <2> QED BY <2>3, <2>4, <2>5, <2>6, Zenon
<1>3. T = Nat
  <2> HIDE DEF T
  <2>1. T \in SUBSET Nat BY DEF T
  <2> QED BY <2>1, <1>1, <1>2, SetInduction
<1> QED BY <1>3

LEMMA FlattenValue ==
  ASSUME NEW S, NEW s \in Seq(S), s # <<>>
  PROVE  \E f, n : n = Len(s) /\ Flattens(f, s, n) /\ FlattenSeq(s) = f[n]
<1>1. Len(s) \in Nat /\ Len(s) # 0
  OBVIOUS
<1> DEFINE f == CHOOSE f : f = [i \in 1 .. Len(s) |-> IF i = 1 THEN s[i] ELSE f[i - 1] \o s[i]]
<1>2. Flattens(f, s, Len(s))
  BY <1>1, FlattenExists DEF Flattens
<1>3. FlattenSeq(s) = f[Len(s)]
  BY <1>1 DEF FlattenSeq
<1> QED BY <1>2, <1>3

LEMMA FlattenEmpty == FlattenSeq(<<>>) = <<>>
BY DEF FlattenSeq

LEMMA FlattenType ==
  ASSUME NEW S, NEW s \in Seq(Seq(S))
  PROVE  FlattenSeq(s) \in Seq(S)
<1>1. CASE s = <<>>
  <2>1. FlattenSeq(s) = <<>>
    BY <1>1, FlattenEmpty
  <2> QED BY <2>1
<1>2. CASE s # <<>>
  <2>1. PICK f, n : n = Len(s) /\ Flattens(f, s, n) /\ FlattenSeq(s) = f[n]
    BY <1>2, FlattenValue
  <2> DEFINE T == {i \in Nat : i \in 1 .. Len(s) => f[i] \in Seq(S)}
  <2>2. 0 \in T
    OBVIOUS
  <2>3. ASSUME NEW i \in T PROVE i + 1 \in T
    <3>1. SUFFICES ASSUME i + 1 \in 1 .. Len(s) PROVE f[i + 1] \in Seq(S)
      OBVIOUS
    <3> DEFINE j == i + 1
    <3>2. j \in 1 .. n /\ j - 1 = i /\ s[j] \in Seq(S) /\ (j = 1 \/ f[i] \in Seq(S))
      BY <2>1, <3>1
    <3> HIDE DEF j
    <3>3. f[j] = (IF j = 1 THEN s[j] ELSE f[j - 1] \o s[j])
      <4>1. Flattens(f, s, n) /\ j \in 1 .. n
        BY <2>1, <3>2
      <4> QED BY <4>1, FlattenStep
    <3>4. CASE j = 1
      BY <3>2, <3>3, <3>4 DEF j
    <3>5. CASE j # 1
      <4>1. f[i] \in Seq(S) /\ s[j] \in Seq(S) /\ f[j] = f[i] \o s[j]
        BY <3>2, <3>3, <3>5
      <4>2. f[j] \in Seq(S)
        BY <4>1, ConcatProperties
      <4> QED BY <4>2 DEF j
    <3> QED BY <3>4, <3>5
  <2>4. T = Nat
    <3> HIDE DEF T
    <3>1. T \in SUBSET Nat BY DEF T
    <3> QED BY <3>1, <2>2, <2>3, SetInduction
  <2>5. Len(s) \in T /\ Len(s) \in 1 .. Len(s)
    BY <1>2, <2>4
  <2> QED BY <2>1, <2>5
<1> QED BY <1>1, <1>2

LEMMA FlattenLonger ==
  ASSUME NEW S, NEW s \in Seq(S), NEW t \in Seq(S), s # <<>>, Len(t) = Len(s) + 1,
         \A i \in 1 .. Len(s) : t[i] = s[i]
  PROVE  FlattenSeq(t) = FlattenSeq(s) \o t[Len(t)]
<1>1. PICK f, n : n = Len(s) /\ Flattens(f, s, n) /\ FlattenSeq(s) = f[n]
  BY FlattenValue
<1>2. PICK g, m : m = Len(t) /\ Flattens(g, t, m) /\ FlattenSeq(t) = g[m]
  BY FlattenValue
<1>3. n \in 1 .. n /\ n \in Nat /\ m = n + 1 /\ m \in Nat /\ m \in 1 .. m /\ n <= m /\ n <= n
  BY <1>1, <1>2
<1>4. f[n] = g[n]
  <2>1. \A i \in 1 .. n : s[i] = t[i]
    BY <1>1
  <2>2. \A i \in 1 .. n : f[i] = g[i]
    <3>1. Flattens(f, s, n)
      BY <1>1
    <3>2. Flattens(g, t, m)
      BY <1>2
    <3>3. n \in Nat /\ m \in Nat /\ n <= n /\ n <= m
      BY <1>3
    <3> HIDE <1>1, <1>2, <1>3
    <3> QED BY <2>1, <3>1, <3>2, <3>3, FlattenUnique, SMTT(30)
  <2> QED BY <1>3, <2>2
<1>5. m # 1 /\ m - 1 = n
  BY <1>3
<1>6. g[m] = g[n] \o t[m]
  <2>1. Flattens(g, t, m)
    BY <1>2
  <2>2. \A i \in 1 .. m : g[i] = IF i = 1 THEN t[i] ELSE g[i - 1] \o t[i]
    BY <2>1, FlattenStep
  <2> QED BY <1>3, <1>5, <2>2
<1> QED BY <1>1, <1>2, <1>4, <1>6

LEMMA FlattenAppend ==
  ASSUME NEW S, NEW s \in Seq(Seq(S)), NEW e \in Seq(S)
  PROVE  FlattenSeq(Append(s, e)) = FlattenSeq(s) \o e
<1> DEFINE t == Append(s, e)
<1>1. /\ t \in Seq(Seq(S)) /\ t # <<>> /\ Len(t) = Len(s) + 1 /\ t[Len(t)] = e
      /\ \A i \in 1 .. Len(s) : t[i] = s[i]
      /\ Len(s) \in Nat
  BY AppendProperties
<1> HIDE DEF t
<1>2. CASE s = <<>>
  <2>1. PICK g, m : m = Len(t) /\ Flattens(g, t, m) /\ FlattenSeq(t) = g[m]
    BY <1>1, FlattenValue
  <2>2. m = 1
    BY <1>1, <1>2, <2>1
  <2>3. g[1] = t[1]
    BY <2>1, <2>2, FlattenStep
  <2>4. FlattenSeq(t) = e
    BY <1>1, <2>1, <2>2, <2>3
  <2> QED BY <1>2, <2>4, FlattenEmpty DEF t
<1>3. CASE s # <<>>
  <2>1. FlattenSeq(t) = FlattenSeq(s) \o e
    BY <1>1, <1>3, FlattenLonger
  <2> QED BY <2>1 DEF t
<1> QED BY <1>2, <1>3

LEMMA FlattenConcat ==
  ASSUME NEW S, NEW s \in Seq(Seq(S)), NEW t \in Seq(Seq(S))
  PROVE  FlattenSeq(s \o t) = FlattenSeq(s) \o FlattenSeq(t)
<1> DEFINE Q(k) == \A u \in Seq(Seq(S)) :
                     Len(u) = k => FlattenSeq(s \o u) = FlattenSeq(s) \o FlattenSeq(u)
           T == {k \in Nat : Q(k)}
<1>1. Q(0)
  <2>1. SUFFICES ASSUME NEW u \in Seq(Seq(S)), Len(u) = 0
                 PROVE  FlattenSeq(s \o u) = FlattenSeq(s) \o FlattenSeq(u)
    OBVIOUS
  <2>2. u = <<>> /\ s \o u = s
    BY <2>1, ConcatEmptySeq
  <2>3. FlattenSeq(s) \o <<>> = FlattenSeq(s)
    BY FlattenType, ConcatEmptySeq
  <2> QED BY <2>2, <2>3, FlattenEmpty
<1>2. ASSUME NEW k \in Nat, Q(k) PROVE Q(k + 1)
  <2>1. SUFFICES ASSUME NEW u \in Seq(Seq(S)), Len(u) = k + 1
                 PROVE  FlattenSeq(s \o u) = FlattenSeq(s) \o FlattenSeq(u)
    OBVIOUS
  <2>2. PICK v \in Seq(Seq(S)), e \in Seq(S) : u = Append(v, e)
    <3>1. u # <<>>
      BY <2>1
    <3> QED BY <3>1, SequenceEmptyOrAppend
  <2>3. Len(v) = k
    BY <2>1, <2>2
  <2>4. FlattenSeq(s \o v) = FlattenSeq(s) \o FlattenSeq(v)
    BY <1>2, <2>3
  <2>5. s \o u = Append(s \o v, e) /\ s \o v \in Seq(Seq(S))
    <3>1. u = v \o <<e>>
      BY <2>2, AppendIsConcat
    <3>2. s \o u = (s \o v) \o <<e>>
      <4>1. <<e>> \in Seq(Seq(S))
        OBVIOUS
      <4> QED BY <3>1, <4>1, ConcatAssociative, SMTT(30)
    <3>3. s \o v \in Seq(Seq(S))
      BY ConcatProperties
    <3> QED BY <3>2, <3>3, AppendIsConcat
  <2>6. FlattenSeq(s \o u) = FlattenSeq(s \o v) \o e
    BY <2>5, FlattenAppend
  <2>7. FlattenSeq(u) = FlattenSeq(v) \o e
    BY <2>2, FlattenAppend
  <2>8. (FlattenSeq(s) \o FlattenSeq(v)) \o e = FlattenSeq(s) \o (FlattenSeq(v) \o e)
    <3>1. FlattenSeq(s) \in Seq(S) /\ FlattenSeq(v) \in Seq(S)
      BY FlattenType
    <3> QED BY <3>1, ConcatAssociative, SMTT(30)
  <2> QED BY <2>4, <2>6, <2>7, <2>8
<1>3. T = Nat
  <2>1. 0 \in T
    BY <1>1
  <2>2. ASSUME NEW k \in T PROVE k + 1 \in T
    <3>1. k \in Nat /\ Q(k)
      OBVIOUS
    <3>2. Q(k + 1)
      BY <3>1, <1>2
    <3> QED BY <3>1, <3>2
  <2>3. T \in SUBSET Nat
    OBVIOUS
  <2> HIDE DEF T
  <2> QED BY <2>1, <2>2, <2>3, SetInduction
<1>4. Len(t) \in T
  BY <1>3
<1> QED BY <1>4

(* A sequence is what Append makes of a shorter one with the same elements.   *)
LEMMA SeqFromFunction ==
  ASSUME NEW S, NEW n \in Nat, NEW f \in [1 .. n -> S]
  PROVE  f \in Seq(S) /\ Len(f) = n
OBVIOUS

LEMMA AppendIs ==
  ASSUME NEW S, NEW s \in Seq(S), NEW t \in Seq(S), Len(t) = Len(s) + 1,
         \A i \in 1 .. Len(s) : t[i] = s[i]
  PROVE  t = Append(s, t[Len(t)])
<1>1. t[Len(t)] \in S
  OBVIOUS
<1> DEFINE u == Append(s, t[Len(t)])
<1>2. /\ u \in Seq(S) /\ Len(u) = Len(t)
      /\ \A i \in 1 .. Len(s) : u[i] = s[i]
      /\ u[Len(t)] = t[Len(t)]
  BY <1>1, AppendProperties
<1>3. \A i \in 1 .. Len(t) : i \in 1 .. Len(s) \/ i = Len(t)
  OBVIOUS
<1> HIDE DEF u
<1>4. \A i \in 1 .. Len(t) : u[i] = t[i]
  BY <1>2, <1>3
<1>5. u = t
  BY <1>2, <1>4, SeqEqual
<1> QED BY <1>5 DEF u

(* What is cut into pieces of one length and put together again is the same. *)
Cut(s, size, n) == [i \in 1 .. n |-> SubSeq(s, (i - 1) * size + 1, i * size)]

LEMMA FlattenPieces ==
  ASSUME NEW S, NEW s \in Seq(S), NEW size \in Nat \ {0}, NEW n \in Nat, n * size <= Len(s)
  PROVE  /\ Cut(s, size, n) \in Seq(Seq(S)) /\ Len(Cut(s, size, n)) = n
         /\ \A i \in 1 .. n : Len(Cut(s, size, n)[i]) = size
         /\ FlattenSeq(Cut(s, size, n)) = SubSeq(s, 1, n * size)
<1> DEFINE Piece(i) == SubSeq(s, (i - 1) * size + 1, i * size)
           Pieces(k) == [i \in 1 .. k |-> Piece(i)]
           Q(k) == FlattenSeq(Pieces(k)) = SubSeq(s, 1, k * size)
           T == {k \in Nat : k <= n => Q(k)}
<1>1. ASSUME NEW i \in 1 .. n
      PROVE  /\ (i - 1) * size \in Nat /\ i * size = (i - 1) * size + size
             /\ i * size \in Nat /\ i * size <= Len(s)
             /\ Piece(i) \in Seq(S) /\ Len(Piece(i)) = size
  <2>1. (i - 1) * size \in Nat /\ i * size = (i - 1) * size + size
    OBVIOUS
  <2>2. i * size <= n * size
    OBVIOUS
  <2>3. \A j \in (i - 1) * size + 1 .. i * size : s[j] \in S
    BY <2>1, <2>2
  <2>4. /\ Piece(i) \in Seq(S)
        /\ Len(Piece(i)) = IF (i - 1) * size + 1 <= i * size
                             THEN i * size - ((i - 1) * size + 1) + 1 ELSE 0
    BY <2>1, <2>3, SubSeqProperties
  <2> QED BY <2>1, <2>2, <2>4
<1>2. ASSUME NEW k \in 0 .. n
      PROVE  Pieces(k) \in Seq(Seq(S)) /\ Len(Pieces(k)) = k
  <2>1. \A i \in 1 .. k : Piece(i) \in Seq(S)
    BY <1>1
  <2> HIDE DEF Piece
  <2>2. Pieces(k) \in [1 .. k -> Seq(S)]
    BY <2>1
  <2> QED BY <2>2, SeqFromFunction
<1>3. Q(0)
  <2>1. Pieces(0) = <<>>
    OBVIOUS
  <2>2. SubSeq(s, 1, 0 * size) = <<>>
    <3>1. 0 * size = 0
      OBVIOUS
    <3> QED BY <3>1, SubSeqEmpty
  <2> HIDE DEF Pieces
  <2> QED BY <2>1, <2>2, FlattenEmpty
<1>4. ASSUME NEW k \in Nat, Q(k), k + 1 <= n PROVE Q(k + 1)
  <2>1. k + 1 \in 1 .. n /\ k + 1 - 1 = k /\ k \in 0 .. n /\ k + 1 \in 0 .. n
    BY <1>4
  <2>2. Pieces(k + 1) = Append(Pieces(k), Piece(k + 1))
    <3> DEFINE t == Pieces(k + 1)
               p == Pieces(k)
    <3>1. p \in Seq(Seq(S)) /\ t \in Seq(Seq(S)) /\ Len(p) = k /\ Len(t) = k + 1
      BY <1>2, <2>1
    <3>2. (\A i \in 1 .. k : t[i] = p[i]) /\ t[k + 1] = Piece(k + 1)
      OBVIOUS
    <3> HIDE DEF t, p
    <3>3. t = Append(p, Piece(k + 1))
      BY <3>1, <3>2, AppendIs
    <3> QED BY <3>3 DEF t, p
  <2>3. FlattenSeq(Pieces(k + 1)) = SubSeq(s, 1, k * size) \o Piece(k + 1)
    <3>1. Piece(k + 1) \in Seq(S) /\ Pieces(k) \in Seq(Seq(S))
      BY <1>1, <1>2, <2>1
    <3> HIDE DEF Piece, Pieces
    <3> QED BY <1>4, <2>2, <3>1, FlattenAppend
  <2>4. SubSeq(s, 1, k * size) \o Piece(k + 1) = SubSeq(s, 1, (k + 1) * size)
    <3>1. k * size \in Nat /\ (k + 1) * size = k * size + size /\ (k + 1) * size <= Len(s)
      BY <1>1, <2>1
    <3>2. /\ 1 \in 1 .. Len(s) + 1 /\ k * size \in 1 - 1 .. Len(s)
          /\ (k + 1) * size \in k * size .. Len(s)
      BY <3>1
    <3> QED BY <2>1, <3>2, ConcatAdjacentSubSeq
  <2> QED BY <2>3, <2>4
<1>5. T = Nat
  <2> HIDE DEF Q
  <2>1. 0 \in T
    BY <1>3
  <2>2. ASSUME NEW k \in T PROVE k + 1 \in T
    <3>1. k \in Nat /\ (k <= n => Q(k))
      OBVIOUS
    <3> QED BY <3>1, <1>4
  <2>3. T \in SUBSET Nat
    OBVIOUS
  <2> HIDE DEF T
  <2> QED BY <2>1, <2>2, <2>3, SetInduction
<1>6. Q(n)
  <2> HIDE DEF Q
  <2> QED BY <1>5
<1>7. \A i \in 1 .. n : Len(Pieces(n)[i]) = size
  <2>1. \A i \in 1 .. n : Pieces(n)[i] = Piece(i)
    OBVIOUS
  <2> HIDE DEF Pieces, Piece
  <2> QED BY <1>1, <2>1
<1>8. Pieces(n) \in Seq(Seq(S)) /\ Len(Pieces(n)) = n
  BY <1>2
<1>9. Cut(s, size, n) = Pieces(n)
  BY DEF Cut
<1> HIDE DEF Pieces
<1> QED BY <1>6, <1>7, <1>8, <1>9

-----------------------------------------------------------------------------
(* Runs of numbers: Numbers of the source's samples, Samples of the graph's.  *)

Sample == Nat \X Nat
(* The samples of song s after the first a of them, up to number b.          *)
Samples(s, a, b) == [k \in 1 .. b - a |-> <<s, a + k>>]

(* A run of n numbers after a, and the n elements of s after the m-th.        *)
Run(a, n) == Numbers(a + 1, a + n)
Part(s, m, n) == SubSeq(s, m + 1, m + n)

LEMMA RunType ==
  ASSUME NEW a \in Nat, NEW n \in Nat
  PROVE  Run(a, n) \in Seq(Nat) /\ Len(Run(a, n)) = n /\ \A i \in 1 .. n : Run(a, n)[i] = a + i
<1>1. Run(a, n) = [i \in 1 .. n |-> a + i]
  BY DEF Run, Numbers
<1>2. [i \in 1 .. n |-> a + i] \in [1 .. n -> Nat]
  OBVIOUS
<1> QED BY <1>1, <1>2, SeqFromFunction

LEMMA PartType ==
  ASSUME NEW S, NEW s \in Seq(S), NEW m \in Nat, NEW k \in Nat, m + k <= Len(s)
  PROVE  Part(s, m, k) \in Seq(S) /\ Len(Part(s, m, k)) = k /\ \A i \in 1 .. k : Part(s, m, k)[i] = s[m + i]
<1>1. \A i \in m + 1 .. m + k : s[i] \in S
  OBVIOUS
<1>2. /\ Part(s, m, k) \in Seq(S)
      /\ Len(Part(s, m, k)) = IF m + 1 <= m + k THEN m + k - (m + 1) + 1 ELSE 0
      /\ \A i \in 1 .. m + k - (m + 1) + 1 : Part(s, m, k)[i] = s[m + 1 + i - 1]
  BY <1>1, SubSeqProperties DEF Part
<1>3. /\ m + k - (m + 1) + 1 = k
      /\ (IF m + 1 <= m + k THEN m + k - (m + 1) + 1 ELSE 0) = k
      /\ \A i \in 1 .. k : m + 1 + i - 1 = m + i
  OBVIOUS
<1> QED BY <1>2, <1>3

LEMMA RunPart ==
  ASSUME NEW a \in Nat, NEW n \in Nat, NEW m \in Nat, NEW k \in Nat, m + k <= n
  PROVE  Part(Run(a, n), m, k) = Run(a + m, k)
<1> DEFINE s == Run(a, n)
           t == Run(a + m, k)
           u == Part(s, m, k)
<1>1. s \in Seq(Nat) /\ Len(s) = n /\ \A i \in 1 .. n : s[i] = a + i
  BY RunType
<1>2. t \in Seq(Nat) /\ Len(t) = k /\ \A i \in 1 .. k : t[i] = (a + m) + i
  <2>1. a + m \in Nat
    OBVIOUS
  <2> QED BY <2>1, RunType
<1> HIDE DEF s, t
<1>3. u \in Seq(Nat) /\ Len(u) = k /\ \A i \in 1 .. k : u[i] = s[m + i]
  BY <1>1, PartType, SMTT(30)
<1> HIDE DEF u
<1>4. \A i \in 1 .. k : u[i] = t[i]
  <2>1. \A i \in 1 .. k : m + i \in 1 .. n /\ a + (m + i) = (a + m) + i
    OBVIOUS
  <2> QED BY <1>1, <1>2, <1>3, <2>1
<1>5. u = t
  BY <1>2, <1>3, <1>4, SeqEqual
<1> QED BY <1>5 DEF s, t, u

LEMMA RunConcat ==
  ASSUME NEW a \in Nat, NEW m \in Nat, NEW n \in Nat
  PROVE  Run(a, m) \o Run(a + m, n) = Run(a, m + n)
<1> DEFINE s == Run(a, m)
           t == Run(a + m, n)
           u == Run(a, m + n)
<1>1. s \in Seq(Nat) /\ Len(s) = m /\ \A i \in 1 .. m : s[i] = a + i
  BY RunType
<1>2. t \in Seq(Nat) /\ Len(t) = n /\ \A i \in 1 .. n : t[i] = (a + m) + i
  <2>1. a + m \in Nat
    OBVIOUS
  <2> QED BY <2>1, RunType
<1>3. u \in Seq(Nat) /\ Len(u) = m + n /\ \A i \in 1 .. m + n : u[i] = a + i
  <2>1. m + n \in Nat
    OBVIOUS
  <2> QED BY <2>1, RunType
<1> HIDE DEF s, t, u
<1>4. /\ s \o t \in Seq(Nat) /\ Len(s \o t) = m + n
      /\ \A i \in 1 .. m + n : (s \o t)[i] = IF i <= m THEN s[i] ELSE t[i - m]
  BY <1>1, <1>2, ConcatProperties
<1>5. ASSUME NEW i \in 1 .. m + n PROVE (s \o t)[i] = u[i]
  <2>1. CASE i <= m
    BY <1>1, <1>3, <1>4, <2>1
  <2>2. CASE ~(i <= m)
    <3> DEFINE j == i - m
    <3>1. j \in 1 .. n /\ (a + m) + j = a + i
      BY <2>2
    <3>2. (s \o t)[i] = t[j]
      BY <1>4, <2>2
    <3> HIDE DEF j
    <3>3. t[j] = (a + m) + j
      BY <1>2, <3>1
    <3>4. u[i] = a + i
      BY <1>3
    <3> QED BY <3>1, <3>2, <3>3, <3>4
  <2> QED BY <2>1, <2>2
<1>6. s \o t = u
  BY <1>3, <1>4, <1>5, SeqEqual
<1> QED BY <1>6 DEF s, t, u

LEMMA SamplesType ==
  ASSUME NEW s \in Nat, NEW a \in Nat, NEW b \in Nat, a <= b
  PROVE  /\ Samples(s, a, b) \in Seq(Sample) /\ Len(Samples(s, a, b)) = b - a
         /\ \A i \in 1 .. b - a : Samples(s, a, b)[i] = <<s, a + i>>
<1> DEFINE f == Samples(s, a, b)
<1>1. b - a \in Nat
  OBVIOUS
<1>2. f = [k \in 1 .. b - a |-> <<s, a + k>>]
  BY DEF Samples
<1>3. \A i \in 1 .. b - a : f[i] = <<s, a + i>>
  <2> HIDE DEF f
  <2> QED BY <1>2
<1>4. f \in [1 .. b - a -> Sample]
  <2>1. \A i \in 1 .. b - a : a + i \in Nat
    OBVIOUS
  <2>2. ASSUME NEW i \in 1 .. b - a PROVE f[i] \in Sample
    <3>1. <<s, a + i>> \in Sample
      BY <2>1 DEF Sample
    <3> HIDE DEF f
    <3> QED BY <1>3, <3>1
  <2> HIDE DEF f
  <2> QED BY <1>2, <2>2
<1>5. f \in Seq(Sample) /\ Len(f) = b - a
  <2> HIDE DEF f
  <2> QED BY <1>1, <1>4, SeqFromFunction
<1> QED BY <1>3, <1>5

LEMMA SamplesConcat ==
  ASSUME NEW s \in Nat, NEW a \in Nat, NEW b \in Nat, NEW c \in Nat, a <= b, b <= c
  PROVE  Samples(s, a, b) \o Samples(s, b, c) = Samples(s, a, c)
<1> DEFINE x == Samples(s, a, b)
           y == Samples(s, b, c)
           z == Samples(s, a, c)
<1>1. x \in Seq(Sample) /\ Len(x) = b - a /\ \A i \in 1 .. b - a : x[i] = <<s, a + i>>
  BY SamplesType
<1>2. y \in Seq(Sample) /\ Len(y) = c - b /\ \A i \in 1 .. c - b : y[i] = <<s, b + i>>
  BY SamplesType
<1>3. z \in Seq(Sample) /\ Len(z) = c - a /\ \A i \in 1 .. c - a : z[i] = <<s, a + i>>
  <2>1. a <= c
    OBVIOUS
  <2> QED BY <2>1, SamplesType
<1> HIDE DEF x, y, z
<1>4. /\ x \o y \in Seq(Sample) /\ Len(x \o y) = Len(x) + Len(y)
      /\ \A i \in 1 .. Len(x) + Len(y) : (x \o y)[i] = IF i <= Len(x) THEN x[i] ELSE y[i - Len(x)]
  BY <1>1, <1>2, ConcatProperties
<1>5. Len(x) + Len(y) = c - a
  BY <1>1, <1>2
<1>6. ASSUME NEW i \in 1 .. c - a PROVE (x \o y)[i] = z[i]
  <2>1. CASE i <= Len(x)
    <3>1. i \in 1 .. b - a /\ i \in 1 .. Len(x) + Len(y)
      BY <1>1, <1>5, <2>1
    <3>2. (x \o y)[i] = x[i]
      BY <1>4, <2>1, <3>1
    <3>3. x[i] = <<s, a + i>> /\ z[i] = <<s, a + i>>
      BY <1>1, <1>3, <3>1
    <3> QED BY <3>2, <3>3
  <2>2. CASE ~(i <= Len(x))
    <3> DEFINE j == i - Len(x)
    <3>1. j \in 1 .. c - b /\ b + j = a + i
      BY <1>1, <1>5, <2>2
    <3>2. (x \o y)[i] = y[j]
      BY <1>1, <1>4, <1>5, <2>2
    <3> HIDE DEF j
    <3>3. y[j] = <<s, b + j>>
      BY <1>2, <3>1
    <3> QED BY <1>3, <3>1, <3>2, <3>3
  <2> QED BY <1>1, <2>1, <2>2
<1>7. x \o y = z
  BY <1>3, <1>4, <1>5, <1>6, SeqEqual
<1> QED BY <1>7 DEF x, y, z

-----------------------------------------------------------------------------
(* The filter graph.                                                         *)

LEMMA MaxOfTwo ==
  ASSUME NEW a \in Int, NEW b \in Int
  PROVE  Max({a, b}) = IF a >= b THEN a ELSE b
<1> DEFINE m == IF a >= b THEN a ELSE b
<1>1. m \in {a, b} /\ \A y \in {a, b} : m >= y
  OBVIOUS
<1>2. \A x \in {a, b} : (\A y \in {a, b} : x >= y) => x = m
  OBVIOUS
<1> QED BY <1>1, <1>2 DEF Max

LEMMA MinOfTwo ==
  ASSUME NEW a \in Int, NEW b \in Int
  PROVE  Min({a, b}) = IF a <= b THEN a ELSE b
<1> DEFINE m == IF a <= b THEN a ELSE b
<1>1. m \in {a, b} /\ \A y \in {a, b} : m =< y
  OBVIOUS
<1>2. \A x \in {a, b} : (\A y \in {a, b} : x =< y) => x = m
  OBVIOUS
<1> QED BY <1>1, <1>2 DEF Min

LEMMA Division ==
  ASSUME NEW n \in Nat, NEW d \in Nat \ {0}
  PROVE  /\ n \div d \in Nat /\ (n \div d) * d <= n /\ n < (n \div d) * d + d
         /\ n % d = n - (n \div d) * d /\ n % d \in 0 .. d - 1
<1>1. n = d * (n \div d) + (n % d) /\ n % d \in 0 .. d - 1 /\ n \div d \in Nat
  OBVIOUS
<1>2. d * (n \div d) = (n \div d) * d /\ d * (n \div d) \in Nat
  BY <1>1
<1> QED BY <1>1, <1>2

Ratio == Nat \X (Nat \ {0})

(* Rounding up loses nothing and is monotonic.                               *)
LEMMA RoundUpType ==
  ASSUME NEW n \in Nat, NEW d \in Nat \ {0}
  PROVE  /\ RoundUp(n, d) \in Nat /\ n <= RoundUp(n, d) * d
         /\ \A m \in Nat : m <= n => RoundUp(m, d) <= RoundUp(n, d)
BY DEF RoundUp

(* What a graph makes of the next samples: at most their share, rounded up.   *)
LEMMA MadeGrows ==
  ASSUME NEW ratio \in Ratio, NEW fed \in Nat, NEW n \in Nat
  PROVE  /\ Made(ratio, fed) \in Nat /\ Made(ratio, fed + n) \in Nat
         /\ Made(ratio, fed) <= Made(ratio, fed + n)
         /\ Made(ratio, fed + n) - Made(ratio, fed) <= RoundUp(n * ratio[1], ratio[2])
<1> DEFINE a == ratio[1]
           b == ratio[2]
           x == (fed * a) \div b
           y == ((fed + n) * a) \div b
<1>1. a \in Nat /\ b \in Nat \ {0}
  BY DEF Ratio
<1>2. fed * a \in Nat /\ n * a \in Nat /\ (fed + n) * a = fed * a + n * a
  BY <1>1
<1>3. x \in Nat /\ y \in Nat /\ x <= y /\ y - x <= RoundUp(n * a, b)
  <2> DEFINE p == fed * a
             q == n * a
  <2>1. p \in Nat /\ q \in Nat /\ (fed + n) * a = p + q
    BY <1>2
  <2> HIDE DEF p, q
  <2>2. p \div b \in Nat /\ (p + q) \div b \in Nat /\ p \div b <= (p + q) \div b
    BY <1>1, <2>1
  <2>3. (p + q) \div b - p \div b <= (q + b - 1) \div b
    <3> DEFINE u == p \div b
               v == (p + q) \div b
               w == (q + b - 1) \div b
    <3>1. u \in Nat /\ v \in Nat /\ w \in Nat
      BY <1>1, <2>1
    <3>2. p < u * b + b /\ v * b <= p + q /\ q + b - 1 < w * b + b
      <4> HIDE DEF b
      <4>1. p + q \in Nat /\ q + b - 1 \in Nat
        BY <1>1, <2>1
      <4> QED BY <1>1, <2>1, <4>1, Division
    <3> HIDE DEF u, v, w
    <3>3. (v - u - 1) * b = v * b - u * b - b /\ u * b \in Nat /\ v * b \in Nat /\ w * b \in Nat
      BY <1>1, <3>1
    <3>4. (v - u - 1) * b < w * b
      BY <1>1, <2>1, <3>2, <3>3
    <3>5. v - u - 1 < w
      BY <1>1, <3>1, <3>4
    <3>6. v - u <= w
      BY <3>1, <3>5
    <3> QED BY <3>6 DEF u, v, w
  <2> QED BY <2>1, <2>2, <2>3 DEF p, q, RoundUp
<1>4. GraphDelay \in Nat
  BY ResamplerAssumption
<1>5. /\ Made(ratio, fed) = IF 0 >= x - GraphDelay THEN 0 ELSE x - GraphDelay
      /\ Made(ratio, fed + n) = IF 0 >= y - GraphDelay THEN 0 ELSE y - GraphDelay
  <2> HIDE DEF x, y
  <2>1. /\ Max({0, x - GraphDelay}) = IF 0 >= x - GraphDelay THEN 0 ELSE x - GraphDelay
        /\ Max({0, y - GraphDelay}) = IF 0 >= y - GraphDelay THEN 0 ELSE y - GraphDelay
    BY <1>3, <1>4, MaxOfTwo
  <2> QED BY <2>1 DEF x, y, Made
<1>6. RoundUp(n * a, b) \in Nat
  BY <1>1, <1>2, RoundUpType
<1> HIDE DEF x, y, a, b
<1> QED BY <1>3, <1>4, <1>5, <1>6 DEF a, b

(* The states a resampler is in between its calls and in a loop over frames.  *)
State == [song : Nat, rate : Ratio, in : Seq(Nat), out : Seq(Sample), fed : Nat, made : Nat,
          sink : Seq(Seq(Sample))]
Graph(r) ==
  /\ r \in State /\ r.made = Made(r.rate, r.fed)
  /\ \A i \in 1 .. Len(r.sink) : r.sink[i] # <<>>

(* x is r after its graph got the next n samples of the song.                *)
Advanced(r, x, n) ==
  /\ Graph(x)
  /\ x.song = r.song /\ x.rate = r.rate /\ x.in = r.in /\ x.out = r.out /\ x.fed = r.fed + n
  /\ r.made <= x.made
  /\ FlattenSeq(x.sink) = FlattenSeq(r.sink) \o Samples(r.song, r.made, x.made)

LEMMA AdvancedByNone ==
  ASSUME NEW r, Graph(r)
  PROVE  Advanced(r, r, 0)
<1>1. r.song \in Nat /\ r.made \in Nat /\ r.fed \in Nat /\ r.sink \in Seq(Seq(Sample))
  BY DEF Graph, State
<1>2. Samples(r.song, r.made, r.made) = <<>>
  <2>1. r.made - r.made = 0
    BY <1>1
  <2> QED BY <2>1 DEF Samples
<1>3. FlattenSeq(r.sink) \in Seq(Sample)
  BY <1>1, FlattenType
<1>4. FlattenSeq(r.sink) \o <<>> = FlattenSeq(r.sink)
  BY <1>3, ConcatEmptySeq
<1>5. r.fed = r.fed + 0 /\ r.made <= r.made
  BY <1>1
<1> QED BY <1>2, <1>4, <1>5 DEF Advanced

LEMMA AdvancedTwice ==
  ASSUME NEW r, NEW x, NEW y, NEW n \in Nat, NEW m \in Nat,
         Graph(r), Advanced(r, x, n), Advanced(x, y, m)
  PROVE  Advanced(r, y, n + m)
<1>1. /\ r.song \in Nat /\ r.made \in Nat /\ r.fed \in Nat /\ r.sink \in Seq(Seq(Sample))
      /\ x.made \in Nat /\ y.made \in Nat /\ x.song = r.song
      /\ r.made <= x.made /\ x.made <= y.made
  BY DEF Advanced, Graph, State
<1> DEFINE f == FlattenSeq(r.sink)
           g == Samples(r.song, r.made, x.made)
           h == Samples(r.song, x.made, y.made)
<1>2. f \in Seq(Sample) /\ g \in Seq(Sample) /\ h \in Seq(Sample)
  BY <1>1, FlattenType, SamplesType
<1>3. g \o h = Samples(r.song, r.made, y.made)
  <2>1. r.song \in Nat /\ r.made \in Nat /\ x.made \in Nat /\ y.made \in Nat
    BY <1>1
  <2>2. r.made <= x.made /\ x.made <= y.made
    BY <1>1
  <2>3. \A c1, c2, c3, c4 \in Nat : c2 <= c3 /\ c3 <= c4 => Samples(c1, c2, c3) \o Samples(c1, c3, c4) = Samples(c1, c2, c4)
    BY SamplesConcat
  <2> QED BY <2>1, <2>2, <2>3, Zenon
<1>4. FlattenSeq(y.sink) = (f \o g) \o h
  BY <1>1 DEF Advanced
<1>5. (f \o g) \o h = f \o (g \o h)
  <2> HIDE DEF f, g, h
  <2> QED BY <1>2, ConcatAssociative
<1>6. FlattenSeq(y.sink) = f \o Samples(r.song, r.made, y.made)
  BY <1>3, <1>4, <1>5
<1>7. /\ Graph(y) /\ y.song = r.song /\ y.rate = r.rate /\ y.in = r.in /\ y.out = r.out
      /\ y.fed = r.fed + n + m
  BY DEF Advanced
<1>8. r.fed + n + m = r.fed + (n + m) /\ r.made <= y.made
  BY <1>1
<1> QED BY <1>6, <1>7, <1>8 DEF Advanced

(* A frame that goes on where the graph stopped makes the samples that come next.*)
LEMMA AddFrameAdvances ==
  ASSUME NEW r, Graph(r), NEW n \in Nat
  PROVE  Advanced(r, AddFrame(r, Run(r.fed, n)), n)
<1> DEFINE frame == Run(r.fed, n)
           x == AddFrame(r, frame)
           m == Made(r.rate, r.fed + n)
           new == Samples(r.song, r.made, m)
<1>1. /\ r \in State /\ r.song \in Nat /\ r.rate \in Ratio /\ r.fed \in Nat /\ r.made \in Nat
      /\ r.sink \in Seq(Seq(Sample)) /\ r.made = Made(r.rate, r.fed)
      /\ \A i \in 1 .. Len(r.sink) : r.sink[i] # <<>>
  BY DEF Graph, State
<1>2. Len(frame) = n
  BY <1>1, RunType
<1>3. m \in Nat /\ r.made <= m
  BY <1>1, MadeGrows
<1>4. [i \in 1 .. m - r.made |-> <<r.song, r.made + i>>] = new
  BY DEF Samples
<1>5. x = [r EXCEPT !.fed = r.fed + n, !.made = m,
                    !.sink = IF new = <<>> THEN r.sink ELSE Append(r.sink, new)]
  <2>1. r.fed + Len(frame) = r.fed + n
    BY <1>2
  <2> HIDE DEF frame
  <2>2. x = [r EXCEPT !.fed = r.fed + Len(frame), !.made = Made(r.rate, r.fed + Len(frame)),
               !.sink = IF [i \in 1 .. Made(r.rate, r.fed + Len(frame)) - r.made |->
                              <<r.song, IF frame = Numbers(r.fed + 1, r.fed + Len(frame))
                                        THEN r.made + i ELSE 0>>] = <<>>
                        THEN r.sink
                        ELSE Append(r.sink, [i \in 1 .. Made(r.rate, r.fed + Len(frame)) - r.made |->
                              <<r.song, IF frame = Numbers(r.fed + 1, r.fed + Len(frame))
                                        THEN r.made + i ELSE 0>>])]
    BY DEF AddFrame
  <2>3. frame = Numbers(r.fed + 1, r.fed + Len(frame))
    BY <2>1 DEF frame, Run
  <2>4. [i \in 1 .. Made(r.rate, r.fed + Len(frame)) - r.made |->
           <<r.song, IF frame = Numbers(r.fed + 1, r.fed + Len(frame)) THEN r.made + i ELSE 0>>] = new
    <3>1. [i \in 1 .. Made(r.rate, r.fed + Len(frame)) - r.made |->
           <<r.song, IF frame = Numbers(r.fed + 1, r.fed + Len(frame)) THEN r.made + i ELSE 0>>]
           = [i \in 1 .. Made(r.rate, r.fed + Len(frame)) - r.made |-> <<r.song, r.made + i>>]
      BY <2>3
    <3> QED BY <1>4, <2>1, <3>1
  <2> QED BY <2>1, <2>2, <2>4
<1>6. new \in Seq(Sample) /\ FlattenSeq(r.sink) \in Seq(Sample)
  BY <1>1, <1>3, SamplesType, FlattenType
<1> HIDE DEF new, m, x
<1>7. /\ x.song = r.song /\ x.rate = r.rate /\ x.in = r.in /\ x.out = r.out
      /\ x.fed = r.fed + n /\ x.made = m
      /\ x.sink = IF new = <<>> THEN r.sink ELSE Append(r.sink, new)
  BY <1>1, <1>5 DEF State
<1>8. /\ x.sink \in Seq(Seq(Sample)) /\ FlattenSeq(x.sink) = FlattenSeq(r.sink) \o new
      /\ \A i \in 1 .. Len(x.sink) : x.sink[i] # <<>>
  <2>1. CASE new = <<>>
    <3>1. FlattenSeq(r.sink) \o <<>> = FlattenSeq(r.sink)
      BY <1>6, ConcatEmptySeq
    <3> QED BY <1>1, <1>7, <2>1, <3>1
  <2>2. CASE new # <<>>
    <3>1. FlattenSeq(Append(r.sink, new)) = FlattenSeq(r.sink) \o new
      BY <1>1, <1>6, FlattenAppend
    <3> DEFINE s == r.sink
               t == Append(s, new)
    <3>2. /\ t \in Seq(Seq(Sample)) /\ Len(t) = Len(s) + 1
          /\ \A i \in 1 .. Len(s) : t[i] = s[i]
          /\ t[Len(s) + 1] = new
      <4> HIDE DEF s
      <4>1. s \in Seq(Seq(Sample))
        BY <1>1 DEF s
      <4> QED BY <1>6, <4>1, AppendProperties
    <3>3. x.sink = t
      BY <1>7, <2>2
    <3>4. \A i \in 1 .. Len(t) : t[i] # <<>>
      <4>1. Len(s) \in Nat
        BY <1>1
      <4>2. \A i \in 1 .. Len(t) : i \in 1 .. Len(s) \/ i = Len(s) + 1
        BY <3>2, <4>1
      <4> HIDE DEF t
      <4> QED BY <1>1, <2>2, <3>2, <4>2
    <3> QED BY <3>1, <3>2, <3>3, <3>4
  <2> QED BY <2>1, <2>2
<1>9. x \in State
  <2>1. r.fed + n \in Nat
    BY <1>1
  <2> DEFINE f == r.fed + n
             t == IF new = <<>> THEN r.sink ELSE Append(r.sink, new)
  <2>2. x = [r EXCEPT !.fed = f, !.made = m, !.sink = t]
    BY <1>5
  <2>3. f \in Nat /\ m \in Nat /\ t \in Seq(Seq(Sample))
    BY <1>3, <1>7, <1>8, <2>1
  <2> HIDE DEF f, t
  <2> QED BY <1>1, <2>2, <2>3 DEF State
<1>10. Graph(x)
  BY <1>7, <1>8, <1>9 DEF Graph, m
<1>11. Advanced(r, x, n)
  BY <1>3, <1>7, <1>8, <1>10 DEF Advanced, new
<1> QED BY <1>11 DEF x

-----------------------------------------------------------------------------
(* A recursive function that counts from 0: its first value and its steps.    *)

IsFed(f, r, all, n) ==
  f = [i \in 0 .. n |->
         IF i = 0 THEN r
         ELSE AddFrame(f[i - 1], SubSeq(all, (i - 1) * FRAME_SIZE + 1, i * FRAME_SIZE))]

LEMMA FedExists ==
  ASSUME NEW r, NEW all, NEW n \in Nat
  PROVE  \E f : IsFed(f, r, all, n)
<1> DEFINE T == {k \in Nat : \E f : IsFed(f, r, all, k)}
           Frame(i) == SubSeq(all, (i - 1) * FRAME_SIZE + 1, i * FRAME_SIZE)
<1>1. 0 \in T
  <2>1. IsFed([i \in 0 .. 0 |-> r], r, all, 0)
    BY DEF IsFed
  <2> QED BY <2>1
<1>2. ASSUME NEW k \in T PROVE k + 1 \in T
  <2>1. PICK f : IsFed(f, r, all, k)
    OBVIOUS
  <2> DEFINE g == [i \in 0 .. k + 1 |->
                     IF i <= k THEN f[i] ELSE AddFrame(f[i - 1], Frame(i))]
  <2>2. ASSUME NEW i \in 0 .. k + 1
        PROVE  g[i] = IF i = 0 THEN r ELSE AddFrame(g[i - 1], Frame(i))
    <3>1. i \in Int /\ k \in Nat
      OBVIOUS
    <3>2. CASE i <= k
      <4>1. i \in 0 .. k /\ (i # 0 => i - 1 \in 0 .. k + 1 /\ i - 1 <= k)
        BY <3>1, <3>2
      <4>2. f[i] = IF i = 0 THEN r ELSE AddFrame(f[i - 1], Frame(i))
        BY <2>1, <4>1, Zenon DEF IsFed
      <4> QED BY <3>2, <4>1, <4>2, Zenon
    <3>3. CASE ~(i <= k)
      <4>1. i # 0 /\ i - 1 \in 0 .. k + 1 /\ i - 1 <= k
        BY <3>1, <3>3
      <4> QED BY <3>3, <4>1, Zenon
    <3> QED BY <3>2, <3>3
  <2>3. IsFed(g, r, all, k + 1)
    BY <2>2, Zenon DEF IsFed
  <2> QED BY <2>3
<1>3. T = Nat
  <2> HIDE DEF T
  <2>1. T \in SUBSET Nat BY DEF T
  <2> QED BY <2>1, <1>1, <1>2, SetInduction
<1> QED BY <1>3

LEMMA FedValue ==
  ASSUME NEW r, NEW all, Len(all) \in Nat
  PROVE  LET n == Len(all) \div FRAME_SIZE
         IN  /\ n \in Nat /\ Fed(r, all)[0] = r
             /\ \A i \in 1 .. n : Fed(r, all)[i] =
                  AddFrame(Fed(r, all)[i - 1],
                           SubSeq(all, (i - 1) * FRAME_SIZE + 1, i * FRAME_SIZE))
<1> DEFINE n == Len(all) \div FRAME_SIZE
           f == CHOOSE f : f = [i \in 0 .. Len(all) \div FRAME_SIZE |->
                  IF i = 0 THEN r
                  ELSE AddFrame(f[i - 1], SubSeq(all, (i - 1) * FRAME_SIZE + 1, i * FRAME_SIZE))]
<1>1. n \in Nat
  BY ResamplerAssumption
<1>2. IsFed(f, r, all, n)
  BY <1>1, FedExists DEF IsFed
<1>3. Fed(r, all) = f
  BY DEF Fed
<1> HIDE DEF f
<1>4. 0 \in 0 .. n /\ \A i \in 1 .. n : i \in 0 .. n /\ i # 0
  BY <1>1
<1>5. /\ f[0] = r
      /\ \A i \in 1 .. n : f[i] = AddFrame(f[i - 1], SubSeq(all, (i - 1) * FRAME_SIZE + 1, i * FRAME_SIZE))
  <2> HIDE DEF n
  <2> QED BY <1>2, <1>4, Zenon DEF IsFed
<1> QED BY <1>1, <1>3, <1>5

(* Frame after frame, what comes after what the graph had makes what comes     *)
(* after what it made.                                                       *)
LEMMA FedAdvances ==
  ASSUME NEW r, Graph(r), NEW n \in Nat
  PROVE  \A i \in 0 .. n \div FRAME_SIZE :
           Advanced(r, Fed(r, Run(r.fed, n))[i], i * FRAME_SIZE)
<1> DEFINE all == Run(r.fed, n)
           frames == n \div FRAME_SIZE
           f == Fed(r, all)
           T == {i \in Nat : i \in 0 .. frames => Advanced(r, f[i], i * FRAME_SIZE)}
<1>1. r.fed \in Nat /\ FRAME_SIZE \in Nat \ {0}
  BY ResamplerAssumption DEF Graph, State
<1>2. Len(all) = n
  BY <1>1, RunType
<1>3. /\ frames \in Nat /\ f[0] = r
      /\ \A i \in 1 .. frames :
           f[i] = AddFrame(f[i - 1], SubSeq(all, (i - 1) * FRAME_SIZE + 1, i * FRAME_SIZE))
  <2> HIDE DEF all
  <2>1. Len(all) \in Nat
    BY <1>2
  <2>2. LET k == Len(all) \div FRAME_SIZE
        IN  /\ k \in Nat /\ f[0] = r
            /\ \A i \in 1 .. k :
                 f[i] = AddFrame(f[i - 1], SubSeq(all, (i - 1) * FRAME_SIZE + 1, i * FRAME_SIZE))
    BY <2>1, FedValue, ZenonT(30)
  <2> QED BY <1>2, <2>2
<1>4. frames * FRAME_SIZE <= n
  BY <1>1, Division
<1> HIDE DEF f, all, frames
<1>5. 0 \in T
  <2>1. 0 * FRAME_SIZE = 0
    BY <1>1
  <2> QED BY <1>3, <2>1, AdvancedByNone
<1>6. ASSUME NEW i \in T PROVE i + 1 \in T
  <2>1. SUFFICES ASSUME i + 1 \in 0 .. frames
                 PROVE  Advanced(r, f[i + 1], (i + 1) * FRAME_SIZE)
    OBVIOUS
  <2> DEFINE m == i * FRAME_SIZE
             x == f[i]
  <2>2. i \in Nat /\ i \in 0 .. frames /\ i + 1 \in 1 .. frames /\ i + 1 - 1 = i
    BY <1>3, <2>1
  <2>3. Advanced(r, x, m)
    BY <2>2
  <2>4. m \in Nat /\ (i + 1) * FRAME_SIZE = m + FRAME_SIZE /\ m + FRAME_SIZE <= n
    <3>1. i * FRAME_SIZE \in Nat /\ (i + 1) * FRAME_SIZE = i * FRAME_SIZE + FRAME_SIZE
      BY <1>1, <2>2
    <3>2. (i + 1) * FRAME_SIZE <= frames * FRAME_SIZE
      BY <1>1, <1>3, <2>2
    <3>3. frames * FRAME_SIZE \in Nat
      BY <1>1, <1>3
    <3> QED BY <1>1, <1>4, <3>1, <3>2, <3>3
  <2>5. f[i + 1] = AddFrame(x, Part(all, m, FRAME_SIZE))
    BY <1>3, <2>2, <2>4 DEF Part
  <2> HIDE DEF m, x
  <2>6. Graph(x) /\ x.fed = r.fed + m
    BY <2>3 DEF Advanced
  <2>7. FRAME_SIZE \in Nat
    BY <1>1
  <2>8. Advanced(x, f[i + 1], FRAME_SIZE)
    <3>1. Part(all, m, FRAME_SIZE) = Run(r.fed + m, FRAME_SIZE)
      <4>1. \A d \in Nat : Part(Run(d, n), m, FRAME_SIZE) = Run(d + m, FRAME_SIZE)
        BY <2>4, <2>7, RunPart
      <4> QED BY <1>1, <4>1, Zenon DEF all
    <3> QED BY <2>5, <2>6, <2>7, <3>1, AddFrameAdvances
  <2>9. Advanced(r, f[i + 1], m + FRAME_SIZE)
    BY <2>3, <2>4, <2>7, <2>8, AdvancedTwice
  <2> QED BY <2>4, <2>9
<1>7. T = Nat
  <2>1. T \in SUBSET Nat
    OBVIOUS
  <2> HIDE DEF T
  <2> QED BY <2>1, <1>5, <1>6, SetInduction
<1>8. \A i \in 0 .. frames : Advanced(r, f[i], i * FRAME_SIZE)
  BY <1>3, <1>7
<1> QED BY <1>8 DEF f, all, frames

(* Consume: whole frames of what waited and what came are fed, the rest waits. *)
Whole(n) == (n \div FRAME_SIZE) * FRAME_SIZE

LEMMA WholeType ==
  ASSUME NEW n \in Nat
  PROVE  Whole(n) \in Nat /\ Whole(n) <= n /\ n - Whole(n) \in 0 .. FRAME_SIZE - 1
<1>1. FRAME_SIZE \in Nat \ {0}
  BY ResamplerAssumption
<1>2. n \div FRAME_SIZE \in Nat /\ n % FRAME_SIZE \in 0 .. FRAME_SIZE - 1
      /\ n % FRAME_SIZE = n - (n \div FRAME_SIZE) * FRAME_SIZE
      /\ (n \div FRAME_SIZE) * FRAME_SIZE <= n
  BY <1>1, Division
<1>3. (n \div FRAME_SIZE) * FRAME_SIZE \in Nat
  BY <1>1, <1>2
<1> QED BY <1>2, <1>3 DEF Whole

LEMMA ConsumeAdvances ==
  ASSUME NEW r, Graph(r), NEW k \in Nat, NEW n \in Nat, r.in = Run(r.fed, k)
  PROVE  LET x == Consume(r, Run(r.fed + k, n))
         IN  /\ Graph(x) /\ x.song = r.song /\ x.rate = r.rate /\ x.out = r.out
             /\ x.fed = r.fed + Whole(k + n)
             /\ x.in = Run(r.fed + Whole(k + n), (k + n) - Whole(k + n))
             /\ r.made <= x.made
             /\ FlattenSeq(x.sink) = FlattenSeq(r.sink) \o Samples(r.song, r.made, x.made)
<1> DEFINE all == Run(r.fed, k + n)
           frames == (k + n) \div FRAME_SIZE
           y == Fed(r, all)[frames]
           x == Consume(r, Run(r.fed + k, n))
           rest == Run(r.fed + Whole(k + n), (k + n) - Whole(k + n))
<1>1. r.fed \in Nat /\ r \in State /\ k + n \in Nat
  BY DEF Graph, State
<1>2. r.in \o Run(r.fed + k, n) = all
  <2>1. \A d \in Nat : Run(d, k) \o Run(d + k, n) = Run(d, k + n)
    BY RunConcat
  <2> QED BY <1>1, <2>1, Zenon
<1>3. Len(all) = k + n /\ all \in Seq(Nat)
  BY <1>1, RunType
<1>4. Advanced(r, y, Whole(k + n))
  <2> HIDE DEF y
  <2>1. \A i \in 0 .. frames : Advanced(r, Fed(r, all)[i], i * FRAME_SIZE)
    BY <1>1, FedAdvances
  <2>2. frames \in 0 .. frames
    BY <1>1, ResamplerAssumption
  <2> QED BY <2>1, <2>2 DEF y, Whole
<1>5. SubSeq(all, frames * FRAME_SIZE + 1, k + n) = rest
  <2> DEFINE w == Whole(k + n)
             q == (k + n) - w
  <2>1. w \in Nat /\ q \in Nat /\ w + q = k + n
    BY <1>1, WholeType
  <2> HIDE DEF w, q, all
  <2>2. SubSeq(all, frames * FRAME_SIZE + 1, k + n) = Part(all, w, q)
    BY <2>1 DEF w, Whole, Part
  <2>3. Part(all, w, q) = Run(r.fed + w, q)
    <3>1. \A d \in Nat : Part(Run(d, k + n), w, q) = Run(d + w, q)
      BY <1>1, <2>1, RunPart
    <3> QED BY <1>1, <3>1, Zenon DEF all
  <2> QED BY <2>2, <2>3 DEF w, q
<1>6. x = [y EXCEPT !.in = rest]
  <2> HIDE DEF all, rest
  <2> QED BY <1>2, <1>3, <1>5, Zenon DEF Consume
<1>7. rest \in Seq(Nat)
  <2> DEFINE w == Whole(k + n)
             q == (k + n) - w
             d == r.fed + w
  <2>1. d \in Nat /\ q \in Nat
    BY <1>1, WholeType
  <2> HIDE DEF w, q, d
  <2>2. Run(d, q) \in Seq(Nat)
    BY <2>1, RunType
  <2> QED BY <2>2 DEF w, q, d
<1> HIDE DEF x, y, rest, all, frames
<1>8. y \in State /\ Graph(y)
  BY <1>4 DEF Advanced, Graph
<1>9. /\ x \in State /\ x.song = y.song /\ x.rate = y.rate /\ x.out = y.out /\ x.fed = y.fed
      /\ x.made = y.made /\ x.sink = y.sink /\ x.in = rest
  BY <1>6, <1>7, <1>8 DEF State
<1>10. Graph(x)
  BY <1>8, <1>9 DEF Graph
<1>11. /\ y.song = r.song /\ y.rate = r.rate /\ y.out = r.out /\ y.fed = r.fed + Whole(k + n)
       /\ r.made <= y.made
       /\ FlattenSeq(y.sink) = FlattenSeq(r.sink) \o Samples(r.song, r.made, y.made)
  BY <1>4 DEF Advanced
<1> QED BY <1>9, <1>10, <1>11 DEF x, rest

(* The loop that takes frames from the sink.                                  *)
Start(x, room) == [data |-> x.out, out |-> <<>>, room |-> room, sink |-> <<>>]
IsTaken(f, x, room, n) ==
  f = [i \in 0 .. n |-> IF i = 0 THEN Start(x, room) ELSE TakeFrame(f[i - 1], x.sink[i])]

LEMMA TakenExists ==
  ASSUME NEW x, NEW room, NEW n \in Nat
  PROVE  \E f : IsTaken(f, x, room, n)
<1> DEFINE T == {k \in Nat : \E f : IsTaken(f, x, room, k)}
<1>1. 0 \in T
  <2>1. IsTaken([i \in 0 .. 0 |-> Start(x, room)], x, room, 0)
    BY DEF IsTaken
  <2> QED BY <2>1
<1>2. ASSUME NEW k \in T PROVE k + 1 \in T
  <2>1. PICK f : IsTaken(f, x, room, k)
    OBVIOUS
  <2> DEFINE g == [i \in 0 .. k + 1 |-> IF i <= k THEN f[i] ELSE TakeFrame(f[i - 1], x.sink[i])]
  <2>2. ASSUME NEW i \in 0 .. k + 1
        PROVE  g[i] = IF i = 0 THEN Start(x, room) ELSE TakeFrame(g[i - 1], x.sink[i])
    <3>1. i \in Int /\ k \in Nat
      OBVIOUS
    <3>2. CASE i <= k
      <4>1. i \in 0 .. k /\ (i # 0 => i - 1 \in 0 .. k + 1 /\ i - 1 <= k)
        BY <3>1, <3>2
      <4>2. f[i] = IF i = 0 THEN Start(x, room) ELSE TakeFrame(f[i - 1], x.sink[i])
        BY <2>1, <4>1, Zenon DEF IsTaken
      <4> QED BY <3>2, <4>1, <4>2, Zenon
    <3>3. CASE ~(i <= k)
      <4>1. i # 0 /\ i - 1 \in 0 .. k + 1 /\ i - 1 <= k
        BY <3>1, <3>3
      <4> QED BY <3>3, <4>1, Zenon
    <3> QED BY <3>2, <3>3
  <2>3. IsTaken(g, x, room, k + 1)
    BY <2>2, Zenon DEF IsTaken
  <2> QED BY <2>3
<1>3. T = Nat
  <2> HIDE DEF T
  <2>1. T \in SUBSET Nat BY DEF T
  <2> QED BY <2>1, <1>1, <1>2, SetInduction
<1> QED BY <1>3

LEMMA TakenValue ==
  ASSUME NEW x, NEW room, Len(x.sink) \in Nat
  PROVE  /\ Taken(x, room)[0] = Start(x, room)
         /\ \A i \in 1 .. Len(x.sink) :
              Taken(x, room)[i] = TakeFrame(Taken(x, room)[i - 1], x.sink[i])
<1> DEFINE f == CHOOSE f : f = [i \in 0 .. Len(x.sink) |->
                  IF i = 0 THEN [data |-> x.out, out |-> <<>>, room |-> room, sink |-> <<>>]
                  ELSE TakeFrame(f[i - 1], x.sink[i])]
<1>1. IsTaken(f, x, room, Len(x.sink))
  <2>1. \E g : IsTaken(g, x, room, Len(x.sink))
    BY TakenExists
  <2> QED BY <2>1, Zenon DEF IsTaken, Start
<1>2. Taken(x, room) = f
  BY DEF Taken
<1> HIDE DEF f
<1>3. 0 \in 0 .. Len(x.sink) /\ \A i \in 1 .. Len(x.sink) : i \in 0 .. Len(x.sink) /\ i # 0
  OBVIOUS
<1>4. /\ f[0] = Start(x, room)
      /\ \A i \in 1 .. Len(x.sink) : f[i] = TakeFrame(f[i - 1], x.sink[i])
  BY <1>1, <1>3, Zenon DEF IsTaken
<1> QED BY <1>2, <1>4

(* While there is room a frame is taken whole.                                *)
LEMMA TakeFrameWhole ==
  ASSUME NEW acc, NEW frame \in Seq(Sample), NEW data \in Seq(Sample), NEW room \in Nat,
         acc = [data |-> data, out |-> <<>>, room |-> room, sink |-> <<>>],
         frame # <<>>, Len(frame) <= room
  PROVE  TakeFrame(acc, frame) =
           [data |-> data \o frame, out |-> <<>>, room |-> room - Len(frame), sink |-> <<>>]
<1>1. Len(frame) \in Nat /\ Len(frame) > 0
  OBVIOUS
<1>2. acc.room = room /\ acc.room # 0 /\ acc.data = data /\ acc.out = <<>>
  BY <1>1
<1> DEFINE n == IF acc.room < Len(frame) THEN acc.room ELSE Len(frame)
<1>3. n = Len(frame) /\ ~(n < Len(frame))
  BY <1>1, <1>2
<1>4. SubSeq(frame, 1, Len(frame)) = frame
  BY SubSeqFull
<1>5. TakeFrame(acc, frame) =
        [acc EXCEPT !.data = acc.data \o SubSeq(frame, 1, n),
                    !.out = IF n < Len(frame) THEN SubSeq(frame, n + 1, Len(frame)) ELSE acc.out,
                    !.room = acc.room - n]
  BY <1>2, Zenon DEF TakeFrame
<1> HIDE DEF n
<1>6. TakeFrame(acc, frame) =
        [acc EXCEPT !.data = data \o frame, !.out = <<>>, !.room = room - Len(frame)]
  BY <1>2, <1>3, <1>4, <1>5
<1> QED BY <1>6

LEMMA TakenWhole ==
  ASSUME NEW x \in State, \A i \in 1 .. Len(x.sink) : x.sink[i] # <<>>,
         NEW room \in Nat, Len(FlattenSeq(x.sink)) <= room
  PROVE  LET t == Taken(x, room)[Len(x.sink)]
         IN  t.data = x.out \o FlattenSeq(x.sink) /\ t.out = <<>> /\ t.sink = <<>>
<1> DEFINE s == x.sink
           out == x.out
           f == Taken(x, room)
           Pre(i) == SubSeq(s, 1, i)
           flat(i) == FlattenSeq(Pre(i))
           Q(i) == f[i] = [data |-> out \o flat(i), out |-> <<>>,
                           room |-> room - Len(flat(i)), sink |-> <<>>]
           T == {i \in Nat : i <= Len(s) => Q(i)}
<1>1. /\ s \in Seq(Seq(Sample)) /\ out \in Seq(Sample) /\ Len(s) \in Nat
      /\ \A i \in 1 .. Len(s) : s[i] # <<>>
  BY DEF State
<1>2. /\ f[0] = Start(x, room)
      /\ \A i \in 1 .. Len(s) : f[i] = TakeFrame(f[i - 1], s[i])
  <2>1. Len(x.sink) \in Nat
    BY <1>1
  <2> QED BY <2>1, TakenValue
<1>3. Len(FlattenSeq(s)) <= room /\ FlattenSeq(s) \in Seq(Sample)
  BY <1>1, FlattenType
<1>4. f[0] = [data |-> out, out |-> <<>>, room |-> room, sink |-> <<>>]
  BY <1>2 DEF Start
<1> HIDE DEF s, out, f
<1>5. ASSUME NEW i \in 0 .. Len(s)
      PROVE  /\ Pre(i) \in Seq(Seq(Sample)) /\ flat(i) \in Seq(Sample) /\ Len(flat(i)) <= room
             /\ Len(flat(i)) \in Nat
  <2>1. Pre(i) \in Seq(Seq(Sample))
    BY <1>1, SubSeqProperties
  <2>2. flat(i) \in Seq(Sample)
    BY <2>1, FlattenType
  <2> DEFINE u == SubSeq(s, i + 1, Len(s))
  <2>3. u \in Seq(Seq(Sample)) /\ s = Pre(i) \o u
    <3>1. u \in Seq(Seq(Sample))
      BY <1>1, SubSeqProperties
    <3> DEFINE p == Pre(i)
               whole == SubSeq(s, 1, Len(s))
    <3>2. p \o u = whole
      <4>1. 1 \in 1 .. Len(s) + 1 /\ i \in 1 - 1 .. Len(s) /\ Len(s) \in i .. Len(s)
        BY <1>1
      <4> QED BY <1>1, <4>1, ConcatAdjacentSubSeq
    <3>3. whole = s
      BY <1>1, SubSeqFull
    <3> HIDE DEF p, u, whole
    <3>4. s = p \o u
      BY <3>2, <3>3
    <3> QED BY <3>1, <3>4 DEF p
  <2>4. FlattenSeq(s) = flat(i) \o FlattenSeq(u)
    <3> HIDE DEF Pre, u
    <3> QED BY <2>1, <2>3, FlattenConcat
  <2>5. FlattenSeq(u) \in Seq(Sample)
    BY <2>3, FlattenType
  <2>6. Len(FlattenSeq(s)) = Len(flat(i)) + Len(FlattenSeq(u))
    BY <2>2, <2>4, <2>5, ConcatProperties
  <2>7. Len(FlattenSeq(u)) \in Nat /\ Len(flat(i)) \in Nat
    BY <2>2, <2>5
  <2> HIDE DEF flat, Pre, u
  <2> QED BY <1>3, <2>1, <2>2, <2>6, <2>7
<1>6. Q(0)
  <2>1. flat(0) = <<>>
    <3>1. Pre(0) = <<>>
      BY SubSeqEmpty
    <3> QED BY <3>1, FlattenEmpty
  <2>2. out \o <<>> = out
    BY <1>1, ConcatEmptySeq
  <2> HIDE DEF flat
  <2>3. room - Len(flat(0)) = room
    BY <2>1
  <2> QED BY <1>4, <2>1, <2>2, <2>3
<1>7. ASSUME NEW i \in Nat, i + 1 <= Len(s), Q(i) PROVE Q(i + 1)
  <2>1. i + 1 \in 1 .. Len(s) /\ i + 1 - 1 = i /\ i \in 0 .. Len(s) /\ i + 1 \in 0 .. Len(s)
    BY <1>1, <1>7
  <2> DEFINE frame == s[i + 1]
  <2>2. frame \in Seq(Sample) /\ frame # <<>> /\ Len(frame) \in Nat
    BY <1>1, <2>1
  <2>3. flat(i + 1) = flat(i) \o frame
    <3>1. Pre(i + 1) = Append(Pre(i), frame)
      <4>1. Pre(i) \in Seq(Seq(Sample)) /\ Pre(i + 1) \in Seq(Seq(Sample))
        BY <1>5, <2>1
      <4>2. /\ Len(Pre(i)) = i /\ Len(Pre(i + 1)) = i + 1
            /\ \A j \in 1 .. i : Pre(i)[j] = s[j]
            /\ \A j \in 1 .. i + 1 : Pre(i + 1)[j] = s[j]
        BY <1>1, <2>1
      <4>3. (\A j \in 1 .. i : Pre(i + 1)[j] = Pre(i)[j]) /\ Pre(i + 1)[i + 1] = frame
        BY <4>2
      <4> DEFINE p == Pre(i)
                 q == Pre(i + 1)
      <4>4. p \in Seq(Seq(Sample)) /\ q \in Seq(Seq(Sample)) /\ Len(q) = Len(p) + 1 /\ Len(q) = i + 1
            /\ (\A j \in 1 .. Len(p) : q[j] = p[j]) /\ q[i + 1] = frame
        BY <4>1, <4>2, <4>3
      <4> HIDE DEF p, q
      <4>5. q = Append(p, q[Len(q)])
        BY <4>4, AppendIs
      <4> QED BY <4>4, <4>5 DEF p, q
    <3>2. Pre(i) \in Seq(Seq(Sample))
      BY <1>5, <2>1
    <3> HIDE DEF Pre, frame
    <3> QED BY <2>2, <3>1, <3>2, FlattenAppend
  <2>4. /\ flat(i) \in Seq(Sample) /\ flat(i + 1) \in Seq(Sample)
        /\ Len(flat(i)) \in Nat /\ Len(flat(i + 1)) \in Nat /\ Len(flat(i)) <= room /\ Len(flat(i + 1)) <= room
    BY <1>5, <2>1
  <2> HIDE DEF flat, frame
  <2>5. Len(flat(i + 1)) = Len(flat(i)) + Len(frame)
    BY <2>2, <2>3, <2>4, ConcatProperties
  <2>5a. room - Len(flat(i)) - Len(frame) = room - Len(flat(i + 1))
    <3> DEFINE c == Len(flat(i))
               d == Len(flat(i + 1))
               e == Len(frame)
    <3>1. c \in Nat /\ d \in Nat /\ e \in Nat /\ d = c + e
      BY <2>2, <2>4, <2>5
    <3> HIDE DEF c, d, e
    <3>2. room - c - e = room - d
      BY <3>1
    <3> QED BY <3>2 DEF c, d, e
  <2>5b. (out \o flat(i)) \o frame = out \o flat(i + 1)
    <3>1. (out \o flat(i)) \o frame = out \o (flat(i) \o frame)
      <4> DEFINE g == flat(i)
      <4>1. g \in Seq(Sample)
        BY <2>4
      <4> HIDE DEF g
      <4>2. (out \o g) \o frame = out \o (g \o frame)
        BY <1>1, <2>2, <4>1, ConcatAssociative
      <4> QED BY <4>2 DEF g
    <3> QED BY <2>3, <3>1
  <2> DEFINE d == out \o flat(i)
             rest == room - Len(flat(i))
  <2>6. d \in Seq(Sample) /\ rest \in Nat /\ Len(frame) <= rest
    BY <1>1, <2>2, <2>4, <2>5, ConcatProperties
  <2>7. f[i] = [data |-> d, out |-> <<>>, room |-> rest, sink |-> <<>>]
    BY <1>7
  <2> HIDE DEF d, rest
  <2>8. TakeFrame(f[i], frame) =
          [data |-> d \o frame, out |-> <<>>, room |-> rest - Len(frame), sink |-> <<>>]
    BY <2>2, <2>6, <2>7, TakeFrameWhole
  <2>9. f[i + 1] = TakeFrame(f[i], frame)
    BY <1>2, <2>1 DEF frame
  <2>10. d \o frame = out \o flat(i + 1)
    BY <2>5b DEF d
  <2>11. rest - Len(frame) = room - Len(flat(i + 1))
    BY <2>5a DEF rest
  <2> QED BY <2>8, <2>9, <2>10, <2>11
<1>8. T = Nat
  <2> HIDE DEF Q
  <2>1. 0 \in T
    BY <1>6
  <2>2. ASSUME NEW i \in T PROVE i + 1 \in T
    <3>1. i \in Nat /\ (i <= Len(s) => Q(i))
      OBVIOUS
    <3> QED BY <1>1, <1>7, <3>1
  <2>3. T \in SUBSET Nat
    OBVIOUS
  <2> HIDE DEF T
  <2> QED BY <2>1, <2>2, <2>3, SetInduction
<1>9. Q(Len(s))
  <2> HIDE DEF Q
  <2> QED BY <1>1, <1>8
<1>10. flat(Len(s)) = FlattenSeq(s)
  <2>1. Pre(Len(s)) = s
    BY <1>1, SubSeqFull
  <2> HIDE DEF Pre
  <2> QED BY <2>1
<1> HIDE DEF flat
<1>11. f[Len(s)].data = out \o flat(Len(s)) /\ f[Len(s)].out = <<>> /\ f[Len(s)].sink = <<>>
  BY <1>9
<1> QED BY <1>10, <1>11 DEF f, s, out

LEMMA EmptySeqs == <<>> \in Seq(Sample) /\ <<>> \in Seq(Nat) /\ <<>> \in Seq(Seq(Sample))
OBVIOUS

LEMMA SamplesJoin ==
  ASSUME NEW a \in Seq(Sample), NEW b \in Seq(Sample)
  PROVE  a \o b \in Seq(Sample) /\ Len(a \o b) = Len(a) + Len(b) /\ Len(a) \in Nat /\ Len(b) \in Nat
BY ConcatProperties

LEMMA SamplesAssociate ==
  ASSUME NEW a \in Seq(Sample), NEW b \in Seq(Sample), NEW c \in Seq(Sample)
  PROVE  (a \o b) \o c = a \o (b \o c)
BY ConcatAssociative

LEMMA AppendSamples ==
  ASSUME NEW out \in Seq(Sample), NEW s \in Nat, NEW a \in Nat, NEW b \in Nat, a <= b
  PROVE  out \o Samples(s, a, b) \in Seq(Sample) /\ Len(out \o Samples(s, a, b)) = Len(out) + (b - a)
<1> DEFINE f == Samples(s, a, b)
<1>1. f \in Seq(Sample) /\ Len(f) = b - a
  BY SamplesType
<1> HIDE DEF f
<1>2. out \o f \in Seq(Sample) /\ Len(out \o f) = Len(out) + Len(f)
  BY <1>1, ConcatProperties
<1> QED BY <1>1, <1>2 DEF f

(* A resampler between its calls, with k samples in inputBuffer.               *)
Waiting(r, k) == Graph(r) /\ r.sink = <<>> /\ r.in = Run(r.fed, k)

(* What resample does to it, for n samples.                                   *)
Resampled(r, k, n) ==
  LET room == CalculateDstSamplesNumber(r, n)
      result == Resample(r, Run(r.fed + k, n), room)
      x == result.resampler
  IN  /\ Graph(x) /\ x.song = r.song /\ x.rate = r.rate /\ x.out = <<>> /\ x.sink = <<>>
      /\ x.fed = r.fed + Whole(k + n)
      /\ x.in = Run(r.fed + Whole(k + n), (k + n) - Whole(k + n))
      /\ r.made <= x.made /\ x.made - r.made <= RoundUp(Whole(k + n) * r.rate[1], r.rate[2])
      /\ result.data = r.out \o Samples(r.song, r.made, x.made)
      /\ Len(result.data) <= room

(* What setInputFormat does to it, for song s and its ratio.                  *)
Formatted(r, k, s, ratio) ==
  LET x == SetInputFormat(r, s, ratio)
  IN  /\ Graph(x) /\ x.song = s /\ x.rate = ratio /\ x.in = <<>> /\ x.fed = 0 /\ x.made = 0
      /\ x.sink = <<>> /\ Flush(r).made \in Nat /\ r.made <= Flush(r).made
      /\ Flush(r).made - r.made <= RoundUp(k * r.rate[1], r.rate[2])
      /\ x.out = r.out \o Samples(r.song, r.made, Flush(r).made)

(* resample: with the room that calculateDstSamplesNumber asks for, what the   *)
(* graph makes of the whole frames follows what outputBuffer held, nothing is  *)
(* left at the sink or in outputBuffer, and the room suffices.                *)
LEMMA ResampleCorrect ==
  ASSUME NEW r, NEW k \in Nat, NEW n \in Nat, Waiting(r, k)
  PROVE  Resampled(r, k, n)
<1> USE DEF Waiting
<1> DEFINE room == CalculateDstSamplesNumber(r, n)
           src == Run(r.fed + k, n)
           result == Resample(r, src, room)
           x == result.resampler
           y == Consume(r, src)
           t == Taken(y, room)[Len(y.sink)]
           w == Whole(k + n)
           new == Samples(r.song, r.made, y.made)
           share == RoundUp(w * r.rate[1], r.rate[2])
<1>1. /\ r \in State /\ r.fed \in Nat /\ r.made \in Nat /\ r.song \in Nat /\ r.rate \in Ratio
      /\ r.out \in Seq(Sample) /\ r.made = Made(r.rate, r.fed)
  BY DEF Graph, State
<1>2. w \in Nat /\ w <= k + n
  <2> DEFINE m == k + n
  <2>1. m \in Nat
    OBVIOUS
  <2> HIDE DEF m
  <2>2. Whole(m) \in Nat /\ Whole(m) <= m
    BY <2>1, WholeType
  <2> QED BY <2>2 DEF m
<1>3. /\ Graph(y) /\ y.song = r.song /\ y.rate = r.rate /\ y.out = r.out /\ y.fed = r.fed + w
      /\ y.in = Run(r.fed + w, (k + n) - w) /\ r.made <= y.made
      /\ FlattenSeq(y.sink) = FlattenSeq(r.sink) \o new
  <2> HIDE DEF y, w, new
  <2> QED BY ConsumeAdvances DEF y, w, new
<1>4. y.made \in Nat /\ y.made = Made(r.rate, r.fed + w) /\ y \in State
  <2> HIDE DEF y, w
  <2> QED BY <1>3 DEF Graph, State
<1>5. y.made - r.made <= share
  <2> HIDE DEF y
  <2> QED BY <1>1, <1>2, <1>4, MadeGrows
<1>6. FlattenSeq(y.sink) = new
  <2>1. new \in Seq(Sample)
    <3> HIDE DEF y
    <3> QED BY <1>1, <1>3, <1>4, SamplesType
  <2> HIDE DEF y, new
  <2> QED BY <1>3, <2>1, FlattenEmpty, ConcatEmptySeq
<1>7. Len(r.in) = k
  <2>1. \A d \in Nat : Len(Run(d, k)) = k
    BY RunType
  <2> QED BY <1>1, <2>1, Zenon
<1>8. room = share + Len(r.out)
  BY <1>7 DEF CalculateDstSamplesNumber, Whole
<1>9. Len(new) = y.made - r.made /\ Len(r.out \o new) = Len(r.out) + (y.made - r.made)
  <2> DEFINE c == r.song
             d == r.made
             e == y.made
             out == r.out
  <2>1. c \in Nat /\ d \in Nat /\ e \in Nat /\ d <= e /\ out \in Seq(Sample)
    BY <1>1, <1>3, <1>4
  <2> HIDE DEF c, d, e, out
  <2>2. Len(Samples(c, d, e)) = e - d
    BY <2>1, SamplesType
  <2>3. Len(out \o Samples(c, d, e)) = Len(out) + (e - d)
    BY <2>1, AppendSamples
  <2> QED BY <2>2, <2>3 DEF c, d, e, out
<1>10. /\ room \in Nat /\ Len(FlattenSeq(y.sink)) <= room /\ Len(r.out \o new) <= room
  <2> DEFINE d == y.made - r.made
             e == Len(r.out)
  <2>1. d \in Nat /\ e \in Nat
    <3> HIDE DEF y
    <3> QED BY <1>1, <1>3, <1>4
  <2>2. share \in Nat
    <3>1. r.rate[1] \in Nat /\ r.rate[2] \in Nat \ {0}
      BY <1>1 DEF Ratio
    <3>2. w * r.rate[1] \in Nat
      <4> HIDE DEF w
      <4> QED BY <1>2, <3>1
    <3> HIDE DEF w
    <3> QED BY <3>1, <3>2, RoundUpType
  <2>3. d <= share /\ room = share + e /\ Len(FlattenSeq(y.sink)) = d /\ Len(r.out \o new) = e + d
    BY <1>5, <1>6, <1>8, <1>9
  <2> HIDE DEF d, e, share, room, y, new
  <2> QED BY <2>1, <2>2, <2>3
<1>11. t.data = y.out \o FlattenSeq(y.sink) /\ t.out = <<>> /\ t.sink = <<>>
  <2>1. \A i \in 1 .. Len(y.sink) : y.sink[i] # <<>>
    <3> HIDE DEF y
    <3> QED BY <1>3 DEF Graph
  <2> HIDE DEF y, room
  <2> QED BY <1>4, <1>10, <2>1, TakenWhole
<1>12. x = [y EXCEPT !.out = <<>>, !.sink = <<>>] /\ result.data = r.out \o new
  <2>1. result = [resampler |-> [y EXCEPT !.out = t.out, !.sink = t.sink], data |-> t.data]
    <3> HIDE DEF src, room
    <3> QED BY Zenon DEF Resample
  <2> HIDE DEF y, t, new, result
  <2> QED BY <1>3, <1>6, <1>11, <2>1
<1> HIDE DEF x, y, t, new, result, room, w, share, src
<1>13. /\ x \in State /\ x.song = y.song /\ x.rate = y.rate /\ x.in = y.in /\ x.fed = y.fed
       /\ x.made = y.made /\ x.out = <<>> /\ x.sink = <<>>
  BY <1>4, <1>12, EmptySeqs DEF State
<1>14. Graph(x)
  <2>1. \A i \in 1 .. Len(x.sink) : x.sink[i] # <<>>
    BY <1>13
  <2> QED BY <1>3, <1>13, <2>1 DEF Graph
<1>15. /\ Graph(x) /\ x.song = r.song /\ x.rate = r.rate /\ x.out = <<>> /\ x.sink = <<>>
       /\ x.fed = r.fed + w /\ x.in = Run(r.fed + w, (k + n) - w)
       /\ r.made <= x.made /\ x.made - r.made <= share
       /\ result.data = r.out \o Samples(r.song, r.made, x.made)
       /\ Len(result.data) <= room
  BY <1>3, <1>5, <1>10, <1>12, <1>13, <1>14 DEF new
<1> QED BY <1>15, Zenon DEF Resampled, result, room, src, x, w, share

(* flush and setInputFormat: what the graph still makes of the partial frame   *)
(* stays in outputBuffer, and the graph of the new song begins.               *)
LEMMA FlushCorrect ==
  ASSUME NEW r, Graph(r), r.sink = <<>>, NEW k \in Nat, r.in = Run(r.fed, k)
  PROVE  LET x == Flush(r)
         IN  /\ x \in State /\ x.song = r.song /\ x.rate = r.rate
             /\ r.made <= x.made /\ x.made - r.made <= RoundUp(k * r.rate[1], r.rate[2])
             /\ x.out = r.out \o Samples(r.song, r.made, x.made)
<1>1. /\ r \in State /\ r.fed \in Nat /\ r.made \in Nat /\ r.song \in Nat /\ r.rate \in Ratio
      /\ r.out \in Seq(Sample) /\ r.made = Made(r.rate, r.fed)
  BY DEF Graph, State
<1>2. RoundUp(k * r.rate[1], r.rate[2]) \in Nat
  <2>1. r.rate[1] \in Nat /\ r.rate[2] \in Nat \ {0}
    BY <1>1 DEF Ratio
  <2>2. k * r.rate[1] \in Nat
    BY <2>1
  <2> QED BY <2>1, <2>2, RoundUpType
<1>3. CASE r.in = <<>>
  <2>1. Flush(r) = r
    BY <1>3 DEF Flush
  <2>2. Samples(r.song, r.made, r.made) = <<>>
    <3>1. r.made - r.made = 0
      BY <1>1
    <3> QED BY <3>1 DEF Samples
  <2>3. r.out \o <<>> = r.out
    BY <1>1, ConcatEmptySeq
  <2>4. r.made <= r.made /\ r.made - r.made <= RoundUp(k * r.rate[1], r.rate[2])
    BY <1>1, <1>2
  <2> QED BY <1>1, <2>1, <2>2, <2>3, <2>4
<1>4. CASE r.in # <<>>
  <2> DEFINE y == AddFrame(r, r.in)
             x == Flush(r)
             new == Samples(r.song, r.made, y.made)
  <2>1. Advanced(r, y, k)
    <3>1. Advanced(r, AddFrame(r, Run(r.fed, k)), k)
      BY AddFrameAdvances
    <3> QED BY <3>1
  <2>2. x = [y EXCEPT !.out = y.out \o FlattenSeq(y.sink), !.sink = <<>>]
    BY <1>4, Zenon DEF Flush
  <2> HIDE DEF x, y
  <2>3. /\ y \in State /\ y.song = r.song /\ y.rate = r.rate /\ y.out = r.out /\ r.made <= y.made
        /\ y.made = Made(r.rate, r.fed + k) /\ y.made \in Nat
        /\ FlattenSeq(y.sink) = FlattenSeq(r.sink) \o new
    BY <2>1 DEF Advanced, Graph, State
  <2>4. new \in Seq(Sample) /\ r.out \o new \in Seq(Sample)
    BY <1>1, <2>3, SamplesType, AppendSamples
  <2>5. FlattenSeq(y.sink) = new
    <3> HIDE DEF new
    <3> QED BY <2>3, <2>4, FlattenEmpty, ConcatEmptySeq
  <2>6. y.made - r.made <= RoundUp(k * r.rate[1], r.rate[2])
    BY <1>1, <2>3, MadeGrows
  <2> HIDE DEF new
  <2>7. x = [y EXCEPT !.out = r.out \o new, !.sink = <<>>]
    BY <2>2, <2>3, <2>5
  <2>8. x \in State /\ x.song = y.song /\ x.rate = y.rate /\ x.made = y.made /\ x.out = r.out \o new
    <3> DEFINE o == r.out \o new
    <3>1. o \in Seq(Sample)
      BY <2>4
    <3> HIDE DEF o
    <3>2. x = [y EXCEPT !.out = o, !.sink = <<>>]
      BY <2>7 DEF o
    <3>3. x \in State /\ x.song = y.song /\ x.rate = y.rate /\ x.made = y.made /\ x.out = o
      BY <2>3, <3>1, <3>2, EmptySeqs DEF State
    <3> QED BY <3>3 DEF o
  <2> QED BY <2>3, <2>6, <2>8 DEF x, new
<1> QED BY <1>3, <1>4

LEMMA NewGraph ==
  ASSUME NEW ratio \in Ratio
  PROVE  Made(ratio, 0) = 0
<1>1. ratio[1] \in Nat /\ ratio[2] \in Nat \ {0} /\ GraphDelay \in Nat
  BY ResamplerAssumption DEF Ratio
<1>2. (0 * ratio[1]) \div ratio[2] = 0
  BY <1>1
<1>3. Max({0, 0 - GraphDelay}) = 0
  BY <1>1, MaxOfTwo
<1> QED BY <1>2, <1>3 DEF Made

LEMMA FormatCorrect ==
  ASSUME NEW r, NEW k \in Nat, NEW s \in Nat, NEW ratio \in Ratio, Waiting(r, k)
  PROVE  Formatted(r, k, s, ratio)
<1> USE DEF Waiting
<1> DEFINE y == Flush(r)
           x == SetInputFormat(r, s, ratio)
<1>1. /\ y \in State /\ r.made <= y.made /\ y.made - r.made <= RoundUp(k * r.rate[1], r.rate[2])
      /\ y.out = r.out \o Samples(r.song, r.made, y.made)
  BY FlushCorrect
<1>2. x = [y EXCEPT !.song = s, !.rate = ratio, !.in = <<>>, !.fed = 0, !.made = 0, !.sink = <<>>]
  BY Zenon DEF SetInputFormat
<1> HIDE DEF x, y
<1>3. /\ x \in State /\ x.song = s /\ x.rate = ratio /\ x.in = <<>> /\ x.fed = 0 /\ x.made = 0
      /\ x.sink = <<>> /\ x.out = y.out
  BY <1>1, <1>2, EmptySeqs DEF State
<1>4. Graph(x)
  BY <1>3, NewGraph DEF Graph
<1>5. y.made \in Nat
  BY <1>1 DEF State
<1> QED BY <1>1, <1>3, <1>4, <1>5, Zenon DEF x, y, Formatted

-----------------------------------------------------------------------------
(* The inductive invariant, in the parts that the proofs of the four           *)
(* invariants use.  Faults end a behaviour, so that what holds where a thread  *)
(* is says nothing about them.                                                *)

Players == {"idle", "decode", "send", "sleep", "loop"} \cup Formatting \cup Faults

(* What every variable of the way of the samples may be.                      *)
WayType ==
  /\ player \in Players \ {"overrun"} /\ stopped \in BOOLEAN /\ opus \in BOOLEAN
  /\ bound \in [songs : Nat, samples : Nat, calls : Nat]
  /\ song \in 0 .. bound.songs /\ decoded \in 0 .. bound.samples
  /\ chunk \in Chunks \cup {0} /\ chunk <= decoded /\ rate \in Formats
  /\ wait \in Int /\ sender \in 0 .. AudioFrames
  /\ heard \in Sample /\ pcmQueue \in Seq(Sample)
  /\ ended \in [0 .. bound.songs -> Nat]

(* Between its calls the resampler has nothing at its sink, and inputBuffer    *)
(* has the samples that come next, fewer than a frame.  outputBuffer has what  *)
(* flush put there, from the new format to the song's first send.             *)
ResamplerInv ==
  /\ Graph(resampler) /\ resampler.sink = <<>> /\ resampler.rate \in Formats
  /\ Len(resampler.in) < FRAME_SIZE /\ resampler.in = Run(resampler.fed, Len(resampler.in))
  /\ resampler.song \in 0 .. song
  /\ resampler.out # <<>> => player \in {"filter", "volume", "send"} \cup Faults
  /\ \E s \in Formats : Len(resampler.out) <= RoundUp(FRAME_SIZE * s[1], s[2])

(* What the player decoded is what the resampler got, but for the frame at     *)
(* hand; until setInputFormat the resampler is a song behind.                 *)
FeedInv ==
  /\ player \in {"send", "sleep", "loop"} \cup Formatting => rate # NoFormat
  /\ player = "decode" /\ rate = NoFormat => decoded = 0 /\ resampler.song < song
  /\ player = "format" => decoded = chunk /\ resampler.song < song
  /\ player \in {"filter", "volume", "send"} =>
       /\ resampler.song = song /\ resampler.rate = rate
       /\ decoded - chunk = resampler.fed + Len(resampler.in)
  /\ player \in {"decode", "sleep", "loop"} /\ rate # NoFormat =>
       /\ resampler.song = song /\ resampler.rate = rate
       /\ decoded = resampler.fed + Len(resampler.in)

(* Ordered(e, all, s, m): all is a way of samples whose songs had made what e  *)
(* says when they ended, and after it comes sample m + 1 of song s.           *)
After(e, a, b) ==
  \/ b[1] = a[1] /\ b[2] = a[2] + 1
  \/ /\ b[1] > a[1] /\ b[2] = 1 /\ a[2] = e[a[1]]
     /\ \A s \in a[1] + 1 .. b[1] - 1 : e[s] = 0
UpTo(e, l, s, m) ==
  \/ l = <<s, m>>
  \/ m = 0 /\ l[1] < s /\ l[2] = e[l[1]] /\ \A t \in l[1] + 1 .. s - 1 : e[t] = 0
Ordered(e, all, s, m) ==
  /\ all \in Seq(Sample) /\ all # <<>>
  /\ \A i \in 1 .. Len(all) - 1 : After(e, all[i], all[i + 1])
  /\ \A i \in 1 .. Len(all) : all[i][1] <= s
  /\ UpTo(e, all[Len(all)], s, m)

Entry == SAMPLES_IN_10MS * FramesOf
Way == <<heard>> \o FlattenSeq(compressedQueue) \o pcmQueue \o resampler.out

OrderInv ==
  /\ compressedQueue \in Seq(Seq(Sample))
  /\ \A i \in 1 .. Len(compressedQueue) : Len(compressedQueue[i]) = Entry
  /\ \A s \in resampler.song .. bound.songs : ended[s] = 0
  /\ Ordered(ended, Way, resampler.song, resampler.made)

(* The audio that is encoded or on its way is what the player sleeps for and  *)
(* two packets, at most three; a player who does not sleep has at most three. *)
Bounded == \E n \in Chunks \cup {0}, r, s \in Formats : Queued <= 3 * AudioFrames + Burst(n, r, s)
PaceInv ==
  /\ Len(pcmQueue) < Packet /\ Bounded
  /\ player = "sleep" =>
       /\ - Lateness <= wait
       /\ wait + 2 * AudioFrames <= Queued + sender
       /\ Queued + sender <= wait + 3 * AudioFrames
  /\ player # "sleep" => - 2 * AudioFrames <= wait /\ wait <= 0 /\ Queued + sender <= 3 * AudioFrames

(* What a call for the volume knows at each of its steps.                     *)
CallInv(c) ==
  /\ pc[c] \in {"read", "set", "command"} => volume \in 1 .. MaxVolume
  /\ pc[c] = "maxed" => arg[c] >= 1
  /\ pc[c] = "min" => volume >= 1
  /\ pc[c] = "mined" => arg[c] \in 1 .. MaxVolume
  /\ pc[c] \in {"set", "command"} => arg[c] = volume
  /\ pc[c] = "command" => resamplerVolume = volume /\ ~dropped

Labels == {"idle", "add", "max", "maxed", "min", "mined", "read", "set", "command", "freedFilter"}

LevelType ==
  /\ pc \in [Callers -> Labels] /\ arg \in [Callers -> Int] /\ calls \in Nat
  /\ volume \in Int /\ resamplerVolume \in Int /\ filterVolume \in Int
  /\ volumeFilter \in {"null", "live", "freed"} /\ dropped \in BOOLEAN /\ overlapped \in BOOLEAN
  /\ volumeFilter = "freed" => player \in {"filter"} \cup Faults
  /\ \A c \in Callers : pc[c] = "command" => volumeFilter # "null"

VolumeInv ==
  ~overlapped =>
    /\ \A c, d \in Callers : pc[c] # "idle" /\ pc[d] # "idle" => c = d
    /\ ~Quiet => player \notin Formatting
    /\ Quiet => volume \in 1 .. MaxVolume /\ (~dropped => resamplerVolume = volume)
    /\ /\ \A c \in Callers : pc[c] # "command"
       /\ volumeFilter = "live" /\ player \notin Formatting \cup Faults
       => filterVolume = resamplerVolume
    /\ \A c \in Callers : pc[c] # "freedFilter" /\ CallInv(c)

Inv == WayType /\ ResamplerInv /\ FeedInv /\ OrderInv /\ PaceInv /\ LevelType /\ VolumeInv

-----------------------------------------------------------------------------
(* What keeps a way of samples in order: the samples that come next at its    *)
(* end, the beginning of another song, and samples that leave at its front.   *)

LEMMA OrderedAppend ==
  ASSUME NEW e, NEW all, NEW s \in Nat, NEW m \in Nat, NEW n \in Nat, m <= n, Ordered(e, all, s, m)
  PROVE  Ordered(e, all \o Samples(s, m, n), s, n)
<1> DEFINE new == Samples(s, m, n)
           w == all \o new
           k == Len(all)
<1>1. /\ all \in Seq(Sample) /\ all # <<>> /\ k \in Nat /\ k > 0
      /\ \A i \in 1 .. k - 1 : After(e, all[i], all[i + 1])
      /\ \A i \in 1 .. k : all[i][1] <= s
      /\ UpTo(e, all[k], s, m)
  BY DEF Ordered
<1>2. new \in Seq(Sample) /\ Len(new) = n - m /\ \A i \in 1 .. n - m : new[i] = <<s, m + i>>
  BY SamplesType
<1> HIDE DEF new, k
<1>3. /\ w \in Seq(Sample) /\ Len(w) = k + (n - m)
      /\ \A i \in 1 .. k : w[i] = all[i]
      /\ \A i \in 1 .. n - m : w[k + i] = <<s, m + i>>
  <2>1. /\ w \in Seq(Sample) /\ Len(w) = Len(all) + Len(new)
        /\ \A i \in 1 .. Len(all) + Len(new) : w[i] = IF i <= Len(all) THEN all[i] ELSE new[i - Len(all)]
    BY <1>1, <1>2, ConcatProperties
  <2>2. /\ w \in Seq(Sample) /\ Len(w) = k + (n - m)
        /\ \A i \in 1 .. k + (n - m) : w[i] = IF i <= k THEN all[i] ELSE new[i - k]
    BY <1>2, <2>1 DEF k
  <2>3. ASSUME NEW i \in 1 .. k PROVE w[i] = all[i]
    <3>1. i \in 1 .. k + (n - m) /\ i <= k
      BY <1>1
    <3> QED BY <2>2, <3>1
  <2>4. ASSUME NEW i \in 1 .. n - m PROVE w[k + i] = <<s, m + i>>
    <3> DEFINE j == k + i
    <3>1. j \in 1 .. k + (n - m) /\ ~(j <= k) /\ j - k = i
      BY <1>1
    <3> HIDE DEF j
    <3>2. w[j] = new[j - k]
      BY <2>2, <3>1
    <3>3. w[j] = <<s, m + i>>
      BY <1>2, <3>1, <3>2
    <3> QED BY <3>3 DEF j
  <2> QED BY <2>2, <2>3, <2>4
<1> HIDE DEF w
<1>4. ASSUME NEW i \in 1 .. Len(w) - 1 PROVE After(e, w[i], w[i + 1])
  <2>1. CASE i < k
    <3>1. i \in 1 .. k - 1 /\ i \in 1 .. k /\ i + 1 \in 1 .. k
      BY <1>1, <2>1
    <3> QED BY <1>1, <1>3, <3>1
  <2>2. CASE i = k
    <3>1. n - m > 0 /\ 1 \in 1 .. n - m /\ k \in 1 .. k
      BY <1>1, <1>3, <2>2
    <3>2. w[i] = all[k] /\ w[i + 1] = <<s, m + 1>>
      BY <1>3, <2>2, <3>1
    <3>3. CASE all[k] = <<s, m>>
      BY <3>2, <3>3 DEF After
    <3>4. CASE m = 0 /\ all[k][1] < s /\ all[k][2] = e[all[k][1]] /\ \A t \in all[k][1] + 1 .. s - 1 : e[t] = 0
      <4> DEFINE b == <<s, m + 1>>
      <4>1. b[1] = s /\ b[2] = 1
        BY <3>4
      <4>2. all[k] \in Sample /\ all[k][1] \in Nat
        BY <1>1, <3>1 DEF Sample, k
      <4> HIDE DEF b
      <4>3. b[1] > all[k][1]
        BY <3>4, <4>1, <4>2
      <4>4. After(e, all[k], b)
        BY <3>4, <4>1, <4>3 DEF After
      <4> QED BY <3>2, <4>4 DEF b
    <3> QED BY <1>1, <3>3, <3>4 DEF UpTo
  <2>3. CASE i > k
    <3> DEFINE j == i - k
    <3>1. j \in 1 .. n - m /\ j + 1 \in 1 .. n - m /\ i = k + j /\ i + 1 = k + (j + 1)
          /\ m + (j + 1) = (m + j) + 1
      BY <1>1, <1>3, <2>3, SMTT(30)
    <3>2. w[i] = <<s, m + j>> /\ w[i + 1] = <<s, m + (j + 1)>>
      BY <1>3, <3>1
    <3> QED BY <3>1, <3>2 DEF After
  <2>4. i \in Int /\ k \in Int
    BY <1>1
  <2> QED BY <2>1, <2>2, <2>3, <2>4
<1>5. ASSUME NEW i \in 1 .. Len(w) PROVE w[i][1] <= s
  <2>1. CASE i <= k
    BY <1>1, <1>3, <2>1
  <2>2. CASE ~(i <= k)
    <3> DEFINE j == i - k
    <3>1. j \in 1 .. n - m /\ i = k + j
      BY <1>1, <1>3, <2>2
    <3>2. w[i] = <<s, m + j>>
      BY <1>3, <3>1
    <3> QED BY <3>2
  <2> QED BY <2>1, <2>2
<1>6. UpTo(e, w[Len(w)], s, n)
  <2>1. CASE m = n
    <3>1. Len(w) = k /\ k \in 1 .. k
      BY <1>1, <1>3, <2>1
    <3> QED BY <1>1, <1>3, <2>1, <3>1
  <2>2. CASE m # n
    <3>1. n - m \in 1 .. n - m /\ m + (n - m) = n
      BY <2>2
    <3>2. w[Len(w)] = <<s, n>>
      BY <1>3, <3>1
    <3> QED BY <3>2 DEF UpTo
  <2> QED BY <2>1, <2>2
<1>7. w # <<>>
  BY <1>1, <1>3
<1>8. Ordered(e, w, s, n)
  BY <1>3, <1>4, <1>5, <1>6, <1>7 DEF Ordered
<1> QED BY <1>8 DEF w, new

LEMMA OrderedNextSong ==
  ASSUME NEW N \in Nat, NEW e \in [0 .. N -> Nat], NEW s \in 0 .. N, NEW t \in 0 .. N, s < t,
         NEW all, NEW m \in Nat, Ordered(e, all, s, m), \A k \in s .. N : e[k] = 0
  PROVE  Ordered([e EXCEPT ![s] = m], all, t, 0)
<1> DEFINE f == [e EXCEPT ![s] = m]
           k == Len(all)
<1>1. /\ all \in Seq(Sample) /\ all # <<>> /\ k \in Nat /\ k > 0
      /\ \A i \in 1 .. k - 1 : After(e, all[i], all[i + 1])
      /\ \A i \in 1 .. k : all[i][1] <= s
      /\ UpTo(e, all[k], s, m)
  BY DEF Ordered
<1>2. \A i \in 1 .. k : all[i] \in Sample /\ all[i][1] \in 0 .. s
  BY <1>1 DEF Sample
<1>3. f \in [0 .. N -> Nat] /\ f[s] = m /\ \A i \in 0 .. N : i # s => f[i] = e[i]
  OBVIOUS
<1> HIDE DEF f, k
<1>4. ASSUME NEW i \in 1 .. k - 1 PROVE After(f, all[i], all[i + 1])
  <2> DEFINE a == all[i]
             b == all[i + 1]
  <2> SUFFICES After(f, a, b)
    OBVIOUS
  <2>1. i \in 1 .. k /\ i + 1 \in 1 .. k
    BY <1>1
  <2>2. After(e, a, b) /\ a[1] \in 0 .. s /\ b[1] \in 0 .. s
    BY <1>1, <1>2, <2>1
  <2> HIDE DEF a, b
  <2>3. CASE b[1] = a[1] /\ b[2] = a[2] + 1
    BY <2>3 DEF After
  <2>4. CASE /\ b[1] > a[1] /\ b[2] = 1 /\ a[2] = e[a[1]]
             /\ \A j \in a[1] + 1 .. b[1] - 1 : e[j] = 0
    <3>1. a[1] \in 0 .. N /\ a[1] # s /\ f[a[1]] = e[a[1]]
      BY <1>3, <2>2, <2>4, SMTT(30)
    <3>2. \A j \in a[1] + 1 .. b[1] - 1 : j \in 0 .. N /\ j # s
      BY <2>2
    <3>3. \A j \in a[1] + 1 .. b[1] - 1 : f[j] = 0
      BY <1>3, <2>4, <3>2
    <3> QED BY <2>4, <3>1, <3>3 DEF After
  <2> QED BY <2>2, <2>3, <2>4 DEF After
<1>5. \A i \in 1 .. k : all[i][1] <= t
  BY <1>2
<1>6. UpTo(f, all[k], t, 0)
  <2> DEFINE l == all[k]
  <2> SUFFICES UpTo(f, l, t, 0)
    OBVIOUS
  <2>0. k \in 1 .. k
    BY <1>1
  <2>1. l[1] \in 0 .. s /\ l[1] < t
    <3>1. all[k][1] \in 0 .. s
      BY <1>2, <2>0
    <3> QED BY <3>1
  <2>2. UpTo(e, l, s, m)
    BY <1>1
  <2> HIDE DEF l
  <2>3. CASE l = <<s, m>>
    <3>1. l[1] = s /\ l[2] = f[l[1]]
      BY <1>3, <2>3
    <3>2. \A j \in s + 1 .. t - 1 : j \in 0 .. N /\ j # s /\ j \in s .. N
      OBVIOUS
    <3>3. \A j \in s + 1 .. t - 1 : f[j] = 0
      BY <1>3, <3>2
    <3>4. \A j \in l[1] + 1 .. t - 1 : f[j] = 0
      BY <3>1, <3>3
    <3> QED BY <2>1, <3>1, <3>4 DEF UpTo
  <2>4. CASE m = 0 /\ l[1] < s /\ l[2] = e[l[1]] /\ \A j \in l[1] + 1 .. s - 1 : e[j] = 0
    <3>1. l[1] \in 0 .. N /\ l[1] # s /\ f[l[1]] = e[l[1]]
      BY <1>3, <2>1, <2>4
    <3>2. ASSUME NEW j \in l[1] + 1 .. t - 1 PROVE f[j] = 0
      <4>1. j \in 0 .. N /\ (j \in l[1] + 1 .. s - 1 \/ j = s \/ (j \in s .. N /\ j # s))
        BY <2>1
      <4>2. CASE j = s
        BY <1>3, <2>4, <4>2
      <4>3. CASE j # s
        BY <1>3, <2>4, <4>1, <4>3
      <4> QED BY <4>2, <4>3
    <3> QED BY <2>1, <2>4, <3>1, <3>2 DEF UpTo
  <2> QED BY <2>2, <2>3, <2>4 DEF UpTo
<1>7. Ordered(f, all, t, 0)
  BY <1>1, <1>4, <1>5, <1>6 DEF Ordered, k
<1> QED BY <1>7 DEF f

LEMMA OrderedSuffix ==
  ASSUME NEW e, NEW p \in Seq(Sample), NEW q \in Seq(Sample), q # <<>>, NEW s, NEW m,
         Ordered(e, p \o q, s, m)
  PROVE  Ordered(e, q, s, m)
<1> DEFINE w == p \o q
           k == Len(p)
           n == Len(q)
<1>1. /\ k \in Nat /\ n \in Nat /\ n > 0 /\ Len(w) = k + n
      /\ \A i \in 1 .. k + n : w[i] = IF i <= k THEN p[i] ELSE q[i - k]
  BY ConcatProperties
<1>2. /\ \A i \in 1 .. Len(w) - 1 : After(e, w[i], w[i + 1])
      /\ \A i \in 1 .. Len(w) : w[i][1] <= s
      /\ UpTo(e, w[Len(w)], s, m)
  BY DEF Ordered
<1> HIDE DEF w, k, n
<1>3. ASSUME NEW i \in 1 .. n PROVE w[k + i] = q[i]
  <2>1. k + i \in 1 .. k + n /\ ~(k + i <= k) /\ k + i - k = i
    BY <1>1
  <2>2. w[k + i] = q[k + i - k]
    BY <1>1, <2>1
  <2> QED BY <2>1, <2>2
<1>4. ASSUME NEW i \in 1 .. n - 1 PROVE After(e, q[i], q[i + 1])
  <2>1. i \in 1 .. n /\ i + 1 \in 1 .. n /\ k + i \in 1 .. Len(w) - 1 /\ k + i + 1 = k + (i + 1)
    BY <1>1
  <2>2. After(e, w[k + i], w[k + (i + 1)])
    BY <1>2, <2>1
  <2> QED BY <1>3, <2>1, <2>2
<1>5. ASSUME NEW i \in 1 .. n PROVE q[i][1] <= s
  <2>1. k + i \in 1 .. Len(w)
    BY <1>1
  <2>2. w[k + i][1] <= s
    BY <1>2, <2>1
  <2> QED BY <1>3, <2>2
<1>6. UpTo(e, q[n], s, m)
  <2>1. n \in 1 .. n
    BY <1>1
  <2> QED BY <1>1, <1>2, <1>3, <2>1
<1> QED BY <1>4, <1>5, <1>6 DEF Ordered, n

-----------------------------------------------------------------------------
(* Constants.                                                                *)

LEMMA Constants ==
  /\ FRAME_SIZE \in Nat \ {0} /\ SAMPLES_IN_10MS \in Nat \ {0} /\ AudioFrames \in Nat \ {0}
  /\ Packet \in Nat \ {0} /\ Formats \subseteq Ratio /\ NoFormat \in Formats /\ NoFormat \notin Rates
  /\ Chunks \cup {0} \subseteq Nat /\ Lateness \in Nat /\ MaxVolume \in Nat \ {0}
<1>1. /\ FRAME_SIZE \in Nat \ {0} /\ SAMPLES_IN_10MS \in Nat \ {0} /\ AudioFrames \in Nat \ {0}
      /\ Chunks \cup {0} \subseteq Nat /\ Lateness \in Nat /\ MaxVolume \in Nat \ {0}
      /\ Rates \subseteq (Nat \ {0}) \X (Nat \ {0})
  BY ResamplerAssumption, PipelineAssumption
<1>2. Packet \in Nat \ {0}
  BY <1>1 DEF Packet
<1>3. Formats \subseteq Ratio /\ NoFormat \in Formats /\ NoFormat \notin Rates
  BY <1>1 DEF Formats, Ratio, NoFormat
<1> QED BY <1>1, <1>2, <1>3

LEMMA RoundUpNat ==
  ASSUME NEW n \in Nat, NEW d \in Nat \ {0}
  PROVE  RoundUp(n, d) \in Nat
BY RoundUpType

LEMMA BurstType ==
  ASSUME NEW n \in Chunks \cup {0}, NEW r \in Formats, NEW s \in Formats
  PROVE  Burst(n, r, s) \in Nat
<1>1. n \in Nat /\ r[1] \in Nat /\ s[1] \in Nat /\ r[2] \in Nat \ {0} /\ s[2] \in Nat \ {0}
  BY Constants DEF Ratio
<1> DEFINE x == (n + FRAME_SIZE) * r[1]
           y == FRAME_SIZE * s[1]
<1>2. x \in Nat /\ y \in Nat
  BY <1>1, Constants
<1> HIDE DEF x, y
<1> DEFINE u == RoundUp(x, r[2]) + RoundUp(y, s[2])
<1>3. u \in Nat
  <2> DEFINE c == r[2]
             d == s[2]
  <2>1. c \in Nat \ {0} /\ d \in Nat \ {0}
    BY <1>1
  <2> HIDE DEF c, d
  <2>2. RoundUp(x, c) \in Nat /\ RoundUp(y, d) \in Nat
    BY <1>2, <2>1, RoundUpNat
  <2> QED BY <2>2 DEF c, d
<1> HIDE DEF u
<1>4. RoundUp(u, Packet) \in Nat
  BY <1>3, Constants, RoundUpNat
<1>5. RoundUp(u, Packet) * AudioFrames \in Nat
  BY <1>4, Constants
<1> QED BY <1>5 DEF Burst, u, x, y

-----------------------------------------------------------------------------
(* The way of the samples: steps of the player, the queue thread and time.    *)

WayInv == WayType /\ ResamplerInv /\ FeedInv /\ OrderInv /\ PaceInv

LEMMA OrderSame ==
  ASSUME OrderInv, UNCHANGED <<buffers, sending, opus, bound>>
  PROVE  OrderInv'
BY DEF OrderInv, Way, Entry, FramesOf, buffers, sending

LEMMA PaceSame ==
  ASSUME PaceInv, UNCHANGED <<wait, buffers, sending, opus>>, (player = "sleep") <=> (player' = "sleep")
  PROVE  PaceInv'
BY DEF PaceInv, Bounded, Queued, FramesOf, Burst, Packet, buffers, sending

(* Steps that leave the buffers alone.                                        *)
LEMMA PlayBeginsWay ==
  ASSUME WayInv, PlayBegins, UNCHANGED <<opus, bound>>
  PROVE  WayInv'
<1> USE DEF WayInv, PlayBegins
<1>1. WayType'
  BY Constants, SMTT(30) DEF WayType, buffers, sending, Players, Faults, Formatting
<1>2. ResamplerInv'
  BY DEF ResamplerInv, WayType, buffers, Faults
<1>3. FeedInv'
  BY DEF FeedInv, ResamplerInv, WayType, buffers, Faults, Formatting
<1>4. OrderInv'
  BY OrderSame
<1>5. PaceInv'
  BY PaceSame
<1> QED BY <1>1, <1>2, <1>3, <1>4, <1>5

LEMMA DecodeWay ==
  ASSUME WayInv, NEW n \in Chunks \cup {0}, Decode(n), UNCHANGED <<opus, bound>>
  PROVE  WayInv'
<1> USE DEF WayInv, Decode
<1>0. n \in Nat
  BY Constants
<1>1. WayType'
  BY <1>0, Constants DEF WayType, buffers, sending, Players, Faults, Formatting, Formats
<1>2. ResamplerInv'
  BY DEF ResamplerInv, WayType, buffers, Faults
<1>3. FeedInv'
  <2>1. resampler.fed \in Nat /\ Len(resampler.in) \in Nat
    BY DEF ResamplerInv, Graph, State
  <2>2. decoded \in Nat
    BY DEF WayType
  <2> DEFINE fed == resampler.fed + Len(resampler.in)
  <2>3. fed \in Nat /\ fed' = fed /\ resampler' = resampler
    BY <2>1 DEF buffers
  <2>4. decoded' = decoded + n /\ chunk' = n /\ decoded' - chunk' = decoded /\ song' = song
    BY <1>0, <2>2
  <2> HIDE DEF fed
  <2>5. FeedInv
    OBVIOUS
  <2>6. CASE rate # NoFormat
    <3>1. player' = "send" /\ rate' = rate /\ resampler.song = song /\ resampler.rate = rate /\ decoded = fed
      BY <2>5, <2>6 DEF FeedInv, fed
    <3> QED BY <2>3, <2>4, <2>6, <3>1 DEF FeedInv, fed, Formatting
  <2>7. CASE rate = NoFormat
    <3>1. decoded = 0 /\ resampler.song < song
      BY <2>5, <2>7 DEF FeedInv
    <3>2. CASE n > 0
      <4>1. rate' # NoFormat /\ player' = "format"
        BY <2>7, <3>2, Constants
      <4>2. decoded' = chunk'
        BY <1>0, <2>4, <3>1
      <4> QED BY <2>3, <2>4, <3>1, <4>1, <4>2 DEF FeedInv, Formatting
    <3>3. CASE ~(n > 0)
      <4>1. player' = "noFormat"
        BY <1>0, <2>7, <3>3
      <4> QED BY <4>1 DEF FeedInv, Formatting
    <3> QED BY <3>2, <3>3
  <2> QED BY <2>6, <2>7
<1>4. OrderInv'
  BY OrderSame
<1>5. PaceInv'
  BY PaceSame
<1> QED BY <1>1, <1>2, <1>3, <1>4, <1>5

LEMMA PlayerWay ==
  ASSUME WayInv, UNCHANGED <<decoding, stopped, wait, buffers, sending, opus, bound>>,
         \/ player = "decode" /\ player' = "idle"
         \/ player = "filter" /\ player' = "volume"
         \/ player = "volume" /\ player' = "send"
         \/ player \in Formatting /\ player' = "noFormat"
         \/ player = "send" /\ player' = "overread"
         \/ player' = player
  PROVE  WayInv'
<1> USE DEF WayInv
<1>1. WayType'
  BY DEF WayType, decoding, buffers, sending, Players, Faults, Formatting
<1>2. ResamplerInv'
  BY DEF ResamplerInv, WayType, decoding, buffers, Faults, Formatting
<1>3. FeedInv'
  BY DEF FeedInv, decoding, buffers, Faults, Formatting
<1>4. OrderInv'
  BY OrderSame
<1>5. PaceInv'
  BY PaceSame DEF Formatting
<1> QED BY <1>1, <1>2, <1>3, <1>4, <1>5

LEMMA StopWay ==
  ASSUME WayInv, Stop, UNCHANGED <<opus, bound>>
  PROVE  WayInv'
<1> USE DEF WayInv, Stop
<1>1. WayType'
  BY DEF WayType, decoding, buffers, sending
<1>2. ResamplerInv'
  BY DEF ResamplerInv, decoding, buffers
<1>3. FeedInv'
  BY DEF FeedInv, decoding, buffers
<1>4. OrderInv'
  BY OrderSame
<1>5. PaceInv'
  BY PaceSame
<1> QED BY <1>1, <1>2, <1>3, <1>4, <1>5

LEMMA WakeWay ==
  ASSUME WayInv, Wake, UNCHANGED <<opus, bound>>
  PROVE  WayInv'
<1> USE DEF WayInv, Wake
<1>1. WayType'
  BY DEF WayType, decoding, buffers, sending, Players, Faults, Formatting
<1>2. ResamplerInv'
  BY DEF ResamplerInv, decoding, buffers, Faults
<1>3. FeedInv'
  BY DEF FeedInv, decoding, buffers, Faults, Formatting
<1>4. OrderInv'
  BY OrderSame
<1>5. PaceInv'
  <2>1. Queued' = Queued /\ sender' = sender /\ Len(pcmQueue') = Len(pcmQueue) /\ Bounded'
    BY DEF Queued, FramesOf, Bounded, Burst, Packet, buffers, sending, PaceInv
  <2>2. Queued + sender <= 3 * AudioFrames
    <3>1. Queued \in Int
      BY Constants DEF Queued, FramesOf, OrderInv
    <3> QED BY <3>1, Constants DEF PaceInv, WayType
  <2>3. player' # "sleep" /\ wait' = 0 /\ - 2 * AudioFrames <= 0
    BY Constants
  <2> QED BY <2>1, <2>2, <2>3 DEF PaceInv, Packet
<1> QED BY <1>1, <1>2, <1>3, <1>4, <1>5

(* A new format: what flush made goes to outputBuffer, at the end of the way,  *)
(* and the song that ended has made what flush says.                          *)
Front3 == <<heard>> \o FlattenSeq(compressedQueue) \o pcmQueue

LEMMA WayParts ==
  ASSUME WayInv
  PROVE  /\ FlattenSeq(compressedQueue) \in Seq(Sample) /\ <<heard>> \in Seq(Sample)
         /\ Front3 \in Seq(Sample) /\ resampler.out \in Seq(Sample) /\ Way = Front3 \o resampler.out
<1>1. <<heard>> \in Seq(Sample) /\ pcmQueue \in Seq(Sample)
  BY DEF WayInv, WayType
<1>2. FlattenSeq(compressedQueue) \in Seq(Sample)
  BY FlattenType DEF WayInv, OrderInv
<1>3. Front3 \in Seq(Sample)
  <2> DEFINE f == FlattenSeq(compressedQueue)
  <2>1. f \in Seq(Sample)
    BY <1>2
  <2> HIDE DEF f
  <2>2. <<heard>> \o f \in Seq(Sample)
    BY <1>1, <2>1, ConcatProperties
  <2>3. (<<heard>> \o f) \o pcmQueue \in Seq(Sample)
    BY <1>1, <2>2, ConcatProperties
  <2> QED BY <2>3 DEF Front3, f
<1>4. resampler.out \in Seq(Sample)
  BY DEF WayInv, ResamplerInv, Graph, State
<1> QED BY <1>1, <1>2, <1>3, <1>4 DEF Way, Front3

LEMMA FormatWay ==
  ASSUME WayInv, Format, UNCHANGED <<opus, bound>>
  PROVE  WayInv'
<1> DEFINE r == resampler
           k == Len(r.in)
           x == resampler'
           flushed == Flush(r).made
           new == Samples(r.song, r.made, flushed)
<1>1. /\ player = "format" /\ player' = "filter" /\ x = SetInputFormat(r, song, rate)
      /\ ended' = [ended EXCEPT ![r.song] = flushed]
      /\ UNCHANGED <<decoding, stopped, wait, pcmQueue, compressedQueue, sending>>
  BY DEF Format
<1>2. /\ Graph(r) /\ r.sink = <<>> /\ r.rate \in Formats /\ k < FRAME_SIZE /\ r.in = Run(r.fed, k)
      /\ r.song \in 0 .. song /\ r.out = <<>>
  BY <1>1 DEF WayInv, ResamplerInv, Faults
<1>3. /\ r \in State /\ r.made \in Nat /\ r.song \in Nat /\ r.rate \in Ratio /\ k \in Nat /\ r.fed \in Nat
  BY <1>2 DEF Graph, State
<1>4. song \in Nat /\ song \in 0 .. bound.songs /\ bound.songs \in Nat /\ rate \in Ratio /\ rate \in Formats
  BY Constants DEF WayInv, WayType
<1>5. rate # NoFormat /\ decoded = chunk /\ r.song < song
  BY <1>1 DEF WayInv, FeedInv, Formatting
<1>6. /\ Graph(x) /\ x.song = song /\ x.rate = rate /\ x.in = <<>> /\ x.fed = 0 /\ x.made = 0
      /\ x.sink = <<>> /\ flushed \in Nat /\ r.made <= flushed
      /\ flushed - r.made <= RoundUp(k * r.rate[1], r.rate[2])
      /\ x.out = r.out \o new
  <2> HIDE DEF r, k
  <2>1. Waiting(r, k)
    BY <1>2 DEF Waiting
  <2>2. Formatted(r, k, song, rate)
    BY <1>3, <1>4, <2>1, FormatCorrect
  <2> HIDE DEF x
  <2> QED BY <1>1, <2>2, Zenon DEF Formatted
<1>7. flushed \in Nat /\ r.made <= flushed
  BY <1>6
<1>8. new \in Seq(Sample) /\ Len(new) = flushed - r.made
  <2> DEFINE c == r.song
             d == r.made
  <2>1. c \in Nat /\ d \in Nat /\ d <= flushed
    BY <1>3, <1>7
  <2> HIDE DEF c, d, flushed
  <2>2. Samples(c, d, flushed) \in Seq(Sample) /\ Len(Samples(c, d, flushed)) = flushed - d
    BY <1>7, <2>1, SamplesType
  <2> QED BY <2>2 DEF c, d, flushed
<1> HIDE DEF new, flushed, x, k
<1>9. x.out = new
  BY <1>2, <1>6, <1>8, ConcatEmptySeq
<1>10. Front3' = Front3
  BY <1>1 DEF Front3, sending
<1>11. WayType'
  <2>1. ended' \in [0 .. bound.songs -> Nat]
    <3>1. r.song \in 0 .. bound.songs
      BY <1>3, <1>4, <1>5
    <3>2. ended \in [0 .. bound.songs -> Nat]
      BY DEF WayInv, WayType
    <3> HIDE DEF r
    <3> QED BY <1>1, <1>7, <3>1, <3>2
  <2> QED BY <1>1, <2>1 DEF WayInv, WayType, decoding, sending, Players, Faults, Formatting
<1>12. ResamplerInv'
  <2>1. x.in = Run(x.fed, 0) /\ Len(x.in) = 0 /\ 0 < FRAME_SIZE
    <3>1. Run(0, 0) = <<>>
      BY DEF Run, Numbers
    <3> QED BY <1>6, <3>1, Constants
  <2>2. Len(x.out) <= RoundUp(FRAME_SIZE * r.rate[1], r.rate[2])
    <3> DEFINE a == r.rate[1]
               b == r.rate[2]
    <3>1. a \in Nat /\ b \in Nat \ {0}
      BY <1>3 DEF Ratio
    <3> HIDE DEF a, b
    <3>2. k * a \in Nat /\ FRAME_SIZE * a \in Nat /\ k * a <= FRAME_SIZE * a
      BY <1>2, <1>3, <3>1, Constants
    <3> DEFINE u == k * a
               v == FRAME_SIZE * a
    <3>3. u \in Nat /\ v \in Nat /\ u <= v
      BY <3>2
    <3> HIDE DEF u, v
    <3>4. RoundUp(u, b) <= RoundUp(v, b) /\ RoundUp(u, b) \in Nat /\ RoundUp(v, b) \in Nat
      BY <3>1, <3>3, RoundUpType
    <3>5. flushed - r.made <= RoundUp(u, b)
      BY <1>6 DEF u, a, b
    <3>6. Len(x.out) <= RoundUp(v, b)
      BY <1>3, <1>7, <1>8, <1>9, <3>4, <3>5
    <3> QED BY <3>6 DEF v, a, b
  <2>3. \E s \in Formats : Len(x.out) <= RoundUp(FRAME_SIZE * s[1], s[2])
    BY <1>2, <2>2
  <2>4. song' = song
    BY <1>1 DEF decoding
  <2> HIDE DEF r
  <2>5. /\ Graph(x) /\ x.sink = <<>> /\ x.rate \in Formats /\ Len(x.in) < FRAME_SIZE
        /\ x.in = Run(x.fed, Len(x.in)) /\ x.song \in 0 .. song'
    BY <1>4, <1>6, <2>1, <2>4
  <2> QED BY <1>1, <2>3, <2>5 DEF ResamplerInv, x
<1>13. FeedInv'
  <2>1. /\ x.song = song' /\ x.rate = rate' /\ rate' # NoFormat /\ decoded' = chunk' /\ decoded' \in Nat
        /\ x.fed = 0 /\ Len(x.in) = 0
    BY <1>1, <1>5, <1>6 DEF decoding, WayInv, WayType
  <2>2. decoded' - chunk' = x.fed + Len(x.in)
    <3> DEFINE d == decoded'
    <3>1. d \in Nat /\ chunk' = d /\ x.fed + Len(x.in) = 0
      BY <2>1
    <3> HIDE DEF d
    <3>2. d - d = 0
      BY <3>1
    <3> QED BY <3>1, <3>2 DEF d
  <2> QED BY <1>1, <2>1, <2>2 DEF FeedInv, x, Formatting
<1>14. OrderInv'
  <2>1. Way = Front3 /\ Way' = Front3 \o new
    <3>1. Way = Front3 \o r.out /\ Front3 \in Seq(Sample)
      BY WayParts
    <3>2. Front3 \o <<>> = Front3
      BY <3>1, ConcatEmptySeq
    <3>3. Way' = Front3' \o x.out
      BY DEF Way, Front3, x
    <3> QED BY <1>2, <1>9, <1>10, <3>1, <3>2, <3>3
  <2>2. Ordered(ended, Way', r.song, flushed)
    <3>1. Ordered(ended, Way, r.song, r.made)
      BY DEF WayInv, OrderInv
    <3> DEFINE c == r.song
               d == r.made
               w == Way
    <3>2. c \in Nat /\ d \in Nat /\ d <= flushed /\ Ordered(ended, w, c, d)
      BY <1>3, <1>7, <3>1
    <3> HIDE DEF c, d, w
    <3>3. Ordered(ended, w \o Samples(c, d, flushed), c, flushed)
      BY <1>7, <3>2, OrderedAppend
    <3> QED BY <2>1, <3>3 DEF c, d, w, new
  <2>3. Ordered(ended', Way', song, 0)
    <3> DEFINE c == r.song
               w == Way'
               N == bound.songs
    <3>1. /\ N \in Nat /\ ended \in [0 .. N -> Nat] /\ c \in 0 .. N /\ song \in 0 .. N /\ c < song
          /\ Ordered(ended, w, c, flushed) /\ \A i \in c .. N : ended[i] = 0
          /\ ended' = [ended EXCEPT ![c] = flushed]
      BY <1>1, <1>3, <1>4, <1>5, <2>2 DEF WayInv, WayType, OrderInv
    <3> HIDE DEF c, w, N
    <3>2. Ordered([ended EXCEPT ![c] = flushed], w, song, 0)
      BY <1>7, <3>1, OrderedNextSong
    <3> QED BY <3>1, <3>2 DEF w
  <2>4. \A s \in song .. bound.songs : ended'[s] = 0
    <3> DEFINE c == r.song
    <3>1. /\ ended \in [0 .. bound.songs -> Nat] /\ c \in 0 .. bound.songs /\ c < song
          /\ \A i \in c .. bound.songs : ended[i] = 0
          /\ ended' = [ended EXCEPT ![c] = flushed]
      BY <1>1, <1>3, <1>4, <1>5 DEF WayInv, WayType, OrderInv
    <3> HIDE DEF c
    <3> QED BY <1>4, <3>1
  <2>5. x.song = song /\ x.made = 0
    BY <1>6
  <2> QED BY <1>1, <2>3, <2>4, <2>5 DEF WayInv, OrderInv, Entry, FramesOf, x
<1>15. PaceInv'
  BY <1>1 DEF WayInv, PaceInv, Bounded, Queued, FramesOf, Burst, Packet, sending
<1> QED BY <1>11, <1>12, <1>13, <1>14, <1>15 DEF WayInv

(* Audio::enqueue: the entries and the rest are what there was, the entries    *)
(* are the audio of whole packets, and less than a packet stays.              *)
LEMMA WholePackets ==
  ASSUME NEW q \in Nat, NEW a \in Nat \ {0}
  PROVE  (q * a) \div a = q
<1>1. q * a \in Nat
  OBVIOUS
<1> DEFINE x == (q * a) \div a
<1>2. x \in Nat /\ x * a <= q * a /\ q * a < x * a + a
  BY <1>1, Division
<1> HIDE DEF x
<1>3. (x + 1) * a = x * a + a
  BY <1>2
<1>4. x <= q
  <2>1. SUFFICES ASSUME x >= q + 1 PROVE FALSE
    BY <1>2
  <2>2. x * a >= (q + 1) * a /\ (q + 1) * a = q * a + a
    BY <1>2, <2>1
  <2> QED BY <1>1, <1>2, <2>2
<1>5. q <= x
  <2>1. SUFFICES ASSUME q >= x + 1 PROVE FALSE
    BY <1>2
  <2>2. q * a >= (x + 1) * a
    BY <1>2, <2>1
  <2> QED BY <1>1, <1>2, <1>3, <2>2
<1>6. x = q
  BY <1>2, <1>4, <1>5
<1> QED BY <1>6 DEF x

LEMMA EntriesCorrect ==
  ASSUME NEW pcm \in Seq(Sample), opus \in BOOLEAN
  PROVE  /\ Entries(pcm) \in Seq(Seq(Sample))
         /\ \A i \in 1 .. Len(Entries(pcm)) : Len(Entries(pcm)[i]) = Entry
         /\ Len(Entries(pcm)) * FramesOf = (Len(pcm) \div Packet) * AudioFrames
         /\ Rest(pcm) \in Seq(Sample) /\ Len(Rest(pcm)) < Packet
         /\ FlattenSeq(Entries(pcm)) \o Rest(pcm) = pcm
<1> DEFINE L == Len(pcm)
           q == L \div Packet
           P == Packet
           n == (L - (L % P)) \div Entry
<1>1. L \in Nat /\ P \in Nat \ {0} /\ AudioFrames \in Nat \ {0} /\ SAMPLES_IN_10MS \in Nat \ {0}
  BY Constants
<1>2. q \in Nat /\ q * P <= L /\ L < q * P + P /\ L % P = L - q * P
  <2> HIDE DEF L, P
  <2> QED BY <1>1, Division DEF P
<1>3. q * P \in Nat /\ L - (L % P) = q * P
  <2> HIDE DEF L, P, q
  <2> QED BY <1>1, <1>2
<1>4. /\ Entry \in Nat \ {0} /\ FramesOf \in Nat \ {0}
      /\ n \in Nat /\ n * Entry = q * P /\ n * FramesOf = q * AudioFrames
  <2> HIDE DEF q, L
  <2>1. CASE opus
    <3>1. FramesOf = AudioFrames /\ Entry = P
      BY <2>1 DEF FramesOf, Entry, Packet
    <3>2. n = q
      <4>1. n = (q * P) \div P
        BY <1>3, <3>1
      <4> HIDE DEF n, P
      <4> QED BY <1>1, <1>2, <4>1, WholePackets
    <3> QED BY <1>1, <1>2, <3>1, <3>2
  <2>2. CASE ~opus
    <3>1. FramesOf = 1 /\ Entry = SAMPLES_IN_10MS
      BY <1>1, <2>2 DEF FramesOf, Entry
    <3>2. q * P = (q * AudioFrames) * SAMPLES_IN_10MS /\ q * AudioFrames \in Nat
      BY <1>1, <1>2 DEF Packet
    <3>3. n = q * AudioFrames
      <4> DEFINE m == q * AudioFrames
      <4>1. n = (m * SAMPLES_IN_10MS) \div SAMPLES_IN_10MS /\ m \in Nat
        BY <1>3, <3>1, <3>2
      <4> HIDE DEF m, n
      <4>2. n = m
        BY <1>1, <4>1, WholePackets
      <4> QED BY <4>2 DEF m
    <3> HIDE DEF n, P
    <3>4. n * 1 = n
      BY <3>2, <3>3
    <3> QED BY <1>1, <3>1, <3>2, <3>3, <3>4
  <2> QED BY <2>1, <2>2
<1> DEFINE pieces == Cut(pcm, Entry, n)
<1>5. Entries(pcm) = pieces
  BY DEF Entries, Entry, Cut
<1>6. /\ pieces \in Seq(Seq(Sample)) /\ Len(pieces) = n /\ \A i \in 1 .. n : Len(pieces[i]) = Entry
      /\ FlattenSeq(pieces) = SubSeq(pcm, 1, q * P)
  <2> HIDE DEF n, q, P
  <2>1. n * Entry <= Len(pcm)
    BY <1>2, <1>4
  <2>2. /\ pieces \in Seq(Seq(Sample)) /\ Len(pieces) = n /\ \A i \in 1 .. n : Len(pieces[i]) = Entry
        /\ FlattenSeq(pieces) = SubSeq(pcm, 1, n * Entry)
    BY <1>4, <2>1, FlattenPieces
  <2> QED BY <1>4, <2>2
<1>7. Rest(pcm) = SubSeq(pcm, q * P + 1, L)
  BY <1>3 DEF Rest
<1> HIDE DEF pieces, n, q
<1>8. Rest(pcm) \in Seq(Sample) /\ Len(Rest(pcm)) < P
  <2> DEFINE m == q * P
             k == L - m
  <2>1. m \in Nat /\ k \in Nat /\ m + k = L /\ k < P
    BY <1>1, <1>2, <1>3
  <2> HIDE DEF m, k
  <2>2. Part(pcm, m, k) \in Seq(Sample) /\ Len(Part(pcm, m, k)) = k
    BY <2>1, PartType
  <2>3. Rest(pcm) = Part(pcm, m, k)
    BY <1>7, <2>1 DEF m, Part
  <2> QED BY <2>1, <2>2, <2>3
<1>9. SubSeq(pcm, 1, q * P) \o SubSeq(pcm, q * P + 1, L) = pcm
  <2> DEFINE m == q * P
  <2>1. 1 \in 1 .. Len(pcm) + 1 /\ m \in 1 - 1 .. Len(pcm) /\ L \in m .. Len(pcm)
    BY <1>1, <1>2, <1>3
  <2> HIDE DEF m
  <2>2. SubSeq(pcm, 1, m) \o SubSeq(pcm, m + 1, L) = SubSeq(pcm, 1, L)
    BY <2>1, ConcatAdjacentSubSeq
  <2>3. SubSeq(pcm, 1, L) = pcm
    BY SubSeqFull
  <2>4. SubSeq(pcm, 1, m) \o SubSeq(pcm, m + 1, L) = pcm
    <3> HIDE DEF L
    <3> QED BY <2>2, <2>3
  <2> QED BY <2>4 DEF m
<1>10. Len(pieces) * FramesOf = q * AudioFrames
  BY <1>4, <1>6
<1> QED BY <1>5, <1>6, <1>7, <1>8, <1>9, <1>10 DEF q

(* The player's sleep is what is queued but two packets, wrapped or not.       *)
LEMMA Wrapped ==
  ASSUME NEW a \in Int, NEW n \in Nat \ {0}, - n <= a, a < n
  PROVE  a % n = IF a >= 0 THEN a ELSE a + n
<1>1. a = n * (a \div n) + (a % n) /\ a % n \in 0 .. n - 1 /\ a \div n \in Int
  OBVIOUS
<1> DEFINE q == a \div n
           m == a % n
<1>2. a = n * q + m /\ m \in 0 .. n - 1 /\ q \in Int
  BY <1>1
<1> HIDE DEF q, m
<1>3. q < 1
  <2>1. SUFFICES ASSUME q >= 1 PROVE FALSE
    BY <1>2
  <2>2. n * q >= n * 1 /\ n * q \in Int
    BY <1>2, <2>1
  <2> QED BY <1>2, <2>2
<1>4. q > -2
  <2>1. SUFFICES ASSUME q <= -2 PROVE FALSE
    BY <1>2
  <2>2. n * q <= n * (-2) /\ n * q \in Int
    BY <1>2, <2>1
  <2> QED BY <1>2, <2>2
<1>5. q = 0 \/ q = -1
  BY <1>2, <1>3, <1>4
<1>6. CASE q = 0
  BY <1>2, <1>6 DEF m
<1>7. CASE q = -1
  <2>1. n * q = - n
    BY <1>7
  <2>2. m = a + n /\ a < 0
    BY <1>2, <2>1
  <2> QED BY <2>2 DEF m
<1> QED BY <1>5, <1>6, <1>7

LEMMA DelayValue ==
  ASSUME NEW entries \in Nat, NEW b \in Nat, opus \in BOOLEAN,
         entries * FramesOf <= 3 * AudioFrames + b, 2 * (AudioFrames + b) < RepValues
  PROVE  Delay(entries) = entries * FramesOf - 2 * AudioFrames
<1> DEFINE Q == entries * FramesOf
           x == Q - 2 * AudioFrames
           y == x % SizeValues
<1>1. FramesOf \in Nat /\ AudioFrames \in Nat \ {0} /\ RepValues \in Nat /\ SizeValues = RepValues
      /\ 4 * AudioFrames <= RepValues
  BY Constants, PipelineAssumption, PacingAssumption DEF FramesOf
<1>2. Q \in Nat /\ x \in Int /\ x >= - 2 * AudioFrames /\ x <= AudioFrames + b
  BY <1>1
<1> HIDE DEF Q, x
<1>3. - RepValues <= x /\ x < RepValues /\ RepValues \in Nat \ {0}
  BY <1>1, <1>2
<1>4. y = IF x >= 0 THEN x ELSE x + RepValues
  BY <1>1, <1>2, <1>3, Wrapped
<1> HIDE DEF y
<1>5. Signed(y) = x
  BY <1>1, <1>2, <1>4 DEF Signed
<1> QED BY <1>5 DEF Delay, y, x, Q

(* What a Send adds: no more than Burst.                                      *)
LEMMA BurstBounds ==
  ASSUME NEW n \in Chunks \cup {0}, NEW r \in Formats, NEW s \in Formats,
         NEW k \in 0 .. FRAME_SIZE - 1, NEW p \in Nat, p < Packet,
         NEW o \in Nat, o <= RoundUp(FRAME_SIZE * s[1], s[2]),
         NEW m \in Nat, m <= RoundUp(Whole(k + n) * r[1], r[2])
  PROVE  ((p + (o + m)) \div Packet) * AudioFrames <= Burst(n, r, s)
<1> DEFINE a == r[1]
           b == r[2]
           c == s[1]
           d == s[2]
           w == Whole(k + n)
<1>1. /\ n \in Nat /\ k \in Nat /\ a \in Nat /\ c \in Nat /\ b \in Nat \ {0} /\ d \in Nat \ {0}
      /\ FRAME_SIZE \in Nat \ {0}
      /\ Packet \in Nat \ {0} /\ AudioFrames \in Nat
  BY Constants DEF Ratio
<1>2. w \in Nat /\ w <= n + FRAME_SIZE
  <2> DEFINE l == k + n
  <2>1. l \in Nat /\ l <= n + FRAME_SIZE
    BY <1>1
  <2> HIDE DEF l
  <2>2. Whole(l) \in Nat /\ Whole(l) <= l
    BY <2>1, WholeType
  <2> DEFINE v == Whole(l)
  <2>3. v \in Nat /\ v <= l
    BY <2>2
  <2> HIDE DEF v
  <2>4. v <= n + FRAME_SIZE
    BY <1>1, <2>1, <2>3
  <2> QED BY <2>3, <2>4 DEF v, l
<1> HIDE DEF a, b, c, d, w
<1> DEFINE x == w * a
           y == (n + FRAME_SIZE) * a
           z == FRAME_SIZE * c
<1>3. x \in Nat /\ y \in Nat /\ z \in Nat /\ x <= y
  BY <1>1, <1>2
<1> HIDE DEF x, y, z
<1> DEFINE u == RoundUp(y, b)
           v == RoundUp(z, d)
           t == RoundUp(x, b)
<1>4. u \in Nat /\ v \in Nat /\ t \in Nat /\ t <= u
  BY <1>1, <1>3, RoundUpType
<1>5. o <= v /\ m <= t
  BY DEF t, v, x, z, a, b, c, d, w
<1> HIDE DEF u, v, t
<1> DEFINE e == p + (o + m)
           f == (u + v) + Packet - 1
           g == e \div Packet
           h == f \div Packet
<1>6. e \in Nat /\ f \in Nat /\ e <= f
  BY <1>1, <1>4, <1>5
<1>7. g \in Nat /\ h \in Nat /\ g <= h
  <2> HIDE DEF e, f
  <2> QED BY <1>1, <1>6
<1>8. h = RoundUp(u + v, Packet)
  BY DEF RoundUp
<1> HIDE DEF g, h
<1>9. g * AudioFrames <= h * AudioFrames
  BY <1>1, <1>7
<1>10. Burst(n, r, s) = h * AudioFrames
  BY <1>8 DEF Burst, u, v, y, z, a, b, c, d
<1> QED BY <1>9, <1>10 DEF g

LEMMA SendWay ==
  ASSUME WayInv, Send, UNCHANGED <<opus, bound>>
  PROVE  WayInv'
<1> DEFINE r == resampler
           k == Len(r.in)
           n == chunk
           room == CalculateDstSamplesNumber(r, n)
           result == Resample(r, Run(r.fed + k, n), room)
           x == result.resampler
           data == result.data
           pcm == pcmQueue \o data
           queue == compressedQueue \o Entries(pcm)
           w == Whole(k + n)
           new == Samples(r.song, r.made, x.made)
<1>1. /\ player = "send" /\ rate # NoFormat /\ r.song = song /\ r.rate = rate
      /\ decoded - n = r.fed + k
  BY DEF Send, WayInv, FeedInv
<1>2. /\ Graph(r) /\ r.sink = <<>> /\ r.rate \in Formats /\ k < FRAME_SIZE /\ r.in = Run(r.fed, k)
      /\ r.song \in 0 .. song
  BY DEF WayInv, ResamplerInv
<1>3. /\ r \in State /\ r.made \in Nat /\ r.song \in Nat /\ r.rate \in Ratio /\ k \in Nat /\ r.fed \in Nat
      /\ r.out \in Seq(Sample)
  BY <1>2 DEF Graph, State
<1>4. /\ n \in Chunks \cup {0} /\ n \in Nat /\ decoded \in Nat /\ song \in Nat /\ opus \in BOOLEAN
      /\ pcmQueue \in Seq(Sample)
  BY Constants DEF WayInv, WayType
<1>5. Numbers(decoded - chunk + 1, decoded) = Run(r.fed + k, n)
  <2> DEFINE a == r.fed + k
  <2>0. a \in Nat /\ decoded - n = a
    BY <1>1, <1>3
  <2> HIDE DEF a, n
  <2>1. decoded = a + n
    BY <1>4, <2>0
  <2> QED BY <2>0, <2>1 DEF Run, a, n
<1>6. /\ Graph(x) /\ x.song = r.song /\ x.rate = r.rate /\ x.out = <<>> /\ x.sink = <<>>
      /\ x.fed = r.fed + w /\ x.in = Run(r.fed + w, (k + n) - w)
      /\ r.made <= x.made /\ x.made - r.made <= RoundUp(w * r.rate[1], r.rate[2])
      /\ data = r.out \o new /\ Len(data) <= room
  <2> HIDE DEF r, k
  <2>1. Waiting(r, k)
    BY <1>2 DEF Waiting
  <2> HIDE DEF n
  <2>2. Resampled(r, k, n)
    BY <1>3, <1>4, <2>1, ResampleCorrect
  <2> QED BY <2>2, Zenon DEF Resampled
<1>7. /\ resampler' = x /\ pcmQueue' = Rest(pcm) /\ compressedQueue' = queue
      /\ wait' = IF Len(pcm) >= Packet /\ data # <<>> THEN Delay(Len(queue)) ELSE 0
      /\ player' = IF Len(data) > room THEN "overrun" ELSE IF wait' > 0 THEN "sleep" ELSE "loop"
      /\ UNCHANGED <<decoding, stopped, sending, ended>>
  BY <1>5 DEF Send
<1>8. x.made \in Nat /\ x \in State
  <2> HIDE DEF x
  <2> QED BY <1>6 DEF Graph, State
<1>9. new \in Seq(Sample) /\ Len(new) = x.made - r.made
  <2> DEFINE c == r.song
             d == r.made
             e == x.made
  <2>1. c \in Nat /\ d \in Nat /\ e \in Nat /\ d <= e
    BY <1>3, <1>6, <1>8
  <2> HIDE DEF c, d, e
  <2>2. Samples(c, d, e) \in Seq(Sample) /\ Len(Samples(c, d, e)) = e - d
    BY <2>1, SamplesType
  <2> QED BY <2>2 DEF c, d, e
<1>10. w \in Nat /\ w <= k + n /\ (k + n) - w \in 0 .. FRAME_SIZE - 1
  <2> DEFINE l == k + n
  <2>1. l \in Nat
    BY <1>3, <1>4
  <2> HIDE DEF l
  <2>2. Whole(l) \in Nat /\ Whole(l) <= l /\ l - Whole(l) \in 0 .. FRAME_SIZE - 1
    BY <2>1, WholeType
  <2> QED BY <2>2 DEF l
<1> HIDE DEF room, result, w, new, k
<1>11. data \in Seq(Sample) /\ Len(data) = Len(r.out) + (x.made - r.made) /\ Len(r.out) \in Nat
  <2> DEFINE o == r.out
  <2>1. o \in Seq(Sample) /\ data = o \o new
    BY <1>3, <1>6
  <2> HIDE DEF o, data
  <2>2. o \o new \in Seq(Sample) /\ Len(o \o new) = Len(o) + Len(new) /\ Len(o) \in Nat
    BY <1>9, <2>1, SamplesJoin
  <2> QED BY <1>9, <2>1, <2>2 DEF o
<1> HIDE DEF data, x
<1>12. pcm \in Seq(Sample) /\ Len(pcm) = Len(pcmQueue) + Len(data)
  BY <1>4, <1>11, ConcatProperties
<1> HIDE DEF pcm
<1>13. /\ Entries(pcm) \in Seq(Seq(Sample))
       /\ \A i \in 1 .. Len(Entries(pcm)) : Len(Entries(pcm)[i]) = Entry
       /\ Len(Entries(pcm)) * FramesOf = (Len(pcm) \div Packet) * AudioFrames
       /\ Rest(pcm) \in Seq(Sample) /\ Len(Rest(pcm)) < Packet
       /\ FlattenSeq(Entries(pcm)) \o Rest(pcm) = pcm
  BY <1>4, <1>12, EntriesCorrect
<1>14. /\ queue \in Seq(Seq(Sample)) /\ Len(queue) = Len(compressedQueue) + Len(Entries(pcm))
       /\ \A i \in 1 .. Len(queue) : Len(queue[i]) = Entry
  <2> DEFINE a == compressedQueue
             b == Entries(pcm)
  <2>1. /\ a \in Seq(Seq(Sample)) /\ \A i \in 1 .. Len(a) : Len(a[i]) = Entry
        /\ b \in Seq(Seq(Sample)) /\ \A i \in 1 .. Len(b) : Len(b[i]) = Entry
    BY <1>13 DEF WayInv, OrderInv
  <2> HIDE DEF a, b
  <2>2. /\ a \o b \in Seq(Seq(Sample)) /\ Len(a \o b) = Len(a) + Len(b)
        /\ \A i \in 1 .. Len(a) + Len(b) : (a \o b)[i] = IF i <= Len(a) THEN a[i] ELSE b[i - Len(a)]
    BY <2>1, ConcatProperties
  <2>3. ASSUME NEW i \in 1 .. Len(a) + Len(b) PROVE Len((a \o b)[i]) = Entry
    <3>1. CASE i <= Len(a)
      <4>1. i \in 1 .. Len(a) /\ (a \o b)[i] = a[i]
        BY <2>1, <2>2, <3>1
      <4> QED BY <2>1, <4>1
    <3>2. CASE ~(i <= Len(a))
      <4> DEFINE j == i - Len(a)
      <4>1. j \in 1 .. Len(b) /\ (a \o b)[i] = b[j]
        BY <2>1, <2>2, <3>2
      <4> HIDE DEF j
      <4> QED BY <2>1, <4>1
    <3> QED BY <3>1, <3>2
  <2>4. \A i \in 1 .. Len(a \o b) : Len((a \o b)[i]) = Entry
    BY <2>2, <2>3
  <2> QED BY <2>2, <2>4 DEF a, b
<1>15. FlattenSeq(queue) = FlattenSeq(compressedQueue) \o FlattenSeq(Entries(pcm))
  <2>1. compressedQueue \in Seq(Seq(Sample))
    BY DEF WayInv, OrderInv
  <2> QED BY <1>13, <2>1, FlattenConcat
<1> HIDE DEF queue
<1>16. /\ Queued \in Nat /\ Queued' \in Nat
       /\ Queued' = Queued + (Len(pcm) \div Packet) * AudioFrames
       /\ Queued' = Len(queue) * FramesOf /\ Len(queue) \in Nat
  <2> DEFINE a == Len(compressedQueue)
             b == Len(Entries(pcm))
             F == FramesOf
  <2>1. a \in Nat /\ b \in Nat /\ F \in Nat
    BY <1>4, <1>13, Constants DEF WayInv, OrderInv, FramesOf
  <2>2. Queued = a * F /\ Queued' = Len(queue) * F /\ Len(queue) = a + b
    BY <1>7, <1>14 DEF Queued, FramesOf
  <2> HIDE DEF a, b, F
  <2>3. (a + b) * F = a * F + b * F /\ a * F \in Nat /\ b * F \in Nat
    BY <2>1
  <2>4. b * F = (Len(pcm) \div Packet) * AudioFrames
    BY <1>13 DEF b, F
  <2>5. Queued' = Queued + b * F /\ a + b \in Nat
    BY <2>1, <2>2, <2>3
  <2> QED BY <2>1, <2>2, <2>3, <2>4, <2>5 DEF F
<1>17. PICK s \in Formats : Len(r.out) <= RoundUp(FRAME_SIZE * s[1], s[2])
  BY DEF WayInv, ResamplerInv
<1>18. Len(pcmQueue) \in Nat /\ Len(pcmQueue) < Packet
  BY <1>4 DEF WayInv, PaceInv
<1>19. (Len(pcm) \div Packet) * AudioFrames <= Burst(n, r.rate, s)
  <2> DEFINE o == Len(r.out)
             m == x.made - r.made
             f == r.rate
             p == Len(pcmQueue)
  <2>1. /\ n \in Chunks \cup {0} /\ f \in Formats /\ s \in Formats /\ k \in 0 .. FRAME_SIZE - 1
        /\ p \in Nat /\ p < Packet /\ o \in Nat /\ o <= RoundUp(FRAME_SIZE * s[1], s[2])
    <3>1. k \in 0 .. FRAME_SIZE - 1
      BY <1>2, <1>3, Constants
    <3> QED BY <1>2, <1>4, <1>11, <1>17, <1>18, <3>1
  <2>2. m \in Nat /\ m <= RoundUp(Whole(k + n) * f[1], f[2])
    BY <1>3, <1>6, <1>8 DEF w
  <2>3. Len(pcm) = p + (o + m)
    BY <1>11, <1>12
  <2> HIDE DEF o, m, f, p, n, r
  <2>4. ((p + (o + m)) \div Packet) * AudioFrames <= Burst(n, f, s)
    BY <2>1, <2>2, BurstBounds
  <2> QED BY <2>3, <2>4 DEF f
<1>20. /\ Burst(n, r.rate, s) \in Nat
       /\ 2 * (AudioFrames + Burst(n, r.rate, s)) < RepValues
  <2> DEFINE f == r.rate
  <2>1. f \in Formats
    BY <1>2
  <2> HIDE DEF f, n, r
  <2>2. Burst(n, f, s) \in Nat /\ 2 * (AudioFrames + Burst(n, f, s)) < RepValues
    BY <1>4, <2>1, BurstType, PacingAssumption
  <2> QED BY <2>2 DEF f
<1>21. Queued + sender <= 3 * AudioFrames /\ sender \in 0 .. AudioFrames
  BY <1>1 DEF WayInv, PaceInv, WayType
<1>22. /\ Queued' <= 3 * AudioFrames + Burst(n, r.rate, s)
       /\ Delay(Len(queue)) = Queued' - 2 * AudioFrames
  <2> DEFINE b == Burst(n, r.rate, s)
             g == (Len(pcm) \div Packet) * AudioFrames
  <2>1. b \in Nat /\ g <= b /\ Queued' = Queued + g /\ 2 * (AudioFrames + b) < RepValues /\ g \in Int
    <3>1. (Len(pcm) \div Packet) \in Nat
      <4> DEFINE l == Len(pcm)
      <4>1. l \in Nat
        BY <1>12
      <4> HIDE DEF l
      <4>2. l \div Packet \in Nat
        BY <4>1, Constants
      <4> QED BY <4>2 DEF l
    <3>2. g \in Int
      BY <3>1, Constants
    <3> QED BY <1>16, <1>19, <1>20, <3>2
  <2> HIDE DEF b, g
  <2>2. Queued' <= 3 * AudioFrames + b
    BY <1>16, <1>21, <2>1, Constants
  <2>3. Len(queue) * FramesOf <= 3 * AudioFrames + b
    BY <1>16, <2>2
  <2>4. Delay(Len(queue)) = Len(queue) * FramesOf - 2 * AudioFrames
    BY <1>4, <1>16, <2>1, <2>3, DelayValue
  <2> QED BY <1>16, <2>2, <2>4 DEF b
<1>23. /\ wait' \in Int
       /\ wait' > 0 => wait' = Queued' - 2 * AudioFrames
       /\ wait' <= 0 => - 2 * AudioFrames <= wait' /\ Queued' + sender <= 3 * AudioFrames
  <2>1. CASE Len(pcm) >= Packet /\ data # <<>>
    <3>1. wait' = Queued' - 2 * AudioFrames
      BY <1>7, <1>22, <2>1
    <3> QED BY <1>16, <1>21, <3>1, Constants
  <2>2. CASE ~(Len(pcm) >= Packet /\ data # <<>>)
    <3>1. wait' = 0
      BY <1>7, <2>2
    <3>2. Len(pcm) < Packet /\ Len(pcm) \in Nat
      <4>1. Len(pcm) \in Nat
        BY <1>12
      <4>2. CASE data = <<>>
        <5>1. Len(pcm) = Len(pcmQueue)
          BY <1>12, <1>18, <4>2
        <5> QED BY <1>18, <4>1, <5>1
      <4>3. CASE data # <<>>
        BY <2>2, <4>1, <4>3, Constants
      <4> QED BY <4>2, <4>3
    <3>3. Len(pcm) \div Packet = 0
      BY <3>2, Constants
    <3>4. Queued' = Queued
      BY <1>16, <3>3, Constants
    <3> QED BY <1>21, <3>1, <3>4, Constants
  <2> QED BY <2>1, <2>2
<1>24. player' = IF wait' > 0 THEN "sleep" ELSE "loop"
  <2>1. ~(Len(data) > room)
    <3>1. Len(data) \in Int
      BY <1>11
    <3>2. room \in Int
      <4>1. w * r.rate[1] \in Nat /\ r.rate[2] \in Nat \ {0}
        BY <1>3, <1>10 DEF Ratio
      <4> DEFINE a == w * r.rate[1]
                 b == r.rate[2]
      <4>2. a \in Nat /\ b \in Nat \ {0}
        BY <4>1
      <4> HIDE DEF a, b
      <4>3. RoundUp(a, b) \in Nat
        BY <4>2, RoundUpNat
      <4>4. room = RoundUp(a, b) + Len(r.out)
        BY DEF room, CalculateDstSamplesNumber, w, Whole, a, b, k
      <4> QED BY <1>11, <4>3, <4>4
    <3> QED BY <1>6, <3>1, <3>2
  <2> QED BY <1>7, <2>1
<1>25. WayType'
  <2>1. pcmQueue' \in Seq(Sample)
    BY <1>7, <1>13
  <2>2. player' \in Players \ {"overrun"}
    BY <1>24 DEF Players, Faults, Formatting
  <2> QED BY <1>7, <1>23, <2>1, <2>2 DEF WayInv, WayType, decoding, sending
<1>26. Len(x.in) = (k + n) - w /\ Len(x.in) \in Nat
  <2> DEFINE a == r.fed + w
             b == (k + n) - w
  <2>1. a \in Nat /\ b \in Nat
    BY <1>3, <1>10
  <2> HIDE DEF a, b
  <2>2. Len(Run(a, b)) = b
    BY <2>1, RunType
  <2>3. x.in = Run(a, b)
    BY <1>6 DEF a, b
  <2>4. Len(x.in) = b /\ Len(x.in) \in Nat
    BY <2>1, <2>2, <2>3
  <2> QED BY <2>4 DEF b
<1>27. ResamplerInv'
  <2>1. Len(x.in) < FRAME_SIZE
    BY <1>10, <1>26, Constants
  <2>2. x.in = Run(x.fed, Len(x.in))
    BY <1>6, <1>26
  <2>3. x.out = <<>> /\ Len(x.out) = 0 /\ 0 <= RoundUp(FRAME_SIZE * NoFormat[1], NoFormat[2])
    <3>1. FRAME_SIZE * 0 = 0 /\ RoundUp(0, 1) = 0
      BY Constants DEF RoundUp
    <3>2. NoFormat[1] = 0 /\ NoFormat[2] = 1
      BY DEF NoFormat
    <3> QED BY <1>6, <3>1, <3>2
  <2>4. \E f \in Formats : Len(x.out) <= RoundUp(FRAME_SIZE * f[1], f[2])
    BY <2>3, Constants
  <2>5. song' = song /\ x.song \in 0 .. song /\ x.rate \in Formats
    BY <1>2, <1>6, <1>7 DEF decoding
  <2> HIDE DEF r
  <2> QED BY <1>6, <1>7, <2>1, <2>2, <2>3, <2>4, <2>5 DEF ResamplerInv
<1>28. FeedInv'
  <2>1. decoded' = x.fed + Len(x.in)
    <3> DEFINE a == r.fed
    <3>1. x.fed = a + w /\ a \in Nat /\ decoded - n = a + k /\ decoded' = decoded
      BY <1>1, <1>3, <1>6, <1>7 DEF decoding
    <3> HIDE DEF a, n, r
    <3>2. decoded = (a + w) + ((k + n) - w)
      BY <1>3, <1>4, <1>10, <3>1
    <3> QED BY <1>26, <3>1, <3>2
  <2>2. player' \in {"sleep", "loop"} /\ rate' = rate /\ song' = song /\ x.song = song /\ x.rate = rate
    BY <1>1, <1>6, <1>7, <1>24 DEF decoding
  <2> QED BY <1>1, <1>7, <2>1, <2>2 DEF FeedInv, Formatting
<1>29. Way' = Way \o new
  <2> DEFINE h == <<heard>>
             c == FlattenSeq(compressedQueue)
             e == FlattenSeq(Entries(pcm))
             t == Rest(pcm)
             o == r.out
             p == pcmQueue
  <2>1. /\ h \in Seq(Sample) /\ c \in Seq(Sample) /\ o \in Seq(Sample) /\ p \in Seq(Sample)
        /\ e \in Seq(Sample) /\ t \in Seq(Sample)
    BY <1>3, <1>4, <1>13, WayParts, FlattenType
  <2> DEFINE f == h \o c
             d == f \o p
  <2>2. Way' = ((h \o (c \o e)) \o t) \o <<>>
    BY <1>6, <1>7, <1>15 DEF Way, sending
  <2>3. Way = ((h \o c) \o p) \o o
    BY DEF Way
  <2>4. e \o t = p \o (o \o new)
    BY <1>6, <1>13 DEF pcm
  <2> HIDE DEF h, c, e, t, o, p
  <2>5. f \in Seq(Sample)
    <3>1. h \in Seq(Sample) /\ c \in Seq(Sample)
      BY <2>1
    <3> QED BY <3>1, SamplesJoin
  <2>6. f \o e = h \o (c \o e)
    <3>1. h \in Seq(Sample) /\ c \in Seq(Sample) /\ e \in Seq(Sample)
      BY <2>1
    <3> QED BY <3>1, SamplesAssociate
  <2> HIDE DEF f
  <2>7. d \in Seq(Sample)
    <3>1. p \in Seq(Sample)
      BY <2>1
    <3> QED BY <2>5, <3>1, SamplesJoin
  <2>8. d \o (o \o new) = f \o (p \o (o \o new))
    <3> DEFINE g == o \o new
    <3>1. p \in Seq(Sample) /\ o \in Seq(Sample)
      BY <2>1
    <3>2. g \in Seq(Sample)
      BY <1>9, <3>1, SamplesJoin
    <3> HIDE DEF g
    <3>3. d \o g = f \o (p \o g)
      BY <2>5, <3>1, <3>2, SamplesAssociate
    <3> QED BY <3>3 DEF g
  <2> HIDE DEF d
  <2>9. (d \o o) \o new = d \o (o \o new)
    <3>1. o \in Seq(Sample)
      BY <2>1
    <3> QED BY <1>9, <2>7, <3>1, SamplesAssociate
  <2>10. (f \o e) \o t = f \o (e \o t)
    <3>1. e \in Seq(Sample) /\ t \in Seq(Sample)
      BY <2>1
    <3> QED BY <2>5, <3>1, SamplesAssociate
  <2> DEFINE all == (f \o e) \o t
  <2>11. all \in Seq(Sample)
    <3> DEFINE b == f \o e
    <3>1. e \in Seq(Sample) /\ t \in Seq(Sample)
      BY <2>1
    <3>2. b \in Seq(Sample)
      BY <2>5, <3>1, SamplesJoin
    <3> HIDE DEF b
    <3>3. b \o t \in Seq(Sample)
      BY <3>1, <3>2, SamplesJoin
    <3> QED BY <3>3 DEF b
  <2>12. all \o <<>> = all
    <3> HIDE DEF all
    <3> QED BY <2>11, ConcatEmptySeq
  <2>13. all = (d \o o) \o new
    BY <2>4, <2>8, <2>9, <2>10, Zenon
  <2> QED BY <2>2, <2>3, <2>6, <2>12, <2>13 DEF d, f
<1>30. OrderInv'
  <2>1. Ordered(ended, Way, r.song, r.made)
    BY DEF WayInv, OrderInv
  <2> DEFINE c == r.song
             d == r.made
             u == Way
             m == x.made
  <2>2. c \in Nat /\ d \in Nat /\ m \in Nat /\ d <= m /\ Ordered(ended, u, c, d)
    BY <1>3, <1>6, <1>8, <2>1
  <2> HIDE DEF c, d, u, m
  <2>3. Ordered(ended, u \o Samples(c, d, m), c, m)
    BY <2>2, OrderedAppend
  <2>4. Ordered(ended, Way', x.song, x.made)
    BY <1>6, <1>29, <2>3 DEF c, d, u, m, new
  <2>5. \A i \in x.song .. bound.songs : ended[i] = 0
    BY <1>6 DEF WayInv, OrderInv
  <2> HIDE DEF r, n
  <2>6. Entry' = Entry
    BY DEF Entry, FramesOf
  <2> QED BY <1>7, <1>14, <2>4, <2>5, <2>6 DEF OrderInv
<1>31. PaceInv'
  <2>1. sender' = sender
    BY <1>7 DEF sending
  <2>2. Len(pcmQueue') < Packet
    BY <1>7, <1>13
  <2>3. Bounded'
    <3>1. \E i \in Chunks \cup {0}, j, l \in Formats : Queued' <= 3 * AudioFrames + Burst(i, j, l)
      BY <1>2, <1>4, <1>17, <1>22
    <3> QED BY <3>1 DEF Bounded, Burst, Packet
  <2>4. CASE wait' > 0
    <3>1. player' = "sleep" /\ wait' = Queued' - 2 * AudioFrames
      BY <1>23, <1>24, <2>4
    <3>2. - Lateness <= wait'
      BY <1>23, <2>4, Constants
    <3>3. wait' + 2 * AudioFrames <= Queued' + sender' /\ Queued' + sender' <= wait' + 3 * AudioFrames
      BY <1>16, <1>21, <1>23, <2>1, <3>1, Constants
    <3> QED BY <2>2, <2>3, <3>1, <3>2, <3>3 DEF PaceInv, Packet
  <2>5. CASE ~(wait' > 0)
    <3>1. player' = "loop" /\ wait' <= 0 /\ - 2 * AudioFrames <= wait' /\ Queued' + sender' <= 3 * AudioFrames
      BY <1>23, <1>24, <2>1, <2>5
    <3> QED BY <2>2, <2>3, <3>1 DEF PaceInv, Packet
  <2> QED BY <2>4, <2>5
<1> QED BY <1>25, <1>27, <1>28, <1>30, <1>31 DEF WayInv

(* The queue thread takes n entries: of the way, what is before the last       *)
(* sample of the n-th leaves.                                                 *)
LEMMA FlattenSplit ==
  ASSUME NEW q \in Seq(Seq(Sample)), NEW n \in 1 .. Len(q), q[n] # <<>>
  PROVE  /\ Last(q[n]) \in Sample /\ SubSeq(q, n + 1, Len(q)) \in Seq(Seq(Sample))
         /\ \E y \in Seq(Sample) :
              FlattenSeq(q) = (y \o <<Last(q[n])>>) \o FlattenSeq(SubSeq(q, n + 1, Len(q)))
<1> DEFINE L == Len(q)
           e == q[n]
           m == Len(e)
           front == SubSeq(e, 1, m - 1)
           pre == SubSeq(q, 1, n - 1)
           upTo == SubSeq(q, 1, n)
           suf == SubSeq(q, n + 1, L)
           last == <<Last(e)>>
<1>1. L \in Nat /\ n \in Nat /\ e \in Seq(Sample) /\ e # <<>> /\ m \in Nat /\ m > 0
  OBVIOUS
<1>2. e = front \o last /\ front \in Seq(Sample) /\ last \in Seq(Sample) /\ Last(e) \in Sample
  <2> HIDE DEF e
  <2>1. Last(e) = e[m] /\ e[m] \in Sample
    BY <1>1 DEF Last
  <2>2. 1 \in 1 .. m /\ m \in 1 .. m
    BY <1>1
  <2>3. SubSeq(e, 1, m) = SubSeq(e, 1, m - 1) \o <<e[m]>>
    BY <1>1, <2>2, SubSeqRecursiveSecond
  <2>4. SubSeq(e, 1, m) = e
    BY <1>1, SubSeqFull
  <2>5. front \in Seq(Sample)
    BY <1>1, SubSeqProperties
  <2> DEFINE l == e[m]
  <2> HIDE DEF l, m, front
  <2>6. Last(e) = l /\ l \in Sample /\ e = front \o <<l>>
    <3>1. e = front \o <<e[m]>>
      BY <2>3, <2>4, Zenon DEF front
    <3> QED BY <2>1, <3>1 DEF l
  <2>7. <<l>> \in Seq(Sample)
    BY <2>6
  <2> QED BY <2>5, <2>6, <2>7
<1>3. /\ pre \in Seq(Seq(Sample)) /\ upTo \in Seq(Seq(Sample)) /\ suf \in Seq(Seq(Sample))
      /\ q = upTo \o suf /\ upTo = pre \o <<e>>
  <2>1. pre \in Seq(Seq(Sample)) /\ upTo \in Seq(Seq(Sample)) /\ suf \in Seq(Seq(Sample))
    BY <1>1, SubSeqProperties
  <2>2. upTo = pre \o <<e>>
    <3>1. 1 \in 1 .. Len(q) /\ n \in 1 .. Len(q)
      BY <1>1
    <3> QED BY <3>1, SubSeqRecursiveSecond
  <2>3. q = upTo \o suf
    <3>1. 1 \in 1 .. Len(q) + 1 /\ n \in 1 - 1 .. Len(q) /\ Len(q) \in n .. Len(q)
      BY <1>1
    <3>2. upTo \o suf = SubSeq(q, 1, Len(q))
      BY <3>1, ConcatAdjacentSubSeq
    <3> QED BY <3>2, SubSeqFull
  <2> QED BY <2>1, <2>2, <2>3
<1>4. Last(q[n]) = Last(e) /\ SubSeq(q, n + 1, Len(q)) = suf
  OBVIOUS
<1> HIDE DEF L, m, front, pre, upTo, suf, last, e
<1>5. FlattenSeq(q) = FlattenSeq(upTo) \o FlattenSeq(suf)
  BY <1>3, FlattenConcat
<1>6. FlattenSeq(upTo) = FlattenSeq(pre) \o e
  <2>1. upTo = Append(pre, e)
    BY <1>1, <1>3
  <2> QED BY <1>1, <1>3, <2>1, FlattenAppend
<1>7. FlattenSeq(pre) \in Seq(Sample)
  BY <1>3, FlattenType
<1> DEFINE g == FlattenSeq(pre)
           y == g \o front
<1>8. g \in Seq(Sample)
  BY <1>7
<1> HIDE DEF g
<1>9. y \in Seq(Sample)
  BY <1>2, <1>8, SamplesJoin
<1>10. y \o last = g \o e
  <2>1. (g \o front) \o last = g \o (front \o last)
    BY <1>2, <1>8, SamplesAssociate
  <2> QED BY <1>2, <2>1
<1> HIDE DEF y
<1>11. FlattenSeq(q) = (y \o last) \o FlattenSeq(suf)
  BY <1>5, <1>6, <1>10 DEF g
<1> QED BY <1>2, <1>3, <1>4, <1>9, <1>11 DEF last

LEMMA SendPacketWay ==
  ASSUME WayInv, SendPacket, UNCHANGED <<opus, bound>>
  PROVE  WayInv'
<1> DEFINE q == compressedQueue
           L == Len(q)
           n == IF opus THEN 1 ELSE Min({AudioFrames, L})
           F == FramesOf
           A == AudioFrames
           l == Last(q[n])
           suf == SubSeq(q, n + 1, L)
           o == resampler.out
           p == pcmQueue
           h == <<heard>>
           b == FlattenSeq(suf)
<1>1. /\ q \in Seq(Seq(Sample)) /\ q # <<>> /\ L \in Nat /\ L > 0 /\ A \in Nat \ {0}
      /\ \A i \in 1 .. L : Len(q[i]) = Entry
      /\ opus \in BOOLEAN /\ sender = 0 /\ F \in Nat \ {0} /\ F = (IF opus THEN A ELSE 1)
  BY Constants DEF WayInv, OrderInv, WayType, SendPacket, FramesOf
<1>2. /\ n \in 1 .. L /\ n <= A /\ n * F \in 1 .. A
  <2>1. CASE opus
    BY <1>1, <2>1
  <2>2. CASE ~opus
    <3> DEFINE m == Min({A, L})
    <3>0. n = m /\ F = 1
      BY <1>1, <2>2
    <3> HIDE DEF L, n, F
    <3>1. m = IF A <= L THEN A ELSE L
      <4>1. A \in Int /\ L \in Int
        BY <1>1
      <4> HIDE DEF A
      <4> QED BY <4>1, MinOfTwo
    <3> HIDE DEF m
    <3>2. n = m /\ F = 1
      BY <3>0
    <3>3. n * F = n
      BY <1>1, <3>1, <3>2
    <3> QED BY <1>1, <3>1, <3>2, <3>3
  <2> QED BY <2>1, <2>2
<1>3. /\ compressedQueue' = suf /\ heard' = l /\ sender' = n * F
      /\ UNCHANGED <<player, decoding, stopped, wait, resampler, pcmQueue, ended>>
  BY DEF SendPacket
<1> HIDE DEF n, F
<1>4. q[n] # <<>>
  <2>1. Entry \in Nat \ {0}
    BY <1>1, Constants DEF Entry, F
  <2>2. Len(q[n]) = Entry
    BY <1>1, <1>2
  <2> QED BY <2>1, <2>2
<1>5. PICK y \in Seq(Sample) : FlattenSeq(q) = (y \o <<l>>) \o b
  <2> HIDE DEF q
  <2> QED BY <1>1, <1>2, <1>4, FlattenSplit
<1>6. l \in Sample /\ suf \in Seq(Seq(Sample))
  <2> HIDE DEF q
  <2> QED BY <1>1, <1>2, <1>4, FlattenSplit
<1>7. Len(suf) = L - n /\ \A i \in 1 .. L - n : suf[i] = q[n + i]
  <2>1. \A i \in n + 1 .. L : q[i] \in Seq(Sample)
    BY <1>1, <1>2
  <2>2. /\ Len(suf) = IF n + 1 <= L THEN L - (n + 1) + 1 ELSE 0
        /\ \A i \in 1 .. L - (n + 1) + 1 : suf[i] = q[n + 1 + i - 1]
    <3> HIDE DEF q, L
    <3> QED BY <1>1, <1>2, <2>1, SubSeqProperties
  <2>3. L - (n + 1) + 1 = L - n
    BY <1>1, <1>2
  <2>4. Len(suf) = L - n
    BY <1>1, <1>2, <2>2
  <2>5. ASSUME NEW i \in 1 .. L - n PROVE suf[i] = q[n + i]
    <3>1. n + 1 + i - 1 = n + i
      BY <1>2
    <3> QED BY <2>2, <2>3, <3>1
  <2> QED BY <2>4, <2>5
<1> HIDE DEF q, L, l, suf, o, p, h, b
<1>8. /\ o \in Seq(Sample) /\ p \in Seq(Sample) /\ h \in Seq(Sample) /\ <<l>> \in Seq(Sample)
      /\ b \in Seq(Sample)
  <2>1. <<l>> \in Seq(Sample)
    BY <1>6
  <2>2. b \in Seq(Sample)
    BY <1>6, FlattenType DEF b
  <2> QED BY <2>1, <2>2, WayParts DEF o, p, h, WayInv, WayType
<1> DEFINE f == h \o y
           c == <<l>> \o b
           rest == (c \o p) \o o
<1>9. f \in Seq(Sample) /\ c \in Seq(Sample) /\ Len(c) = 1 + Len(b) /\ Len(b) \in Nat
  <2>1. f \in Seq(Sample)
    BY <1>8, SamplesJoin
  <2> DEFINE k == <<l>>
  <2>2. k \in Seq(Sample) /\ Len(k) = 1
    BY <1>8
  <2> HIDE DEF k
  <2>3. k \o b \in Seq(Sample) /\ Len(k \o b) = Len(k) + Len(b) /\ Len(b) \in Nat
    BY <1>8, <2>2, SamplesJoin
  <2> QED BY <2>1, <2>2, <2>3 DEF k
<1>10. Way = f \o rest /\ rest \in Seq(Sample)
  <2>1. Way = ((h \o ((y \o <<l>>) \o b)) \o p) \o o
    BY <1>5 DEF Way, h, p, o, q
  <2> DEFINE k == <<l>>
  <2>2. k \in Seq(Sample)
    BY <1>8
  <2> HIDE DEF k
  <2>3. (y \o k) \o b = y \o (k \o b)
    <3>1. b \in Seq(Sample)
      BY <1>8
    <3> QED BY <2>2, <3>1, SamplesAssociate
  <2>4. (y \o <<l>>) \o b = y \o c
    BY <2>3 DEF k
  <2> HIDE DEF c
  <2>5. f \o c = h \o (y \o c)
    <3>1. h \in Seq(Sample) /\ c \in Seq(Sample)
      BY <1>8, <1>9
    <3> QED BY <3>1, SamplesAssociate
  <2> HIDE DEF f
  <2> DEFINE d == c \o p
  <2>6. d \in Seq(Sample)
    <3>1. c \in Seq(Sample) /\ p \in Seq(Sample)
      BY <1>8, <1>9
    <3> QED BY <3>1, SamplesJoin
  <2>7. (f \o c) \o p = f \o d
    <3>1. f \in Seq(Sample) /\ c \in Seq(Sample) /\ p \in Seq(Sample)
      BY <1>8, <1>9
    <3> QED BY <3>1, SamplesAssociate
  <2> HIDE DEF d
  <2>8. (f \o d) \o o = f \o (d \o o) /\ d \o o \in Seq(Sample)
    <3>1. f \in Seq(Sample) /\ o \in Seq(Sample)
      BY <1>8, <1>9
    <3>2. (f \o d) \o o = f \o (d \o o)
      BY <2>6, <3>1, SamplesAssociate
    <3>3. d \o o \in Seq(Sample)
      BY <2>6, <3>1, SamplesJoin
    <3> QED BY <3>2, <3>3
  <2> QED BY <2>1, <2>4, <2>5, <2>7, <2>8 DEF d
<1>11. rest # <<>>
  <2> DEFINE k == c \o p
  <2> HIDE DEF c
  <2>1. k \in Seq(Sample) /\ Len(k) = Len(c) + Len(p) /\ Len(p) \in Nat
    BY <1>8, <1>9, SamplesJoin
  <2> HIDE DEF k
  <2>2. Len(k \o o) = Len(k) + Len(o) /\ Len(o) \in Nat
    BY <1>8, <2>1, SamplesJoin
  <2>3. Len(k \o o) # 0
    BY <1>9, <2>1, <2>2
  <2> QED BY <2>3 DEF k
<1>12. Way' = rest
  BY <1>3 DEF Way, b, p, o
<1> HIDE DEF rest, f, c
<1>13. WayType'
  <2>1. sender' \in 0 .. A
    BY <1>1, <1>2, <1>3
  <2> QED BY <1>3, <1>6, <2>1 DEF WayInv, WayType, decoding
<1>14. ResamplerInv'
  BY <1>3 DEF WayInv, ResamplerInv, decoding
<1>15. FeedInv'
  BY <1>3 DEF WayInv, FeedInv, decoding
<1>16. OrderInv'
  <2>1. Ordered(ended, Way', resampler.song, resampler.made)
    <3> DEFINE c1 == resampler.song
               d1 == resampler.made
    <3>1. Ordered(ended, f \o rest, c1, d1)
      BY <1>10 DEF WayInv, OrderInv
    <3> HIDE DEF c1, d1
    <3>2. Ordered(ended, rest, c1, d1)
      BY <1>9, <1>10, <1>11, <3>1, OrderedSuffix
    <3> QED BY <1>12, <3>2 DEF c1, d1
  <2>2. \A i \in 1 .. Len(suf) : Len(suf[i]) = Entry
    <3>1. ASSUME NEW i \in 1 .. L - n PROVE Len(suf[i]) = Entry
      <4>1. n + i \in 1 .. L
        BY <1>1, <1>2
      <4> QED BY <1>1, <1>7, <4>1
    <3> QED BY <1>7, <3>1
  <2>3. Entry' = Entry
    BY DEF Entry, FramesOf
  <2> QED BY <1>3, <1>6, <2>1, <2>2, <2>3 DEF WayInv, OrderInv
<1>17. Queued \in Int /\ Queued' = Queued - n * F /\ Queued' \in Int
  <2>1. Queued = L * F /\ Queued' = (L - n) * F
    BY <1>3, <1>7 DEF Queued, FramesOf, F, L, q
  <2>2. (L - n) * F = L * F - n * F /\ L * F \in Int /\ n * F \in Int
    <3> DEFINE k == L - n
    <3>1. k \in Nat /\ L = k + n /\ n \in Nat /\ F \in Nat
      BY <1>1, <1>2
    <3> HIDE DEF k
    <3>2. (k + n) * F = k * F + n * F /\ k * F \in Nat /\ n * F \in Nat
      BY <3>1
    <3> QED BY <3>1, <3>2 DEF k
  <2> QED BY <2>1, <2>2
<1>18. Queued' + sender' = Queued + sender /\ Queued' <= Queued
  BY <1>1, <1>2, <1>3, <1>17
<1>19. PaceInv'
  <2>1. PaceInv
    BY DEF WayInv
  <2>2. Bounded'
    <3>1. PICK i \in Chunks \cup {0}, j \in Formats, k \in Formats : Queued <= 3 * AudioFrames + Burst(i, j, k)
      BY <2>1 DEF PaceInv, Bounded
    <3> DEFINE m == Burst(i, j, k)
    <3>2. m \in Nat /\ Queued <= 3 * AudioFrames + m
      BY <3>1, BurstType
    <3> HIDE DEF m
    <3>3. Queued' <= 3 * AudioFrames + m
      BY <1>1, <1>17, <1>18, <3>2
    <3>4. Queued' <= 3 * AudioFrames + Burst(i, j, k)
      BY <3>3 DEF m
    <3>5. \E i1 \in Chunks \cup {0}, j1, k1 \in Formats : Queued' <= 3 * AudioFrames + Burst(i1, j1, k1)
      BY <3>4
    <3> QED BY <3>5 DEF Bounded, Burst, Packet
  <2> QED BY <1>3, <1>18, <2>1, <2>2 DEF PaceInv, Packet
<1> QED BY <1>13, <1>14, <1>15, <1>16, <1>19 DEF WayInv

(* Time: a sleeping player and the queue thread come closer together or not,  *)
(* but a queue thread that has nothing to do finds the player asleep only     *)
(* when he is two packets late.                                              *)
LEMMA TickWay ==
  ASSUME WayInv, Tick, UNCHANGED <<opus, bound>>
  PROVE  WayInv'
<1>1. /\ player' = player /\ UNCHANGED <<decoding, stopped, buffers, heard>>
      /\ wait' = IF player = "sleep" THEN wait - 1 ELSE wait
      /\ sender' = Max({0, sender - 1})
  BY DEF Tick
<1>2. /\ sender \in 0 .. AudioFrames /\ AudioFrames \in Nat \ {0} /\ wait \in Int
      /\ Lateness \in Nat /\ Lateness < 2 * AudioFrames
  BY Constants, PacingAssumption DEF WayInv, WayType
<1>3. sender' = IF sender = 0 THEN 0 ELSE sender - 1
  <2> DEFINE t == sender - 1
  <2>1. t \in Int
    BY <1>2
  <2> HIDE DEF t
  <2>2. Max({0, t}) = IF 0 >= t THEN 0 ELSE t
    BY <2>1, MaxOfTwo
  <2> QED BY <1>1, <1>2, <2>2 DEF t
<1>4. Queued' = Queued /\ Queued \in Int
  <2>1. Queued' = Queued
    BY <1>1 DEF Queued, FramesOf, buffers
  <2>2. Queued \in Int
    BY Constants DEF Queued, FramesOf, WayInv, OrderInv
  <2> QED BY <2>1, <2>2
<1>5. WayType'
  <2>1. sender' \in 0 .. AudioFrames /\ wait' \in Int
    BY <1>1, <1>2, <1>3
  <2> QED BY <1>1, <2>1 DEF WayInv, WayType, decoding, buffers
<1>6. ResamplerInv'
  BY <1>1 DEF WayInv, ResamplerInv, decoding, buffers
<1>7. FeedInv'
  BY <1>1 DEF WayInv, FeedInv, decoding, buffers
<1>8. OrderInv'
  BY <1>1 DEF WayInv, OrderInv, Way, Entry, FramesOf, buffers
<1>9. PaceInv'
  <2>1. PaceInv
    BY DEF WayInv
  <2>2. Bounded' /\ Len(pcmQueue') < Packet
    BY <1>1, <2>1 DEF PaceInv, Bounded, Queued, FramesOf, Burst, Packet, buffers
  <2>3. CASE player = "sleep"
    <3>1. /\ wait > - Lateness /\ wait' = wait - 1
          /\ wait + 2 * AudioFrames <= Queued + sender /\ Queued + sender <= wait + 3 * AudioFrames
      BY <1>1, <2>1, <2>3 DEF PaceInv, Tick
    <3>2. sender > 0
      <4>1. CASE compressedQueue = <<>>
        <5>1. Queued = 0
          BY <4>1, Constants DEF Queued, FramesOf
        <5> QED BY <1>2, <3>1, <5>1
      <4>2. CASE compressedQueue # <<>>
        BY <4>2 DEF Tick
      <4> QED BY <4>1, <4>2
    <3>3. - Lateness <= wait' /\ wait' + 2 * AudioFrames <= Queued' + sender'
          /\ Queued' + sender' <= wait' + 3 * AudioFrames
      BY <1>2, <1>3, <1>4, <3>1, <3>2
    <3> QED BY <1>1, <2>2, <2>3, <3>3 DEF PaceInv, Packet
  <2>4. CASE player # "sleep"
    <3>1. /\ - 2 * AudioFrames <= wait /\ wait <= 0 /\ Queued + sender <= 3 * AudioFrames /\ wait' = wait
      BY <1>1, <2>1, <2>4 DEF PaceInv
    <3>2. Queued' + sender' <= 3 * AudioFrames
      BY <1>2, <1>3, <1>4, <3>1
    <3> QED BY <1>1, <2>2, <2>4, <3>1, <3>2 DEF PaceInv, Packet
  <2> QED BY <2>3, <2>4
<1> QED BY <1>5, <1>6, <1>7, <1>8, <1>9 DEF WayInv

-----------------------------------------------------------------------------
(* The volume.  A step that ends without an overlap began without one, and     *)
(* whoever is in a call is alone, and not while setInputFormat runs.          *)

LevelInv == LevelType /\ VolumeInv

LEMMA NoOverlap ==
  ASSUME LevelType, Noted, ~overlapped'
  PROVE  /\ ~overlapped
         /\ \A c, d \in Callers : pc'[c] # "idle" /\ pc'[d] # "idle" => c = d
         /\ ~Quiet' => player' \notin Formatting /\ player \notin Formatting
BY DEF LevelType, Noted

(* Steps that change neither a volume nor a call.                             *)
LEMMA LevelSame ==
  ASSUME LevelInv, Noted, UNCHANGED <<levels, calling>>,
         player \in Formatting => player' \in Formatting \cup Faults,
         player = "filter" => player' \in {"filter"} \cup Faults
  PROVE  LevelInv'
<1>1. LevelType /\ VolumeInv /\ player \notin Faults
  BY DEF LevelInv, Noted, Faulty
<1>2. UNCHANGED <<pc, arg, calls, dropped, volume, resamplerVolume, filterVolume, volumeFilter>>
  BY DEF levels, calling
<1>3. LevelType'
  <2>1. overlapped' \in BOOLEAN
    BY <1>1 DEF LevelType, Noted
  <2>2. volumeFilter' = "freed" => player' \in {"filter"} \cup Faults
    BY <1>1, <1>2 DEF LevelType
  <2> QED BY <1>1, <1>2, <2>1, <2>2 DEF LevelType
<1>4. VolumeInv'
  <2>1. SUFFICES ASSUME ~overlapped' PROVE VolumeInv'
    BY DEF VolumeInv
  <2>2. ~overlapped /\ (~Quiet' => player' \notin Formatting)
    BY <1>1, <2>1, NoOverlap
  <2>3. player' \notin Formatting \cup Faults => player \notin Formatting \cup Faults
    BY <1>1
  <2>4. Quiet' <=> Quiet
    BY <1>2 DEF Quiet
  <2>5. \A c \in Callers : CallInv(c)' <=> CallInv(c)
    BY <1>2 DEF CallInv
  <2> QED BY <1>1, <1>2, <2>2, <2>3, <2>4, <2>5 DEF VolumeInv
<1> QED BY <1>3, <1>4 DEF LevelInv

LEMMA FormatLevel ==
  ASSUME LevelInv, Noted, Format \/ AllocateFilter \/ InitFilter
  PROVE  LevelInv'
<1>1. LevelType /\ VolumeInv /\ player \notin Faults
  BY DEF LevelInv, Noted, Faulty
<1>2. /\ player \in Formatting
      /\ UNCHANGED <<pc, arg, calls, dropped, volume, resamplerVolume>>
  BY DEF Format, AllocateFilter, InitFilter, levels, calling, Formatting
<1>3. overlapped' \in BOOLEAN
  BY <1>1 DEF LevelType, Noted
<1>4. LevelType'
  <2>1. CASE Format
    <3>1. player' = "filter" /\ filterVolume' = filterVolume
          /\ volumeFilter' = IF volumeFilter = "null" THEN "null" ELSE "freed"
      BY <2>1 DEF Format
    <3> QED BY <1>1, <1>2, <1>3, <3>1 DEF LevelType
  <2>2. CASE AllocateFilter
    BY <1>1, <1>2, <1>3, <2>2 DEF LevelType, AllocateFilter
  <2>3. CASE InitFilter
    <3>1. volumeFilter # "freed"
      BY <1>1, <2>3 DEF LevelType, InitFilter
    <3> QED BY <1>1, <1>2, <1>3, <2>3, <3>1 DEF LevelType, InitFilter
  <2> QED BY <2>1, <2>2, <2>3
<1>5. VolumeInv'
  <2>1. SUFFICES ASSUME ~overlapped' PROVE VolumeInv'
    BY DEF VolumeInv
  <2>2. ~overlapped /\ (~Quiet' => player' \notin Formatting)
    BY <1>1, <2>1, NoOverlap
  <2>3. player' \notin Formatting \cup Faults => filterVolume' = resamplerVolume'
    BY DEF Format, AllocateFilter, InitFilter, Formatting
  <2>4. Quiet' <=> Quiet
    BY <1>2 DEF Quiet
  <2>5. \A c \in Callers : CallInv(c)' <=> CallInv(c)
    BY <1>2 DEF CallInv
  <2> QED BY <1>1, <1>2, <2>2, <2>3, <2>4, <2>5 DEF VolumeInv
<1> QED BY <1>4, <1>5 DEF LevelInv

(* Steps of a call.                                                           *)
LEMMA Limits ==
  ASSUME NEW v \in Int
  PROVE  /\ Limit(v) \in 1 .. MaxVolume
         /\ Max({1, v}) \in Int /\ Max({1, v}) >= 1
         /\ Min({MaxVolume, v}) \in Int /\ (v >= 1 => Min({MaxVolume, v}) \in 1 .. MaxVolume)
<1> DEFINE m == Max({1, v})
<1>1. MaxVolume \in Nat \ {0} /\ MaxVolume \in Int /\ 1 \in Int
  BY Constants
<1>2. m = IF 1 >= v THEN 1 ELSE v
  BY <1>1, MaxOfTwo
<1> HIDE DEF m
<1>3. m \in Int /\ m >= 1
  BY <1>2
<1>4. ASSUME NEW u \in Int PROVE Min({MaxVolume, u}) = IF MaxVolume <= u THEN MaxVolume ELSE u
  BY <1>1, MinOfTwo
<1>5. Min({MaxVolume, m}) \in 1 .. MaxVolume
  BY <1>1, <1>3, <1>4
<1>6. Min({MaxVolume, v}) \in Int /\ (v >= 1 => Min({MaxVolume, v}) \in 1 .. MaxVolume)
  BY <1>1, <1>4
<1> QED BY <1>3, <1>5, <1>6 DEF Limit, m

(* A caller who ends a step without an overlap is alone.                      *)
LEMMA CallerAlone ==
  ASSUME LevelInv, Noted, ~overlapped', NEW c \in Callers, NEW to, pc' = [pc EXCEPT ![c] = to],
         pc[c] # "idle" \/ to # "idle"
  PROVE  /\ ~overlapped /\ \A d \in Callers : d # c => pc[d] = "idle" /\ pc'[d] = "idle"
         /\ pc'[c] = to
<1>1. LevelType /\ VolumeInv /\ pc \in [Callers -> Labels]
  BY DEF LevelInv, LevelType
<1>2. ~overlapped /\ \A d, e \in Callers : pc'[d] # "idle" /\ pc'[e] # "idle" => d = e
  BY <1>1, NoOverlap
<1>3. \A d, e \in Callers : pc[d] # "idle" /\ pc[e] # "idle" => d = e
  BY <1>1, <1>2 DEF VolumeInv
<1>4. pc'[c] = to /\ \A d \in Callers : d # c => pc'[d] = pc[d]
  BY <1>1
<1> QED BY <1>2, <1>3, <1>4

(* What is left to show of a step of a call that goes on.                     *)
LEMMA CallGoesOn ==
  ASSUME LevelInv, Noted, NEW c \in Callers, NEW to, to \notin {"idle", "freedFilter"},
         pc' = [pc EXCEPT ![c] = to], pc[c] # "command", player' = player,
         to = "command" \/ UNCHANGED <<filterVolume, resamplerVolume, volumeFilter>>,
         ~overlapped => CallInv(c)'
  PROVE  VolumeInv'
<1>1. SUFFICES ASSUME ~overlapped' PROVE VolumeInv'
  BY DEF VolumeInv
<1>2. /\ ~overlapped /\ \A d \in Callers : d # c => pc[d] = "idle" /\ pc'[d] = "idle"
      /\ pc'[c] = to
  BY <1>1, CallerAlone
<1>3. LevelType /\ VolumeInv
  BY DEF LevelInv
<1>4. ~Quiet' /\ player' \notin Formatting
  <2>1. ~Quiet'
    BY <1>2 DEF Quiet
  <2> QED BY <1>1, <1>3, <2>1, NoOverlap
<1>5. \A d \in Callers : pc'[d] # "freedFilter"
  BY <1>2
<1>6. ASSUME NEW d \in Callers PROVE CallInv(d)'
  <2>1. CASE d = c
    BY <1>2, <2>1
  <2>2. CASE d # c
    <3>1. pc'[d] = "idle"
      BY <1>2, <2>2
    <3> QED BY <3>1 DEF CallInv
  <2> QED BY <2>1, <2>2
<1>7. /\ \A d \in Callers : pc'[d] # "command"
      /\ volumeFilter' = "live" /\ player' \notin Formatting \cup Faults
      => filterVolume' = resamplerVolume'
  <2>1. CASE to = "command"
    BY <1>2, <2>1
  <2>2. CASE to # "command"
    <3>1. \A d \in Callers : pc[d] # "command"
      BY <1>2
    <3> QED BY <1>2, <1>3, <2>2, <3>1 DEF VolumeInv
  <2> QED BY <2>1, <2>2
<1>8. \A d, e \in Callers : pc'[d] # "idle" /\ pc'[e] # "idle" => d = e
  BY <1>2
<1> QED BY <1>4, <1>5, <1>6, <1>7, <1>8 DEF VolumeInv

LEMMA CallLevel ==
  ASSUME LevelInv, Noted, NEW c \in Callers, Call(c)
  PROVE  LevelInv'
<1>1. LevelType /\ VolumeInv /\ overlapped' \in BOOLEAN
  BY DEF LevelInv, LevelType, Noted
<1>2. UNCHANGED <<player, resamplerVolume, filterVolume, volumeFilter, dropped>> /\ pc[c] = "idle"
  BY DEF Call
<1>3. CASE \E v \in 0 .. MaxVolume + 1 :
             /\ volume' = Limit(v) /\ arg' = [arg EXCEPT ![c] = Limit(v)]
             /\ pc' = [pc EXCEPT ![c] = "set"]
  <2>1. PICK v \in 0 .. MaxVolume + 1 :
             /\ volume' = Limit(v) /\ arg' = [arg EXCEPT ![c] = Limit(v)]
             /\ pc' = [pc EXCEPT ![c] = "set"]
    BY <1>3
  <2>2. Limit(v) \in 1 .. MaxVolume /\ MaxVolume \in Nat
    <3>1. v \in Int
      OBVIOUS
    <3> QED BY <3>1, Constants, Limits
  <2>3. LevelType'
    BY <1>1, <1>2, <2>1, <2>2 DEF LevelType, Labels, Call
  <2>4. CallInv(c)'
    BY <1>1, <2>1, <2>2 DEF CallInv, LevelType
  <2>5. VolumeInv'
    BY <1>2, <2>1, <2>4, CallGoesOn
  <2> QED BY <2>3, <2>5 DEF LevelInv
<1>4. CASE \E delta \in {-1, 1} :
             /\ arg' = [arg EXCEPT ![c] = volume + delta]
             /\ pc' = [pc EXCEPT ![c] = "add"]
             /\ UNCHANGED volume
  <2>1. PICK delta \in {-1, 1} :
             /\ arg' = [arg EXCEPT ![c] = volume + delta]
             /\ pc' = [pc EXCEPT ![c] = "add"]
             /\ UNCHANGED volume
    BY <1>4
  <2>2. LevelType'
    BY <1>1, <1>2, <2>1 DEF LevelType, Labels, Call
  <2>3. CallInv(c)'
    BY <1>1, <2>1 DEF CallInv, LevelType
  <2>4. VolumeInv'
    BY <1>2, <2>1, <2>3, CallGoesOn
  <2> QED BY <2>2, <2>4 DEF LevelInv
<1> QED BY <1>3, <1>4 DEF Call

LEMMA WriteLevel ==
  ASSUME LevelInv, Noted, NEW c \in Callers, NEW at, NEW to, Write(c, at, to),
         <<at, to>> \in {<<"add", "max">>, <<"maxed", "min">>, <<"mined", "read">>}
  PROVE  LevelInv'
<1>1. LevelType /\ VolumeInv /\ overlapped' \in BOOLEAN
  BY DEF LevelInv, LevelType, Noted
<1>2. /\ UNCHANGED <<player, resamplerVolume, filterVolume, volumeFilter, arg, calls, dropped>>
      /\ pc[c] = at /\ volume' = arg[c] /\ pc' = [pc EXCEPT ![c] = to]
      /\ at \in {"add", "maxed", "mined"} /\ to \in {"max", "min", "read"}
  BY DEF Write
<1>3. LevelType'
  BY <1>1, <1>2 DEF LevelType, Labels
<1>4. ASSUME ~overlapped PROVE CallInv(c)'
  <2>1. CallInv(c)
    BY <1>1, <1>4 DEF VolumeInv
  <2>2. pc'[c] = to
    BY <1>1, <1>2 DEF LevelType
  <2> QED BY <1>2, <2>1, <2>2 DEF CallInv
<1>5. VolumeInv'
  BY <1>2, <1>4, CallGoesOn
<1> QED BY <1>3, <1>5 DEF LevelInv

LEMMA ReadLevel ==
  ASSUME LevelInv, Noted, NEW c \in Callers, NEW at, NEW to, NEW result, Read(c, at, to, result),
         \/ at = "max" /\ to = "maxed" /\ result = Max({1, volume})
         \/ at = "min" /\ to = "mined" /\ result = Min({MaxVolume, volume})
         \/ at = "read" /\ to = "set" /\ result = volume
  PROVE  LevelInv'
<1>1. LevelType /\ VolumeInv /\ overlapped' \in BOOLEAN
  BY DEF LevelInv, LevelType, Noted
<1>2. /\ UNCHANGED <<player, levels, calls, dropped>>
      /\ pc[c] = at /\ arg' = [arg EXCEPT ![c] = result] /\ pc' = [pc EXCEPT ![c] = to]
  BY DEF Read
<1>3. volume \in Int /\ result \in Int
  BY <1>1, Limits DEF LevelType
<1>4. LevelType'
  BY <1>1, <1>2, <1>3 DEF LevelType, Labels, levels
<1>5. ASSUME ~overlapped PROVE CallInv(c)'
  <2>1. CallInv(c)
    BY <1>1, <1>5 DEF VolumeInv
  <2>2. pc'[c] = to /\ arg'[c] = result /\ volume' = volume /\ dropped' = dropped
    BY <1>1, <1>2 DEF LevelType, levels
  <2>3. CASE at = "max"
    <3>1. result >= 1
      BY <1>3, <2>3, Limits
    <3> QED BY <2>2, <2>3, <3>1 DEF CallInv
  <2>4. CASE at = "min"
    <3>1. volume >= 1
      BY <1>2, <2>1, <2>4 DEF CallInv
    <3>2. result \in 1 .. MaxVolume
      BY <1>3, <2>4, <3>1, Limits
    <3> QED BY <2>2, <2>4, <3>2 DEF CallInv
  <2>5. CASE at = "read"
    <3>1. volume \in 1 .. MaxVolume
      BY <1>2, <2>1, <2>5 DEF CallInv
    <3> QED BY <2>2, <2>5, <3>1 DEF CallInv
  <2> QED BY <2>3, <2>4, <2>5
<1>6. VolumeInv'
  <2>1. to \notin {"idle", "freedFilter"} /\ pc[c] # "command"
    BY <1>2
  <2>2. UNCHANGED <<player, filterVolume, resamplerVolume, volumeFilter>>
    BY <1>2 DEF levels
  <2> QED BY <1>2, <1>5, <2>1, <2>2, CallGoesOn
<1> QED BY <1>4, <1>6 DEF LevelInv

LEMMA SetVolumeLevel ==
  ASSUME LevelInv, Noted, NEW c \in Callers, SetVolume(c)
  PROVE  LevelInv'
<1>1. LevelType /\ VolumeInv /\ overlapped' \in BOOLEAN
  BY DEF LevelInv, LevelType, Noted
<1>2. /\ UNCHANGED <<player, volume, filterVolume, volumeFilter, arg, calls>>
      /\ pc[c] = "set" /\ dropped' = (volumeFilter = "null")
      /\ resamplerVolume' = IF dropped' THEN resamplerVolume ELSE arg[c]
      /\ pc' = [pc EXCEPT ![c] = IF dropped' THEN "idle" ELSE "command"]
  BY DEF SetVolume
<1>3. LevelType'
  BY <1>1, <1>2 DEF LevelType, Labels
<1>4. ~overlapped => volume \in 1 .. MaxVolume /\ arg[c] = volume
  BY <1>1, <1>2 DEF VolumeInv, CallInv
<1>5. CASE dropped'
  <2>1. SUFFICES ASSUME ~overlapped' PROVE VolumeInv'
    BY <1>3 DEF VolumeInv, LevelInv
  <2>2. /\ ~overlapped /\ \A d \in Callers : d # c => pc[d] = "idle" /\ pc'[d] = "idle"
        /\ pc'[c] = "idle"
    BY <1>2, <1>5, <2>1, CallerAlone
  <2>3. Quiet' /\ \A d \in Callers : pc'[d] = "idle"
    BY <2>2 DEF Quiet
  <2>4. volumeFilter' = "null"
    BY <1>2, <1>5
  <2>5. volume' \in 1 .. MaxVolume
    BY <1>2, <1>4, <2>2
  <2>6. \A d \in Callers : CallInv(d)'
    BY <2>3 DEF CallInv
  <2> QED BY <1>5, <2>3, <2>4, <2>5, <2>6 DEF VolumeInv
<1>6. CASE ~dropped'
  <2>1. ~overlapped => CallInv(c)'
    BY <1>1, <1>2, <1>4, <1>6 DEF CallInv, LevelType
  <2> QED BY <1>2, <1>3, <1>6, <2>1, CallGoesOn DEF LevelInv
<1> QED BY <1>3, <1>5, <1>6 DEF LevelInv

LEMMA CommandLevel ==
  ASSUME LevelInv, Noted, NEW c \in Callers, Command(c)
  PROVE  LevelInv'
<1>1. LevelType /\ VolumeInv /\ overlapped' \in BOOLEAN /\ player \notin Faults
  BY DEF LevelInv, LevelType, Noted, Faulty
<1>2. /\ UNCHANGED <<player, volume, resamplerVolume, volumeFilter, arg, calls, dropped>>
      /\ pc[c] = "command"
      /\ filterVolume' = IF volumeFilter = "live" THEN arg[c] ELSE filterVolume
      /\ pc' = [pc EXCEPT ![c] = IF volumeFilter = "live" THEN "idle" ELSE "freedFilter"]
  BY DEF Command
<1>3. LevelType'
  BY <1>1, <1>2 DEF LevelType, Labels
<1>4. SUFFICES ASSUME ~overlapped' PROVE VolumeInv'
  BY <1>3 DEF VolumeInv, LevelInv
<1>5. ~overlapped /\ \A d \in Callers : d # c => pc[d] = "idle" /\ pc'[d] = "idle"
  BY <1>2, <1>4, CallerAlone
<1>6. volume \in 1 .. MaxVolume /\ arg[c] = volume /\ resamplerVolume = volume /\ ~dropped
  BY <1>1, <1>2, <1>5 DEF VolumeInv, CallInv
<1>7. volumeFilter = "live"
  <2>1. ~Quiet
    BY <1>2 DEF Quiet
  <2>2. player \notin Formatting
    BY <1>1, <1>5, <2>1 DEF VolumeInv
  <2>3. volumeFilter # "freed"
    BY <1>1, <2>2 DEF LevelType, Formatting
  <2> QED BY <1>1, <1>2, <2>3 DEF LevelType
<1>8. Quiet' /\ \A d \in Callers : pc'[d] = "idle"
  BY <1>1, <1>2, <1>5, <1>7 DEF Quiet, LevelType
<1>9. \A d \in Callers : CallInv(d)'
  BY <1>8 DEF CallInv
<1> QED BY <1>2, <1>6, <1>7, <1>8, <1>9 DEF VolumeInv

-----------------------------------------------------------------------------
(* Inv holds of the start, every step keeps it, and so every run does.         *)

LEMMA InitInv == Init => Inv
<1> SUFFICES ASSUME Init PROVE Inv
  OBVIOUS
<1>1. bound \in [songs : Nat, samples : Nat, calls : Nat] /\ bound.songs \in Nat /\ bound.samples \in Nat
  BY PipelineAssumption DEF Init
<1>2. WayType
  <2>1. player \in Players \ {"overrun"} /\ stopped \in BOOLEAN /\ opus \in BOOLEAN
    BY DEF Init, Players, Faults
  <2>2. song \in 0 .. bound.songs /\ decoded \in 0 .. bound.samples
    BY <1>1 DEF Init
  <2>3. chunk \in Chunks \cup {0} /\ chunk <= decoded /\ rate \in Formats
    BY DEF Init, Formats
  <2>4. wait \in Int /\ sender \in 0 .. AudioFrames
    BY Constants DEF Init
  <2>5. heard \in Sample /\ pcmQueue \in Seq(Sample)
    BY EmptySeqs DEF Init, Sample
  <2>6. ended \in [0 .. bound.songs -> Nat]
    BY DEF Init
  <2> QED BY <1>1, <2>1, <2>2, <2>3, <2>4, <2>5, <2>6 DEF WayType
<1>3. /\ resampler \in State /\ resampler.in = <<>> /\ resampler.out = <<>> /\ resampler.sink = <<>>
      /\ resampler.song = 0 /\ resampler.fed = 0 /\ resampler.made = 0 /\ resampler.rate = NoFormat
  BY Constants, EmptySeqs DEF Init, NewResampler, State
<1>4. ResamplerInv
  <2>1. Graph(resampler)
    <3>1. NoFormat \in Ratio
      BY Constants
    <3>2. Made(NoFormat, 0) = 0
      BY <3>1, NewGraph
    <3> QED BY <1>3, <3>2 DEF Graph
  <2>2. Len(resampler.in) = 0 /\ Len(resampler.out) = 0
    BY <1>3
  <2>3. Run(0, 0) = <<>>
    <3>1. Run(0, 0) \in Seq(Nat) /\ Len(Run(0, 0)) = 0
      BY RunType
    <3> QED BY <3>1
  <2>4. \E s \in Formats : Len(resampler.out) <= RoundUp(FRAME_SIZE * s[1], s[2])
    <3>1. FRAME_SIZE * 0 = 0 /\ RoundUp(0, 1) = 0
      BY Constants DEF RoundUp
    <3>2. NoFormat[1] = 0 /\ NoFormat[2] = 1
      BY DEF NoFormat
    <3>3. Len(resampler.out) <= RoundUp(FRAME_SIZE * NoFormat[1], NoFormat[2])
      BY <2>2, <3>1, <3>2
    <3> QED BY <3>3, Constants
  <2>5. song = 0
    BY DEF Init
  <2> QED BY <1>3, <2>1, <2>2, <2>3, <2>4, <2>5, Constants DEF ResamplerInv
<1>5. FeedInv
  BY DEF Init, FeedInv, Formatting
<1>6. OrderInv
  <2>1. Way = <<heard>>
    <3>1. FlattenSeq(compressedQueue) = <<>> /\ pcmQueue = <<>> /\ resampler.out = <<>>
      BY <1>3, FlattenEmpty DEF Init
    <3>2. <<heard>> \in Seq(Sample)
      BY <1>2 DEF WayType
    <3> DEFINE h == <<heard>>
    <3> HIDE DEF h
    <3>3. h \o <<>> = h
      BY <3>2, ConcatEmptySeq DEF h
    <3>4. Way = ((h \o <<>>) \o <<>>) \o <<>>
      BY <3>1 DEF Way, h
    <3> QED BY <3>3, <3>4 DEF h
  <2>2. Ordered(ended, Way, 0, 0)
    <3> DEFINE w == <<heard>>
    <3>1. w \in Seq(Sample) /\ w # <<>> /\ Len(w) = 1 /\ w[1] = <<0, 0>>
      BY <1>2 DEF Init, WayType
    <3> HIDE DEF w
    <3>2. UpTo(ended, w[Len(w)], 0, 0)
      BY <3>1 DEF UpTo
    <3>3. Ordered(ended, w, 0, 0)
      BY <3>1, <3>2 DEF Ordered
    <3> QED BY <2>1, <3>3 DEF w
  <2>3. \A s \in 0 .. bound.songs : ended[s] = 0
    BY DEF Init
  <2>4. compressedQueue \in Seq(Seq(Sample)) /\ Len(compressedQueue) = 0
    BY EmptySeqs DEF Init
  <2> QED BY <1>3, <2>2, <2>3, <2>4 DEF OrderInv
<1>7. PaceInv
  <2>1. Queued = 0 /\ Len(pcmQueue) = 0 /\ sender = 0 /\ wait = 0 /\ player = "idle"
    BY Constants DEF Init, Queued, FramesOf
  <2>2. Bounded
    <3> DEFINE m == Burst(0, NoFormat, NoFormat)
    <3>1. 0 \in Chunks \cup {0} /\ NoFormat \in Formats
      BY Constants
    <3>2. m \in Nat
      BY <3>1, BurstType
    <3> HIDE DEF m
    <3>3. Queued <= 3 * AudioFrames + m
      BY <2>1, <3>2, Constants
    <3> QED BY <3>1, <3>3 DEF Bounded, m
  <2> QED BY <2>1, <2>2, Constants DEF PaceInv
<1>8. LevelType
  <2>1. StartVolume \in Int
    BY PipelineAssumption
  <2>2. pc \in [Callers -> Labels] /\ arg \in [Callers -> Int] /\ \A c \in Callers : pc[c] = "idle"
    BY DEF Init, Labels
  <2>3. calls \in Nat /\ volume \in Int /\ resamplerVolume \in Int /\ filterVolume \in Int
    BY <2>1 DEF Init
  <2>4. volumeFilter = "null" /\ dropped \in BOOLEAN /\ overlapped \in BOOLEAN
    BY DEF Init
  <2> QED BY <2>2, <2>3, <2>4 DEF LevelType
<1>9. VolumeInv
  <2>1. StartVolume \in 1 .. MaxVolume
    BY PipelineAssumption
  <2>2. \A c \in Callers : pc[c] = "idle"
    BY DEF Init
  <2>3. \A c \in Callers : pc[c] # "freedFilter" /\ CallInv(c)
    BY <2>2 DEF CallInv
  <2> QED BY <2>1, <2>2, <2>3 DEF Init, VolumeInv, Quiet
<1> QED BY <1>2, <1>4, <1>5, <1>6, <1>7, <1>8, <1>9 DEF Inv

LEMMA WayStep ==
  ASSUME WayInv, Next
  PROVE  WayInv'
<1>1. UNCHANGED <<opus, bound>> /\ player \notin Faults
  BY DEF Next, Noted, Faulty
<1>2. CASE PlayBegins
  BY <1>1, <1>2, PlayBeginsWay
<1>3. ASSUME NEW n \in Chunks \cup {0}, Decode(n) PROVE WayInv'
  BY <1>1, <1>3, DecodeWay
<1>4. CASE Finished \/ AllocateFilter \/ InitFilter \/ GraphFails \/ SendFails
  BY <1>1, <1>4, PlayerWay DEF Finished, AllocateFilter, InitFilter, GraphFails, SendFails
<1>5. CASE Format
  BY <1>1, <1>5, FormatWay
<1>6. CASE Send
  BY <1>1, <1>6, SendWay
<1>7. CASE Wake
  BY <1>1, <1>7, WakeWay
<1>8. CASE SendPacket
  BY <1>1, <1>8, SendPacketWay
<1>9. CASE Tick
  BY <1>1, <1>9, TickWay
<1>10. CASE Stop
  BY <1>1, <1>10, StopWay
<1>11. ASSUME NEW c \in Callers, Call(c) \/ Change(c) PROVE WayInv'
  <2>1. player' = player /\ PlayerRest
    BY <1>11 DEF Call, Change, Adjust, Write, Read, SetVolume, Command
  <2> QED BY <1>1, <2>1, PlayerWay DEF PlayerRest
<1> QED BY <1>2, <1>3, <1>4, <1>5, <1>6, <1>7, <1>8, <1>9, <1>10, <1>11 DEF Next, Play

LEMMA LevelStep ==
  ASSUME LevelInv, Next
  PROVE  LevelInv'
<1>1. Noted
  BY DEF Next
<1>2. CASE \/ PlayBegins \/ (\E n \in Chunks \cup {0} : Decode(n)) \/ Finished \/ GraphFails \/ Send
           \/ SendFails \/ Wake \/ SendPacket \/ Tick \/ Stop
  <2>1. UNCHANGED <<levels, calling>>
    BY <1>2 DEF PlayBegins, Decode, Finished, GraphFails, Send, SendFails, Wake, SendPacket, Tick, Stop
  <2>2. player \in Formatting => player' = player \/ player' = "noFormat"
    BY <1>2 DEF PlayBegins, Decode, Finished, GraphFails, Send, SendFails, Wake, SendPacket, Tick,
                Stop, Formatting
  <2> QED BY <1>1, <2>1, <2>2, LevelSame DEF Formatting, Faults
<1>3. CASE Format \/ AllocateFilter \/ InitFilter
  BY <1>1, <1>3, FormatLevel
<1>4. ASSUME NEW c \in Callers, Call(c) PROVE LevelInv'
  BY <1>1, <1>4, CallLevel
<1>5. ASSUME NEW c \in Callers, Adjust(c) PROVE LevelInv'
  <2>1. CASE Write(c, "add", "max") \/ Write(c, "maxed", "min") \/ Write(c, "mined", "read")
    BY <1>1, <2>1, WriteLevel
  <2>2. CASE Read(c, "max", "maxed", Max({1, volume}))
    BY <1>1, <2>2, ReadLevel
  <2>3. CASE Read(c, "min", "mined", Min({MaxVolume, volume}))
    BY <1>1, <2>3, ReadLevel
  <2>4. CASE Read(c, "read", "set", volume)
    BY <1>1, <2>4, ReadLevel
  <2> QED BY <1>5, <2>1, <2>2, <2>3, <2>4 DEF Adjust
<1>6. ASSUME NEW c \in Callers, SetVolume(c) PROVE LevelInv'
  BY <1>1, <1>6, SetVolumeLevel
<1>7. ASSUME NEW c \in Callers, Command(c) PROVE LevelInv'
  BY <1>1, <1>7, CommandLevel
<1> QED BY <1>2, <1>3, <1>4, <1>5, <1>6, <1>7 DEF Next, Play, Change

(* The inductive invariant: the way of the samples, the player's pace and the *)
(* volume, over every step of the player, the queue thread and the callers.   *)
THEOREM PipelineInvariance == Spec => []Inv
<1>1. Inv /\ [Next]_vars => Inv'
  <2>1. SUFFICES ASSUME Inv, [Next]_vars PROVE Inv'
    OBVIOUS
  <2>2. CASE Next
    <3>1. WayInv' /\ LevelInv'
      BY <2>1, <2>2, WayStep, LevelStep DEF Inv, WayInv, LevelInv
    <3> QED BY <3>1 DEF Inv, WayInv, LevelInv
  <2>3. CASE UNCHANGED vars
    <3>1. WayInv'
      BY <2>1, <2>3, PlayerWay DEF Inv, WayInv, vars
    <3>2. UNCHANGED <<player, levels, calling, overlapped>>
      BY <2>3 DEF vars
    <3>3. LevelType'
      BY <2>1, <3>2 DEF Inv, LevelType, levels, calling
    <3>4. VolumeInv'
      BY <2>1, <3>2 DEF Inv, VolumeInv, Quiet, CallInv, levels, calling
    <3> QED BY <3>1, <3>3, <3>4 DEF Inv, WayInv
  <2> QED BY <2>1, <2>2, <2>3
<1> QED BY <1>1, InitInv, PTL DEF Spec

(* Every variable of the pipeline stays in its range: inputBuffer never holds  *)
(* a frame between two calls of resample (resampler.cpp), and no sleep that   *)
(* enqueue asks for, however late the player is, leaves the range of the      *)
(* milliseconds (Audio.cpp).                                                 *)
THEOREM PipelineTypes == Spec => []TypeOK
<1>1. Inv => TypeOK
  <2>1. SUFFICES ASSUME Inv PROVE TypeOK
    OBVIOUS
  <2>2. /\ WayType /\ ResamplerInv /\ PaceInv /\ LevelType
        /\ AudioFrames \in Nat \ {0} /\ RepValues \in Nat /\ Lateness \in 0 .. RepValues
        /\ 4 * AudioFrames <= RepValues
    BY <2>1, Constants, PipelineAssumption, PacingAssumption DEF Inv
  <2>3. wait \in - RepValues .. RepValues
    <3>1. wait \in Int /\ sender \in 0 .. AudioFrames /\ Queued \in Int
      BY <2>1, <2>2, Constants DEF WayType, Inv, OrderInv, Queued, FramesOf
    <3>2. PICK n \in Chunks \cup {0}, r \in Formats, s \in Formats :
            Queued <= 3 * AudioFrames + Burst(n, r, s)
      BY <2>2 DEF PaceInv, Bounded
    <3> DEFINE m == Burst(n, r, s)
    <3>3. m \in Nat /\ 2 * (AudioFrames + m) < RepValues /\ Queued <= 3 * AudioFrames + m
      BY <3>2, BurstType, PacingAssumption
    <3> HIDE DEF m
    <3>4. CASE player = "sleep"
      <4>1. - Lateness <= wait /\ wait + 2 * AudioFrames <= Queued + sender
        BY <2>2, <3>4 DEF PaceInv
      <4> QED BY <2>2, <3>1, <3>3, <4>1
    <3>5. CASE player # "sleep"
      <4>1. - 2 * AudioFrames <= wait /\ wait <= 0
        BY <2>2, <3>5 DEF PaceInv
      <4> QED BY <2>2, <3>1, <4>1
    <3> QED BY <3>4, <3>5
  <2>4. chunk \in 0 .. bound.samples /\ decoded \in 0 .. bound.samples
    <3>1. chunk \in Nat /\ chunk <= decoded /\ decoded \in 0 .. bound.samples /\ bound.samples \in Nat
      BY <2>2, Constants DEF WayType
    <3> QED BY <3>1
  <2>5. rate \in Rates \cup {NoFormat}
    BY <2>2 DEF WayType, Formats
  <2> QED BY <2>2, <2>3, <2>4, <2>5 DEF TypeOK, WayType, ResamplerInv, LevelType, Players
<1> QED BY <1>1, PipelineInvariance, PTL

(* From the decoder to the encoder's packets no sample is lost, doubled,      *)
(* reordered or overwritten, across inputBuffer, outputBuffer, pcmQueue and   *)
(* compressedQueue, stopped songs and new formats (resampler.cpp, Audio.cpp), *)
(* and resample never writes beyond calculateDstSamplesNumber.               *)
THEOREM PipelineOrder == Spec => []SamplesInOrder
<1>1. Inv => SamplesInOrder
  <2>1. SUFFICES ASSUME Inv PROVE SamplesInOrder
    OBVIOUS
  <2>2. WayInv
    BY <2>1 DEF Inv, WayInv
  <2> DEFINE all == OnItsWay
  <2>3. all = Way
    <3>1. FlattenSeq(resampler.sink) = <<>>
      BY <2>2, FlattenEmpty DEF WayInv, ResamplerInv
    <3> DEFINE w == Way
    <3>2. w \in Seq(Sample)
      BY <2>2 DEF WayInv, OrderInv, Ordered
    <3>3. all = w \o <<>>
      BY <3>1 DEF OnItsWay, Way
    <3> HIDE DEF w, all
    <3>4. w \o <<>> = w
      BY <3>2, ConcatEmptySeq
    <3> QED BY <3>3, <3>4 DEF w
  <2>4. Ordered(ended, all, resampler.song, resampler.made)
    BY <2>2, <2>3 DEF WayInv, OrderInv
  <2> HIDE DEF all
  <2>5. \A i \in 1 .. Len(all) - 1 : Follows(all[i], all[i + 1])
    BY <2>4 DEF Ordered, After, Follows
  <2>6. resampler.made > 0 => Last(all) = <<resampler.song, resampler.made>>
    <3>1. UpTo(ended, all[Len(all)], resampler.song, resampler.made)
      BY <2>4 DEF Ordered
    <3> QED BY <3>1 DEF UpTo, Last
  <2>7. player # "overrun"
    BY <2>2 DEF WayInv, WayType
  <2> QED BY <2>5, <2>6, <2>7 DEF SamplesInOrder, all
<1> QED BY <1>1, PipelineInvariance, PTL

(* A sleeping player who is less than two packets late leaves the queue        *)
(* thread with audio; compressedQueue holds at most three packets and what   *)
(* one Send adds; and no sleep is longer than the queued audio, although      *)
(* enqueue subtracts below zero in size_t (Audio.cpp).                        *)
THEOREM PipelinePacing == Spec => []NoUnderrun
<1>1. Inv => NoUnderrun
  <2>1. SUFFICES ASSUME Inv PROVE NoUnderrun
    OBVIOUS
  <2>2. /\ PaceInv /\ AudioFrames \in Nat \ {0} /\ Lateness \in Nat /\ Lateness < 2 * AudioFrames
        /\ wait \in Int /\ sender \in 0 .. AudioFrames /\ Queued \in Nat
    <3>1. Queued \in Nat
      BY <2>1, Constants DEF Inv, WayType, OrderInv, Queued, FramesOf
    <3> QED BY <2>1, <3>1, Constants, PacingAssumption DEF Inv, WayType
  <2>3. player = "sleep" => compressedQueue # <<>> \/ sender > 0
    <3>1. SUFFICES ASSUME player = "sleep", compressedQueue = <<>> PROVE sender > 0
      BY DEF Queued
    <3>2. Queued = 0
      BY <3>1, Constants DEF Queued, FramesOf
    <3>3. - Lateness <= wait /\ wait + 2 * AudioFrames <= Queued + sender
      BY <2>2, <3>1 DEF PaceInv
    <3> QED BY <2>2, <3>2, <3>3
  <2>4. wait <= Queued
    <3>1. CASE player = "sleep"
      <4>1. wait + 2 * AudioFrames <= Queued + sender
        BY <2>2, <3>1 DEF PaceInv
      <4> QED BY <2>2, <4>1
    <3>2. CASE player # "sleep"
      <4>1. wait <= 0
        BY <2>2, <3>2 DEF PaceInv
      <4> QED BY <2>2, <4>1
    <3> QED BY <3>1, <3>2
  <2> QED BY <2>2, <2>3, <2>4 DEF NoUnderrun, PaceInv, Bounded
<1> QED BY <1>1, PipelineInvariance, PTL

(* Unless calls overlap, the volume between them is in its limits and is what  *)
(* Resampler and filter have, in the next song too, and no command goes to a  *)
(* freed filter (music.cpp, resampler.cpp).                                  *)
THEOREM PipelineVolume == Spec => []VolumeHeard
<1>1. Inv => VolumeHeard
  <2>1. SUFFICES ASSUME Inv, ~overlapped
                 PROVE  /\ \A c \in Callers : pc[c] # "freedFilter"
                        /\ Quiet =>
                             /\ volume \in 1 .. MaxVolume
                             /\ ~dropped => resamplerVolume = volume
                             /\ volumeFilter = "live" /\ player \notin Formatting \cup Faults =>
                                  filterVolume = resamplerVolume
    BY DEF VolumeHeard
  <2>2. VolumeInv
    BY <2>1 DEF Inv
  <2>3. Quiet => \A c \in Callers : pc[c] # "command"
    BY DEF Quiet
  <2> QED BY <2>1, <2>2, <2>3 DEF VolumeInv
<1> QED BY <1>1, PipelineInvariance, PTL
=============================================================================
