----------------------------- MODULE BitSliceProofs -----------------------------
(***************************************************************************)
(* What slice and slice_write (bit_slice.rs) compute, for vectors of any   *)
(* length and ranges of bits anywhere in them: the loops over the bytes,   *)
(* with their shifts and masks, cut a range out of the row of bits and     *)
(* paste one into it.                                                      *)
(***************************************************************************)
EXTENDS BitSlice, SequenceTheorems, WellFoundedInduction, TLAPS

\* The slices that are not empty.
Ranges == {s \in [start : Nat, end : Nat] : s.start < s.end}

\* A set of numbers that is not empty has a least one.
LEMMA LeastNumber ==
  ASSUME NEW T, T \subseteq Nat, T # {}
  PROVE  \E m \in T : \A k \in T : ~(k < m)
<1> DEFINE R == {ss \in Nat \X Nat : ss[1] < ss[2]}
<1>1. IsWellFoundedOn(R, Nat)
  BY NatLessThanWellFounded DEF OpToRel
<1>2. PICK m \in T : \A k \in T : ~(<<k, m>> \in R)
  <2> HIDE DEF R
  <2> QED BY <1>1, WFMin
<1>3. \A k \in T : k < m => <<k, m>> \in R
  OBVIOUS
<1> QED BY <1>2, <1>3

\* The byte and the bit of a number.
LEMMA DivMod ==
  ASSUME NEW n \in Nat
  PROVE  n \div 8 \in Nat /\ n % 8 \in 0 .. 7 /\ n = 8 * (n \div 8) + (n % 8)
<1>1. n \div 8 \in Nat /\ n % 8 \in 0 .. 7
  OBVIOUS
<1>2. n = 8 * (n \div 8) + (n % 8)
  OBVIOUS
<1> QED BY <1>1, <1>2

\* The bytes up to the end of a slice hold its bits.
LEMMA BytesToHold ==
  ASSUME NEW s, s.end \in Nat
  PROVE  BytesTo(s) \in Nat /\ s.end <= 8 * BytesTo(s)
<1> DEFINE n == s.end
<1>1. n \in Nat
  OBVIOUS
<1>2. BytesTo(s) = IF n % 8 > 0 THEN 1 + n \div 8 ELSE n \div 8
  BY DEF BytesTo
<1> HIDE DEF n
<1>3. n \div 8 \in Nat /\ n % 8 \in 0 .. 7 /\ n = 8 * (n \div 8) + (n % 8)
  BY <1>1, DivMod
<1>4. CASE n % 8 = 0
  <2>1. ~(n % 8 > 0) /\ n = 8 * (n \div 8)
    BY <1>3, <1>4
  <2> QED BY <1>2, <1>3, <2>1 DEF n
<1>5. CASE n % 8 > 0
  <2>1. 1 + n \div 8 \in Nat /\ n <= 8 * (1 + n \div 8)
    BY <1>3
  <2> QED BY <1>2, <1>5, <2>1 DEF n
<1>6. n % 8 = 0 \/ n % 8 > 0
  BY <1>3
<1> QED BY <1>4, <1>5, <1>6

\* What a range takes.
LEMMA Sizes ==
  ASSUME NEW s \in Ranges
  PROVE  /\ s.start \in Nat /\ s.end \in Nat /\ s.start < s.end
         /\ ByteOffset(s) \in Nat /\ BitOffset(s) \in 0 .. 7
         /\ s.start = 8 * ByteOffset(s) + BitOffset(s)
         /\ ByteCount(s) \in Nat /\ ByteCount(s) >= 1
         /\ EndBits(s) \in 1 .. 8
         /\ s.end - s.start = 8 * (ByteCount(s) - 1) + EndBits(s)
<1>1. s.start \in Nat /\ s.end \in Nat /\ s.start < s.end
  BY DEF Ranges
<1>2. ByteOffset(s) \in Nat /\ BitOffset(s) \in 0 .. 7 /\ s.start = 8 * ByteOffset(s) + BitOffset(s)
  BY <1>1 DEF ByteOffset, BitOffset
<1>3. ByteCount(s) \in Nat /\ ByteCount(s) >= 1 /\ EndBits(s) \in 1 .. 8
  BY <1>1 DEF ByteCount, BitCount, EndBits
<1>4. s.end - s.start = 8 * (ByteCount(s) - 1) + EndBits(s)
  BY <1>1, <1>3 DEF EndBits, BitCount
<1> QED BY <1>1, <1>2, <1>3, <1>4

\* The last byte that slice and slice_write index is the one the range ends in.
LEMMA BoundsAgree ==
  ASSUME NEW s \in Ranges
  PROVE  LastIndex(s) = BytesTo(s) /\ LastIndex(s) \in Nat
<1> DEFINE q == ByteOffset(s) + ByteCount(s) - 1
           r == BitOffset(s) + EndBits(s)
<1>1. q \in Nat /\ r \in 1 .. 15 /\ s.end = 8 * q + r
  BY Sizes
<1>2. LastIndex(s) = q + 1 + IF r > 8 THEN 1 ELSE 0
  BY Sizes DEF LastIndex, Crosses
<1> HIDE DEF q, r
<1>3. CASE r > 8
  BY <1>1, <1>2, <1>3 DEF BytesTo
<1>4. CASE r = 8
  <2>1. s.end = 8 * (q + 1)
    BY <1>1, <1>4
  <2>2. s.end % 8 = 0 /\ s.end \div 8 = q + 1
    BY <1>1, <2>1
  <2> QED BY <1>1, <1>2, <1>4, <2>2 DEF BytesTo
<1>5. CASE r < 8
  <2>1. s.end % 8 = r /\ s.end \div 8 = q
    BY <1>1, <1>5
  <2> QED BY <1>1, <1>2, <1>5, <2>1 DEF BytesTo
<1> QED BY <1>1, <1>3, <1>4, <1>5

-----------------------------------------------------------------------------
\* Byte n of the result, from the bytes of v it lies in.
Joined(v, n, s) == ShiftRight(v[ByteOffset(s) + n], BitOffset(s))
                  \cup ShiftLeft(v[ByteOffset(s) + n + 1], 8 - BitOffset(s))

\* The loop of slice after n steps.
AfterSteps(v, n, s) == [i \in 1 .. Len(v) |-> IF i <= n THEN Joined(v, i, s) ELSE v[i]]

\* A step of the loop of slice joins one byte more.
LEMMA LoopStep ==
  ASSUME NEW s \in Ranges, NEW v \in Seq(Byte), LastIndex(s) <= Len(v),
         NEW n \in 1 .. ByteCount(s) - 1
  PROVE  [AfterSteps(v, n - 1, s) EXCEPT ![n] = Joined(AfterSteps(v, n - 1, s), n, s)]
           = AfterSteps(v, n, s)
<1> DEFINE w == AfterSteps(v, n - 1, s)
<1>1. /\ ByteOffset(s) + n \in 1 .. Len(v) /\ ByteOffset(s) + n + 1 \in 1 .. Len(v)
      /\ ~(ByteOffset(s) + n <= n - 1) /\ ~(ByteOffset(s) + n + 1 <= n - 1)
      /\ n \in 1 .. Len(v)
  BY Sizes DEF LastIndex
<1>2. w[ByteOffset(s) + n] = v[ByteOffset(s) + n] /\ w[ByteOffset(s) + n + 1] = v[ByteOffset(s) + n + 1]
  BY <1>1 DEF AfterSteps
<1>3. Joined(w, n, s) = Joined(v, n, s)
  BY <1>2 DEF Joined
<1>4. [w EXCEPT ![n] = Joined(v, n, s)] = AfterSteps(v, n, s)
  <2> DEFINE x == [w EXCEPT ![n] = Joined(v, n, s)]
             y == AfterSteps(v, n, s)
  <2>1. x = [i \in 1 .. Len(v) |-> IF i = n THEN Joined(v, n, s) ELSE w[i]]
    BY DEF AfterSteps
  <2>2. \A i \in 1 .. Len(v) : x[i] = y[i]
    BY <1>1, <2>1 DEF AfterSteps
  <2>3. y = [i \in 1 .. Len(v) |-> y[i]]
    BY DEF AfterSteps
  <2> HIDE DEF x, y, w
  <2>4. x = y
    BY <2>1, <2>2, <2>3
  <2> QED BY <2>4 DEF x, y
<1> QED BY <1>3, <1>4

\* The loop of slice has joined all bytes of the result but the last.
LEMMA ShiftedIs ==
  ASSUME NEW s \in Ranges, NEW v \in Seq(Byte), LastIndex(s) <= Len(v)
  PROVE  Shifted(v, s) = AfterSteps(v, ByteCount(s) - 1, s)
<1> DEFINE K == ByteCount(s) - 1
           Loops(w) == w = [n \in 0 .. K |-> IF n = 0 THEN v
                                             ELSE [w[n - 1] EXCEPT ![n] = Joined(w[n - 1], n, s)]]
<1>1. K \in Nat
  BY Sizes
<1>2. AfterSteps(v, 0, s) = v
  BY DEF AfterSteps
<1>3. \E w : Loops(w)
  <2> DEFINE w == [n \in 0 .. K |-> AfterSteps(v, n, s)]
  <2>1. \A n \in 1 .. K : w[n] = [w[n - 1] EXCEPT ![n] = Joined(w[n - 1], n, s)]
    <3> TAKE n \in 1 .. K
    <3>1. n - 1 \in 0 .. K /\ n \in 0 .. K
      BY <1>1
    <3> HIDE DEF K
    <3>2. w[n] = AfterSteps(v, n, s) /\ w[n - 1] = AfterSteps(v, n - 1, s)
      BY <3>1
    <3> QED BY <3>2, LoopStep DEF K
  <2>2. w[0] = v
    BY <1>1, <1>2
  <2>3. Loops(w)
    <3> HIDE DEF K
    <3> SUFFICES ASSUME NEW n \in 0 .. K 
                 PROVE  AfterSteps(v, n, s) = IF n = 0 THEN v ELSE [w[n - 1] EXCEPT ![n] = Joined(w[n - 1], n, s)]
      OBVIOUS
    <3>1. n = 0 \/ n \in 1 .. K
      BY <1>1
    <3>2. w[n] = AfterSteps(v, n, s)
      OBVIOUS
    <3> HIDE DEF w
    <3> QED BY <3>1, <3>2, <2>1, <1>2
  <2> QED BY <2>3
<1>4. PICK w : Loops(w) /\ Shifted(v, s) = w[K]
  <2> DEFINE w == CHOOSE w : Loops(w)
  <2>1. Loops(w)
    BY <1>3
  <2>2. Shifted(v, s) = w[K]
    BY DEF Shifted, Joined
  <2> QED BY <2>1, <2>2
<1>5. \A n \in 0 .. K : w[n] = AfterSteps(v, n, s)
  <2> DEFINE T == {n \in 0 .. K : w[n] # AfterSteps(v, n, s)}
  <2> SUFFICES ASSUME T # {} PROVE FALSE
    OBVIOUS
  <2>1. PICK m \in T : \A k \in T : ~(k < m)
    <3>1. T \subseteq Nat
      BY <1>1
    <3> HIDE DEF T
    <3> QED BY <3>1, LeastNumber
  <2>2. m # 0
    BY <1>1, <1>2, <1>4
  <2>3. m \in 1 .. K /\ m - 1 \in 0 .. K
    BY <1>1, <2>2
  <2>4. w[m - 1] = AfterSteps(v, m - 1, s)
    BY <2>1, <2>3
  <2>5. w[m] = [w[m - 1] EXCEPT ![m] = Joined(w[m - 1], m, s)]
    BY <1>4, <2>2, <2>3
  <2>6. w[m] = AfterSteps(v, m, s)
    BY <2>3, <2>4, <2>5, LoopStep
  <2>7. m \in {n \in 0 .. K : w[n] # AfterSteps(v, n, s)}
    BY <2>1
  <2> HIDE DEF K, T
  <2> QED BY <2>6, <2>7
<1>6. K \in 0 .. K
  BY <1>1
<1> HIDE DEF Loops, K
<1>7. Shifted(v, s) = AfterSteps(v, K, s)
  BY <1>4, <1>5, <1>6
<1> QED BY <1>7 DEF K

-----------------------------------------------------------------------------
(* Rows of bits.                                                           *)

\* A bit of the row is a bit of a byte.
LEMMA RowAt ==
  ASSUME NEW v \in Seq(Byte), NEW i \in 1 .. Len(v), NEW b \in Bits
  PROVE  8 * (i - 1) + b \in Row(v) <=> b \in v[i]
<1> DEFINE n == 8 * (i - 1) + b
<1>1. n \in 0 .. 8 * Len(v) - 1 /\ n % 8 = b /\ n \div 8 + 1 = i
  BY DEF Bits
<1> HIDE DEF n
<1>2. n \in Row(v) <=> b \in v[i]
  BY <1>1 DEF Row
<1> QED BY <1>2 DEF n

\* A number is in the row if its bit is in its byte.
LEMMA InRow ==
  ASSUME NEW v \in Seq(Byte), NEW n \in Row(v)
  PROVE  \E i \in 1 .. Len(v), b \in Bits : n = 8 * (i - 1) + b /\ b \in v[i]
<1>1. n \in 0 .. 8 * Len(v) - 1 /\ n % 8 \in v[n \div 8 + 1]
  BY DEF Row
<1>2. n \in Nat /\ Len(v) \in Nat /\ n < 8 * Len(v)
  BY <1>1
<1>3. n \div 8 + 1 \in 1 .. Len(v)
  BY <1>2
<1>4. n % 8 \in Bits /\ n = 8 * (n \div 8 + 1 - 1) + (n % 8)
  <2>1. n \div 8 \in Nat /\ n % 8 \in 0 .. 7 /\ n = 8 * (n \div 8) + (n % 8)
    BY <1>2, DivMod
  <2>2. n \div 8 + 1 - 1 = n \div 8
    BY <2>1
  <2> QED BY <2>1, <2>2 DEF Bits
<1> QED BY <1>1, <1>3, <1>4

\* The bits of a shifted byte.
LEMMA Shifts ==
  ASSUME NEW x \in Byte, NEW o \in Int, NEW b \in Bits
  PROVE  /\ b \in ShiftRight(x, o) <=> b + o \in x
         /\ b \in ShiftLeft(x, o) <=> b - o \in x
<1>1. b \in Int /\ \A k \in x : k \in Int
  BY DEF Byte, Bits
<1>2. \A k \in x : k - o = b <=> k = b + o
  BY <1>1
<1>3. \A k \in x : k + o = b <=> k = b - o
  BY <1>1
<1>4. b \in ShiftRight(x, o) <=> \E k \in x : k - o = b
  BY DEF ShiftRight
<1>5. b \in ShiftLeft(x, o) <=> \E k \in x : k + o = b
  BY DEF ShiftLeft
<1> QED BY <1>2, <1>3, <1>4, <1>5

\* A bit that is put together from two bytes is the bit of the row.
LEMMA JoinedBits ==
  ASSUME NEW s \in Ranges, NEW v \in Seq(Byte), NEW n \in Nat, n >= 1,
         NEW b \in Bits, ByteOffset(s) + n <= Len(v)
  PROVE  /\ BitOffset(s) + b < 8 =>
              (b + BitOffset(s) \in v[ByteOffset(s) + n] <=> s.start + 8 * (n - 1) + b \in Row(v))
         /\ /\ BitOffset(s) + b >= 8
            /\ ByteOffset(s) + n + 1 <= Len(v)
            => (b - (8 - BitOffset(s)) \in v[ByteOffset(s) + n + 1]
                  <=> s.start + 8 * (n - 1) + b \in Row(v))
<1> DEFINE i == ByteOffset(s) + n
           o == BitOffset(s)
<1>1. /\ ByteOffset(s) \in Nat /\ o \in 0 .. 7 /\ s.start = 8 * ByteOffset(s) + o
      /\ b \in 0 .. 7 /\ Len(v) \in Nat
  BY Sizes DEF Bits
<1>2. /\ i \in 1 .. Len(v)
      /\ s.start + 8 * (n - 1) + b = 8 * (i - 1) + (b + o)
      /\ i + 1 <= Len(v) => i + 1 \in 1 .. Len(v)
  <2>1. i \in 1 .. Len(v) /\ (i + 1 <= Len(v) => i + 1 \in 1 .. Len(v))
    BY <1>1
  <2>2. s.start + 8 * (n - 1) + b = 8 * (ByteOffset(s) + n - 1) + (b + o)
    <3>1. s.start \in Nat /\ o \in Nat /\ b \in Nat
      BY <1>1
    <3>2. 8 * (ByteOffset(s) + n - 1) = 8 * ByteOffset(s) + 8 * (n - 1)
      BY <1>1
    <3> HIDE DEF o
    <3> QED BY <1>1, <3>1, <3>2
  <2> QED BY <1>1, <2>1, <2>2
<1> HIDE DEF i, o
<1>3. ASSUME o + b < 8
      PROVE  b + o \in v[i] <=> 8 * (i - 1) + (b + o) \in Row(v)
  <2>1. b + o \in Bits
    BY <1>1, <1>3 DEF Bits
  <2> QED BY <1>2, <2>1, RowAt
<1>4. ASSUME o + b >= 8, i + 1 <= Len(v)
      PROVE  b - (8 - o) \in v[i + 1] <=> 8 * (i - 1) + (b + o) \in Row(v)
  <2>1. b + o - 8 \in Bits /\ b - (8 - o) = b + o - 8
    BY <1>1, <1>4 DEF Bits
  <2>2. 8 * (i + 1 - 1) + (b + o - 8) \in Row(v) <=> b + o - 8 \in v[i + 1]
    BY <1>2, <1>4, <2>1, RowAt
  <2>3. 8 * (i + 1 - 1) + (b + o - 8) = 8 * (i - 1) + (b + o)
    BY <1>1, <1>2
  <2> QED BY <2>1, <2>2, <2>3
<1>5. o + b \in Int
  BY <1>1
<1>6. o + b < 8 => (b + o \in v[i] <=> s.start + 8 * (n - 1) + b \in Row(v))
  BY <1>2, <1>3
<1>7. o + b >= 8 /\ i + 1 <= Len(v)
        => (b - (8 - o) \in v[i + 1] <=> s.start + 8 * (n - 1) + b \in Row(v))
  BY <1>2, <1>4
<1> QED BY <1>6, <1>7 DEF i, o

\* Bits that are not in a byte.
LEMMA NoBits ==
  ASSUME NEW x \in Byte, NEW k \in Int, k < 0 \/ k > 7
  PROVE  k \notin x
BY DEF Byte, Bits

\* The bits of a joined byte are those of the row, moved by the start of the range.
LEMMA JoinedAt ==
  ASSUME NEW s \in Ranges, NEW v \in Seq(Byte), NEW n \in Nat, n >= 1,
         ByteOffset(s) + n + 1 <= Len(v), NEW b \in Bits
  PROVE  b \in Joined(v, n, s) <=> s.start + 8 * (n - 1) + b \in Row(v)
<1> DEFINE i == ByteOffset(s) + n
           o == BitOffset(s)
<1>1. /\ i \in 1 .. Len(v) /\ i + 1 \in 1 .. Len(v) /\ o \in 0 .. 7 /\ b \in 0 .. 7
  BY Sizes DEF Bits
<1>2. v[i] \in Byte /\ v[i + 1] \in Byte
  BY <1>1
<1>3. b \in Joined(v, n, s) <=> b + o \in v[i] \/ b - (8 - o) \in v[i + 1]
  <2>1. o \in Int /\ 8 - o \in Int
    BY <1>1
  <2>2. b \in ShiftRight(v[i], o) <=> b + o \in v[i]
    <3> HIDE DEF i, o
    <3> QED BY <1>2, <2>1, Shifts
  <2>3. b \in ShiftLeft(v[i + 1], 8 - o) <=> b - (8 - o) \in v[i + 1]
    <3> HIDE DEF i, o
    <3> QED BY <1>2, <2>1, Shifts
  <2> QED BY <2>2, <2>3 DEF Joined
<1>4. CASE o + b < 8
  <2>1. b - (8 - o) \notin v[i + 1]
    <3>1. b - (8 - o) \in Int /\ b - (8 - o) < 0
      BY <1>1, <1>4
    <3> HIDE DEF i, o
    <3> QED BY <1>2, <3>1, NoBits
  <2> QED BY <1>1, <1>3, <1>4, <2>1, JoinedBits
<1>5. CASE o + b >= 8
  <2>1. b + o \notin v[i]
    <3>1. b + o \in Int /\ b + o > 7
      BY <1>1, <1>5
    <3> HIDE DEF i, o
    <3> QED BY <1>2, <3>1, NoBits
  <2> QED BY <1>1, <1>3, <1>5, <2>1, JoinedBits
<1>6. o + b < 8 \/ o + b >= 8
  BY <1>1
<1> QED BY <1>4, <1>5, <1>6

-----------------------------------------------------------------------------
(* slice.                                                                  *)

\* The last byte of the result.
LEMMA SliceLast ==
  ASSUME NEW s \in Ranges, NEW v \in Seq(Byte), LastIndex(s) <= Len(v),
         NEW b \in Bits,
         NEW w, w[ByteOffset(s) + ByteCount(s)] = v[ByteOffset(s) + ByteCount(s)],
         Crosses(s) => w[ByteOffset(s) + ByteCount(s) + 1] = v[ByteOffset(s) + ByteCount(s) + 1]
  PROVE  /\ b < EndBits(s)
         /\ \/ b \in ShiftRight(w[ByteOffset(s) + ByteCount(s)], BitOffset(s))
            \/ /\ Crosses(s)
               /\ b \in ShiftLeft(w[ByteOffset(s) + ByteCount(s) + 1], 8 - BitOffset(s))
         <=> /\ b < EndBits(s)
             /\ s.start + 8 * (ByteCount(s) - 1) + b \in Row(v)
<1> DEFINE n == ByteCount(s)
           i == ByteOffset(s) + n
           o == BitOffset(s)
           e == EndBits(s)
<1>1. /\ n \in Nat /\ n >= 1 /\ i \in 1 .. Len(v) /\ o \in 0 .. 7 /\ e \in 1 .. 8
      /\ Crosses(s) <=> o + e > 8
      /\ Crosses(s) => i + 1 \in 1 .. Len(v)
  BY Sizes DEF LastIndex, Crosses
<1>2. b \in 0 .. 7 /\ o \in Int /\ 8 - o \in Int /\ v[i] \in Byte /\ (Crosses(s) => v[i + 1] \in Byte)
  BY <1>1 DEF Bits
<1>3. w[i] = v[i] /\ (Crosses(s) => w[i + 1] = v[i + 1])
  OBVIOUS
<1>4. b \in ShiftRight(v[i], o) <=> b + o \in v[i]
  <2> HIDE DEF i, o
  <2> QED BY <1>2, Shifts
<1>5. Crosses(s) => (b \in ShiftLeft(v[i + 1], 8 - o) <=> b - (8 - o) \in v[i + 1])
  <2> HIDE DEF i, o
  <2> QED BY <1>2, Shifts
<1>6. ASSUME b < e
      PROVE  b + o \in v[i] \/ (Crosses(s) /\ b - (8 - o) \in v[i + 1])
               <=> s.start + 8 * (n - 1) + b \in Row(v)
  <2>1. CASE o + b < 8
    <3>1. Crosses(s) => b - (8 - o) \notin v[i + 1]
      <4>1. b - (8 - o) \in Int /\ b - (8 - o) < 0
        BY <1>1, <1>2, <2>1
      <4> HIDE DEF i, o
      <4> QED BY <1>2, <4>1, NoBits
    <3> QED BY <1>1, <2>1, <3>1, JoinedBits
  <2>2. CASE o + b >= 8
    <3>1. b + o \notin v[i]
      <4>1. b + o \in Int /\ b + o > 7
        BY <1>1, <1>2, <2>2
      <4> HIDE DEF i, o
      <4> QED BY <1>2, <4>1, NoBits
    <3>2. Crosses(s)
      BY <1>1, <1>2, <1>6, <2>2
    <3> QED BY <1>1, <2>2, <3>1, <3>2, JoinedBits
  <2>3. o + b < 8 \/ o + b >= 8
    BY <1>1, <1>2
  <2> QED BY <2>1, <2>2, <2>3
<1> HIDE DEF i, n, o, e
<1>7. b < e /\ (b \in ShiftRight(w[i], o) \/ (Crosses(s) /\ b \in ShiftLeft(w[i + 1], 8 - o)))
       <=> b < e /\ s.start + 8 * (n - 1) + b \in Row(v)
  BY <1>3, <1>4, <1>5, <1>6
<1> QED BY <1>7 DEF i, n, o, e

\* The bytes of the result.
LEMMA SliceBytes ==
  ASSUME NEW s \in Ranges, NEW v \in Seq(Byte), LastIndex(s) <= Len(v)
  PROVE  /\ Slice(v, s) \in Seq(Byte)
         /\ Len(Slice(v, s)) = ByteCount(s)
         /\ \A i \in 1 .. ByteCount(s) : \A b \in Bits :
              b \in Slice(v, s)[i] <=>
                /\ i < ByteCount(s) \/ b < EndBits(s)
                /\ s.start + 8 * (i - 1) + b \in Row(v)
<1> DEFINE n == ByteCount(s)
           w == Shifted(v, s)
           j == ByteOffset(s) + n
           o == BitOffset(s)
           e == EndBits(s)
           lower == ShiftRight(w[j], o)
           upper == IF Crosses(s) THEN ShiftLeft(w[j + 1], 8 - o) ELSE {}
           last  == (lower \cup upper) \cap 0 .. e - 1
           front == SubSeq(w, 1, n - 1)
<1>1. /\ n \in Nat /\ n >= 1 /\ j \in 1 .. Len(v) /\ e \in 1 .. 8
      /\ ByteOffset(s) \in Nat
      /\ Crosses(s) => j + 1 \in 1 .. Len(v)
      /\ n - 1 <= Len(v) /\ n - 1 \in Nat
  BY Sizes DEF LastIndex, Crosses
<1>2. w = AfterSteps(v, n - 1, s)
  BY ShiftedIs
<1>3. \A i \in 1 .. n - 1 : w[i] = Joined(v, i, s) /\ w[i] \in Byte
  <2> TAKE i \in 1 .. n - 1
  <2>1. i \in 1 .. Len(v) /\ i <= n - 1
    BY <1>1
  <2>2. w[i] = Joined(v, i, s)
    BY <1>2, <2>1 DEF AfterSteps
  <2> QED BY <2>2 DEF Joined, ShiftLeft, ShiftRight, Byte
<1>4. w[j] = v[j] /\ (Crosses(s) => w[j + 1] = v[j + 1])
  <2>1. ~(j <= n - 1) /\ ~(j + 1 <= n - 1)
    BY <1>1
  <2> QED BY <1>1, <1>2, <2>1 DEF AfterSteps
<1>5. Slice(v, s) = Append(front, last)
  BY DEF Slice
<1>6. last \in Byte
  BY DEF Byte, ShiftLeft, ShiftRight
<1>7. /\ front \in Seq(Byte) /\ Len(front) = n - 1
      /\ \A i \in 1 .. n - 1 : front[i] = w[i]
  <2>1. /\ front \in Seq(Byte)
        /\ Len(front) = IF 1 <= n - 1 THEN n - 1 - 1 + 1 ELSE 0
        /\ \A i \in 1 .. n - 1 - 1 + 1 : front[i] = w[1 + i - 1]
    <3> HIDE DEF w, n
    <3> QED BY <1>1, <1>3, SubSeqProperties
  <2>2. n - 1 - 1 + 1 = n - 1 /\ \A i \in 1 .. n - 1 : 1 + i - 1 = i
    BY <1>1
  <2> HIDE DEF w, n, front
  <2> QED BY <1>1, <2>1, <2>2
<1>8. n = Len(front) + 1
  BY <1>1, <1>7
<1>9. /\ Slice(v, s) \in Seq(Byte) /\ Len(Slice(v, s)) = n
      /\ \A i \in 1 .. n - 1 : Slice(v, s)[i] = front[i]
      /\ Slice(v, s)[n] = last
  <2> HIDE DEF n, front, last
  <2> QED BY <1>1, <1>5, <1>6, <1>7, <1>8
<1>10. ASSUME NEW i \in 1 .. n, NEW b \in Bits
       PROVE  b \in Slice(v, s)[i] <=>
                /\ i < n \/ b < e
                /\ s.start + 8 * (i - 1) + b \in Row(v)
  <2>1. CASE i < n
    <3>1. i \in 1 .. n - 1 /\ i \in Nat /\ i >= 1
      BY <1>1, <2>1
    <3>2. Slice(v, s)[i] = Joined(v, i, s)
      <4> HIDE DEF w, n
      <4> QED BY <1>3, <1>7, <1>9, <3>1
    <3>3. ByteOffset(s) + i + 1 <= Len(v)
      BY <1>1, <2>1
    <3>4. b \in Joined(v, i, s) <=> s.start + 8 * (i - 1) + b \in Row(v)
      BY <3>1, <3>3, JoinedAt
    <3> QED BY <2>1, <3>2, <3>4
  <2>2. CASE i = n
    <3>1. b \in last <=> /\ b < e
                         /\ \/ b \in ShiftRight(w[j], o)
                            \/ Crosses(s) /\ b \in ShiftLeft(w[j + 1], 8 - o)
      <4>1. b \in 0 .. e - 1 <=> b < e
        BY <1>1, SMTT(30) DEF Bits
      <4> HIDE DEF e, w, j, o
      <4> QED BY <4>1
    <3>2. b \in last <=> b < e /\ s.start + 8 * (n - 1) + b \in Row(v)
      <4> HIDE DEF w, last
      <4> QED BY <1>4, <3>1, SliceLast
    <3>3. ~(i < n)
      BY <1>1, <2>2
    <3> HIDE DEF last, n, e
    <3> QED BY <1>9, <2>2, <3>2, <3>3
  <2> QED BY <1>1, <2>1, <2>2
<1> HIDE DEF n, e
<1>11. /\ Slice(v, s) \in Seq(Byte)
       /\ Len(Slice(v, s)) = n
       /\ \A i \in 1 .. n : \A b \in Bits :
            b \in Slice(v, s)[i] <=>
              /\ i < n \/ b < e
              /\ s.start + 8 * (i - 1) + b \in Row(v)
  BY <1>9, <1>10
<1> QED BY <1>11 DEF n, e

\* The byte and the bit a number in a range belongs to.
LEMMA BitOf ==
  ASSUME NEW s \in Ranges, NEW m \in Nat
  PROVE  \E i \in Nat \ {0}, b \in Bits :
           /\ m = 8 * (i - 1) + b
           /\ m < s.end - s.start <=> i \in 1 .. ByteCount(s) /\ (i < ByteCount(s) \/ b < EndBits(s))
<1> DEFINE i == m \div 8 + 1
           b == m % 8
<1>1. i \in Nat \ {0} /\ b \in 0 .. 7 /\ m = 8 * (i - 1) + b
  <2>1. m \div 8 \in Nat /\ b \in 0 .. 7 /\ m = 8 * (m \div 8) + (m % 8)
    BY DivMod
  <2>2. i - 1 = m \div 8
    BY <2>1
  <2> QED BY <2>1, <2>2
<1> HIDE DEF i, b
<1>2. m < s.end - s.start <=> i \in 1 .. ByteCount(s) /\ (i < ByteCount(s) \/ b < EndBits(s))
  <2> DEFINE n == ByteCount(s)
             e == EndBits(s)
  <2>1. n \in Nat /\ n >= 1 /\ e \in 1 .. 8 /\ s.end - s.start = 8 * (n - 1) + e
    BY Sizes
  <2> HIDE DEF n, e
  <2>2. m < 8 * (n - 1) + e <=> i \in 1 .. n /\ (i < n \/ b < e)
    BY <1>1, <2>1
  <2> QED BY <2>1, <2>2 DEF n, e
<1> QED BY <1>1, <1>2 DEF Bits

\* slice cuts the bits of the range out of the row.
THEOREM SliceIsCut ==
  ASSUME NEW s \in Ranges, NEW v \in Seq(Byte), ~SlicePanics(v, s)
  PROVE  /\ Slice(v, s) \in Seq(Byte)
         /\ Len(Slice(v, s)) = ByteCount(s)
         /\ Row(Slice(v, s)) = Cut(Row(v), s)
<1> DEFINE x == Slice(v, s)
<1>1. LastIndex(s) <= Len(v)
  BY BoundsAgree DEF SlicePanics
<1>2. /\ x \in Seq(Byte) /\ Len(x) = ByteCount(s)
      /\ \A i \in 1 .. ByteCount(s) : \A b \in Bits :
           b \in x[i] <=> /\ i < ByteCount(s) \/ b < EndBits(s)
                          /\ s.start + 8 * (i - 1) + b \in Row(v)
  BY <1>1, SliceBytes
<1>3. s.start \in Nat /\ s.end \in Nat /\ s.start < s.end /\ ByteCount(s) \in Nat
  BY Sizes
<1> HIDE DEF x
<1>4. ASSUME NEW m \in Row(x) PROVE m \in Cut(Row(v), s)
  <2>1. PICK i \in 1 .. Len(x), b \in Bits : m = 8 * (i - 1) + b /\ b \in x[i]
    BY <1>2, InRow
  <2>2. i < ByteCount(s) \/ b < EndBits(s)
    BY <1>2, <2>1
  <2>3. s.start + 8 * (i - 1) + b \in Row(v)
    BY <1>2, <2>1
  <2>4. m \in Nat /\ s.start + 8 * (i - 1) + b = s.start + m
    <3>1. i \in Nat /\ i >= 1 /\ b \in Nat
      BY <1>2, <1>3 DEF Bits
    <3> QED BY <1>3, <2>1, <3>1
  <2>5. m < s.end - s.start
    <3> DEFINE n == ByteCount(s)
               e == EndBits(s)
    <3>1. n \in Nat /\ n >= 1 /\ e \in 1 .. 8 /\ s.end - s.start = 8 * (n - 1) + e
      BY Sizes
    <3> HIDE DEF n, e
    <3>2. i \in 1 .. n /\ b \in 0 .. 7 /\ (i < n \/ b < e)
      BY <1>2, <2>1, <2>2 DEF n, e, Bits
    <3>3. 8 * (i - 1) + b < 8 * (n - 1) + e
      BY <3>1, <3>2
    <3> QED BY <3>1, <3>3, <2>1
  <2>6. s.start + m \in Inside(s) /\ (s.start + m) - s.start = m
    BY <1>3, <2>4, <2>5 DEF Inside
  <2> QED BY <2>3, <2>4, <2>6 DEF Cut
<1>5. ASSUME NEW m \in Cut(Row(v), s) PROVE m \in Row(x)
  <2>1. PICK k \in Row(v) \cap Inside(s) : m = k - s.start
    BY DEF Cut
  <2>2. k \in Nat /\ m \in Nat /\ m < s.end - s.start /\ s.start + m = k
    BY <1>3, <2>1 DEF Inside
  <2>3. PICK i \in Nat \ {0}, b \in Bits :
          /\ m = 8 * (i - 1) + b
          /\ m < s.end - s.start <=> i \in 1 .. ByteCount(s) /\ (i < ByteCount(s) \/ b < EndBits(s))
    BY <2>2, BitOf
  <2>4. i \in 1 .. ByteCount(s) /\ (i < ByteCount(s) \/ b < EndBits(s))
    BY <2>2, <2>3
  <2>5. s.start + 8 * (i - 1) + b = k
    BY <1>3, <2>2, <2>3 DEF Bits
  <2>6. b \in x[i]
    BY <1>2, <2>1, <2>4, <2>5
  <2> QED BY <1>2, <2>3, <2>4, <2>6, RowAt
<1>6. Row(x) = Cut(Row(v), s)
  BY <1>4, <1>5
<1> QED BY <1>2, <1>6 DEF x

-----------------------------------------------------------------------------
(* slice_write.                                                            *)

\* p is dest after the bits m of x were put to bytes i and i + 1.
Puts(p, dest, i, x, m, s) ==
  /\ p \in Seq(Byte) /\ Len(p) = Len(dest)
  /\ \A j \in 1 .. Len(dest) : \A b \in Bits :
       b \in p[j] <=>
         IF j = i /\ b - BitOffset(s) \in m THEN b - BitOffset(s) \in x
         ELSE IF j = i + 1 /\ b + 8 - BitOffset(s) \in m THEN b + 8 - BitOffset(s) \in x
         ELSE b \in dest[j]

\* One byte of the value is written to two bytes of the vector.
LEMMA PutByteIs ==
  ASSUME NEW dest \in Seq(Byte), NEW i \in Nat, i >= 1, i + 1 <= Len(dest),
         NEW x \in Byte, NEW m \in Byte, NEW s \in Ranges
  PROVE  Puts(PutByte(dest, i, x, m, s), dest, i, x, m, s)
<1> DEFINE o == BitOffset(s)
           p == PutByte(dest, i, x, m, s)
           lo == MaskedWrite(ShiftLeft(x, o), dest[i], ShiftLeft(m, o))
           hi == MaskedWrite(ShiftRight(x, 8 - o), dest[i + 1], ShiftRight(m, 8 - o))
<1>1. o \in 0 .. 7 /\ o \in Int /\ 8 - o \in Int /\ Len(dest) \in Nat
  BY Sizes
<1>2. i \in 1 .. Len(dest) /\ i + 1 \in 1 .. Len(dest) /\ i # i + 1
  BY <1>1
<1>3. dest[i] \in Byte /\ dest[i + 1] \in Byte
  BY <1>2
<1>4. lo \in Byte /\ hi \in Byte
  BY <1>3 DEF MaskedWrite, ShiftLeft, ShiftRight, Byte
<1>5. p = [[dest EXCEPT ![i] = lo] EXCEPT ![i + 1] = hi]
  BY <1>2 DEF PutByte
<1> HIDE DEF lo, hi, p
<1>6. /\ p \in Seq(Byte) /\ Len(p) = Len(dest)
      /\ \A j \in 1 .. Len(dest) : p[j] = IF j = i THEN lo ELSE IF j = i + 1 THEN hi ELSE dest[j]
  BY <1>2, <1>4, <1>5
<1> HIDE DEF o
<1>7. ASSUME NEW b \in Bits
      PROVE  b \in lo <=> IF b - o \in m THEN b - o \in x ELSE b \in dest[i]
  <2>1. b \in ShiftLeft(x, o) <=> b - o \in x
    BY <1>1, Shifts
  <2>2. b \in ShiftLeft(m, o) <=> b - o \in m
    BY <1>1, Shifts
  <2> QED BY <2>1, <2>2 DEF lo, MaskedWrite
<1>8. ASSUME NEW b \in Bits
      PROVE  b \in hi <=> IF b + 8 - o \in m THEN b + 8 - o \in x ELSE b \in dest[i + 1]
  <2>1. b + (8 - o) = b + 8 - o
    BY <1>1 DEF Bits
  <2>2. b \in ShiftRight(x, 8 - o) <=> b + (8 - o) \in x
    BY <1>1, Shifts
  <2>3. b \in ShiftRight(m, 8 - o) <=> b + (8 - o) \in m
    BY <1>1, Shifts
  <2> QED BY <2>1, <2>2, <2>3 DEF hi, MaskedWrite
<1>9. /\ p \in Seq(Byte) /\ Len(p) = Len(dest)
      /\ \A j \in 1 .. Len(dest) : \A b \in Bits :
           b \in p[j] <=>
             IF j = i /\ b - o \in m THEN b - o \in x
             ELSE IF j = i + 1 /\ b + 8 - o \in m THEN b + 8 - o \in x
             ELSE b \in dest[j]
  BY <1>2, <1>6, <1>7, <1>8
<1> QED BY <1>9 DEF o, p, Puts

\* A last byte that ends in the byte where it starts.
LEMMA PutLowIs ==
  ASSUME NEW dest \in Seq(Byte), NEW i \in 1 .. Len(dest),
         NEW x \in Byte, NEW m \in Byte, NEW s \in Ranges,
         \A k \in m : k + BitOffset(s) < 8
  PROVE  Puts([dest EXCEPT ![i] = MaskedWrite(ShiftLeft(x, BitOffset(s)), @,
                                              ShiftLeft(m, BitOffset(s)))],
              dest, i, x, m, s)
<1> DEFINE o == BitOffset(s)
           lo == MaskedWrite(ShiftLeft(x, o), dest[i], ShiftLeft(m, o))
           p == [dest EXCEPT ![i] = lo]
<1>1. o \in 0 .. 7 /\ o \in Int
  BY Sizes
<1>2. lo \in Byte
  BY DEF MaskedWrite, ShiftLeft, Byte
<1>3. p = [dest EXCEPT ![i] = MaskedWrite(ShiftLeft(x, o), @, ShiftLeft(m, o))]
  OBVIOUS
<1> HIDE DEF lo
<1>4. /\ p \in Seq(Byte) /\ Len(p) = Len(dest)
      /\ \A j \in 1 .. Len(dest) : p[j] = IF j = i THEN lo ELSE dest[j]
  BY <1>2
<1> HIDE DEF o, p
<1>5. ASSUME NEW b \in Bits
      PROVE  b \in lo <=> IF b - o \in m THEN b - o \in x ELSE b \in dest[i]
  <2>1. b \in ShiftLeft(x, o) <=> b - o \in x
    BY <1>1, Shifts
  <2>2. b \in ShiftLeft(m, o) <=> b - o \in m
    BY <1>1, Shifts
  <2> QED BY <2>1, <2>2 DEF lo, MaskedWrite
<1>6. \A b \in Bits : b + 8 - o \notin m
  <2> TAKE b \in Bits
  <2>1. b + 8 - o + o = b + 8 /\ ~(b + 8 < 8)
    BY <1>1 DEF Bits
  <2> QED BY <2>1 DEF o
<1>7. /\ p \in Seq(Byte) /\ Len(p) = Len(dest)
      /\ \A j \in 1 .. Len(dest) : \A b \in Bits :
           b \in p[j] <=>
             IF j = i /\ b - o \in m THEN b - o \in x
             ELSE IF j = i + 1 /\ b + 8 - o \in m THEN b + 8 - o \in x
             ELSE b \in dest[j]
  BY <1>4, <1>5, <1>6
<1>8. Puts(p, dest, i, x, m, s)
  BY <1>7 DEF o, Puts
<1> QED BY <1>3, <1>8 DEF o

\* dest after the first c bits of value were written to it.
Overlay(dest, value, c, s) ==
  [j \in 1 .. Len(dest) |->
     {b \in Bits : LET k == 8 * (j - 1) + b - s.start
                   IN IF k \in 0 .. c - 1 THEN k \in Row(value) ELSE b \in dest[j]}]

\* An overlay is a vector of bytes.
LEMMA OverlayTyped ==
  ASSUME NEW dest \in Seq(Byte), NEW value, NEW c, NEW s
  PROVE  Overlay(dest, value, c, s) \in Seq(Byte) /\ Len(Overlay(dest, value, c, s)) = Len(dest)
<1> DEFINE f == [j \in 1 .. Len(dest) |->
     {b \in Bits : LET k == 8 * (j - 1) + b - s.start
                   IN IF k \in 0 .. c - 1 THEN k \in Row(value) ELSE b \in dest[j]}]
<1>1. f \in [1 .. Len(dest) -> Byte]
  BY DEF Byte
<1>2. f = Overlay(dest, value, c, s)
  BY DEF Overlay
<1> HIDE DEF f
<1> QED BY <1>1, <1>2

\* Bit b of byte j, counted from the start of the range.
LEMMA BitNumber ==
  ASSUME NEW s \in Ranges, NEW n \in Nat, n >= 1, NEW j \in Nat, j >= 1, NEW b \in Bits
  PROVE  LET k == 8 * (j - 1) + b - s.start
             i == ByteOffset(s) + n
             o == BitOffset(s)
         IN /\ k \in Int /\ o \in 0 .. 7 /\ b \in 0 .. 7 /\ i \in Nat
            /\ j < i => k < 8 * (n - 1)
            /\ j = i => k = 8 * (n - 1) + (b - o)
            /\ j = i + 1 => k = 8 * (n - 1) + (b + 8 - o)
            /\ j > i + 1 => k >= 8 * (n - 1) + 8
<1> DEFINE k == 8 * (j - 1) + b - s.start
           i == ByteOffset(s) + n
           o == BitOffset(s)
           B == ByteOffset(s)
<1>1. B \in Nat /\ o \in 0 .. 7 /\ s.start = 8 * B + o /\ b \in 0 .. 7
  BY Sizes DEF Bits
<1>2. k = 8 * (j - 1) + b - (8 * B + o) /\ i = B + n
  BY <1>1
<1> HIDE DEF k, i, o, B
<1>3. k \in Int /\ i \in Nat
  BY <1>1, <1>2
<1>4. k = 8 * (j - 1 - B) + (b - o)
  BY <1>1, <1>2
<1>5. /\ j < i => k < 8 * (n - 1)
      /\ j = i => k = 8 * (n - 1) + (b - o)
  BY <1>1, <1>2, <1>4
<1>6. /\ j = i + 1 => k = 8 * (n - 1) + (b + 8 - o)
      /\ j > i + 1 => k >= 8 * (n - 1) + 8
  BY <1>1, <1>2, <1>4
<1> QED BY <1>1, <1>3, <1>5, <1>6 DEF k, i, o, B

\* Putting the next bits of the value continues what was written.
LEMMA PutsNext ==
  ASSUME NEW s \in Ranges, NEW dest \in Seq(Byte), NEW value \in Seq(Byte),
         NEW n \in 1 .. Len(value), NEW e \in 1 .. 8, NEW p,
         Puts(p, Overlay(dest, value, 8 * (n - 1), s), ByteOffset(s) + n, value[n], 0 .. e - 1, s)
  PROVE  p = Overlay(dest, value, 8 * (n - 1) + e, s)
<1> DEFINE d == Overlay(dest, value, 8 * (n - 1), s)
           y == Overlay(dest, value, 8 * (n - 1) + e, s)
           i == ByteOffset(s) + n
           o == BitOffset(s)
<1>1. d \in Seq(Byte) /\ Len(d) = Len(dest) /\ y \in Seq(Byte) /\ Len(y) = Len(dest)
  BY OverlayTyped
<1>2. /\ p \in Seq(Byte) /\ Len(p) = Len(dest)
      /\ \A j \in 1 .. Len(dest) : \A b \in Bits :
           b \in p[j] <=>
             IF j = i /\ b - o \in 0 .. e - 1 THEN b - o \in value[n]
             ELSE IF j = i + 1 /\ b + 8 - o \in 0 .. e - 1 THEN b + 8 - o \in value[n]
             ELSE b \in d[j]
  <2> HIDE DEF d
  <2> QED BY <1>1 DEF Puts, d
<1>3. n \in Nat /\ n >= 1 /\ value[n] \in Byte
  OBVIOUS
<1>4. ASSUME NEW j \in 1 .. Len(dest), NEW b \in Bits
      PROVE  b \in p[j] <=> b \in y[j]
  <2> DEFINE k == 8 * (j - 1) + b - s.start
  <2>1. j \in Nat /\ j >= 1
    OBVIOUS
  <2>2. /\ k \in Int /\ o \in 0 .. 7 /\ b \in 0 .. 7 /\ i \in Nat
        /\ j < i => k < 8 * (n - 1)
        /\ j = i => k = 8 * (n - 1) + (b - o)
        /\ j = i + 1 => k = 8 * (n - 1) + (b + 8 - o)
        /\ j > i + 1 => k >= 8 * (n - 1) + 8
    BY <1>3, <2>1, BitNumber
  <2>3. b \in d[j] <=> IF k \in 0 .. 8 * (n - 1) - 1 THEN k \in Row(value) ELSE b \in dest[j]
    BY DEF Overlay
  <2>4. b \in y[j] <=> IF k \in 0 .. 8 * (n - 1) + e - 1 THEN k \in Row(value) ELSE b \in dest[j]
    BY DEF Overlay
  <2> HIDE DEF k, i, o, d, y
  <2>5. ASSUME NEW c \in 0 .. e - 1, k = 8 * (n - 1) + c
        PROVE  b \in y[j] <=> c \in value[n]
    <3>1. c \in Bits /\ k \in 0 .. 8 * (n - 1) + e - 1
      BY <1>3, <2>5 DEF Bits
    <3>2. 8 * (n - 1) + c \in Row(value) <=> c \in value[n]
      BY <3>1, RowAt
    <3> QED BY <2>4, <2>5, <3>1, <3>2
  <2>6. ASSUME k < 8 * (n - 1) \/ k >= 8 * (n - 1) + e
        PROVE  b \in y[j] <=> b \in d[j]
    <3>1. k \in 0 .. 8 * (n - 1) + e - 1 <=> k \in 0 .. 8 * (n - 1) - 1
      BY <1>3, <2>2, <2>6
    <3> QED BY <2>3, <2>4, <3>1
  <2>7. CASE j = i
    <3>1. CASE b - o \in 0 .. e - 1
      BY <1>2, <2>2, <2>5, <2>7, <3>1
    <3>2. CASE b - o \notin 0 .. e - 1
      <4>1. k < 8 * (n - 1) \/ k >= 8 * (n - 1) + e
        BY <1>3, <2>2, <2>7, <3>2
      <4>2. j # i + 1
        BY <2>2, <2>7
      <4> QED BY <1>2, <2>6, <3>2, <4>1, <4>2
    <3> QED BY <3>1, <3>2
  <2>8. CASE j = i + 1
    <3>0. j # i
      BY <2>2, <2>8
    <3>1. CASE b + 8 - o \in 0 .. e - 1
      BY <1>2, <2>2, <2>5, <2>8, <3>0, <3>1
    <3>2. CASE b + 8 - o \notin 0 .. e - 1
      <4>1. k >= 8 * (n - 1) + e
        BY <1>3, <2>2, <2>8, <3>2
      <4> QED BY <1>2, <2>6, <3>0, <3>2, <4>1
    <3> QED BY <3>1, <3>2
  <2>9. CASE j < i \/ j > i + 1
    <3>1. k < 8 * (n - 1) \/ k >= 8 * (n - 1) + e
      BY <1>3, <2>2, <2>9
    <3>2. j # i /\ j # i + 1
      BY <2>1, <2>2, <2>9
    <3> QED BY <1>2, <2>6, <3>1, <3>2
  <2> QED BY <2>1, <2>2, <2>7, <2>8, <2>9
<1> HIDE DEF y
<1>5. \A j \in 1 .. Len(dest) : p[j] = y[j]
  <2> TAKE j \in 1 .. Len(dest)
  <2>1. p[j] \subseteq Bits /\ y[j] \subseteq Bits
    BY <1>1, <1>2 DEF Byte
  <2> QED BY <1>4, <2>1
<1>6. p = y
  BY <1>1, <1>2, <1>5, SMTT(30)
<1> QED BY <1>6 DEF y

\* One step of the loop of slice_write.
LEMMA MergeStep ==
  ASSUME NEW s \in Ranges, NEW dest \in Seq(Byte), NEW value \in Seq(Byte),
         LastIndex(s) <= Len(dest), ByteCount(s) <= Len(value),
         NEW n \in 1 .. ByteCount(s) - 1
  PROVE  PutByte(Overlay(dest, value, 8 * (n - 1), s), ByteOffset(s) + n, value[n], Bits, s)
           = Overlay(dest, value, 8 * n, s)
<1> DEFINE d == Overlay(dest, value, 8 * (n - 1), s)
           i == ByteOffset(s) + n
<1>1. d \in Seq(Byte) /\ Len(d) = Len(dest)
  BY OverlayTyped
<1>2. /\ n \in Nat /\ n \in 1 .. Len(value) /\ i \in Nat /\ i >= 1 /\ i + 1 <= Len(dest)
  BY Sizes DEF LastIndex
<1>3. value[n] \in Byte /\ Bits \in Byte /\ Bits = 0 .. 8 - 1
  BY <1>2 DEF Byte, Bits
<1>4. Puts(PutByte(d, i, value[n], Bits, s), d, i, value[n], Bits, s)
  <2> HIDE DEF d, i
  <2> QED BY <1>1, <1>2, <1>3, PutByteIs
<1>5. 8 * (n - 1) + 8 = 8 * n /\ 8 \in 1 .. 8
  BY <1>2
<1>6. PutByte(d, i, value[n], Bits, s) = Overlay(dest, value, 8 * (n - 1) + 8, s)
  BY <1>2, <1>3, <1>4, <1>5, PutsNext
<1> QED BY <1>5, <1>6

\* The loop of slice_write has written the bits of all bytes of the value but the last.
LEMMA MergedIs ==
  ASSUME NEW s \in Ranges, NEW dest \in Seq(Byte), NEW value \in Seq(Byte),
         LastIndex(s) <= Len(dest), ByteCount(s) <= Len(value)
  PROVE  Merged(dest, value, s) = Overlay(dest, value, 8 * (ByteCount(s) - 1), s)
<1> DEFINE K == ByteCount(s) - 1
           W(n) == Overlay(dest, value, 8 * n, s)
           Loops(w) == w = [n \in 0 .. K |->
                              IF n = 0 THEN dest
                              ELSE PutByte(w[n - 1], ByteOffset(s) + n, value[n], Bits, s)]
<1>1. K \in Nat
  BY Sizes
<1>2. W(0) = dest
  <2>1. W(0) \in Seq(Byte) /\ Len(W(0)) = Len(dest)
    BY OverlayTyped
  <2>2. \A j \in 1 .. Len(dest) : W(0)[j] = dest[j]
    <3> TAKE j \in 1 .. Len(dest)
    <3>1. \A k : k \notin 0 .. 8 * 0 - 1
      OBVIOUS
    <3>2. W(0)[j] = {b \in Bits : b \in dest[j]}
      BY <3>1 DEF Overlay
    <3>3. dest[j] \subseteq Bits
      BY DEF Byte
    <3> QED BY <3>2, <3>3
  <2> HIDE DEF W
  <2> QED BY <2>1, <2>2
<1>3. \A n \in 1 .. K : W(n) = PutByte(W(n - 1), ByteOffset(s) + n, value[n], Bits, s)
  BY MergeStep
<1> HIDE DEF W
<1>4. \E w : Loops(w)
  <2> DEFINE w == [n \in 0 .. K |-> W(n)]
  <2> HIDE DEF K
  <2>1. \A n \in 1 .. K : w[n] = PutByte(w[n - 1], ByteOffset(s) + n, value[n], Bits, s)
    <3> TAKE n \in 1 .. K
    <3>1. n - 1 \in 0 .. K /\ n \in 0 .. K
      BY <1>1
    <3>2. w[n] = W(n) /\ w[n - 1] = W(n - 1)
      BY <3>1
    <3> QED BY <3>2, <1>3
  <2>2. Loops(w)
    <3> SUFFICES ASSUME NEW n \in 0 .. K
                 PROVE  W(n) = IF n = 0 THEN dest
                               ELSE PutByte(w[n - 1], ByteOffset(s) + n, value[n], Bits, s)
      OBVIOUS
    <3>1. n = 0 \/ n \in 1 .. K
      BY <1>1
    <3>2. w[n] = W(n)
      OBVIOUS
    <3> HIDE DEF w
    <3> QED BY <3>1, <3>2, <2>1, <1>2
  <2> QED BY <2>2
<1>5. PICK w : Loops(w) /\ Merged(dest, value, s) = w[K]
  <2> DEFINE w == CHOOSE w : Loops(w)
  <2>1. Loops(w)
    BY <1>4
  <2>2. Merged(dest, value, s) = w[K]
    BY DEF Merged
  <2> QED BY <2>1, <2>2
<1>6. \A n \in 0 .. K : w[n] = W(n)
  <2> DEFINE T == {n \in 0 .. K : w[n] # W(n)}
  <2> SUFFICES ASSUME T # {} PROVE FALSE
    OBVIOUS
  <2>1. PICK m \in T : \A k \in T : ~(k < m)
    <3>1. T \subseteq Nat
      BY <1>1
    <3> HIDE DEF T
    <3> QED BY <3>1, LeastNumber
  <2>2. m # 0
    BY <1>1, <1>2, <1>5
  <2>3. m \in 1 .. K /\ m - 1 \in 0 .. K
    BY <1>1, <2>2
  <2>4. w[m - 1] = W(m - 1)
    BY <2>1, <2>3
  <2>5. w[m] = PutByte(w[m - 1], ByteOffset(s) + m, value[m], Bits, s)
    BY <1>5, <2>2, <2>3
  <2>6. w[m] = W(m)
    BY <2>3, <2>4, <2>5, <1>3
  <2>7. m \in {n \in 0 .. K : w[n] # W(n)}
    BY <2>1
  <2> HIDE DEF K, T
  <2> QED BY <2>6, <2>7
<1>7. K \in 0 .. K
  BY <1>1
<1> HIDE DEF Loops, K
<1>8. Merged(dest, value, s) = W(K)
  BY <1>5, <1>6, <1>7
<1> QED BY <1>8 DEF K, W

\* slice_write writes all bits of its range.
LEMMA SliceWriteIs ==
  ASSUME NEW s \in Ranges, NEW dest \in Seq(Byte), NEW value \in Seq(Byte),
         LastIndex(s) <= Len(dest), ByteCount(s) <= Len(value)
  PROVE  SliceWrite(dest, value, s) = Overlay(dest, value, s.end - s.start, s)
<1> DEFINE n == ByteCount(s)
           e == EndBits(s)
           o == BitOffset(s)
           d == Merged(dest, value, s)
           i == ByteOffset(s) + n
           m == 0 .. e - 1
           low == [d EXCEPT ![i] = MaskedWrite(ShiftLeft(value[n], o), @, ShiftLeft(m, o))]
<1>1. /\ n \in 1 .. Len(value) /\ n \in Nat /\ n >= 1 /\ e \in 1 .. 8 /\ o \in 0 .. 7
      /\ i \in Nat /\ i >= 1 /\ i <= Len(dest) /\ (Crosses(s) => i + 1 <= Len(dest))
      /\ Crosses(s) <=> o + e > 8
      /\ s.end - s.start = 8 * (n - 1) + e
  BY Sizes DEF LastIndex, Crosses
<1>2. d = Overlay(dest, value, 8 * (n - 1), s)
  BY MergedIs
<1>3. d \in Seq(Byte) /\ Len(d) = Len(dest)
  BY <1>2, OverlayTyped
<1>4. value[n] \in Byte /\ m \in Byte
  BY <1>1, SMTT(30) DEF Byte, Bits
<1>5. SliceWrite(dest, value, s) = IF Crosses(s) THEN PutByte(d, i, value[n], m, s) ELSE low
  BY DEF SliceWrite
<1>6. Puts(SliceWrite(dest, value, s), d, i, value[n], m, s)
  <2>1. CASE Crosses(s)
    <3> HIDE DEF d, i, m, n
    <3>1. Puts(PutByte(d, i, value[n], m, s), d, i, value[n], m, s)
      BY <1>1, <1>3, <1>4, <2>1, PutByteIs
    <3> QED BY <1>5, <2>1, <3>1
  <2>2. CASE ~Crosses(s)
    <3>1. \A k \in m : k + BitOffset(s) < 8
      <4>1. o + e <= 8
        BY <1>1, <2>2, SMTT(30)
      <4>2. \A k \in 0 .. e - 1 : k + o < 8
        <5> HIDE DEF e, o
        <5> QED BY <1>1, <4>1
      <4> QED BY <4>2
    <3>2. i \in 1 .. Len(d)
      BY <1>1, <1>3
    <3> HIDE DEF d, i, m, n
    <3>3. Puts(low, d, i, value[n], m, s)
      BY <1>3, <1>4, <3>1, <3>2, PutLowIs
    <3> HIDE DEF low
    <3> QED BY <1>5, <2>2, <3>3
  <2> QED BY <2>1, <2>2
<1>7. SliceWrite(dest, value, s) = Overlay(dest, value, 8 * (n - 1) + e, s)
  <2> HIDE DEF d, n, e
  <2> QED BY <1>1, <1>2, <1>6, PutsNext DEF n
<1> QED BY <1>1, <1>7

\* slice_write writes the first bits of the value to the range and no other.
THEOREM SliceWriteIsPaste ==
  ASSUME NEW s \in Ranges, NEW dest \in Seq(Byte), NEW value \in Seq(Byte),
         ~SliceWritePanics(dest, value, s)
  PROVE  /\ SliceWrite(dest, value, s) \in Seq(Byte)
         /\ Len(SliceWrite(dest, value, s)) = Len(dest)
         /\ Row(SliceWrite(dest, value, s)) = Paste(Row(dest), Row(value), s)
<1> DEFINE c == s.end - s.start
           x == SliceWrite(dest, value, s)
<1>1. LastIndex(s) <= Len(dest) /\ ByteCount(s) <= Len(value) /\ BytesTo(s) <= Len(dest)
  BY BoundsAgree, Sizes DEF SliceWritePanics, SlicePanics
<1>2. x = Overlay(dest, value, c, s)
  BY <1>1, SliceWriteIs
<1>3. x \in Seq(Byte) /\ Len(x) = Len(dest)
  BY <1>2, OverlayTyped
<1>4. s.start \in Nat /\ s.end \in Nat /\ s.start < s.end /\ c \in Nat
  BY Sizes
<1>5. s.end <= 8 * Len(dest)
  <2>1. BytesTo(s) \in Nat /\ s.end <= 8 * BytesTo(s)
    BY <1>4, BytesToHold
  <2>2. Len(dest) \in Nat
    OBVIOUS
  <2> QED BY <1>1, <1>4, <2>1, <2>2
<1> HIDE DEF x
<1>6. ASSUME NEW j \in 1 .. Len(dest), NEW b \in Bits, NEW k, k = 8 * (j - 1) + b
      PROVE  k \in Row(x) <=> k \in Paste(Row(dest), Row(value), s)
  <2>1. k \in Nat /\ k - s.start \in Int
    BY <1>4, <1>6 DEF Bits
  <2>2. k \in Row(x) <=> b \in x[j]
    BY <1>3, <1>6, RowAt
  <2>3. k \in Row(dest) <=> b \in dest[j]
    BY <1>6, RowAt
  <2>4. b \in x[j] <=> IF k - s.start \in 0 .. c - 1 THEN k - s.start \in Row(value) ELSE b \in dest[j]
    <3>1. x[j] = {bb \in Bits : LET kk == 8 * (j - 1) + bb - s.start
                                IN IF kk \in 0 .. c - 1 THEN kk \in Row(value) ELSE bb \in dest[j]}
      BY <1>2 DEF Overlay
    <3>2. 8 * (j - 1) + b - s.start = k - s.start
      BY <1>4, <1>6 DEF Bits
    <3> HIDE DEF c
    <3> QED BY <3>1, <3>2
  <2>5. k - s.start \in 0 .. c - 1 <=> k \in Inside(s)
    BY <1>4, <2>1 DEF Inside
  <2>6. k - s.start \in Row(value) <=> k \in {q + s.start : q \in Row(value)}
    <3>1. \A q \in Row(value) : q \in Int
      BY DEF Row
    <3>2. \A q \in Row(value) : q + s.start = k <=> q = k - s.start
      BY <1>4, <2>1, <3>1
    <3> QED BY <3>2
  <2> QED BY <2>2, <2>3, <2>4, <2>5, <2>6 DEF Paste
<1>7. Row(x) \subseteq Paste(Row(dest), Row(value), s)
  BY <1>3, <1>6, InRow
<1>8. ASSUME NEW k \in Paste(Row(dest), Row(value), s) PROVE k \in Row(x)
  <2>1. k \in 0 .. 8 * Len(dest) - 1
    <3>1. CASE k \in Row(dest)
      BY <3>1 DEF Row
    <3>2. CASE k \in Inside(s)
      BY <1>4, <1>5, <3>2 DEF Inside
    <3> QED BY <3>1, <3>2 DEF Paste
  <2>2. k \in Nat /\ Len(dest) \in Nat
    BY <2>1
  <2>3. PICK j \in Nat \ {0}, b \in Bits : k = 8 * (j - 1) + b
    BY <2>2, BitOf
  <2>4. j \in 1 .. Len(dest)
    BY <2>1, <2>2, <2>3 DEF Bits
  <2> QED BY <1>6, <2>3, <2>4
<1>9. Row(x) = Paste(Row(dest), Row(value), s)
  BY <1>7, <1>8
<1> QED BY <1>3, <1>9 DEF x

===============================================================================
