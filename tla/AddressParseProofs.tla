--------------------------- MODULE AddressParseProofs ---------------------------
(***************************************************************************)
(* What the parsers of numbers compute for texts of any length, and what   *)
(* every loading of registers and functions keeps, for any texts, widths   *)
(* and keys of value maps.                                                 *)
(***************************************************************************)
EXTENDS AddressParse, SequenceTheorems, WellFoundedInduction, TLAPS

Byte   == 0 .. 255
Radices == {2, 8, 10, 16, 256}

\* A set of numbers that is not empty has a least one.
LEMMA LeastNumber ==
  ASSUME NEW T, T \subseteq Nat, T # {}
  PROVE  \E m \in T : \A k \in T : ~(k < m)
<1> DEFINE R == {ss \in Nat \X Nat : ss[1] < ss[2]}
<1>1. IsWellFoundedOn(R, Nat)
  BY NatLessThanWellFounded DEF OpToRel
<1>2. PICK m \in T : \A k \in T : ~(<<k, m>> \in R)
  <2> HIDE DEF R
  <2> QED BY <1>1, WFMin
<1>3. \A k \in T : k < m => <<k, m>> \in R
  OBVIOUS
<1> QED BY <1>2, <1>3

\* Digits of a smaller range are numbers.
LEMMA AreNumbers ==
  ASSUME NEW S, S \subseteq Nat, NEW b \in Seq(S)
  PROVE  b \in Seq(Nat) /\ \A i \in 1 .. Len(b) : b[i] \in S /\ b[i] \in Nat
<1>1. b \in [1 .. Len(b) -> S] /\ Len(b) \in Nat
  OBVIOUS
<1>2. b \in [1 .. Len(b) -> Nat]
  BY <1>1
<1>3. b \in Seq(Nat)
  BY <1>1, <1>2
<1> QED BY <1>1, <1>3

LEMMA BytesAreNumbers ==
  ASSUME NEW b \in Seq(Byte)
  PROVE  b \in Seq(Nat) /\ \A i \in 1 .. Len(b) : b[i] \in Byte /\ b[i] \in Nat
<1>1. Byte \subseteq Nat
  BY DEF Byte
<1> QED BY <1>1, AreNumbers

\* The last byte and what is in front of it.
LEMMA SameFront ==
  ASSUME NEW m \in Nat, NEW n \in Nat, NEW c \in Byte, NEW d \in Byte,
         m * 256 + c = n * 256 + d
  PROVE  m = n
BY DEF Byte

-----------------------------------------------------------------------------
(* The value of digits.                                                    *)

\* w is the values of the beginnings of digits.
Running(radix, digits, w) ==
  /\ w \in [0 .. Len(digits) -> Nat]
  /\ w[0] = 0
  /\ \A i \in 1 .. Len(digits) : w[i] = w[i - 1] * radix + digits[i]

\* A digit more is a number again.
LEMMA DigitMore ==
  ASSUME NEW radix \in Radices, NEW n \in Nat, NEW d \in Nat
  PROVE  n * radix + d \in Nat
<1>1. CASE radix = 2 BY <1>1
<1>2. CASE radix = 8 BY <1>2
<1>3. CASE radix = 10 BY <1>3
<1>4. CASE radix = 16 BY <1>4
<1>5. CASE radix = 256 BY <1>5
<1> QED BY <1>1, <1>2, <1>3, <1>4, <1>5 DEF Radices

\* The loop over the digits has the values of all beginnings.
LEMMA RunningExists ==
  ASSUME NEW radix \in Radices, NEW digits \in Seq(Nat)
  PROVE  \E w : Running(radix, digits, w)
<1> DEFINE N == Len(digits)
           Runs(w, k) == /\ w \in [0 .. k -> Nat]
                         /\ w[0] = 0
                         /\ \A i \in 1 .. k : w[i] = w[i - 1] * radix + digits[i]
<1>1. N \in Nat /\ \A i \in 1 .. N : digits[i] \in Nat
  OBVIOUS
<1> HIDE DEF N
<1>2. \A k \in 0 .. N : \E w : Runs(w, k)
  <2> DEFINE T == {k \in 0 .. N : ~\E w : Runs(w, k)}
  <2> SUFFICES ASSUME T # {} PROVE FALSE
    OBVIOUS
  <2>1. PICK k \in T : \A j \in T : ~(j < k)
    <3>1. T \subseteq Nat
      BY <1>1
    <3> HIDE DEF T
    <3> QED BY <3>1, LeastNumber
  <2>2. CASE k = 0
    <3> DEFINE w == [i \in 0 .. 0 |-> 0]
    <3>1. Runs(w, 0)
      OBVIOUS
    <3> HIDE DEF w, Runs
    <3> QED BY <2>1, <2>2, <3>1
  <2>3. CASE k # 0
    <3>1. k - 1 \in 0 .. N /\ k - 1 < k /\ k \in 1 .. N /\ k \in Nat
      BY <1>1, <2>1, <2>3
    <3>2. PICK w : Runs(w, k - 1)
      BY <2>1, <3>1
    <3> DEFINE last == w[k - 1] * radix + digits[k]
               y == [i \in 0 .. k |-> IF i = k THEN last ELSE w[i]]
    <3>3. w[k - 1] \in Nat
      BY <3>1, <3>2
    <3>4. last \in Nat
      BY <1>1, <3>1, <3>3, DigitMore
    <3>5. y[k] = last /\ \A i \in 0 .. k - 1 : y[i] = w[i] /\ y[i] \in Nat
      BY <3>1, <3>2
    <3>6. y \in [0 .. k -> Nat]
      <4> HIDE DEF last
      <4> QED BY <3>1, <3>2, <3>4
    <3>7. \A i \in 1 .. k : y[i] = y[i - 1] * radix + digits[i]
      <4> TAKE i \in 1 .. k
      <4>1. CASE i = k
        <5>1. k - 1 \in 0 .. k - 1
          BY <3>1
        <5>2. y[k - 1] = w[k - 1]
          BY <3>5, <5>1
        <5> HIDE DEF y
        <5> QED BY <4>1, <3>5, <5>2
      <4>2. CASE i # k
        <5>1. i \in 1 .. k - 1 /\ i \in 0 .. k - 1 /\ i - 1 \in 0 .. k - 1
          BY <3>1, <4>2
        <5>2. w[i] = w[i - 1] * radix + digits[i]
          BY <3>2, <5>1
        <5>3. y[i] = w[i] /\ y[i - 1] = w[i - 1]
          BY <3>5, <5>1
        <5> HIDE DEF y
        <5> QED BY <5>2, <5>3
      <4> QED BY <4>1, <4>2
    <3>8. y[0] = 0
      <4>1. 0 \in 0 .. k - 1
        BY <3>1
      <4> HIDE DEF y
      <4> QED BY <4>1, <3>2, <3>5
    <3> HIDE DEF y
    <3>9. Runs(y, k)
      BY <3>6, <3>7, <3>8
    <3> HIDE DEF Runs
    <3> QED BY <2>1, <3>9
  <2> QED BY <2>2, <2>3
<1>3. PICK w : Runs(w, N)
  <2>1. N \in 0 .. N
    BY <1>1
  <2> HIDE DEF Runs
  <2> QED BY <1>2, <2>1
<1> QED BY <1>3 DEF Running, N

\* x is what the loop of from_str_radix computes.
Loops(radix, digits, x) ==
  x = [i \in 0 .. Len(digits) |-> IF i = 0 THEN 0 ELSE x[i - 1] * radix + digits[i]]

\* There is only one way to run over the digits.
LEMMA RunningUnique ==
  ASSUME NEW radix, NEW digits \in Seq(Nat), NEW w, NEW x,
         Running(radix, digits, w), Loops(radix, digits, x)
  PROVE  \A i \in 0 .. Len(digits) : x[i] = w[i]
<1> DEFINE N == Len(digits)
           T == {i \in 0 .. N : x[i] # w[i]}
<1> SUFFICES ASSUME T # {} PROVE FALSE
  OBVIOUS
<1>1. N \in Nat
  OBVIOUS
<1>2. PICK m \in T : \A k \in T : ~(k < m)
  <2>1. T \subseteq Nat
    BY <1>1
  <2> HIDE DEF T
  <2> QED BY <2>1, LeastNumber
<1>3. \A i \in 0 .. N : x[i] = IF i = 0 THEN 0 ELSE x[i - 1] * radix + digits[i]
  BY DEF Loops
<1> HIDE DEF N
<1>4. m \in 0 .. N /\ x[m] # w[m]
  BY <1>2
<1>5. x[0] = 0 /\ w[0] = 0
  BY <1>1, <1>3 DEF Running
<1>6. m # 0
  BY <1>4, <1>5
<1>7. m \in 1 .. N /\ m - 1 \in 0 .. N /\ m - 1 < m
  BY <1>1, <1>4, <1>6
<1>8. x[m - 1] = w[m - 1]
  BY <1>2, <1>7
<1>9. w[m] = w[m - 1] * radix + digits[m]
  BY <1>7 DEF Running, N
<1>10. x[m] = x[m - 1] * radix + digits[m]
  BY <1>3, <1>6, <1>7
<1> QED BY <1>4, <1>8, <1>9, <1>10

\* from_str_radix ends with the last of the running values.
LEMMA ValueIs ==
  ASSUME NEW radix \in Radices, NEW digits \in Seq(Nat), NEW w, Running(radix, digits, w)
  PROVE  Value(radix, digits) = w[Len(digits)] /\ Value(radix, digits) \in Nat
<1> DEFINE N == Len(digits)
           n == CHOOSE x : Loops(radix, digits, x)
<1>1. N \in Nat
  OBVIOUS
<1>2. Loops(radix, digits, w)
  <2>1. w = [i \in 0 .. N |-> w[i]] /\ w[0] = 0
    BY DEF Running
  <2>2. \A i \in 0 .. N : w[i] = IF i = 0 THEN 0 ELSE w[i - 1] * radix + digits[i]
    <3> TAKE i \in 0 .. N
    <3>1. CASE i = 0
      BY <3>1, <2>1
    <3>2. CASE i # 0
      <4>1. i \in 1 .. N
        BY <1>1, <3>2
      <4> QED BY <3>2, <4>1 DEF Running
    <3> QED BY <3>1, <3>2
  <2> HIDE DEF N
  <2>3. w = [i \in 0 .. N |-> IF i = 0 THEN 0 ELSE w[i - 1] * radix + digits[i]]
    BY <2>1, <2>2
  <2> QED BY <2>3 DEF Loops, N
<1>3. Loops(radix, digits, n)
  BY <1>2
<1>4. Value(radix, digits) = n[N]
  BY DEF Value, Loops
<1> HIDE DEF n
<1>5. n[N] = w[N]
  <2>1. N \in 0 .. N
    BY <1>1
  <2>2. \A i \in 0 .. Len(digits) : n[i] = w[i]
    BY <1>3, RunningUnique
  <2> QED BY <2>1, <2>2 DEF N
<1>6. w[N] \in Nat
  BY <1>1 DEF Running
<1> QED BY <1>4, <1>5, <1>6

\* A digit more behind the others.
LEMMA ValueAppend ==
  ASSUME NEW radix \in Radices, NEW digits \in Seq(Nat), NEW d \in Nat
  PROVE  Value(radix, Append(digits, d)) = Value(radix, digits) * radix + d
<1> DEFINE N == Len(digits)
           more == Append(digits, d)
<1>1. /\ N \in Nat /\ more \in Seq(Nat) /\ Len(more) = N + 1 /\ more[N + 1] = d
      /\ \A i \in 1 .. N : more[i] = digits[i]
  OBVIOUS
<1> HIDE DEF more
<1>2. PICK w : Running(radix, more, w)
  BY <1>1, RunningExists
<1> DEFINE x == [i \in 0 .. N |-> w[i]]
<1>3. Running(radix, digits, x)
  <2>1. x \in [0 .. N -> Nat] /\ x[0] = 0
    BY <1>1, <1>2 DEF Running
  <2>2. \A i \in 1 .. N : x[i] = x[i - 1] * radix + digits[i]
    <3> TAKE i \in 1 .. N
    <3>1. i \in 1 .. Len(more) /\ i \in 0 .. N /\ i - 1 \in 0 .. N
      BY <1>1
    <3>2. w[i] = w[i - 1] * radix + digits[i]
      BY <1>1, <1>2, <3>1 DEF Running
    <3> QED BY <3>1, <3>2
  <2> HIDE DEF x
  <2> QED BY <2>1, <2>2 DEF Running
<1>4. Value(radix, digits) = w[N]
  <2>1. x[N] = w[N]
    BY <1>1
  <2> HIDE DEF x
  <2> QED BY <1>3, <2>1, ValueIs
<1>5. Value(radix, more) = w[N + 1]
  BY <1>1, <1>2, ValueIs
<1>6. w[N + 1] = w[N] * radix + d
  <2>1. N + 1 \in 1 .. Len(more) /\ N + 1 - 1 = N
    BY <1>1
  <2> QED BY <1>1, <1>2, <2>1 DEF Running
<1> QED BY <1>4, <1>5, <1>6 DEF more

LEMMA ValueOfNone ==
  ASSUME NEW radix \in Radices
  PROVE  Value(radix, <<>>) = 0
<1>1. <<>> \in Seq(Nat) /\ Len(<<>>) = 0
  OBVIOUS
<1>2. PICK w : Running(radix, <<>>, w)
  BY <1>1, RunningExists
<1> QED BY <1>1, <1>2, ValueIs DEF Running

LEMMA ValueOfOne ==
  ASSUME NEW radix \in Radices, NEW d \in Nat
  PROVE  Value(radix, <<d>>) = d
<1>1. Append(<<>>, d) = <<d>> /\ <<>> \in Seq(Nat)
  OBVIOUS
<1>2. Value(radix, Append(<<>>, d)) = 0 * radix + d
  BY <1>1, ValueAppend, ValueOfNone
<1>3. radix \in Nat
  BY DEF Radices
<1> QED BY <1>1, <1>2, <1>3

-----------------------------------------------------------------------------
(* The bytes of a number.                                                  *)

LEMMA ByteSplit ==
  ASSUME NEW n \in Nat
  PROVE  /\ n \div 256 \in Nat /\ n % 256 \in Byte
         /\ n = (n \div 256) * 256 + (n % 256)
         /\ n >= 256 => n \div 256 < n /\ n \div 256 >= 1
<1>1. n \div 256 \in Nat /\ n % 256 \in Byte
  BY DEF Byte
<1>2. n = (n \div 256) * 256 + (n % 256)
  OBVIOUS
<1>3. n >= 256 => n \div 256 < n /\ n \div 256 >= 1
  BY <1>1, <1>2 DEF Byte
<1> QED BY <1>1, <1>2, <1>3

\* b has the bytes of the numbers of S, each from those of a smaller one.
Splits(b, S) == b = [m \in S |-> IF m < 256 THEN <<m>> ELSE Append(b[m \div 256], m % 256)]

\* The step is the same on every domain.
LEMMA SplitsAt ==
  ASSUME NEW S, NEW b, Splits(b, S), NEW m \in S
  PROVE  b[m] = IF m < 256 THEN <<m>> ELSE Append(b[m \div 256], m % 256)
BY DEF Splits

\* The numbers up to any other have bytes.
LEMMA SplitsUpTo ==
  ASSUME NEW n \in Nat
  PROVE  \E b : Splits(b, 0 .. n)
<1> DEFINE T == {k \in Nat : ~\E b : Splits(b, 0 .. k)}
<1> SUFFICES ASSUME T # {} PROVE FALSE
  OBVIOUS
<1>1. PICK k \in T : \A j \in T : ~(j < k)
  <2>1. T \subseteq Nat
    OBVIOUS
  <2> HIDE DEF T
  <2> QED BY <2>1, LeastNumber
<1>2. CASE k = 0
  <2> DEFINE b == [m \in 0 .. 0 |-> <<m>>]
  <2>1. Splits(b, 0 .. 0)
    <3>1. \A m \in 0 .. 0 : m < 256
      OBVIOUS
    <3> QED BY <3>1 DEF Splits
  <2> HIDE DEF b
  <2> QED BY <1>1, <1>2, <2>1
<1>3. CASE k # 0
  <2>1. k \in Nat /\ k - 1 \in Nat /\ k - 1 < k
    BY <1>1, <1>3
  <2>2. PICK w : Splits(w, 0 .. k - 1)
    BY <1>1, <2>1
  <2> DEFINE last == IF k < 256 THEN <<k>> ELSE Append(w[k \div 256], k % 256)
             b == [m \in 0 .. k |-> IF m = k THEN last ELSE w[m]]
  <2>3. \A m \in 0 .. k - 1 : b[m] = w[m]
    BY <2>1
  <2>4. \A m \in 0 .. k : m >= 256 => m \div 256 \in 0 .. k - 1
    <3> TAKE m \in 0 .. k
    <3>1. m \in Nat
      BY <2>1
    <3>2. m >= 256 => m \div 256 \in Nat /\ m \div 256 < m
      BY <3>1, ByteSplit
    <3> QED BY <2>1, <3>2
  <2>5. \A m \in 0 .. k : b[m] = IF m < 256 THEN <<m>> ELSE Append(b[m \div 256], m % 256)
    <3> TAKE m \in 0 .. k
    <3>1. ~(m < 256) => b[m \div 256] = w[m \div 256]
      <4>1. m \in Int
        OBVIOUS
      <4> HIDE DEF b
      <4> QED BY <2>3, <2>4, <4>1
    <3>2. CASE m = k
      <4>1. b[m] = last
        BY <3>2, <2>1
      <4> HIDE DEF b
      <4> QED BY <3>1, <3>2, <4>1
    <3>3. CASE m # k
      <4>1. m \in 0 .. k - 1
        BY <2>1, <3>3
      <4>2. w[m] = IF m < 256 THEN <<m>> ELSE Append(w[m \div 256], m % 256)
        BY <2>2, <4>1, SplitsAt
      <4> HIDE DEF b
      <4> QED BY <2>3, <3>1, <4>1, <4>2
    <3> QED BY <3>2, <3>3
  <2>6. b = [m \in 0 .. k |-> b[m]]
    OBVIOUS
  <2> HIDE DEF b
  <2>7. Splits(b, 0 .. k)
    BY <2>5, <2>6 DEF Splits
  <2> QED BY <1>1, <2>7
<1> QED BY <1>2, <1>3

\* A number has the same bytes whatever the domain is.
LEMMA SplitsAgree ==
  ASSUME NEW k \in Nat, NEW j \in Nat, NEW b, NEW c, Splits(b, 0 .. k), Splits(c, 0 .. j),
         NEW n \in Nat, n <= k, n <= j
  PROVE  b[n] = c[n]
<1> DEFINE T == {m \in 0 .. n : b[m] # c[m]}
<1> SUFFICES ASSUME T # {} PROVE FALSE
  OBVIOUS
<1>1. PICK m \in T : \A i \in T : ~(i < m)
  <2>1. T \subseteq Nat
    OBVIOUS
  <2> HIDE DEF T
  <2> QED BY <2>1, LeastNumber
<1>2. m \in Nat /\ m \in 0 .. n /\ m \in 0 .. k /\ m \in 0 .. j /\ b[m] # c[m]
  BY <1>1
<1>3. b[m] = IF m < 256 THEN <<m>> ELSE Append(b[m \div 256], m % 256)
  BY <1>2, SplitsAt
<1>4. c[m] = IF m < 256 THEN <<m>> ELSE Append(c[m \div 256], m % 256)
  BY <1>2, SplitsAt
<1>5. m >= 256
  BY <1>2, <1>3, <1>4
<1>6. m \div 256 \in 0 .. n /\ m \div 256 < m
  BY <1>2, <1>5, ByteSplit
<1>7. b[m \div 256] = c[m \div 256]
  BY <1>1, <1>6
<1> QED BY <1>2, <1>3, <1>4, <1>7

\* The bytes of a number are those of its 256th part and one more.
LEMMA ToBytesIs ==
  ASSUME NEW n \in Nat
  PROVE  ToBytes(n) = IF n < 256 THEN <<n>> ELSE Append(ToBytes(n \div 256), n % 256)
<1> DEFINE w(m) == CHOOSE b : Splits(b, 0 .. m)
           c == [m \in Nat |-> w(m)[m]]
           b == CHOOSE x : Splits(x, Nat)
<1>1. \A m \in Nat : Splits(w(m), 0 .. m)
  BY SplitsUpTo
<1> HIDE DEF w
<1>2. \A m \in Nat : c[m] = IF m < 256 THEN <<m>> ELSE Append(c[m \div 256], m % 256)
  <2> TAKE m \in Nat
  <2>1. w(m)[m] = IF m < 256 THEN <<m>> ELSE Append(w(m)[m \div 256], m % 256)
    <3>1. m \in 0 .. m
      OBVIOUS
    <3> QED BY <1>1, <3>1, SplitsAt
  <2>2. m >= 256 => w(m)[m \div 256] = w(m \div 256)[m \div 256]
    <3> DEFINE q == m \div 256
    <3> SUFFICES ASSUME m >= 256 PROVE w(m)[q] = w(q)[q]
      OBVIOUS
    <3>1. q \in Nat /\ q <= m /\ q <= q
      BY ByteSplit
    <3> HIDE DEF q
    <3> QED BY <1>1, <3>1, SplitsAgree
  <2>3. m \div 256 \in Nat
    BY ByteSplit
  <2>4. c[m] = w(m)[m] /\ c[m \div 256] = w(m \div 256)[m \div 256]
    BY <2>3
  <2> HIDE DEF c
  <2> QED BY <2>1, <2>2, <2>4
<1>3. Splits(c, Nat)
  <2>1. c = [m \in Nat |-> c[m]]
    OBVIOUS
  <2> HIDE DEF c
  <2> QED BY <1>2, <2>1 DEF Splits
<1>4. Splits(b, Nat)
  <2> HIDE DEF c
  <2> QED BY <1>3
<1>5. \A m \in Nat : ToBytes(m) = b[m]
  BY DEF ToBytes, Splits
<1> HIDE DEF b
<1>6. b[n] = IF n < 256 THEN <<n>> ELSE Append(b[n \div 256], n % 256)
  BY <1>4, SplitsAt
<1>7. n \div 256 \in Nat
  BY ByteSplit
<1> QED BY <1>5, <1>6, <1>7

\* The bytes of a number are bytes, and they have its value.
LEMMA ToBytesGives ==
  ASSUME NEW n \in Nat
  PROVE  ToBytes(n) \in Seq(Byte) /\ Len(ToBytes(n)) >= 1 /\ Value(256, ToBytes(n)) = n
<1> DEFINE Good(m) == ToBytes(m) \in Seq(Byte) /\ Len(ToBytes(m)) >= 1 /\ Value(256, ToBytes(m)) = m
           T == {m \in Nat : ~Good(m)}
<1> SUFFICES ASSUME T # {} PROVE FALSE
  OBVIOUS
<1>1. PICK m \in T : \A i \in T : ~(i < m)
  <2>1. T \subseteq Nat
    OBVIOUS
  <2> HIDE DEF T
  <2> QED BY <2>1, LeastNumber
<1>2. m \in Nat /\ ~Good(m)
  BY <1>1
<1>3. CASE m < 256
  <2>1. ToBytes(m) = <<m>> /\ m \in Byte
    BY <1>2, <1>3, ToBytesIs DEF Byte
  <2>2. <<m>> \in Seq(Byte) /\ Len(<<m>>) = 1
    BY <2>1
  <2>3. Value(256, <<m>>) = m
    BY <1>2, ValueOfOne DEF Radices
  <2> QED BY <1>2, <2>1, <2>2, <2>3
<1>4. CASE m >= 256
  <2> DEFINE q == m \div 256
             r == m % 256
  <2>1. q \in Nat /\ q < m /\ r \in Byte /\ m = q * 256 + r
    BY <1>2, <1>4, ByteSplit
  <2>2. ToBytes(m) = Append(ToBytes(q), r)
    BY <1>2, <1>4, ToBytesIs
  <2> HIDE DEF q, r
  <2>3. Good(q)
    <3> HIDE DEF Good
    <3> QED BY <1>1, <2>1
  <2> DEFINE t == ToBytes(q)
  <2>4. t \in Seq(Byte) /\ Len(t) >= 1 /\ Value(256, t) = q
    BY <2>3
  <2> HIDE DEF t
  <2>5. Append(t, r) \in Seq(Byte) /\ Len(Append(t, r)) = Len(t) + 1 /\ Len(t) \in Nat
    BY <2>1, <2>4
  <2>6. Value(256, Append(t, r)) = Value(256, t) * 256 + r
    <3>1. t \in Seq(Nat) /\ r \in Nat
      BY <2>1, <2>4, BytesAreNumbers DEF Byte
    <3> QED BY <3>1, ValueAppend DEF Radices
  <2>7. ToBytes(m) = Append(t, r)
    BY <2>2 DEF t
  <2>8. Value(256, Append(t, r)) = m
    BY <2>1, <2>4, <2>6
  <2>9. Len(Append(t, r)) >= 1
    BY <2>4, <2>5
  <2> QED BY <1>2, <2>5, <2>7, <2>8, <2>9
<1> QED BY <1>2, <1>3, <1>4

\* Zeros in front of bytes add bytes and no value.
LEMMA Padded ==
  ASSUME NEW k \in Nat, NEW b \in Seq(Byte)
  PROVE  /\ Zeros(k) \o b \in Seq(Byte) /\ Len(Zeros(k) \o b) = k + Len(b)
         /\ Value(256, Zeros(k) \o b) = Value(256, b)
<1> DEFINE N == Len(b)
           p == Zeros(k) \o b
<1>1. Byte \subseteq Nat /\ 0 \in Byte
  BY DEF Byte
<1>2. Zeros(k) \in Seq(Byte) /\ Len(Zeros(k)) = k /\ \A i \in 1 .. k : Zeros(k)[i] = 0
  BY <1>1 DEF Zeros
<1>3. N \in Nat /\ b \in Seq(Nat) /\ \A i \in 1 .. N : b[i] \in Nat
  BY BytesAreNumbers
<1>4. /\ p \in Seq(Byte) /\ Len(p) = k + N
      /\ \A i \in 1 .. k : p[i] = 0
      /\ \A i \in 1 .. N : p[k + i] = b[i]
  <2> DEFINE y == Zeros(k)
  <2>1. y \in Seq(Byte) /\ Len(y) = k /\ \A i \in 1 .. k : y[i] = 0
    BY <1>2
  <2> HIDE DEF y
  <2>2. y \o b \in Seq(Byte) /\ Len(y \o b) = k + Len(b)
    BY <2>1
  <2>3. \A i \in 1 .. k : (y \o b)[i] = 0
    BY <2>1
  <2>4. \A i \in 1 .. Len(b) : (y \o b)[k + i] = b[i]
    BY <2>1
  <2> QED BY <2>2, <2>3, <2>4 DEF y
<1> HIDE DEF p
<1>5. PICK w : Running(256, b, w)
  BY <1>3, RunningExists DEF Radices
<1> DEFINE x == [i \in 0 .. k + N |-> IF i <= k THEN 0 ELSE w[i - k]]
<1>6. w \in [0 .. N -> Nat] /\ w[0] = 0 /\ \A i \in 1 .. N : w[i] = w[i - 1] * 256 + b[i]
  BY <1>5 DEF Running
<1> HIDE DEF N
<1>7. x \in [0 .. k + N -> Nat] /\ x[0] = 0
  BY <1>3, <1>6
<1>8. \A i \in 1 .. k + N : x[i] = x[i - 1] * 256 + p[i]
  <2> TAKE i \in 1 .. k + N
  <2>1. i \in 0 .. k + N /\ i - 1 \in 0 .. k + N
    BY <1>3
  <2>2. CASE i <= k
    <3>1. x[i] = 0 /\ x[i - 1] = 0 /\ p[i] = 0
      BY <1>4, <2>1, <2>2
    <3> HIDE DEF x
    <3> QED BY <3>1
  <2>3. CASE i = k + 1
    <3>1. x[i - 1] = 0 /\ x[i] = w[1] /\ p[i] = b[1] /\ 1 \in 1 .. N
      BY <1>3, <1>4, <2>1, <2>3
    <3>2. w[1] = w[0] * 256 + b[1]
      BY <1>6, <3>1
    <3> HIDE DEF x
    <3> QED BY <1>6, <3>1, <3>2
  <2>4. CASE i > k + 1
    <3>1. i - k \in 1 .. N /\ i = k + (i - k) /\ (i - k) - 1 = (i - 1) - k
      BY <1>3, <2>4
    <3>2. x[i] = w[i - k] /\ x[i - 1] = w[(i - k) - 1] /\ p[i] = b[i - k]
      BY <1>4, <2>1, <2>4, <3>1
    <3>3. w[i - k] = w[(i - k) - 1] * 256 + b[i - k]
      BY <1>6, <3>1
    <3> HIDE DEF x
    <3> QED BY <3>2, <3>3
  <2> QED BY <1>3, <2>2, <2>3, <2>4
<1>9. Running(256, p, x)
  <2> HIDE DEF x
  <2> QED BY <1>4, <1>7, <1>8 DEF Running
<1>10. x[k + N] = w[N]
  BY <1>3, <1>6
<1> HIDE DEF x
<1>11. p \in Seq(Nat)
  BY <1>4, BytesAreNumbers
<1>12. Value(256, p) = x[k + N]
  BY <1>4, <1>9, <1>11, ValueIs DEF Radices
<1>13. Value(256, b) = w[N]
  BY <1>3, <1>5, ValueIs DEF Radices, N
<1> QED BY <1>4, <1>10, <1>12, <1>13 DEF p, N

\* As many bytes with the same value are the same bytes.
LEMMA SameValue ==
  ASSUME NEW b \in Seq(Byte), NEW c \in Seq(Byte), Len(b) = Len(c), Value(256, b) = Value(256, c)
  PROVE  b = c
<1> DEFINE N == Len(b)
<1>1. Byte \subseteq Nat
  BY DEF Byte
<1>2. /\ N \in Nat /\ b \in Seq(Nat) /\ c \in Seq(Nat)
      /\ \A i \in 1 .. N : b[i] \in Byte /\ c[i] \in Byte
  BY BytesAreNumbers
<1>3. PICK w : Running(256, b, w)
  BY <1>2, RunningExists DEF Radices
<1>4. PICK x : Running(256, c, x)
  BY <1>2, RunningExists DEF Radices
<1>5. /\ \A i \in 0 .. N : w[i] \in Nat /\ x[i] \in Nat
      /\ \A i \in 1 .. N : w[i] = w[i - 1] * 256 + b[i] /\ x[i] = x[i - 1] * 256 + c[i]
  BY <1>3, <1>4 DEF Running
<1>6. w[N] = x[N]
  BY <1>2, <1>3, <1>4, ValueIs DEF Radices
<1> HIDE DEF N
<1>7. \A j \in 0 .. N : w[N - j] = x[N - j]
  <2> DEFINE T == {j \in 0 .. N : w[N - j] # x[N - j]}
  <2> SUFFICES ASSUME T # {} PROVE FALSE
    OBVIOUS
  <2>1. PICK j \in T : \A i \in T : ~(i < j)
    <3>1. T \subseteq Nat
      BY <1>2
    <3> HIDE DEF T
    <3> QED BY <3>1, LeastNumber
  <2>2. j # 0
    <3>1. N - 0 = N
      BY <1>2
    <3> QED BY <1>6, <2>1, <3>1
  <2> DEFINE i == N - j + 1
  <2>3. j - 1 \in 0 .. N /\ j - 1 < j /\ i \in 1 .. N /\ i - 1 \in 0 .. N /\ i - 1 = N - j /\ i = N - (j - 1)
    BY <1>2, <2>1, <2>2
  <2>4. w[i] = x[i]
    BY <2>1, <2>3
  <2>5. w[i - 1] # x[i - 1]
    BY <2>1, <2>3
  <2> HIDE DEF i
  <2>6. w[i] = w[i - 1] * 256 + b[i] /\ x[i] = x[i - 1] * 256 + c[i]
    BY <1>5, <2>3
  <2>7. w[i - 1] \in Nat /\ x[i - 1] \in Nat /\ b[i] \in Byte /\ c[i] \in Byte
    BY <1>2, <1>5, <2>3
  <2> DEFINE m == w[i - 1]
             n == x[i - 1]
             d == b[i]
             e == c[i]
  <2>8. m \in Nat /\ n \in Nat /\ d \in Byte /\ e \in Byte
    BY <2>7
  <2>9. m * 256 + d = n * 256 + e /\ m # n
    BY <2>4, <2>5, <2>6
  <2> HIDE DEF m, n, d, e
  <2> QED BY <2>8, <2>9, SameFront
<1>8. \A i \in 0 .. N : w[i] = x[i]
  <2> TAKE i \in 0 .. N
  <2>1. N - i \in 0 .. N /\ N - (N - i) = i
    BY <1>2
  <2> QED BY <1>7, <2>1
<1>9. \A i \in 1 .. N : b[i] = c[i]
  <2> TAKE i \in 1 .. N
  <2>1. i \in 0 .. N /\ i - 1 \in 0 .. N
    BY <1>2
  <2>2. w[i] = w[i - 1] * 256 + b[i] /\ w[i] = w[i - 1] * 256 + c[i]
    BY <1>5, <1>8, <2>1
  <2>3. w[i - 1] \in Nat /\ b[i] \in Nat /\ c[i] \in Nat
    BY <1>1, <1>2, <1>5, <2>1
  <2> QED BY <2>2, <2>3
<1> QED BY <1>9 DEF N

-----------------------------------------------------------------------------
(* How many bytes the digits of a text are worth.                          *)

LEMMA RoundUp ==
  ASSUME NEW n \in Nat, n >= 1
  PROVE  1 + (n - 1) \div 8 \in Nat /\ 8 * (1 + (n - 1) \div 8) - n \in 0 .. 7
<1> DEFINE m == n - 1
<1>1. m \in Nat /\ n = m + 1
  OBVIOUS
<1> HIDE DEF m
<1>2. m \div 8 \in Nat /\ m % 8 \in 0 .. 7 /\ m = 8 * (m \div 8) + (m % 8)
  <2>1. m \div 8 \in Nat /\ m % 8 \in 0 .. 7
    BY <1>1
  <2>2. m = 8 * (m \div 8) + (m % 8)
    BY <1>1
  <2> QED BY <2>1, <2>2
<1>3. 1 + m \div 8 \in Nat /\ 8 * (1 + m \div 8) - n \in 0 .. 7
  BY <1>1, <1>2
<1> QED BY <1>3 DEF m

\* Enough bytes for the bits of the digits, and not one too many.
LEMMA BytesForHold ==
  ASSUME NEW radix \in {2, 8, 16}, NEW n \in Nat
  PROVE  /\ BytesFor(n, radix) \in Nat
         /\ BitsPerDigit(radix) \in {1, 3, 4}
         /\ n * BitsPerDigit(radix) \in Nat
         /\ 8 * BytesFor(n, radix) - n * BitsPerDigit(radix) \in 0 .. 7
<1> DEFINE d == BitsPerDigit(radix)
           b == n * d
<1>1. d \in {1, 3, 4}
  BY DEF BitsPerDigit
<1>2. b \in Nat /\ (n >= 1 => b >= 1) /\ (n = 0 => b = 0)
  <2> HIDE DEF d
  <2>1. CASE d = 1 BY <2>1
  <2>2. CASE d = 3 BY <2>2
  <2>3. CASE d = 4 BY <2>3
  <2> QED BY <1>1, <2>1, <2>2, <2>3
<1>3. BytesFor(n, radix) = IF n = 0 THEN 0 ELSE 1 + (b - 1) \div 8
  BY DEF BytesFor
<1> HIDE DEF b
<1>4. CASE n = 0
  <2>1. BytesFor(n, radix) = 0
    BY <1>3, <1>4
  <2> QED BY <1>1, <1>2, <1>4, <2>1 DEF b
<1>5. CASE n # 0
  <2>1. BytesFor(n, radix) = 1 + (b - 1) \div 8
    BY <1>3, <1>5
  <2>2. b \in Nat /\ b >= 1
    BY <1>2, <1>5
  <2>3. BytesFor(n, radix) \in Nat /\ 8 * BytesFor(n, radix) - b \in 0 .. 7
    BY <2>1, <2>2, RoundUp
  <2> QED BY <1>1, <1>2, <2>3 DEF b
<1> QED BY <1>4, <1>5

\* More digits are worth no fewer bytes.
LEMMA BytesForGrows ==
  ASSUME NEW radix \in {2, 8, 16}, NEW m \in Nat, NEW n \in Nat, m <= n
  PROVE  BytesFor(m, radix) <= BytesFor(n, radix)
<1> DEFINE d == BitsPerDigit(radix)
           a == BytesFor(m, radix)
           b == BytesFor(n, radix)
<1>1. /\ d \in {1, 3, 4} /\ a \in Nat /\ b \in Nat
      /\ 8 * a - m * d \in 0 .. 7 /\ 8 * b - n * d \in 0 .. 7
  BY BytesForHold
<1> HIDE DEF a, b, d
<1>2. a <= b
  <2>1. CASE d = 1 BY <1>1, <2>1
  <2>2. CASE d = 3 BY <1>1, <2>2
  <2>3. CASE d = 4 BY <1>1, <2>3
  <2> QED BY <1>1, <2>1, <2>2, <2>3
<1> QED BY <1>2 DEF a, b

\* The digits that fill a byte.
PerByte(radix) == IF radix = 2 THEN 8 ELSE 2

LEMMA BytesForSteps ==
  ASSUME NEW radix \in {2, 16}, NEW n \in Nat, n >= 1
  PROVE  /\ n <= PerByte(radix) => BytesFor(n, radix) = 1
         /\ n > PerByte(radix) => BytesFor(n, radix) = BytesFor(n - PerByte(radix), radix) + 1
<1> DEFINE d == BitsPerDigit(radix)
           k == PerByte(radix)
           a == BytesFor(n, radix)
           b == BytesFor(n - k, radix)
<1>1. (d = 1 /\ k = 8) \/ (d = 4 /\ k = 2)
  BY DEF BitsPerDigit, PerByte
<1>2. a \in Nat /\ 8 * a - n * d \in 0 .. 7
  BY BytesForHold
<1>3. n > k => b \in Nat /\ 8 * b - (n - k) * d \in 0 .. 7
  <2>1. n > k => n - k \in Nat
    BY <1>1
  <2> HIDE DEF k
  <2> QED BY <2>1, BytesForHold
<1> HIDE DEF a, b, d, k
<1>4. (n <= k => a = 1) /\ (n > k => a = b + 1)
  <2>1. CASE d = 1 /\ k = 8 BY <1>2, <1>3, <2>1
  <2>2. CASE d = 4 /\ k = 2 BY <1>2, <1>3, <2>2
  <2> QED BY <1>1, <2>1, <2>2
<1> QED BY <1>4 DEF a, b, k

-----------------------------------------------------------------------------
(* The running values, a byte at a time.                                   *)

\* From the digit behind the zeros on, the values of the first digits that fill
\* a byte are below 256, and each other value has a byte more than the one that
\* many digits before it.
ByBytes(w, zeros, count, step) ==
  /\ \A i \in zeros + 1 .. count : i <= zeros + step => w[i] \in 1 .. 255
  /\ \A i \in zeros + 1 .. count : i > zeros + step =>
       \E c \in Byte : w[i] = w[i - step] * 256 + c

\* A text with zeros in front and a digit that is none behind them.
Leads(digits, zeros) ==
  /\ zeros \in 0 .. Len(digits) - 1
  /\ \A i \in 1 .. zeros : digits[i] = 0
  /\ digits[zeros + 1] # 0

\* Two digits fill a byte.
LEMMA HexPair ==
  \A d \in 0 .. 15, e \in 0 .. 15 : d * 16 + e \in 0 .. 255 /\ (d >= 1 => d * 16 + e >= 1)
OBVIOUS

\* The value of zeros.
LEMMA RunsOverZeros ==
  ASSUME NEW radix \in Radices, NEW digits \in Seq(Nat), NEW w, Running(radix, digits, w),
         NEW zeros \in 0 .. Len(digits), \A i \in 1 .. zeros : digits[i] = 0
  PROVE  w[zeros] = 0
<1> DEFINE T == {i \in 0 .. zeros : w[i] # 0}
<1> SUFFICES ASSUME T # {} PROVE FALSE
  BY DEF Running
<1>1. PICK m \in T : \A i \in T : ~(i < m)
  <2>1. T \subseteq Nat
    OBVIOUS
  <2> HIDE DEF T
  <2> QED BY <2>1, LeastNumber
<1>2. m # 0
  BY <1>1 DEF Running
<1>3. m \in 1 .. Len(digits) /\ m \in 1 .. zeros /\ m - 1 \in 0 .. zeros /\ m - 1 < m
  BY <1>1, <1>2
<1>4. w[m - 1] = 0
  BY <1>1, <1>3
<1>5. w[m] = w[m - 1] * radix + digits[m] /\ digits[m] = 0
  BY <1>3 DEF Running
<1>6. w[m] = 0
  <2>1. radix \in Nat
    BY DEF Radices
  <2> QED BY <1>4, <1>5, <2>1
<1>7. w[m] # 0
  BY <1>1
<1> QED BY <1>6, <1>7

LEMMA HexByBytes ==
  ASSUME NEW digits \in Seq(0 .. 15), NEW w, Running(16, digits, w), NEW zeros, Leads(digits, zeros)
  PROVE  ByBytes(w, zeros, Len(digits), 2)
<1> DEFINE N == Len(digits)
<1>1. /\ N \in Nat /\ zeros \in Nat /\ zeros < N
      /\ \A i \in 1 .. N : digits[i] \in 0 .. 15
      /\ digits[zeros + 1] # 0
  BY DEF Leads
<1>2. /\ \A i \in 0 .. N : w[i] \in Nat
      /\ \A i \in 1 .. N : w[i] = w[i - 1] * 16 + digits[i]
  BY DEF Running
<1>3. w[zeros] = 0
  <2>1. digits \in Seq(Nat)
    BY AreNumbers
  <2> QED BY <2>1, RunsOverZeros DEF Leads, Radices
<1> HIDE DEF N
<1>4. w[zeros + 1] \in 1 .. 15
  <2>1. zeros + 1 \in 1 .. N /\ (zeros + 1) - 1 = zeros
    BY <1>1
  <2>2. w[zeros + 1] = w[zeros] * 16 + digits[zeros + 1] /\ digits[zeros + 1] \in 0 .. 15
    BY <1>1, <1>2, <2>1
  <2> QED BY <1>1, <1>3, <2>2
<1>5. \A i \in zeros + 1 .. N : i <= zeros + 2 => w[i] \in 1 .. 255
  <2> TAKE i \in zeros + 1 .. N
  <2>1. CASE i = zeros + 1
    BY <1>4, <2>1
  <2>2. CASE i = zeros + 2
    <3>1. i \in 1 .. N /\ i - 1 = zeros + 1
      BY <1>1, <2>2
    <3>2. w[i] = w[zeros + 1] * 16 + digits[i] /\ digits[i] \in 0 .. 15
      BY <1>1, <1>2, <3>1
    <3>3. w[zeros + 1] \in 0 .. 15 /\ w[zeros + 1] >= 1
      BY <1>4
    <3>4. w[zeros + 1] * 16 + digits[i] \in 0 .. 255 /\ w[zeros + 1] * 16 + digits[i] >= 1
      BY <3>2, <3>3, HexPair
    <3> QED BY <3>2, <3>4
  <2> QED BY <1>1, <2>1, <2>2
<1>6. \A i \in zeros + 1 .. N : i > zeros + 2 => \E c \in Byte : w[i] = w[i - 2] * 256 + c
  <2> SUFFICES ASSUME NEW i \in zeros + 1 .. N, i > zeros + 2
               PROVE  \E c \in Byte : w[i] = w[i - 2] * 256 + c
    OBVIOUS
  <2>1. i \in 1 .. N /\ i - 1 \in 1 .. N /\ i - 2 \in 0 .. N /\ (i - 1) - 1 = i - 2
    BY <1>1
  <2>2. w[i] = w[i - 1] * 16 + digits[i] /\ w[i - 1] = w[i - 2] * 16 + digits[i - 1]
    BY <1>2, <2>1
  <2>3. w[i - 2] \in Nat /\ digits[i] \in 0 .. 15 /\ digits[i - 1] \in 0 .. 15
    BY <1>1, <1>2, <2>1
  <2> DEFINE c == digits[i - 1] * 16 + digits[i]
  <2>4. w[i] = (w[i - 2] * 16 + digits[i - 1]) * 16 + digits[i]
    BY <2>2
  <2>5. (w[i - 2] * 16 + digits[i - 1]) * 16 + digits[i] = w[i - 2] * 256 + c /\ c \in 0 .. 255
    <3> DEFINE m == w[i - 2]
               d == digits[i - 1]
               e == digits[i]
    <3>1. m \in Nat /\ d \in 0 .. 15 /\ e \in 0 .. 15
      BY <2>3
    <3> HIDE DEF m, d, e
    <3>2. (m * 16 + d) * 16 + e = m * 256 + (d * 16 + e) /\ d * 16 + e \in 0 .. 255
      BY <3>1
    <3> QED BY <3>2 DEF m, d, e
  <2>6. c \in Byte /\ w[i] = w[i - 2] * 256 + c
    BY <2>4, <2>5 DEF Byte
  <2> QED BY <2>6
<1> QED BY <1>5, <1>6 DEF ByBytes, N

LEMMA BinaryByBytes ==
  ASSUME NEW digits \in Seq(0 .. 1), NEW w, Running(2, digits, w), NEW zeros, Leads(digits, zeros)
  PROVE  ByBytes(w, zeros, Len(digits), 8)
<1> DEFINE N == Len(digits)
<1>1. /\ N \in Nat /\ zeros \in Nat /\ zeros < N
      /\ \A i \in 1 .. N : digits[i] \in 0 .. 1
      /\ digits[zeros + 1] # 0
  BY DEF Leads
<1>2. /\ \A i \in 0 .. N : w[i] \in Nat
      /\ \A i \in 1 .. N : w[i] = w[i - 1] * 2 + digits[i]
  BY DEF Running
<1>3. w[zeros] = 0
  <2>1. digits \in Seq(Nat)
    BY AreNumbers
  <2> QED BY <2>1, RunsOverZeros DEF Leads, Radices
<1> HIDE DEF N
<1>4. zeros + 1 <= N => w[zeros + 1] \in 1 .. 1
  <2>1. zeros + 1 \in 1 .. N /\ (zeros + 1) - 1 = zeros
    BY <1>1
  <2>2. w[zeros + 1] = w[zeros] * 2 + digits[zeros + 1] /\ digits[zeros + 1] \in 0 .. 1
    BY <1>1, <1>2, <2>1
  <2> QED BY <1>1, <1>3, <2>2
<1> DEFINE Below(j, n) == zeros + j <= N => w[zeros + j] \in 1 .. n
<1>5. \A j \in 2 .. 8, n \in Nat : Below(j - 1, n) => Below(j, 2 * n + 1)
  <2> SUFFICES ASSUME NEW j \in 2 .. 8, NEW n \in Nat, Below(j - 1, n), zeros + j <= N
               PROVE  w[zeros + j] \in 1 .. 2 * n + 1
    OBVIOUS
  <2>1. zeros + j \in 1 .. N /\ (zeros + j) - 1 = zeros + (j - 1) /\ zeros + (j - 1) <= N
    BY <1>1
  <2>2. w[zeros + j] = w[zeros + (j - 1)] * 2 + digits[zeros + j] /\ digits[zeros + j] \in 0 .. 1
    BY <1>1, <1>2, <2>1
  <2>3. w[zeros + (j - 1)] \in 1 .. n
    BY <2>1
  <2> QED BY <2>2, <2>3
<1>6. Below(1, 1)
  BY <1>4
<1> HIDE DEF Below
<1>7. Below(2, 3) /\ Below(3, 7) /\ Below(4, 15)
  BY <1>5, <1>6
<1>8. Below(5, 31) /\ Below(6, 63)
  BY <1>5, <1>7
<1>9. Below(7, 127) /\ Below(8, 255)
  BY <1>5, <1>8
<1>10. \A i \in zeros + 1 .. N : i <= zeros + 8 => w[i] \in 1 .. 255
  <2> SUFFICES ASSUME NEW i \in zeros + 1 .. N, i <= zeros + 8
               PROVE  w[i] \in 1 .. 255
    OBVIOUS
  <2> DEFINE j == i - zeros
  <2>1. j \in 1 .. 8 /\ i = zeros + j
    BY <1>1
  <2> HIDE DEF j
  <2>2. i <= N
    OBVIOUS
  <2>3. CASE j = 1 BY <1>6, <2>1, <2>2, <2>3 DEF Below
  <2>4. CASE j = 2 BY <1>7, <2>1, <2>2, <2>4 DEF Below
  <2>5. CASE j = 3 BY <1>7, <2>1, <2>2, <2>5 DEF Below
  <2>6. CASE j = 4 BY <1>7, <2>1, <2>2, <2>6 DEF Below
  <2>7. CASE j = 5 BY <1>8, <2>1, <2>2, <2>7 DEF Below
  <2>8. CASE j = 6 BY <1>8, <2>1, <2>2, <2>8 DEF Below
  <2>9. CASE j = 7 BY <1>9, <2>1, <2>2, <2>9 DEF Below
  <2>10. CASE j = 8 BY <1>9, <2>1, <2>2, <2>10 DEF Below
  <2> QED BY <2>1, <2>3, <2>4, <2>5, <2>6, <2>7, <2>8, <2>9, <2>10
<1>11. \A i \in zeros + 1 .. N : i > zeros + 8 => \E c \in Byte : w[i] = w[i - 8] * 256 + c
  <2> SUFFICES ASSUME NEW i \in zeros + 1 .. N, i > zeros + 8
               PROVE  \E c \in Byte : w[i] = w[i - 8] * 256 + c
    OBVIOUS
  <2>1. \A j \in 0 .. 7 : /\ w[i - j] = w[i - (j + 1)] * 2 + digits[i - j]
                          /\ digits[i - j] \in 0 .. 1
    <3> TAKE j \in 0 .. 7
    <3>1. i - j \in 1 .. N /\ (i - j) - 1 = i - (j + 1)
      BY <1>1
    <3> QED BY <1>1, <1>2, <3>1
  <2>2. w[i - 8] \in Nat
    BY <1>1, <1>2
  <2>3. \E c \in 0 .. 15 : w[i - 4] = w[i - 8] * 16 + c
    <3>1. /\ w[i - 4] = w[i - 5] * 2 + digits[i - 4] /\ w[i - 5] = w[i - 6] * 2 + digits[i - 5]
          /\ w[i - 6] = w[i - 7] * 2 + digits[i - 6] /\ w[i - 7] = w[i - 8] * 2 + digits[i - 7]
          /\ digits[i - 4] \in 0 .. 1 /\ digits[i - 5] \in 0 .. 1
          /\ digits[i - 6] \in 0 .. 1 /\ digits[i - 7] \in 0 .. 1
      BY <2>1
    <3> DEFINE c == digits[i - 7] * 8 + digits[i - 6] * 4 + digits[i - 5] * 2 + digits[i - 4]
    <3>2. w[i - 4] = (((w[i - 8] * 2 + digits[i - 7]) * 2 + digits[i - 6]) * 2 + digits[i - 5]) * 2 + digits[i - 4]
      BY <3>1
    <3>3. /\ (((w[i - 8] * 2 + digits[i - 7]) * 2 + digits[i - 6]) * 2 + digits[i - 5]) * 2 + digits[i - 4] = w[i - 8] * 16 + c
          /\ c \in 0 .. 15
      <4> DEFINE m == w[i - 8]
                 d1 == digits[i - 7]
                 d2 == digits[i - 6]
                 d3 == digits[i - 5]
                 d4 == digits[i - 4]
      <4>1. /\ m \in Nat /\ d1 \in 0 .. 1 /\ d2 \in 0 .. 1
            /\ d3 \in 0 .. 1 /\ d4 \in 0 .. 1
        BY <2>2, <3>1
      <4> HIDE DEF m, d1, d2, d3, d4
      <4>2. (((m * 2 + d1) * 2 + d2) * 2 + d3) * 2 + d4 = m * 16 + (d1 * 8 + d2 * 4 + d3 * 2 + d4)
        BY <4>1
      <4>3. d1 * 8 + d2 * 4 + d3 * 2 + d4 \in 0 .. 15
        BY <4>1
      <4> QED BY <4>2, <4>3 DEF m, d1, d2, d3, d4
    <3> QED BY <3>2, <3>3
  <2>4. \E c \in 0 .. 15 : w[i] = w[i - 4] * 16 + c
    <3>1. w[i - 4] \in Nat
      BY <2>2, <2>3
    <3>2. /\ w[i] = w[i - 1] * 2 + digits[i] /\ w[i - 1] = w[i - 2] * 2 + digits[i - 1]
          /\ w[i - 2] = w[i - 3] * 2 + digits[i - 2] /\ w[i - 3] = w[i - 4] * 2 + digits[i - 3]
          /\ digits[i] \in 0 .. 1 /\ digits[i - 1] \in 0 .. 1
          /\ digits[i - 2] \in 0 .. 1 /\ digits[i - 3] \in 0 .. 1
      <4>1. i - 0 = i
        OBVIOUS
      <4> QED BY <2>1, <4>1
    <3> DEFINE c == digits[i - 3] * 8 + digits[i - 2] * 4 + digits[i - 1] * 2 + digits[i]
    <3>3. w[i] = (((w[i - 4] * 2 + digits[i - 3]) * 2 + digits[i - 2]) * 2 + digits[i - 1]) * 2 + digits[i]
      BY <3>2
    <3>4. /\ (((w[i - 4] * 2 + digits[i - 3]) * 2 + digits[i - 2]) * 2 + digits[i - 1]) * 2 + digits[i] = w[i - 4] * 16 + c
          /\ c \in 0 .. 15
      <4> DEFINE m == w[i - 4]
                 d1 == digits[i - 3]
                 d2 == digits[i - 2]
                 d3 == digits[i - 1]
                 d4 == digits[i]
      <4>1. /\ m \in Nat /\ d1 \in 0 .. 1 /\ d2 \in 0 .. 1
            /\ d3 \in 0 .. 1 /\ d4 \in 0 .. 1
        BY <3>1, <3>2
      <4> HIDE DEF m, d1, d2, d3, d4
      <4>2. (((m * 2 + d1) * 2 + d2) * 2 + d3) * 2 + d4 = m * 16 + (d1 * 8 + d2 * 4 + d3 * 2 + d4)
        BY <4>1
      <4>3. d1 * 8 + d2 * 4 + d3 * 2 + d4 \in 0 .. 15
        BY <4>1
      <4> QED BY <4>2, <4>3 DEF m, d1, d2, d3, d4
    <3> QED BY <3>3, <3>4
  <2>5. PICK c \in 0 .. 15 : w[i - 4] = w[i - 8] * 16 + c
    BY <2>3
  <2>6. PICK d \in 0 .. 15 : w[i] = w[i - 4] * 16 + d
    BY <2>4
  <2>7. 16 * c + d \in Byte /\ w[i] = w[i - 8] * 256 + (16 * c + d)
    <3> DEFINE m == w[i - 8]
               n == w[i]
    <3>1. n = (m * 16 + c) * 16 + d
      BY <2>5, <2>6
    <3>2. m \in Nat
      BY <2>2
    <3> HIDE DEF m, n
    <3>3. (m * 16 + c) * 16 + d = m * 256 + (16 * c + d)
      BY <3>2
    <3>4. 16 * c + d \in Byte
      BY DEF Byte
    <3> QED BY <3>1, <3>3, <3>4 DEF m, n
  <2> QED BY <2>7
<1> QED BY <1>10, <1>11 DEF ByBytes, N

\* The bytes of each running value are those its digits are worth.
LEMMA BytesOfRun ==
  ASSUME NEW radix \in {2, 16}, NEW zeros \in Nat, NEW count \in Nat, NEW w,
         \A i \in 0 .. count : w[i] \in Nat,
         ByBytes(w, zeros, count, PerByte(radix))
  PROVE  \A i \in zeros + 1 .. count : Len(ToBytes(w[i])) = BytesFor(i - zeros, radix)
<1> DEFINE k == PerByte(radix)
           Good(i) == w[i] >= 1 /\ Len(ToBytes(w[i])) = BytesFor(i - zeros, radix)
           T == {i \in zeros + 1 .. count : ~Good(i)}
<1> SUFFICES ASSUME T # {} PROVE FALSE
  OBVIOUS
<1>1. PICK i \in T : \A j \in T : ~(j < i)
  <2>1. T \subseteq Nat
    OBVIOUS
  <2> HIDE DEF T
  <2> QED BY <2>1, LeastNumber
<1>2. i \in zeros + 1 .. count /\ ~Good(i)
  BY <1>1
<1>3. k \in {2, 8}
  BY DEF PerByte
<1> DEFINE n == i - zeros
<1>4. n \in Nat /\ n >= 1 /\ w[i] \in Nat /\ i \in Nat
  BY <1>2
<1>5. CASE n <= k
  <2>1. i <= zeros + k
    BY <1>2, <1>3, <1>5
  <2>2. w[i] \in 1 .. 255
    BY <1>2, <2>1 DEF ByBytes
  <2> DEFINE x == w[i]
  <2>0. x \in 1 .. 255
    BY <2>2
  <2> HIDE DEF x
  <2>3. x \in Nat /\ x < 256 /\ x >= 1
    BY <2>0
  <2>4. ToBytes(x) = <<x>>
    BY <2>3, ToBytesIs
  <2>5. Len(ToBytes(x)) = 1
    BY <2>4
  <2> HIDE DEF n
  <2>6. BytesFor(n, radix) = 1
    BY <1>4, <1>5, BytesForSteps
  <2>7. x >= 1 /\ Len(ToBytes(x)) = BytesFor(n, radix)
    BY <2>3, <2>5, <2>6
  <2> QED BY <1>2, <2>7 DEF n, x
<1>6. CASE n > k
  <2> DEFINE j == i - k
  <2>1. j \in zeros + 1 .. count /\ j < i /\ i > zeros + k /\ j - zeros = n - k
    BY <1>2, <1>3, <1>6
  <2>2. PICK c \in Byte : w[i] = w[j] * 256 + c
    BY <1>2, <2>1 DEF ByBytes
  <2> HIDE DEF j
  <2>3. Good(j)
    <3> HIDE DEF Good
    <3> QED BY <1>1, <2>1
  <2> DEFINE m == w[j]
             x == w[i]
  <2>4. m \in Nat /\ m >= 1 /\ x \in Nat /\ x = m * 256 + c
    BY <1>4, <2>1, <2>2, <2>3
  <2> HIDE DEF m, x
  <2>5. x >= 256 /\ ~(x < 256) /\ x \div 256 = m /\ x % 256 = c
    BY <2>2, <2>4 DEF Byte
  <2>6. ToBytes(x) = Append(ToBytes(m), c)
    BY <2>4, <2>5, ToBytesIs
  <2>7. ToBytes(m) \in Seq(Byte)
    BY <2>4, ToBytesGives
  <2>8. Len(ToBytes(x)) = Len(ToBytes(m)) + 1
    BY <2>6, <2>7
  <2>9. Len(ToBytes(m)) = BytesFor(n - k, radix)
    BY <2>1, <2>3 DEF m
  <2> HIDE DEF n
  <2>10. BytesFor(n, radix) = BytesFor(n - k, radix) + 1
    BY <1>4, <1>6, BytesForSteps
  <2>11. x >= 1 /\ Len(ToBytes(x)) = BytesFor(n, radix)
    BY <2>5, <2>4, <2>8, <2>9, <2>10
  <2> QED BY <1>2, <2>11 DEF n, x
<1>7. n <= k \/ n > k
  BY <1>3, <1>4
<1> QED BY <1>5, <1>6, <1>7

\* Leading zeros are counted up to the first digit that is none.
LEMMA LeadingZerosIs ==
  ASSUME NEW digits \in Seq(Nat)
  PROVE  /\ LeadingZeros(digits) \in 0 .. Len(digits)
         /\ \A i \in 1 .. LeadingZeros(digits) : digits[i] = 0
         /\ LeadingZeros(digits) = Len(digits) \/ Leads(digits, LeadingZeros(digits))
<1> DEFINE N == Len(digits)
           IsIt(k) == (\A i \in 1 .. k : digits[i] = 0) /\ (k = N \/ digits[k + 1] # 0)
<1>1. N \in Nat
  OBVIOUS
<1> HIDE DEF N
<1>2. \E k \in 0 .. N : IsIt(k)
  <2> DEFINE T == {i \in 1 .. N : digits[i] # 0}
  <2>1. CASE T = {}
    <3>1. \A i \in 1 .. N : digits[i] = 0
      BY <2>1
    <3> QED BY <1>1, <3>1
  <2>2. CASE T # {}
    <3>1. PICK m \in T : \A j \in T : ~(j < m)
      <4>1. T \subseteq Nat
        BY <1>1
      <4> HIDE DEF T
      <4> QED BY <2>2, <4>1, LeastNumber
    <3>2. m \in 1 .. N /\ digits[m] # 0
      BY <3>1
    <3>3. m - 1 \in 0 .. N /\ (m - 1) + 1 = m
      BY <1>1, <3>2
    <3>4. \A i \in 1 .. m - 1 : digits[i] = 0
      <4> TAKE i \in 1 .. m - 1
      <4>1. i \in 1 .. N /\ i < m
        BY <1>1, <3>2
      <4> QED BY <3>1, <4>1
    <3> QED BY <3>2, <3>3, <3>4
  <2> QED BY <2>1, <2>2
<1> DEFINE z == CHOOSE k \in 0 .. N : IsIt(k)
<1>3. z \in 0 .. N /\ IsIt(z)
  <2> HIDE DEF IsIt
  <2> QED BY <1>2
<1>4. LeadingZeros(digits) = z
  BY DEF LeadingZeros, N
<1> HIDE DEF z
<1>5. z # N => z \in 0 .. N - 1
  BY <1>1, <1>3
<1> QED BY <1>3, <1>4, <1>5 DEF Leads, N

-----------------------------------------------------------------------------
(* The parsers.                                                            *)

\* A number has digits of its radix, and no minus.
LEMMA NumbersHaveDigits ==
  ASSUME NEW t \in Words \cup Numbers, IsNumber(t)
  PROVE  /\ t.radix \in {2, 8, 10, 16} /\ Rest(t) = t.digits
         /\ t.digits \in Seq(0 .. t.radix - 1) /\ t.digits \in Seq(Nat)
         /\ Len(t.digits) \in Nat /\ Len(t.digits) >= 1
<1>1. t \in Numbers
  BY DEF IsNumber, Words
<1>2. /\ t.radix \in {2, 8, 10, 16} /\ t.neg \in BOOLEAN /\ t.digits \in Seq(0 .. 16)
      /\ t.digits \in Seq(Nat)
  <2>1. t.radix \in {2, 8, 10, 16} /\ t.neg \in BOOLEAN /\ t.digits \in Seq(0 .. 16)
    BY <1>1 DEF Numbers, Bad
  <2>2. t.digits \in Seq(Nat)
    BY <2>1, AreNumbers
  <2> QED BY <2>1, <2>2
<1>3. ~t.neg
  <2> SUFFICES ASSUME t.neg PROVE FALSE
    OBVIOUS
  <2>1. Rest(t) = <<16>> \o t.digits
    BY DEF Rest, Bad
  <2>2. 1 \in DOMAIN Rest(t) /\ Rest(t)[1] = 16
    BY <1>2, <2>1
  <2>3. 16 < t.radix
    BY <2>2 DEF IsNumber
  <2> QED BY <1>2, <2>3
<1>4. Rest(t) = t.digits
  BY <1>3 DEF Rest
<1> DEFINE d == t.digits
           r == t.radix
<1>5. d \in Seq(Nat) /\ d # <<>> /\ \A i \in DOMAIN d : d[i] < r
  BY <1>2, <1>4 DEF IsNumber
<1>6. r \in Nat
  BY <1>2
<1> HIDE DEF d, r
<1>7. Len(d) \in Nat /\ Len(d) >= 1
  BY <1>5
<1>8. \A i \in 1 .. Len(d) : d[i] \in 0 .. r - 1
  BY <1>5, <1>6
<1>9. d \in Seq(0 .. r - 1)
  <2>1. d \in [1 .. Len(d) -> Nat]
    BY <1>5
  <2>2. d \in [1 .. Len(d) -> 0 .. r - 1]
    BY <2>1, <1>8
  <2> DEFINE S == 0 .. r - 1
  <2>3. d \in [1 .. Len(d) -> S]
    BY <2>2
  <2> HIDE DEF S
  <2>4. d \in Seq(S)
    BY <1>7, <2>3
  <2> QED BY <2>4 DEF S
<1> QED BY <1>2, <1>4, <1>5, <1>7, <1>9 DEF d, r

\* As many zero bytes are put in front as the zeros in front are worth.
LEMMA PaddingIsNat ==
  ASSUME NEW radix \in {2, 8, 16}, NEW digits \in Seq(Nat), Len(digits) >= 1
  PROVE  /\ Padding(radix, digits) \in Nat
         /\ LeadingZeros(digits) = Len(digits) =>
              Padding(radix, digits) = BytesFor(Len(digits), radix) - 1
         /\ LeadingZeros(digits) # Len(digits) =>
              Padding(radix, digits) = BytesFor(Len(digits), radix)
                                         - BytesFor(Len(digits) - LeadingZeros(digits), radix)
<1> DEFINE N == Len(digits)
           m == N - LeadingZeros(digits)
           total == BytesFor(N, radix)
           value == BytesFor(m, radix)
<1>1. N \in Nat /\ m \in Nat /\ m <= N /\ (LeadingZeros(digits) = N <=> m = 0)
  BY LeadingZerosIs
<1>2. Padding(radix, digits) = IF value = 0 /\ total > 0 THEN total - 1 ELSE total - value
  BY DEF Padding
<1>3. N >= 1
  OBVIOUS
<1> HIDE DEF N, m
<1>4. total \in Nat /\ value \in Nat /\ value <= total /\ total >= 1 /\ (value = 0 <=> m = 0)
  <2>1. total \in Nat /\ value \in Nat /\ value <= total
    BY <1>1, BytesForHold, BytesForGrows
  <2>2. \A n \in Nat : n >= 1 => BytesFor(n, radix) >= 1
    <3> TAKE n \in Nat
    <3> DEFINE d == BitsPerDigit(radix)
               b == BytesFor(n, radix)
    <3>1. d \in {1, 3, 4} /\ b \in Nat /\ 8 * b - n * d \in 0 .. 7
      BY BytesForHold
    <3> HIDE DEF b, d
    <3>2. n >= 1 => b >= 1
      <4>1. CASE d = 1 BY <3>1, <4>1
      <4>2. CASE d = 3 BY <3>1, <4>2
      <4>3. CASE d = 4 BY <3>1, <4>3
      <4> QED BY <3>1, <4>1, <4>2, <4>3
    <3> QED BY <3>2 DEF b
  <2>3. m = 0 => value = 0
    BY DEF BytesFor
  <2>4. m >= 1 => value >= 1
    BY <1>1, <2>2
  <2>5. total >= 1
    BY <1>1, <1>3, <2>2
  <2> QED BY <1>1, <2>1, <2>3, <2>4, <2>5
<1> HIDE DEF total, value
<1> QED BY <1>1, <1>2, <1>4 DEF N, m, total, value

\* Both parsers give bytes, at least one.
LEMMA ParsedIs ==
  ASSUME NEW t \in Words \cup Numbers, IsNumber(t)
  PROVE  LET v == Value(t.radix, t.digits)
         IN /\ v \in Nat
            /\ ParseNumberPadded(t) =
                 Ok(IF t.radix = 10 THEN ToBytes(v)
                    ELSE Zeros(Padding(t.radix, t.digits)) \o ToBytes(v))
            /\ t.radix # 10 => Padding(t.radix, t.digits) \in Nat
<1>1. /\ t.radix \in {2, 8, 10, 16} /\ t.digits \in Seq(Nat) /\ Len(t.digits) >= 1
  BY NumbersHaveDigits
<1>2. PICK w : Running(t.radix, t.digits, w)
  BY <1>1, RunningExists DEF Radices
<1>3. Value(t.radix, t.digits) \in Nat
  BY <1>1, <1>2, ValueIs DEF Radices
<1>4. t.radix # 10 => Padding(t.radix, t.digits) \in Nat
  BY <1>1, PaddingIsNat
<1> QED BY <1>3, <1>4 DEF ParseNumberPadded, ParseNumber

LEMMA ParsedTyped ==
  ASSUME NEW t \in Words \cup Numbers
  PROVE  /\ ParseNumberPadded(t) = Failed \/ \E b \in Seq(Byte) : ParseNumberPadded(t) = Ok(b) /\ b # <<>>
         /\ IsNumber(t) <=> ParseNumberPadded(t).out = "ok"
         /\ ~IsNumber(t) <=> ParseNumberPadded(t).out = "err"
<1>1. CASE ~IsNumber(t)
  BY <1>1 DEF ParseNumberPadded, ParseNumber, Failed
<1>2. CASE IsNumber(t)
  <2> DEFINE v == Value(t.radix, t.digits)
             y == ToBytes(v)
             p == Padding(t.radix, t.digits)
             b == IF t.radix = 10 THEN y ELSE Zeros(p) \o y
  <2>1. v \in Nat /\ ParseNumberPadded(t) = Ok(b) /\ (t.radix # 10 => p \in Nat)
    BY <1>2, ParsedIs
  <2>2. y \in Seq(Byte) /\ Len(y) >= 1
    BY <2>1, ToBytesGives
  <2> HIDE DEF v, y, p
  <2>3. t.radix # 10 => Zeros(p) \o y \in Seq(Byte) /\ Len(Zeros(p) \o y) = p + Len(y)
    BY <2>1, <2>2, Padded
  <2>4. b \in Seq(Byte) /\ Len(b) >= 1
    <3>1. CASE t.radix = 10
      BY <2>2, <3>1
    <3>2. CASE t.radix # 10
      <4>1. Len(y) \in Nat
        BY <2>2
      <4> QED BY <2>1, <2>2, <2>3, <3>2, <4>1
    <3> QED BY <3>1, <3>2
  <2> HIDE DEF b
  <2>5. b # <<>>
    BY <2>4
  <2> QED BY <1>2, <2>1, <2>4, <2>5 DEF Ok, Failed
<1> QED BY <1>1, <1>2

\* A hexadecimal or binary text keeps its digits: as many bytes as they are
\* worth, and their value. The round up of parse_num_padded and the bytes of the
\* BigInt always agree.
THEOREM ParsedKeepsDigits ==
  ASSUME NEW t \in Words \cup Numbers, IsNumber(t), t.radix \in {2, 16}
  PROVE  LET b == ParseNumberPadded(t).val
         IN /\ ParseNumberPadded(t) = Ok(b) /\ b \in Seq(Byte)
            /\ Len(b) = BytesFor(Len(t.digits), t.radix)
            /\ Value(256, b) = Value(t.radix, t.digits)
<1> DEFINE r == t.radix
           d == t.digits
           N == Len(d)
           v == Value(r, d)
           y == ToBytes(v)
           p == Padding(r, d)
           b == Zeros(p) \o y
           z == LeadingZeros(d)
<1>1. /\ r \in {2, 16} /\ d \in Seq(0 .. r - 1) /\ d \in Seq(Nat)
      /\ N \in Nat /\ N >= 1
  BY NumbersHaveDigits
<1>2. v \in Nat /\ ParseNumberPadded(t) = Ok(b) /\ p \in Nat
  <2>1. r # 10
    BY <1>1
  <2> QED BY <2>1, ParsedIs
<1>3. y \in Seq(Byte) /\ Len(y) >= 1 /\ Value(256, y) = v
  BY <1>2, ToBytesGives
<1>4. b \in Seq(Byte) /\ Len(b) = p + Len(y) /\ Value(256, b) = v
  <2> HIDE DEF p, y, v
  <2> QED BY <1>2, <1>3, Padded
<1>5. PICK w : Running(r, d, w)
  BY <1>1, RunningExists DEF Radices
<1>6. v = w[N]
  BY <1>1, <1>5, ValueIs DEF Radices
<1>7. p + Len(y) = BytesFor(N, r)
  <2>0. BytesFor(N, r) \in Nat /\ Len(y) \in Nat
    <3>1. r \in {2, 8, 16}
      BY <1>1
    <3> HIDE DEF y, N, r
    <3>2. BytesFor(N, r) \in Nat
      BY <1>1, <3>1, BytesForHold
    <3>3. Len(y) \in Nat
      BY <1>3
    <3> QED BY <3>2, <3>3
  <2>1. CASE z = N
    <3>1. \A i \in 1 .. N : d[i] = 0
      BY <1>1, <2>1, LeadingZerosIs
    <3>2. N \in 0 .. N
      BY <1>1
    <3>3. v = 0
      BY <1>1, <1>5, <1>6, <3>1, <3>2, RunsOverZeros DEF Radices
    <3>4. Len(y) = 1
      <4>1. ToBytes(0) = <<0>>
        BY ToBytesIs
      <4> HIDE DEF v
      <4> QED BY <3>3, <4>1
    <3>5. p = BytesFor(N, r) - 1
      BY <1>1, <2>1, PaddingIsNat
    <3> HIDE DEF p, y, N
    <3> QED BY <2>0, <3>4, <3>5
  <2>2. CASE z # N
    <3>1. Leads(d, z)
      BY <1>1, <2>2, LeadingZerosIs
    <3>2. ByBytes(w, z, N, PerByte(r))
      <4>1. CASE r = 2
        <5>1. d \in Seq(0 .. 1)
          BY <1>1, <4>1
        <5> QED BY <1>5, <3>1, <4>1, <5>1, BinaryByBytes DEF PerByte
      <4>2. CASE r = 16
        <5>1. d \in Seq(0 .. 15)
          BY <1>1, <4>2
        <5> QED BY <1>5, <3>1, <4>2, <5>1, HexByBytes DEF PerByte
      <4> QED BY <1>1, <4>1, <4>2
    <3>3. z \in Nat /\ N \in z + 1 .. N /\ N - z \in Nat
      BY <1>1, <3>1 DEF Leads
    <3>4. \A i \in 0 .. N : w[i] \in Nat
      BY <1>5 DEF Running
    <3> HIDE DEF z, N
    <3>5. Len(ToBytes(w[N])) = BytesFor(N - z, r)
      BY <1>1, <3>2, <3>3, <3>4, BytesOfRun
    <3>6. p = BytesFor(N, r) - BytesFor(N - z, r)
      BY <1>1, <2>2, PaddingIsNat DEF N, z
    <3>7. Len(y) = BytesFor(N - z, r)
      <4> HIDE DEF v
      <4> QED BY <1>6, <3>5
    <3> HIDE DEF p, y
    <3> QED BY <2>0, <3>6, <3>7
  <2> QED BY <2>1, <2>2
<1> HIDE DEF b
<1>8. ParseNumberPadded(t).val = b
  BY <1>2 DEF Ok
<1>9. Len(b) = BytesFor(N, r)
  BY <1>4, <1>7
<1> HIDE DEF N, v, r, d, p, y, z
<1>10. /\ ParseNumberPadded(t) = Ok(ParseNumberPadded(t).val)
       /\ ParseNumberPadded(t).val \in Seq(Byte)
       /\ Len(ParseNumberPadded(t).val) = BytesFor(N, r)
       /\ Value(256, ParseNumberPadded(t).val) = v
  BY <1>2, <1>4, <1>8, <1>9
<1> QED BY <1>10 DEF N, v, r, d

-----------------------------------------------------------------------------
(* Names of the entries of a value map.                                    *)

\* 0x and the digits of bytes are a number with their value.
LEMMA DisplayIs ==
  ASSUME NEW v \in Seq(Byte)
  PROVE  /\ Display(v) \in Numbers /\ Display(v).radix = 16
         /\ Len(Display(v).digits) = 2 * Len(v)
         /\ Value(16, Display(v).digits) = Value(256, v)
         /\ v # <<>> => IsNumber(Display(v))
<1> DEFINE N == Len(v)
           d == [i \in 1 .. 2 * N |-> IF i % 2 = 1 THEN v[(i + 1) \div 2] \div 16 ELSE v[i \div 2] % 16]
<1>1. N \in Nat /\ \A i \in 1 .. N : v[i] \in Byte
  OBVIOUS
<1>2. Display(v) = [radix |-> 16, neg |-> FALSE, digits |-> d]
  BY DEF Display, Num
<1> HIDE DEF N
<1>3. \A x \in Byte : x \div 16 \in 0 .. 15 /\ x % 16 \in 0 .. 15 /\ x = (x \div 16) * 16 + (x % 16)
  <2> TAKE x \in Byte
  <2>1. x \in Nat /\ x <= 255
    BY DEF Byte
  <2> HIDE DEF Byte
  <2>2. x \div 16 \in Nat /\ x % 16 \in 0 .. 15
    BY <2>1
  <2>3. x = (x \div 16) * 16 + (x % 16)
    BY <2>1
  <2>4. x \div 16 <= 15
    BY <2>1, <2>2, <2>3
  <2> QED BY <2>2, <2>3, <2>4
<1>4. \A i \in 1 .. N : /\ d[2 * i - 1] = v[i] \div 16 /\ d[2 * i] = v[i] % 16
                        /\ 2 * i - 1 \in 1 .. 2 * N /\ 2 * i \in 1 .. 2 * N
  <2> TAKE i \in 1 .. N
  <2>1. i \in Nat /\ 2 * i - 1 \in 1 .. 2 * N /\ 2 * i \in 1 .. 2 * N
    BY <1>1
  <2>2. (2 * i - 1) % 2 = 1 /\ ((2 * i - 1) + 1) \div 2 = i /\ (2 * i) % 2 = 0 /\ (2 * i) \div 2 = i
    BY <2>1
  <2>3. d[2 * i - 1] = v[i] \div 16
    BY <2>1, <2>2
  <2>4. d[2 * i] = v[i] % 16
    BY <2>1, <2>2
  <2> QED BY <2>1, <2>3, <2>4
<1>5. \A j \in 1 .. 2 * N : \E i \in 1 .. N : j = 2 * i - 1 \/ j = 2 * i
  <2> TAKE j \in 1 .. 2 * N
  <2>1. j \in Nat /\ j >= 1 /\ j <= 2 * N
    BY <1>1
  <2> DEFINE i == (j + 1) \div 2
  <2>2. i \in Nat /\ (j = 2 * i - 1 \/ j = 2 * i)
    BY <2>1
  <2> HIDE DEF i
  <2>3. i \in 1 .. N
    BY <1>1, <2>1, <2>2
  <2> QED BY <2>2, <2>3
<1>6. \A j \in 1 .. 2 * N : d[j] \in 0 .. 15
  <2> TAKE j \in 1 .. 2 * N
  <2>1. PICK i \in 1 .. N : j = 2 * i - 1 \/ j = 2 * i
    BY <1>5
  <2> DEFINE x == v[i]
  <2>2. x \in Byte /\ (d[j] = x \div 16 \/ d[j] = x % 16)
    <3> HIDE DEF d
    <3> QED BY <1>1, <1>4, <2>1
  <2> HIDE DEF d, x
  <2> QED BY <1>3, <2>2
<1>7. d \in Seq(0 .. 15) /\ Len(d) = 2 * N /\ d \in Seq(Nat)
  <2>1. d = [j \in 1 .. 2 * N |-> d[j]] /\ 2 * N \in Nat
    BY <1>1
  <2> HIDE DEF d
  <2> DEFINE S == 0 .. 15
  <2>2. S \subseteq Nat /\ \A j \in 1 .. 2 * N : d[j] \in S
    BY <1>6
  <2> HIDE DEF S
  <2>3. d \in Seq(S) /\ Len(d) = 2 * N
    BY <2>1, <2>2
  <2>4. d \in Seq(Nat)
    BY <2>2, <2>3, AreNumbers
  <2> QED BY <2>3, <2>4 DEF S
<1> HIDE DEF d
<1>8. Display(v) \in Numbers
  <2>1. d \in Seq(0 .. Bad)
    <3>1. d \in [1 .. Len(d) -> 0 .. Bad]
      BY <1>6, <1>7 DEF Bad
    <3> DEFINE S == 0 .. Bad
    <3>2. d \in [1 .. Len(d) -> S] /\ Len(d) \in Nat
      BY <1>1, <1>7, <3>1
    <3> HIDE DEF S
    <3>3. d \in Seq(S)
      BY <3>2
    <3> QED BY <3>3 DEF S
  <2> QED BY <1>2, <2>1 DEF Numbers
<1>9. v # <<>> => IsNumber(Display(v))
  <2> SUFFICES ASSUME v # <<>> PROVE IsNumber(Display(v))
    OBVIOUS
  <2>1. N >= 1
    BY DEF N
  <2>2. Rest(Display(v)) = d
    BY <1>2 DEF Rest
  <2>3. d # <<>>
    <3>1. Len(d) # 0
      BY <1>1, <1>7, <2>1
    <3> QED BY <3>1
  <2>4. \A j \in DOMAIN d : d[j] < 16
    <3>1. DOMAIN d = 1 .. 2 * N
      BY <1>7
    <3> QED BY <1>6, <3>1
  <2>5. Display(v).radix = 16
    BY <1>2
  <2> QED BY <2>2, <2>3, <2>4, <2>5 DEF IsNumber
<1>10. PICK w : Running(16, d, w)
  BY <1>7, RunningExists DEF Radices
<1>11. v \in Seq(Nat)
  BY BytesAreNumbers
<1>12. PICK x : Running(256, v, x)
  BY <1>11, RunningExists DEF Radices
<1>13. \A i \in 0 .. N : x[i] = w[2 * i]
  <2> DEFINE T == {i \in 0 .. N : x[i] # w[2 * i]}
  <2> SUFFICES ASSUME T # {} PROVE FALSE
    OBVIOUS
  <2>1. PICK i \in T : \A j \in T : ~(j < i)
    <3>1. T \subseteq Nat
      BY <1>1
    <3> HIDE DEF T
    <3> QED BY <3>1, LeastNumber
  <2>2. i \in 0 .. N /\ x[i] # w[2 * i]
    BY <2>1
  <2>3. i # 0
    <3>1. x[0] = 0 /\ w[2 * 0] = 0
      BY <1>10, <1>12 DEF Running
    <3> QED BY <2>2, <3>1
  <2>4. i \in 1 .. N /\ i - 1 \in 0 .. N /\ i - 1 < i
    BY <1>1, <2>2, <2>3
  <2>5. x[i - 1] = w[2 * (i - 1)]
    BY <2>1, <2>4
  <2>6. x[i] = x[i - 1] * 256 + v[i]
    BY <1>12, <2>4 DEF Running, N
  <2>7. /\ w[2 * i] = w[2 * i - 1] * 16 + d[2 * i]
        /\ w[2 * i - 1] = w[2 * i - 2] * 16 + d[2 * i - 1]
    <3>1. 2 * i \in 1 .. 2 * N /\ 2 * i - 1 \in 1 .. 2 * N /\ (2 * i - 1) - 1 = 2 * i - 2
      BY <1>1, <2>4
    <3> QED BY <1>7, <1>10, <3>1 DEF Running
  <2>8. 2 * (i - 1) = 2 * i - 2 /\ x[i - 1] \in Nat /\ v[i] \in Byte
    BY <1>1, <1>12, <2>4 DEF Running, N
  <2> DEFINE m == x[i - 1]
             b == v[i]
             h == b \div 16
             l == b % 16
  <2>9. m \in Nat /\ h \in 0 .. 15 /\ l \in 0 .. 15 /\ b = h * 16 + l
    BY <1>3, <2>8
  <2>10. w[2 * i] = (m * 16 + h) * 16 + l
    BY <1>4, <2>4, <2>5, <2>7, <2>8
  <2>11. x[i] = m * 256 + b
    BY <2>6
  <2> HIDE DEF m, b, h, l
  <2>12. (m * 16 + h) * 16 + l = m * 256 + b
    BY <2>9
  <2> QED BY <2>2, <2>10, <2>11, <2>12
<1>14. Value(16, d) = Value(256, v)
  <2>1. Value(16, d) = w[2 * N]
    BY <1>7, <1>10, ValueIs DEF Radices
  <2>2. Value(256, v) = x[N]
    BY <1>11, <1>12, ValueIs DEF Radices, N
  <2>3. x[N] = w[2 * N]
    BY <1>1, <1>13
  <2> QED BY <2>1, <2>2, <2>3
<1> QED BY <1>2, <1>7, <1>8, <1>9, <1>14 DEF N

\* Bytes are found under the name they are listed with: from_str is the inverse
\* of to_string for every vector of bytes.
THEOREM DisplayIsParsed ==
  ASSUME NEW v \in Seq(Byte), v # <<>>
  PROVE  ParseNumberPadded(Display(v)) = Ok(v)
<1> DEFINE t == Display(v)
           b == ParseNumberPadded(t).val
<1>1. /\ t \in Words \cup Numbers /\ t.radix = 16 /\ IsNumber(t)
      /\ Len(t.digits) = 2 * Len(v) /\ Value(16, t.digits) = Value(256, v)
  BY DisplayIs
<1> HIDE DEF t
<1>2. /\ ParseNumberPadded(t) = Ok(b) /\ b \in Seq(Byte)
      /\ Len(b) = BytesFor(2 * Len(v), 16) /\ Value(256, b) = Value(256, v)
  BY <1>1, ParsedKeepsDigits
<1> HIDE DEF b
\* Two digits are worth a byte.
<1>3. BytesFor(2 * Len(v), 16) = Len(v)
  <2> DEFINE n == Len(v)
             c == BytesFor(2 * n, 16)
  <2>1. n \in Nat
    OBVIOUS
  <2>2. BitsPerDigit(16) = 4
    BY DEF BitsPerDigit
  <2> HIDE DEF n
  <2>3. c \in Nat /\ 8 * c - (2 * n) * 4 \in 0 .. 7
    <3>1. 2 * n \in Nat
      BY <2>1
    <3> QED BY <2>2, <3>1, BytesForHold
  <2> HIDE DEF c
  <2>4. c = n
    BY <2>1, <2>3
  <2> QED BY <2>4 DEF c, n
<1>4. b = v
  BY <1>2, <1>3, SameValue
<1> QED BY <1>2, <1>4 DEF t

\* No two entries have one name.
LEMMA DisplayTellsApart ==
  ASSUME NEW v \in Seq(Byte), NEW u \in Seq(Byte), v # <<>>, Display(u) = Display(v)
  PROVE  u = v
<1>1. Len(v) \in Nat /\ Len(v) >= 1 /\ Len(u) \in Nat
  OBVIOUS
<1>2. 2 * Len(u) = 2 * Len(v)
  BY DisplayIs
<1>3. u # <<>>
  BY <1>1, <1>2
<1>4. Ok(u) = Ok(v)
  BY <1>3, DisplayIsParsed
<1> QED BY <1>4 DEF Ok

-----------------------------------------------------------------------------
(* Loading.                                                                *)

\* Whatever is there was parsed, the functions after all registers.
IInv ==
  /\ status = "registers" => funs = None
  /\ \A n \in DOMAIN regs :
       /\ regs[n].text \in Texts
       /\ regs[n].width \in Widths
       /\ ParseAddress(regs[n].text, None, regs[n].width) = Ok(regs[n].addr)
  /\ \A f \in DOMAIN funs :
       /\ funs[f].text \in Texts
       /\ ParseAddress(funs[f].text, regs, NoWidth) = Ok(funs[f].addr)
       /\ \E keys \in KeySets : funs[f].keys = Keys(keys)

LEMMA InitHolds == Init => IInv
BY DEF Init, IInv, None

\* An address is parsed or it is not.
LEMMA ParsedAddress ==
  ASSUME NEW text, NEW known, NEW width, ParseAddress(text, known, width).out = "ok"
  PROVE  ParseAddress(text, known, width) = Ok(ParseAddress(text, known, width).val)
<1>1. \A x : Ok(x) = [out |-> "ok", val |-> x]
  BY DEF Ok
<1> DEFINE named == Named(text.base, known)
           start == Start(text.slice, named)
           end   == End(text.slice, named, width, start.val)
           addr  == [base |-> Base(text.base, known),
                     slice |-> IF end.val = NoSlice THEN NoSlice
                               ELSE [start |-> start.val, end |-> end.val]]
<1>2. ParseAddress(text, known, width)
        = IF start.out # "ok" THEN start ELSE IF end.out # "ok" THEN end ELSE Ok(addr)
  BY DEF ParseAddress
<1> HIDE DEF start, end, addr
<1>3. ParseAddress(text, known, width) = Ok(addr)
  BY <1>2
<1> QED BY <1>1, <1>3

\* An error is no step of loading.
LEMMA ParseAddressOut ==
  ASSUME NEW text \in Texts, NEW known, NEW width
  PROVE  ParseAddress(text, known, width).out \in {"ok", "err", "panic"}
<1> DEFINE named == Named(text.base, known)
           start == Start(text.slice, named)
           end   == End(text.slice, named, width, start.val)
<1>1. \A t : ParseNumber(t).out \in {"ok", "err"}
  BY DEF ParseNumber, Ok, Failed
<1>2. \A t : SliceNum(t).out \in {"ok", "err", "panic"}
  BY <1>1 DEF SliceNum, Ok, Panicked
<1>3. \A n : Checked(n).out \in {"ok", "panic"}
  BY DEF Checked, Ok, Panicked
<1>4. \A x : Ok(x).out = "ok"
  BY DEF Ok
<1>5. start.out \in {"ok", "err", "panic"}
  BY <1>2, <1>4 DEF Start
<1> HIDE DEF start, named
<1>6. end.out \in {"ok", "err", "panic"}
  BY <1>2, <1>3, <1>4 DEF End
<1> HIDE DEF end
<1>7. ParseAddress(text, known, width).out = "ok" \/ ParseAddress(text, known, width) \in {start, end}
  BY <1>4 DEF ParseAddress, start, end, named
<1> QED BY <1>5, <1>6, <1>7

LEMMA RegisterStep ==
  ASSUME IInv, NEW name, NEW text \in Texts, NEW width \in Widths, LoadRegister(name, text, width)
  PROVE  IInv'
<1> DEFINE a == ParseAddress(text, None, width)
<1>1. status = "registers" /\ funs' = funs /\ funs = None /\ name \notin DOMAIN regs
  BY DEF LoadRegister, IInv
<1>2. funs' = None /\ DOMAIN funs' = {}
  BY <1>1 DEF None
<1>3. CASE a.out = "ok"
  <2> DEFINE e == [text |-> text, width |-> width, addr |-> a.val]
  <2>1. regs' = With(regs, name, e)
    BY <1>3 DEF LoadRegister
  <2>2. a = Ok(a.val)
    BY <1>3, ParsedAddress
  <2> HIDE DEF e
  <2>0. /\ DOMAIN regs' = DOMAIN regs \cup {name} /\ regs'[name] = e
        /\ \A n \in DOMAIN regs \ {name} : regs'[n] = regs[n]
    BY <2>1 DEF With
  <2>3. \A n \in DOMAIN regs' : /\ regs'[n].text \in Texts
                                /\ regs'[n].width \in Widths
                                /\ ParseAddress(regs'[n].text, None, regs'[n].width) = Ok(regs'[n].addr)
    <3> TAKE n \in DOMAIN regs'
    <3>1. CASE n = name
      <4>1. regs'[n] = e
        BY <2>0, <3>1
      <4>2. e.text = text /\ e.width = width /\ e.addr = a.val
        BY DEF e
      <4> QED BY <2>2, <4>1, <4>2
    <3>2. CASE n # name
      <4>1. n \in DOMAIN regs /\ regs'[n] = regs[n]
        BY <2>0, <3>2
      <4> QED BY <4>1 DEF IInv
    <3> QED BY <3>1, <3>2
  <2> QED BY <1>2, <2>3 DEF IInv, Texts
<1>4. CASE a.out # "ok"
  <2>1. regs' = regs
    BY <1>4 DEF LoadRegister
  <2> QED BY <1>2, <2>1 DEF IInv, Texts
<1> QED BY <1>3, <1>4

LEMMA FunctionStep ==
  ASSUME IInv, NEW name, NEW text \in Texts, NEW keys \in KeySets, LoadFunction(name, text, keys)
  PROVE  IInv'
<1> DEFINE a == ParseAddress(text, regs, NoWidth)
<1>1. status = "functions" /\ regs' = regs /\ name \notin DOMAIN funs
  BY DEF LoadFunction
<1>2. CASE a.out = "ok"
  <2> DEFINE e == [text |-> text, addr |-> a.val, keys |-> Keys(keys)]
  <2>1. funs' = With(funs, name, e) /\ status' = status
    BY <1>2 DEF LoadFunction
  <2>2. a = Ok(a.val)
    BY <1>2, ParsedAddress
  <2> HIDE DEF e
  <2>0. /\ DOMAIN funs' = DOMAIN funs \cup {name} /\ funs'[name] = e
        /\ \A f \in DOMAIN funs \ {name} : funs'[f] = funs[f]
    BY <2>1 DEF With
  <2>3. \A f \in DOMAIN funs' : /\ funs'[f].text \in Texts
                                /\ ParseAddress(funs'[f].text, regs, NoWidth) = Ok(funs'[f].addr)
                                /\ \E k \in KeySets : funs'[f].keys = Keys(k)
    <3> TAKE f \in DOMAIN funs'
    <3>1. CASE f = name
      <4>1. funs'[f] = e
        BY <2>0, <3>1
      <4>2. e.text = text /\ e.addr = a.val /\ e.keys = Keys(keys)
        BY DEF e
      <4> QED BY <2>2, <4>1, <4>2
    <3>2. CASE f # name
      <4>1. f \in DOMAIN funs /\ funs'[f] = funs[f]
        BY <2>0, <3>2
      <4> QED BY <4>1 DEF IInv
    <3> QED BY <3>1, <3>2
  <2>4. status' # "registers"
    BY <1>1, <2>1
  <2> HIDE DEF a
  <2> QED BY <1>1, <2>3, <2>4 DEF IInv, Texts
<1>3. CASE a.out # "ok"
  <2>1. funs' = funs /\ status' = a.out
    BY <1>3 DEF LoadFunction
  <2>2. a.out # "registers"
    BY <1>3, ParseAddressOut
  <2> HIDE DEF a
  <2> QED BY <1>1, <2>1, <2>2 DEF IInv, Texts
<1> QED BY <1>2, <1>3

LEMMA NextKeeps == IInv /\ [Next]_vars => IInv'
<1> SUFFICES ASSUME IInv, [Next]_vars
             PROVE  IInv'
  OBVIOUS
<1>1. ASSUME NEW n \in RegisterNames, NEW t \in Texts, NEW w \in Widths, LoadRegister(n, t, w)
      PROVE  IInv'
  BY <1>1, RegisterStep
<1>2. CASE AllRegistersLoaded
  BY <1>2 DEF AllRegistersLoaded, IInv, Texts
<1>3. ASSUME NEW n \in FunctionNames, NEW t \in Texts, NEW k \in KeySets, LoadFunction(n, t, k)
      PROVE  IInv'
  BY <1>3, FunctionStep
<1>4. CASE UNCHANGED vars
  BY <1>4 DEF vars, IInv, Texts
<1> QED BY <1>1, <1>2, <1>3, <1>4 DEF Next

\* Every address that is loaded was parsed from its text, with the registers a
\* function sees, and every key from a text of the value map.
THEOREM InvHolds == Spec => []IInv
<1> QED BY InitHolds, NextKeeps, PTL DEF Spec

-----------------------------------------------------------------------------
(* What the invariant says of the addresses.                               *)

\* The parts of an address that was parsed.
HasParts(text, known, width, addr) ==
  LET named == Named(text.base, known)
      start == Start(text.slice, named)
      end   == End(text.slice, named, width, start.val)
  IN /\ start.out = "ok" /\ end.out = "ok"
     /\ addr.base = Base(text.base, known)
     /\ addr.slice = IF end.val = NoSlice THEN NoSlice
                     ELSE [start |-> start.val, end |-> end.val]

LEMMA AddressIs ==
  ASSUME NEW text, NEW known, NEW width, NEW addr, ParseAddress(text, known, width) = Ok(addr)
  PROVE  HasParts(text, known, width, addr)
<1> DEFINE named == Named(text.base, known)
           start == Start(text.slice, named)
           end   == End(text.slice, named, width, start.val)
           slice == IF end.val = NoSlice THEN NoSlice ELSE [start |-> start.val, end |-> end.val]
           base  == Base(text.base, known)
<1>1. ParseAddress(text, known, width)
        = IF start.out # "ok" THEN start ELSE IF end.out # "ok" THEN end
          ELSE Ok([base |-> base, slice |-> slice])
  BY DEF ParseAddress
<1>2. Ok(addr).out = "ok" /\ Ok(addr).val = addr
  BY DEF Ok
<1>3. Ok([base |-> base, slice |-> slice]).val = [base |-> base, slice |-> slice]
  BY DEF Ok
<1> HIDE DEF start, end, base, slice
<1>4. start.out = "ok" /\ end.out = "ok"
  BY <1>1, <1>2
<1>5. Ok(addr) = Ok([base |-> base, slice |-> slice])
  BY <1>1, <1>4
<1>6. addr = [base |-> base, slice |-> slice]
  BY <1>2, <1>3, <1>5
<1> QED BY <1>4, <1>6 DEF start, end, base, slice, HasParts

LEMMA ParsedBase ==
  ASSUME NEW text, NEW known, NEW width, NEW addr, ParseAddress(text, known, width) = Ok(addr)
  PROVE  addr.base = Base(text.base, known)
<1>1. HasParts(text, known, width, addr)
  BY AddressIs
<1> QED BY <1>1 DEF HasParts

\* No register is known when registers are loaded.
LEMMA NothingIsNamed ==
  ASSUME NEW base
  PROVE  Named(base, None) = {} /\ base \notin DOMAIN None
BY DEF Named, None

\* The base of a register: the bytes of a number, or the characters.
LEMMA BaseIs ==
  ASSUME NEW t
  PROVE  Base(t, None) = IF ParseNumberPadded(t).out = "ok" THEN ParseNumberPadded(t).val ELSE Chars(t)
BY NothingIsNamed DEF Base

LEMMA BasesWritten == IInv => BaseAsWritten
<1> SUFFICES ASSUME IInv, NEW n \in DOMAIN regs,
                    regs[n].text.base.radix \in {2, 16}, IsNumber(regs[n].text.base)
             PROVE  LET t == regs[n].text.base
                        b == regs[n].addr.base
                    IN /\ 8 * Len(b) - Len(t.digits) * BitsPerDigit(t.radix) \in 0 .. 7
                       /\ Value(256, b) = Value(t.radix, t.digits)
  BY DEF BaseAsWritten
<1> DEFINE t == regs[n].text.base
           b == regs[n].addr.base
<1>1. t \in Words \cup Numbers
  BY TextsAssumption DEF IInv, Texts
<1>2. b = Base(t, None)
  <2>1. ParseAddress(regs[n].text, None, regs[n].width) = Ok(regs[n].addr)
    BY DEF IInv
  <2> QED BY <2>1, ParsedBase
<1> HIDE DEF t, b
<1>3. t.radix \in {2, 16} /\ IsNumber(t)
  BY DEF t
<1>4. b = ParseNumberPadded(t).val
  BY <1>1, <1>2, <1>3, BaseIs, ParsedTyped
<1>5. Len(b) = BytesFor(Len(t.digits), t.radix) /\ Value(256, b) = Value(t.radix, t.digits)
  BY <1>1, <1>3, <1>4, ParsedKeepsDigits
<1>6. Len(t.digits) \in Nat
  BY <1>1, <1>3, NumbersHaveDigits
<1>7. 8 * BytesFor(Len(t.digits), t.radix) - Len(t.digits) * BitsPerDigit(t.radix) \in 0 .. 7
  <2>1. t.radix \in {2, 8, 16}
    BY <1>3
  <2> QED BY <1>6, <2>1, BytesForHold
<1> QED BY <1>5, <1>7 DEF t, b

\* The slice of a register that is written without one.
LEMMA WholeSlice ==
  ASSUME NEW text, text.slice = <<>>, NEW width \in Widths, NEW addr,
         ParseAddress(text, None, width) = Ok(addr)
  PROVE  IF width = NoWidth THEN addr.slice = NoSlice
         ELSE /\ addr.slice = [start |-> 0, end |-> 8 * width] /\ addr.slice # NoSlice
              /\ Checked(8 * width) = Ok(8 * width) /\ 8 * width # NoSlice
<1>1. Named(text.base, None) = {}
  BY NothingIsNamed
<1>2. Len(text.slice) = 0
  OBVIOUS
<1>3. Start(text.slice, {}) = Ok(0)
  BY <1>2 DEF Start
<1>4. Ok(0).val = 0 /\ Ok(NoSlice).val = NoSlice
  BY DEF Ok
<1> DEFINE end == End(text.slice, {}, width, 0)
<1>5. end = IF width = NoWidth THEN Ok(NoSlice) ELSE Checked(8 * width)
  BY <1>2 DEF End
<1> HIDE DEF end
<1>6. /\ end.out = "ok"
      /\ addr.slice = IF end.val = NoSlice THEN NoSlice ELSE [start |-> 0, end |-> end.val]
  <2> HIDE DEF end
  <2>1. Start(text.slice, Named(text.base, None)).val = 0
    BY <1>1, <1>3, <1>4
  <2>2. End(text.slice, Named(text.base, None), width, Start(text.slice, Named(text.base, None)).val) = end
    BY <1>1, <2>1 DEF end
  <2> QED BY <2>1, <2>2, AddressIs DEF HasParts
<1>7. CASE width = NoWidth
  BY <1>4, <1>5, <1>6, <1>7
<1>8. CASE width # NoWidth
  <2>1. width \in 0 .. 255 /\ 8 * width \in Nat /\ 8 * width # NoSlice
    <3>1. width \in 0 .. 255
      BY <1>8, TextsAssumption
    <3>2. 8 * width \in Nat
      BY <3>1
    <3> QED BY <3>1, <3>2, TextsAssumption
  <2>2. Checked(8 * width) = Ok(8 * width)
    <3>1. Panicked.out # "ok"
      BY DEF Panicked
    <3>2. end = Checked(8 * width)
      BY <1>5, <1>8
    <3> QED BY <1>6, <3>1, <3>2 DEF Checked
  <2>3. Ok(8 * width).val = 8 * width
    BY DEF Ok
  <2>4. addr.slice = [start |-> 0, end |-> 8 * width]
    BY <1>5, <1>6, <1>8, <2>1, <2>2, <2>3
  <2>5. [start |-> 0, end |-> 8 * width] # NoSlice
    BY <2>1, TextsAssumption
  <2> QED BY <1>8, <2>1, <2>2, <2>4, <2>5
<1> QED BY <1>7, <1>8

LEMMA WidthsWhole == IInv => WidthIsWhole
<1> SUFFICES ASSUME IInv, NEW n \in DOMAIN regs, regs[n].text.slice = <<>>, regs[n].width # NoWidth
             PROVE  regs[n].addr.slice = [start |-> 0, end |-> 8 * regs[n].width]
  BY DEF WidthIsWhole
<1>1. regs[n].width \in Widths /\ ParseAddress(regs[n].text, None, regs[n].width) = Ok(regs[n].addr)
  BY DEF IInv
<1> QED BY <1>1, WholeSlice

\* A slice behind the name of a register means what it means behind its base.
LEMMA SameSlice ==
  ASSUME NEW slice \in Slices, NEW width \in Widths, NEW addr,
         IF width = NoWidth THEN addr.slice = NoSlice
         ELSE /\ addr.slice = [start |-> 0, end |-> 8 * width] /\ addr.slice # NoSlice
              /\ Checked(8 * width) = Ok(8 * width) /\ 8 * width # NoSlice
  PROVE  /\ Start(slice, {addr}) = Start(slice, {})
         /\ \A start : End(slice, {addr}, NoWidth, start) = End(slice, {}, width, start)
<1>1. \A a : (CHOOSE x \in {a} : TRUE) = a
  OBVIOUS
<1>2. addr.slice # NoSlice => addr.slice.start = 0 /\ addr.slice.end = 8 * width
  OBVIOUS
<1>3. Start(slice, {addr}) = Start(slice, {})
  <2>1. CASE Len(slice) > 0 /\ slice[1] # Omitted
    BY <2>1 DEF Start
  <2>2. CASE ~(Len(slice) > 0 /\ slice[1] # Omitted)
    <3>1. Start(slice, {}) = Ok(0)
      BY <2>2 DEF Start
    <3>2. Start(slice, {addr}) = Ok(IF addr.slice # NoSlice THEN addr.slice.start ELSE 0)
      BY <1>1, <2>2 DEF Start
    <3> QED BY <1>2, <3>1, <3>2
  <2> QED BY <2>1, <2>2
<1>4. ASSUME NEW start
      PROVE  End(slice, {addr}, NoWidth, start) = End(slice, {}, width, start)
  <2>1. Len(slice) \in {0, 1, 2} /\ (Len(slice) = 1 => slice[1] # Omitted)
    <3>1. slice \in Seq(Words \cup Numbers \cup {Omitted}) /\ Len(slice) <= 2 /\ slice # <<Omitted>>
      BY TextsAssumption
    <3>2. Len(slice) \in Nat
      BY <3>1
    <3>3. Len(slice) = 1 => slice = <<slice[1]>>
      BY <3>1
    <3>4. Len(slice) = 1 => slice[1] # Omitted
      BY <3>1, <3>3
    <3>5. Len(slice) \in {0, 1, 2}
      <4> DEFINE n == Len(slice)
      <4>1. n \in Nat /\ n <= 2
        BY <3>1, <3>2
      <4> HIDE DEF n
      <4>2. n \in {0, 1, 2}
        BY <4>1
      <4> QED BY <4>2 DEF n
    <3> QED BY <3>4, <3>5
  <2>2. CASE Len(slice) = 1
    <3>1. slice[1] # Omitted
      BY <2>1, <2>2
    <3> QED BY <2>2, <3>1 DEF End
  <2>3. CASE Len(slice) = 2 /\ slice[2] # Omitted
    BY <2>3 DEF End
  <2>4. CASE Len(slice) = 0 \/ (Len(slice) = 2 /\ slice[2] = Omitted)
    <3>1. Len(slice) # 1 /\ ~(Len(slice) = 2 /\ slice[2] # Omitted)
          /\ (Len(slice) = 0 \/ slice[Len(slice)] = Omitted)
      <4> DEFINE n == Len(slice)
      <4>1. n = 0 \/ (n = 2 /\ slice[n] = Omitted)
        BY <2>4
      <4> HIDE DEF n
      <4>2. n # 1 /\ (n = 0 \/ slice[n] = Omitted) /\ ~(n = 2 /\ slice[2] # Omitted)
        BY <4>1
      <4> QED BY <4>2 DEF n
    <3>2. End(slice, {addr}, NoWidth, start)
            = Ok(IF addr.slice = NoSlice THEN NoSlice ELSE addr.slice.end)
      BY <1>1, <3>1 DEF End
    <3>3. End(slice, {}, width, start) = IF width = NoWidth THEN Ok(NoSlice) ELSE Checked(8 * width)
      BY <3>1 DEF End
    <3>4. CASE width = NoWidth
      BY <3>2, <3>3, <3>4
    <3>5. CASE width # NoWidth
      <4>1. addr.slice # NoSlice /\ addr.slice.end = 8 * width
        BY <1>2, <3>5
      <4> QED BY <3>2, <3>3, <3>5, <4>1
    <3> QED BY <3>4, <3>5
  <2> QED BY <2>1, <2>2, <2>3, <2>4
<1> QED BY <1>3, <1>4

LEMMA NamesInline == IInv => NamingIsInlining
<1> SUFFICES ASSUME IInv, NEW f \in DOMAIN funs, NEW n \in DOMAIN regs,
                    funs[f].text.base = n, ~IsNumber(n), regs[n].text.slice = <<>>
             PROVE  ParseAddress([base |-> regs[n].text.base, slice |-> funs[f].text.slice],
                                 None, regs[n].width) = Ok(funs[f].addr)
  BY DEF NamingIsInlining
<1> DEFINE inlined == [base |-> regs[n].text.base, slice |-> funs[f].text.slice]
           addr    == regs[n].addr
           width   == regs[n].width
           slice   == funs[f].text.slice
<1>1. /\ ParseAddress(regs[n].text, None, width) = Ok(addr) /\ width \in Widths
      /\ ParseAddress(funs[f].text, regs, NoWidth) = Ok(funs[f].addr)
      /\ slice \in Slices
  BY DEF IInv, Texts
<1>2. ParseNumberPadded(n) = Failed /\ Failed.out = "err"
  BY DEF ParseNumberPadded, ParseNumber, Failed
<1>3. Named(n, regs) = {addr} /\ Base(n, regs) = addr.base
  BY <1>2 DEF Named, Base
<1>4. addr.base = Base(regs[n].text.base, None)
  BY <1>1, ParsedBase
<1>5. Named(regs[n].text.base, None) = {}
  BY NothingIsNamed
<1>6. /\ Start(slice, {addr}) = Start(slice, {})
      /\ \A start : End(slice, {addr}, NoWidth, start) = End(slice, {}, width, start)
  <2>1. IF width = NoWidth THEN addr.slice = NoSlice
        ELSE /\ addr.slice = [start |-> 0, end |-> 8 * width] /\ addr.slice # NoSlice
             /\ Checked(8 * width) = Ok(8 * width) /\ 8 * width # NoSlice
    BY <1>1, WholeSlice
  <2> HIDE DEF addr, width, slice
  <2> QED BY <1>1, <2>1, SameSlice
<1> DEFINE start == Start(slice, {})
           end   == End(slice, {}, width, start.val)
           base  == Base(regs[n].text.base, None)
           parsed == IF start.out # "ok" THEN start ELSE IF end.out # "ok" THEN end
                     ELSE Ok([base |-> base,
                              slice |-> IF end.val = NoSlice THEN NoSlice
                                        ELSE [start |-> start.val, end |-> end.val]])
<1>7. ParseAddress(inlined, None, width) = parsed
  <2>1. inlined.base = regs[n].text.base /\ inlined.slice = slice
    OBVIOUS
  <2> HIDE DEF inlined, slice, width
  <2> QED BY <1>5, <2>1 DEF ParseAddress
<1>8. ParseAddress(funs[f].text, regs, NoWidth) = parsed
  <2>1. /\ Start(slice, Named(n, regs)) = start
        /\ End(slice, Named(n, regs), NoWidth, start.val) = end
        /\ Base(n, regs) = base
    <3> HIDE DEF addr, slice, width
    <3> QED BY <1>3, <1>4, <1>6
  <2> HIDE DEF start, end, base
  <2> QED BY <2>1 DEF ParseAddress
<1> QED BY <1>1, <1>7, <1>8

-----------------------------------------------------------------------------
(* What the invariant says of the keys.                                    *)

LEMMA CharsAreBytes ==
  ASSUME NEW t \in Words \cup Numbers
  PROVE  Chars(t) \in Seq(Byte)
<1>1. CASE t.radix = 0
  <2>1. t \in Words
    BY <1>1 DEF Numbers
  <2> QED BY <1>1, <2>1 DEF Words, Chars, Byte
<1>2. CASE t.radix # 0
  <2> DEFINE prefix == CASE t.radix = 16 -> <<48, 120>>
                         [] t.radix = 8 -> <<48, 111>>
                         [] t.radix = 2 -> <<48, 98>>
                         [] OTHER -> <<>>
             minus == IF t.neg THEN <<45>> ELSE <<>>
             rest  == [i \in DOMAIN t.digits |-> Ascii(t.digits[i])]
  <2>1. t \in Numbers
    BY <1>2 DEF Words
  <2>2. t.radix \in {2, 8, 10, 16} /\ t.digits \in Seq(0 .. Bad)
    BY <2>1 DEF Numbers
  <2>3. 48 \in Byte /\ 120 \in Byte /\ 111 \in Byte /\ 98 \in Byte /\ 45 \in Byte
    BY DEF Byte
  <2>4. \A d \in 0 .. Bad : Ascii(d) \in Byte
    BY DEF Ascii, Bad, Byte
  <2>5. prefix \in Seq(Byte)
    <3> HIDE DEF Byte
    <3>1. CASE t.radix = 16 BY <2>3, <3>1
    <3>2. CASE t.radix = 8 BY <2>3, <3>2
    <3>3. CASE t.radix = 2 BY <2>3, <3>3
    <3>4. CASE t.radix = 10 BY <3>4
    <3> QED BY <2>2, <3>1, <3>2, <3>3, <3>4
  <2>6. minus \in Seq(Byte)
    BY <2>3
  <2>7. rest \in Seq(Byte)
    <3> DEFINE d == t.digits
               S == 0 .. Bad
    <3>1. d \in Seq(S)
      BY <2>2
    <3>2. \A x \in S : Ascii(x) \in Byte
      BY <2>4
    <3> HIDE DEF d, S
    <3>3. [i \in DOMAIN d |-> Ascii(d[i])] \in Seq(Byte)
      <4>1. Len(d) \in Nat /\ DOMAIN d = 1 .. Len(d) /\ \A i \in 1 .. Len(d) : d[i] \in S
        BY <3>1
      <4> QED BY <3>2, <4>1
    <3> QED BY <3>3 DEF d
  <2>8. Chars(t) = minus \o prefix \o rest
    BY <1>2 DEF Chars
  <2> HIDE DEF minus, prefix, rest
  <2> QED BY <2>5, <2>6, <2>7, <2>8
<1> QED BY <1>1, <1>2

\* The keys of a value map are bytes, and the one for all others.
LEMMA KeysTyped ==
  ASSUME NEW texts \in KeySets
  PROVE  Keys(texts) \subseteq Seq(Byte) \cup {AnyKey}
<1>1. \A k \in texts : k # AnyKey => k \in Words \cup Numbers
  BY TextsAssumption
<1>2. CASE \A k \in texts : k = AnyKey \/ ParseNumberPadded(k).out = "ok"
  <2>1. Keys(texts) = {IF k = AnyKey THEN AnyKey ELSE ParseNumberPadded(k).val : k \in texts}
    BY <1>2 DEF Keys
  <2>2. ASSUME NEW k \in texts, k # AnyKey
        PROVE  ParseNumberPadded(k).val \in Seq(Byte)
    <3>1. k \in Words \cup Numbers /\ ParseNumberPadded(k).out = "ok"
      BY <1>1, <1>2, <2>2
    <3>2. PICK b \in Seq(Byte) : ParseNumberPadded(k) = Ok(b)
      BY <3>1, ParsedTyped DEF Failed
    <3> QED BY <3>2 DEF Ok
  <2> QED BY <2>1, <2>2
<1>3. CASE ~\A k \in texts : k = AnyKey \/ ParseNumberPadded(k).out = "ok"
  <2>1. Keys(texts) = {IF k = AnyKey THEN <<95>> ELSE Chars(k) : k \in texts}
    BY <1>3 DEF Keys
  <2>2. \A k \in texts : k # AnyKey => Chars(k) \in Seq(Byte)
    BY <1>1, CharsAreBytes
  <2>3. <<95>> \in Seq(Byte)
    <3>1. 95 \in Byte
      BY DEF Byte
    <3> QED BY <3>1
  <2> QED BY <2>1, <2>2, <2>3
<1> QED BY <1>2, <1>3

LEMMA KeysFound == IInv => KeysAreFound
<1> SUFFICES ASSUME IInv, NEW f \in DOMAIN funs, NEW k \in funs[f].keys \ {<<>>}
             PROVE  /\ KeyOf(Listed(k)) = Ok(k)
                    /\ \A l \in funs[f].keys : Listed(l) = Listed(k) => l = k
  BY DEF KeysAreFound
<1>1. funs[f].keys \subseteq Seq(Byte) \cup {AnyKey}
  <2>1. PICK keys \in KeySets : funs[f].keys = Keys(keys)
    BY DEF IInv
  <2> QED BY <2>1, KeysTyped
<1>2. \A v \in Seq(Byte) : Display(v) # AnyKey
  <2>1. AnyKey \notin Numbers
    BY TextsAssumption
  <2> QED BY <2>1, DisplayIs
<1>3. AnyKey \notin Seq(Byte)
  BY TextsAssumption DEF Byte
<1>4. KeyOf(Listed(k)) = Ok(k)
  <2>1. CASE k = AnyKey
    BY <2>1 DEF KeyOf, Listed
  <2>2. CASE k # AnyKey
    <3>1. k \in Seq(Byte) /\ k # <<>>
      BY <1>1, <2>2
    <3>2. Listed(k) = Display(k) /\ Display(k) # AnyKey
      BY <1>2, <2>2, <3>1 DEF Listed
    <3>3. KeyOf(Display(k)) = ParseNumberPadded(Display(k))
      BY <3>2 DEF KeyOf
    <3> QED BY <3>1, <3>2, <3>3, DisplayIsParsed
  <2> QED BY <2>1, <2>2
<1>5. ASSUME NEW l \in funs[f].keys, Listed(l) = Listed(k)
      PROVE  l = k
  <2>1. CASE k = AnyKey \/ l = AnyKey
    <3>1. k # AnyKey => k \in Seq(Byte) /\ Listed(k) = Display(k)
      BY <1>1 DEF Listed
    <3>2. l # AnyKey => l \in Seq(Byte) /\ Listed(l) = Display(l)
      BY <1>1 DEF Listed
    <3>3. Listed(AnyKey) = AnyKey
      BY DEF Listed
    <3> QED BY <1>2, <1>5, <2>1, <3>1, <3>2, <3>3
  <2>2. CASE k # AnyKey /\ l # AnyKey
    <3>1. k \in Seq(Byte) /\ k # <<>> /\ l \in Seq(Byte)
      BY <1>1, <2>2
    <3>2. Display(l) = Display(k)
      BY <1>5, <2>2 DEF Listed
    <3> QED BY <3>1, <3>2, DisplayTellsApart
  <2> QED BY <2>1, <2>2
<1> QED BY <1>4, <1>5

-----------------------------------------------------------------------------
\* The base of every register that is loaded has the bytes that the digits of
\* its text are worth, zeros in front included, and their value.
THEOREM BasesAreAlwaysAsWritten == Spec => []BaseAsWritten
<1> QED BY InvHolds, BasesWritten, PTL

\* A register without a slice that was loaded with a width is the whole of it.
THEOREM WidthIsAlwaysWhole == Spec => []WidthIsWhole
<1> QED BY InvHolds, WidthsWhole, PTL

\* A function that names a register has the address it would have if the base of
\* the register were written in its place.
THEOREM NamingAlwaysInlines == Spec => []NamingIsInlining
<1> QED BY InvHolds, NamesInline, PTL

\* Every key of a value map is found under the name that readdir lists it with,
\* and no two keys are listed with one name.
THEOREM KeysAreAlwaysFound == Spec => []KeysAreFound
<1> QED BY InvHolds, KeysFound, PTL
===============================================================================
