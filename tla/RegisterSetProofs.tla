--------------------------- MODULE RegisterSetProofs ---------------------------
(***************************************************************************)
(* What every execution of the calls on a channel keeps, for any addresses,*)
(* values and devices, and what writing and reading the files of registers *)
(* and functions does to the bits of the device, for any files and texts.  *)
(***************************************************************************)
EXTENDS RegisterSet, BitSliceProofs

OutcomeType == [out : {"ok", "err", "panic"}, val : Seq(Byte), mem : Seq(Byte), opened : BOOLEAN]

Zeros(x) == \A i \in 1 .. Len(x) : x[i] = {}

-----------------------------------------------------------------------------
(* Addresses.                                                              *)

\* The number of a vector of bytes is a number.
LEMMA NumbersAreNat ==
  ASSUME NEW base \in Seq(Nat)
  PROVE  BigEndian(base) \in Nat
<1> DEFINE N == Len(base)
           Folds(w, k) == w = [i \in 0 .. k |-> IF i = 0 THEN 0 ELSE 256 * w[i - 1] + base[i]]
<1>1. N \in Nat
  OBVIOUS
<1> HIDE DEF N
<1>2. \A k \in 0 .. N : \E w : Folds(w, k)
  <2> DEFINE T == {k \in 0 .. N : ~\E w : Folds(w, k)}
  <2> SUFFICES ASSUME T # {} PROVE FALSE
    OBVIOUS
  <2>1. PICK k \in T : \A j \in T : ~(j < k)
    <3>1. T \subseteq Nat
      BY <1>1
    <3> HIDE DEF T
    <3> QED BY <3>1, LeastNumber
  <2>2. CASE k = 0
    <3> DEFINE w == [i \in 0 .. 0 |-> 0]
    <3>1. w = [i \in 0 .. 0 |-> IF i = 0 THEN 0 ELSE 256 * w[i - 1] + base[i]]
      OBVIOUS
    <3> HIDE DEF w
    <3> QED BY <2>1, <2>2, <3>1
  <2>3. CASE k # 0
    <3>1. k - 1 \in 0 .. N /\ k - 1 < k /\ k \in 1 .. N
      BY <1>1, <2>1, <2>3
    <3>2. PICK w : Folds(w, k - 1)
      BY <2>1, <3>1
    <3> DEFINE y == [i \in 0 .. k |-> IF i = k THEN 256 * w[k - 1] + base[k] ELSE w[i]]
    <3>3. \A i \in 0 .. k - 1 : y[i] = w[i]
      BY <3>1
    <3>4. y[k] = 256 * w[k - 1] + base[k]
      BY <3>1
    <3>5. \A i \in 0 .. k : y[i] = IF i = 0 THEN 0 ELSE 256 * y[i - 1] + base[i]
      <4> TAKE i \in 0 .. k
      <4>1. CASE i = k
        <5>1. y[k - 1] = w[k - 1] /\ k # 0
          BY <3>1, <3>3
        <5> HIDE DEF y
        <5> QED BY <3>4, <4>1, <5>1
      <4>2. CASE i # k
        <5>1. i \in 0 .. k - 1
          BY <3>1, <4>2
        <5>2. w[i] = IF i = 0 THEN 0 ELSE 256 * w[i - 1] + base[i]
          <6> HIDE DEF y
          <6> QED BY <3>2, <5>1
        <5>3. i # 0 => i - 1 \in 0 .. k - 1
          BY <5>1
        <5> HIDE DEF y
        <5> QED BY <3>3, <5>1, <5>2, <5>3
      <4> QED BY <4>1, <4>2
    <3>6. y = [i \in 0 .. k |-> y[i]]
      OBVIOUS
    <3> HIDE DEF y
    <3>7. Folds(y, k)
      BY <3>5, <3>6
    <3> QED BY <2>1, <3>7
  <2> QED BY <2>2, <2>3
<1>3. PICK w : Folds(w, N) /\ BigEndian(base) = w[N]
  <2> DEFINE w == CHOOSE w : Folds(w, N)
  <2>1. Folds(w, N)
    <3>1. N \in 0 .. N
      BY <1>1
    <3> QED BY <1>2, <3>1
  <2>2. BigEndian(base) = w[N]
    BY DEF BigEndian, N
  <2> QED BY <2>1, <2>2
<1>4. \A k \in 0 .. N : w[k] \in Nat
  <2> DEFINE T == {k \in 0 .. N : w[k] \notin Nat}
  <2> SUFFICES ASSUME T # {} PROVE FALSE
    OBVIOUS
  <2>1. PICK k \in T : \A j \in T : ~(j < k)
    <3>1. T \subseteq Nat
      BY <1>1
    <3> HIDE DEF T
    <3> QED BY <3>1, LeastNumber
  <2>2. k # 0
    BY <1>1, <1>3, <2>1
  <2>3. k - 1 \in 0 .. N /\ k \in 1 .. N /\ k - 1 < k
    BY <1>1, <2>1, <2>2
  <2>4. w[k - 1] \in Nat
    BY <2>1, <2>3
  <2>5. w[k] = 256 * w[k - 1] + base[k]
    BY <1>3, <2>2, <2>3
  <2>6. base[k] \in Nat
    BY <2>3 DEF N
  <2>7. w[k] \notin Nat
    BY <2>1
  <2> HIDE DEF T
  <2> QED BY <2>4, <2>5, <2>6, <2>7
<1> QED BY <1>1, <1>3, <1>4

\* The parts of an address.
LEMMA AddressTyped ==
  ASSUME NEW a \in Addresses
  PROVE  /\ Offset(a) \in Nat
         /\ ~Unbounded(a) => a.slice \in BitSlices
<1>1. a.base \in Seq(Nat) /\ (~Unbounded(a) => a.slice \in BitSlices)
  <2>1. a.base \in Seq(0 .. 255) /\ a.slice \in {NoSlice} \cup BitSlices
    BY ChannelAssumption
  <2>2. \A b \in Seq(0 .. 255) : b \in Seq(Nat)
    <3> DEFINE S == 0 .. 255
    <3>1. \A n \in S : n \in Nat
      OBVIOUS
    <3> HIDE DEF S
    <3>2. \A b \in Seq(S) : b \in Seq(Nat)
      BY <3>1
    <3> QED BY <3>2 DEF S
  <2>3. a.base \in Seq(Nat)
    BY <2>1, <2>2
  <2> QED BY <2>1, <2>3 DEF Unbounded
<1>2. Reverse(a.base) \in Seq(Nat)
  BY <1>1 DEF Reverse
<1> QED BY <1>1, <1>2, NumbersAreNat DEF Offset, AsU64

-----------------------------------------------------------------------------
(* Parts of the device.                                                    *)

\* A part of a vector of bytes.
LEMMA Part ==
  ASSUME NEW m \in Seq(Byte), NEW p \in Nat, NEW n \in Nat, p + n <= Len(m)
  PROVE  /\ SubSeq(m, p + 1, p + n) \in Seq(Byte)
         /\ Len(SubSeq(m, p + 1, p + n)) = n
         /\ \A i \in 1 .. n : SubSeq(m, p + 1, p + n)[i] = m[p + i]
<1>1. \A i \in p + 1 .. p + n : m[i] \in Byte
  OBVIOUS
<1>2. /\ SubSeq(m, p + 1, p + n) \in Seq(Byte)
      /\ Len(SubSeq(m, p + 1, p + n)) = IF p + 1 <= p + n THEN p + n - (p + 1) + 1 ELSE 0
      /\ \A i \in 1 .. p + n - (p + 1) + 1 : SubSeq(m, p + 1, p + n)[i] = m[p + 1 + i - 1]
  BY <1>1, SubSeqProperties
<1>3. p + n - (p + 1) + 1 = n /\ \A i \in 1 .. n : p + 1 + i - 1 = p + i
  OBVIOUS
<1> QED BY <1>2, <1>3

\* Bytes that are written over others.
LEMMA OverwrittenIs ==
  ASSUME NEW m \in Seq(Byte), NEW b \in Nat, NEW x \in Seq(Byte)
  PROVE  /\ Overwritten(m, b, x) \in Seq(Byte)
         /\ Len(Overwritten(m, b, x)) = Len(m)
         /\ \A i \in 1 .. Len(m) :
              Overwritten(m, b, x)[i] = IF i - b \in 1 .. Len(x) THEN x[i - b] ELSE m[i]
<1> DEFINE y == [i \in 1 .. Len(m) |-> IF i - b \in 1 .. Len(x) THEN x[i - b] ELSE m[i]]
<1>1. Overwritten(m, b, x) = y
  BY DEF Overwritten
<1>2. \A i \in 1 .. Len(m) : y[i] \in Byte
  OBVIOUS
<1>3. y \in Seq(Byte) /\ Len(y) = Len(m)
  BY <1>2
<1> QED BY <1>1, <1>3

-----------------------------------------------------------------------------
(* Outcomes of the transfers.                                              *)

\* The outcome of a call with the device.
LEMMA OutcomeTyped ==
  ASSUME NEW out \in {"ok", "err", "panic"}, NEW val \in Seq(Byte), NEW m \in Seq(Byte),
         NEW o \in BOOLEAN
  PROVE  /\ Outcome(out, val, m, o) \in OutcomeType
         /\ Outcome(out, val, m, o).out = out /\ Outcome(out, val, m, o).val = val
         /\ Outcome(out, val, m, o).mem = m /\ Outcome(out, val, m, o).opened = o
BY DEF Outcome, OutcomeType

\* The slice of an address fits the device from its offset on.
InDevice(a, m) == ~Unbounded(a) /\ Offset(a) + BytesTo(a.slice) <= Len(m)

\* The bytes of the device up to the end of the slice.
Held(a, m) == SubSeq(m, Offset(a) + 1, Offset(a) + BytesTo(a.slice))

\* The bytes a slice is read from.
LEMMA HeldIs ==
  ASSUME NEW a \in Addresses, NEW m \in Seq(Byte), InDevice(a, m)
  PROVE  /\ a.slice \in BitSlices /\ Offset(a) \in Nat /\ BytesTo(a.slice) \in Nat
         /\ Held(a, m) \in Seq(Byte) /\ Len(Held(a, m)) = BytesTo(a.slice)
         /\ \A i \in 1 .. BytesTo(a.slice) : Held(a, m)[i] = m[Offset(a) + i]
<1>1. Offset(a) \in Nat /\ a.slice \in BitSlices
  BY AddressTyped DEF InDevice
<1>2. a.slice.end \in Nat
  BY <1>1 DEF BitSlices
<1>3. BytesTo(a.slice) \in Nat
  BY <1>2, BytesToHold
<1> QED BY <1>1, <1>3, Part DEF InDevice, Held

\* A read of the device gives the bytes at the base, or fails.
LEMMA ReadRealGives ==
  ASSUME NEW a \in Addresses, NEW m \in Seq(Byte), NEW o \in BOOLEAN, NEW x \in ReadReal(a, m, o)
  PROVE  /\ x \in OutcomeType /\ x.mem = m
         /\ x.out = "err" => x.val = <<>>
         /\ x.out = "ok" => Offsets(a) /\ InDevice(a, m) /\ x.val = Held(a, m)
<1>1. <<>> \in Seq(Byte)
  OBVIOUS
<1>2. CASE x = Outcome("panic", <<>>, m, o)
  <2>1. x \in OutcomeType /\ x.mem = m /\ x.out = "panic"
    BY <1>1, <1>2, SMT DEF Outcome, OutcomeType
  <2> QED BY <2>1
<1>3. CASE x = Outcome("err", <<>>, m, FALSE) \/ x = Outcome("err", <<>>, m, TRUE)
  <2>1. x \in OutcomeType /\ x.mem = m /\ x.out = "err" /\ x.val = <<>>
    <3>1. CASE x = Outcome("err", <<>>, m, FALSE)
      BY <1>1, <3>1, SMT DEF Outcome, OutcomeType
    <3>2. CASE x = Outcome("err", <<>>, m, TRUE)
      BY <1>1, <3>2, SMT DEF Outcome, OutcomeType
    <3> QED BY <1>3, <3>1, <3>2
  <2> QED BY <2>1
<1>4. CASE Offsets(a) /\ InDevice(a, m) /\ x = Outcome("ok", Held(a, m), m, TRUE)
  <2>1. Held(a, m) \in Seq(Byte)
    BY <1>4, HeldIs
  <2>2. x \in OutcomeType /\ x.mem = m /\ x.val = Held(a, m) /\ x.out = "ok"
    BY <1>4, <2>1, SMT DEF Outcome, OutcomeType
  <2> QED BY <1>4, <2>2
<1>5. \/ x = Outcome("panic", <<>>, m, o)
      \/ x = Outcome("err", <<>>, m, FALSE) \/ x = Outcome("err", <<>>, m, TRUE)
      \/ Offsets(a) /\ InDevice(a, m) /\ x = Outcome("ok", Held(a, m), m, TRUE)
  BY DEF ReadReal, WithDev, InDevice, Held
<1> QED BY <1>2, <1>3, <1>4, <1>5

\* A read of a mock gives zeros.
LEMMA ReadMockGives ==
  ASSUME NEW a \in Addresses, NEW m \in Seq(Byte), NEW o \in BOOLEAN, NEW x \in ReadMock(a, m, o)
  PROVE  x \in OutcomeType /\ x.out = "ok" /\ x.mem = m /\ x.opened = o /\ Zeros(x.val)
<1>1. CASE Unbounded(a)
  <2>1. x = Outcome("ok", <<>>, m, o) /\ <<>> \in Seq(Byte)
    BY <1>1 DEF ReadMock
  <2>2. x \in OutcomeType /\ x.out = "ok" /\ x.mem = m /\ x.opened = o /\ x.val = <<>>
    BY <2>1, SMT DEF Outcome, OutcomeType
  <2> QED BY <2>2 DEF Zeros
<1>2. CASE ~Unbounded(a)
  <2> DEFINE n == BytesTo(a.slice)
             z == [i \in 1 .. n |-> {}]
  <2>1. n \in Nat
    <3>1. a.slice \in BitSlices
      BY <1>2, AddressTyped
    <3>2. a.slice.end \in Nat
      BY <3>1 DEF BitSlices
    <3> QED BY <3>2, BytesToHold
  <2>2. x = Outcome("ok", z, m, o)
    BY <1>2 DEF ReadMock
  <2> HIDE DEF n
  <2>3. {} \in Byte
    BY DEF Byte
  <2>4. z \in Seq(Byte) /\ Zeros(z)
    BY <2>1, <2>3 DEF Zeros
  <2> HIDE DEF z
  <2> QED BY <2>2, <2>4, OutcomeTyped
<1> QED BY <1>1, <1>2

\* Nothing but zeros is cut out of zeros.
LEMMA ZerosCut ==
  ASSUME NEW x \in Seq(Byte), Zeros(x), NEW s \in Ranges, ~SlicePanics(x, s)
  PROVE  Zeros(Slice(x, s))
<1>1. /\ Slice(x, s) \in Seq(Byte)
      /\ Row(Slice(x, s)) = Cut(Row(x), s)
  BY SliceIsCut
<1>2. Row(x) = {}
  <2> SUFFICES ASSUME NEW n \in Row(x) PROVE FALSE
    OBVIOUS
  <2>1. PICK i \in 1 .. Len(x), b \in Bits : b \in x[i]
    BY InRow
  <2> QED BY <2>1 DEF Zeros
<1>3. Row(Slice(x, s)) = {}
  BY <1>1, <1>2 DEF Cut
<1> DEFINE y == Slice(x, s)
<1> HIDE DEF y
<1>4. ASSUME NEW i \in 1 .. Len(y) PROVE y[i] = {}
  <2>1. y \in Seq(Byte) /\ Row(y) = {}
    BY <1>1, <1>3 DEF y
  <2>2. y[i] \subseteq Bits
    BY <2>1 DEF Byte
  <2>3. \A b \in Bits : b \notin y[i]
    BY <2>1, RowAt
  <2> QED BY <2>2, <2>3
<1> QED BY <1>4 DEF Zeros, y

\* CommChannel::read_value
LEMMA ReadValueGives ==
  ASSUME NEW a \in Addresses, NEW m \in Seq(Byte), NEW o \in BOOLEAN, NEW x \in ReadValue(a, m, o)
  PROVE  /\ x \in OutcomeType /\ x.mem = m
         /\ mock => x.opened = o /\ Zeros(x.val)
         /\ x.out = "ok" /\ ~Unbounded(a) =>
              /\ a.slice \in Ranges
              /\ Len(x.val) = ByteCount(a.slice)
         /\ x.out = "err" => x.val = <<>>
         /\ x.out = "ok" /\ ~mock =>
              /\ Offsets(a) /\ InDevice(a, m)
              /\ Row(x.val) = Cut(Row(Held(a, m)), a.slice)
<1>1. PICK r \in IF mock THEN ReadMock(a, m, o) ELSE ReadReal(a, m, o) :
        x = IF r.out = "ok" THEN Sliced(a, r) ELSE r
  BY DEF ReadValue
<1>2. /\ r \in OutcomeType /\ r.mem = m
      /\ mock => r.opened = o /\ Zeros(r.val)
      /\ r.out = "err" => r.val = <<>>
      /\ r.out = "ok" /\ ~mock => Offsets(a) /\ InDevice(a, m) /\ r.val = Held(a, m)
  BY <1>1, ReadMockGives, ReadRealGives
<1>3. CASE r.out # "ok"
  BY <1>1, <1>2, <1>3
<1>4. CASE r.out = "ok" /\ Unbounded(a)
  <2>1. x = r
    BY <1>1, <1>4 DEF Sliced
  <2> QED BY <1>2, <1>4, <2>1 DEF InDevice
<1>5. CASE r.out = "ok" /\ ~Unbounded(a) /\ SlicePanics(r.val, a.slice)
  <2>1. x = [r EXCEPT !.out = "panic"]
    BY <1>1, <1>5 DEF Sliced
  <2>2. /\ x \in OutcomeType /\ x.out = "panic" /\ x.val = r.val
        /\ x.mem = r.mem /\ x.opened = r.opened
    BY <1>2, <2>1 DEF OutcomeType
  <2> QED BY <1>2, <2>2
<1>6. CASE r.out = "ok" /\ ~Unbounded(a) /\ ~SlicePanics(r.val, a.slice)
  <2>1. x = [r EXCEPT !.val = Slice(r.val, a.slice)]
    BY <1>1, <1>6 DEF Sliced
  <2>2. a.slice \in Ranges
    <3>1. a.slice \in BitSlices /\ ~(a.slice.start >= a.slice.end)
      BY <1>6, AddressTyped DEF SlicePanics
    <3> QED BY <3>1 DEF BitSlices, Ranges
  <2>3. r.val \in Seq(Byte)
    BY <1>2 DEF OutcomeType
  <2>4. /\ Slice(r.val, a.slice) \in Seq(Byte)
        /\ Len(Slice(r.val, a.slice)) = ByteCount(a.slice)
        /\ Row(Slice(r.val, a.slice)) = Cut(Row(r.val), a.slice)
    BY <1>6, <2>2, <2>3, SliceIsCut
  <2>5. /\ x \in OutcomeType /\ x.out = r.out /\ x.val = Slice(r.val, a.slice)
        /\ x.mem = r.mem /\ x.opened = r.opened
    BY <1>2, <2>1, <2>4 DEF OutcomeType
  <2>6. mock => Zeros(x.val)
    BY <1>2, <1>6, <2>2, <2>3, <2>5, ZerosCut
  <2> QED BY <1>2, <1>6, <2>2, <2>4, <2>5, <2>6
<1> QED BY <1>3, <1>4, <1>5, <1>6

\* Fewer bytes of a vector.
LEMMA Fewer ==
  ASSUME NEW x \in Seq(Byte), NEW n \in 0 .. Len(x)
  PROVE  /\ SubSeq(x, 1, n) \in Seq(Byte) /\ Len(SubSeq(x, 1, n)) = n
         /\ \A i \in 1 .. n : SubSeq(x, 1, n)[i] = x[i]
<1>1. 0 + n <= Len(x) /\ n \in Nat /\ 0 + 1 = 1 /\ 0 + n = n
  OBVIOUS
<1>2. /\ SubSeq(x, 0 + 1, 0 + n) \in Seq(Byte) /\ Len(SubSeq(x, 0 + 1, 0 + n)) = n
      /\ \A i \in 1 .. n : SubSeq(x, 0 + 1, 0 + n)[i] = x[0 + i]
  BY <1>1, Part
<1> QED BY <1>1, <1>2

\* Device m, of which only the bytes x reaches from number b on are changed, to
\* what x says.
Spared(m, y, b, x) ==
  /\ y \in Seq(Byte) /\ Len(y) = Len(m)
  /\ \A i \in 1 .. Len(m) : y[i] # m[i] => i - b \in 1 .. Len(x) /\ y[i] = x[i - b]

\* Bytes outside what is written stay.
LEMMA OverwrittenSpares ==
  ASSUME NEW m \in Seq(Byte), NEW b \in Nat, NEW x \in Seq(Byte), NEW n \in 0 .. Len(x)
  PROVE  Spared(m, Overwritten(m, b, SubSeq(x, 1, n)), b, x)
<1> DEFINE q == SubSeq(x, 1, n)
<1>1. q \in Seq(Byte) /\ Len(q) = n /\ \A i \in 1 .. n : q[i] = x[i]
  BY Fewer
<1> HIDE DEF q
<1>2. /\ Overwritten(m, b, q) \in Seq(Byte)
      /\ Len(Overwritten(m, b, q)) = Len(m)
      /\ \A i \in 1 .. Len(m) :
           Overwritten(m, b, q)[i] = IF i - b \in 1 .. Len(q) THEN q[i - b] ELSE m[i]
  BY <1>1, OverwrittenIs
<1>3. \A i \in 1 .. Len(m) : i - b \in 1 .. n => i - b \in 1 .. Len(x)
  OBVIOUS
<1>4. Spared(m, Overwritten(m, b, q), b, x)
  BY <1>1, <1>2, <1>3 DEF Spared
<1> QED BY <1>4 DEF q

\* The device has the bytes a write of x goes to.
HasRoom(a, x, m) == x = <<>> \/ Offset(a) + Len(x) <= Len(m)

\* What a write leaves of the device: the bytes x reaches are changed, all of
\* them when it succeeds.  It does not panic where there is room.
LEMMA WriteRealGives ==
  ASSUME NEW a \in Addresses, NEW x \in Seq(Byte), NEW m \in Seq(Byte), NEW o \in BOOLEAN,
         NEW y \in WriteReal(a, x, m, o)
  PROVE  /\ y \in OutcomeType
         /\ Spared(m, y.mem, Offset(a), x)
         /\ y.out = "ok" => HasRoom(a, x, m) /\ y.mem = Overwritten(m, Offset(a), x)
         /\ Offsets(a) /\ HasRoom(a, x, m) => y.out # "panic"
<1> DEFINE b == Offset(a)
           Part0(n) == Overwritten(m, b, SubSeq(x, 1, n))
<1>1. <<>> \in Seq(Byte) /\ b \in Nat /\ Len(x) \in Nat /\ SubSeq(x, 1, Len(x)) = x
  BY AddressTyped, SubSeqFull
<1>2. Spared(m, m, b, x)
  BY DEF Spared
<1>3. Overwritten(m, b, x) = Part0(Len(x))
  BY <1>1
<1>4. \A n \in 0 .. Len(x) : Spared(m, Part0(n), b, x) /\ Part0(n) \in Seq(Byte)
  <2> TAKE n \in 0 .. Len(x)
  <2>1. Spared(m, Part0(n), b, x)
    BY <1>1, OverwrittenSpares
  <2> QED BY <2>1 DEF Spared
<1> HIDE DEF b, Part0
<1>5. Len(x) \in 0 .. Len(x)
  BY <1>1
<1>6. \/ y = Outcome("panic", <<>>, m, o) /\ ~Offsets(a)
      \/ y = Outcome("err", <<>>, m, FALSE)
      \/ y = Outcome("panic", <<>>, Overwritten(m, b, x), TRUE) /\ ~HasRoom(a, x, m)
      \/ y = Outcome("ok", <<>>, Overwritten(m, b, x), TRUE) /\ HasRoom(a, x, m)
      \/ \E n \in 0 .. Len(x) : y = Outcome("err", <<>>, Part0(n), TRUE)
  BY DEF WriteReal, WithDev, HasRoom, b, Part0
<1>7. CASE y = Outcome("panic", <<>>, m, o) /\ ~Offsets(a)
  <2>1. y \in OutcomeType /\ y.mem = m /\ y.out = "panic"
    BY <1>1, <1>7, SMT DEF Outcome, OutcomeType
  <2> QED BY <1>2, <1>7, <2>1 DEF b
<1>8. CASE y = Outcome("err", <<>>, m, FALSE)
  <2>1. y \in OutcomeType /\ y.mem = m /\ y.out = "err"
    BY <1>1, <1>8, SMT DEF Outcome, OutcomeType
  <2> QED BY <1>2, <2>1 DEF b
<1>9. CASE y = Outcome("panic", <<>>, Overwritten(m, b, x), TRUE) /\ ~HasRoom(a, x, m)
  <2>1. y \in OutcomeType /\ y.mem = Part0(Len(x)) /\ y.out = "panic"
    BY <1>1, <1>3, <1>4, <1>5, <1>9, SMT DEF Outcome, OutcomeType
  <2> QED BY <1>4, <1>5, <1>9, <2>1 DEF b
<1>10. CASE y = Outcome("ok", <<>>, Overwritten(m, b, x), TRUE) /\ HasRoom(a, x, m)
  <2>1. y \in OutcomeType /\ y.mem = Part0(Len(x)) /\ y.mem = Overwritten(m, b, x) /\ y.out = "ok"
    BY <1>1, <1>3, <1>4, <1>5, <1>10, SMT DEF Outcome, OutcomeType
  <2> QED BY <1>4, <1>5, <1>10, <2>1 DEF b
<1>11. ASSUME NEW n \in 0 .. Len(x), y = Outcome("err", <<>>, Part0(n), TRUE)
       PROVE  /\ y \in OutcomeType /\ Spared(m, y.mem, b, x)
              /\ y.out = "err"
  <2>1. y \in OutcomeType /\ y.mem = Part0(n) /\ y.out = "err"
    BY <1>1, <1>4, <1>11, SMT DEF Outcome, OutcomeType
  <2> QED BY <1>4, <2>1
<1>12. CASE \E n \in 0 .. Len(x) : y = Outcome("err", <<>>, Part0(n), TRUE)
  BY <1>11, <1>12 DEF b
<1> QED BY <1>6, <1>7, <1>8, <1>9, <1>10, <1>12

\* The outcomes of a write: in mock mode the device is not touched.
LEMMA PutGives ==
  ASSUME NEW a \in Addresses, NEW x \in Seq(Byte), NEW m \in Seq(Byte), NEW o \in BOOLEAN,
         NEW y \in Put(a, x, m, o)
  PROVE  /\ y \in OutcomeType
         /\ Spared(m, y.mem, Offset(a), x)
         /\ mock => y.mem = m /\ y.opened = o /\ Zeros(y.val)
         /\ y.out = "ok" /\ ~mock =>
              HasRoom(a, x, m) /\ y.mem = Overwritten(m, Offset(a), x)
         /\ Offsets(a) /\ HasRoom(a, x, m) => y.out # "panic"
<1>1. CASE mock
  <2>1. y = Outcome("ok", <<>>, m, o) /\ <<>> \in Seq(Byte)
    BY <1>1 DEF Put, WriteMock
  <2>2. y \in OutcomeType /\ y.out = "ok" /\ y.mem = m /\ y.opened = o /\ y.val = <<>>
    BY <2>1, SMT DEF Outcome, OutcomeType
  <2>3. Zeros(y.val)
    BY <2>2 DEF Zeros
  <2>4. Spared(m, m, Offset(a), x)
    BY DEF Spared
  <2> QED BY <1>1, <2>2, <2>3, <2>4
<1>2. CASE ~mock
  <2>1. y \in WriteReal(a, x, m, o)
    BY <1>2 DEF Put
  <2> QED BY <1>2, <2>1, WriteRealGives
<1> QED BY <1>1, <1>2

-----------------------------------------------------------------------------
(* CommChannel::write_value.                                               *)

\* Only bytes of the place of a differ.
Keeps(m, y, a) ==
  /\ y \in Seq(Byte) /\ Len(y) = Len(m)
  /\ \A i \in 1 .. Len(m) : y[i] # m[i] => ~Unbounded(a) /\ i \in Place(a)

\* What the address gives of the device is what was written to it.
Gives(a, x, m) ==
  /\ ~Unbounded(a)
  /\ a.slice \in Ranges =>
       /\ InDevice(a, m)
       /\ Cut(Row(Held(a, m)), a.slice) = Row(x) \cap 0 .. BitCount(a.slice) - 1

\* What spares all bytes but those of the slice keeps the others.
LEMMA SparedKeeps ==
  ASSUME NEW a \in Addresses, ~Unbounded(a), NEW m \in Seq(Byte), NEW y,
         NEW x \in Seq(Byte), Spared(m, y, Offset(a), x), Len(x) <= BytesTo(a.slice)
  PROVE  Keeps(m, y, a)
<1>1. Offset(a) \in Nat /\ BytesTo(a.slice) \in Nat
  <2>1. Offset(a) \in Nat /\ a.slice \in BitSlices
    BY AddressTyped
  <2>2. a.slice.end \in Nat
    BY <2>1 DEF BitSlices
  <2> QED BY <2>1, <2>2, BytesToHold
<1>2. ASSUME NEW i \in 1 .. Len(m), y[i] # m[i] PROVE i \in Place(a)
  <2>1. i - Offset(a) \in 1 .. Len(x)
    BY <1>2 DEF Spared
  <2>2. i - Offset(a) \in 1 .. BytesTo(a.slice) /\ i = Offset(a) + (i - Offset(a))
    BY <1>1, <2>1
  <2> QED BY <2>2 DEF Place
<1> QED BY <1>2 DEF Spared, Keeps

\* What was pasted into a range is what is cut out of it.
LEMMA CutOfPaste ==
  ASSUME NEW s \in Ranges, NEW row, NEW new, new \subseteq Nat
  PROVE  Cut(Paste(row, new, s), s) = new \cap 0 .. BitCount(s) - 1
<1>1. s.start \in Nat /\ s.end \in Nat /\ s.start < s.end
  BY Sizes
<1>2. ASSUME NEW k \in Cut(Paste(row, new, s), s) PROVE k \in new \cap 0 .. BitCount(s) - 1
  <2>1. PICK n \in Paste(row, new, s) \cap Inside(s) : k = n - s.start
    BY <1>2 DEF Cut
  <2>2. PICK j \in new : n = j + s.start
    BY <2>1 DEF Paste
  <2>3. n \in Nat /\ j \in Nat /\ k = j /\ n < s.end
    BY <1>1, <2>1, <2>2 DEF Inside
  <2> QED BY <1>1, <2>2, <2>3 DEF BitCount
<1>3. ASSUME NEW k \in new \cap 0 .. BitCount(s) - 1 PROVE k \in Cut(Paste(row, new, s), s)
  <2>1. k \in Nat /\ k < s.end - s.start
    BY <1>1, <1>3 DEF BitCount
  <2>2. k + s.start \in Inside(s) /\ (k + s.start) - s.start = k
    BY <1>1, <2>1 DEF Inside
  <2>3. k + s.start \in {n + s.start : n \in new}
    BY <1>3
  <2> QED BY <2>2, <2>3 DEF Cut, Paste
<1> QED BY <1>2, <1>3

\* Bytes that fill the place are the ones it holds afterwards.
LEMMA HeldAfter ==
  ASSUME NEW a \in Addresses, ~Unbounded(a), NEW m \in Seq(Byte), NEW x \in Seq(Byte),
         Len(x) = BytesTo(a.slice), Offset(a) + Len(x) <= Len(m)
  PROVE  /\ InDevice(a, Overwritten(m, Offset(a), x))
         /\ Held(a, Overwritten(m, Offset(a), x)) = x
<1> DEFINE b == Offset(a)
           y == Overwritten(m, b, x)
           n == Len(x)
<1>1. b \in Nat /\ n \in Nat
  BY AddressTyped
<1>2. /\ y \in Seq(Byte) /\ Len(y) = Len(m)
      /\ \A i \in 1 .. Len(m) : y[i] = IF i - b \in 1 .. Len(x) THEN x[i - b] ELSE m[i]
  BY <1>1, OverwrittenIs
<1> HIDE DEF y
<1>3. InDevice(a, y)
  BY <1>2 DEF InDevice
<1>4. /\ Held(a, y) \in Seq(Byte) /\ Len(Held(a, y)) = n
      /\ \A i \in 1 .. n : Held(a, y)[i] = y[b + i]
  BY <1>2, <1>3, HeldIs
<1>5. \A i \in 1 .. n : y[b + i] = x[i]
  <2> TAKE i \in 1 .. n
  <2>1. b + i \in 1 .. Len(m) /\ (b + i) - b = i
    BY <1>1
  <2> HIDE DEF b, n
  <2> QED BY <1>2, <2>1 DEF n
<1>6. Held(a, y) = x
  BY <1>4, <1>5
<1> QED BY <1>3, <1>6 DEF y

\* slice_write on what was read.
LEMMA MergeGives ==
  ASSUME NEW a \in Addresses, NEW x \in Seq(Byte), NEW m \in Seq(Byte), NEW o \in BOOLEAN,
         NEW r \in ReadValue(a, m, o), r.out = "ok", NEW y \in Merge(a, x, r)
  PROVE  /\ y \in OutcomeType /\ Keeps(m, y.mem, a)
         /\ mock => y.mem = m /\ y.opened = o /\ Zeros(y.val)
         /\ y.out = "ok" /\ ~mock => ~Unbounded(a) /\ Gives(a, x, y.mem)
<1> DEFINE s == a.slice
           w == SliceWrite(r.val, x, s)
<1>1. /\ r \in OutcomeType /\ r.mem = m
      /\ mock => r.opened = o
      /\ ~Unbounded(a) => s \in Ranges /\ Len(r.val) = ByteCount(s)
  BY ReadValueGives
<1>2. r.val \in Seq(Byte) /\ r.opened \in BOOLEAN /\ <<>> \in Seq(Byte)
  BY <1>1 DEF OutcomeType
<1>3. CASE Unbounded(a) \/ SliceWritePanics(r.val, x, s)
  <2>1. y = [r EXCEPT !.out = "panic", !.val = <<>>]
    BY <1>3 DEF Merge
  <2>2. /\ y \in OutcomeType /\ y.out = "panic" /\ y.val = <<>>
        /\ y.mem = r.mem /\ y.opened = r.opened
    BY <1>1, <1>2, <2>1 DEF OutcomeType
  <2>3. Keeps(m, m, a)
    BY DEF Keeps
  <2> QED BY <1>1, <2>2, <2>3 DEF Zeros
<1>4. CASE ~(Unbounded(a) \/ SliceWritePanics(r.val, x, s))
  <2>1. y \in Put(a, w, m, r.opened)
    BY <1>1, <1>4 DEF Merge
  <2>2. s \in Ranges /\ Len(r.val) = ByteCount(s)
    BY <1>1, <1>4
  <2>3. /\ w \in Seq(Byte) /\ Len(w) = ByteCount(s)
        /\ Row(w) = Paste(Row(r.val), Row(x), s)
    BY <1>2, <1>4, <2>2, SliceWriteIsPaste
  <2>4. ByteCount(s) = BytesTo(s) /\ ByteCount(s) \in Nat
    <3>1. LastIndex(s) <= ByteCount(s)
      BY <1>4, <2>2, Sizes, BoundsAgree DEF SliceWritePanics, SlicePanics
    <3>2. LastIndex(s) = BytesTo(s) /\ LastIndex(s) >= ByteCount(s) /\ LastIndex(s) \in Nat
      BY <2>2, Sizes, BoundsAgree DEF LastIndex
    <3> QED BY <2>2, <3>1, <3>2, Sizes
  <2> HIDE DEF w
  <2>5. /\ y \in OutcomeType
        /\ Spared(m, y.mem, Offset(a), w)
        /\ mock => y.mem = m /\ y.opened = r.opened /\ Zeros(y.val)
        /\ y.out = "ok" /\ ~mock =>
             HasRoom(a, w, m) /\ y.mem = Overwritten(m, Offset(a), w)
    BY <1>2, <2>1, <2>3, PutGives
  <2>6. Keeps(m, y.mem, a)
    BY <1>4, <2>3, <2>4, <2>5, SparedKeeps
  <2>7. ASSUME y.out = "ok", ~mock PROVE Gives(a, x, y.mem)
    <3>1. Offset(a) + Len(w) <= Len(m)
      BY <2>2, <2>3, <2>5, <2>7, Sizes DEF HasRoom
    <3>2. InDevice(a, y.mem) /\ Held(a, y.mem) = w
      BY <1>4, <2>3, <2>4, <2>5, <2>7, <3>1, HeldAfter
    <3>3. Row(x) \subseteq Nat
      BY DEF Row
    <3> QED BY <1>4, <2>2, <2>3, <3>2, <3>3, CutOfPaste DEF Gives
  <2> QED BY <1>1, <1>4, <2>5, <2>6, <2>7
<1> QED BY <1>3, <1>4

\* The row of the first bytes is the start of the row.
LEMMA RowOfFewer ==
  ASSUME NEW x \in Seq(Byte), NEW n \in 0 .. Len(x)
  PROVE  Row(SubSeq(x, 1, n)) = Row(x) \cap 0 .. 8 * n - 1
<1> DEFINE q == SubSeq(x, 1, n)
<1>1. q \in Seq(Byte) /\ Len(q) = n /\ \A i \in 1 .. n : q[i] = x[i]
  BY Fewer
<1>2. n \in Nat /\ Len(x) \in Nat /\ n <= Len(x)
  OBVIOUS
<1> HIDE DEF q
<1>3. \A k \in 0 .. 8 * n - 1 : k \in Row(q) <=> k \in Row(x)
  <2> TAKE k \in 0 .. 8 * n - 1
  <2>1. k \in Nat /\ k < 8 * n
    BY <1>2
  <2>2. k \div 8 \in Nat /\ k % 8 \in 0 .. 7 /\ k = 8 * (k \div 8) + (k % 8)
    BY <2>1, DivMod
  <2>3. k \div 8 + 1 \in 1 .. n
    BY <1>2, <2>1, <2>2
  <2>4. q[k \div 8 + 1] = x[k \div 8 + 1]
    BY <1>1, <2>3
  <2>5. k \in 0 .. 8 * Len(q) - 1 /\ k \in 0 .. 8 * Len(x) - 1
    BY <1>1, <1>2, <2>1
  <2> QED BY <2>4, <2>5 DEF Row
<1>4. Row(q) \subseteq 0 .. 8 * n - 1
  BY <1>1 DEF Row
<1>5. Row(q) = Row(x) \cap 0 .. 8 * n - 1
  BY <1>3, <1>4
<1> QED BY <1>5 DEF q

\* A slice of whole bytes.
LEMMA WholeGives ==
  ASSUME NEW a \in Addresses, ~Nontrivial(a), NEW x \in Seq(Byte), NEW m \in Seq(Byte),
         NEW o \in BOOLEAN, NEW y \in Whole(a, x, m, o)
  PROVE  /\ y \in OutcomeType /\ Keeps(m, y.mem, a)
         /\ mock => y.mem = m /\ y.opened = o /\ Zeros(y.val)
         /\ y.out = "ok" /\ ~mock /\ a.slice.start = 0 => Gives(a, x, y.mem)
<1> DEFINE s == a.slice
           p == s.start \div 8
           n == s.end \div 8
           w == SubSeq(x, p + 1, n)
<1>1. ~Unbounded(a) /\ s.start % 8 = 0 /\ s.end % 8 = 0
  BY DEF Nontrivial
<1>2. s.start \in Nat /\ s.end \in Nat
  BY <1>1, AddressTyped DEF BitSlices
<1>3. p \in Nat /\ n \in Nat /\ s.start = 8 * p /\ s.end = 8 * n
  <2>1. \A k \in Nat : k \div 8 \in Nat /\ (k % 8 = 0 => k = 8 * (k \div 8))
    <3> TAKE k \in Nat
    <3>1. k \div 8 \in Nat /\ k % 8 \in 0 .. 7 /\ k = 8 * (k \div 8) + (k % 8)
      BY DivMod
    <3> QED BY <3>1
  <2> QED BY <1>1, <1>2, <2>1
<1>4. BytesTo(s) = n
  <2>1. ~(s.end % 8 > 0)
    BY <1>1
  <2> QED BY <2>1 DEF BytesTo
<1> HIDE DEF p, n
<1>5. CASE n > Len(x) \/ s.start > s.end
  <2>1. y = Outcome("panic", <<>>, m, o) /\ <<>> \in Seq(Byte)
    BY <1>5 DEF Whole, n
  <2>2. y \in OutcomeType /\ y.mem = m /\ y.opened = o /\ y.val = <<>> /\ y.out = "panic"
    BY <2>1, SMT DEF Outcome, OutcomeType
  <2>3. Keeps(m, m, a)
    BY DEF Keeps
  <2> QED BY <2>2, <2>3 DEF Zeros
<1>6. CASE ~(n > Len(x) \/ s.start > s.end)
  <2>1. y \in Put(a, w, m, o)
    BY <1>6 DEF Whole, n, p
  <2>2. p <= n /\ n <= Len(x) /\ Len(x) \in Nat /\ n - p \in Nat /\ p + (n - p) = n
    BY <1>2, <1>3, <1>6
  <2>3. w \in Seq(Byte) /\ Len(w) = n - p
    <3> DEFINE d == n - p
    <3>1. d \in Nat /\ p + d = n
      BY <2>2
    <3> HIDE DEF d
    <3>2. SubSeq(x, p + 1, p + d) \in Seq(Byte) /\ Len(SubSeq(x, p + 1, p + d)) = d
      BY <1>3, <2>2, <3>1, Part
    <3> QED BY <3>1, <3>2 DEF d
  <2> HIDE DEF w
  <2>4. /\ y \in OutcomeType
        /\ Spared(m, y.mem, Offset(a), w)
        /\ mock => y.mem = m /\ y.opened = o /\ Zeros(y.val)
        /\ y.out = "ok" /\ ~mock =>
             HasRoom(a, w, m) /\ y.mem = Overwritten(m, Offset(a), w)
    BY <2>1, <2>3, PutGives
  <2>5. Keeps(m, y.mem, a)
    BY <1>1, <1>3, <1>4, <2>2, <2>3, <2>4, SparedKeeps
  <2>6. ASSUME y.out = "ok", ~mock, s.start = 0 PROVE Gives(a, x, y.mem)
    <3> SUFFICES ASSUME s \in Ranges
                 PROVE  /\ InDevice(a, y.mem)
                        /\ Cut(Row(Held(a, y.mem)), s) = Row(x) \cap 0 .. BitCount(s) - 1
      BY <1>1 DEF Gives
    <3>1. p = 0 /\ n \in 0 .. Len(x) /\ p + 1 = 1
      BY <1>3, <2>2, <2>6
    <3>2. Len(w) = BytesTo(s) /\ Row(w) = Row(x) \cap 0 .. 8 * n - 1
      BY <1>3, <1>4, <2>3, <3>1, RowOfFewer DEF w
    <3>3. InDevice(a, y.mem) /\ Held(a, y.mem) = w
      <4>1. w # <<>>
        <5>1. s.end > 0
          BY Sizes
        <5>2. n # 0
          BY <1>3, <5>1
        <5> QED BY <2>3, <3>1, <5>2
      <4> QED BY <1>1, <2>3, <2>4, <2>6, <3>2, <4>1, HeldAfter DEF HasRoom
    <3>4. Cut(Row(w), s) = Row(x) \cap 0 .. BitCount(s) - 1
      <4>1. Inside(s) = 0 .. 8 * n - 1 /\ BitCount(s) = 8 * n
        BY <1>3, <2>6 DEF Inside, BitCount
      <4>2. \A k \in Row(w) : k \in Nat /\ k - s.start = k
        BY <2>6 DEF Row
      <4>3. Cut(Row(w), s) = Row(w) \cap Inside(s)
        BY <4>2 DEF Cut
      <4> QED BY <3>2, <4>1, <4>3
    <3> QED BY <3>3, <3>4
  <2> QED BY <2>4, <2>5, <2>6
<1> QED BY <1>5, <1>6

\* All outcomes of write_value.
LEMMA WriteValueGives ==
  ASSUME NEW a \in Addresses, NEW x \in Seq(Byte), NEW m \in Seq(Byte), NEW o \in BOOLEAN,
         NEW y \in WriteValue(a, x, m, o)
  PROVE  /\ y \in OutcomeType /\ Keeps(m, y.mem, a)
         /\ mock => y.mem = m /\ y.opened = o /\ Zeros(y.val)
         /\ y.out = "ok" /\ ~mock /\ (Nontrivial(a) \/ a.slice.start = 0) =>
              ~Unbounded(a) /\ Gives(a, x, y.mem)
<1>1. CASE Nontrivial(a)
  <2>1. PICK r \in ReadValue(a, m, o) : y \in IF r.out = "ok" THEN Merge(a, x, r) ELSE {r}
    BY <1>1 DEF WriteValue
  <2>2. CASE r.out = "ok"
    BY <2>1, <2>2, MergeGives
  <2>3. CASE r.out # "ok"
    <3>1. y = r
      BY <2>1, <2>3
    <3>2. Keeps(m, m, a)
      BY DEF Keeps
    <3> QED BY <2>3, <3>1, <3>2, ReadValueGives
  <2> QED BY <2>2, <2>3
<1>2. CASE ~Nontrivial(a)
  <2>1. y \in Whole(a, x, m, o)
    BY <1>2 DEF WriteValue
  <2> QED BY <1>2, <2>1, WholeGives DEF Nontrivial
<1> QED BY <1>1, <1>2

-----------------------------------------------------------------------------
(* The calls.                                                              *)

\* The last call was one on an address of the channel; if it wrote there, and
\* the address is one that is read back, the device holds what was written.
LastWriteIsHeld ==
  /\ last.call # "none" => last.addr \in Addresses
  /\ /\ last.call = "write" /\ last.out = "ok" /\ ~mock
     /\ Nontrivial(last.addr) \/ last.addr.slice.start = 0
     => Gives(last.addr, last.arg, mem)

IInv == TypeOK /\ LastWriteIsHeld

\* Nothing has been written at the start.
LEMMA InitHolds == Init => IInv
<1> SUFFICES ASSUME Init PROVE IInv
  OBVIOUS
<1>1. mem \in Seq(Byte) /\ kind \in Kinds /\ mock \in Mocks /\ opened = FALSE /\ calls = 0
  BY ChannelAssumption DEF Init
<1>2. last.call = "none" /\ last.out = "ok" /\ last.val = <<>> /\ <<>> \in Seq(Byte)
  BY DEF Init, NoCall
<1>3. calls \in 0 .. MaxCalls
  BY <1>1, ChannelAssumption
<1> QED BY <1>1, <1>2, <1>3 DEF IInv, TypeOK, LastWriteIsHeld

\* What a call does.
LEMMA CallStep ==
  ASSUME IInv, Next
  PROVE  \E a \in Addresses, x \in OutcomeType :
           /\ mem' = x.mem /\ opened' = x.opened /\ calls' = calls + 1
           /\ last'.addr = a /\ last'.out = x.out /\ last'.val = x.val
           /\ kind' = kind /\ mock' = mock
           /\ \/ last'.call = "read" /\ x \in ReadValue(a, mem, opened)
              \/ /\ last'.call = "write" /\ last'.arg \in Values
                 /\ x \in WriteValue(a, last'.arg, mem, opened)
<1>1. mem \in Seq(Byte) /\ opened \in BOOLEAN
  BY DEF IInv, TypeOK
<1>2. PICK a \in Addresses : Read(a) \/ \E v \in Values : Write(a, v)
  BY DEF Next
<1>3. CASE Read(a)
  <2>1. PICK x \in ReadValue(a, mem, opened) : Ends("read", a, <<>>, x)
    BY <1>3 DEF Read
  <2>2. x \in OutcomeType
    BY <1>1, ReadValueGives
  <2> QED BY <2>1, <2>2 DEF Ends
<1>4. ASSUME NEW v \in Values, Write(a, v)
      PROVE  \E x :
           /\ x \in OutcomeType
           /\ mem' = x.mem /\ opened' = x.opened /\ calls' = calls + 1
           /\ last'.addr = a /\ last'.out = x.out /\ last'.val = x.val
           /\ kind' = kind /\ mock' = mock
           /\ last'.call = "write" /\ last'.arg \in Values
           /\ x \in WriteValue(a, last'.arg, mem, opened)
  <2>1. PICK x \in WriteValue(a, v, mem, opened) : Ends("write", a, v, x)
    BY <1>4 DEF Write
  <2>2. v \in Seq(Byte)
    BY ChannelAssumption
  <2>3. x \in OutcomeType
    BY <1>1, <2>2, WriteValueGives
  <2>4. /\ mem' = x.mem /\ opened' = x.opened /\ calls' = calls + 1
        /\ last' = [call |-> "write", addr |-> a, arg |-> v, out |-> x.out, val |-> x.val]
        /\ kind' = kind /\ mock' = mock
    BY <2>1 DEF Ends
  <2> QED BY <2>3, <2>4
<1> QED BY <1>2, <1>3, <1>4

\* Every call keeps the invariant.
LEMMA NextKeeps ==
  ASSUME IInv, [Next]_vars
  PROVE  IInv'
<1>1. CASE UNCHANGED vars
  BY <1>1 DEF vars, IInv, TypeOK, LastWriteIsHeld, Gives, InDevice, Held, Offset
<1>2. CASE Next
  <2>1. PICK a \in Addresses, x \in OutcomeType :
          /\ x \in OutcomeType
          /\ mem' = x.mem /\ opened' = x.opened /\ calls' = calls + 1
          /\ last'.addr = a /\ last'.out = x.out /\ last'.val = x.val
          /\ kind' = kind /\ mock' = mock
          /\ \/ last'.call = "read" /\ x \in ReadValue(a, mem, opened)
             \/ /\ last'.call = "write" /\ last'.arg \in Values
                /\ x \in WriteValue(a, last'.arg, mem, opened)
    BY <1>2, CallStep
  <2>2. TypeOK'
    <3>1. calls' \in 0 .. MaxCalls
      <4>1. calls < MaxCalls /\ calls \in 0 .. MaxCalls
        BY <1>2 DEF Next, Read, Write, Usable, IInv, TypeOK
      <4> QED BY <2>1, <4>1, ChannelAssumption
    <3>2. x.mem \in Seq(Byte) /\ x.opened \in BOOLEAN
          /\ x.out \in {"ok", "err", "panic"} /\ x.val \in Seq(Byte)
      BY <2>1 DEF OutcomeType
    <3>3. kind' \in Kinds /\ mock' \in Mocks
      BY <2>1 DEF IInv, TypeOK
    <3> QED BY <2>1, <3>1, <3>2, <3>3 DEF TypeOK
  <2>3. ASSUME last'.call = "write", last'.out = "ok", ~mock',
               Nontrivial(last'.addr) \/ last'.addr.slice.start = 0
        PROVE  Gives(last.addr, last.arg, mem)'
    <3>1. mem \in Seq(Byte) /\ opened \in BOOLEAN
      BY DEF IInv, TypeOK
    <3>2. last'.arg \in Seq(Byte) /\ x \in WriteValue(a, last'.arg, mem, opened)
      BY <2>1, <2>3, ChannelAssumption
    <3>3. x.out = "ok" /\ ~mock /\ (Nontrivial(a) \/ a.slice.start = 0)
      BY <2>1, <2>3
    <3>4. Gives(a, last'.arg, x.mem)
      BY <3>1, <3>2, <3>3, WriteValueGives
    <3>5. Gives(last'.addr, last'.arg, mem')
      BY <2>1, <3>4
    <3>6. Offset(last.addr)' = Offset(last'.addr)
      BY <2>1 DEF Offset
    <3> QED BY <3>5, <3>6 DEF Gives, InDevice, Held
  <2>4. LastWriteIsHeld'
    BY <2>1, <2>3 DEF LastWriteIsHeld
  <2> QED BY <2>2, <2>4 DEF IInv
<1> QED BY <1>1, <1>2

\* The device keeps what was last written to it as long as nothing else is
\* written: the strengthening of WrittenIsReadBack that the calls keep.
THEOREM InvHolds == Spec => []IInv
BY InitHolds, NextKeeps, PTL DEF Spec

\* Reading and writing any address of any device gives and leaves bytes, and
\* one of the outcomes a call has.
THEOREM TypeCorrect == Spec => []TypeOK
<1>1. IInv => TypeOK
  BY DEF IInv
<1> QED BY <1>1, InvHolds, PTL

\* In mock mode no call opens or changes the device, or reads anything but
\* zeros, whatever the address.
THEOREM MockStaysInert == Spec => MockIsInert
<1>1. IInv /\ [Next]_vars
        => [mock => /\ mem' = mem
                    /\ opened' = opened
                    /\ \A i \in DOMAIN last'.val : last'.val[i] = {}]_vars
  <2> SUFFICES ASSUME IInv, Next, mock
               PROVE  /\ mem' = mem /\ opened' = opened
                      /\ \A i \in DOMAIN last'.val : last'.val[i] = {}
    OBVIOUS
  <2>1. mem \in Seq(Byte) /\ opened \in BOOLEAN
    BY DEF IInv, TypeOK
  <2>2. PICK a \in Addresses, x \in OutcomeType :
          /\ x \in OutcomeType
          /\ mem' = x.mem /\ opened' = x.opened
          /\ last'.val = x.val
          /\ \/ last'.call = "read" /\ x \in ReadValue(a, mem, opened)
             \/ /\ last'.call = "write" /\ last'.arg \in Values
                /\ x \in WriteValue(a, last'.arg, mem, opened)
    BY CallStep
  <2>3. x.mem = mem /\ x.opened = opened /\ Zeros(x.val)
    <3>1. CASE x \in ReadValue(a, mem, opened)
      BY <2>1, <3>1, ReadValueGives
    <3>2. CASE last'.arg \in Values /\ x \in WriteValue(a, last'.arg, mem, opened)
      <4>1. last'.arg \in Seq(Byte)
        BY <3>2, ChannelAssumption
      <4> QED BY <2>1, <3>2, <4>1, WriteValueGives
    <3> QED BY <2>2, <3>1, <3>2
  <2>4. x.val \in Seq(Byte)
    BY <2>2 DEF OutcomeType
  <2>5. \A i \in DOMAIN x.val : x.val[i] = {}
    BY <2>3, <2>4 DEF Zeros
  <2> QED BY <2>2, <2>3, <2>5
<1> QED BY <1>1, InvHolds, PTL DEF Spec, MockIsInert

\* No call changes a byte of the device outside the bytes of the address it
\* writes to, whether it succeeds, fails halfway or panics.
THEOREM OthersAreKept == Spec => OtherRegistersKept
<1>1. IInv /\ [Next]_vars
        => [\A i \in DOMAIN mem :
              mem'[i] # mem[i] =>
                /\ last'.call = "write"
                /\ ~Unbounded(last'.addr)
                /\ i \in Place(last'.addr)]_vars
  <2> SUFFICES ASSUME IInv, Next, NEW i \in DOMAIN mem, mem'[i] # mem[i]
               PROVE  /\ last'.call = "write" /\ ~Unbounded(last'.addr)
                      /\ i \in Place(last'.addr)
    OBVIOUS
  <2>1. mem \in Seq(Byte) /\ opened \in BOOLEAN /\ i \in 1 .. Len(mem)
    BY DEF IInv, TypeOK
  <2>2. PICK a \in Addresses, x \in OutcomeType :
          /\ mem' = x.mem /\ last'.addr = a
          /\ \/ last'.call = "read" /\ x \in ReadValue(a, mem, opened)
             \/ /\ last'.call = "write" /\ last'.arg \in Values
                /\ x \in WriteValue(a, last'.arg, mem, opened)
    BY CallStep
  <2>3. ~(x \in ReadValue(a, mem, opened))
    BY <2>1, <2>2, ReadValueGives
  <2>4. last'.call = "write" /\ last'.arg \in Seq(Byte) /\ x \in WriteValue(a, last'.arg, mem, opened)
    BY <2>2, <2>3, ChannelAssumption
  <2>5. Keeps(mem, x.mem, a)
    BY <2>1, <2>4, WriteValueGives
  <2>6. ~Unbounded(a) /\ i \in Place(a)
    BY <2>1, <2>2, <2>5 DEF Keeps
  <2> QED BY <2>2, <2>4, <2>6
<1> QED BY <1>1, InvHolds, PTL DEF Spec, OtherRegistersKept

\* What was written to an address is what reading it gives, for every device,
\* value and slice that starts in its first byte.
THEOREM WrittenIsAlwaysReadBack == Spec => WrittenIsReadBack
<1>1. IInv /\ [Next]_vars
        => [/\ last.call = "write" /\ last.out = "ok" /\ ~mock
            /\ Nontrivial(last.addr) \/ last.addr.slice.start = 0
            /\ last'.call = "read" /\ last'.out = "ok" /\ last'.addr = last.addr
            => Row(last'.val) = Row(last.arg) \cap 0 .. BitCount(last.addr.slice) - 1]_vars
  <2> SUFFICES ASSUME IInv, Next,
                      last.call = "write", last.out = "ok", ~mock,
                      Nontrivial(last.addr) \/ last.addr.slice.start = 0,
                      last'.call = "read", last'.out = "ok", last'.addr = last.addr
               PROVE  Row(last'.val) = Row(last.arg) \cap 0 .. BitCount(last.addr.slice) - 1
    OBVIOUS
  <2>1. mem \in Seq(Byte) /\ opened \in BOOLEAN
    BY DEF IInv, TypeOK
  <2>2. PICK a \in Addresses, x \in OutcomeType :
          /\ last'.addr = a /\ last'.out = x.out /\ last'.val = x.val
          /\ x \in ReadValue(a, mem, opened)
    <3>1. PICK a \in Addresses, x \in OutcomeType :
            /\ last'.addr = a /\ last'.out = x.out /\ last'.val = x.val
            /\ \/ last'.call = "read" /\ x \in ReadValue(a, mem, opened)
               \/ last'.call = "write"
      BY CallStep
    <3>2. x \in ReadValue(a, mem, opened)
      BY <3>1
    <3> QED BY <3>1, <3>2
  <2>3. Gives(a, last.arg, mem)
    BY <2>2 DEF IInv, LastWriteIsHeld
  <2>4. ~Unbounded(a)
    BY <2>3 DEF Gives, InDevice
  <2>5. a.slice \in Ranges /\ Row(x.val) = Cut(Row(Held(a, mem)), a.slice)
    BY <2>1, <2>2, <2>4, ReadValueGives
  <2> QED BY <2>2, <2>3, <2>5 DEF Gives
<1> QED BY <1>1, InvHolds, PTL DEF Spec, WrittenIsReadBack

-----------------------------------------------------------------------------
(* Numbers and their bytes.                                                *)

\* The larger of zero and a number.
LEMMA MaxOfTwo ==
  ASSUME NEW d \in Int
  PROVE  Max({0, d}) = IF d >= 0 THEN d ELSE 0
<1> DEFINE e == IF d >= 0 THEN d ELSE 0
<1>1. e \in {0, d} /\ \A y \in {0, d} : e >= y
  OBVIOUS
<1>2. \A x \in {0, d} : (\A y \in {0, d} : x >= y) => x = e
  OBVIOUS
<1> HIDE DEF e
<1>3. Max({0, d}) = e
  BY <1>1, <1>2 DEF Max
<1> QED BY <1>3 DEF e

\* The least of three equal numbers.
LEMMA MinOfSame ==
  ASSUME NEW n \in Int
  PROVE  Min({n, n, n}) = n
<1>1. {n, n, n} = {n} /\ n =< n
  OBVIOUS
<1> QED BY <1>1 DEF Min

\* Numbers with a bound have a largest one.
LEMMA MaxOfBounded ==
  ASSUME NEW S, S \subseteq Nat, S # {}, NEW N \in Nat, \A x \in S : x <= N
  PROVE  Max(S) \in S /\ \A x \in S : x <= Max(S)
<1> DEFINE T == {N - x : x \in S}
<1>1. T \subseteq Nat /\ T # {}
  <2>1. PICK x \in S : TRUE
    OBVIOUS
  <2>2. N - x \in T
    OBVIOUS
  <2>3. \A y \in S : N - y \in Nat
    OBVIOUS
  <2>4. T \subseteq Nat
    BY <2>3
  <2> QED BY <2>2, <2>4
<1>2. PICK m \in T : \A k \in T : ~(k < m)
  <2> HIDE DEF T
  <2> QED BY <1>1, LeastNumber
<1>3. PICK e \in S : m = N - e
  BY <1>2
<1>4. \A x \in S : e >= x
  <2> TAKE x \in S
  <2>1. N - x \in T /\ ~(N - x < N - e)
    BY <1>2, <1>3
  <2>2. x \in Nat /\ e \in Nat
    OBVIOUS
  <2> QED BY <2>1, <2>2
<1>5. Max(S) \in S /\ \A x \in S : Max(S) >= x
  BY <1>4 DEF Max
<1>6. Max(S) \in Nat /\ \A x \in S : x \in Nat
  BY <1>5
<1> QED BY <1>5, <1>6

\* The set of numbers has a bound.
Bounded(number) == number \subseteq Nat /\ \E N \in Nat : \A k \in number : k < N

\* The bits of v are those of the number.
HasBits(v, number) ==
  \A i \in 1 .. Len(v) : \A b \in Bits : b \in v[i] <=> 8 * (Len(v) - i) + b \in number

\* The bytes of a number have all its bits, and are no more than it needs.
LEMMA BytesOfIs ==
  ASSUME NEW number, Bounded(number)
  PROVE  LET v == BytesOf(number)
         IN /\ v \in Seq(Byte) /\ Len(v) \in Nat \ {0} /\ HasBits(v, number)
            /\ \A k \in number : k \div 8 < Len(v)
            /\ \A w \in Nat \ {0} : (\A k \in number : k < 8 * w) => Len(v) <= w
<1> DEFINE S == {0} \cup {k \div 8 : k \in number}
           n == Max(S) + 1
           v == [i \in 1 .. n |-> {b \in Bits : 8 * (n - i) + b \in number}]
<1>1. S \subseteq Nat /\ S # {}
  BY DivMod DEF Bounded
<1>2. PICK N \in Nat : \A k \in number : k < N
  BY DEF Bounded
<1>3. \A x \in S : x <= N
  <2> TAKE x \in S
  <2>1. CASE x = 0
    BY <2>1
  <2>2. ASSUME NEW k \in number, x = k \div 8 PROVE x <= N
    <3>1. k \in Nat /\ k < N
      BY <1>2 DEF Bounded
    <3>2. k \div 8 \in Nat /\ k % 8 \in 0 .. 7 /\ k = 8 * (k \div 8) + (k % 8)
      BY <3>1, DivMod
    <3> QED BY <2>2, <3>1, <3>2
  <2> QED BY <2>1, <2>2
<1>4. Max(S) \in S /\ \A x \in S : x <= Max(S)
  <2> HIDE DEF S
  <2> QED BY <1>1, <1>3, MaxOfBounded
<1>5. n \in Nat \ {0} /\ Max(S) \in Nat
  BY <1>1, <1>4
<1>6. BytesOf(number) = v
  BY DEF BytesOf
<1>7. \A k \in number : k \div 8 < n
  <2> TAKE k \in number
  <2>1. k \div 8 \in S
    OBVIOUS
  <2>2. k \div 8 <= Max(S) /\ k \div 8 \in Nat
    BY <1>1, <1>4, <2>1
  <2> QED BY <1>5, <2>2
<1>8. ASSUME NEW w \in Nat \ {0}, \A k \in number : k < 8 * w PROVE n <= w
  <2>1. CASE Max(S) = 0
    BY <2>1
  <2>2. ASSUME NEW k \in number, Max(S) = k \div 8 PROVE n <= w
    <3>1. k \in Nat /\ k < 8 * w
      BY <1>8 DEF Bounded
    <3>2. k \div 8 \in Nat /\ k % 8 \in 0 .. 7 /\ k = 8 * (k \div 8) + (k % 8)
      BY <3>1, DivMod
    <3>3. k \div 8 < w
      BY <3>1, <3>2
    <3> QED BY <2>2, <3>2, <3>3
  <2> QED BY <1>4, <2>1, <2>2
<1> HIDE DEF n
<1>9. v \in Seq(Byte) /\ Len(v) = n
  BY <1>5 DEF Byte
<1>10. HasBits(v, number)
  BY <1>9 DEF HasBits
<1> HIDE DEF v
<1> QED BY <1>5, <1>6, <1>7, <1>8, <1>9, <1>10

\* Zeros in front change no bit.
LEMMA PadFrontIs ==
  ASSUME NEW number, Bounded(number), NEW w \in Nat, Len(BytesOf(number)) <= w
  PROVE  LET p == PadFront(BytesOf(number), w)
         IN p \in Seq(Byte) /\ Len(p) = w /\ HasBits(p, number)
<1> DEFINE v == BytesOf(number)
           n == Len(v)
           d == w - n
           z == [i \in 1 .. d |-> {}]
           p == z \o v
<1>1. /\ v \in Seq(Byte) /\ n \in Nat \ {0} /\ HasBits(v, number) /\ n <= w
      /\ \A k \in number : k \div 8 < n
  BY BytesOfIs
<1> HIDE DEF v
<1>2. d \in Nat /\ d + n = w
  BY <1>1
<1>3. PadFront(v, w) = p
  <2>1. Max({0, d}) = d
    <3> HIDE DEF d
    <3>1. d \in Int /\ d >= 0
      BY <1>2
    <3> QED BY <3>1, MaxOfTwo
  <2>2. PadFront(v, w) = [i \in 1 .. Max({0, d}) |-> {}] \o v
    BY DEF PadFront
  <2> HIDE DEF d
  <2> QED BY <2>1, <2>2
<1>4. z \in Seq(Byte) /\ Len(z) = d
  <2> HIDE DEF d
  <2>1. {} \in Byte
    BY DEF Byte
  <2> QED BY <1>2, <2>1
<1>5. p \in Seq(Byte) /\ Len(p) = w
  <2> HIDE DEF z, d
  <2> QED BY <1>1, <1>2, <1>4
<1>6. ASSUME NEW i \in 1 .. w, NEW b \in Bits PROVE b \in p[i] <=> 8 * (w - i) + b \in number
  <2>1. CASE i <= d
    <3>1. p[i] = {}
      BY <1>1, <1>2, <2>1
    <3>2. (8 * (w - i) + b) \div 8 = w - i /\ w - i >= n
      BY <1>1, <1>2, <2>1 DEF Bits
    <3>3. 8 * (w - i) + b \notin number
      <4> SUFFICES ASSUME 8 * (w - i) + b \in number PROVE FALSE
        OBVIOUS
      <4>1. w - i < n
        BY <1>1, <3>2
      <4> QED BY <1>1, <3>2, <4>1
    <3> QED BY <3>1, <3>3
  <2>2. CASE i > d
    <3>1. i - d \in 1 .. n /\ n - (i - d) = w - i
      BY <1>1, <1>2, <2>2
    <3>2. p[i] = v[i - d]
      <4> HIDE DEF d
      <4> QED BY <1>1, <1>2, <1>4, <2>2
    <3> HIDE DEF p, d, n
    <3>3. b \in v[i - d] <=> 8 * (n - (i - d)) + b \in number
      BY <1>1, <3>1 DEF HasBits, n
    <3> QED BY <3>1, <3>2, <3>3
  <2> QED BY <1>2, <2>1, <2>2
<1>7. HasBits(p, number)
  <2> HIDE DEF p
  <2> QED BY <1>5, <1>6 DEF HasBits
<1> HIDE DEF p
<1> QED BY <1>3, <1>5, <1>7 DEF v

-----------------------------------------------------------------------------
(* Texts and their bits.                                                   *)

\* A digit as it stands in the number, without its z, and as it stands in the
\* mask.
DigitsOf(t)  == [i \in DOMAIN t |-> t[i] \ Z]
MaskDigits(t) == [i \in DOMAIN t |-> IF t[i] = Z THEN {} ELSE 0 .. 3]

\* The texts of the files.
TextType == Seq(Nibble \cup {Z})

\* The digits of a text.
LEMMA DigitsTyped ==
  ASSUME NEW t \in TextType
  PROVE  /\ DigitsOf(t) \in Seq(Nibble) /\ Len(DigitsOf(t)) = Len(t)
         /\ MaskDigits(t) \in Seq(Nibble) /\ Len(MaskDigits(t)) = Len(t)
         /\ ~HasMask(t) => t \in Seq(Nibble) /\ DigitsOf(t) = t
<1> DEFINE n == Len(t)
<1>1. n \in Nat /\ DOMAIN t = 1 .. n /\ \A i \in 1 .. n : t[i] \in Nibble \/ t[i] = Z
  BY DEF TextType
<1>2. \A i \in 1 .. n : t[i] \ Z \in Nibble
  BY <1>1 DEF Nibble, Z
<1>3. \A x \in Nibble : x \ Z = x
  BY DEF Nibble, Z
<1>4. {} \in Nibble /\ 0 .. 3 \in Nibble
  BY DEF Nibble
<1> HIDE DEF n
<1>5. DigitsOf(t) \in Seq(Nibble) /\ Len(DigitsOf(t)) = n
  BY <1>1, <1>2 DEF DigitsOf
<1>6. MaskDigits(t) \in Seq(Nibble) /\ Len(MaskDigits(t)) = n
  <2> DEFINE y == [i \in 1 .. n |-> IF t[i] = Z THEN {} ELSE 0 .. 3]
  <2>1. \A i \in 1 .. n : y[i] \in Nibble
    BY <1>4
  <2>2. y = [i \in 1 .. n |-> y[i]]
    OBVIOUS
  <2>3. MaskDigits(t) = y
    BY <1>1 DEF MaskDigits
  <2> HIDE DEF y
  <2> QED BY <1>1, <2>1, <2>2, <2>3
<1>7. ASSUME ~HasMask(t) PROVE t \in Seq(Nibble) /\ DigitsOf(t) = t
  <2>1. \A i \in 1 .. n : t[i] \in Nibble
    BY <1>1, <1>7 DEF HasMask
  <2>2. t = [i \in 1 .. n |-> t[i]]
    BY <1>1 DEF TextType
  <2>3. t \in Seq(Nibble)
    BY <1>1, <2>1, <2>2
  <2>4. DigitsOf(t) = [i \in 1 .. n |-> t[i]]
    BY <1>1, <1>3, <2>1 DEF DigitsOf
  <2> QED BY <2>2, <2>3, <2>4
<1> QED BY <1>5, <1>6, <1>7 DEF n

\* Bit b of digit i is bit 4 (Len(t) - i) + b of the number.
LEMMA NumberBits ==
  ASSUME NEW t \in Seq(Nibble)
  PROVE  /\ Bounded(NumberOf(t))
         /\ \A k \in NumberOf(t) : k < 4 * Len(t)
         /\ \A i \in 1 .. Len(t) : \A b \in 0 .. 3 :
              4 * (Len(t) - i) + b \in NumberOf(t) <=> b \in t[i]
<1> DEFINE n == Len(t)
<1>1. n \in Nat /\ DOMAIN t = 1 .. n /\ \A i \in 1 .. n : t[i] \subseteq 0 .. 3
  BY DEF Nibble
<1> HIDE DEF n
<1>2. \A k : k \in NumberOf(t) <=> \E i \in 1 .. n : \E b \in t[i] : k = 4 * (n - i) + b
  BY <1>1 DEF NumberOf, n
<1>3. \A k \in NumberOf(t) : k \in Nat /\ k < 4 * n
  <2> TAKE k \in NumberOf(t)
  <2>1. PICK i \in 1 .. n : \E b \in t[i] : k = 4 * (n - i) + b
    BY <1>2
  <2>2. PICK b \in t[i] : k = 4 * (n - i) + b
    BY <2>1
  <2>3. b \in 0 .. 3
    BY <1>1
  <2> QED BY <1>1, <2>2, <2>3
<1>4. ASSUME NEW i \in 1 .. n, NEW b \in 0 .. 3
      PROVE  4 * (n - i) + b \in NumberOf(t) <=> b \in t[i]
  <2>1. b \in t[i] => 4 * (n - i) + b \in NumberOf(t)
    BY <1>2
  <2>2. ASSUME 4 * (n - i) + b \in NumberOf(t) PROVE b \in t[i]
    <3>1. PICK j \in 1 .. n : \E c \in t[j] : 4 * (n - i) + b = 4 * (n - j) + c
      BY <1>2, <2>2
    <3>2. PICK c \in t[j] : 4 * (n - i) + b = 4 * (n - j) + c
      BY <3>1
    <3>3. c \in 0 .. 3
      BY <1>1
    <3>4. c = b /\ j = i
      BY <1>1, <3>2, <3>3
    <3> QED BY <3>4
  <2> QED BY <2>1, <2>2
<1>5. 4 * n \in Nat
  BY <1>1
<1>6. Bounded(NumberOf(t))
  BY <1>3, <1>5 DEF Bounded
<1> QED BY <1>3, <1>4, <1>6 DEF n

\* The mask has the bits that the text names.
LEMMA MaskIsNamed ==
  ASSUME NEW t \in TextType
  PROVE  NumberOf(MaskDigits(t)) = Named(t)
<1> DEFINE n == Len(t)
           y == MaskDigits(t)
<1>1. Len(y) = n /\ DOMAIN y = DOMAIN t
  BY DigitsTyped DEF MaskDigits
<1>2. \A i \in DOMAIN t : y[i] = IF t[i] = Z THEN {} ELSE 0 .. 3
  BY DEF MaskDigits
<1> HIDE DEF n, y
<1>3. ASSUME NEW k \in NumberOf(y) PROVE k \in Named(t)
  <2>1. PICK i \in DOMAIN t : k \in {4 * (n - i) + b : b \in y[i]}
    BY <1>1, <1>3 DEF NumberOf
  <2>2. t[i] # Z /\ k \in {4 * (n - i) + b : b \in 0 .. 3}
    BY <1>2, <2>1
  <2> QED BY <2>2 DEF Named, n
<1>4. ASSUME NEW k \in Named(t) PROVE k \in NumberOf(y)
  <2>1. PICK i \in DOMAIN t : t[i] # Z /\ k \in {4 * (n - i) + b : b \in 0 .. 3}
    BY <1>4 DEF Named, n
  <2>2. k \in {4 * (n - i) + b : b \in y[i]}
    BY <1>2, <2>1
  <2> QED BY <1>1, <2>2 DEF NumberOf
<1> QED BY <1>3, <1>4 DEF y

\* The text that is read has the bits of the bytes.
LEMMA HexBits ==
  ASSUME NEW v \in Seq(Byte)
  PROVE  /\ ToHex(v) \in Seq(Nibble) /\ Len(ToHex(v)) = 2 * Len(v)
         /\ HasBits(v, NumberOf(ToHex(v)))
<1> DEFINE n == Len(v)
           h == ToHex(v)
           d(i) == IF i % 2 = 1 THEN ShiftRight(v[(i + 1) \div 2], 4) ELSE v[i \div 2] \cap 0 .. 3
<1>1. n \in Nat /\ 2 * n \in Nat
  OBVIOUS
<1>2. \A i \in 1 .. n : v[i] \subseteq 0 .. 7
  BY DEF Byte, Bits
<1>3. h = [i \in 1 .. 2 * n |-> d(i)]
  BY DEF ToHex
<1>4. \A i \in 1 .. n : ShiftRight(v[i], 4) \in Nibble /\ v[i] \cap 0 .. 3 \in Nibble
  <2> TAKE i \in 1 .. n
  <2>1. ShiftRight(v[i], 4) \subseteq 0 .. 3
    <3> SUFFICES ASSUME NEW c \in ShiftRight(v[i], 4) PROVE c \in 0 .. 3
      OBVIOUS
    <3>1. PICK b \in v[i] : c = b - 4 /\ c \in 0 .. 7
      BY DEF ShiftRight, Bits
    <3>2. b \in 0 .. 7
      BY <1>2
    <3> QED BY <3>1, <3>2
  <2> QED BY <2>1 DEF Nibble
<1>5. \A i \in 1 .. 2 * n : d(i) \in Nibble
  <2> TAKE i \in 1 .. 2 * n
  <2>1. CASE i % 2 = 1
    <3>1. (i + 1) \div 2 \in 1 .. n
      BY <1>1, <2>1
    <3>2. ShiftRight(v[(i + 1) \div 2], 4) \in Nibble
      BY <1>4, <3>1
    <3> QED BY <2>1, <3>2
  <2>2. CASE i % 2 # 1
    <3>1. i \div 2 \in 1 .. n
      BY <1>1, <2>2
    <3>2. v[i \div 2] \cap 0 .. 3 \in Nibble
      BY <1>4, <3>1
    <3> QED BY <2>2, <3>2
  <2> QED BY <2>1, <2>2
<1>6. h \in Seq(Nibble) /\ Len(h) = 2 * n
  <2> HIDE DEF h, d, n
  <2> QED BY <1>1, <1>3, <1>5
<1>7. ASSUME NEW i \in 1 .. n
      PROVE  h[2 * i - 1] = ShiftRight(v[i], 4) /\ h[2 * i] = v[i] \cap 0 .. 3
  <2>1. /\ 2 * i - 1 \in 1 .. 2 * n /\ (2 * i - 1) % 2 = 1 /\ ((2 * i - 1) + 1) \div 2 = i
        /\ 2 * i \in 1 .. 2 * n /\ (2 * i) % 2 = 0 /\ (2 * i) \div 2 = i
    BY <1>1
  <2> DEFINE j == 2 * i - 1
             l == 2 * i
  <2>2. d(j) = ShiftRight(v[i], 4)
    <3>1. j % 2 = 1 /\ (j + 1) \div 2 = i
      BY <2>1
    <3> HIDE DEF j
    <3> QED BY <3>1
  <2>3. d(l) = v[i] \cap 0 .. 3
    <3>1. l % 2 # 1 /\ l \div 2 = i
      BY <2>1
    <3> HIDE DEF l
    <3> QED BY <3>1
  <2>4. h[j] = d(j) /\ h[l] = d(l)
    <3>1. j \in 1 .. 2 * n /\ l \in 1 .. 2 * n
      BY <2>1
    <3> HIDE DEF d, h, n, j, l
    <3> QED BY <1>3, <3>1
  <2> QED BY <2>2, <2>3, <2>4
<1> HIDE DEF h
<1>8. ASSUME NEW i \in 1 .. n, NEW b \in Bits
      PROVE  b \in v[i] <=> 8 * (n - i) + b \in NumberOf(h)
  <2>1. b \in 0 .. 7
    BY DEF Bits
  <2>2. \A j \in 1 .. 2 * n : \A c \in 0 .. 3 : 4 * (2 * n - j) + c \in NumberOf(h) <=> c \in h[j]
    BY <1>6, NumberBits
  <2>3. CASE b \in 0 .. 3
    <3>1. 2 * i \in 1 .. 2 * n /\ 4 * (2 * n - 2 * i) + b = 8 * (n - i) + b
      BY <1>1, <2>3
    <3>2. 4 * (2 * n - 2 * i) + b \in NumberOf(h) <=> b \in h[2 * i]
      BY <2>2, <2>3, <3>1
    <3>3. b \in h[2 * i] <=> b \in v[i]
      BY <1>7, <2>3
    <3> QED BY <3>1, <3>2, <3>3
  <2>4. CASE b \in 4 .. 7
    <3>1. /\ 2 * i - 1 \in 1 .. 2 * n /\ b - 4 \in 0 .. 3
          /\ 4 * (2 * n - (2 * i - 1)) + (b - 4) = 8 * (n - i) + b
      BY <1>1, <2>4
    <3>2. 4 * (2 * n - (2 * i - 1)) + (b - 4) \in NumberOf(h) <=> b - 4 \in h[2 * i - 1]
      BY <2>2, <3>1
    <3>3. b - 4 \in ShiftRight(v[i], 4) <=> b \in v[i]
      <4>1. \A c \in v[i] : c \in 0 .. 7
        BY <1>2
      <4>2. \A c \in v[i] : c - 4 = b - 4 => c = b
        BY <2>4, <4>1
      <4>3. b - 4 \in Bits
        BY <3>1 DEF Bits
      <4> QED BY <4>2, <4>3 DEF ShiftRight
    <3> QED BY <1>7, <3>1, <3>2, <3>3
  <2> QED BY <2>1, <2>3, <2>4
<1>9. HasBits(v, NumberOf(h))
  BY <1>8 DEF HasBits
<1> QED BY <1>6, <1>9 DEF h

-----------------------------------------------------------------------------
(* Calls on whole files.                                                   *)

\* A part of the state a file is about.
LEMMA WholeFileIs ==
  ASSUME NEW f \in Files, WholeFile(f), WidthOf(f) # NoWidth
  PROVE  /\ f.addr \in Addresses /\ ~Unbounded(f.addr) /\ ~Nontrivial(f.addr)
         /\ WidthOf(f) \in Nat /\ Offset(f.addr) \in Nat
         /\ BytesTo(f.addr.slice) = WidthOf(f)
         /\ f.addr.slice.start = 0 /\ f.addr.slice.end = 8 * WidthOf(f)
<1> DEFINE a == f.addr
           w == WidthOf(f)
<1>1. f.what \in {"register", "function"} /\ a \in Addresses /\ f.width \in {NoWidth} \cup Nat
  BY FilesAssumption DEF FileType
<1>2. ~Unbounded(a) /\ a.slice.start = 0 /\ a.slice.end = 8 * w
  BY DEF WholeFile
<1>3. a.slice \in BitSlices /\ Offset(a) \in Nat
  BY <1>1, <1>2, AddressTyped
<1>4. a.slice.end \in Nat
  BY <1>3 DEF BitSlices
<1>5. w \in Nat
  <2>1. CASE f.what = "register"
    BY <1>1, <2>1 DEF WidthOf
  <2>2. CASE f.what # "register"
    <3>1. w = BytesTo(a.slice)
      BY <1>2, <2>2 DEF WidthOf
    <3> QED BY <1>4, <3>1, BytesToHold
  <2> QED BY <2>1, <2>2
<1> HIDE DEF w
<1>6. 8 * w \in Nat /\ (8 * w) % 8 = 0 /\ (8 * w) \div 8 = w /\ 0 % 8 = 0
  BY <1>5
<1>7. BytesTo(a.slice) = w
  BY <1>2, <1>6 DEF BytesTo
<1>8. ~Nontrivial(a)
  BY <1>2, <1>6 DEF Nontrivial
<1> QED BY <1>1, <1>2, <1>3, <1>5, <1>7, <1>8 DEF w

\* Vectors of bytes are equal if their bits are.
LEMMA SameBits ==
  ASSUME NEW x \in Seq(Byte), NEW y \in Seq(Byte), NEW number, Len(x) = Len(y),
         HasBits(x, number), HasBits(y, number)
  PROVE  x = y
<1>1. ASSUME NEW i \in 1 .. Len(x) PROVE x[i] = y[i]
  <2>1. x[i] \subseteq Bits /\ y[i] \subseteq Bits
    BY DEF Byte
  <2>2. \A b \in Bits : b \in x[i] <=> b \in y[i]
    BY DEF HasBits
  <2> QED BY <2>1, <2>2
<1> QED BY <1>1

\* A successful read of a whole file gives the bytes of the device, or zeros.
LEMMA WholeRead ==
  ASSUME NEW f \in Files, WholeFile(f), WidthOf(f) # NoWidth,
         NEW m \in Seq(Byte), NEW o \in BOOLEAN,
         NEW x \in ReadValue(f.addr, m, o), x.out = "ok"
  PROVE  /\ x.val \in Seq(Byte) /\ x.opened \in BOOLEAN /\ x.mem = m
         /\ Len(x.val) = WidthOf(f)
         /\ ~mock => /\ Offsets(f.addr) /\ InDevice(f.addr, m)
                     /\ x.val = Held(f.addr, m)
<1> DEFINE a == f.addr
           w == WidthOf(f)
           h == Held(a, m)
<1>1. /\ a \in Addresses /\ ~Unbounded(a) /\ w \in Nat
      /\ BytesTo(a.slice) = w /\ a.slice.start = 0 /\ a.slice.end = 8 * w
  BY WholeFileIs
<1> HIDE DEF a, w
<1>2. /\ x \in OutcomeType /\ x.mem = m
      /\ a.slice \in Ranges /\ Len(x.val) = ByteCount(a.slice)
      /\ ~mock => /\ Offsets(a) /\ InDevice(a, m)
                  /\ Row(x.val) = Cut(Row(h), a.slice)
  BY <1>1, ReadValueGives DEF a
<1>3. ~mock => h \in Seq(Byte) /\ Len(h) = w
  BY <1>1, <1>2, HeldIs
<1>4. x.val \in Seq(Byte) /\ x.opened \in BOOLEAN
  BY <1>2 DEF OutcomeType
<1> HIDE DEF h
<1>5. ByteCount(a.slice) = w
  <2>1. BitCount(a.slice) = 8 * w
    BY <1>1 DEF BitCount
  <2>2. (8 * w + 7) \div 8 = w
    BY <1>1
  <2> QED BY <2>1, <2>2 DEF ByteCount
<1>6. ASSUME ~mock PROVE Row(h) = Cut(Row(h), a.slice)
  <2>1. Inside(a.slice) = 0 .. 8 * w - 1
    BY <1>1 DEF Inside
  <2>2. Row(h) \subseteq 0 .. 8 * w - 1
    BY <1>3, <1>6 DEF Row
  <2>3. \A k \in Row(h) : k \in Nat /\ k - a.slice.start = k
    BY <1>1, <2>2
  <2>4. Row(h) \cap Inside(a.slice) = Row(h)
    BY <2>1, <2>2
  <2> QED BY <2>3, <2>4 DEF Cut
<1>7. ASSUME ~mock, NEW i \in 1 .. w PROVE x.val[i] = h[i]
  <2>1. x.val[i] \subseteq Bits /\ h[i] \subseteq Bits
    BY <1>2, <1>3, <1>4, <1>5, <1>7 DEF Byte
  <2>2. \A b \in Bits : 8 * (i - 1) + b \in Row(h) <=> b \in h[i]
    BY <1>3, <1>7, RowAt
  <2>3. \A b \in Bits : 8 * (i - 1) + b \in Row(x.val) <=> b \in x.val[i]
    BY <1>2, <1>4, <1>5, RowAt
  <2> QED BY <1>2, <1>6, <1>7, <2>1, <2>2, <2>3
<1>8. ~mock => x.val = h
  BY <1>2, <1>3, <1>4, <1>5, <1>7
<1> QED BY <1>2, <1>4, <1>5, <1>8 DEF a, w, h

\* What is written to a whole file goes to the device as it is.
LEMMA WholeWrite ==
  ASSUME NEW f \in Files, WholeFile(f), WidthOf(f) # NoWidth,
         NEW m \in Seq(Byte), NEW o \in BOOLEAN,
         NEW v \in Seq(Byte), Len(v) = WidthOf(f),
         NEW y \in WriteValue(f.addr, v, m, o)
  PROVE  y \in Put(f.addr, v, m, o)
<1> DEFINE a == f.addr
           w == WidthOf(f)
<1>1. /\ ~Nontrivial(a) /\ w \in Nat
      /\ a.slice.start = 0 /\ a.slice.end = 8 * w
  BY WholeFileIs
<1> HIDE DEF w
<1>2. Len(v) = w
  BY DEF w
<1>3. /\ a.slice.end \div 8 = w /\ a.slice.start \div 8 + 1 = 1
      /\ ~(w > Len(v)) /\ ~(a.slice.start > a.slice.end)
  BY <1>1, <1>2
<1>4. SubSeq(v, 1, w) = v
  BY <1>2, SubSeqFull
<1> HIDE DEF a
<1>5. y \in Whole(a, v, m, o)
  BY <1>1 DEF WriteValue, a
<1> QED BY <1>3, <1>4, <1>5 DEF Whole, a

\* Where bit k of the number of a whole file is.
LEMMA BitAtIs ==
  ASSUME NEW f \in Files, WholeFile(f), WidthOf(f) # NoWidth, NEW k \in 0 .. 8 * WidthOf(f) - 1
  PROVE  \E j \in 1 .. WidthOf(f), c \in Bits :
           /\ k = 8 * (WidthOf(f) - j) + c
           /\ \A m \in Seq(Byte) : Offset(f.addr) + j <= Len(m) =>
                (BitAt(f, k) \in Row(m) <=> c \in m[Offset(f.addr) + j])
<1> DEFINE w == WidthOf(f)
           b == Offset(f.addr)
           j == w - (k \div 8)
           c == k % 8
<1>1. w \in Nat /\ b \in Nat
  BY WholeFileIs
<1>2. BitAt(f, k) = 8 * (b + w - 1 - (k \div 8)) + (k % 8)
  BY DEF BitAt
<1> HIDE DEF w, b
<1>3. k \in Nat /\ k < 8 * w
  BY <1>1 DEF w
<1>4. k \div 8 \in Nat /\ c \in 0 .. 7 /\ k = 8 * (k \div 8) + c
  BY <1>3, DivMod
<1>5. j \in 1 .. w /\ c \in Bits /\ k = 8 * (w - j) + c
  BY <1>1, <1>3, <1>4 DEF Bits
<1>6. BitAt(f, k) = 8 * ((b + j) - 1) + c
  BY <1>1, <1>2, <1>4
<1> HIDE DEF j, c
<1>7. \A m \in Seq(Byte) : b + j <= Len(m) => (BitAt(f, k) \in Row(m) <=> c \in m[b + j])
  <2> TAKE m \in Seq(Byte)
  <2> SUFFICES ASSUME b + j <= Len(m) PROVE BitAt(f, k) \in Row(m) <=> c \in m[b + j]
    OBVIOUS
  <2>1. b + j \in 1 .. Len(m)
    BY <1>1, <1>5
  <2> QED BY <1>5, <1>6, <2>1, RowAt
<1> QED BY <1>5, <1>7 DEF w, b

-----------------------------------------------------------------------------
(* Writing a number.                                                       *)

\* A whole file that is written without a mask holds the number of the text.
LEMMA NumberWritten ==
  ASSUME NEW f \in Files, WholeFile(f), NEW t \in TextType, ~HasMask(t), ~mock,
         NEW m \in Seq(Byte), NEW o \in BOOLEAN, m = mem, o = opened,
         NEW y \in WriteText(f, t), y.out = "ok",
         NEW k \in 0 .. 8 * WidthOf(f) - 1
  PROVE  BitAt(f, k) \in Row(y.mem) <=> k \in NumberOf(t)
<1> DEFINE w == WidthOf(f)
           b == Offset(f.addr)
           v == PadFront(ValueOf(t), w)
<1>1. w # NoWidth /\ ~(Len(ValueOf(t)) > w) /\ y \in WriteValue(f.addr, v, m, o)
  <2>1. \A out : Early(out) = {Outcome(out, <<>>, m, o)} /\ Outcome(out, <<>>, m, o).out = out
    BY DEF Early, Outcome
  <2>2. CASE w = NoWidth
    BY <2>1, <2>2 DEF WriteText
  <2>3. CASE w # NoWidth /\ (t = <<>> \/ Len(ValueOf(t)) > w)
    BY <2>1, <2>3 DEF WriteText
  <2>4. CASE w # NoWidth /\ ~(t = <<>> \/ Len(ValueOf(t)) > w)
    BY <2>4 DEF WriteText
  <2> QED BY <2>2, <2>3, <2>4
<1>2. w \in Nat /\ b \in Nat /\ f.addr \in Addresses
  BY <1>1, WholeFileIs
<1>3. t \in Seq(Nibble) /\ DigitsOf(t) = t
  BY DigitsTyped
<1>4. ValueOf(t) = BytesOf(NumberOf(t)) /\ Bounded(NumberOf(t))
  BY <1>3, NumberBits DEF ValueOf, DigitsOf
<1>5. Len(BytesOf(NumberOf(t))) \in Nat
  BY <1>4, BytesOfIs
<1>6. v \in Seq(Byte) /\ Len(v) = w /\ HasBits(v, NumberOf(t))
  BY <1>1, <1>2, <1>4, <1>5, PadFrontIs
<1> HIDE DEF v
<1>7. y \in Put(f.addr, v, m, o)
  BY <1>1, <1>6, WholeWrite
<1>8. HasRoom(f.addr, v, m) /\ y.mem = Overwritten(m, b, v)
  BY <1>2, <1>6, <1>7, PutGives
<1>9. /\ y.mem \in Seq(Byte) /\ Len(y.mem) = Len(m)
      /\ \A i \in 1 .. Len(m) : y.mem[i] = IF i - b \in 1 .. Len(v) THEN v[i - b] ELSE m[i]
  BY <1>2, <1>6, <1>8, OverwrittenIs
<1>10. PICK j \in 1 .. w, c \in Bits :
         /\ k = 8 * (w - j) + c
         /\ \A n \in Seq(Byte) : b + j <= Len(n) => (BitAt(f, k) \in Row(n) <=> c \in n[b + j])
  BY <1>1, BitAtIs
<1>11. b + w <= Len(m)
  BY <1>2, <1>6, <1>8 DEF HasRoom
<1> HIDE DEF w, b
<1>12. b + j \in 1 .. Len(m) /\ b + j <= Len(m) /\ (b + j) - b = j
  BY <1>2, <1>11
<1>13. y.mem[b + j] = v[j]
  BY <1>6, <1>9, <1>12
<1>14. c \in v[j] <=> k \in NumberOf(t)
  BY <1>6, <1>10 DEF HasBits
<1> QED BY <1>9, <1>10, <1>12, <1>13, <1>14

-----------------------------------------------------------------------------
(* Writing under a mask.                                                   *)

\* The bytes that are written under a mask: where the mask has a bit it is the
\* one of the value, elsewhere the one that was read.
LEMMA MaskedIs ==
  ASSUME NEW w \in Nat, NEW mask \in Seq(Byte), NEW v \in Seq(Byte), NEW cur \in Seq(Byte),
         Len(mask) = w, Len(v) = w, Len(cur) = w
  PROVE  /\ Masked(mask, v, cur) \in Seq(Byte) /\ Len(Masked(mask, v, cur)) = w
         /\ \A i \in 1 .. w : \A b \in Bits :
              b \in Masked(mask, v, cur)[i] <=> IF b \in mask[i] THEN b \in v[i] ELSE b \in cur[i]
<1> DEFINE z == [i \in 1 .. w |-> MaskedWrite(v[i], cur[i], mask[i])]
<1>1. Masked(mask, v, cur) = z
  BY MinOfSame DEF Masked
<1>2. \A i \in 1 .. w : MaskedWrite(v[i], cur[i], mask[i]) \in Byte
  BY DEF MaskedWrite, Byte
<1>3. z \in Seq(Byte) /\ Len(z) = w
  BY <1>2
<1>4. \A i \in 1 .. w : z[i] = MaskedWrite(v[i], cur[i], mask[i])
  OBVIOUS
<1> HIDE DEF z
<1>5. \A i \in 1 .. w : \A b \in Bits :
        b \in z[i] <=> IF b \in mask[i] THEN b \in v[i] ELSE b \in cur[i]
  BY <1>4 DEF MaskedWrite
<1> QED BY <1>1, <1>3, <1>5

\* A masked write to a whole file: bit k of the device stays if the text does
\* not name it; it is that of the text if it does and the write succeeds.
LEMMA MaskWritten ==
  ASSUME NEW f \in Files, WholeFile(f), NEW t \in TextType, HasMask(t),
         Len(t) <= 2 * WidthOf(f), mem \in Seq(Byte), opened \in BOOLEAN,
         NEW y \in WriteText(f, t),
         NEW k \in 0 .. 8 * WidthOf(f) - 1
  PROVE  /\ k \notin Named(t) => (BitAt(f, k) \in Row(y.mem) <=> BitAt(f, k) \in Row(mem))
         /\ y.out = "ok" /\ ~mock /\ k \in Named(t) =>
              (BitAt(f, k) \in Row(y.mem) <=> k \in NumberOf(DigitsOf(t)))
<1> DEFINE w == WidthOf(f)
           b == Offset(f.addr)
           v == PadFront(ValueOf(t), w)
           mask == PadFront(MaskOf(t), w)
<1>1. CASE w = NoWidth \/ t = <<>> \/ Len(ValueOf(t)) > w
  <2>1. \A out : Early(out) = {Outcome(out, <<>>, mem, opened)}
    BY DEF Early
  <2>2. \A out : Outcome(out, <<>>, mem, opened).mem = mem /\ Outcome(out, <<>>, mem, opened).out = out
    BY DEF Outcome
  <2>3. CASE w = NoWidth
    BY <2>1, <2>2, <2>3 DEF WriteText
  <2>4. CASE w # NoWidth
    BY <1>1, <2>1, <2>2, <2>4 DEF WriteText
  <2> QED BY <2>3, <2>4
<1>2. CASE ~(w = NoWidth \/ t = <<>> \/ Len(ValueOf(t)) > w)
  <2>1. y \in WriteMasked(f, t)
    BY <1>2 DEF WriteText
  <2>2. /\ f.addr \in Addresses /\ ~Unbounded(f.addr)
        /\ w \in Nat /\ b \in Nat /\ BytesTo(f.addr.slice) = w
    BY <1>2, WholeFileIs
  <2>3. PICK x \in ReadValue(f.addr, mem, opened) :
          y \in IF x.out = "ok"
                  THEN WriteValue(f.addr, Masked(mask, v, x.val), x.mem, x.opened)
                  ELSE {x}
    BY <2>1 DEF WriteMasked
  <2>4. CASE x.out # "ok"
    <3>1. y = x /\ x.mem = mem
      BY <2>2, <2>3, <2>4, ReadValueGives
    <3> QED BY <2>4, <3>1
  <2>5. CASE x.out = "ok"
    <3> DEFINE z == Masked(mask, v, x.val)
    <3>1. y \in WriteValue(f.addr, z, x.mem, x.opened)
      BY <2>3, <2>5
    <3>2. /\ x.val \in Seq(Byte) /\ x.opened \in BOOLEAN /\ x.mem = mem /\ Len(x.val) = w
          /\ ~mock => InDevice(f.addr, mem) /\ x.val = Held(f.addr, mem)
      BY <1>2, <2>5, WholeRead
    <3>3. v \in Seq(Byte) /\ Len(v) = w /\ HasBits(v, NumberOf(DigitsOf(t)))
      <4>1. ValueOf(t) = BytesOf(NumberOf(DigitsOf(t))) /\ Bounded(NumberOf(DigitsOf(t)))
        BY DigitsTyped, NumberBits DEF ValueOf, DigitsOf
      <4>2. Len(BytesOf(NumberOf(DigitsOf(t)))) \in Nat
        BY <4>1, BytesOfIs
      <4> QED BY <1>2, <2>2, <4>1, <4>2, PadFrontIs
    <3>4. mask \in Seq(Byte) /\ Len(mask) = w /\ HasBits(mask, Named(t))
      <4>1. MaskOf(t) = BytesOf(Named(t)) /\ Bounded(Named(t))
        <5>1. MaskOf(t) = BytesOf(NumberOf(MaskDigits(t)))
          BY DEF MaskOf, MaskDigits
        <5> QED BY <5>1, MaskIsNamed, DigitsTyped, NumberBits
      <4>2. w \in Nat \ {0}
        <5>1. Len(t) \in Nat /\ Len(t) # 0
          BY <1>2 DEF TextType
        <5> QED BY <2>2, <5>1
      <4>3. \A n \in Named(t) : n < 8 * w
        <5> TAKE n \in Named(t)
        <5>1. n < 4 * Len(t)
          BY MaskIsNamed, DigitsTyped, NumberBits
        <5>2. n \in Nat /\ Len(t) \in Nat
          BY <4>1 DEF Bounded, TextType
        <5> HIDE DEF w
        <5>3. Len(t) <= 2 * w
          BY DEF w
        <5> QED BY <2>2, <5>1, <5>2, <5>3
      <4>4. Len(BytesOf(Named(t))) <= w
        BY <4>1, <4>2, <4>3, BytesOfIs
      <4> QED BY <2>2, <4>1, <4>4, PadFrontIs
    <3> HIDE DEF v, mask
    <3>5. /\ z \in Seq(Byte) /\ Len(z) = w
          /\ \A i \in 1 .. w : \A c \in Bits :
               c \in z[i] <=> IF c \in mask[i] THEN c \in v[i] ELSE c \in x.val[i]
      BY <2>2, <3>2, <3>3, <3>4, MaskedIs
    <3> HIDE DEF z
    <3>6. y \in Put(f.addr, z, mem, x.opened)
      BY <1>2, <3>1, <3>2, <3>5, WholeWrite
    <3>7. /\ Spared(mem, y.mem, b, z)
          /\ mock => y.mem = mem
          /\ y.out = "ok" /\ ~mock => y.mem = Overwritten(mem, b, z)
      BY <2>2, <3>2, <3>5, <3>6, PutGives
    <3>8. CASE mock
      BY <3>7, <3>8
    <3>9. CASE ~mock
      <4>1. PICK j \in 1 .. w, c \in Bits :
              /\ k = 8 * (w - j) + c
              /\ \A n \in Seq(Byte) : b + j <= Len(n) => (BitAt(f, k) \in Row(n) <=> c \in n[b + j])
        BY <1>2, BitAtIs
      <4>2. b + w <= Len(mem)
        BY <2>2, <3>2, <3>9 DEF InDevice
      <4>3. \A i \in 1 .. w : x.val[i] = mem[b + i]
        BY <2>2, <3>2, <3>9, HeldIs
      <4> HIDE DEF w, b
      <4>4. b + j \in 1 .. Len(mem) /\ b + j <= Len(mem) /\ (b + j) - b = j
        BY <2>2, <4>2
      <4>5. y.mem \in Seq(Byte) /\ Len(y.mem) = Len(mem)
        BY <3>7 DEF Spared
      <4>6. BitAt(f, k) \in Row(y.mem) <=> c \in y.mem[b + j]
        BY <4>1, <4>4, <4>5
      <4>7. BitAt(f, k) \in Row(mem) <=> c \in mem[b + j]
        BY <4>1, <4>4
      <4>8. c \in mask[j] <=> k \in Named(t)
        BY <3>4, <4>1 DEF HasBits
      <4>9. c \in v[j] <=> k \in NumberOf(DigitsOf(t))
        BY <3>3, <4>1 DEF HasBits
      <4>10. c \in z[j] <=> IF c \in mask[j] THEN c \in v[j] ELSE c \in mem[b + j]
        BY <3>5, <4>3
      <4>11. y.mem[b + j] = mem[b + j] \/ y.mem[b + j] = z[j]
        BY <3>7, <4>4 DEF Spared
      <4>12. y.out = "ok" => y.mem[b + j] = z[j]
        <5> SUFFICES ASSUME y.out = "ok" PROVE y.mem[b + j] = z[j]
          OBVIOUS
        <5>1. y.mem = Overwritten(mem, b, z)
          BY <3>7, <3>9
        <5>2. \A i \in 1 .. Len(mem) :
                Overwritten(mem, b, z)[i] = IF i - b \in 1 .. Len(z) THEN z[i - b] ELSE mem[i]
          BY <2>2, <3>5, OverwrittenIs
        <5>3. j \in 1 .. Len(z)
          BY <3>5
        <5> QED BY <4>4, <5>1, <5>2, <5>3
      <4> QED BY <4>6, <4>7, <4>8, <4>9, <4>10, <4>11, <4>12
    <3> QED BY <3>8, <3>9
  <2> QED BY <2>4, <2>5
<1> QED BY <1>1, <1>2

-----------------------------------------------------------------------------
(* Writing what was read.                                                  *)

\* The text of the bytes of a whole file, written back, changes nothing.
LEMMA CopyWritten ==
  ASSUME NEW f \in Files, WholeFile(f), WidthOf(f) # NoWidth, ~mock,
         mem \in Seq(Byte), opened \in BOOLEAN,
         Offsets(f.addr), InDevice(f.addr, mem),
         NEW y \in WriteText(f, ToHex(Held(f.addr, mem)))
  PROVE  y.mem = mem /\ y.out # "panic"
<1> DEFINE w == WidthOf(f)
           b == Offset(f.addr)
           h == Held(f.addr, mem)
           t == ToHex(h)
           v == PadFront(ValueOf(t), w)
<1>1. /\ f.addr \in Addresses /\ w \in Nat /\ b \in Nat /\ BytesTo(f.addr.slice) = w
  BY WholeFileIs
<1>2. /\ h \in Seq(Byte) /\ Len(h) = w /\ \A i \in 1 .. w : h[i] = mem[b + i]
  BY <1>1, HeldIs
<1>3. b + w <= Len(mem)
  BY <1>1 DEF InDevice
<1> HIDE DEF h
<1>4. t \in Seq(Nibble) /\ HasBits(h, NumberOf(t))
  BY <1>2, HexBits
<1> HIDE DEF t
<1>5. ~HasMask(t) /\ t \in TextType
  <2>1. \A i \in DOMAIN t : t[i] \in Nibble
    BY <1>4
  <2>2. Z \notin Nibble
    BY DEF Z, Nibble
  <2>3. ~HasMask(t)
    BY <2>1, <2>2 DEF HasMask
  <2>4. \A n \in Nibble : n \in Nibble \cup {Z}
    OBVIOUS
  <2>5. t = [i \in 1 .. Len(t) |-> t[i]] /\ Len(t) \in Nat
    BY <1>4
  <2>6. t \in TextType
    BY <2>1, <2>4, <2>5 DEF TextType
  <2> QED BY <2>3, <2>6
<1>6. y \in WriteText(f, t)
  BY DEF t, h
<1>7. CASE t = <<>> \/ Len(ValueOf(t)) > w
  <2>1. y = Outcome("err", <<>>, mem, opened)
    BY <1>6, <1>7 DEF WriteText, Early
  <2> QED BY <2>1 DEF Outcome
<1>8. CASE ~(t = <<>> \/ Len(ValueOf(t)) > w)
  <2>1. y \in WriteValue(f.addr, v, mem, opened)
    BY <1>5, <1>6, <1>8 DEF WriteText
  <2>2. v \in Seq(Byte) /\ Len(v) = w /\ HasBits(v, NumberOf(t))
    <3>1. ValueOf(t) = BytesOf(NumberOf(t)) /\ Bounded(NumberOf(t))
      BY <1>4, <1>5, DigitsTyped, NumberBits DEF ValueOf, DigitsOf
    <3>2. Len(BytesOf(NumberOf(t))) \in Nat
      BY <3>1, BytesOfIs
    <3> QED BY <1>1, <1>8, <3>1, <3>2, PadFrontIs
  <2> HIDE DEF v
  <2>3. v = h
    BY <1>2, <1>4, <2>2, SameBits
  <2>4. y \in Put(f.addr, v, mem, opened)
    BY <2>1, <2>2, WholeWrite
  <2>5. Spared(mem, y.mem, b, v) /\ y.out # "panic"
    <3>1. HasRoom(f.addr, v, mem)
      BY <1>3, <2>2 DEF HasRoom
    <3> QED BY <1>1, <2>2, <2>4, <3>1, PutGives
  <2>6. y.mem \in Seq(Byte) /\ Len(y.mem) = Len(mem)
    BY <2>5 DEF Spared
  <2>7. \A i \in 1 .. Len(mem) : y.mem[i] = mem[i]
    <3> TAKE i \in 1 .. Len(mem)
    <3> SUFFICES ASSUME y.mem[i] # mem[i] PROVE FALSE
      OBVIOUS
    <3>1. i - b \in 1 .. w /\ y.mem[i] = v[i - b]
      BY <2>2, <2>5 DEF Spared
    <3> HIDE DEF w, b
    <3>2. b + (i - b) = i
      BY <1>1
    <3> QED BY <1>2, <2>3, <3>1, <3>2
  <2>8. y.mem = mem
    BY <2>6, <2>7
  <2> QED BY <2>5, <2>8
<1> QED BY <1>7, <1>8

-----------------------------------------------------------------------------
(* The clients.                                                            *)

\* What was read is a text, and that of the whole of a file is that of the bytes
\* the device has.
ReadIsHeld ==
  last.call = "read" /\ last.out # "panic" =>
    /\ last.file \in Files /\ last.val \in Seq(Nibble)
    /\ last.out = "ok" /\ ~mock /\ WholeFile(last.file) /\ WidthOf(last.file) # NoWidth =>
         /\ Offsets(last.file.addr) /\ InDevice(last.file.addr, mem)
         /\ last.val = ToHex(Held(last.file.addr, mem))

RegInv == mem \in Seq(Byte) /\ opened \in BOOLEAN /\ ReadIsHeld

\* A text that is written is one of a client or the one that was just read.
LEMMA TextsTyped ==
  ASSUME RegInv, Usable, NEW t \in Texts \cup IF last.call = "read" THEN {last.val} ELSE {}
  PROVE  t \in TextType
<1>1. CASE t \in Texts
  BY <1>1, FilesAssumption DEF TextType
<1>2. CASE last.call = "read" /\ t = last.val
  <2>1. t \in Seq(Nibble)
    BY <1>2 DEF RegInv, ReadIsHeld, Usable
  <2> DEFINE S == Nibble \cup {Z}
  <2>2. Nibble \subseteq S
    OBVIOUS
  <2> HIDE DEF S
  <2>3. t \in Seq(S)
    BY <2>1, <2>2
  <2> QED BY <2>3 DEF TextType, S
<1> QED BY <1>1, <1>2

\* The parts of a file.
LEMMA WidthTyped ==
  ASSUME NEW f \in Files
  PROVE  f.addr \in Addresses /\ (WidthOf(f) # NoWidth => WidthOf(f) \in Nat)
<1>1. f.what \in {"register", "function"} /\ f.addr \in Addresses /\ f.width \in {NoWidth} \cup Nat
  BY FilesAssumption DEF FileType
<1>2. CASE f.what = "register"
  BY <1>1, <1>2 DEF WidthOf
<1>3. CASE f.what # "register" /\ ~Unbounded(f.addr)
  <2>1. f.addr.slice \in BitSlices
    BY <1>1, <1>3, AddressTyped
  <2>2. f.addr.slice.end \in Nat
    BY <2>1 DEF BitSlices
  <2> QED BY <1>1, <1>3, <2>2, BytesToHold DEF WidthOf
<1>4. CASE f.what # "register" /\ Unbounded(f.addr)
  BY <1>1, <1>4 DEF WidthOf
<1> QED BY <1>2, <1>3, <1>4

\* The value and the mask of a text are bytes.
LEMMA ValuesTyped ==
  ASSUME NEW t \in TextType
  PROVE  ValueOf(t) \in Seq(Byte) /\ MaskOf(t) \in Seq(Byte)
<1>1. ValueOf(t) = BytesOf(NumberOf(DigitsOf(t))) /\ MaskOf(t) = BytesOf(NumberOf(MaskDigits(t)))
  BY DEF ValueOf, MaskOf, DigitsOf, MaskDigits
<1>2. Bounded(NumberOf(DigitsOf(t))) /\ Bounded(NumberOf(MaskDigits(t)))
  BY DigitsTyped, NumberBits
<1> QED BY <1>1, <1>2, BytesOfIs

\* Bytes with zeros in front are bytes.
LEMMA PadFrontTyped ==
  ASSUME NEW v \in Seq(Byte), NEW w \in Nat
  PROVE  PadFront(v, w) \in Seq(Byte)
<1> DEFINE d == w - Len(v)
           e == Max({0, d})
           z == [i \in 1 .. e |-> {}]
<1>1. d \in Int
  OBVIOUS
<1>2. e \in Nat
  <2> HIDE DEF d
  <2> QED BY <1>1, MaxOfTwo
<1> HIDE DEF e
<1>3. {} \in Byte
  BY DEF Byte
<1>4. z \in Seq(Byte)
  BY <1>2, <1>3
<1>5. PadFront(v, w) = z \o v
  BY DEF PadFront, e
<1> HIDE DEF z
<1> QED BY <1>4, <1>5

\* Bytes under a mask are bytes.
LEMMA MaskedTyped ==
  ASSUME NEW mask \in Seq(Byte), NEW v \in Seq(Byte), NEW cur \in Seq(Byte)
  PROVE  Masked(mask, v, cur) \in Seq(Byte)
<1> DEFINE S == {Len(mask), Len(v), Len(cur)}
           n == Min(S)
<1>1. S \subseteq Nat /\ S # {}
  OBVIOUS
<1>2. n \in S /\ \A k \in S : n =< k
  <2>1. PICK m \in S : \A k \in S : ~(k < m)
    <3> HIDE DEF S
    <3> QED BY <1>1, LeastNumber
  <2>2. \A k \in S : m =< k
    BY <1>1, <2>1
  <2> HIDE DEF S
  <2> QED BY <2>2 DEF Min
<1>3. n \in Nat /\ n <= Len(mask) /\ n <= Len(v) /\ n <= Len(cur)
  BY <1>1, <1>2
<1>4. Masked(mask, v, cur) = [i \in 1 .. n |-> MaskedWrite(v[i], cur[i], mask[i])]
  BY DEF Masked
<1> HIDE DEF n
<1>5. \A i \in 1 .. n : MaskedWrite(v[i], cur[i], mask[i]) \in Byte
  <2> TAKE i \in 1 .. n
  <2>1. v[i] \in Byte /\ cur[i] \in Byte
    BY <1>3
  <2> QED BY <2>1 DEF MaskedWrite, Byte
<1> QED BY <1>3, <1>4, <1>5

\* A write leaves a device of bytes.
LEMMA WriteTyped ==
  ASSUME mem \in Seq(Byte), opened \in BOOLEAN, NEW f \in Files, NEW t \in TextType,
         NEW y \in WriteText(f, t)
  PROVE  y.mem \in Seq(Byte) /\ y.opened \in BOOLEAN
<1> DEFINE w == WidthOf(f)
           v == PadFront(ValueOf(t), w)
<1>1. f.addr \in Addresses /\ (w # NoWidth => w \in Nat)
  BY WidthTyped
<1>2. CASE w = NoWidth \/ t = <<>> \/ Len(ValueOf(t)) > w
  <2>1. \A out : Early(out) = {Outcome(out, <<>>, mem, opened)}
    BY DEF Early
  <2>2. \A out : /\ Outcome(out, <<>>, mem, opened).mem = mem
                 /\ Outcome(out, <<>>, mem, opened).opened = opened
    BY DEF Outcome
  <2>3. CASE w = NoWidth
    BY <2>1, <2>2, <2>3 DEF WriteText
  <2>4. CASE w # NoWidth
    BY <1>2, <2>1, <2>2, <2>4 DEF WriteText
  <2> QED BY <2>3, <2>4
<1>3. CASE ~(w = NoWidth \/ t = <<>> \/ Len(ValueOf(t)) > w)
  <2>1. w \in Nat
    BY <1>1, <1>3
  <2>2. v \in Seq(Byte)
    BY <2>1, ValuesTyped, PadFrontTyped
  <2>3. CASE HasMask(t)
    <3>1. PICK x \in ReadValue(f.addr, mem, opened) :
            y \in IF x.out = "ok"
                    THEN WriteValue(f.addr, Masked(PadFront(MaskOf(t), w), v, x.val), x.mem, x.opened)
                    ELSE {x}
      BY <1>3, <2>3 DEF WriteText, WriteMasked
    <3>2. x \in OutcomeType
      BY <1>1, ReadValueGives
    <3>3. x.val \in Seq(Byte) /\ x.mem \in Seq(Byte) /\ x.opened \in BOOLEAN
      BY <3>2 DEF OutcomeType
    <3>4. PadFront(MaskOf(t), w) \in Seq(Byte)
      BY <2>1, ValuesTyped, PadFrontTyped
    <3> DEFINE z == Masked(PadFront(MaskOf(t), w), v, x.val)
    <3>5. z \in Seq(Byte)
      BY <2>2, <3>3, <3>4, MaskedTyped
    <3> HIDE DEF z
    <3>6. CASE x.out = "ok"
      <4>1. y \in WriteValue(f.addr, z, x.mem, x.opened)
        BY <3>1, <3>6 DEF z
      <4>2. y \in OutcomeType
        BY <1>1, <3>3, <3>5, <4>1, WriteValueGives
      <4> QED BY <4>2 DEF OutcomeType
    <3>7. CASE x.out # "ok"
      BY <3>1, <3>3, <3>7
    <3> QED BY <3>6, <3>7
  <2>4. CASE ~HasMask(t)
    <3>1. y \in WriteValue(f.addr, v, mem, opened)
      BY <1>3, <2>4 DEF WriteText
    <3>2. y \in OutcomeType
      BY <1>1, <2>2, <3>1, WriteValueGives
    <3> QED BY <3>2 DEF OutcomeType
  <2> QED BY <2>3, <2>4
<1> QED BY <1>2, <1>3

\* A read gives a text of whole bytes.
LEMMA ReadTyped ==
  ASSUME mem \in Seq(Byte), opened \in BOOLEAN, NEW f \in Files, NEW y \in ReadText(f)
  PROVE  /\ y.mem = mem /\ y.opened \in BOOLEAN
         /\ y.out # "panic" => y.val \in Seq(Nibble)
         /\ y.out = "ok" /\ ~mock /\ WholeFile(f) /\ WidthOf(f) # NoWidth =>
              /\ Offsets(f.addr) /\ InDevice(f.addr, mem)
              /\ y.val = ToHex(Held(f.addr, mem))
<1>1. PICK x \in ReadValue(f.addr, mem, opened) :
        y = IF x.out = "ok" THEN [x EXCEPT !.val = ToHex(x.val)] ELSE x
  BY DEF ReadText
<1>2. x \in OutcomeType /\ x.mem = mem /\ (x.out = "err" => x.val = <<>>)
  BY WidthTyped, ReadValueGives
<1>3. /\ x.val \in Seq(Byte) /\ x.opened \in BOOLEAN /\ x.out \in {"ok", "err", "panic"}
      /\ x = [out |-> x.out, val |-> x.val, mem |-> x.mem, opened |-> x.opened]
  BY <1>2 DEF OutcomeType
<1>4. CASE x.out = "ok"
  <2>1. y = [x EXCEPT !.val = ToHex(x.val)]
    BY <1>1, <1>4
  <2>2. y.out = "ok" /\ y.val = ToHex(x.val) /\ y.mem = mem /\ y.opened = x.opened
    BY <1>2, <1>3, <1>4, <2>1
  <2>3. ToHex(x.val) \in Seq(Nibble)
    BY <1>3, HexBits
  <2>4. ~mock /\ WholeFile(f) /\ WidthOf(f) # NoWidth =>
          Offsets(f.addr) /\ InDevice(f.addr, mem) /\ x.val = Held(f.addr, mem)
    BY <1>4, WholeRead
  <2> QED BY <1>3, <2>2, <2>3, <2>4
<1>5. CASE x.out # "ok"
  <2>1. y = x /\ <<>> \in Seq(Nibble)
    BY <1>1, <1>5
  <2> QED BY <1>2, <1>3, <1>5, <2>1
<1> QED BY <1>4, <1>5

\* A step of a client is a call on a file.
LEMMA ClientStep ==
  ASSUME RegInv, RegNext
  PROVE  /\ mock' = mock /\ kind' = kind
         /\ \E f \in Files :
              \/ \E y \in ReadText(f) :
                   /\ mem' = y.mem /\ opened' = y.opened
                   /\ last' = [call |-> "read", file |-> f, text |-> <<>>,
                               out |-> y.out, val |-> y.val]
              \/ \E t \in TextType : \E y \in WriteText(f, t) :
                   /\ mem' = y.mem /\ opened' = y.opened
                   /\ last' = [call |-> "write", file |-> f, text |-> t,
                               out |-> y.out, val |-> y.val]
<1>1. PICK f \in Files :
        \/ ReadFile(f)
        \/ \E t \in Texts \cup IF last.call = "read" THEN {last.val} ELSE {} : WriteFile(f, t)
  BY DEF RegNext
<1>2. CASE ReadFile(f)
  BY <1>2 DEF ReadFile, Answer
<1>3. ASSUME NEW t \in Texts \cup IF last.call = "read" THEN {last.val} ELSE {}, WriteFile(f, t)
      PROVE  /\ mock' = mock /\ kind' = kind
             /\ t \in TextType
             /\ \E y \in WriteText(f, t) :
                  /\ mem' = y.mem /\ opened' = y.opened
                  /\ last' = [call |-> "write", file |-> f, text |-> t,
                              out |-> y.out, val |-> y.val]
  <2>1. t \in TextType
    BY <1>3, TextsTyped DEF WriteFile
  <2> QED BY <1>3, <2>1 DEF WriteFile, Answer
<1> QED BY <1>1, <1>2, <1>3

\* Nothing has been read at the start.
LEMMA RegInitHolds == RegInit => RegInv
<1> SUFFICES ASSUME RegInit PROVE RegInv
  OBVIOUS
<1>1. mem \in Seq(Byte) /\ opened \in BOOLEAN
  BY ChannelAssumption DEF RegInit
<1>2. last.call # "read"
  BY DEF RegInit
<1> QED BY <1>1, <1>2 DEF RegInv, ReadIsHeld

\* A read establishes the invariant, a write has nothing to keep.
LEMMA RegNextKeeps == RegInv /\ [RegNext]_vars => RegInv'
<1> SUFFICES ASSUME RegInv, [RegNext]_vars PROVE RegInv'
  OBVIOUS
<1>1. mem \in Seq(Byte) /\ opened \in BOOLEAN
  BY DEF RegInv
<1>2. CASE UNCHANGED vars
  <2>1. mem' = mem /\ opened' = opened /\ last' = last /\ mock' = mock /\ kind' = kind
    BY <1>2 DEF vars
  <2>2. \A a \in Addresses : Offset(a)' = Offset(a) /\ Offsets(a)' = Offsets(a)
    BY <2>1 DEF Offset, Offsets
  <2> QED BY <2>1, <2>2 DEF RegInv, ReadIsHeld, InDevice, Held, Offset, Offsets, WholeFile
<1>3. CASE RegNext
  <2>1. mock' = mock /\ kind' = kind
    BY <1>3, ClientStep
  <2>2. ASSUME NEW f \in Files, NEW y \in ReadText(f), mem' = y.mem, opened' = y.opened,
               last' = [call |-> "read", file |-> f, text |-> <<>>, out |-> y.out, val |-> y.val]
        PROVE  RegInv'
    <3>1. /\ y.mem = mem /\ y.opened \in BOOLEAN
          /\ y.out # "panic" => y.val \in Seq(Nibble)
          /\ y.out = "ok" /\ ~mock /\ WholeFile(f) /\ WidthOf(f) # NoWidth =>
               /\ Offsets(f.addr) /\ InDevice(f.addr, mem)
               /\ y.val = ToHex(Held(f.addr, mem))
      BY <1>1, ReadTyped
    <3>2. last'.file = f /\ last'.out = y.out /\ last'.val = y.val /\ last'.call = "read"
      BY <2>2
    <3>3. mem' = mem
      BY <2>2, <3>1
    <3>4. Offsets(f.addr)' = Offsets(f.addr)
      BY <2>1 DEF Offsets
    <3>5. InDevice(f.addr, mem)' = InDevice(f.addr, mem) /\ Held(f.addr, mem)' = Held(f.addr, mem)
      BY <2>1, <3>3 DEF InDevice, Held, Offset
    <3>6. ReadIsHeld'
      BY <2>1, <3>1, <3>2, <3>3, <3>4, <3>5 DEF ReadIsHeld, WholeFile
    <3> QED BY <1>1, <2>2, <3>1, <3>6 DEF RegInv
  <2>3. ASSUME NEW f \in Files, NEW t \in TextType, NEW y \in WriteText(f, t),
               mem' = y.mem, opened' = y.opened,
               last' = [call |-> "write", file |-> f, text |-> t, out |-> y.out, val |-> y.val]
        PROVE  RegInv'
    <3>1. y.mem \in Seq(Byte) /\ y.opened \in BOOLEAN
      BY <1>1, WriteTyped
    <3>2. last'.call = "write"
      BY <2>3
    <3> QED BY <2>3, <3>1, <3>2 DEF RegInv, ReadIsHeld
  <2> QED BY <1>3, <2>2, <2>3, ClientStep
<1> QED BY <1>2, <1>3

\* The device stays one of bytes, and what was read from a whole file is what
\* it has.
THEOREM RegInvHolds == RegSpec => []RegInv
BY RegInitHolds, RegNextKeeps, PTL DEF RegSpec

\* A whole register or function that is written without a mask holds the number
\* of the text, for every width, text and device (write_value in sensor.rs).
THEOREM NumberIsAlwaysHeld == RegSpec => NumberIsHeld
<1>1. RegInv /\ [RegNext]_vars
        => [\A f \in Files :
              WholeFile(f) /\ Written(f) /\ ~HasMask(last'.text) =>
                \A k \in 0 .. 8 * WidthOf(f) - 1 :
                  BitAt(f, k) \in Row(mem') <=> k \in NumberOf(last'.text)]_vars
  <2> SUFFICES ASSUME RegInv, RegNext, NEW f \in Files, WholeFile(f), Written(f),
                      ~HasMask(last'.text), NEW k \in 0 .. 8 * WidthOf(f) - 1
               PROVE  BitAt(f, k) \in Row(mem') <=> k \in NumberOf(last'.text)
    OBVIOUS
  <2>1. PICK t \in TextType : \E y \in WriteText(f, t) :
          mem' = y.mem /\ y.out = "ok" /\ last'.text = t
    BY ClientStep DEF Written
  <2>2. PICK y \in WriteText(f, t) : mem' = y.mem /\ y.out = "ok"
    BY <2>1
  <2>3. mem \in Seq(Byte) /\ opened \in BOOLEAN /\ ~mock
    BY DEF RegInv, Written
  <2>4. BitAt(f, k) \in Row(y.mem) <=> k \in NumberOf(t)
    BY <2>1, <2>2, <2>3, NumberWritten
  <2> QED BY <2>1, <2>2, <2>4
<1> QED BY <1>1, RegInvHolds, PTL DEF RegSpec, NumberIsHeld

\* A masked write changes only the bits the text names, whatever becomes of it,
\* and sets them when it succeeds.
THEOREM MaskIsAlwaysKept == RegSpec => MaskIsKept
<1>1. RegInv /\ [RegNext]_vars
        => [\A f \in Files :
              /\ WholeFile(f) /\ last'.call = "write" /\ last'.file = f
              /\ HasMask(last'.text) /\ Len(last'.text) <= 2 * WidthOf(f)
              => \A k \in 0 .. 8 * WidthOf(f) - 1 :
                   /\ k \notin Named(last'.text) =>
                        (BitAt(f, k) \in Row(mem') <=> BitAt(f, k) \in Row(mem))
                   /\ Written(f) /\ k \in Named(last'.text) =>
                        (BitAt(f, k) \in Row(mem')
                           <=> k \in NumberOf([i \in DOMAIN last'.text |-> last'.text[i] \ Z]))]_vars
  <2> SUFFICES ASSUME RegInv, RegNext, NEW f \in Files, WholeFile(f),
                      last'.call = "write", last'.file = f, HasMask(last'.text),
                      Len(last'.text) <= 2 * WidthOf(f), NEW k \in 0 .. 8 * WidthOf(f) - 1
               PROVE  /\ k \notin Named(last'.text) =>
                           (BitAt(f, k) \in Row(mem') <=> BitAt(f, k) \in Row(mem))
                      /\ Written(f) /\ k \in Named(last'.text) =>
                           (BitAt(f, k) \in Row(mem') <=> k \in NumberOf(DigitsOf(last'.text)))
    BY DEF DigitsOf
  <2>1. PICK t \in TextType : \E y \in WriteText(f, t) :
          mem' = y.mem /\ y.out = last'.out /\ last'.text = t
    BY ClientStep
  <2>2. PICK y \in WriteText(f, t) : mem' = y.mem /\ y.out = last'.out
    BY <2>1
  <2>3. mem \in Seq(Byte) /\ opened \in BOOLEAN
    BY DEF RegInv
  <2>4. /\ k \notin Named(t) => (BitAt(f, k) \in Row(y.mem) <=> BitAt(f, k) \in Row(mem))
        /\ y.out = "ok" /\ ~mock /\ k \in Named(t) =>
             (BitAt(f, k) \in Row(y.mem) <=> k \in NumberOf(DigitsOf(t)))
    BY <2>1, <2>3, MaskWritten
  <2> QED BY <2>1, <2>2, <2>4 DEF Written
<1> QED BY <1>1, RegInvHolds, PTL DEF RegSpec, MaskIsKept

\* To write back to a whole register what was read from it changes nothing and
\* does not panic, for every device: the text of read_value is one that
\* write_value turns into the same bytes.
THEOREM CopyNeverChanges == RegSpec => CopyChangesNothing
<1>1. RegInv /\ [RegNext]_vars
        => [/\ last.call = "read" /\ last.out = "ok" /\ ~mock
            /\ last'.call = "write" /\ last'.file = last.file /\ last'.text = last.val
            /\ WholeFile(last.file)
            => mem' = mem /\ last'.out # "panic"]_vars
  <2> SUFFICES ASSUME RegInv, RegNext, last.call = "read", last.out = "ok", ~mock,
                      last'.call = "write", last'.file = last.file, last'.text = last.val,
                      WholeFile(last.file)
               PROVE  mem' = mem /\ last'.out # "panic"
    OBVIOUS
  <2> DEFINE f == last.file
  <2>1. f \in Files /\ mem \in Seq(Byte) /\ opened \in BOOLEAN
    BY DEF RegInv, ReadIsHeld
  <2>2. PICK y \in WriteText(f, last.val) : mem' = y.mem /\ y.out = last'.out
    BY ClientStep
  <2>3. CASE WidthOf(f) # NoWidth
    <3>1. /\ Offsets(f.addr) /\ InDevice(f.addr, mem)
          /\ last.val = ToHex(Held(f.addr, mem))
      BY <2>3 DEF RegInv, ReadIsHeld
    <3> QED BY <2>1, <2>2, <2>3, <3>1, CopyWritten
  <2>4. CASE WidthOf(f) = NoWidth
    <3>1. f.what = "register"
      <4>1. f.what # "register" => WidthOf(f) = BytesTo(f.addr.slice) /\ ~Unbounded(f.addr)
        BY DEF WidthOf, WholeFile
      <4>2. ~Unbounded(f.addr) => f.addr.slice \in BitSlices
        BY <2>1, WidthTyped, AddressTyped
      <4>3. f.addr.slice \in BitSlices => BytesTo(f.addr.slice) \in Nat
        BY BytesToHold DEF BitSlices
      <4> QED BY <2>4, <4>1, <4>2, <4>3, FilesAssumption
    <3>2. y \in {Outcome("err", <<>>, mem, opened)}
      BY <2>2, <2>4, <3>1 DEF WriteText, Early
    <3> QED BY <2>2, <3>2 DEF Outcome
  <2> QED BY <2>3, <2>4
<1> QED BY <1>1, RegInvHolds, PTL DEF RegSpec, CopyChangesNothing

================================================================================
