---------------------------- MODULE ValueMapProofs -----------------------------
(***************************************************************************)
(* What every execution of the value file of a function with a value map   *)
(* keeps, for any maps, words, bytes and fields.                           *)
(***************************************************************************)
EXTENDS ValueMap, FiniteSetTheorems, SequenceTheorems, TLAPS

ByteSeqs == Seq(0 .. ByteMax)

-----------------------------------------------------------------------------
(* The values that stand for Any.                                          *)

\* The digits of a number to the base of a byte.
LEMMA DivByByteMax ==
  ASSUME NEW k \in Nat
  PROVE  /\ k \div ByteMax \in Nat
         /\ k % ByteMax \in 0 .. ByteMax - 1
         /\ k = ByteMax * (k \div ByteMax) + (k % ByteMax)
<1>1. ByteMax \in Nat /\ ByteMax >= 1
  BY SizesAssumption
<1>2. k % ByteMax \in 0 .. ByteMax - 1
  BY <1>1
<1>3. k \div ByteMax \in Nat
  BY <1>1
<1>4. k = ByteMax * (k \div ByteMax) + (k % ByteMax)
  BY <1>1
<1> QED BY <1>2, <1>3, <1>4

\* The k-th value that is tried is a sequence of bytes.
LEMMA CandidateIs ==
  ASSUME NEW k \in Nat \ {0}
  PROVE  /\ Candidate(k) \in ByteSeqs
         /\ Len(Candidate(k)) = (k - 1) \div ByteMax + 1
         /\ Candidate(k)[(k - 1) \div ByteMax + 1] = ((k - 1) % ByteMax) + 1
<1> DEFINE n == (k - 1) \div ByteMax + 1
           r == (k - 1) % ByteMax
<1>1. k - 1 \in Nat
  OBVIOUS
<1>2. n \in Nat /\ n >= 1 /\ r \in 0 .. ByteMax - 1 /\ ByteMax \in Nat
  <2>1. (k - 1) \div ByteMax \in Nat /\ (k - 1) % ByteMax \in 0 .. ByteMax - 1
    BY <1>1, DivByByteMax
  <2> QED BY <2>1, SizesAssumption
<1>3. Candidate(k) = [i \in 1 .. n |-> IF i = n THEN r + 1 ELSE 0]
  BY DEF Candidate
<1> HIDE DEF n, r
<1>4. r + 1 \in 0 .. ByteMax /\ 0 \in 0 .. ByteMax
  BY <1>2
<1>5. [i \in 1 .. n |-> IF i = n THEN r + 1 ELSE 0] \in [1 .. n -> 0 .. ByteMax]
  BY <1>4
<1>6. Candidate(k) \in ByteSeqs /\ Len(Candidate(k)) = n
  BY <1>2, <1>3, <1>5 DEF ByteSeqs
<1>7. Candidate(k)[n] = r + 1
  BY <1>2, <1>3
<1> QED BY <1>6, <1>7 DEF n, r

\* No value is tried twice.
LEMMA CandidatesDiffer ==
  ASSUME NEW j \in Nat \ {0}, NEW k \in Nat \ {0}, Candidate(j) = Candidate(k)
  PROVE  j = k
<1>1. (j - 1) \div ByteMax = (k - 1) \div ByteMax
  <2>1. (j - 1) \div ByteMax + 1 = (k - 1) \div ByteMax + 1
    BY CandidateIs
  <2>2. (j - 1) \div ByteMax \in Nat /\ (k - 1) \div ByteMax \in Nat
    BY DivByByteMax
  <2> QED BY <2>1, <2>2
<1>2. (j - 1) % ByteMax = (k - 1) % ByteMax
  <2>1. ((j - 1) % ByteMax) + 1 = ((k - 1) % ByteMax) + 1
    BY <1>1, CandidateIs
  <2>2. (j - 1) % ByteMax \in Nat /\ (k - 1) % ByteMax \in Nat
    BY DivByByteMax, SizesAssumption
  <2> QED BY <2>1, <2>2
<1>3. j - 1 \in Nat /\ k - 1 \in Nat
  OBVIOUS
<1>4. j - 1 = k - 1
  BY <1>1, <1>2, <1>3, DivByByteMax
<1> QED BY <1>3, <1>4

\* One of the values is free, however many keys there are.
LEMMA FreeIsFree ==
  ASSUME IsFiniteSet(DOMAIN map)
  PROVE  Free \in ByteSeqs /\ Free \notin DOMAIN map
<1> DEFINE D == DOMAIN map
           N == Cardinality(D)
           free == {k \in 1 .. N + 1 : Candidate(k) \notin D}
<1>1. N \in Nat
  BY FS_CardinalityType
<1>2. free # {}
  <2> SUFFICES ASSUME \A k \in 1 .. N + 1 : Candidate(k) \in D PROVE FALSE
    OBVIOUS
  <2> DEFINE f == [k \in 1 .. N + 1 |-> Candidate(k)]
  <2>1. IsFiniteSet(1 .. N + 1) /\ Cardinality(1 .. N + 1) = N + 1
    BY <1>1, FS_Interval
  <2>2. f \in [1 .. N + 1 -> D]
    OBVIOUS
  <2>3. N < N + 1
    BY <1>1
  <2> HIDE DEF f
  <2>4. PICK j \in 1 .. N + 1, k \in 1 .. N + 1 : j # k /\ f[j] = f[k]
    BY <2>1, <2>2, <2>3, FS_PigeonHole
  <2>5. Candidate(j) = Candidate(k) /\ j \in Nat \ {0} /\ k \in Nat \ {0}
    BY <1>1, <2>4 DEF f
  <2> QED BY <2>4, <2>5, CandidatesDiffer
<1>3. \E k \in free : \A j \in free : k <= j
  <2>1. free \subseteq Nat
    BY <1>1
  <2> DEFINE R == {ss \in Nat \X Nat : ss[1] < ss[2]}
  <2>2. IsWellFoundedOn(R, Nat)
    BY NatLessThanWellFounded DEF OpToRel
  <2> HIDE DEF free
  <2>3. PICK k \in free : \A j \in free : ~(<<j, k>> \in R)
    <3> HIDE DEF R
    <3> QED BY <1>2, <2>1, <2>2, WFMin
  <2>4. \A j \in free : k <= j
    <3> TAKE j \in free
    <3>1. j \in Nat /\ k \in Nat /\ ~(<<j, k>> \in R)
      BY <2>1, <2>3
    <3>2. ~(j < k)
      BY <3>1
    <3> QED BY <3>1, <3>2
  <2> QED BY <2>4
<1> DEFINE c == CHOOSE k \in free : \A j \in free : k <= j
<1>4. c \in free
  <2> HIDE DEF free
  <2> QED BY <1>3
<1>5. Free = Candidate(c)
  BY DEF Free
<1> HIDE DEF c
<1>6. c \in Nat \ {0} /\ Candidate(c) \notin D
  BY <1>1, <1>4
<1> QED BY <1>5, <1>6, CandidateIs

-----------------------------------------------------------------------------
(* The map.                                                                *)

\* The map is one of the values a map of its shape can have.
MapTyped ==
  /\ shape \in Shapes
  /\ map \in [DOMAIN map -> Words[shape]]
  /\ IsFiniteSet(DOMAIN map)
  /\ \A k \in DOMAIN map : k # AnyValue => k \in ByteSeqs

\* A map without one of its keys.
LEMMA WithoutIs ==
  ASSUME NEW m, NEW k, NEW W, m \in [DOMAIN m -> W], IsFiniteSet(DOMAIN m)
  PROVE  LET y == Without(m, k)
         IN /\ DOMAIN y = DOMAIN m \ {k}
            /\ y \in [DOMAIN y -> W] /\ IsFiniteSet(DOMAIN y)
            /\ \A j \in DOMAIN y : y[j] = m[j]
<1>1. Without(m, k) = [j \in DOMAIN m \ {k} |-> m[j]]
  BY DEF Without
<1>2. IsFiniteSet(DOMAIN m \ {k})
  BY FS_Subset
<1> QED BY <1>1, <1>2

\* An edit keeps the type of the map and that words are distinct, and when it
\* is refused the map itself.
LEMMA EditedKeeps ==
  ASSUME MapTyped, WordsAreDistinct, NEW key \in DOMAIN map, NEW w \in Words[shape],
         NEW refused \in BOOLEAN
  PROVE  LET y == EditedMap(key, w, refused)
         IN /\ y \in [DOMAIN y -> Words[shape]] /\ IsFiniteSet(DOMAIN y)
            /\ \A k \in DOMAIN y : k # AnyValue => k \in ByteSeqs
            /\ shape = "Keywords" => \A j, k \in DOMAIN y : y[j] = y[k] => j = k
            /\ refused => y = map
<1> DEFINE z == EditedMap(key, w, refused)
<1>1. /\ map \in [DOMAIN map -> Words[shape]] /\ IsFiniteSet(DOMAIN map)
      /\ \A k \in DOMAIN map : k # AnyValue => k \in ByteSeqs
  BY DEF MapTyped
<1>2. CASE shape # "Keywords"
  <2>1. z = IF refused THEN map ELSE [map EXCEPT ![key] = w]
    BY <1>2 DEF EditedMap
  <2> HIDE DEF z
  <2>2. z \in [DOMAIN z -> Words[shape]] /\ DOMAIN z = DOMAIN map /\ (refused => z = map)
    BY <1>1, <2>1
  <2> QED BY <1>1, <1>2, <2>2 DEF z
<1>3. CASE shape = "Keywords"
  <2> DEFINE word == IF refused THEN map[key] ELSE w
             rest == Without(map, key)
  <2>1. z = Inserted(rest, key, word) /\ word \in Words[shape]
    BY <1>1, <1>3 DEF EditedMap
  <2>2. /\ DOMAIN rest = DOMAIN map \ {key}
        /\ rest \in [DOMAIN rest -> Words[shape]] /\ IsFiniteSet(DOMAIN rest)
        /\ \A j \in DOMAIN rest : rest[j] = map[j]
    BY <1>1, WithoutIs
  <2> HIDE DEF rest, word
  <2>3. /\ DOMAIN z = {key} \cup {j \in DOMAIN rest : rest[j] # word}
        /\ z \in [DOMAIN z -> Words[shape]] /\ IsFiniteSet(DOMAIN z)
        /\ z[key] = word
        /\ \A j \in DOMAIN z : j # key => z[j] = rest[j] /\ rest[j] # word /\ j \in DOMAIN rest
    <3> DEFINE D == {j \in DOMAIN rest : rest[j] # word}
    <3>1. z = [j \in {key} \cup D |-> IF j = key THEN word ELSE rest[j]]
      BY <2>1 DEF Inserted
    <3>2. IsFiniteSet({key} \cup D)
      <4>1. IsFiniteSet(D)
        BY <2>2, FS_Subset
      <4> HIDE DEF D
      <4>2. IsFiniteSet(D \cup {key})
        BY <4>1, FS_AddElement
      <4>3. D \cup {key} = {key} \cup D
        OBVIOUS
      <4> QED BY <4>2, <4>3
    <3> HIDE DEF z
    <3>3. DOMAIN z = {key} \cup D
      BY <3>1
    <3>4. z[key] = word /\ \A j \in D : j # key => z[j] = rest[j]
      BY <3>1
    <3>5. \A j \in {key} \cup D : z[j] \in Words[shape]
      BY <2>1, <2>2, <3>1
    <3>6. z \in [DOMAIN z -> Words[shape]]
      BY <3>1, <3>5
    <3> QED BY <3>2, <3>3, <3>4, <3>6
  <2> HIDE DEF z
  <2>4. \A j, k \in DOMAIN map : map[j] = map[k] => j = k
    BY <1>3 DEF WordsAreDistinct
  <2>5. ASSUME NEW j \in DOMAIN z, NEW k \in DOMAIN z, z[j] = z[k] PROVE j = k
    <3>1. CASE j = key /\ k = key
      BY <3>1
    <3>2. CASE j = key /\ k # key
      BY <2>3, <2>5, <3>2
    <3>3. CASE j # key /\ k = key
      BY <2>3, <2>5, <3>3
    <3>4. CASE j # key /\ k # key
      BY <2>2, <2>3, <2>4, <2>5, <3>4
    <3> QED BY <3>1, <3>2, <3>3, <3>4
  <2>6. \A k \in DOMAIN z : k # AnyValue => k \in ByteSeqs
    BY <1>1, <2>2, <2>3
  <2>7. ASSUME refused PROVE z = map
    <3>1. word = map[key]
      BY <2>7 DEF word
    <3>2. DOMAIN z = DOMAIN map
      BY <2>2, <2>3, <2>4, <3>1
    <3>3. \A j \in DOMAIN z : z[j] = map[j]
      BY <2>2, <2>3, <3>1
    <3> QED BY <1>1, <2>3, <3>2, <3>3
  <2> QED BY <2>3, <2>5, <2>6, <2>7 DEF z
<1> QED BY <1>2, <1>3

-----------------------------------------------------------------------------
(* encode and lookup.                                                      *)

\* encode gives bytes.
LEMMA EncodeTyped ==
  ASSUME MapTyped, NEW w, NEW v \in Encode(w)
  PROVE  v \in ByteSeqs
<1>1. PICK k \in KeysFor(w) : v = IF k = AnyValue THEN Free ELSE k
  BY DEF Encode
<1>2. k \in DOMAIN map
  BY DEF KeysFor, MapTyped, Shapes
<1>3. CASE k = AnyValue
  BY <1>1, <1>3, FreeIsFree DEF MapTyped
<1>4. CASE k # AnyValue
  BY <1>1, <1>2, <1>4 DEF MapTyped
<1> QED BY <1>3, <1>4

\* x is word w, or one of the nearest numbers.
Near(w, x) ==
  IF shape = "Floating" THEN \A k \in DOMAIN map : Distance(w, x) <= Distance(w, map[k])
  ELSE x = w

\* lookup undoes encode.
LEMMA LookupUndoes ==
  ASSUME MapTyped, NEW w, NEW v \in Encode(w)
  PROVE  \E x : Lookup(v) = {x} /\ Near(w, x)
<1>1. PICK k \in KeysFor(w) : v = IF k = AnyValue THEN Free ELSE k
  BY DEF Encode
<1>2. k \in DOMAIN map /\ Near(w, map[k])
  BY DEF KeysFor, MapTyped, Shapes, Near
<1>3. CASE k = AnyValue
  <2>1. v \notin DOMAIN map /\ AnyValue \in DOMAIN map
    BY <1>1, <1>2, <1>3, FreeIsFree DEF MapTyped
  <2> QED BY <1>2, <1>3, <2>1 DEF Lookup
<1>4. CASE k # AnyValue
  BY <1>1, <1>2, <1>4 DEF Lookup
<1> QED BY <1>3, <1>4

\* What a field keeps of a number.
LEMMA ModFieldSize ==
  ASSUME NEW f \in Forms, NEW b \in Nat
  PROVE  b % f.size \in 0 .. f.size - 1 /\ (b < f.size => b % f.size = b)
<1>1. f.size \in Nat /\ f.size >= 1
  BY SizesAssumption
<1> DEFINE q == f.size
<1> HIDE DEF q
<1>2. q \in Nat /\ q >= 1
  BY <1>1 DEF q
<1>3. b % q \in 0 .. q - 1
  BY <1>2
<1>4. b < q => b % q = b
  BY <1>2
<1> QED BY <1>3, <1>4 DEF q

\* A field keeps the low bits of what is written to it.
LEMMA StoredIs ==
  ASSUME form \in Forms, field \in [1 .. FieldBytes -> 0 .. FieldSize - 1],
         NEW v \in ByteSeqs, Len(v) >= FieldBytes, NEW n \in 0 .. FieldBytes
  PROVE  /\ Stored(v, n) \in [1 .. FieldBytes -> 0 .. FieldSize - 1]
         /\ n = FieldBytes /\ Fits(v) => Stored(v, n) = v
<1>1. FieldBytes \in Nat /\ FieldBytes >= 1 /\ ByteMax \in Nat
  BY SizesAssumption DEF FieldBytes
<1>2. \A i \in 1 .. FieldBytes : v[i] \in Nat
  <2> TAKE i \in 1 .. FieldBytes
  <2>1. i \in 1 .. Len(v)
    BY <1>1 DEF ByteSeqs
  <2>2. v[i] \in 0 .. ByteMax
    <3> DEFINE S == 0 .. ByteMax
    <3>1. v \in Seq(S)
      BY DEF ByteSeqs
    <3> HIDE DEF S
    <3>2. v[i] \in S
      BY <2>1, <3>1
    <3> QED BY <3>2 DEF S
  <2> QED BY <1>1, <2>2
<1>3. \A i \in 1 .. FieldBytes : /\ v[i] % FieldSize \in 0 .. FieldSize - 1
                                 /\ v[i] < FieldSize => v[i] % FieldSize = v[i]
  BY <1>2, ModFieldSize DEF FieldSize
<1>4. Stored(v, n) \in [1 .. FieldBytes -> 0 .. FieldSize - 1]
  BY <1>3 DEF Stored
<1>5. ASSUME n = FieldBytes, Fits(v) PROVE Stored(v, n) = v
  <2>1. Stored(v, n) = [i \in 1 .. FieldBytes |-> v[i] % FieldSize]
    BY <1>1, <1>5 DEF Stored
  <2>2. \A i \in 1 .. FieldBytes : v[i] % FieldSize = v[i]
    BY <1>3, <1>5 DEF Fits, ByteSeqs
  <2>3. v = [i \in 1 .. FieldBytes |-> v[i]]
    BY <1>5 DEF Fits, ByteSeqs
  <2> QED BY <2>1, <2>2, <2>3
<1> QED BY <1>4, <1>5

-----------------------------------------------------------------------------
(* The invariant.                                                          *)

\* What a successful write of a word that fits has left in the field stands for
\* that word, until the next call.
WordIsEncoded ==
  last.call = "write" /\ last.out = "ok" /\ Fits(last.bytes) =>
    /\ field = last.bytes
    /\ last.bytes \in Encode(last.word)

IInv == TypeOK /\ MapTyped /\ WordsAreDistinct /\ WordIsEncoded

\* Nothing has been written or edited at the start.
LEMMA InitHolds == Init => IInv
<1> SUFFICES ASSUME Init PROVE IInv
  OBVIOUS
<1>1. PICK m \in Maps : shape = m.shape /\ map = m.map
  BY DEF Init
<1>2. MapTyped
  BY <1>1, MapsAssumption DEF MapTyped, ByteSeqs
<1>3. WordsAreDistinct
  BY <1>1, MapsAssumption DEF WordsAreDistinct
<1>4. form \in Forms /\ calls = 0 /\ last.call = "none" /\ last.out = "ok"
  BY DEF Init
<1>5. field \in [1 .. FieldBytes -> 0 .. FieldSize - 1]
  <2>1. form.size \in Nat /\ form.size >= 1
    BY <1>4, SizesAssumption
  <2>2. 0 \in 0 .. form.size - 1
    BY <2>1
  <2> QED BY <2>2 DEF Init, FieldBytes, FieldSize
<1>6. 0 \in 0 .. MaxCalls
  BY MapsAssumption
<1>7. TypeOK
  BY <1>2, <1>4, <1>5, <1>6 DEF TypeOK, MapTyped, ByteSeqs
<1>8. WordIsEncoded
  BY <1>4 DEF WordIsEncoded
<1> QED BY <1>2, <1>3, <1>7, <1>8 DEF IInv

\* The parts of the state a call counts up or leaves alone.
LEMMA EndsTyped ==
  ASSUME IInv, Usable, NEW call, NEW w, NEW v, NEW out \in {"ok", "err", "panic"},
         Ends(call, w, v, out)
  PROVE  /\ calls' \in 0 .. MaxCalls /\ shape' = shape /\ form' = form
         /\ last'.call = call /\ last'.word = w /\ last'.bytes = v /\ last'.out = out
         /\ last'.out \in {"ok", "err", "panic"}
<1>1. calls \in 0 .. MaxCalls /\ calls < MaxCalls /\ MaxCalls \in Nat
  BY MapsAssumption DEF IInv, TypeOK, Usable
<1>2. calls' = calls + 1 /\ shape' = shape /\ form' = form
      /\ last' = [call |-> call, word |-> w, bytes |-> v, out |-> out]
  BY DEF Ends
<1> QED BY <1>1, <1>2

\* Reading changes neither the map nor the field.
LEMMA ReadKeeps ==
  ASSUME IInv, ReadWord
  PROVE  IInv'
<1>1. \E w, v : \E out \in {"ok", "err", "panic"} : Ends("read", w, v, out)
  BY DEF ReadWord
<1>2. /\ calls' \in 0 .. MaxCalls /\ shape' = shape /\ form' = form
      /\ last'.call = "read" /\ last'.out \in {"ok", "err", "panic"}
  <2>1. PICK w, v : \E out \in {"ok", "err", "panic"} : Ends("read", w, v, out)
    BY <1>1
  <2>2. PICK out \in {"ok", "err", "panic"} : Ends("read", w, v, out)
    BY <2>1
  <2>3. Usable
    BY DEF ReadWord
  <2> QED BY <2>2, <2>3, EndsTyped
<1>3. map' = map /\ field' = field
  BY DEF ReadWord
<1>4. TypeOK'
  BY <1>2, <1>3 DEF IInv, TypeOK, FieldBytes, FieldSize
<1>5. MapTyped' /\ WordsAreDistinct'
  BY <1>2, <1>3 DEF IInv, MapTyped, WordsAreDistinct
<1>6. WordIsEncoded'
  BY <1>2 DEF WordIsEncoded
<1> QED BY <1>4, <1>5, <1>6 DEF IInv

\* A write that succeeds leaves what the word is encoded to.
LEMMA WriteKeeps ==
  ASSUME IInv, NEW w \in Words[shape], WriteWord(w)
  PROVE  IInv'
<1>1. Usable /\ map' = map
  BY DEF WriteWord
<1>2. form \in Forms /\ field \in [1 .. FieldBytes -> 0 .. FieldSize - 1] /\ FieldBytes \in Nat
  BY SizesAssumption DEF IInv, TypeOK, FieldBytes
<1>4. ASSUME NEW x, NEW out \in {"ok", "err", "panic"}, Ends("write", w, x, out),
             x \in ByteSeqs, field' \in [1 .. FieldBytes -> 0 .. FieldSize - 1],
             out = "ok" => x \in Encode(w) /\ (Fits(x) => field' = x)
      PROVE  IInv'
  <2>1. /\ calls' \in 0 .. MaxCalls /\ shape' = shape /\ form' = form
        /\ last'.call = "write" /\ last'.word = w /\ last'.bytes = x /\ last'.out = out
        /\ last'.out \in {"ok", "err", "panic"}
    BY <1>1, <1>4, EndsTyped
  <2>2. TypeOK'
    BY <1>1, <1>4, <2>1 DEF IInv, TypeOK, FieldBytes, FieldSize, ByteSeqs
  <2>3. MapTyped' /\ WordsAreDistinct'
    BY <1>1, <2>1 DEF IInv, MapTyped, WordsAreDistinct
  <2>4. ASSUME last'.out = "ok", Fits(last.bytes)'
        PROVE  field' = last'.bytes /\ (last.bytes \in Encode(last.word))'
    <3>1. Fits(x) /\ x \in Encode(w)
      BY <1>4, <2>1, <2>4 DEF Fits, FieldBytes, FieldSize
    <3>2. Encode(last.word)' = Encode(w)
      BY <1>1, <2>1 DEF Encode, KeysFor, Free
    <3> QED BY <1>4, <2>1, <2>4, <3>1, <3>2
  <2>5. WordIsEncoded'
    BY <2>4 DEF WordIsEncoded
  <2> QED BY <2>2, <2>3, <2>5 DEF IInv
<1>5. CASE Encode(w) = {} /\ Ends("write", w, <<>>, "err") /\ UNCHANGED field
  <2>1. <<>> \in ByteSeqs
    BY DEF ByteSeqs
  <2> QED BY <1>2, <1>4, <1>5, <2>1
<1>6. ASSUME NEW v \in Encode(w), Len(v) < FieldBytes,
             NEW out \in TooFew, Ends("write", w, v, out), UNCHANGED field
      PROVE  IInv'
  <2>1. out \in {"err", "panic"}
    BY <1>6 DEF TooFew
  <2>2. v \in ByteSeqs
    BY <1>6, EncodeTyped DEF IInv
  <2> QED BY <1>2, <1>4, <1>6, <2>1, <2>2
<1>7. ASSUME NEW v \in Encode(w), ~(Len(v) < FieldBytes),
             field' = Stored(v, FieldBytes), Ends("write", w, v, "ok")
      PROVE  IInv'
  <2>1. v \in ByteSeqs /\ Len(v) >= FieldBytes
    <3>1. v \in ByteSeqs
      BY <1>7, EncodeTyped DEF IInv
    <3>2. Len(v) \in Nat
      BY <3>1 DEF ByteSeqs
    <3> QED BY <1>2, <1>7, <3>1, <3>2
  <2>2. FieldBytes \in 0 .. FieldBytes
    BY <1>2
  <2>3. field' \in [1 .. FieldBytes -> 0 .. FieldSize - 1] /\ (Fits(v) => field' = v)
    BY <1>2, <1>7, <2>1, <2>2, StoredIs
  <2> QED BY <1>4, <1>7, <2>1, <2>3
<1>8. ASSUME NEW v \in Encode(w), ~(Len(v) < FieldBytes), NEW n \in 0 .. FieldBytes,
             field' = Stored(v, n), Ends("write", w, v, "err")
      PROVE  IInv'
  <2>1. v \in ByteSeqs /\ Len(v) >= FieldBytes
    <3>1. v \in ByteSeqs
      BY <1>8, EncodeTyped DEF IInv
    <3>2. Len(v) \in Nat
      BY <3>1 DEF ByteSeqs
    <3> QED BY <1>2, <1>8, <3>1, <3>2
  <2>2. field' \in [1 .. FieldBytes -> 0 .. FieldSize - 1]
    BY <1>2, <1>8, <2>1, StoredIs
  <2> QED BY <1>4, <1>8, <2>1, <2>2
<1> QED BY <1>5, <1>6, <1>7, <1>8 DEF WriteWord

\* An edit leaves a map from bytes to distinct words.
LEMMA EditKeeps ==
  ASSUME IInv, NEW key \in DOMAIN map, NEW w \in Words[shape], NEW refused \in BOOLEAN,
         EditEntry(key, w, refused)
  PROVE  IInv'
<1> DEFINE out == IF refused THEN "err" ELSE "ok"
<1>1. /\ Usable /\ map' = EditedMap(key, w, refused) /\ field' = field
      /\ Ends("edit", w, key, out) /\ out \in {"ok", "err", "panic"}
  BY DEF EditEntry
<1> HIDE DEF out
<1>2. /\ calls' \in 0 .. MaxCalls /\ shape' = shape /\ form' = form
      /\ last'.call = "edit" /\ last'.out \in {"ok", "err", "panic"}
  BY <1>1, EndsTyped
<1>3. /\ map' \in [DOMAIN map' -> Words[shape]] /\ IsFiniteSet(DOMAIN map')
      /\ \A k \in DOMAIN map' : k # AnyValue => k \in ByteSeqs
      /\ shape = "Keywords" => \A j, k \in DOMAIN map' : map'[j] = map'[k] => j = k
  BY <1>1, EditedKeeps DEF IInv
<1>4. MapTyped' /\ WordsAreDistinct'
  BY <1>2, <1>3 DEF IInv, MapTyped, WordsAreDistinct
<1>5. TypeOK'
  BY <1>1, <1>2, <1>3 DEF IInv, TypeOK, FieldBytes, FieldSize, ByteSeqs
<1>6. WordIsEncoded'
  BY <1>2 DEF WordIsEncoded
<1> QED BY <1>4, <1>5, <1>6 DEF IInv

\* Every call keeps the invariant.
LEMMA NextKeeps ==
  ASSUME IInv, [Next]_vars
  PROVE  IInv'
<1>1. CASE ReadWord
  BY <1>1, ReadKeeps
<1>2. ASSUME NEW w \in Words[shape], WriteWord(w) PROVE IInv'
  BY <1>2, WriteKeeps
<1>3. ASSUME NEW w \in Words[shape], NEW key \in DOMAIN map, NEW refused \in BOOLEAN,
             EditEntry(key, w, refused)
      PROVE  IInv'
  BY <1>3, EditKeeps
<1>4. CASE UNCHANGED vars
  <2>1. /\ shape' = shape /\ map' = map /\ form' = form /\ field' = field
        /\ calls' = calls /\ last' = last
    BY <1>4 DEF vars
  <2>2. Encode(last.word)' = Encode(last.word) /\ Fits(last.bytes)' = Fits(last.bytes)
    BY <2>1 DEF Encode, KeysFor, Free, Fits, FieldBytes, FieldSize
  <2>3. TypeOK'
    BY <2>1 DEF IInv, TypeOK, FieldBytes, FieldSize
  <2>4. MapTyped' /\ WordsAreDistinct'
    BY <2>1 DEF IInv, MapTyped, WordsAreDistinct
  <2>5. WordIsEncoded'
    BY <2>1, <2>2 DEF IInv, WordIsEncoded
  <2> QED BY <2>3, <2>4, <2>5 DEF IInv
<1> QED BY <1>1, <1>2, <1>3, <1>4 DEF Next

\* The maps stay maps from bytes to distinct words, and the field holds what the
\* last word was encoded to.
THEOREM InvHolds == Spec => []IInv
BY InitHolds, NextKeeps, PTL DEF Spec

\* What encode gives are bytes and the field keeps bytes of its form, however
\* many keys the map has and whatever is edited.
THEOREM TypeCorrect == Spec => []TypeOK
<1>1. IInv => TypeOK
  BY DEF IInv
<1> QED BY <1>1, InvHolds, PTL

\* A keyword map stays a bijection through every edit, so a word says which
\* bytes to write.
THEOREM WordsStayDistinct == Spec => []WordsAreDistinct
<1>1. IInv => WordsAreDistinct
  BY DEF IInv
<1> QED BY <1>1, InvHolds, PTL

\* A refused edit leaves the map as it was, although the pair was taken out.
THEOREM RefusalKeepsMap == Spec => RefusedEditKeepsMap
<1>1. IInv /\ [Next]_vars => [last'.call = "edit" /\ last'.out = "err" => map' = map]_vars
  <2> SUFFICES ASSUME IInv, Next, last'.call = "edit", last'.out = "err"
               PROVE  map' = map
    OBVIOUS
  <2>1. CASE ReadWord
    BY <2>1 DEF ReadWord
  <2>2. ASSUME NEW w \in Words[shape], WriteWord(w) PROVE map' = map
    BY <2>2 DEF WriteWord
  <2>3. ASSUME NEW w \in Words[shape], NEW key \in DOMAIN map, NEW refused \in BOOLEAN,
               EditEntry(key, w, refused)
        PROVE  map' = map
    <3>1. refused
      BY <2>3 DEF EditEntry, Ends
    <3> QED BY <2>3, <3>1, EditedKeeps DEF EditEntry, IInv
  <2> QED BY <2>1, <2>2, <2>3 DEF Next
<1> QED BY <1>1, InvHolds, PTL DEF Spec, RefusedEditKeepsMap

\* A word that was written to a field with room for it is read back, and a
\* number as one of the nearest, for every map and however it was edited before.
THEOREM WordIsAlwaysReadBack == Spec => WordIsReadBack
<1>1. IInv /\ [Next]_vars
        => [last.call = "write" /\ last.out = "ok" /\ Fits(last.bytes)
            /\ last'.call = "read" /\ last'.bytes # <<>>
            => /\ last'.out = "ok"
               /\ IF shape = "Floating"
                    THEN \A k \in DOMAIN map :
                           Distance(last.word, last'.word) <= Distance(last.word, map[k])
                    ELSE last'.word = last.word]_vars
  <2> SUFFICES ASSUME IInv, Next,
                      last.call = "write", last.out = "ok", Fits(last.bytes),
                      last'.call = "read", last'.bytes # <<>>
               PROVE  last'.out = "ok" /\ Near(last.word, last'.word)
    BY DEF Near
  <2>1. field = last.bytes /\ last.bytes \in Encode(last.word) /\ MapTyped
    BY DEF IInv, WordIsEncoded
  <2>2. PICK x : Lookup(field) = {x} /\ Near(last.word, x)
    BY <2>1, LookupUndoes
  <2>3. ReadWord
    BY DEF Next, WriteWord, EditEntry, Ends
  <2>4. ~Ends("read", AnyValue, <<>>, "err")
    BY DEF Ends
  <2>5. \E w \in Lookup(field) : Ends("read", w, field, "ok")
    BY <2>2, <2>3, <2>4 DEF ReadWord
  <2>6. Ends("read", x, field, "ok")
    BY <2>2, <2>5
  <2> QED BY <2>2, <2>6 DEF Ends
<1> QED BY <1>1, InvHolds, PTL DEF Spec, WordIsReadBack

================================================================================
