------------------------------- MODULE ValueMap -------------------------------
(***************************************************************************)
(* valuemap.rs, and the value file of a function that has a value map:     *)
(* words stand for bytes of a field of the sensor.  The map is itself a    *)
(* directory of the file system, whose entries can be edited while the     *)
(* daemon runs (fuseable: Fuseable for BiMap and for HashMap).             *)
(*                                                                         *)
(* A byte is a number up to ByteMax.  The field is what the channel makes  *)
(* of it: FieldBytes bytes, each of which keeps the numbers below FieldSize*)
(* of what is written.                                                     *)
(***************************************************************************)
EXTENDS Integers, Sequences, FiniteSets

CONSTANTS
  ByteMax,      \* the largest byte: 255 in the code
  Forms,        \* the forms of fields to model: the bytes a field takes, and
                \* the numbers its bits tell apart in a byte
  AnyValue,     \* Value::Any
  Maps,         \* the value maps to start with: [shape, map]
  Words,        \* for each shape, what clients write
  Huge,         \* the numbers of Fixed maps that take eight bytes
  MaxCalls      \* the calls of one execution: the bound of the model

ASSUME SizesAssumption ==
  /\ ByteMax \in Nat \ {0}
  /\ Forms \subseteq [bytes : Nat \ {0}, size : 1 .. ByteMax + 1]

Shapes == {"Keywords", "Floating", "Fixed"}

\* A keyword map is a bijection, which no key or word is twice in; the others
\* are hash maps.
ASSUME MapsAssumption ==
  /\ AnyValue \notin Seq(0 .. ByteMax)
  /\ MaxCalls \in Nat
  /\ \A m \in Maps :
       /\ m.shape \in Shapes
       /\ m.map \in [DOMAIN m.map -> Words[m.shape]]
       /\ IsFiniteSet(DOMAIN m.map)
       /\ \A k \in DOMAIN m.map : k # AnyValue => k \in Seq(0 .. ByteMax)
       /\ m.shape = "Keywords" =>
            \A j, k \in DOMAIN m.map : m.map[j] = m.map[k] => j = k

VARIABLES
  shape,        \* "Keywords", "Floating" or "Fixed"
  map,          \* the words of the keys; a key is a sequence of bytes or Any
  form,         \* the form of the field
  field,        \* the bytes of the field in the sensor
  calls,        \* the number of calls so far
  last          \* the last call

vars == <<shape, map, form, field, calls, last>>

FieldBytes == form.bytes
FieldSize  == form.size

-----------------------------------------------------------------------------
(* lookup and encode: sets of results, for what depends on the order of a  *)
(* hash map; the empty set is an error.                                    *)

Lookup(v) ==
  IF v \in DOMAIN map THEN {map[v]}
  ELSE IF AnyValue \in DOMAIN map THEN {map[AnyValue]} ELSE {}

\* Mutant of Candidate: the last byte is counted on beyond its end.
CandidateOver(k) == <<k>>

\* The values that stand for Any are tried in this order: the last byte is
\* counted up from 1, and at its end becomes 0 with a 1 behind it.
Candidate(k) ==
  LET n == (k - 1) \div ByteMax + 1
  IN [i \in 1 .. n |-> IF i = n THEN ((k - 1) % ByteMax) + 1 ELSE 0]

\* Mutant of Free: the search does not look at the map.
FreeUnchecked == Candidate(1)

\* The first of them that is no key; one of the first Cardinality + 1 is.
Free ==
  LET free == {k \in 1 .. Cardinality(DOMAIN map) + 1 : Candidate(k) \notin DOMAIN map}
  IN Candidate(CHOOSE k \in free : \A j \in free : k <= j)

Distance(a, b) == IF a < b THEN b - a ELSE a - b

\* The keys that encode may pick for word w: the key of a keyword, those of the
\* nearest numbers, and those of the number itself, if it has eight bytes.
KeysFor(w) ==
  CASE shape = "Keywords" -> {k \in DOMAIN map : map[k] = w}
    [] shape = "Floating" ->
         {k \in DOMAIN map :
            \A j \in DOMAIN map : Distance(w, map[k]) <= Distance(w, map[j])}
    [] shape = "Fixed" -> {k \in DOMAIN map : w \in Huge /\ map[k] = w}

Encode(w) == {IF k = AnyValue THEN Free ELSE k : k \in KeysFor(w)}

-----------------------------------------------------------------------------
Init ==
  /\ \E m \in Maps : shape = m.shape /\ map = m.map
  /\ form \in Forms
  /\ field = [i \in 1 .. form.bytes |-> 0]
  /\ calls = 0
  /\ last = [call |-> "none", out |-> "ok"]

Usable == calls < MaxCalls /\ last.out # "panic"

Ends(call, w, v, out) ==
  /\ calls' = calls + 1
  /\ last' = [call |-> call, word |-> w, bytes |-> v, out |-> out]
  /\ UNCHANGED <<shape, form>>

\* Function::read_value, where the device may fail.
ReadWord ==
  /\ Usable
  /\ \/ Ends("read", AnyValue, <<>>, "err")
     \/ Lookup(field) = {} /\ Ends("read", AnyValue, field, "err")
     \/ \E w \in Lookup(field) : Ends("read", w, field, "ok")
  /\ UNCHANGED <<map, field>>

\* The first n bytes of v have arrived.
Stored(v, n) ==
  [i \in 1 .. FieldBytes |-> IF i <= n THEN v[i] % FieldSize ELSE field[i]]

\* How a write of too few bytes ends.  A field of bits is read first, which may
\* fail before the panic.
TooFew == IF FieldSize <= ByteMax THEN {"panic", "err"} ELSE {"panic"}

\* Function::write_value: what the channel keeps of the encoded bytes, which
\* panics when they are fewer than those of the field, or those that arrived
\* before the device failed.
WriteWord(w) ==
  /\ Usable
  /\ UNCHANGED map
  /\ \/ Encode(w) = {} /\ Ends("write", w, <<>>, "err") /\ UNCHANGED field
     \/ \E v \in Encode(w) :
          IF Len(v) < FieldBytes
            THEN UNCHANGED field /\ \E out \in TooFew : Ends("write", w, v, out)
            ELSE \/ field' = Stored(v, FieldBytes) /\ Ends("write", w, v, "ok")
                 \/ \E n \in 0 .. FieldBytes :
                      field' = Stored(v, n) /\ Ends("write", w, v, "err")

\* Mutant of Inserted: the key that had the word keeps it.
InsertedBeside(m, key, w) ==
  [k \in DOMAIN m \cup {key} |-> IF k = key THEN w ELSE m[k]]

\* insert of BiMap: a pair with the same word goes.
Inserted(m, key, w) ==
  [k \in {key} \cup {j \in DOMAIN m : m[j] # w} |-> IF k = key THEN w ELSE m[k]]

Without(m, key) == [k \in DOMAIN m \ {key} |-> m[k]]

\* Mutant of EditedMap: an error returns before the pair is inserted again.
EditedMapEarly(key, w, refused) ==
  IF shape = "Keywords"
    THEN IF refused THEN Without(map, key) ELSE Inserted(Without(map, key), key, w)
    ELSE IF refused THEN map ELSE [map EXCEPT ![key] = w]

\* The pair is taken out, its word is written, and it is inserted again; the
\* word of a hash map is written in place.
EditedMap(key, w, refused) ==
  IF shape = "Keywords"
    THEN Inserted(Without(map, key), key, IF refused THEN map[key] ELSE w)
    ELSE IF refused THEN map ELSE [map EXCEPT ![key] = w]

\* Fuseable::write on an entry of the map: the word may be refused, as no text
\* or no number, or for a path that goes on behind the key.
EditEntry(key, w, refused) ==
  /\ Usable
  /\ key \in DOMAIN map
  /\ map' = EditedMap(key, w, refused)
  /\ Ends("edit", w, key, IF refused THEN "err" ELSE "ok")
  /\ UNCHANGED field

Next ==
  \/ ReadWord
  \/ \E w \in Words[shape] :
       \/ WriteWord(w)
       \/ \E key \in DOMAIN map, refused \in BOOLEAN : EditEntry(key, w, refused)

Spec == Init /\ [][Next]_vars

-----------------------------------------------------------------------------
\* The state has its types: in particular what encode gives are bytes.
TypeOK ==
  /\ shape \in Shapes
  /\ \A k \in DOMAIN map : map[k] \in Words[shape] /\ (k # AnyValue => k \in Seq(0 .. ByteMax))
  /\ form \in Forms
  /\ field \in [1 .. FieldBytes -> 0 .. FieldSize - 1]
  /\ calls \in 0 .. MaxCalls
  /\ last.out \in {"ok", "err", "panic"}
  /\ last.call = "write" => last.bytes \in Seq(0 .. ByteMax)

\* The field has room for what encode gives.
Fits(v) == Len(v) = FieldBytes /\ \A i \in DOMAIN v : v[i] < FieldSize

\* A word that was written is the word that is read, and a number is read as
\* one of the nearest, whatever was edited before: also when the word is that
\* of every value without a key of its own.
WordIsReadBack ==
  [][last.call = "write" /\ last.out = "ok" /\ Fits(last.bytes)
     /\ last'.call = "read" /\ last'.bytes # <<>>
     => /\ last'.out = "ok"
        /\ IF shape = "Floating"
             THEN \A k \in DOMAIN map :
                    Distance(last.word, last'.word) <= Distance(last.word, map[k])
             ELSE last'.word = last.word]_vars

\* No two keys of a keyword map have the same word, however it is edited, so
\* that a word says which bytes to write.
WordsAreDistinct ==
  shape = "Keywords" => \A j, k \in DOMAIN map : map[j] = map[k] => j = k

\* An edit that is refused leaves the map as it was, although the pair was taken
\* out of it.
RefusedEditKeepsMap ==
  [][last'.call = "edit" /\ last'.out = "err" => map' = map]_vars
===============================================================================
