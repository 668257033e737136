------------------------------ MODULE CommChannel ------------------------------
(***************************************************************************)
(* communication_channel/mod.rs: reading and writing the bytes of a device *)
(* at an address, for real or in mock mode.                                *)
(*                                                                         *)
(* An address is the bytes of its base, which are numbers, and a slice of  *)
(* bits, or NoSlice ("unbounded").  The two channels differ in where they  *)
(* find a base and in what they check: the mapping of MMAPGPIO has an end, *)
(* the registers behind I2CCdev are the sensor's business.  A call is one  *)
(* step: FuseServer shows that the calls on a channel do not overlap.      *)
(***************************************************************************)
EXTENDS BitSlice, SequencesExt

CONSTANTS
  Kinds,        \* the channels to model: "i2c" and "mmap"
  Mocks,        \* the values of the --mock flag to model
  NoSlice,      \* slice: None
  Addresses,    \* the addresses of the registers and functions
  Values,       \* the vectors of bytes that are written
  Memories,     \* the device contents to start with
  MaxCalls      \* the calls of one execution: the bound of the model

BitSlices == [start : Nat, end : Nat]

ASSUME ChannelAssumption ==
  /\ Kinds \subseteq {"i2c", "mmap"} /\ Mocks \subseteq BOOLEAN
  /\ NoSlice \notin BitSlices
  /\ Addresses \subseteq [base : Seq(0 .. 255), slice : {NoSlice} \cup BitSlices]
  /\ Values \subseteq Seq(Byte) /\ Memories \subseteq Seq(Byte)
  /\ MaxCalls \in Nat

VARIABLES
  kind,         \* the type of the channel
  mock,         \* the flag mock_mode has set, before the daemon serves
  mem,          \* the bytes of the device
  opened,       \* dev is Some
  calls,        \* the number of calls so far
  last          \* the last call, its arguments and its outcome

vars == <<kind, mock, mem, opened, calls, last>>

-----------------------------------------------------------------------------
(* Address: what nontrivial_slice, unbounded and bytes say.                *)

Unbounded(a) == a.slice = NoSlice

Nontrivial(a) ==
  Unbounded(a) \/ a.slice.start % 8 # 0 \/ a.slice.end % 8 # 0

\* The number of the bytes, most significant first.
BigEndian(base) ==
  LET n[i \in 0 .. Len(base)] == IF i = 0 THEN 0 ELSE 256 * n[i - 1] + base[i]
  IN n[Len(base)]

\* as_u64 goes from the last byte to the first and asserts that there are no
\* more than eight.
AsU64(base) == BigEndian(Reverse(base))

AsU64Panics(base) == Len(base) > 8

\* How many bytes of the device are before the address.  An I2C device is sent
\* the base and takes it for a big endian number.
Offset(a) == IF kind = "mmap" THEN AsU64(a.base) ELSE BigEndian(a.base)

\* There is an offset to go to.
Offsets(a) == kind = "mmap" => ~AsU64Panics(a.base)

\* The bytes of the device from the base to the end of the slice.
Place(a) == {Offset(a) + i : i \in 1 .. BytesTo(a.slice)}

-----------------------------------------------------------------------------
(* Outcomes.  A function of the code that uses the device is the set of the*)
(* outcomes it can have with device contents m and cached device o.        *)

Outcome(out, val, m, o) == [out |-> out, val |-> val, mem |-> m, opened |-> o]

\* with_dev: the device is opened if it is not cached and stays cached
\* whatever becomes of the transfer.
WithDev(m, o, transfers) ==
  (IF o THEN {} ELSE {Outcome("err", <<>>, m, FALSE)}) \cup transfers

\* Reading the mapping fails only beyond its end; an I2C transfer always can.
ReadReal(a, m, o) ==
  IF ~Offsets(a) THEN {Outcome("panic", <<>>, m, o)}
  ELSE LET fits == ~Unbounded(a) /\ Offset(a) + BytesTo(a.slice) <= Len(m)
       IN WithDev(m, o,
            (IF kind = "mmap" /\ fits THEN {} ELSE {Outcome("err", <<>>, m, TRUE)})
            \cup
            (IF fits
               THEN {Outcome("ok", SubSeq(m, Offset(a) + 1, Offset(a) + BytesTo(a.slice)),
                             m, TRUE)}
               ELSE {}))

\* Mutant of Overwritten: the byte of the address is counted as data.
OverwrittenBehind(m, b, v) ==
  [i \in DOMAIN m |-> IF i - b - 1 \in DOMAIN v THEN v[i - b - 1] ELSE m[i]]

\* m with the bytes v from number b on, as far as m reaches.
Overwritten(m, b, v) ==
  [i \in DOMAIN m |-> IF i - b \in DOMAIN v THEN v[i - b] ELSE m[i]]

\* An I2C transfer can fail after any number of bytes, and does when the device
\* has no more registers; writing the mapping cannot fail, but an index beyond
\* its end panics after the bytes before it.  A value of no bytes is written nowhere.
WriteReal(a, v, m, o) ==
  IF ~Offsets(a) THEN {Outcome("panic", <<>>, m, o)}
  ELSE LET fits == v = <<>> \/ Offset(a) + Len(v) <= Len(m)
           done == Overwritten(m, Offset(a), v)
       IN WithDev(m, o,
            IF kind = "mmap"
              THEN {Outcome(IF fits THEN "ok" ELSE "panic", <<>>, done, TRUE)}
              ELSE {Outcome("err", <<>>, Overwritten(m, Offset(a), SubSeq(v, 1, n)), TRUE) :
                      n \in 0 .. Len(v)}
                     \cup IF fits THEN {Outcome("ok", <<>>, done, TRUE)} ELSE {})

\* read_value_mock and write_value_mock
ReadMock(a, m, o) ==
  {Outcome("ok", IF Unbounded(a) THEN <<>> ELSE [i \in 1 .. BytesTo(a.slice) |-> {}],
           m, o)}

WriteMock(a, v, m, o) == {Outcome("ok", <<>>, m, o)}

-----------------------------------------------------------------------------
(* CommChannel::read_value and write_value.                                *)

Sliced(a, x) ==
  IF Unbounded(a) THEN x
  ELSE IF SlicePanics(x.val, a.slice) THEN [x EXCEPT !.out = "panic"]
  ELSE [x EXCEPT !.val = Slice(x.val, a.slice)]

ReadValue(a, m, o) ==
  {IF x.out = "ok" THEN Sliced(a, x) ELSE x :
     x \in IF mock THEN ReadMock(a, m, o) ELSE ReadReal(a, m, o)}

\* Mutant of Put: the mock flag is not looked at when writing.
PutReal(a, v, m, o) == WriteReal(a, v, m, o)

Put(a, v, m, o) == IF mock THEN WriteMock(a, v, m, o) ELSE WriteReal(a, v, m, o)

\* slice_write on what was read, which read_value has already sliced.
Merge(a, v, x) ==
  IF Unbounded(a) \/ SliceWritePanics(x.val, v, a.slice)
    THEN {[x EXCEPT !.out = "panic", !.val = <<>>]}
    ELSE Put(a, SliceWrite(x.val, v, a.slice), x.mem, x.opened)

\* Mutant of Whole: the whole value is written, however long it is.
WholeUncut(a, v, m, o) ==
  IF a.slice.end \div 8 > Len(v) \/ a.slice.start > a.slice.end
    THEN {Outcome("panic", <<>>, m, o)}
    ELSE Put(a, v, m, o)

\* A slice of whole bytes: those of v that lie in it.
Whole(a, v, m, o) ==
  IF a.slice.end \div 8 > Len(v) \/ a.slice.start > a.slice.end
    THEN {Outcome("panic", <<>>, m, o)}
    ELSE Put(a, SubSeq(v, a.slice.start \div 8 + 1, a.slice.end \div 8), m, o)

WriteValue(a, v, m, o) ==
  IF Nontrivial(a)
    THEN UNION {IF x.out = "ok" THEN Merge(a, v, x) ELSE {x} : x \in ReadValue(a, m, o)}
    ELSE Whole(a, v, m, o)

-----------------------------------------------------------------------------
(* A client of one channel.                                                *)

NoCall == [call |-> "none", addr |-> NoSlice, arg |-> <<>>, out |-> "ok", val |-> <<>>]

Init ==
  /\ kind \in Kinds
  /\ mock \in Mocks
  /\ mem \in Memories
  /\ opened = FALSE
  /\ calls = 0
  /\ last = NoCall

\* After a panic the register set is poisoned and nobody calls again.
Usable == calls < MaxCalls /\ last.out # "panic"

Ends(call, a, v, x) ==
  /\ mem' = x.mem
  /\ opened' = x.opened
  /\ calls' = calls + 1
  /\ last' = [call |-> call, addr |-> a, arg |-> v, out |-> x.out, val |-> x.val]
  /\ UNCHANGED <<kind, mock>>

Read(a) ==
  /\ Usable
  /\ \E x \in ReadValue(a, mem, opened) : Ends("read", a, <<>>, x)

Write(a, v) ==
  /\ Usable
  /\ \E x \in WriteValue(a, v, mem, opened) : Ends("write", a, v, x)

Next == \E a \in Addresses : Read(a) \/ \E v \in Values : Write(a, v)

Spec == Init /\ [][Next]_vars

-----------------------------------------------------------------------------
TypeOK ==
  /\ kind \in Kinds
  /\ mock \in Mocks
  /\ mem \in Seq(Byte)
  /\ opened \in BOOLEAN
  /\ calls \in 0 .. MaxCalls
  /\ last.out \in {"ok", "err", "panic"}
  /\ last.val \in Seq(Byte)

\* In mock mode the channels never do anything: no device is opened, no byte
\* of one is changed, and what is read is nothing but zeros.
MockIsInert ==
  [][mock => /\ mem' = mem
             /\ opened' = opened
             /\ \A i \in DOMAIN last'.val : last'.val[i] = {}]_vars

\* Whatever happens, a write changes no byte outside the bytes that its
\* address spans: even a failed or wrong one spares the registers beside it.
OtherRegistersKept ==
  [][\A i \in DOMAIN mem :
       mem'[i] # mem[i] =>
         /\ last'.call = "write"
         /\ ~Unbounded(last'.addr)
         /\ i \in Place(last'.addr)]_vars

\* What was written is what reading the same address gives, as many bits of it
\* as the address has, although both cut the value in their own way; only a
\* slice of whole bytes behind the first is another matter (BitsBesideKept).
WrittenIsReadBack ==
  [][/\ last.call = "write" /\ last.out = "ok" /\ ~mock
     /\ Nontrivial(last.addr) \/ last.addr.slice.start = 0
     /\ last'.call = "read" /\ last'.out = "ok" /\ last'.addr = last.addr
     => Row(last'.val) = Row(last.arg) \cap 0 .. BitCount(last.addr.slice) - 1]_vars

\* The bits of the device that a call has changed.
Changed == (Row(mem) \ Row(mem')) \cup (Row(mem') \ Row(mem))

\* The comments on Address and on slice_write: the slice says from which bit to
\* which an address goes, and the value is written from there to there; so the
\* other bits of the bytes it spans stay.
BitsBesideKept ==
  [][last'.call = "write" /\ ~Unbounded(last'.addr) =>
       \A n \in Changed : n - 8 * Offset(last'.addr) \in Inside(last'.addr.slice)]_vars

\* The comment on Address: without a slice, a write starts at bit 0 and writes
\* the whole value.
UnboundedWrites ==
  [][last'.call = "write" /\ Unbounded(last'.addr) => last'.out # "panic"]_vars
===============================================================================
