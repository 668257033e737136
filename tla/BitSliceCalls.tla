----------------------------- MODULE BitSliceCalls -----------------------------
(***************************************************************************)
(* A caller of bit_slice.rs: one vector is cut and overwritten by calls    *)
(* with any slice that fits it, one after the other.                       *)
(***************************************************************************)
EXTENDS BitSlice

CONSTANTS
  Vectors,      \* the vectors to start with
  Values,       \* the values written
  MaxEnd,       \* the largest end of a slice
  MaxCalls      \* the calls of one execution: the bound of the model

ASSUME BytesAssumption ==
  /\ Vectors \subseteq Seq(Byte) /\ Values \subseteq Seq(Byte)
  /\ MaxEnd \in Nat /\ MaxCalls \in Nat

Slices == {s \in [start : 0 .. MaxEnd, end : 0 .. MaxEnd] : s.start < s.end}

VARIABLES v, calls, last

vars == <<v, calls, last>>

Init ==
  /\ v \in Vectors
  /\ calls = 0
  /\ last = [call |-> "none"]

\* v.map(|v| slice(v, address))
CallSlice(s) ==
  /\ calls < MaxCalls
  /\ ~SlicePanics(v, s)
  /\ calls' = calls + 1
  /\ v' = Slice(v, s)
  /\ last' = [call |-> "slice", s |-> s, arg |-> <<>>]

\* slice_write(&mut v, value, address)
CallSliceWrite(s, value) ==
  /\ calls < MaxCalls
  /\ ~SliceWritePanics(v, value, s)
  /\ calls' = calls + 1
  /\ v' = SliceWrite(v, value, s)
  /\ last' = [call |-> "slice_write", s |-> s, arg |-> value]

Next ==
  \/ \E s \in Slices : CallSlice(s)
  \/ \E s \in Slices, value \in Values : CallSliceWrite(s, value)

Spec == Init /\ [][Next]_vars

-----------------------------------------------------------------------------
\* slice cuts exactly the bits of its range out of the row and leaves only
\* whole bytes, padded with zeros, although it overwrites the vector it reads.
SliceCuts ==
  [][last'.call = "slice" =>
       /\ Row(v') = Cut(Row(v), last'.s)
       /\ Len(v') = ByteCount(last'.s)]_vars

\* slice_write changes the bits of its range and no other: they become the
\* first bits of the value.
WritePastes ==
  [][last'.call = "slice_write" =>
       /\ Row(v') = Paste(Row(v), Row(last'.arg), last'.s)
       /\ Len(v') = Len(v)]_vars

\* The calls panic on a slice that ends beyond the vector and on no other: the
\* bounds checks of the two loops are those of the range.
FitsIfInside ==
  \A s \in Slices : SlicePanics(v, s) <=> BytesTo(s) > Len(v)

\* The number a vector of bytes in big endian order stands for, as a row.
BigEndianRow(w) == Row([i \in DOMAIN w |-> w[Len(w) + 1 - i]])

\* The comment on slice: v is in big endian order, and is shifted to the right
\* by the start of the slice.
SliceShiftsBigEndian ==
  [][last'.call = "slice" =>
       BigEndianRow(v') = Cut(BigEndianRow(v), last'.s)]_vars
===============================================================================
