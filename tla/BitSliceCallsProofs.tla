-------------------------- MODULE BitSliceCallsProofs --------------------------
(***************************************************************************)
(* What every execution of the calls of BitSliceCalls keeps, for vectors   *)
(* and values of any length and slices anywhere: the theorems about slice  *)
(* and slice_write of BitSliceProofs, carried to the steps that call them. *)
(***************************************************************************)
EXTENDS BitSliceCalls, BitSliceProofs

\* The vector between the calls.
Vector == v \in Seq(Byte)

\* The slices that are called with are those the theorems of BitSliceProofs are about.
LEMMA SlicesAreRanges == Slices \subseteq Ranges
BY BytesAssumption DEF Slices, Ranges

\* A call of slice cuts the vector.
LEMMA CutStep ==
  ASSUME Vector, NEW s \in Slices, CallSlice(s)
  PROVE  /\ Vector'
         /\ last'.call = "slice" /\ last'.s = s
         /\ Row(v') = Cut(Row(v), s) /\ Len(v') = ByteCount(s)
<1>1. s \in Ranges
  BY SlicesAreRanges
<1>2. ~SlicePanics(v, s) /\ v' = Slice(v, s) /\ last' = [call |-> "slice", s |-> s, arg |-> <<>>]
  BY DEF CallSlice
<1> QED BY <1>1, <1>2, SliceIsCut DEF Vector

\* A call of slice_write pastes the value into the vector.
LEMMA PasteStep ==
  ASSUME Vector, NEW s \in Slices, NEW value \in Values, CallSliceWrite(s, value)
  PROVE  /\ Vector'
         /\ last'.call = "slice_write" /\ last'.s = s /\ last'.arg = value
         /\ Row(v') = Paste(Row(v), Row(value), s) /\ Len(v') = Len(v)
<1>1. s \in Ranges /\ value \in Seq(Byte)
  BY SlicesAreRanges, BytesAssumption
<1>2. /\ ~SliceWritePanics(v, value, s) /\ v' = SliceWrite(v, value, s)
      /\ last' = [call |-> "slice_write", s |-> s, arg |-> value]
  BY DEF CallSliceWrite
<1> QED BY <1>1, <1>2, SliceWriteIsPaste DEF Vector

\* A call leaves a vector of bytes.
LEMMA VectorStep ==
  ASSUME Vector, [Next]_vars
  PROVE  Vector'
<1>1. CASE \E s \in Slices : CallSlice(s)
  BY <1>1, CutStep
<1>2. CASE \E s \in Slices, value \in Values : CallSliceWrite(s, value)
  BY <1>2, PasteStep
<1>3. CASE UNCHANGED vars
  BY <1>3 DEF vars, Vector
<1> QED BY <1>1, <1>2, <1>3 DEF Next

\* The calls leave a vector of bytes.
THEOREM VectorsStay == Spec => []Vector
<1>1. Init => Vector
  BY BytesAssumption DEF Init, Vector
<1>2. Vector /\ [Next]_vars => Vector'
  BY VectorStep
<1> QED BY <1>1, <1>2, PTL DEF Spec

-----------------------------------------------------------------------------
\* slice and slice_write panic on a slice that ends beyond the vector and on no
\* other, for every vector and every slice.
THEOREM BoundsAreExact == Spec => []FitsIfInside
<1>1. Vector => FitsIfInside
  <2> SUFFICES ASSUME Vector, NEW s \in Slices
               PROVE  SlicePanics(v, s) <=> BytesTo(s) > Len(v)
    BY DEF FitsIfInside
  <2>1. s \in Ranges
    BY SlicesAreRanges
  <2>2. s.start \in Nat /\ s.end \in Nat /\ s.start < s.end
    BY <2>1, Sizes
  <2> QED BY <2>1, <2>2, BoundsAgree DEF SlicePanics
<1> QED BY <1>1, VectorsStay, PTL

\* slice leaves the bits of its range, moved to the start, and nothing else.
THEOREM SliceCutsAlways == Spec => SliceCuts
<1>1. Vector /\ [Next]_vars
        => [last'.call = "slice" => /\ Row(v') = Cut(Row(v), last'.s)
                                    /\ Len(v') = ByteCount(last'.s)]_vars
  <2> SUFFICES ASSUME Vector, Next, last'.call = "slice"
               PROVE  Row(v') = Cut(Row(v), last'.s) /\ Len(v') = ByteCount(last'.s)
    OBVIOUS
  <2>1. CASE \E s \in Slices : CallSlice(s)
    BY <2>1, CutStep
  <2>2. CASE \E s \in Slices, value \in Values : CallSliceWrite(s, value)
    BY <2>2, PasteStep
  <2> QED BY <2>1, <2>2 DEF Next
<1> QED BY <1>1, VectorsStay, PTL DEF Spec, SliceCuts

\* slice_write puts the first bits of the value in its range and touches no
\* other bit.
THEOREM SliceWritePastesAlways == Spec => WritePastes
<1>1. Vector /\ [Next]_vars
        => [last'.call = "slice_write" =>
              /\ Row(v') = Paste(Row(v), Row(last'.arg), last'.s)
              /\ Len(v') = Len(v)]_vars
  <2> SUFFICES ASSUME Vector, Next, last'.call = "slice_write"
               PROVE  Row(v') = Paste(Row(v), Row(last'.arg), last'.s) /\ Len(v') = Len(v)
    OBVIOUS
  <2>1. CASE \E s \in Slices : CallSlice(s)
    BY <2>1, CutStep
  <2>2. CASE \E s \in Slices, value \in Values : CallSliceWrite(s, value)
    BY <2>2, PasteStep
  <2> QED BY <2>1, <2>2 DEF Next
<1> QED BY <1>1, VectorsStay, PTL DEF Spec, WritePastes
===============================================================================
