------------------------------- MODULE BitSlice -------------------------------
(***************************************************************************)
(* bit_slice.rs: cutting a range of bits out of a vector of bytes and      *)
(* writing it back, and the parts of address.rs that say what a range      *)
(* needs.  A byte is the set of the numbers of its bits that are 1, so &,  *)
(* |, ! and the shifts are set operations; bytes are counted from 1.       *)
(***************************************************************************)
EXTENDS Integers, Sequences

Bits == 0 .. 7
Byte == SUBSET Bits

\* Mutant of ShiftLeft: the widened value is not cut back to a byte.
ShiftLeftWide(b, n) == {i + n : i \in b}

\* << and >> on u8: bits shifted out are lost.
ShiftLeft(b, n)  == {i + n : i \in b} \cap Bits
ShiftRight(b, n) == {i - n : i \in b} \cap Bits

MaskedWrite(val, cur, m) == (val \cap m) \cup (cur \ m)

-----------------------------------------------------------------------------
(* What a range [start, end) of bits takes.                                *)

ByteOffset(s) == s.start \div 8
BitOffset(s)  == s.start % 8
BitCount(s)   == s.end - s.start

\* The bytes its bits fill, and the bits in the last of them (1 to 8).
ByteCount(s) == (BitCount(s) + 7) \div 8
EndBits(s)   == 8 - (ByteCount(s) * 8 - BitCount(s))

\* The last of its bits lie in two bytes.
Crosses(s) == BitOffset(s) + EndBits(s) > 8

\* Mutant of LastIndex: the byte after a crossing is not counted.
LastIndexNoCarry(s) == ByteOffset(s) + ByteCount(s)

\* The last byte that slice and slice_write index.
LastIndex(s) == ByteOffset(s) + ByteCount(s) + IF Crosses(s) THEN 1 ELSE 0

\* Address::bytes: from the base to the end of the slice.
BytesTo(s) == IF s.end % 8 > 0 THEN 1 + s.end \div 8 ELSE s.end \div 8

-----------------------------------------------------------------------------
(* slice: v is changed in place, then cut to the bytes of the result.      *)

\* The loop over all bytes of the result but the last; write_idx is n - 1 in
\* the iteration that leaves Shifted(v, s)[n].
Shifted(v, s) ==
  LET w[n \in 0 .. ByteCount(s) - 1] ==
        IF n = 0 THEN v
        ELSE [w[n - 1] EXCEPT ![n] =
                ShiftRight(w[n - 1][ByteOffset(s) + n], BitOffset(s))
                  \cup ShiftLeft(w[n - 1][ByteOffset(s) + n + 1],
                                 8 - BitOffset(s))]
  IN w[ByteCount(s) - 1]

\* Mutant of Slice: the part of the last byte that lies in the next one is lost.
SliceNoCarry(v, s) ==
  LET w == Shifted(v, s)
      n == ByteCount(s)
      i == ByteOffset(s) + n
  IN Append(SubSeq(w, 1, n - 1),
            ShiftRight(w[i], BitOffset(s)) \cap 0 .. EndBits(s) - 1)

Slice(v, s) ==
  LET w     == Shifted(v, s)
      n     == ByteCount(s)
      i     == ByteOffset(s) + n
      lower == ShiftRight(w[i], BitOffset(s))
      upper == IF Crosses(s) THEN ShiftLeft(w[i + 1], 8 - BitOffset(s)) ELSE {}
  IN Append(SubSeq(w, 1, n - 1), (lower \cup upper) \cap 0 .. EndBits(s) - 1)

\* An index beyond the vector, or a slice without bits, panics.
SlicePanics(v, s) == s.start >= s.end \/ LastIndex(s) > Len(v)

-----------------------------------------------------------------------------
(* slice_write: the bits of value, lowest first, go to the bits of dest.   *)

\* Mutant of PutByte: the upper part of a byte overwrites the whole next byte.
PutByteUnmasked(dest, i, b, m, s) ==
  [dest EXCEPT ![i] = MaskedWrite(ShiftLeft(b, BitOffset(s)), @,
                                  ShiftLeft(m, BitOffset(s))),
               ![i + 1] = ShiftRight(b, 8 - BitOffset(s))]

\* One byte b goes to bytes i and i + 1 of dest, only those of its bits that
\* are in m.
PutByte(dest, i, b, m, s) ==
  LET low == [dest EXCEPT ![i] = MaskedWrite(ShiftLeft(b, BitOffset(s)), @,
                                             ShiftLeft(m, BitOffset(s)))]
  IN [low EXCEPT ![i + 1] = MaskedWrite(ShiftRight(b, 8 - BitOffset(s)), @,
                                        ShiftRight(m, 8 - BitOffset(s)))]

\* The loop over all bytes of value but the last.
Merged(dest, value, s) ==
  LET d[n \in 0 .. ByteCount(s) - 1] ==
        IF n = 0 THEN dest
        ELSE PutByte(d[n - 1], ByteOffset(s) + n, value[n], Bits, s)
  IN d[ByteCount(s) - 1]

SliceWrite(dest, value, s) ==
  LET d == Merged(dest, value, s)
      n == ByteCount(s)
      i == ByteOffset(s) + n
      m == 0 .. EndBits(s) - 1
  IN IF Crosses(s)
       THEN PutByte(d, i, value[n], m, s)
       ELSE [d EXCEPT ![i] = MaskedWrite(ShiftLeft(value[n], BitOffset(s)), @,
                                         ShiftLeft(m, BitOffset(s)))]

SliceWritePanics(dest, value, s) ==
  SlicePanics(dest, s) \/ ByteCount(s) > Len(value)

-----------------------------------------------------------------------------
(* What slice and slice_write are for: a vector is a row of bits, bit b of *)
(* byte i being number 8 (i - 1) + b.                                      *)

Row(v) == {n \in 0 .. 8 * Len(v) - 1 : n % 8 \in v[n \div 8 + 1]}

Inside(s) == s.start .. s.end - 1

\* The bits of the range, moved to the start of the row.
Cut(row, s) == {n - s.start : n \in row \cap Inside(s)}

\* The row with the first bits of new in the range, the others as they were.
Paste(row, new, s) ==
  (row \ Inside(s)) \cup ({n + s.start : n \in new} \cap Inside(s))
===============================================================================
