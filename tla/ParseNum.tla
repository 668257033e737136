------------------------------- MODULE ParseNum -------------------------------
(***************************************************************************)
(* parse_num: from the text of a number to its bytes, most significant     *)
(* first.                                                                  *)
(*                                                                         *)
(* A text is a record: its radix (10 for a text that starts with a digit   *)
(* but not with 0x, 0o or 0b; 0 for a text that is no number), whether it  *)
(* starts with a minus, and its digits behind the prefix.  Bad stands for  *)
(* any character that is not a digit of radix 16, the z of a mask too.     *)
(* The digits of a text with radix 0 are its bytes.                        *)
(***************************************************************************)
EXTENDS Integers, SequencesExt

Bad == 16

\* The texts: words, and numbers whose digits may not be of their radix.
Words   == [radix : {0}, neg : {FALSE}, digits : Seq(0 .. 255)]
Numbers == [radix : {2, 8, 10, 16}, neg : BOOLEAN, digits : Seq(0 .. Bad)]

Num(radix, digits)  == [radix |-> radix, neg |-> FALSE, digits |-> digits]
Negated(t)          == [t EXCEPT !.neg = TRUE]
Word(bytes)         == [radix |-> 0, neg |-> FALSE, digits |-> bytes]

\* Outcomes.
Ok(v)    == [out |-> "ok", val |-> v]
Failed   == [out |-> "err"]
Panicked == [out |-> "panic"]

\* What follows the prefix.  The prefix is skipped by its length from the very
\* start, so behind a minus part of it is left, which is not a digit.
Rest(t) == IF t.neg THEN <<Bad>> \o t.digits ELSE t.digits

IsNumber(t) ==
  t.radix # 0 /\ Rest(t) # <<>> /\ \A i \in DOMAIN Rest(t) : Rest(t)[i] < t.radix

\* BigInt::from_str_radix
Value(radix, digits) ==
  LET n[i \in 0 .. Len(digits)] == IF i = 0 THEN 0 ELSE n[i - 1] * radix + digits[i]
  IN n[Len(digits)]

\* str_to_vec_radix_negative: at least one byte, and no zeros in front.
ToBytes(n) ==
  LET b[m \in Nat] == IF m < 256 THEN <<m>> ELSE Append(b[m \div 256], m % 256)
  IN b[n]

ParseNumber(t) ==
  IF IsNumber(t) THEN Ok(ToBytes(Value(t.radix, t.digits))) ELSE Failed

\* 0 leading_zeros less those of radix - 1, for a radix of one bit.
BitsPerDigit(radix) == CASE radix = 2 -> 1 [] radix = 8 -> 3 [] radix = 16 -> 4

BytesFor(count, radix) ==
  IF count = 0 THEN 0 ELSE 1 + (count * BitsPerDigit(radix) - 1) \div 8

LeadingZeros(digits) ==
  CHOOSE k \in 0 .. Len(digits) :
    (\A i \in 1 .. k : digits[i] = 0) /\ (k = Len(digits) \/ digits[k + 1] # 0)

\* Mutant of Padding: the byte that the number zero has anyway is not counted.
PaddingOfZero(radix, digits) ==
  BytesFor(Len(digits), radix) - BytesFor(Len(digits) - LeadingZeros(digits), radix)

\* How many zero bytes the leading zeros of a text are worth.
Padding(radix, digits) ==
  LET total == BytesFor(Len(digits), radix)
      value == BytesFor(Len(digits) - LeadingZeros(digits), radix)
  IN IF value = 0 /\ total > 0 THEN total - 1 ELSE total - value

Zeros(n) == [i \in 1 .. n |-> 0]

\* Only the radices that are powers of two are padded.
ParseNumberPadded(t) ==
  IF IsNumber(t) /\ t.radix # 10
    THEN Ok(Zeros(Padding(t.radix, t.digits)) \o ToBytes(Value(t.radix, t.digits)))
    ELSE ParseNumber(t)

-----------------------------------------------------------------------------
(* Texts as bytes, and bytes as text.                                      *)

Ascii(d) == IF d < 10 THEN 48 + d ELSE IF d < 16 THEN 87 + d ELSE 122

\* The characters of a text.
Chars(t) ==
  LET prefix == CASE t.radix = 16 -> <<48, 120>>
                  [] t.radix = 8 -> <<48, 111>>
                  [] t.radix = 2 -> <<48, 98>>
                  [] OTHER -> <<>>
  IN IF t.radix = 0 THEN t.digits
     ELSE (IF t.neg THEN <<45>> ELSE <<>>) \o prefix \o [i \in DOMAIN t.digits |-> Ascii(t.digits[i])]

\* Mutant of Display: a byte below 16 is printed as one digit.
DisplayShort(v) ==
  Num(16, FoldLeft(LAMBDA ds, b : ds \o (IF b < 16 THEN <<b>> ELSE <<b \div 16, b % 16>>), <<>>, v))

\* 0x and two digits for each byte.
Display(v) ==
  Num(16, [i \in 1 .. 2 * Len(v) |->
             IF i % 2 = 1 THEN v[(i + 1) \div 2] \div 16 ELSE v[i \div 2] % 16])
===============================================================================
