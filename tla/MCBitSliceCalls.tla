---------------------------- MODULE MCBitSliceCalls ----------------------------
(* Finite instances of BitSliceCalls for TLC.                                 *)
EXTENDS BitSliceCalls

Ones    == 0 .. 7
Pattern == {0, 2, 3, 7}

\* Vectors of one to three bytes: the longest slice of dummy_test is 24 bits.
Patterns == UNION {[1 .. n -> {{}, Ones, Pattern}] : n \in 1 .. 3}

\* One to three bytes to write.
Words == {<<Ones>>, <<Pattern>>, <<{}, Ones>>, <<Pattern, {1}>>,
          <<{}, {}, {}>>, <<Ones, Pattern, {4, 5}>>}
================================================================================
