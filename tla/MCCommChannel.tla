----------------------------- MODULE MCCommChannel -----------------------------
(* Finite instances of CommChannel for TLC.                                   *)
EXTENDS CommChannel

At(base, start, end) == [base |-> <<base>>, slice |-> [start |-> start, end |-> end]]

\* Whole registers, flags and fields inside a byte and across bytes, slices
\* that start in the second byte, one that ends beyond a mapping of four bytes,
\* no slice at all, and bases of two bytes and of nine.
AllAddresses ==
  {At(0, 0, 8), At(0, 0, 16), At(1, 0, 16), At(0, 0, 1), At(0, 2, 3),
   At(1, 0, 11), At(0, 4, 20), At(0, 8, 12), At(0, 8, 16), At(3, 0, 16),
   [base |-> <<0>>, slice |-> NoSlice],
   [At(0, 0, 16) EXCEPT !.base = <<1, 0>>], [At(0, 0, 11) EXCEPT !.base = <<0, 1>>],
   [At(0, 0, 8) EXCEPT !.base = <<0, 0, 0, 0, 0, 0, 0, 0, 1>>]}

Ones    == 0 .. 7
Pattern == {0, 2, 3, 7}

AllValues == {<<Ones>>, <<Pattern, {}>>, <<{1}, Pattern>>, <<{}, Ones, Pattern>>}

\* Devices of four bytes.
AllMemories == {[i \in 1 .. 4 |-> {}], [i \in 1 .. 4 |-> Ones],
                <<Pattern, {0}, Ones, {6}>>}

BothKinds == {"i2c", "mmap"}
================================================================================
