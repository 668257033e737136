----------------------------- MODULE MCRegisterSet -----------------------------
(* Finite instances of RegisterSet for TLC.                                   *)
EXTENDS RegisterSet

At(base, start, end) == [base |-> <<base>>, slice |-> [start |-> start, end |-> end]]

NoEnd == [base |-> <<0>>, slice |-> NoSlice]

AllAddresses == {At(0, 0, 8), At(0, 0, 16), At(1, 0, 16), At(2, 0, 16),
                 At(0, 2, 3), At(0, 4, 20), At(0, 8, 16), NoEnd}

Reg(a, w) == [what |-> "register", addr |-> a, width |-> w]
Fun(a)    == [what |-> "function", addr |-> a, width |-> NoWidth]

\* Registers of one and two bytes, one of them beyond the end of a mapping,
\* one without a width; whole functions, fields of bits, and one without an end.
AllFiles == {Reg(At(0, 0, 8), 1), Reg(At(0, 0, 16), 2), Reg(At(2, 0, 16), 2),
             Reg(NoEnd, NoWidth), Fun(At(1, 0, 16)), Fun(At(0, 2, 3)),
             Fun(At(0, 4, 20)), Fun(At(0, 8, 16)), Fun(NoEnd)}

\* 0x5, 0x01, 0xA3F0, 0x00C3 and 0x10000; 0xz, 0x1z, 0x1zA and 0xz12z; no number.
AllTexts == {<<{0, 2}>>, <<{}, {0}>>, <<{1, 3}, {0, 1}, 0 .. 3, {}>>,
             <<{}, {}, {2, 3}, {0, 1}>>, <<{0}, {}, {}, {}, {}>>,
             <<Z>>, <<{0}, Z>>, <<{0}, Z, {1, 3}>>, <<Z, {0}, {1}, Z>>, <<>>}

\* Devices of three bytes.
AllMemories == {[i \in 1 .. 3 |-> {}], [i \in 1 .. 3 |-> 0 .. 7], <<{0, 2, 3, 7}, {0}, {4, 6}>>}

BothKinds == {"i2c", "mmap"}
================================================================================
