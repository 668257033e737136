---------------------------- MODULE MCAddressParse ----------------------------
(* Finite instances of AddressParse for TLC.                                 *)
EXTENDS AddressParse

Gain == Word(<<103>>)
Path == Word(<<47, 115>>)

\* 0x3060, 0x0, 0x0004, 0x00000, 0b000000001, 0b0000, 0o377, 12352, 0xz, -0x4,
\* the name of a register, and the path of a file.
AllBases ==
  {Num(16, <<3, 0, 6, 0>>), Num(16, <<0>>), Num(16, <<0, 0, 0, 4>>), Num(16, <<0, 0, 0, 0, 0>>),
   Num(2, <<0, 0, 0, 0, 0, 0, 0, 0, 1>>), Num(2, <<0, 0, 0, 0>>), Num(8, <<3, 7, 7>>),
   Num(10, <<1, 2, 3, 5, 2>>), Num(16, <<Bad>>), Negated(Num(16, <<4>>)), Gain, Path}

Nine == Num(10, <<9>>)
Twelve == Num(10, <<1, 2>>)
TwoFiftyFive == Num(16, <<15, 15>>)

\* Nothing, [9], [0xFF], [x], [9:12], [9:], [:12], [:], [:256] and [x:].
AllSlices ==
  {<<>>, <<Nine>>, <<TwoFiftyFive>>, <<Num(10, <<Bad>>)>>, <<Nine, Twelve>>, <<Nine, Omitted>>,
   <<Omitted, Twelve>>, <<Omitted, Omitted>>, <<Omitted, Num(10, <<2, 5, 6>>)>>,
   <<Word(<<120>>), Omitted>>}

\* Keys of one width, of several widths of one value, with a default, and
\* words, one of them next to a number.
AllKeySets ==
  {{}, {Num(2, <<0>>), Num(2, <<1>>)}, {Num(10, <<1>>), Num(16, <<0, 0, 0, 1>>), AnyKey},
   {Num(16, <<0, 0, 0>>), Num(2, <<0>>)}, {Gain, Num(16, <<1>>), AnyKey}, {Num(16, <<>>), Word(<<>>)}}

AllWidths == {NoWidth, 1, 2, 31, 32}

OneRegister == {Gain}

OneFunction == {Word(<<102>>)}
===============================================================================
