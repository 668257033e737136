------------------------------ MODULE RegisterSet ------------------------------
(***************************************************************************)
(* sensor.rs: the value files of the registers, and of the functions that  *)
(* have no value map.  A file turns the text that is written into bytes    *)
(* for the channel (parse_num_mask of parse_num, then a check of the width,*)
(* padding and the mask) and the bytes that are read into text (to_hex).   *)
(*                                                                         *)
(* A text is a hexadecimal number, the sequence of its digits behind 0x;   *)
(* a digit is the set of its bits that are 1, and Z stands for the letter  *)
(* z.  <<>> stands for every text that parse_num refuses.                  *)
(***************************************************************************)
EXTENDS CommChannel

CONSTANTS
  Files,        \* the registers and functions, a set of records
  Texts,        \* the texts that clients write
  NoWidth       \* width: None

FileType == [what : {"register", "function"}, addr : Addresses, width : {NoWidth} \cup Nat]

Nibble == SUBSET (0 .. 3)
Z      == {4}

ASSUME FilesAssumption ==
  /\ Files \subseteq FileType
  /\ NoWidth \notin Nat
  /\ Texts \subseteq Seq(Nibble \cup {Z})

-----------------------------------------------------------------------------
(* Text and bytes.                                                         *)

\* The number of a text without Z, as the set of its bits that are 1.
NumberOf(t) == UNION {{4 * (Len(t) - i) + b : b \in t[i]} : i \in DOMAIN t}

\* str_to_vec_radix_negative: the bytes, most significant first, without
\* leading zeros but for the number zero.
BytesOf(number) ==
  LET n == Max({0} \cup {k \div 8 : k \in number}) + 1
  IN [i \in 1 .. n |-> {b \in Bits : 8 * (n - i) + b \in number}]

HasMask(t) == \E i \in DOMAIN t : t[i] = Z

\* parse_num_mask: z is the digit 0 of the value and of the mask, every other
\* digit is the largest one of the mask.
ValueOf(t) == BytesOf(NumberOf([i \in DOMAIN t |-> t[i] \ Z]))
MaskOf(t)  == BytesOf(NumberOf([i \in DOMAIN t |-> IF t[i] = Z THEN {} ELSE 0 .. 3]))

\* Mutant of PadFront: the zeros go behind the value.
PadBack(v, width) == v \o [i \in 1 .. Max({0, width - Len(v)}) |-> {}]

PadFront(v, width) == [i \in 1 .. Max({0, width - Len(v)}) |-> {}] \o v

\* Mutant of Masked: what the mask leaves out is cleared.
MaskedCleared(mask, v, cur) ==
  [i \in 1 .. Min({Len(mask), Len(v), Len(cur)}) |-> v[i] \cap mask[i]]

\* izip ends with the shortest of the three.
Masked(mask, v, cur) ==
  [i \in 1 .. Min({Len(mask), Len(v), Len(cur)}) |-> MaskedWrite(v[i], cur[i], mask[i])]

\* Mutant of ToHex: the bytes are printed in the order of a little endian number.
ToHexReversed(v) ==
  [i \in 1 .. 2 * Len(v) |->
     LET b == v[Len(v) + 1 - (i + 1) \div 2]
     IN IF i % 2 = 1 THEN ShiftRight(b, 4) ELSE b \cap 0 .. 3]

ToHex(v) ==
  [i \in 1 .. 2 * Len(v) |->
     IF i % 2 = 1 THEN ShiftRight(v[(i + 1) \div 2], 4) ELSE v[i \div 2] \cap 0 .. 3]

-----------------------------------------------------------------------------
(* Register and Function: read_value and write_value.  What they do with   *)
(* the channel is a set of outcomes, as in CommChannel.                    *)

\* self.width of a register, self.addr.bytes() of a function.
WidthOf(f) ==
  IF f.what = "register" THEN f.width
  ELSE IF Unbounded(f.addr) THEN NoWidth ELSE BytesTo(f.addr.slice)

ReadText(f) ==
  {IF x.out = "ok" THEN [x EXCEPT !.val = ToHex(x.val)] ELSE x :
     x \in ReadValue(f.addr, mem, opened)}

\* Nothing was sent to the device.
Early(out) == {Outcome(out, <<>>, mem, opened)}

\* The mask is applied to what the channel reads, in a call of its own.
WriteMasked(f, t) ==
  LET width == WidthOf(f)
  IN UNION {IF x.out = "ok"
              THEN WriteValue(f.addr,
                              Masked(PadFront(MaskOf(t), width),
                                     PadFront(ValueOf(t), width), x.val),
                              x.mem, x.opened)
              ELSE {x} :
              x \in ReadValue(f.addr, mem, opened)}

\* A register without a width is an error, a function without one panics.
WriteText(f, t) ==
  CASE WidthOf(f) = NoWidth -> Early(IF f.what = "register" THEN "err" ELSE "panic")
    [] WidthOf(f) # NoWidth /\ (t = <<>> \/ Len(ValueOf(t)) > WidthOf(f)) -> Early("err")
    [] OTHER -> IF HasMask(t)
                  THEN WriteMasked(f, t)
                  ELSE WriteValue(f.addr, PadFront(ValueOf(t), WidthOf(f)), mem, opened)

-----------------------------------------------------------------------------
(* Clients of one register set: RegisterSetting::read and write hold its   *)
(* lock, so a call is one step (FuseServer).                               *)

RegInit ==
  /\ kind \in Kinds
  /\ mock \in Mocks
  /\ mem \in Memories
  /\ opened = FALSE
  /\ calls = 0
  /\ last = [call |-> "none", file |-> NoSlice, text |-> <<>>, out |-> "ok", val |-> <<>>]

Answer(call, f, t, x) ==
  /\ mem' = x.mem
  /\ opened' = x.opened
  /\ calls' = calls + 1
  /\ last' = [call |-> call, file |-> f, text |-> t, out |-> x.out, val |-> x.val]
  /\ UNCHANGED <<kind, mock>>

ReadFile(f) ==
  /\ Usable
  /\ \E x \in ReadText(f) : Answer("read", f, <<>>, x)

WriteFile(f, t) ==
  /\ Usable
  /\ \E x \in WriteText(f, t) : Answer("write", f, t, x)

\* Any text is written, or the one that was just read.
RegNext ==
  \E f \in Files :
    \/ ReadFile(f)
    \/ \E t \in Texts \cup IF last.call = "read" THEN {last.val} ELSE {} : WriteFile(f, t)

RegSpec == RegInit /\ [][RegNext]_vars

-----------------------------------------------------------------------------
\* The file is a register or function of whole bytes and all of them.
WholeFile(f) ==
  ~Unbounded(f.addr) /\ f.addr.slice.start = 0 /\ f.addr.slice.end = 8 * WidthOf(f)

\* The bit of the device that holds bit k of the number a whole file shows.
BitAt(f, k) == 8 * (Offset(f.addr) + WidthOf(f) - 1 - (k \div 8)) + (k % 8)

Written(f) == last'.call = "write" /\ last'.file = f /\ last'.out = "ok" /\ ~mock

\* A whole register that is written without a mask holds the number of the
\* text, however few digits it has: the bytes in front of them become zero.
NumberIsHeld ==
  [][\A f \in Files :
       WholeFile(f) /\ Written(f) /\ ~HasMask(last'.text) =>
         \A k \in 0 .. 8 * WidthOf(f) - 1 :
           BitAt(f, k) \in Row(mem') <=> k \in NumberOf(last'.text)]_vars

\* The bits of the number that a text names, the others are at a z or in front
\* of the first digit.
Named(t) ==
  UNION {{4 * (Len(t) - i) + b : b \in 0 .. 3} : i \in {j \in DOMAIN t : t[j] # Z}}

\* A masked write changes no bit of a whole register but those the text names,
\* not even when the device fails in the middle of it, and when it succeeds
\* those are what the text says.
MaskIsKept ==
  [][\A f \in Files :
       /\ WholeFile(f) /\ last'.call = "write" /\ last'.file = f
       /\ HasMask(last'.text) /\ Len(last'.text) <= 2 * WidthOf(f)
       => \A k \in 0 .. 8 * WidthOf(f) - 1 :
            /\ k \notin Named(last'.text) =>
                 (BitAt(f, k) \in Row(mem') <=> BitAt(f, k) \in Row(mem))
            /\ Written(f) /\ k \in Named(last'.text) =>
                 (BitAt(f, k) \in Row(mem')
                    <=> k \in NumberOf([i \in DOMAIN last'.text |-> last'.text[i] \ Z]))]_vars

\* Writing to a whole register what was just read from it changes nothing.
CopyChangesNothing ==
  [][/\ last.call = "read" /\ last.out = "ok" /\ ~mock
     /\ last'.call = "write" /\ last'.file = last.file /\ last'.text = last.val
     /\ WholeFile(last.file)
     => mem' = mem /\ last'.out # "panic"]_vars
===============================================================================
