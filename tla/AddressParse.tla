------------------------------ MODULE AddressParse ------------------------------
(***************************************************************************)
(* Loading a register set: Address::parse of each register,                *)
(* Address::parse_named of each function, and the keys of their value maps.*)
(*                                                                         *)
(* An address is written base, base[bit] or base[start:end] with either    *)
(* end left out: a base and a sequence of none, one or two texts.          *)
(***************************************************************************)
EXTENDS ParseNum

CONSTANTS
  Widths,       \* the widths of registers that are enumerated
  Bases,        \* the texts in front of the slice
  Slices,       \* the slices of addresses
  KeySets,      \* the sets of keys of value maps
  RegisterNames,
  FunctionNames,
  NoWidth,      \* width: None
  NoSlice,      \* slice: None, and an end that is not known
  Omitted,      \* an end of the slice that is left out
  AnyKey           \* Value::Any, and the key _ that stands for it

\* What can be written, and what stands for nothing is told from everything else.
ASSUME TextsAssumption ==
  /\ Bases \subseteq Words \cup Numbers
  /\ \A keys \in KeySets : keys \ {AnyKey} \subseteq Words \cup Numbers
  /\ \A slice \in Slices : slice \in Seq(Words \cup Numbers \cup {Omitted})
                            /\ Len(slice) <= 2 /\ slice # <<Omitted>>
  /\ AnyKey \notin Words \cup Numbers \cup Seq(0 .. 255)
  /\ Widths \ {NoWidth} \subseteq 0 .. 255
  /\ NoSlice \notin Nat \cup [start : Nat, end : Nat]

VARIABLES
  status,       \* which part is being loaded, or how loading ended
  regs,         \* the registers by name: how they are written, and the address
  funs          \* the functions by name: the same, and the keys of the map

vars == <<status, regs, funs>>

-----------------------------------------------------------------------------
(* Address::parse_internal                                                 *)

\* parse_slice_num: one byte, or a panic.
SliceNum(t) ==
  LET n == ParseNumber(t)
  IN IF n.out # "ok" THEN n ELSE IF Len(n.val) = 1 THEN Ok(n.val[1]) ELSE Panicked

\* Mutant of Checked: the u8 wraps.
CheckedWraps(n) == Ok(n % 256)

\* Arithmetic on a u8, in a build with overflow checks.
Checked(n) == IF n < 256 THEN Ok(n) ELSE Panicked

\* The address of the register that is named, if the base is no number.
Named(base, known) ==
  IF ParseNumberPadded(base).out = "err" /\ base \in DOMAIN known
    THEN {known[base].addr} ELSE {}

Base(base, known) ==
  IF ParseNumberPadded(base).out = "ok" THEN ParseNumberPadded(base).val
  ELSE IF base \in DOMAIN known THEN known[base].addr.base
  ELSE Chars(base)

Start(slice, named) ==
  CASE Len(slice) > 0 /\ slice[1] # Omitted -> SliceNum(slice[1])
    [] OTHER -> Ok(IF \E a \in named : a.slice # NoSlice
                     THEN (CHOOSE a \in named : TRUE).slice.start ELSE 0)

\* Mutant of End: the end of a named register is not looked up.
EndFromWidth(slice, named, width, start) ==
  CASE Len(slice) = 1 -> Checked(start + 1)
    [] Len(slice) = 2 /\ slice[2] # Omitted -> SliceNum(slice[2])
    [] OTHER -> IF width = NoWidth THEN Ok(NoSlice) ELSE Checked(8 * width)

End(slice, named, width, start) ==
  CASE Len(slice) = 1 -> Checked(start + 1)
    [] Len(slice) = 2 /\ slice[2] # Omitted -> SliceNum(slice[2])
    [] (Len(slice) = 0 \/ slice[Len(slice)] = Omitted) /\ named # {} ->
         LET s == (CHOOSE a \in named : TRUE).slice
         IN Ok(IF s = NoSlice THEN NoSlice ELSE s.end)
    [] OTHER -> IF width = NoWidth THEN Ok(NoSlice) ELSE Checked(8 * width)

\* Without an end the whole slice is None, the start is dropped.
ParseAddress(text, known, width) ==
  LET named == Named(text.base, known)
      start == Start(text.slice, named)
      end   == End(text.slice, named, width, start.val)
  IN IF start.out # "ok" THEN start
     ELSE IF end.out # "ok" THEN end
     ELSE Ok([base |-> Base(text.base, known),
              slice |-> IF end.val = NoSlice THEN NoSlice
                        ELSE [start |-> start.val, end |-> end.val]])

-----------------------------------------------------------------------------
(* deser_valuemap and Value::from_str                                      *)

\* Either all keys are numbers or _, or all of them are strings.
Keys(texts) ==
  IF \A k \in texts : k = AnyKey \/ ParseNumberPadded(k).out = "ok"
    THEN {IF k = AnyKey THEN AnyKey ELSE ParseNumberPadded(k).val : k \in texts}
    ELSE {IF k = AnyKey THEN <<95>> ELSE Chars(k) : k \in texts}

\* The name under which a key is listed, and the key that a name stands for.
Listed(key)  == IF key = AnyKey THEN AnyKey ELSE Display(key)
KeyOf(name)  == IF name = AnyKey THEN Ok(AnyKey) ELSE ParseNumberPadded(name)

-----------------------------------------------------------------------------
None == [n \in {} |-> n]

With(map, name, entry) == [n \in DOMAIN map \cup {name} |-> IF n = name THEN entry ELSE map[n]]

Init ==
  /\ status = "registers"
  /\ regs = None
  /\ funs = None

\* An error or a panic ends the daemon before it has mounted anything.
LoadRegister(name, text, width) ==
  /\ status = "registers"
  /\ name \notin DOMAIN regs
  /\ LET a == ParseAddress(text, None, width)
     IN IF a.out = "ok"
          THEN /\ regs' = With(regs, name, [text |-> text, width |-> width, addr |-> a.val])
               /\ status' = status
          ELSE /\ status' = a.out
               /\ regs' = regs
  /\ UNCHANGED funs

\* The functions are converted when all registers are there.
AllRegistersLoaded ==
  /\ status = "registers"
  /\ status' = "functions"
  /\ UNCHANGED <<regs, funs>>

\* The keys are converted when the file is read, the address behind it: no step
\* of the code tells the two apart.
LoadFunction(name, text, keys) ==
  /\ status = "functions"
  /\ name \notin DOMAIN funs
  /\ LET a == ParseAddress(text, regs, NoWidth)
     IN IF a.out = "ok"
          THEN /\ funs' = With(funs, name, [text |-> text, addr |-> a.val, keys |-> Keys(keys)])
               /\ status' = status
          ELSE /\ status' = a.out
               /\ funs' = funs
  /\ UNCHANGED regs

Texts == [base : Bases, slice : Slices]

Next ==
  \/ \E n \in RegisterNames, t \in Texts, w \in Widths : LoadRegister(n, t, w)
  \/ AllRegistersLoaded
  \/ \E n \in FunctionNames, t \in Texts, k \in KeySets : LoadFunction(n, t, k)

Spec == Init /\ [][Next]_vars

-----------------------------------------------------------------------------
\* A base in hexadecimal or binary keeps the bytes it is written with, zeros in
\* front included, and their value: an I2C device is sent the base as it is, and
\* takes a byte too few or too many for another register.
BaseAsWritten ==
  \A n \in DOMAIN regs :
    LET t == regs[n].text.base
        b == regs[n].addr.base
    IN t.radix \in {2, 16} /\ IsNumber(t) =>
         /\ 8 * Len(b) - Len(t.digits) * BitsPerDigit(t.radix) \in 0 .. 7
         /\ Value(256, b) = Value(t.radix, t.digits)

\* A register without a slice that was loaded with a width is the whole of
\* that many bytes, for every width: what NumberIsHeld of RegisterSet needs.
WidthIsWhole ==
  \A n \in DOMAIN regs :
    regs[n].text.slice = <<>> /\ regs[n].width # NoWidth =>
      regs[n].addr.slice = [start |-> 0, end |-> 8 * regs[n].width]

\* To name a register is to write its base: a function that names a register
\* without a slice has the address that its own slice behind the register's
\* base, with the register's width, would have.
NamingIsInlining ==
  \A f \in DOMAIN funs : \A n \in DOMAIN regs :
    LET inlined == [base |-> regs[n].text.base, slice |-> funs[f].text.slice]
    IN funs[f].text.base = n /\ ~IsNumber(n) /\ regs[n].text.slice = <<>> =>
         ParseAddress(inlined, None, regs[n].width) = Ok(funs[f].addr)

\* Each entry of the directory of a value map is found under the name it is
\* listed with, and no two entries are listed with one name.  The empty word is
\* listed as 0x, which no parser takes.
KeysAreFound ==
  \A f \in DOMAIN funs :
    \A k \in funs[f].keys \ {<<>>} :
      /\ KeyOf(Listed(k)) = Ok(k)
      /\ \A l \in funs[f].keys : Listed(l) = Listed(k) => l = k
===============================================================================
