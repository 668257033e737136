------------------------------ MODULE MCValueMap ------------------------------
(* Finite instances of ValueMap for TLC.                                     *)
EXTENDS ValueMap, TLC

Map(s, m) == [shape |-> s, map |-> m]

\* Maps with and without a default, with every value of a field of two bits
\* taken, with keys that are too long or too short for it.
AllMaps ==
  {Map("Keywords", <<0>> :> "a" @@ <<1>> :> "b"),
   Map("Keywords", <<0>> :> "a" @@ <<1>> :> "b" @@ AnyValue :> "c"),
   Map("Keywords", <<1>> :> "a" @@ <<2>> :> "b" @@ <<3>> :> "d" @@ AnyValue :> "c"),
   Map("Keywords", <<0, 1>> :> "a" @@ <<2, 0>> :> "b" @@ AnyValue :> "c"),
   Map("Floating", <<0>> :> 1 @@ <<1>> :> 2 @@ <<2>> :> 4 @@ <<3>> :> 8),
   Map("Floating", <<0>> :> 4 @@ <<3>> :> 2 @@ AnyValue :> 8),
   Map("Fixed", <<0>> :> 1 @@ <<1>> :> 8 @@ AnyValue :> 4)}

\* One bit of a byte, and two whole bytes.
AllForms == {[bytes |-> 1, size |-> 2], [bytes |-> 2, size |-> 4]}

AllWords == [s \in {"Keywords", "Floating", "Fixed"} |->
               IF s = "Keywords" THEN {"a", "b", "c", "d"} ELSE {1, 2, 3, 4, 8}]
===============================================================================
