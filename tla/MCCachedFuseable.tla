--------------------------- MODULE MCCachedFuseable ---------------------------
(* CachedFuseable over the files of a camera, for TLC: a function with a       *)
(* value map and a register, in one register set.                              *)
EXTENDS CachedFuseable, Sequences, TLC

CONSTANT Nowhere

SomeKeys == "0" :> "0" @@ "1" :> "1"

Texts == {"a", "b"}

Tree == INSTANCE FuseTree WITH Indices <- <<>>, Keys <- SomeKeys, Numbers <- <<>>

CameraIsDir(camera, path)       == Tree!IsDir(camera, path)
CameraRead(camera, path)        == Tree!Read(camera, path)
CameraWrite(camera, path, word) == Tree!Write(camera, path, word)

With(map) ==
  Tree!Camera("s" :> Tree!RegisterSetting(Tree!I2CCdev,
    "gain" :> Tree!Value("value", Tree!Struct("width" :> Tree!Scalar("2"))), map))

Set(path) == <<"registers", "s">> \o path

Entries == Set(<<"functions", "m">>)

\* A map with two entries, and what edits make of it.
Maps == {<<>>} \cup UNION {[keys -> Texts] : keys \in {{"0"}, {"1"}, {"0", "1"}}}

Injective(map) == \A k, l \in DOMAIN map : map[k] = map[l] => k = l

CamerasWith(maps) == {With("m" :> Tree!Keywords(map)) : map \in {m \in maps : Injective(m)}}

TwoWords == CamerasWith({"0" :> "a" @@ "1" :> "b"})

AllCameras ==
  {[camera EXCEPT !.lost = lost] : camera \in CamerasWith(Maps), lost \in SUBSET {"s"}}

Fixed == {Set(<<"map", "gain">>), Set(<<"map", "gain", "value">>)}

AllPaths == Fixed \cup {Entries, Entries \o <<"0">>}

AllNames == {"a", "b", "0", "1", "m", "gain", "width", "value", "of the device"}
================================================================================
