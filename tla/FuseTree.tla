------------------------------- MODULE FuseTree -------------------------------
(***************************************************************************)
(* The camera as a tree of files: what is_dir, read and write of the trait *)
(* Fuseable do on a path, for the types a camera is made of.               *)
(*                                                                         *)
(* A tree is a function from paths (sequences of names) to nodes.  A node  *)
(* has the type whose implementation of Fuseable it stands for, the text   *)
(* of a file, and the calls that the field it is in lets through.  Option  *)
(* with a value, Box, Arc and Mutex hand all calls on and have no node of  *)
(* their own.                                                              *)
(*                                                                         *)
(* A camera is a tree and the register sets whose mutex is poisoned.       *)
(***************************************************************************)
EXTENDS Naturals, SequencesExt

CONSTANTS
  Indices,     \* Indices[n]: the index that name n is parsed to, as it is listed
  Keys,        \* Keys[n]: the key of a value map that n is parsed to, likewise
  Texts,       \* what is written and is UTF-8
  Numbers,     \* Numbers[w]: the number that text w is parsed to, as it is read
  Nowhere      \* the end of a path that leads nowhere

ASSUME TreeAssumption ==
  /\ DOMAIN Numbers \subseteq Texts
  /\ Texts \subseteq STRING
  /\ \A w \in DOMAIN Numbers : Numbers[w] \in STRING
  /\ Nowhere \notin STRING

-----------------------------------------------------------------------------
(* The types of a camera, with the attributes of their fields.             *)

NodeOf(type, text) == [type |-> type, text |-> text, rights |-> {"read", "write"}]

\* The tree that is one node.
Node(type, text) == [p \in {<<>>} |-> NodeOf(type, text)]

\* The attribute that takes a right from a field.
Takes(right) == IF right = "write" THEN "ro" ELSE "wo"

\* parse_field: the attributes of a field.  An attribute rw gives back what those
\* before it have taken.
FieldRights(words) ==
  IF "skip" \in ToSet(words) THEN {}
  ELSE {right \in {"read", "write"} :
          \A i \in DOMAIN words : words[i] = Takes(right) =>
            \E j \in DOMAIN words : j > i /\ words[j] = "rw"}

\* The tree in a field with these attributes.
Field(words, tree) == [tree EXCEPT ![<<>>].rights = FieldRights(words)]

Ro(tree) == Field(<<"ro">>, tree)

\* A directory of some type over the trees kids[n].
Dir(type, kids) ==
  [p \in {<<>>} \cup UNION {{<<n>> \o q : q \in DOMAIN kids[n]} : n \in DOMAIN kids} |->
     IF p = <<>> THEN NodeOf(type, "") ELSE kids[Head(p)][Tail(p)]]

\* impl_struct and impl_enum_variant_namend: the fields by their names.  A map
\* from strings to Fuseables answers in the same way.
Struct(kids)    == Dir("struct", kids)
String(text)    == Node("string", text)
Scalar(text)    == Node("scalar", text)
None            == Node("none", "None")
Vector(numbers) == Dir("vector", [n \in DOMAIN numbers |-> Scalar(numbers[n])])

\* impl_enum_variant: a variant with one field is that field, one with more is a
\* struct of them.
Variant(kids) ==
  LET n == CHOOSE n \in DOMAIN kids : TRUE
  IN IF DOMAIN kids = {n} THEN kids[n] ELSE Struct(kids)

\* The variants of ValueMap; m is a function from keys to texts.
Keywords(m) == Variant([value_ |-> Dir("keywords", [k \in DOMAIN m |-> String(m[k])])])
Numeric(m)  == Variant([value_ |-> Dir("numeric", [k \in DOMAIN m |-> Scalar(m[k])])])

Slice == Struct([start |-> Scalar("0"), end |-> Scalar("1")])

Address(base, slice) == Struct([base |-> Vector(base), slice |-> slice])

MinMax == Variant([min |-> Scalar("0"), max |-> Scalar("1")])

\* The variants of Description.
Simple       == Variant([value_ |-> String("0")])
LongAndShort == Variant([long |-> String("long"), short |-> String("short")])

\* The file that RegisterSetting and Camera add to every entry of map, functions
\* and scripts.
Value(type, tree) ==
  [p \in DOMAIN tree \cup {<<"value">>} |->
     IF p \in DOMAIN tree THEN tree[p] ELSE NodeOf(type, "")]

\* The fields of a register that are Some; the others are None.
Register(address, some) ==
  Value("value", Struct(
    [n \in {"address", "width", "mask", "range", "default", "description"} |->
       Ro(CASE n = "address" -> address
            [] n # "address" /\ n \in DOMAIN some -> some[n]
            [] OTHER -> None)]))

Function(addr, desc, map, default) ==
  Value("value", Struct([addr |-> Ro(addr), desc |-> Ro(desc), map |-> map,
                         writable |-> Ro(Scalar("false")), default |-> Ro(default)]))

Device == Field(<<"skip">>, None)

I2CCdev == Struct([bus |-> Scalar("0"), address |-> Scalar("1"), dev |-> Device,
                   mock |-> Ro(Scalar("false"))])

MMAPGPIO == Struct([base |-> Scalar("0"), len |-> Scalar("1"), dev |-> Device,
                    mock |-> Ro(Scalar("false"))])

\* write of RegisterSetting refuses the channel, that of Camera the model, as a
\* field that is ro does.
RegisterSetting(channel, map, functions) ==
  Struct([channel |-> Ro(channel), map |-> Struct(map), functions |-> Struct(functions)])

Camera(registers) ==
  [lost |-> {},
   tree |-> Struct([model |-> Ro(String("model")), registers |-> Struct(registers),
                    scripts |-> Struct([reset |-> Value("script", Dir("struct", <<>>))])])]

-----------------------------------------------------------------------------
(* Following a path.                                                       *)

\* The name of an entry, from one of its spellings.
Listed(type, n) ==
  CASE type = "vector" /\ n \in DOMAIN Indices -> Indices[n]
    [] type \in {"keywords", "numeric"} /\ n \in DOMAIN Keys -> Keys[n]
    [] type = "struct" -> n
    [] OTHER -> Nowhere

\* None, a value and a script do not look at the rest of the path.
Swallows == {"none", "value", "script"}

\* Mutant of LeadsTo: only the field that is asked for itself is looked at, not those
\* on the way to it.
LeadsToOf(tree, right, path, p) ==
  /\ Len(p) <= Len(path)
  /\ \A i \in DOMAIN p : p[i] = Listed(tree[SubSeq(p, 1, i - 1)].type, path[i])
  /\ right \in tree[p].rights
  /\ Len(p) < Len(path) => tree[p].type \in Swallows

\* The path leads to the node at p: each name is one of the entry's, in a field
\* that lets the call through.  Only some types stop before the end of the path.
LeadsTo(tree, right, path, p) ==
  /\ Len(p) <= Len(path)
  /\ \A i \in DOMAIN p :
       /\ p[i] = Listed(tree[SubSeq(p, 1, i - 1)].type, path[i])
       /\ right \in tree[SubSeq(p, 1, i)].rights
  /\ Len(p) < Len(path) => tree[p].type \in Swallows

\* The node a path leads to, if there is one: the matches on path.next(), from
\* the root down.
Found(tree, right, path) == {p \in DOMAIN tree : LeadsTo(tree, right, path, p)}

Directories == {"struct", "vector", "keywords", "numeric"}

\* Mutant of SetsOf: the name is taken from one directory too high.
SetsOfParent(camera, path) ==
  IF Len(path) > 1 /\ path[1] = "registers" /\ SubSeq(path, 1, 2) \in DOMAIN camera.tree
    THEN {path[1]} ELSE {}

\* The register set whose mutex a call on the path locks.
SetsOf(camera, path) ==
  IF Len(path) > 1 /\ path[1] = "registers" /\ SubSeq(path, 1, 2) \in DOMAIN camera.tree
    THEN {path[2]} ELSE {}

-----------------------------------------------------------------------------
(* The calls.  Each has a set of results: an answer, which says what it is *)
(* and of what, and the camera after it.                                   *)

Answer(is, of) == [is |-> is, of |-> of]
Done   == Answer("ok", {})
Err    == Answer("err", {})
Panics == Answer("panic", {})

Result(camera, answer) == [answer |-> answer, state |-> camera]

\* A panic poisons the mutexes that are locked.
Losing(camera, sets) == Result([camera EXCEPT !.lost = @ \cup sets], Panics)

\* What the three calls have in common: the lock of a poisoned set is unwrapped,
\* an unknown name is an error, and the node at the end gives the results.
Called(camera, right, path, results) ==
  IF SetsOf(camera, path) \cap camera.lost # {} THEN {Result(camera, Panics)}
  ELSE LET found == Found(camera.tree, right, path)
       IN IF found = {} THEN {Result(camera, Err)} ELSE UNION {results[p] : p \in found}

\* What the access of a device can end in.
Accessed(camera, path, answer) ==
  {Result(camera, answer), Result(camera, Err), Losing(camera, SetsOf(camera, path))}

\* Mutant of KindAt: None is a directory, as it swallows paths.
KindAtNone(camera, p) ==
  IF camera.tree[p].type \in Directories \cup {"none"} THEN "dir" ELSE "file"

KindAt(camera, p) == IF camera.tree[p].type \in Directories THEN "dir" ELSE "file"

IsDir(camera, path) ==
  Called(camera, "read", path,
         [p \in DOMAIN camera.tree |-> {Result(camera, Answer(KindAt(camera, p), {}))}])

\* Mutant of Listing: the entries that are skipped are listed.
ListingOfAll(tree, p) ==
  {Last(q) : q \in {r \in DOMAIN tree : r # <<>> /\ Front(r) = p}}

Listing(tree, p) ==
  {Last(q) : q \in {r \in DOMAIN tree : r # <<>> /\ Front(r) = p /\ "read" \in tree[r].rights}}

\* A directory has its entries, a script nothing to be read, and the value of a
\* register is that of the device.
ReadAt(camera, path, p) ==
  CASE camera.tree[p].type \in Directories ->
         {Result(camera, Answer("left", Listing(camera.tree, p)))}
    [] camera.tree[p].type = "script" -> {Result(camera, Err)}
    [] camera.tree[p].type = "value" ->
         Accessed(camera, path, Answer("right", {"of the device"}))
    [] OTHER -> {Result(camera, Answer("right", {camera.tree[p].text}))}

Read(camera, path) ==
  Called(camera, "read", path, [p \in DOMAIN camera.tree |-> ReadAt(camera, path, p)])

\* The file at p gets a text.  A keyword is taken out of its map and inserted
\* again, and another key that has the same word goes.
Edited(tree, p, text) ==
  LET gone == {q \in DOMAIN tree \ {p, <<>>} :
                 Front(q) = Front(p) /\ tree[Front(p)].type = "keywords" /\ tree[q].text = text}
  IN [q \in DOMAIN tree \ gone |-> IF q = p THEN [tree[p] EXCEPT !.text = text] ELSE tree[q]]

\* Mutant of Parsed: a text that is no number leaves the number as it is.
ParsedOrKept(node, word) ==
  CASE node.type = "string" -> {word} \cap Texts
    [] node.type = "scalar" -> {node.text}
    [] OTHER -> {}

\* What a word written to a file becomes; nothing if it is refused.
Parsed(node, word) ==
  CASE node.type = "string" -> {word} \cap Texts
    [] node.type = "scalar" /\ word \in DOMAIN Numbers -> {Numbers[word]}
    [] OTHER -> {}

\* Mutant of Refused: the pair that was taken out of its map is not put back.
RefusedTaken(camera, p) ==
  {Result([camera EXCEPT !.tree = [q \in DOMAIN @ \ {p} |-> @[q]]], Err)}

\* An entry that refuses the word is put back into its map as it was.
Refused(camera, p) == {Result(camera, Err)}

\* The sets that Reset locks, in this order.
ResetSets == <<"sensor", "sensor_io">>

\* Reset::write locks the sets, then works on the devices.  It panics at the
\* first that is not there or is poisoned, with those before it locked.
ResetResults(camera) ==
  LET There(i) ==
        <<"registers", ResetSets[i]>> \in DOMAIN camera.tree /\ ResetSets[i] \notin camera.lost
  IN IF ~There(1) THEN {Losing(camera, {})}
     ELSE IF ~There(2) THEN {Losing(camera, {ResetSets[1]})}
     ELSE {Result(camera, Done), Result(camera, Err), Losing(camera, ToSet(ResetSets))}

\* A word is refused by what is no file, and by a file that cannot parse it.
WriteAt(camera, path, p, word) ==
  CASE camera.tree[p].type = "script" -> ResetResults(camera)
    [] camera.tree[p].type = "value" -> Accessed(camera, path, Done)
    [] OTHER ->
         IF Parsed(camera.tree[p], word) = {} THEN Refused(camera, p)
         ELSE {Result([camera EXCEPT !.tree = Edited(@, p, text)], Done) :
                 text \in Parsed(camera.tree[p], word)}

Write(camera, path, word) ==
  Called(camera, "write", path, [p \in DOMAIN camera.tree |-> WriteAt(camera, path, p, word)])
===============================================================================
