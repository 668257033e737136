------------------------------ MODULE CameraFiles ------------------------------
(***************************************************************************)
(* The files of a camera (sensor.rs: impl Fuseable for Camera) while       *)
(* clients read and write them, one call at a time.  How calls overlap and *)
(* what the wrapper makes of their answers is in CachedFuseable.           *)
(***************************************************************************)
EXTENDS FuseTree

CONSTANTS
  Cameras,     \* the cameras to start with
  Paths,       \* the paths that are asked for, in all spellings
  Words        \* what is written: texts, and what is none

-----------------------------------------------------------------------------
Types == Directories \cup Swallows \cup {"string", "scalar"}

Nodes == [type : Types, text : STRING, rights : SUBSET {"read", "write"}]

\* What holds a node is a directory, which lists it under a name that is parsed
\* to it again.  A map of keywords holds strings.
IsTree(tree) ==
  \A p \in DOMAIN tree :
    /\ p \in Seq(STRING)
    /\ tree[p] \in Nodes
    /\ \A i \in DOMAIN p :
         LET up == SubSeq(p, 1, i - 1)
         IN /\ up \in DOMAIN tree
            /\ tree[up].type \in Directories
            /\ p[i] = Listed(tree[up].type, p[i])
            /\ tree[up].type = "keywords" => tree[SubSeq(p, 1, i)].type = "string"

\* The register sets are in one directory, and those whose mutex is lost are
\* among them.
IsCamera(c) ==
  /\ DOMAIN c = {"tree", "lost"}
  /\ IsTree(c.tree)
  /\ <<"registers">> \in DOMAIN c.tree
  /\ c.tree[<<"registers">>].type = "struct"
  /\ \A name \in c.lost : <<"registers", name>> \in DOMAIN c.tree

\* The texts at the end of a path of writable fields are those of value maps.
IsClosed(tree) ==
  \A p \in DOMAIN tree :
    /\ tree[p].type \in {"string", "scalar"}
    /\ \A i \in DOMAIN p : "write" \in tree[SubSeq(p, 1, i)].rights
    => tree[Front(p)].type \in {"keywords", "numeric"}

ASSUME CamerasAssumption ==
  /\ \A c \in Cameras : IsCamera(c) /\ IsClosed(c.tree)
  /\ Paths \subseteq Seq(STRING)

-----------------------------------------------------------------------------
VARIABLES
  camera,      \* the camera, of the form of FuseTree
  last         \* the last write that was not refused

vars == <<camera, last>>

Init ==
  /\ camera \in Cameras
  /\ last = [path |-> <<>>, word |-> "", answer |-> Err]

\* A write that panics poisons the lock of the whole tree.
Usable == last.answer # Panics

ReadFile(path) ==
  /\ Usable
  /\ \E result \in Read(camera, path) : camera' = result.state
  /\ UNCHANGED last

WriteFile(path, word) ==
  /\ Usable
  /\ \E result \in Write(camera, path, word) :
       /\ camera' = result.state
       /\ last' = IF result.answer = Err THEN last
                  ELSE [path |-> path, word |-> word, answer |-> result.answer]

Next ==
  \E path \in Paths :
    \/ ReadFile(path)
    \/ \E word \in Words : WriteFile(path, word)

Spec == Init /\ [][Next]_vars

-----------------------------------------------------------------------------
\* The camera stays one, whatever is edited, refused, or panics.
TypeOK ==
  /\ IsCamera(camera)
  /\ last.path \in Paths \cup {<<>>}

\* What is_dir says of a path.
Kinds(path) == {result.answer.is : result \in IsDir(camera, path)}

\* What is_dir says of a path is what read finds there, for every path and
\* whatever was edited: readdir meets a directory wherever opendir did, its
\* unimplemented!() is dead code, and the arms of read that "tought I would get
\* directory entires" are, too.
KindsAgree ==
  \A path \in Paths :
    \A kind \in Kinds(path) :
      LET answers == {result.answer.is : result \in Read(camera, path)}
      IN /\ kind = "dir" <=> answers = {"left"}
         /\ kind = "err" => answers = {"err"}
         /\ kind = "panic" <=> answers = {"panic"}
         /\ kind = "file" => "left" \notin answers

\* Every entry that a directory lists can be looked up under the listed name:
\* what to_string makes of a key or an index is parsed to the same entry again,
\* and nothing is listed that is_dir does not know.
ListedIsFound ==
  \A path \in Paths :
    \A result \in Read(camera, path) :
      result.answer.is = "left" =>
        \A n \in result.answer.of : "err" \notin Kinds(Append(path, n))

\* The texts that clients edit are those of value maps, and no others: the
\* configuration of channels, addresses and registers that the driver works
\* with stays as it was loaded, however deep its fields are and whatever rights
\* they have of their own.
OnlyMapsAreEdited ==
  [][camera' # camera => \A p \in DOMAIN camera.tree :
       p \notin DOMAIN camera'.tree \/ camera'.tree[p] # camera.tree[p]
         => camera.tree[Front(p)].type \in {"keywords", "numeric"}]_vars

\* A word that was written to a file is read there under every spelling of its
\* path, a number in the form it is printed in.
EditIsReadBack ==
  last.answer = Done =>
    \A p \in Found(camera.tree, "read", last.path), path \in Paths :
      LET node == camera.tree[p]
      IN node.type \in {"string", "scalar"} /\ p \in Found(camera.tree, "read", path) =>
           \A result \in Read(camera, path) :
             \/ result.answer = Panics
             \/ result.answer =
                  Answer("right", IF node.type = "string" THEN {last.word}
                                  ELSE {Numbers[w] : w \in {last.word} \cap DOMAIN Numbers})

\* A file never becomes a directory nor a directory a file, which the kernel is
\* told to believe for an hour (the 3600 s of getattr), and no entry comes into
\* being.  A file vanishes only when the word it had is given to another entry of
\* its map, and no register set comes back that a panic has lost.
KindsAreStable ==
  [][camera' # camera => \A path \in Paths :
       \A before \in Kinds(path), after \in Kinds(path)' :
         after # before =>
           \/ after = "panic"
           \/ /\ before = "file" /\ after = "err"
              /\ last'.answer = Done
              /\ \A p \in Found(camera.tree, "read", path) :
                   last'.word = camera.tree[p].text]_vars
===============================================================================
