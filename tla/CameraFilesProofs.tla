--------------------------- MODULE CameraFilesProofs ---------------------------
(***************************************************************************)
(* For every camera that is a tree of files: it stays one, is_dir and read *)
(* agree on every path, what is listed is found, what is edited is read    *)
(* back, and nothing but value maps is edited.  It is a Fuseable as the    *)
(* theorems about the caches assume one.                                   *)
(***************************************************************************)
EXTENDS CameraFiles, SequenceTheorems, WellFoundedInduction, TLAPS

-----------------------------------------------------------------------------
(* Paths.                                                                  *)

\* A prefix of a path.
LEMMA Prefix ==
  ASSUME NEW S, NEW s \in Seq(S), NEW n \in 0 .. Len(s)
  PROVE  /\ SubSeq(s, 1, n) \in Seq(S)
         /\ Len(SubSeq(s, 1, n)) = n
         /\ \A i \in 1 .. n : SubSeq(s, 1, n)[i] = s[i]
         /\ n = Len(s) => SubSeq(s, 1, n) = s
<1>1. \A i \in 1 .. n : s[i] \in S
  OBVIOUS
<1>2. /\ SubSeq(s, 1, n) \in Seq(S)
      /\ Len(SubSeq(s, 1, n)) = IF 1 <= n THEN n - 1 + 1 ELSE 0
      /\ \A i \in 1 .. n - 1 + 1 : SubSeq(s, 1, n)[i] = s[1 + i - 1]
  BY <1>1, SubSeqProperties
<1>3. Len(SubSeq(s, 1, n)) = n /\ \A i \in 1 .. n : SubSeq(s, 1, n)[i] = s[i]
  BY <1>2
<1>4. n = Len(s) => SubSeq(s, 1, n) = s
  BY <1>2, <1>3, SeqEqual
<1> QED BY <1>2, <1>3, <1>4

\* Prefixes of the same length with the same names are the same.
LEMMA SamePrefix ==
  ASSUME NEW S, NEW s \in Seq(S), NEW t \in Seq(S),
         NEW n \in 0 .. Len(s), n <= Len(t), \A i \in 1 .. n : s[i] = t[i]
  PROVE  SubSeq(s, 1, n) = SubSeq(t, 1, n)
<1>1. n \in 0 .. Len(t)
  OBVIOUS
<1>2. /\ SubSeq(s, 1, n) \in Seq(S) /\ Len(SubSeq(s, 1, n)) = n
      /\ \A i \in 1 .. n : SubSeq(s, 1, n)[i] = s[i]
  BY Prefix
<1>3. /\ SubSeq(t, 1, n) \in Seq(S) /\ Len(SubSeq(t, 1, n)) = n
      /\ \A i \in 1 .. n : SubSeq(t, 1, n)[i] = t[i]
  BY <1>1, Prefix
<1> QED BY <1>2, <1>3, SeqEqual

\* A set of numbers that is not empty has a least one.
LEMMA LeastNumber ==
  ASSUME NEW T, T \subseteq Nat, T # {}
  PROVE  \E m \in T : \A k \in T : ~(k < m)
<1> DEFINE R == {ss \in Nat \X Nat : ss[1] < ss[2]}
<1>1. IsWellFoundedOn(R, Nat)
  BY NatLessThanWellFounded DEF OpToRel
<1>2. PICK m \in T : \A k \in T : ~(<<k, m>> \in R)
  <2> HIDE DEF R
  <2> QED BY <1>1, WFMin
<1>3. \A k \in T : k < m => <<k, m>> \in R
  OBVIOUS
<1> QED BY <1>2, <1>3

-----------------------------------------------------------------------------
(* A path leads to one node.                                               *)

\* What is known of a node in a tree.
LEMMA NodeInTree ==
  ASSUME NEW tree, IsTree(tree), NEW p \in DOMAIN tree, NEW n \in Nat, n < Len(p)
  PROVE  /\ p \in Seq(STRING)
         /\ SubSeq(p, 1, n) \in DOMAIN tree
         /\ tree[SubSeq(p, 1, n)].type \in Directories
<1>1. p \in Seq(STRING)
  BY DEF IsTree
<1>2. n + 1 \in DOMAIN p
  BY <1>1
<1>3. /\ SubSeq(p, 1, n + 1 - 1) \in DOMAIN tree
      /\ tree[SubSeq(p, 1, n + 1 - 1)].type \in Directories
  BY <1>2 DEF IsTree
<1> QED BY <1>1, <1>3

\* Two nodes a path leads to, for reading or writing, have the same names as far as
\* both go: where they
\* differed first, the same name of the path would be two entries of one node.
LEMMA SameNames ==
  ASSUME NEW tree, IsTree(tree), NEW right, NEW other, NEW path \in Seq(STRING),
         NEW p \in Found(tree, right, path), NEW q \in Found(tree, other, path),
         NEW n \in 1 .. Len(p), n <= Len(q)
  PROVE  p[n] = q[n]
<1> DEFINE T == {i \in 1 .. Len(p) : i <= Len(q) /\ p[i] # q[i]}
<1>1. /\ p \in Seq(STRING) /\ p \in DOMAIN tree /\ LeadsTo(tree, right, path, p)
      /\ q \in Seq(STRING) /\ q \in DOMAIN tree /\ LeadsTo(tree, other, path, q)
  BY DEF Found, IsTree
<1>2. SUFFICES ASSUME T # {} PROVE FALSE
  BY <1>1
<1>3. PICK m \in T : \A k \in T : ~(k < m)
  <2>1. T \subseteq Nat
    BY <1>1
  <2> HIDE DEF T
  <2> QED BY <1>2, <2>1, LeastNumber
<1>4. m \in 1 .. Len(p) /\ m <= Len(q) /\ p[m] # q[m] /\ m - 1 \in 0 .. Len(p) /\ m - 1 <= Len(q)
  BY <1>1
<1>5. \A i \in 1 .. m - 1 : p[i] = q[i]
  <2>1. \A i \in 1 .. m - 1 : i \in 1 .. Len(p) /\ i <= Len(q) /\ i < m
    BY <1>1, <1>4
  <2> QED BY <2>1, <1>3
<1>6. SubSeq(p, 1, m - 1) = SubSeq(q, 1, m - 1)
  BY <1>1, <1>4, <1>5, SamePrefix
<1>7. m \in DOMAIN p /\ m \in DOMAIN q
  BY <1>1, <1>4
<1>8. /\ p[m] = Listed(tree[SubSeq(p, 1, m - 1)].type, path[m])
      /\ q[m] = Listed(tree[SubSeq(q, 1, m - 1)].type, path[m])
  BY <1>1, <1>7 DEF LeadsTo
<1> QED BY <1>4, <1>6, <1>8

\* A path leads to no two nodes: the shorter one would be a directory on the way
\* to the longer one, but only files and scripts end a path early.
LEMMA NotShorter ==
  ASSUME NEW tree, IsTree(tree), NEW right, NEW other, NEW path \in Seq(STRING),
         NEW p \in Found(tree, right, path), NEW q \in Found(tree, other, path)
  PROVE  ~(Len(p) < Len(q))
<1>1. /\ p \in Seq(STRING) /\ p \in DOMAIN tree /\ LeadsTo(tree, right, path, p)
      /\ q \in Seq(STRING) /\ q \in DOMAIN tree /\ LeadsTo(tree, other, path, q)
  BY DEF Found, IsTree
<1>2. SUFFICES ASSUME Len(p) < Len(q) PROVE FALSE
  OBVIOUS
<1>3. Len(p) \in Nat /\ Len(q) \in Nat /\ Len(path) \in Nat
  BY <1>1
<1>4. Len(p) < Len(path)
  BY <1>1, <1>2, <1>3 DEF LeadsTo
<1>5. tree[p].type \in Swallows
  BY <1>1, <1>4 DEF LeadsTo
<1>6. \A i \in 1 .. Len(p) : p[i] = q[i]
  <2>1. \A i \in 1 .. Len(p) : i <= Len(q)
    BY <1>2, <1>3
  <2> QED BY <2>1, SameNames
<1>7. SubSeq(p, 1, Len(p)) = SubSeq(q, 1, Len(p))
  <2>1. Len(p) \in 0 .. Len(p) /\ Len(p) <= Len(q)
    BY <1>2, <1>3
  <2> QED BY <1>1, <1>6, <2>1, SamePrefix
<1>8. SubSeq(p, 1, Len(p)) = p
  <2>1. Len(p) \in 0 .. Len(p)
    BY <1>3
  <2> QED BY <1>1, <2>1, Prefix
<1>9. tree[SubSeq(q, 1, Len(p))].type \in Directories
  BY <1>1, <1>2, <1>3, NodeInTree
<1> QED BY <1>5, <1>7, <1>8, <1>9 DEF Swallows, Directories

LEMMA OneNode ==
  ASSUME NEW tree, IsTree(tree), NEW right, NEW other, NEW path \in Seq(STRING),
         NEW p \in Found(tree, right, path), NEW q \in Found(tree, other, path)
  PROVE  p = q
<1>1. p \in Seq(STRING) /\ q \in Seq(STRING)
  BY DEF Found, IsTree
<1>2. Len(p) = Len(q)
  <2>1. ~(Len(p) < Len(q)) /\ ~(Len(q) < Len(p))
    BY NotShorter
  <2> QED BY <1>1, <2>1
<1>3. \A i \in 1 .. Len(p) : p[i] = q[i]
  <2>1. \A i \in 1 .. Len(p) : i <= Len(q)
    BY <1>1, <1>2
  <2> QED BY <2>1, SameNames
<1> QED BY <1>1, <1>2, <1>3, SeqEqual

-----------------------------------------------------------------------------
(* What is_dir says is what read finds.                                    *)

\* The node at the end of a path decides all that is_dir and read answer.
LEMMA AnswersOfNode ==
  ASSUME IsCamera(camera), NEW path \in Paths,
         SetsOf(camera, path) \cap camera.lost = {},
         NEW p \in Found(camera.tree, "read", path)
  PROVE  /\ IsDir(camera, path) = {Result(camera, Answer(KindAt(camera, p), {}))}
         /\ Read(camera, path) = ReadAt(camera, path, p)
<1>1. IsTree(camera.tree) /\ path \in Seq(STRING)
  BY CamerasAssumption DEF IsCamera
<1>2. Found(camera.tree, "read", path) = {p} /\ p \in DOMAIN camera.tree
  <2>1. \A q \in Found(camera.tree, "read", path) : q = p
    BY <1>1, OneNode
  <2> QED BY <2>1 DEF Found
<1>3. ASSUME NEW results
      PROVE  Called(camera, "read", path, results) = results[p]
  <2>1. UNION {results[q] : q \in {p}} = results[p]
    OBVIOUS
  <2> QED BY <1>2, <2>1 DEF Called
<1> QED BY <1>2, <1>3 DEF IsDir, Read

\* The kinds of answers of read at a node.
LEMMA ReadKinds ==
  ASSUME NEW path, NEW p \in DOMAIN camera.tree
  PROVE  LET answers == {result.answer.is : result \in ReadAt(camera, path, p)}
         IN /\ camera.tree[p].type \in Directories => answers = {"left"}
            /\ camera.tree[p].type \notin Directories =>
                 "left" \notin answers /\ answers # {"panic"}
<1> DEFINE answers == {result.answer.is : result \in ReadAt(camera, path, p)}
           type == camera.tree[p].type
<1>1. CASE type \in Directories
  <2>1. ReadAt(camera, path, p) = {Result(camera, Answer("left", Listing(camera.tree, p)))}
    BY <1>1 DEF ReadAt, Directories
  <2>2. answers = {"left"}
    BY <2>1 DEF Result, Answer
  <2> QED BY <1>1, <2>2
<1>2. CASE type \notin Directories /\ type = "script"
  <2>1. ReadAt(camera, path, p) = {Result(camera, Err)}
    BY <1>2 DEF ReadAt
  <2>2. answers = {"err"}
    BY <2>1 DEF Result, Err, Answer
  <2> QED BY <1>2, <2>2
<1>3. CASE type \notin Directories /\ type = "value"
  <2>1. ReadAt(camera, path, p) = Accessed(camera, path, Answer("right", {"of the device"}))
    BY <1>3 DEF ReadAt
  <2> DEFINE ok   == Result(camera, Answer("right", {"of the device"}))
             fail == Result(camera, Err)
             lose == Losing(camera, SetsOf(camera, path))
  <2>2. ok.answer.is = "right" /\ fail.answer.is = "err" /\ lose.answer.is = "panic"
    BY DEF Result, Answer, Err, Losing, Panics
  <2>3. ReadAt(camera, path, p) = {ok, fail, lose}
    BY <2>1 DEF Accessed
  <2>4. answers = {"right", "err", "panic"}
    <3> HIDE DEF ok, fail, lose
    <3> QED BY <2>2, <2>3
  <2> QED BY <1>3, <2>4
<1>4. CASE type \notin Directories /\ type # "script" /\ type # "value"
  <2>1. ReadAt(camera, path, p) = {Result(camera, Answer("right", {camera.tree[p].text}))}
    BY <1>4 DEF ReadAt
  <2>2. answers = {"right"}
    BY <2>1 DEF Result, Answer
  <2> QED BY <1>4, <2>2
<1> QED BY <1>1, <1>2, <1>3, <1>4

LEMMA KindsAgreeOnPath ==
  ASSUME IsCamera(camera), NEW path \in Paths, NEW kind \in Kinds(path)
  PROVE  LET answers == {result.answer.is : result \in Read(camera, path)}
         IN /\ kind = "dir" <=> answers = {"left"}
            /\ kind = "err" => answers = {"err"}
            /\ kind = "panic" <=> answers = {"panic"}
            /\ kind = "file" => "left" \notin answers
<1> DEFINE answers == {result.answer.is : result \in Read(camera, path)}
<1>1. CASE SetsOf(camera, path) \cap camera.lost # {}
  <2>1. IsDir(camera, path) = {Result(camera, Panics)} /\ Read(camera, path) = {Result(camera, Panics)}
    BY <1>1 DEF IsDir, Read, Called
  <2>2. kind = "panic" /\ answers = {"panic"}
    BY <2>1 DEF Kinds, Result, Panics, Answer
  <2> QED BY <2>2
<1>2. CASE /\ SetsOf(camera, path) \cap camera.lost = {}
           /\ Found(camera.tree, "read", path) = {}
  <2>1. IsDir(camera, path) = {Result(camera, Err)} /\ Read(camera, path) = {Result(camera, Err)}
    BY <1>2 DEF IsDir, Read, Called
  <2>2. kind = "err" /\ answers = {"err"}
    BY <2>1 DEF Kinds, Result, Err, Answer
  <2> QED BY <2>2
<1>3. CASE /\ SetsOf(camera, path) \cap camera.lost = {}
           /\ Found(camera.tree, "read", path) # {}
  <2>1. PICK p : p \in Found(camera.tree, "read", path)
    BY <1>3
  <2>2. /\ IsDir(camera, path) = {Result(camera, Answer(KindAt(camera, p), {}))}
        /\ Read(camera, path) = ReadAt(camera, path, p)
    BY <1>3, <2>1, AnswersOfNode
  <2>3. kind = KindAt(camera, p)
    BY <2>2 DEF Kinds, Result, Answer
  <2>4. p \in DOMAIN camera.tree
    BY <2>1 DEF Found
  <2>5. CASE camera.tree[p].type \in Directories
    <3>1. answers = {"left"}
      BY <2>2, <2>4, <2>5, ReadKinds
    <3>2. kind = "dir"
      BY <2>3, <2>5 DEF KindAt
    <3> QED BY <3>1, <3>2
  <2>6. CASE camera.tree[p].type \notin Directories
    <3>1. "left" \notin answers /\ answers # {"panic"}
      BY <2>2, <2>4, <2>6, ReadKinds
    <3>2. kind = "file"
      BY <2>3, <2>6 DEF KindAt
    <3> QED BY <3>1, <3>2
  <2> QED BY <2>5, <2>6
<1> QED BY <1>1, <1>2, <1>3

-----------------------------------------------------------------------------
(* The camera stays a camera.                                              *)

\* An edit takes no node out of the tree but strings, and changes no type.
LEMMA EditedNodes ==
  ASSUME NEW tree, IsTree(tree), NEW p \in DOMAIN tree, NEW text \in STRING
  PROVE  LET new == Edited(tree, p, text)
         IN /\ DOMAIN new \subseteq DOMAIN tree
            /\ \A q \in DOMAIN tree \ DOMAIN new : q # <<>> /\ tree[Front(q)].type = "keywords"
            /\ \A q \in DOMAIN tree \ DOMAIN new : tree[q].type = "string"
            /\ \A q \in DOMAIN new : new[q] \in Nodes /\ new[q].type = tree[q].type
<1> DEFINE new == Edited(tree, p, text)
<1>1. /\ DOMAIN new \subseteq DOMAIN tree
      /\ \A q \in DOMAIN new : new[q] = IF q = p THEN [tree[p] EXCEPT !.text = text] ELSE tree[q]
      /\ \A q \in DOMAIN tree \ DOMAIN new : q # <<>> /\ tree[Front(q)].type = "keywords"
  BY DEF Edited
<1>2. ASSUME NEW q \in DOMAIN tree, q # <<>>, tree[Front(q)].type = "keywords"
      PROVE  tree[q].type = "string"
  <2>1. q \in Seq(STRING)
    BY DEF IsTree
  <2>2. Len(q) \in DOMAIN q /\ Len(q) \in 0 .. Len(q)
    BY <1>2, <2>1
  <2>3. tree[SubSeq(q, 1, Len(q) - 1)].type = "keywords" => tree[SubSeq(q, 1, Len(q))].type = "string"
    BY <2>2 DEF IsTree
  <2>4. SubSeq(q, 1, Len(q)) = q
    BY <2>1, <2>2, Prefix
  <2> QED BY <1>2, <2>3, <2>4 DEF Front
<1>3. ASSUME NEW q \in DOMAIN new
      PROVE  new[q] \in Nodes /\ new[q].type = tree[q].type
  <2>1. tree[q] \in Nodes
    BY <1>1 DEF IsTree
  <2>2. CASE q = p
    <3>1. new[q] = [tree[q] EXCEPT !.text = text]
      BY <1>1, <2>2
    <3> QED BY <2>1, <3>1 DEF Nodes
  <2>3. CASE q # p
    BY <1>1, <2>1, <2>3
  <2> QED BY <2>2, <2>3
<1> QED BY <1>1, <1>2, <1>3

LEMMA EditedIsTree ==
  ASSUME NEW tree, IsTree(tree), NEW p \in DOMAIN tree, NEW text \in STRING
  PROVE  IsTree(Edited(tree, p, text))
<1> DEFINE new == Edited(tree, p, text)
<1>1. /\ DOMAIN new \subseteq DOMAIN tree
      /\ \A q \in DOMAIN tree \ DOMAIN new : tree[q].type = "string"
      /\ \A q \in DOMAIN new : new[q] \in Nodes /\ new[q].type = tree[q].type
  BY EditedNodes
<1> HIDE DEF new
<1>2. ASSUME NEW q \in DOMAIN new
      PROVE  q \in Seq(STRING) /\ q \in DOMAIN tree
  BY <1>1 DEF IsTree
<1>3. ASSUME NEW q \in DOMAIN new, NEW i \in DOMAIN q
      PROVE  LET up == SubSeq(q, 1, i - 1)
             IN /\ up \in DOMAIN new
                /\ new[up].type = tree[up].type
                /\ new[up].type \in Directories
                /\ q[i] = Listed(new[up].type, q[i])
                /\ tree[up].type = "keywords" => tree[SubSeq(q, 1, i)].type = "string"
  <2> DEFINE up == SubSeq(q, 1, i - 1)
  <2>1. /\ up \in DOMAIN tree
        /\ tree[up].type \in Directories
        /\ q[i] = Listed(tree[up].type, q[i])
        /\ tree[up].type = "keywords" => tree[SubSeq(q, 1, i)].type = "string"
    BY <1>2 DEF IsTree
  <2>2. up \in DOMAIN new
    BY <1>1, <2>1 DEF Directories
  <2>3. new[up].type = tree[up].type
    BY <1>1, <2>2
  <2> QED BY <2>1, <2>2, <2>3
<1>4. ASSUME NEW q \in DOMAIN new, NEW i \in DOMAIN q
      PROVE  SubSeq(q, 1, i) \in DOMAIN new
  <2>1. q \in Seq(STRING)
    BY <1>2
  <2>2. CASE i = Len(q)
    <3>1. SubSeq(q, 1, i) = q
      <4>1. i \in 0 .. Len(q)
        BY <2>1, <2>2
      <4> QED BY <2>1, <2>2, <4>1, Prefix
    <3> QED BY <3>1
  <2>3. CASE i # Len(q)
    <3>1. PICK j \in DOMAIN q : j - 1 = i
      <4>1. i + 1 \in DOMAIN q /\ (i + 1) - 1 = i
        BY <2>1, <2>3
      <4> QED BY <4>1
    <3>2. \A k \in DOMAIN q : SubSeq(q, 1, k - 1) \in DOMAIN new
      BY <1>3
    <3> QED BY <3>1, <3>2
  <2> QED BY <2>2, <2>3
<1>5. ASSUME NEW q \in DOMAIN new, NEW i \in DOMAIN q
      PROVE  new[SubSeq(q, 1, i)].type = tree[SubSeq(q, 1, i)].type
  BY <1>1, <1>4
<1>6. IsTree(new)
  <2>1. ASSUME NEW q \in DOMAIN new, NEW i \in DOMAIN q
        PROVE  /\ SubSeq(q, 1, i - 1) \in DOMAIN new
               /\ new[SubSeq(q, 1, i - 1)].type \in Directories
               /\ q[i] = Listed(new[SubSeq(q, 1, i - 1)].type, q[i])
               /\ new[SubSeq(q, 1, i - 1)].type = "keywords" =>
                    new[SubSeq(q, 1, i)].type = "string"
    BY <1>3, <1>5
  <2>2. \A q \in DOMAIN new : q \in Seq(STRING) /\ new[q] \in Nodes
    BY <1>1, <1>2
  <2> QED BY <2>1, <2>2 DEF IsTree
<1> QED BY <1>6 DEF new

\* A path of two names.
LEMMA TwoNames ==
  ASSUME NEW S, NEW a \in S, NEW b \in S
  PROVE  <<a, b>> \in Seq(S) /\ Len(<<a, b>>) = 2 /\ <<a, b>>[1] = a /\ <<a, b>>[2] = b
OBVIOUS

\* A register set is an entry of registers.
LEMMA SetFront ==
  ASSUME NEW S, NEW path \in Seq(S), Len(path) = 2, path[1] = "registers"
  PROVE  Front(path) = <<"registers">>
<1>1. 1 \in 0 .. Len(path) /\ path[1] \in S
  OBVIOUS
<1>2. <<"registers">> \in Seq(S) /\ Len(<<"registers">>) = 1 /\ <<"registers">>[1] = "registers"
  BY <1>1
<1> DEFINE s == SubSeq(path, 1, 1)
           t == <<"registers">>
<1>3. s \in Seq(S) /\ Len(s) = 1 /\ \A i \in 1 .. 1 : s[i] = path[i]
  BY <1>1, Prefix
<1>4. s \in Seq(S) /\ t \in Seq(S) /\ Len(s) = Len(t)
  BY <1>2, <1>3
<1>5. \A i \in 1 .. Len(s) : s[i] = t[i]
  <2>1. \A i \in 1 .. Len(s) : i = 1
    BY <1>3
  <2>2. s[1] = path[1] /\ t[1] = "registers"
    BY <1>2, <1>3
  <2> HIDE DEF s, t
  <2> QED BY <2>1, <2>2
<1> HIDE DEF s, t
<1>6. s = t
  BY <1>4, <1>5, SeqEqual
<1> QED BY <1>6 DEF s, t, Front

LEMMA EditedCamera ==
  ASSUME NEW c, IsCamera(c), NEW p \in DOMAIN c.tree, NEW text \in STRING
  PROVE  IsCamera([c EXCEPT !.tree = Edited(@, p, text)])
<1> DEFINE new == Edited(c.tree, p, text)
           d   == [c EXCEPT !.tree = Edited(@, p, text)]
<1>1. d.tree = new /\ d.lost = c.lost /\ DOMAIN d = {"tree", "lost"}
  BY DEF IsCamera
<1>2. IsTree(c.tree) /\ IsTree(new)
  BY EditedIsTree DEF IsCamera
<1>3. /\ \A q \in DOMAIN c.tree \ DOMAIN new : c.tree[Front(q)].type = "keywords"
      /\ \A q \in DOMAIN c.tree \ DOMAIN new : c.tree[q].type = "string"
      /\ \A q \in DOMAIN new : new[q].type = c.tree[q].type
  BY <1>2, EditedNodes
<1> HIDE DEF new
<1>4. <<"registers">> \in DOMAIN new /\ new[<<"registers">>].type = "struct"
  BY <1>3 DEF IsCamera
<1>5. ASSUME NEW name \in c.lost
      PROVE  <<"registers", name>> \in DOMAIN new
  <2>1. <<"registers", name>> \in DOMAIN c.tree
    BY DEF IsCamera
  <2>2. Front(<<"registers", name>>) = <<"registers">>
    <3>1. <<"registers", name>> \in Seq({"registers", name}) /\ Len(<<"registers", name>>) = 2
      BY TwoNames
    <3> QED BY <3>1, SetFront
  <2>3. c.tree[Front(<<"registers", name>>)].type # "keywords"
    BY <2>2 DEF IsCamera
  <2> QED BY <1>3, <2>1, <2>3
<1> HIDE DEF d
<1>6. IsCamera(d)
  BY <1>1, <1>2, <1>4, <1>5 DEF IsCamera
<1> QED BY <1>6 DEF d

\* A panic loses register sets.
LEMMA LosingKeeps ==
  ASSUME NEW c, IsCamera(c), NEW sets, \A name \in sets : <<"registers", name>> \in DOMAIN c.tree
  PROVE  IsCamera(Losing(c, sets).state)
<1> DEFINE d == [c EXCEPT !.lost = @ \cup sets]
<1>1. Losing(c, sets).state = d
  BY DEF Losing, Result
<1>2. d.tree = c.tree /\ d.lost = c.lost \cup sets /\ DOMAIN d = {"tree", "lost"}
  BY DEF IsCamera
<1> HIDE DEF d
<1>3. IsCamera(d)
  BY <1>2 DEF IsCamera
<1> QED BY <1>1, <1>3

LEMMA SetsInTree ==
  ASSUME NEW c, NEW path \in Seq(STRING), NEW name \in SetsOf(c, path)
  PROVE  <<"registers", name>> \in DOMAIN c.tree
<1>1. Len(path) > 1 /\ path[1] = "registers" /\ SubSeq(path, 1, 2) \in DOMAIN c.tree /\ name = path[2]
  BY DEF SetsOf
<1>2. 2 \in 0 .. Len(path) /\ name \in STRING
  BY <1>1
<1> DEFINE s == SubSeq(path, 1, 2)
           t == <<"registers", name>>
<1>3. /\ s \in Seq(STRING) /\ Len(s) = 2
      /\ \A i \in 1 .. 2 : s[i] = path[i]
  BY <1>2, Prefix
<1>4. t \in Seq(STRING) /\ Len(t) = 2 /\ t[1] = "registers" /\ t[2] = name
  <2>1. "registers" \in STRING
    BY <1>1, ElementOfSeq, 1 \in 1 .. Len(path)
  <2> QED BY <1>2, <2>1, TwoNames
<1> HIDE DEF s, t
<1>5. \A i \in 1 .. 2 : s[i] = t[i]
  <2>1. \A i \in 1 .. 2 : i = 1 \/ i = 2
    OBVIOUS
  <2>2. s[1] = t[1] /\ s[2] = t[2]
    BY <1>1, <1>3, <1>4
  <2> QED BY <2>1, <2>2
<1>6. s = t
  BY <1>3, <1>4, <1>5, SeqEqual
<1> QED BY <1>1, <1>6 DEF s, t

\* An access leaves the camera as it is, or loses the register set of its path.
LEMMA AccessedKeeps ==
  ASSUME NEW c, IsCamera(c), NEW path \in Seq(STRING), NEW answer,
         NEW result \in Accessed(c, path, answer)
  PROVE  IsCamera(result.state)
<1>1. CASE result = Result(c, answer) \/ result = Result(c, Err)
  BY <1>1 DEF Result
<1>2. CASE result = Losing(c, SetsOf(c, path))
  <2>1. \A name \in SetsOf(c, path) : <<"registers", name>> \in DOMAIN c.tree
    BY SetsInTree
  <2> QED BY <1>2, <2>1, LosingKeeps
<1> QED BY <1>1, <1>2 DEF Accessed

\* What a call leaves behind is one of its results at a node, or the camera itself.
LEMMA CalledStates ==
  ASSUME NEW c, NEW right, NEW path, NEW results,
         NEW result \in Called(c, right, path, results)
  PROVE  \/ result.state = c
         \/ \E p \in Found(c.tree, right, path) : result \in results[p]
<1>1. CASE result = Result(c, Panics) \/ result = Result(c, Err)
  BY <1>1 DEF Result
<1>2. CASE result \in UNION {results[p] : p \in Found(c.tree, right, path)}
  BY <1>2
<1> QED BY <1>1, <1>2 DEF Called

LEMMA ReadKeeps ==
  ASSUME NEW c, IsCamera(c), NEW path \in Seq(STRING), NEW result \in Read(c, path)
  PROVE  IsCamera(result.state)
<1> DEFINE results == [p \in DOMAIN c.tree |-> ReadAt(c, path, p)]
<1>1. CASE result.state = c
  BY <1>1
<1>2. ASSUME NEW p \in DOMAIN c.tree, result \in ReadAt(c, path, p)
      PROVE  IsCamera(result.state)
  <2>1. CASE c.tree[p].type = "value"
    <3>1. result \in Accessed(c, path, Answer("right", {"of the device"}))
      BY <1>2, <2>1 DEF ReadAt, Directories
    <3> QED BY <3>1, AccessedKeeps
  <2>2. CASE c.tree[p].type # "value"
    <3>1. \E answer : result = Result(c, answer)
      BY <1>2, <2>2 DEF ReadAt
    <3> QED BY <3>1 DEF Result
  <2> QED BY <2>1, <2>2
<1>3. result \in Called(c, "read", path, results)
  BY DEF Read
<1>4. result.state = c \/ \E p \in Found(c.tree, "read", path) : result \in results[p]
  <2> HIDE DEF results
  <2> QED BY <1>3, CalledStates
<1>5. \A p \in Found(c.tree, "read", path) : p \in DOMAIN c.tree
  BY DEF Found
<1> QED BY <1>1, <1>2, <1>4, <1>5

\* The register sets of a reset exist when they are lost.
LEMMA ResetKeeps ==
  ASSUME NEW c, IsCamera(c), NEW result \in ResetResults(c)
  PROVE  IsCamera(result.state)
<1> DEFINE There(i) == <<"registers", ResetSets[i]>> \in DOMAIN c.tree /\ ResetSets[i] \notin c.lost
<1>1. CASE ~There(1)
  <2>1. result = Losing(c, {})
    BY <1>1 DEF ResetResults
  <2> QED BY <2>1, LosingKeeps
<1>2. CASE There(1) /\ ~There(2)
  <2>1. result = Losing(c, {ResetSets[1]})
    BY <1>2 DEF ResetResults
  <2> QED BY <1>2, <2>1, LosingKeeps
<1>3. CASE There(1) /\ There(2)
  <2>1. \/ result = Result(c, Done) \/ result = Result(c, Err)
        \/ result = Losing(c, ToSet(ResetSets))
    BY <1>3 DEF ResetResults
  <2>2. ToSet(ResetSets) = {ResetSets[1], ResetSets[2]}
    BY DEF ToSet, ResetSets
  <2>3. \A name \in ToSet(ResetSets) : <<"registers", name>> \in DOMAIN c.tree
    BY <1>3, <2>2
  <2>4. IsCamera(Losing(c, ToSet(ResetSets)).state)
    BY <2>3, LosingKeeps
  <2> QED BY <2>1, <2>4 DEF Result
<1> QED BY <1>1, <1>2, <1>3

LEMMA WriteKeeps ==
  ASSUME NEW c, IsCamera(c), NEW path \in Seq(STRING), NEW word, NEW result \in Write(c, path, word)
  PROVE  IsCamera(result.state)
<1> DEFINE results == [p \in DOMAIN c.tree |-> WriteAt(c, path, p, word)]
<1>1. CASE result.state = c
  BY <1>1
<1>2. ASSUME NEW p \in DOMAIN c.tree, result \in WriteAt(c, path, p, word)
      PROVE  IsCamera(result.state)
  <2>1. CASE c.tree[p].type = "script"
    <3>1. result \in ResetResults(c)
      BY <1>2, <2>1 DEF WriteAt
    <3> QED BY <3>1, ResetKeeps
  <2>2. CASE c.tree[p].type = "value"
    <3>1. result \in Accessed(c, path, Done)
      BY <1>2, <2>2 DEF WriteAt
    <3> QED BY <3>1, AccessedKeeps
  <2>3. CASE c.tree[p].type \notin {"script", "value"} /\ Parsed(c.tree[p], word) = {}
    <3>1. result = Result(c, Err)
      BY <1>2, <2>3 DEF WriteAt, Refused
    <3> QED BY <3>1 DEF Result
  <2>4. CASE c.tree[p].type \notin {"script", "value"} /\ Parsed(c.tree[p], word) # {}
    <3>1. PICK text \in Parsed(c.tree[p], word) :
            result = Result([c EXCEPT !.tree = Edited(@, p, text)], Done)
      BY <1>2, <2>4 DEF WriteAt
    <3>2. text \in STRING
      BY TreeAssumption DEF Parsed
    <3>3. result.state = [c EXCEPT !.tree = Edited(@, p, text)]
      BY <3>1 DEF Result
    <3> QED BY <3>2, <3>3, EditedCamera
  <2> QED BY <2>1, <2>2, <2>3, <2>4
<1>3. result \in Called(c, "write", path, results)
  BY DEF Write
<1>4. result.state = c \/ \E p \in Found(c.tree, "write", path) : result \in results[p]
  <2> HIDE DEF results
  <2> QED BY <1>3, CalledStates
<1>5. \A p \in Found(c.tree, "write", path) : p \in DOMAIN c.tree
  BY DEF Found
<1> QED BY <1>1, <1>2, <1>4, <1>5

-----------------------------------------------------------------------------
(* What is listed is found.                                                *)

\* The path to a directory and one name of its list leads to the entry.
LEMMA LeadsToEntry ==
  ASSUME NEW tree, IsTree(tree), NEW path \in Seq(STRING),
         NEW p \in Found(tree, "read", path), tree[p].type \in Directories,
         NEW n \in Listing(tree, p)
  PROVE  Found(tree, "read", Append(path, n)) # {}
<1>1. PICK q \in DOMAIN tree : q # <<>> /\ Front(q) = p /\ "read" \in tree[q].rights /\ n = Last(q)
  BY DEF Listing
<1>2. /\ p \in Seq(STRING) /\ p \in DOMAIN tree /\ LeadsTo(tree, "read", path, p)
      /\ q \in Seq(STRING)
  BY DEF Found, IsTree
<1> DEFINE long == Append(path, n)
<1>3. /\ Len(q) \in Nat \ {0} /\ Len(q) - 1 \in 0 .. Len(q) /\ Len(q) \in 0 .. Len(q)
      /\ Len(q) \in DOMAIN q
      /\ SubSeq(q, 1, Len(q) - 1) = p /\ q[Len(q)] = n
  BY <1>1, <1>2 DEF Front, Last
<1>4. Len(p) = Len(q) - 1 /\ \A i \in 1 .. Len(p) : q[i] = p[i]
  BY <1>2, <1>3, Prefix
<1>5. SubSeq(q, 1, Len(q)) = q
  BY <1>2, <1>3, Prefix
<1>6. Len(path) = Len(p)
  BY <1>2 DEF LeadsTo, Swallows, Directories
<1>7. n \in STRING
  BY <1>2, <1>3, ElementOfSeq
<1>8. /\ long \in Seq(STRING) /\ Len(long) = Len(q) /\ long[Len(q)] = n
      /\ \A i \in 1 .. Len(p) : long[i] = path[i]
  BY <1>2, <1>3, <1>4, <1>6, <1>7, AppendProperties
<1> HIDE DEF long
<1>9. ASSUME NEW i \in DOMAIN q
      PROVE  /\ q[i] = Listed(tree[SubSeq(q, 1, i - 1)].type, long[i])
             /\ "read" \in tree[SubSeq(q, 1, i)].rights
  <2>1. CASE i = Len(q)
    <3>1. q[i] = Listed(tree[SubSeq(q, 1, i - 1)].type, q[i])
      BY DEF IsTree
    <3> QED BY <1>1, <1>3, <1>5, <1>8, <2>1, <3>1
  <2>2. CASE i # Len(q)
    <3>1. i \in 1 .. Len(p) /\ i \in DOMAIN p /\ i \in Nat /\ i - 1 \in Nat
      BY <1>2, <1>4, <2>2
    <3>2. SubSeq(q, 1, i) = SubSeq(p, 1, i)
      <4>1. i \in 0 .. Len(q) /\ i <= Len(p) /\ \A j \in 1 .. i : q[j] = p[j]
        BY <1>2, <1>4, <3>1
      <4> QED BY <1>2, <4>1, SamePrefix
    <3>3. SubSeq(q, 1, i - 1) = SubSeq(p, 1, i - 1)
      <4>1. i - 1 \in 0 .. Len(q) /\ i - 1 <= Len(p) /\ \A j \in 1 .. i - 1 : q[j] = p[j]
        BY <1>2, <1>4, <3>1
      <4> QED BY <1>2, <4>1, SamePrefix
    <3>4. /\ p[i] = Listed(tree[SubSeq(p, 1, i - 1)].type, path[i])
          /\ "read" \in tree[SubSeq(p, 1, i)].rights
      BY <1>2, <3>1 DEF LeadsTo
    <3>5. q[i] = p[i] /\ long[i] = path[i]
      BY <1>4, <1>8, <3>1
    <3> QED BY <3>2, <3>3, <3>4, <3>5
  <2> QED BY <2>1, <2>2
<1>10. LeadsTo(tree, "read", long, q)
  BY <1>3, <1>8, <1>9 DEF LeadsTo
<1>11. q \in Found(tree, "read", long)
  BY <1>10 DEF Found
<1> QED BY <1>11 DEF long

\* A path that leads to a node is no error to is_dir.
LEMMA FoundIsNoError ==
  ASSUME NEW path, Found(camera.tree, "read", path) # {}
  PROVE  "err" \notin Kinds(path)
<1> DEFINE results == [p \in DOMAIN camera.tree |-> {Result(camera, Answer(KindAt(camera, p), {}))}]
<1>1. SUFFICES ASSUME NEW result \in IsDir(camera, path) PROVE result.answer.is # "err"
  BY DEF Kinds
<1>2. result \in Called(camera, "read", path, results)
  BY DEF IsDir
<1>3. \/ result = Result(camera, Panics)
      \/ \E p \in Found(camera.tree, "read", path) : result \in results[p]
  <2> HIDE DEF results
  <2>1. CASE SetsOf(camera, path) \cap camera.lost # {}
    BY <1>2, <2>1 DEF Called
  <2>2. CASE SetsOf(camera, path) \cap camera.lost = {}
    <3>1. Called(camera, "read", path, results)
            = UNION {results[p] : p \in Found(camera.tree, "read", path)}
      BY <2>2 DEF Called
    <3> QED BY <1>2, <3>1
  <2> QED BY <2>1, <2>2
<1>4. CASE result = Result(camera, Panics)
  BY <1>4 DEF Result, Panics, Answer
<1>5. ASSUME NEW p \in Found(camera.tree, "read", path), result \in results[p]
      PROVE  result.answer.is # "err"
  <2>1. result = Result(camera, Answer(KindAt(camera, p), {}))
    BY <1>5 DEF Found
  <2>2. result.answer.is = KindAt(camera, p)
    BY <2>1 DEF Result, Answer
  <2> QED BY <2>2 DEF KindAt
<1> QED BY <1>3, <1>4, <1>5

LEMMA ListedOnPath ==
  ASSUME IsCamera(camera), NEW path \in Paths, NEW result \in Read(camera, path),
         result.answer.is = "left", NEW n \in result.answer.of
  PROVE  "err" \notin Kinds(Append(path, n))
<1>1. IsTree(camera.tree) /\ path \in Seq(STRING)
  BY CamerasAssumption DEF IsCamera
<1>2. SetsOf(camera, path) \cap camera.lost = {}
  <2>1. SUFFICES ASSUME SetsOf(camera, path) \cap camera.lost # {} PROVE FALSE
    OBVIOUS
  <2>2. result = Result(camera, Panics)
    BY <2>1 DEF Read, Called
  <2> QED BY <2>2 DEF Result, Panics, Answer
<1>3. PICK p : p \in Found(camera.tree, "read", path)
  <2>1. SUFFICES ASSUME Found(camera.tree, "read", path) = {} PROVE FALSE
    OBVIOUS
  <2>2. result = Result(camera, Err)
    BY <1>2, <2>1 DEF Read, Called
  <2> QED BY <2>2 DEF Result, Err, Answer
<1>4. Read(camera, path) = ReadAt(camera, path, p) /\ p \in DOMAIN camera.tree
  BY <1>2, <1>3, AnswersOfNode DEF Found
<1>5. camera.tree[p].type \in Directories
  <2>1. "left" \in {r.answer.is : r \in ReadAt(camera, path, p)}
    BY <1>4
  <2> QED BY <1>4, <2>1, ReadKinds
<1>6. result = Result(camera, Answer("left", Listing(camera.tree, p)))
  BY <1>4, <1>5 DEF ReadAt, Directories
<1>7. n \in Listing(camera.tree, p)
  BY <1>6 DEF Result, Answer
<1>8. Found(camera.tree, "read", Append(path, n)) # {}
  BY <1>1, <1>3, <1>5, <1>7, LeadsToEntry
<1> QED BY <1>8, FoundIsNoError

-----------------------------------------------------------------------------
(* What an edit leaves at the end of a path.                               *)

\* A prefix of a node's path is that of a node.
LEMMA PrefixInTree ==
  ASSUME NEW tree, IsTree(tree), NEW p \in DOMAIN tree, NEW i \in DOMAIN p
  PROVE  SubSeq(p, 1, i) \in DOMAIN tree /\ SubSeq(p, 1, i - 1) \in DOMAIN tree
<1>1. p \in Seq(STRING)
  BY DEF IsTree
<1>2. CASE i = Len(p)
  <2>1. i \in 0 .. Len(p)
    BY <1>1
  <2> QED BY <1>1, <1>2, <2>1, Prefix DEF IsTree
<1>3. CASE i # Len(p)
  <2>1. i \in Nat /\ i < Len(p)
    BY <1>1, <1>3
  <2> QED BY <2>1, NodeInTree DEF IsTree
<1> QED BY <1>2, <1>3

\* An edit changes no rights.
LEMMA EditedRights ==
  ASSUME NEW tree, IsTree(tree), NEW w \in DOMAIN tree, NEW text \in STRING,
         NEW q \in DOMAIN Edited(tree, w, text)
  PROVE  Edited(tree, w, text)[q].rights = tree[q].rights
<1> DEFINE new == Edited(tree, w, text)
<1>1. new[q] = IF q = w THEN [tree[w] EXCEPT !.text = text] ELSE tree[q]
  BY DEF Edited
<1>2. tree[w] \in Nodes
  BY DEF IsTree
<1>3. CASE q = w
  <2>1. new[q] = [tree[q] EXCEPT !.text = text]
    BY <1>1, <1>3
  <2> QED BY <1>2, <1>3, <2>1 DEF Nodes
<1>4. CASE q # w
  BY <1>1, <1>4
<1> QED BY <1>3, <1>4

\* An edit changes neither types nor rights, so the paths lead where they led,
\* except to what was taken out.
LEMMA EditedFound ==
  ASSUME NEW tree, IsTree(tree), NEW w \in DOMAIN tree, NEW text \in STRING,
         NEW right, NEW path \in Seq(STRING)
  PROVE  Found(Edited(tree, w, text), right, path)
           = Found(tree, right, path) \cap DOMAIN Edited(tree, w, text)
<1> DEFINE new == Edited(tree, w, text)
<1>1. /\ DOMAIN new \subseteq DOMAIN tree
      /\ \A q \in DOMAIN new : new[q].type = tree[q].type
  BY EditedNodes
<1>2. \A q \in DOMAIN new : new[q].rights = tree[q].rights
  BY EditedRights
<1>3. IsTree(new)
  BY EditedIsTree
<1> HIDE DEF new
<1>4. ASSUME NEW q \in DOMAIN new
      PROVE  LeadsTo(new, right, path, q) <=> LeadsTo(tree, right, path, q)
  <2>1. \A i \in DOMAIN q :
          /\ new[SubSeq(q, 1, i - 1)].type = tree[SubSeq(q, 1, i - 1)].type
          /\ new[SubSeq(q, 1, i)].rights = tree[SubSeq(q, 1, i)].rights
    BY <1>1, <1>2, <1>3, PrefixInTree
  <2>2. new[q].type = tree[q].type
    BY <1>1
  <2> QED BY <2>1, <2>2 DEF LeadsTo
<1>5. Found(new, right, path) = Found(tree, right, path) \cap DOMAIN new
  BY <1>1, <1>4 DEF Found
<1> QED BY <1>5 DEF new

\* A write gives a text to the file at the end of its path, or leaves the tree as
\* it is, where a panic may lose mutexes and only a device or a script says ok.
LEMMA WriteEdits ==
  ASSUME NEW c, IsCamera(c), NEW path \in Seq(STRING), NEW word, NEW result \in Write(c, path, word)
  PROVE  \/ /\ result.state.tree = c.tree /\ c.lost \subseteq result.state.lost
            /\ result.answer = Done =>
                 \E p \in Found(c.tree, "write", path) : c.tree[p].type \in {"script", "value"}
         \/ /\ result.answer = Done
            /\ \E p \in Found(c.tree, "write", path) : \E text \in Parsed(c.tree[p], word) :
                 /\ c.tree[p].type \in {"string", "scalar"}
                 /\ result.state = [c EXCEPT !.tree = Edited(@, p, text)]
<1> DEFINE results == [p \in DOMAIN c.tree |-> WriteAt(c, path, p, word)]
           Leaves == result.state.tree = c.tree /\ c.lost \subseteq result.state.lost
<1>1. Done # Err /\ Done # Panics
  BY DEF Done, Err, Panics, Answer
<1>2. ASSUME NEW sets, result = Losing(c, sets)
      PROVE  Leaves /\ result.answer # Done
  BY <1>1, <1>2 DEF Losing, Result, IsCamera
<1>3. ASSUME NEW answer, result = Result(c, answer)
      PROVE  Leaves /\ result.answer = answer
  BY <1>3 DEF Result
<1>4. CASE result = Result(c, Panics) \/ result = Result(c, Err)
  BY <1>1, <1>3, <1>4
<1>5. ASSUME NEW p \in Found(c.tree, "write", path), result \in WriteAt(c, path, p, word),
             c.tree[p].type \in {"script", "value"}
      PROVE  Leaves
  <2>1. CASE c.tree[p].type = "script"
    <3>1. result \in ResetResults(c)
      BY <1>5, <2>1 DEF WriteAt
    <3>2. (\E sets : result = Losing(c, sets)) \/ \E answer : result = Result(c, answer)
      BY <3>1 DEF ResetResults
    <3> QED BY <1>2, <1>3, <3>2
  <2>2. CASE c.tree[p].type = "value"
    <3>1. result \in Accessed(c, path, Done)
      BY <1>5, <2>2 DEF WriteAt
    <3>2. (\E sets : result = Losing(c, sets)) \/ \E answer : result = Result(c, answer)
      BY <3>1 DEF Accessed
    <3> QED BY <1>2, <1>3, <3>2
  <2> QED BY <1>5, <2>1, <2>2
<1>6. ASSUME NEW p \in Found(c.tree, "write", path), result \in WriteAt(c, path, p, word),
             c.tree[p].type \notin {"script", "value"}
      PROVE  \/ Leaves /\ result.answer # Done
             \/ /\ result.answer = Done
                /\ \E text \in Parsed(c.tree[p], word) :
                     /\ c.tree[p].type \in {"string", "scalar"}
                     /\ result.state = [c EXCEPT !.tree = Edited(@, p, text)]
  <2>1. CASE Parsed(c.tree[p], word) = {}
    <3>1. result = Result(c, Err)
      BY <1>6, <2>1 DEF WriteAt, Refused
    <3> QED BY <1>1, <1>3, <3>1
  <2>2. CASE Parsed(c.tree[p], word) # {}
    <3>1. PICK text \in Parsed(c.tree[p], word) :
            result = Result([c EXCEPT !.tree = Edited(@, p, text)], Done)
      BY <1>6, <2>2 DEF WriteAt
    <3>2. c.tree[p].type \in {"string", "scalar"}
      BY DEF Parsed
    <3> QED BY <3>1, <3>2 DEF Result
  <2> QED BY <2>1, <2>2
<1>7. result \in Called(c, "write", path, results)
  BY DEF Write
<1>8. \/ result = Result(c, Panics) \/ result = Result(c, Err)
      \/ \E p \in Found(c.tree, "write", path) : result \in results[p]
  <2> HIDE DEF results
  <2>1. CASE SetsOf(c, path) \cap c.lost # {}
    BY <1>7, <2>1 DEF Called
  <2>2. CASE SetsOf(c, path) \cap c.lost = {} /\ Found(c.tree, "write", path) = {}
    BY <1>7, <2>2 DEF Called
  <2>3. CASE SetsOf(c, path) \cap c.lost = {} /\ Found(c.tree, "write", path) # {}
    <3>1. Called(c, "write", path, results) = UNION {results[p] : p \in Found(c.tree, "write", path)}
      BY <2>3 DEF Called
    <3> QED BY <1>7, <3>1
  <2> QED BY <2>1, <2>2, <2>3
<1>9. \A p \in Found(c.tree, "write", path) : p \in DOMAIN c.tree
  BY DEF Found
<1> QED BY <1>4, <1>5, <1>6, <1>8, <1>9

\* A read leaves the tree as it is.
LEMMA ReadLeaves ==
  ASSUME NEW c, IsCamera(c), NEW path, NEW result \in Read(c, path)
  PROVE  result.state.tree = c.tree /\ c.lost \subseteq result.state.lost
<1> DEFINE results == [p \in DOMAIN c.tree |-> ReadAt(c, path, p)]
<1>1. ASSUME NEW p \in DOMAIN c.tree, result \in ReadAt(c, path, p)
      PROVE  (\E answer : result = Result(c, answer)) \/ \E sets : result = Losing(c, sets)
  <2>1. CASE c.tree[p].type = "value"
    <3>1. result \in Accessed(c, path, Answer("right", {"of the device"}))
      BY <1>1, <2>1 DEF ReadAt, Directories
    <3> QED BY <3>1 DEF Accessed
  <2>2. CASE c.tree[p].type # "value"
    BY <1>1, <2>2 DEF ReadAt
  <2> QED BY <2>1, <2>2
<1>2. result \in Called(c, "read", path, results)
  BY DEF Read
<1>3. result.state = c \/ \E p \in Found(c.tree, "read", path) : result \in results[p]
  <2> HIDE DEF results
  <2> QED BY <1>2, CalledStates
<1>4. \A p \in Found(c.tree, "read", path) : p \in DOMAIN c.tree
  BY DEF Found
<1>5. CASE result.state = c
  BY <1>5
<1>6. CASE \E p \in Found(c.tree, "read", path) : result \in results[p]
  <2>1. (\E answer : result = Result(c, answer)) \/ \E sets : result = Losing(c, sets)
    BY <1>1, <1>4, <1>6
  <2> QED BY <2>1 DEF Losing, Result, IsCamera
<1> QED BY <1>3, <1>5, <1>6

\* A file holds what a word stands for.
Holds(node, word) ==
  /\ node.type = "string" => node.text = word
  /\ node.type = "scalar" => word \in DOMAIN Numbers /\ node.text = Numbers[word]

\* The file at the end of the path of the last write, if that was one to a file,
\* holds what was written.
EditIsHeld ==
  last.answer = Done =>
    \A p \in Found(camera.tree, "read", last.path) : Holds(camera.tree[p], last.word)

IInv == TypeOK /\ EditIsHeld

\* What a path leads to for reading after a write is what the write was to.
LEMMA WriteHolds ==
  ASSUME NEW c, IsCamera(c), NEW path \in Seq(STRING), NEW word,
         NEW result \in Write(c, path, word), result.answer = Done,
         NEW p \in Found(result.state.tree, "read", path)
  PROVE  Holds(result.state.tree[p], word)
<1>1. IsTree(c.tree)
  BY DEF IsCamera
<1>2. CASE /\ result.state.tree = c.tree
           /\ \E w \in Found(c.tree, "write", path) : c.tree[w].type \in {"script", "value"}
  <2>1. PICK w \in Found(c.tree, "write", path) : c.tree[w].type \in {"script", "value"}
    BY <1>2
  <2>2. p = w
    BY <1>1, <1>2, OneNode
  <2> QED BY <1>2, <2>1, <2>2 DEF Holds
<1>3. CASE \E w \in Found(c.tree, "write", path) : \E text \in Parsed(c.tree[w], word) :
             /\ c.tree[w].type \in {"string", "scalar"}
             /\ result.state = [c EXCEPT !.tree = Edited(@, w, text)]
  <2>1. PICK w \in Found(c.tree, "write", path) : \E text \in Parsed(c.tree[w], word) :
          /\ c.tree[w].type \in {"string", "scalar"}
          /\ result.state = [c EXCEPT !.tree = Edited(@, w, text)]
    BY <1>3
  <2>2. PICK text \in Parsed(c.tree[w], word) :
          /\ c.tree[w].type \in {"string", "scalar"}
          /\ result.state = [c EXCEPT !.tree = Edited(@, w, text)]
    BY <2>1
  <2> DEFINE new == Edited(c.tree, w, text)
  <2>3. result.state.tree = new
    BY <2>2 DEF IsCamera
  <2>4. w \in DOMAIN c.tree /\ text \in STRING
    BY TreeAssumption DEF Found, Parsed
  <2>5. p \in Found(c.tree, "read", path) /\ p \in DOMAIN new
    BY <1>1, <2>3, <2>4, EditedFound
  <2>6. p = w
    BY <1>1, <2>5, OneNode
  <2>7. c.tree[w] \in Nodes
    BY <1>1, <2>4 DEF IsTree
  <2>8. new[w] = [c.tree[w] EXCEPT !.text = text]
    BY <2>5, <2>6 DEF Edited
  <2>9. new[w].type = c.tree[w].type /\ new[w].text = text
    BY <2>7, <2>8 DEF Nodes
  <2>10. Holds(new[w], word)
    <3>1. CASE c.tree[w].type = "string"
      BY <2>9, <3>1 DEF Holds, Parsed
    <3>2. CASE c.tree[w].type = "scalar"
      BY <2>9, <3>2 DEF Holds, Parsed
    <3> QED BY <2>2, <3>1, <3>2
  <2> QED BY <2>3, <2>6, <2>10
<1> QED BY <1>2, <1>3, WriteEdits

\* A step keeps what was written, or is the next write.
LEMMA EditStays ==
  ASSUME IInv, Next
  PROVE  EditIsHeld'
<1>1. IsCamera(camera)
  BY DEF IInv, TypeOK
<1>2. ASSUME NEW path \in Paths, ReadFile(path)
      PROVE  EditIsHeld'
  <2>1. PICK result \in Read(camera, path) : camera' = result.state
    BY <1>2 DEF ReadFile
  <2>2. camera'.tree = camera.tree /\ last' = last
    BY <1>1, <1>2, <2>1, ReadLeaves DEF ReadFile
  <2> QED BY <2>2 DEF IInv, EditIsHeld
<1>3. ASSUME NEW path \in Paths, NEW word \in Words, WriteFile(path, word)
      PROVE  EditIsHeld'
  <2>1. PICK result \in Write(camera, path, word) :
          /\ camera' = result.state
          /\ last' = IF result.answer = Err THEN last
                     ELSE [path |-> path, word |-> word, answer |-> result.answer]
    BY <1>3 DEF WriteFile
  <2>2. path \in Seq(STRING)
    BY CamerasAssumption
  <2>3. CASE result.answer = Err
    <3>1. result.answer # Done
      BY <2>3 DEF Err, Done, Answer
    <3>2. camera'.tree = camera.tree /\ last' = last
      BY <1>1, <2>1, <2>2, <2>3, <3>1, WriteEdits
    <3> QED BY <3>2 DEF IInv, EditIsHeld
  <2>4. CASE result.answer # Err
    <3>1. last'.path = path /\ last'.word = word /\ last'.answer = result.answer
      BY <2>1, <2>4
    <3> SUFFICES ASSUME last'.answer = Done, NEW p \in Found(camera'.tree, "read", path)
                 PROVE  Holds(camera'.tree[p], word)
      BY <3>1 DEF EditIsHeld
    <3> QED BY <1>1, <2>1, <2>2, <3>1, WriteHolds
  <2> QED BY <2>3, <2>4
<1> QED BY <1>2, <1>3 DEF Next

-----------------------------------------------------------------------------
(* What is_dir says before and after an edit.                              *)

LEMMA KindIs ==
  ASSUME NEW c, IsCamera(c), NEW path \in Seq(STRING), NEW result \in IsDir(c, path)
  PROVE  LET kind == result.answer.is
         IN IF SetsOf(c, path) \cap c.lost # {} THEN kind = "panic"
            ELSE /\ Found(c.tree, "read", path) = {} => kind = "err"
                 /\ \A p \in Found(c.tree, "read", path) : kind = KindAt(c, p)
<1> DEFINE results == [p \in DOMAIN c.tree |-> {Result(c, Answer(KindAt(c, p), {}))}]
<1>1. result \in Called(c, "read", path, results)
  BY DEF IsDir
<1>2. CASE SetsOf(c, path) \cap c.lost # {}
  <2>1. result = Result(c, Panics)
    BY <1>1, <1>2 DEF Called
  <2> QED BY <1>2, <2>1 DEF Result, Panics, Answer
<1>3. CASE SetsOf(c, path) \cap c.lost = {} /\ Found(c.tree, "read", path) = {}
  <2>1. result = Result(c, Err)
    BY <1>1, <1>3 DEF Called
  <2> QED BY <1>3, <2>1 DEF Result, Err, Answer
<1>4. CASE SetsOf(c, path) \cap c.lost = {} /\ Found(c.tree, "read", path) # {}
  <2> SUFFICES ASSUME NEW p \in Found(c.tree, "read", path)
               PROVE  result.answer.is = KindAt(c, p)
    BY <1>4
  <2>1. p \in DOMAIN c.tree /\ \A q \in Found(c.tree, "read", path) : q = p
    BY OneNode DEF Found, IsCamera
  <2>2. result \in UNION {results[q] : q \in Found(c.tree, "read", path)}
    <3> HIDE DEF results
    <3> QED BY <1>1, <1>4 DEF Called
  <2>3. result \in results[p]
    <3> HIDE DEF results
    <3> QED BY <2>1, <2>2
  <2>4. result = Result(c, Answer(KindAt(c, p), {}))
    BY <2>1, <2>3
  <2> QED BY <2>4 DEF Result, Answer
<1> QED BY <1>2, <1>3, <1>4

\* Where the tree stays, is_dir answers as before or meets a mutex that was lost.
LEMMA LostKinds ==
  ASSUME NEW c, IsCamera(c), NEW d, IsCamera(d), d.tree = c.tree, c.lost \subseteq d.lost,
         NEW path \in Seq(STRING), NEW before \in IsDir(c, path), NEW after \in IsDir(d, path),
         after.answer.is # before.answer.is
  PROVE  after.answer.is = "panic"
<1>1. SetsOf(d, path) = SetsOf(c, path)
  BY DEF SetsOf
<1>2. SUFFICES ASSUME SetsOf(d, path) \cap d.lost = {} PROVE FALSE
  BY KindIs
<1>3. SetsOf(c, path) \cap c.lost = {}
  BY <1>1, <1>2
<1>4. CASE Found(c.tree, "read", path) = {}
  BY <1>2, <1>3, <1>4, KindIs
<1>5. ASSUME NEW p \in Found(c.tree, "read", path) PROVE FALSE
  <2>1. before.answer.is = KindAt(c, p)
    BY <1>3, KindIs
  <2>2. after.answer.is = KindAt(d, p)
    BY <1>2, KindIs
  <2> QED BY <2>1, <2>2 DEF KindAt
<1> QED BY <1>4, <1>5

\* No edit takes a register set away.
LEMMA EditedSets ==
  ASSUME NEW c, IsCamera(c), NEW w \in DOMAIN c.tree, NEW text \in STRING,
         NEW d, d.tree = Edited(c.tree, w, text), NEW path \in Seq(STRING)
  PROVE  SetsOf(d, path) = SetsOf(c, path)
<1> DEFINE new == Edited(c.tree, w, text)
           s   == SubSeq(path, 1, 2)
<1>1. d.tree = new
  OBVIOUS
<1>2. /\ DOMAIN new \subseteq DOMAIN c.tree
      /\ \A q \in DOMAIN c.tree \ DOMAIN new : c.tree[Front(q)].type = "keywords"
  <2>1. IsTree(c.tree)
    BY DEF IsCamera
  <2> QED BY <2>1, EditedNodes
<1>3. ASSUME Len(path) > 1, path[1] = "registers"
      PROVE  s \in DOMAIN c.tree <=> s \in DOMAIN new
  <2>1. 2 \in 0 .. Len(path)
    BY <1>3
  <2>2. s \in Seq(STRING) /\ Len(s) = 2 /\ s[1] = "registers"
    BY <1>3, <2>1, Prefix
  <2>3. Front(s) = <<"registers">>
    BY <2>2, SetFront
  <2>4. c.tree[<<"registers">>].type # "keywords"
    BY DEF IsCamera
  <2> QED BY <1>2, <2>3, <2>4
<1> HIDE DEF new
<1> QED BY <1>1, <1>3 DEF SetsOf

\* What an edit takes out of the tree is a keyword that had the word.
LEMMA EditedGone ==
  ASSUME NEW tree, IsTree(tree), <<"registers">> \in DOMAIN tree,
         NEW w \in DOMAIN tree, tree[w].type \in {"string", "scalar"},
         NEW word, NEW text \in Parsed(tree[w], word),
         NEW q \in DOMAIN tree, q \notin DOMAIN Edited(tree, w, text)
  PROVE  tree[q].type = "string" /\ tree[q].text = word
<1>1. text \in STRING
  BY TreeAssumption DEF Parsed
<1>2. tree[q].type = "string"
  BY <1>1, EditedNodes
<1>3. tree[q].text = text /\ Front(q) = Front(w) /\ tree[Front(w)].type = "keywords"
  BY DEF Edited
<1>4. w \in Seq(STRING)
  BY DEF IsTree
<1>5. w # <<>>
  <2>1. tree[SubSeq(<<"registers">>, 1, 0)].type \in Directories
    <3>1. 0 \in Nat /\ 0 < Len(<<"registers">>)
      OBVIOUS
    <3> QED BY <3>1, NodeInTree
  <2>2. SubSeq(<<"registers">>, 1, 0) = <<>>
    OBVIOUS
  <2> QED BY <2>1, <2>2 DEF Directories
<1>6. Len(w) \in DOMAIN w /\ Len(w) \in 0 .. Len(w)
  BY <1>4, <1>5
<1>7. SubSeq(w, 1, Len(w)) = w
  BY <1>4, <1>6, Prefix
<1>8. tree[w].type = "string"
  BY <1>2, <1>3, <1>6, <1>7 DEF IsTree, Front
<1> QED BY <1>2, <1>3, <1>8 DEF Parsed

\* The tree of a camera.
HasTree(c, tree) == c.tree = tree

\* Where a file was edited, is_dir answers as before except for the keyword that
\* was taken out.
LEMMA EditedKinds ==
  ASSUME NEW c, IsCamera(c), NEW tree, HasTree(c, tree),
         NEW w \in DOMAIN tree, tree[w].type \in {"string", "scalar"},
         NEW word, NEW text \in Parsed(tree[w], word),
         NEW d, IsCamera(d), d.tree = Edited(tree, w, text), d.lost = c.lost,
         NEW path \in Seq(STRING), NEW before \in IsDir(c, path), NEW after \in IsDir(d, path),
         after.answer.is # before.answer.is
  PROVE  /\ before.answer.is = "file" /\ after.answer.is = "err"
         /\ \A p \in Found(tree, "read", path) : word = tree[p].text
<1> DEFINE new == Edited(tree, w, text)
<1>1. c.tree = tree
  BY DEF HasTree
<1>2. text \in STRING
  BY TreeAssumption DEF Parsed
<1>3. IsTree(tree) /\ <<"registers">> \in DOMAIN tree
  BY <1>1 DEF IsCamera
<1>4. Found(new, "read", path) = Found(tree, "read", path) \cap DOMAIN new
  BY <1>2, <1>3, EditedFound
<1>5. \A q \in DOMAIN new : new[q].type = tree[q].type
  BY <1>2, <1>3, EditedNodes
<1>6. \A q \in DOMAIN tree \ DOMAIN new : tree[q].type = "string" /\ tree[q].text = word
  <2> TAKE q \in DOMAIN tree \ DOMAIN new
  <2>1. q \in DOMAIN tree /\ q \notin DOMAIN Edited(tree, w, text)
    OBVIOUS
  <2> HIDE DEF new
  <2> QED BY <1>3, <2>1, EditedGone
<1>7. SetsOf(d, path) = SetsOf(c, path)
  BY <1>1, <1>2, EditedSets
<1>8. d.tree = new
  OBVIOUS
<1> HIDE DEF new
<1>9. SetsOf(c, path) \cap c.lost = {} /\ SetsOf(d, path) \cap d.lost = {}
  <2> SUFFICES ASSUME SetsOf(c, path) \cap c.lost # {} PROVE FALSE
    BY <1>7
  <2>1. before.answer.is = "panic"
    BY KindIs
  <2>2. SetsOf(d, path) \cap d.lost # {}
    BY <1>7
  <2>3. after.answer.is = "panic"
    BY <2>2, KindIs
  <2> QED BY <2>1, <2>3
<1>10. CASE Found(tree, "read", path) = {}
  <2>1. before.answer.is = "err"
    BY <1>1, <1>9, <1>10, KindIs
  <2>2. Found(d.tree, "read", path) = {}
    BY <1>4, <1>8, <1>10
  <2>3. after.answer.is = "err"
    BY <1>9, <2>2, KindIs
  <2> QED BY <2>1, <2>3
<1>11. ASSUME NEW p \in Found(tree, "read", path)
       PROVE  /\ before.answer.is = "file" /\ after.answer.is = "err"
              /\ \A q \in Found(tree, "read", path) : word = tree[q].text
  <2>1. before.answer.is = KindAt(c, p)
    BY <1>1, <1>9, KindIs
  <2>2. p \in DOMAIN tree /\ \A q \in Found(tree, "read", path) : q = p
    BY <1>3, OneNode DEF Found
  <2>3. p \notin DOMAIN new
    <3> SUFFICES ASSUME p \in DOMAIN new PROVE FALSE
      OBVIOUS
    <3>1. p \in Found(d.tree, "read", path)
      BY <1>4, <1>8
    <3>2. after.answer.is = KindAt(d, p)
      BY <1>9, <3>1, KindIs
    <3> QED BY <1>5, <1>8, <1>1, <2>1, <3>2 DEF KindAt
  <2>4. tree[p].type = "string" /\ tree[p].text = word
    BY <1>6, <2>2, <2>3
  <2>5. Found(d.tree, "read", path) = {}
    BY <1>4, <1>8, <2>2, <2>3
  <2>6. after.answer.is = "err"
    BY <1>9, <2>5, KindIs
  <2>7. before.answer.is = "file"
    BY <1>1, <2>1, <2>4 DEF KindAt, Directories
  <2> QED BY <2>2, <2>4, <2>6, <2>7
<1> QED BY <1>10, <1>11

\* What is_dir says after a step.
LEMMA KindsStep ==
  ASSUME TypeOK, TypeOK', Next, NEW path \in Paths,
         NEW before \in Kinds(path), NEW after \in Kinds(path)', after # before
  PROVE  \/ after = "panic"
         \/ /\ before = "file" /\ after = "err"
            /\ last'.answer = Done
            /\ \A p \in Found(camera.tree, "read", path) : last'.word = camera.tree[p].text
<1>1. IsCamera(camera) /\ IsCamera(camera') /\ path \in Seq(STRING)
  BY CamerasAssumption DEF TypeOK
<1>2. PICK r \in IsDir(camera, path) : before = r.answer.is
  BY DEF Kinds
<1>3. PICK s \in IsDir(camera', path) : after = s.answer.is
  BY DEF Kinds
<1>4. CASE camera'.tree = camera.tree /\ camera.lost \subseteq camera'.lost
  BY <1>1, <1>2, <1>3, <1>4, LostKinds
<1>5. ASSUME NEW at \in Paths, ReadFile(at)
      PROVE  camera'.tree = camera.tree /\ camera.lost \subseteq camera'.lost
  BY <1>1, <1>5, ReadLeaves DEF ReadFile
<1>6. ASSUME NEW at \in Paths, NEW word \in Words, WriteFile(at, word),
             ~(camera'.tree = camera.tree /\ camera.lost \subseteq camera'.lost)
      PROVE  /\ before = "file" /\ after = "err"
             /\ last'.answer = Done
             /\ \A p \in Found(camera.tree, "read", path) : last'.word = camera.tree[p].text
  <2>1. PICK result \in Write(camera, at, word) :
          /\ camera' = result.state
          /\ last' = IF result.answer = Err THEN last
                     ELSE [path |-> at, word |-> word, answer |-> result.answer]
    BY <1>6 DEF WriteFile
  <2>2. at \in Seq(STRING)
    BY CamerasAssumption
  <2>3. /\ result.answer = Done
        /\ \E w \in Found(camera.tree, "write", at) : \E text \in Parsed(camera.tree[w], word) :
             /\ camera.tree[w].type \in {"string", "scalar"}
             /\ result.state = [camera EXCEPT !.tree = Edited(@, w, text)]
    BY <1>1, <1>6, <2>1, <2>2, WriteEdits
  <2>4. PICK w \in Found(camera.tree, "write", at) : \E text \in Parsed(camera.tree[w], word) :
          /\ camera.tree[w].type \in {"string", "scalar"}
          /\ camera' = [camera EXCEPT !.tree = Edited(@, w, text)]
    BY <2>1, <2>3
  <2>5. PICK text \in Parsed(camera.tree[w], word) :
          /\ camera.tree[w].type \in {"string", "scalar"}
          /\ camera' = [camera EXCEPT !.tree = Edited(@, w, text)]
    BY <2>4
  <2>6. w \in DOMAIN camera.tree
    BY DEF Found
  <2>7. last'.answer = Done /\ last'.word = word
    <3>1. Done # Err
      BY DEF Done, Err, Answer
    <3> QED BY <2>1, <2>3, <3>1
  <2>8. /\ r.answer.is = "file" /\ s.answer.is = "err"
        /\ \A p \in Found(camera.tree, "read", path) : word = camera.tree[p].text
    <3>1. s.answer.is # r.answer.is
      BY <1>2, <1>3
    <3>2. IsCamera(camera) /\ path \in Seq(STRING) /\ r \in IsDir(camera, path) /\ s \in IsDir(camera', path)
      BY <1>1, <1>2, <1>3
    <3>3. /\ camera.tree[w].type \in {"string", "scalar"} /\ text \in Parsed(camera.tree[w], word)
          /\ camera' = [camera EXCEPT !.tree = Edited(@, w, text)]
      BY <2>5
    <3> DEFINE tree == camera.tree
    <3>4. /\ w \in DOMAIN tree /\ tree[w].type \in {"string", "scalar"}
          /\ text \in Parsed(tree[w], word) /\ HasTree(camera, tree)
          /\ camera'.tree = Edited(tree, w, text) /\ camera'.lost = camera.lost
      BY <1>1, <2>6, <3>3 DEF IsCamera, HasTree
    <3> HIDE DEF tree
    <3>5. /\ r.answer.is = "file" /\ s.answer.is = "err"
          /\ \A p \in Found(tree, "read", path) : word = tree[p].text
      BY <1>1, <3>1, <3>2, <3>4, EditedKinds
    <3> QED BY <3>5 DEF tree
  <2> QED BY <1>2, <1>3, <2>7, <2>8
<1> QED BY <1>4, <1>5, <1>6 DEF Next

-----------------------------------------------------------------------------
(* Only value maps are edited.                                             *)

\* The root of a camera is a directory.
LEMMA RootIsNoFile ==
  ASSUME NEW tree, IsTree(tree), <<"registers">> \in DOMAIN tree
  PROVE  <<>> \in DOMAIN tree /\ tree[<<>>].type \in Directories
<1>1. 0 \in Nat /\ 0 < Len(<<"registers">>)
  OBVIOUS
<1>2. SubSeq(<<"registers">>, 1, 0) = <<>>
  OBVIOUS
<1>3. /\ SubSeq(<<"registers">>, 1, 0) \in DOMAIN tree
      /\ tree[SubSeq(<<"registers">>, 1, 0)].type \in Directories
  BY <1>1, NodeInTree
<1> QED BY <1>2, <1>3

\* What is above a node.
LEMMA FrontInTree ==
  ASSUME NEW tree, IsTree(tree), NEW p \in DOMAIN tree, p # <<>>
  PROVE  Front(p) \in DOMAIN tree /\ tree[Front(p)].type \in Directories
<1>1. p \in Seq(STRING)
  BY DEF IsTree
<1>2. Len(p) \in DOMAIN p
  BY <1>1
<1> QED BY <1>2 DEF IsTree, Front

\* After an edit the files that a client can write are still those of value maps.
LEMMA EditedIsClosed ==
  ASSUME NEW tree, IsTree(tree), IsClosed(tree), <<"registers">> \in DOMAIN tree,
         NEW w \in DOMAIN tree, NEW text \in STRING
  PROVE  IsClosed(Edited(tree, w, text))
<1> DEFINE new == Edited(tree, w, text)
<1>1. /\ DOMAIN new \subseteq DOMAIN tree
      /\ \A q \in DOMAIN new : new[q].type = tree[q].type
  BY EditedNodes
<1>2. \A q \in DOMAIN new : new[q].rights = tree[q].rights
  BY EditedRights
<1>3. IsTree(new)
  BY EditedIsTree
<1> HIDE DEF new
<1> SUFFICES ASSUME NEW p \in DOMAIN new, new[p].type \in {"string", "scalar"},
                    \A i \in DOMAIN p : "write" \in new[SubSeq(p, 1, i)].rights
             PROVE  new[Front(p)].type \in {"keywords", "numeric"}
  BY DEF IsClosed, new
<1>4. \A i \in DOMAIN p : "write" \in tree[SubSeq(p, 1, i)].rights
  BY <1>2, <1>3, PrefixInTree
<1>5. p \in DOMAIN tree /\ tree[p].type \in {"string", "scalar"}
  BY <1>1
<1>6. tree[Front(p)].type \in {"keywords", "numeric"}
  BY <1>4, <1>5 DEF IsClosed
<1>7. p # <<>>
  BY <1>5, RootIsNoFile DEF Directories
<1>8. Front(p) \in DOMAIN new
  BY <1>3, <1>7, FrontInTree
<1> QED BY <1>1, <1>6, <1>8

\* What the edit of a file at the end of a path changes or takes out is in a value
\* map.
LEMMA EditedInMap ==
  ASSUME NEW tree, IsTree(tree), IsClosed(tree), NEW path,
         NEW w \in Found(tree, "write", path), tree[w].type \in {"string", "scalar"},
         NEW text \in STRING, NEW p \in DOMAIN tree,
         p \notin DOMAIN Edited(tree, w, text) \/ Edited(tree, w, text)[p] # tree[p]
  PROVE  tree[Front(p)].type \in {"keywords", "numeric"}
<1>1. w \in DOMAIN tree /\ \A i \in DOMAIN w : "write" \in tree[SubSeq(w, 1, i)].rights
  BY DEF Found, LeadsTo
<1>2. CASE p = w
  BY <1>1, <1>2 DEF IsClosed
<1>3. CASE p # w
  <2>1. p \notin DOMAIN Edited(tree, w, text)
    BY <1>3 DEF Edited
  <2> QED BY <1>1, <2>1, EditedNodes
<1> QED BY <1>2, <1>3

\* A step edits value maps, and what can be written stays in value maps.
LEMMA StepInMaps ==
  ASSUME TypeOK, IsClosed(camera.tree), Next
  PROVE  /\ IsClosed(camera'.tree)
         /\ \A p \in DOMAIN camera.tree :
              p \notin DOMAIN camera'.tree \/ camera'.tree[p] # camera.tree[p]
                => camera.tree[Front(p)].type \in {"keywords", "numeric"}
<1>1. IsCamera(camera)
  BY DEF TypeOK
<1>2. CASE camera'.tree = camera.tree
  BY <1>2
<1>3. ASSUME NEW path \in Paths, ReadFile(path)
      PROVE  camera'.tree = camera.tree
  BY <1>1, <1>3, ReadLeaves DEF ReadFile
<1>4. ASSUME NEW path \in Paths, NEW word \in Words, WriteFile(path, word),
             camera'.tree # camera.tree
      PROVE  /\ IsClosed(camera'.tree)
             /\ \A p \in DOMAIN camera.tree :
                  p \notin DOMAIN camera'.tree \/ camera'.tree[p] # camera.tree[p]
                    => camera.tree[Front(p)].type \in {"keywords", "numeric"}
  <2>1. PICK result \in Write(camera, path, word) : camera' = result.state
    BY <1>4 DEF WriteFile
  <2>2. path \in Seq(STRING)
    BY CamerasAssumption
  <2>3. \E w \in Found(camera.tree, "write", path) : \E text \in Parsed(camera.tree[w], word) :
          /\ camera.tree[w].type \in {"string", "scalar"}
          /\ result.state = [camera EXCEPT !.tree = Edited(@, w, text)]
    BY <1>1, <1>4, <2>1, <2>2, WriteEdits
  <2>4. PICK w \in Found(camera.tree, "write", path) : \E text \in Parsed(camera.tree[w], word) :
          /\ camera.tree[w].type \in {"string", "scalar"}
          /\ camera' = [camera EXCEPT !.tree = Edited(@, w, text)]
    BY <2>1, <2>3
  <2>5. PICK text \in Parsed(camera.tree[w], word) :
          /\ camera.tree[w].type \in {"string", "scalar"}
          /\ camera' = [camera EXCEPT !.tree = Edited(@, w, text)]
    BY <2>4
  <2>6. text \in STRING /\ w \in DOMAIN camera.tree
    BY TreeAssumption DEF Parsed, Found
  <2>7. camera'.tree = Edited(camera.tree, w, text)
    BY <1>1, <2>5 DEF IsCamera
  <2>8. IsTree(camera.tree) /\ <<"registers">> \in DOMAIN camera.tree
    BY <1>1 DEF IsCamera
  <2>9. IsClosed(Edited(camera.tree, w, text))
    BY <2>6, <2>8, EditedIsClosed
  <2>10. \A p \in DOMAIN camera.tree :
           \/ p \notin DOMAIN Edited(camera.tree, w, text)
           \/ Edited(camera.tree, w, text)[p] # camera.tree[p]
           => camera.tree[Front(p)].type \in {"keywords", "numeric"}
    BY <2>5, <2>6, <2>8, EditedInMap
  <2> QED BY <2>7, <2>9, <2>10
<1> QED BY <1>2, <1>3, <1>4 DEF Next

-----------------------------------------------------------------------------
(* Every camera keeps its files behind read-only fields, but for the maps. *)

\* The paths of a tree have a root and no gaps.
Rooted(S, tree) ==
  /\ <<>> \in DOMAIN tree /\ "rights" \in DOMAIN tree[<<>>]
  /\ \A p \in DOMAIN tree :
       /\ p \in Seq(S)
       /\ p # <<>> => Front(p) \in DOMAIN tree
       /\ \A i \in DOMAIN p : SubSeq(p, 1, i) \in DOMAIN tree

\* A name and a path.
LEMMA NameFirst ==
  ASSUME NEW S, NEW n \in S, NEW q \in Seq(S)
  PROVE  LET p == <<n>> \o q
         IN /\ p \in Seq(S) /\ Len(p) = 1 + Len(q) /\ p[1] = n
            /\ \A i \in 1 .. Len(q) : p[1 + i] = q[i]
<1> DEFINE h == <<n>>
           p == h \o q
<1>1. h \in Seq(S) /\ Len(h) = 1 /\ h[1] = n
  OBVIOUS
<1> HIDE DEF h
<1>2. /\ p \in Seq(S) /\ Len(p) = Len(h) + Len(q)
      /\ \A i \in 1 .. Len(h) + Len(q) : p[i] = IF i <= Len(h) THEN h[i] ELSE q[i - Len(h)]
  BY <1>1, ConcatProperties
<1> HIDE DEF p
<1>3. Len(q) \in Nat
  OBVIOUS
<1>4. p[1] = n
  BY <1>1, <1>2, <1>3
<1>5. ASSUME NEW i \in 1 .. Len(q) PROVE p[1 + i] = q[i]
  <2>1. 1 + i \in 1 .. 1 + Len(q) /\ ~(1 + i <= 1) /\ (1 + i) - 1 = i
    BY <1>3
  <2> QED BY <1>1, <1>2, <2>1
<1> QED BY <1>1, <1>2, <1>4, <1>5 DEF p, h

\* A path in the entry n.
Under(n, q) == <<n>> \o q

\* What is in the fields of a directory.
AllRooted(S, kids) == \A n \in DOMAIN kids : n \in S /\ Rooted(S, kids[n])

\* A path in the entry n, its prefixes and its front.
LEMMA NamePath ==
  ASSUME NEW S, NEW n \in S, NEW q \in Seq(S)
  PROVE  LET p == Under(n, q)
         IN /\ p \in Seq(S) /\ p # <<>> /\ Head(p) = n /\ Tail(p) = q
            /\ SubSeq(p, 1, 1) = Under(n, <<>>)
            /\ \A i \in DOMAIN q : i + 1 \in DOMAIN p /\ SubSeq(p, 1, i + 1) = Under(n, SubSeq(q, 1, i))
            /\ Front(p) = IF q = <<>> THEN <<>> ELSE Under(n, Front(q))
            /\ \A i \in DOMAIN p : i = 1 \/ i - 1 \in DOMAIN q
<1> DEFINE p == <<n>> \o q
<1>1. /\ p \in Seq(S) /\ Len(p) = 1 + Len(q) /\ p[1] = n
      /\ \A i \in 1 .. Len(q) : p[1 + i] = q[i]
  BY NameFirst
<1> HIDE DEF p, Under
<1>2. p # <<>> /\ Head(p) = n
  <2>1. Len(p) # 0
    BY <1>1
  <2>2. p # <<>>
    BY <2>1
  <2>3. Head(p) = p[1]
    BY <1>1, <2>2
  <2> QED BY <1>1, <2>2, <2>3
<1>3. Tail(p) = q
  <2>1. Tail(p) \in Seq(S) /\ Len(Tail(p)) = Len(q) /\ \A i \in 1 .. Len(q) : Tail(p)[i] = q[i]
    BY <1>1, <1>2
  <2> QED BY <2>1, SeqEqual
<1>4. ASSUME NEW m \in 0 .. Len(q)
      PROVE  SubSeq(p, 1, m + 1) = <<n>> \o SubSeq(q, 1, m)
  <2> DEFINE s == SubSeq(p, 1, m + 1)
             t == SubSeq(q, 1, m)
  <2>1. /\ s \in Seq(S) /\ Len(s) = m + 1 /\ \A i \in 1 .. m + 1 : s[i] = p[i]
    BY <1>1
  <2>2. /\ t \in Seq(S) /\ Len(t) = m /\ \A i \in 1 .. m : t[i] = q[i]
    OBVIOUS
  <2> HIDE DEF s, t
  <2> DEFINE u == <<n>> \o t
  <2>3. /\ u \in Seq(S) /\ Len(u) = m + 1 /\ u[1] = n
        /\ \A i \in 1 .. m : u[1 + i] = t[i]
    BY <2>2, NameFirst
  <2> HIDE DEF u
  <2>4. \A i \in 1 .. m + 1 : s[i] = u[i]
    <3> TAKE i \in 1 .. m + 1
    <3>1. CASE i = 1
      BY <1>1, <2>1, <2>3, <3>1
    <3>2. CASE i # 1
      <4>1. PICK j \in 1 .. m : i = 1 + j
        <5>1. i - 1 \in 1 .. m /\ i = 1 + (i - 1)
          BY <3>2
        <5> QED BY <5>1
      <4>2. j \in 1 .. Len(q)
        OBVIOUS
      <4>3. s[i] = p[1 + j]
        BY <2>1, <4>1
      <4> QED BY <1>1, <2>2, <2>3, <4>1, <4>2, <4>3
    <3> QED BY <3>1, <3>2
  <2>5. s = u
    BY <2>1, <2>3, <2>4, SeqEqual
  <2> QED BY <2>5 DEF s, t, u
<1>5. SubSeq(p, 1, 1) = <<n>> \o <<>>
  <2>1. 0 \in 0 .. Len(q) /\ 0 + 1 = 1 /\ SubSeq(q, 1, 0) = <<>>
    OBVIOUS
  <2> QED BY <1>4, <2>1
<1>6. ASSUME NEW i \in DOMAIN q
      PROVE  i + 1 \in DOMAIN p /\ SubSeq(p, 1, i + 1) = <<n>> \o SubSeq(q, 1, i)
  <2>1. i \in 0 .. Len(q) /\ i + 1 \in DOMAIN p
    BY <1>1
  <2> QED BY <1>4, <2>1
<1>7. Front(p) = IF q = <<>> THEN <<>> ELSE <<n>> \o Front(q)
  <2>1. Front(p) = SubSeq(p, 1, Len(q))
    <3>1. Len(p) - 1 = Len(q)
      BY <1>1
    <3> QED BY <3>1 DEF Front
  <2>2. CASE q = <<>>
    <3>1. Len(q) = 0
      BY <2>2
    <3>2. SubSeq(p, 1, 0) = <<>>
      BY <1>1
    <3> QED BY <2>1, <2>2, <3>1, <3>2
  <2>3. CASE q # <<>>
    <3>1. Len(q) - 1 \in 0 .. Len(q) /\ (Len(q) - 1) + 1 = Len(q)
      BY <2>3
    <3>2. SubSeq(p, 1, (Len(q) - 1) + 1) = <<n>> \o SubSeq(q, 1, Len(q) - 1)
      BY <1>4, <3>1
    <3> QED BY <2>1, <2>3, <3>1, <3>2 DEF Front
  <2> QED BY <2>2, <2>3
<1>8. \A i \in DOMAIN p : i = 1 \/ i - 1 \in DOMAIN q
  BY <1>1
<1> QED BY <1>1, <1>2, <1>3, <1>5, <1>6, <1>7, <1>8 DEF p, Under

\* The root of a directory.
LEMMA DirRoot ==
  ASSUME NEW kids, NEW type
  PROVE  /\ <<>> \in DOMAIN Dir(type, kids) /\ Dir(type, kids)[<<>>].type = type
         /\ "rights" \in DOMAIN Dir(type, kids)[<<>>]
<1>1. <<>> \in DOMAIN Dir(type, kids) /\ Dir(type, kids)[<<>>] = NodeOf(type, "")
  BY DEF Dir
<1>2. NodeOf(type, "").type = type /\ "rights" \in DOMAIN NodeOf(type, "")
  BY DEF NodeOf
<1> QED BY <1>1, <1>2

\* What is below the root of a directory is in one of its fields.
LEMMA DirEntry ==
  ASSUME NEW kids, NEW type, NEW p \in DOMAIN Dir(type, kids), p # <<>>
  PROVE  \E n \in DOMAIN kids : \E q \in DOMAIN kids[n] : p = Under(n, q)
<1> DEFINE of(n) == {Under(n, q) : q \in DOMAIN kids[n]}
           below == UNION {of(n) : n \in DOMAIN kids}
<1>1. DOMAIN Dir(type, kids) = {<<>>} \cup below
  BY DEF Dir, Under
<1>2. \A s \in below : \E n \in DOMAIN kids : s \in of(n)
  <2> HIDE DEF of
  <2> QED OBVIOUS
<1>3. p \in below
  <2> HIDE DEF below
  <2> QED BY <1>1
<1>4. PICK n \in DOMAIN kids : p \in of(n)
  <2> HIDE DEF below, of
  <2> QED BY <1>2, <1>3
<1> QED BY <1>4

\* The nodes below a field of a directory are those in it.
LEMMA DirField ==
  ASSUME NEW S, NEW kids, AllRooted(S, kids), NEW type,
         NEW n \in DOMAIN kids, NEW tree, tree = kids[n], NEW q \in DOMAIN tree
  PROVE  /\ Under(n, q) \in DOMAIN Dir(type, kids)
         /\ Dir(type, kids)[Under(n, q)] = tree[q]
<1> DEFINE dir == Dir(type, kids)
           of(m) == {<<m>> \o s : s \in DOMAIN kids[m]}
           below == UNION {of(m) : m \in DOMAIN kids}
           p == Under(n, q)
<1>1. DOMAIN dir = {<<>>} \cup below
  BY DEF Dir
<1>2. \A s \in {<<>>} \cup below : dir[s] = IF s = <<>> THEN NodeOf(type, "") ELSE kids[Head(s)][Tail(s)]
  BY DEF Dir
<1>3. n \in S /\ q \in Seq(S)
  BY DEF Rooted, AllRooted
<1>4. p # <<>> /\ Head(p) = n /\ Tail(p) = q
  BY <1>3, NamePath
<1>5. p \in of(n)
  BY DEF Under
<1>6. p \in below
  <2> HIDE DEF of, p
  <2> QED BY <1>5
<1> HIDE DEF dir, below, p
<1>7. p \in DOMAIN dir /\ dir[p] = tree[q]
  BY <1>1, <1>2, <1>4, <1>6
<1> QED BY <1>7 DEF dir, p

\* A directory of trees is rooted.
LEMMA DirIsRooted ==
  ASSUME NEW S, NEW kids, AllRooted(S, kids), NEW type
  PROVE  Rooted(S, Dir(type, kids))
<1> DEFINE dir == Dir(type, kids)
<1>1. <<>> \in DOMAIN dir /\ "rights" \in DOMAIN dir[<<>>]
  BY DirRoot
<1>1b. ASSUME NEW p \in DOMAIN dir, p # <<>>
       PROVE  \E n \in DOMAIN kids : \E q \in DOMAIN kids[n] : p = Under(n, q)
  BY <1>1b, DirEntry
<1>1a. \A n \in DOMAIN kids : \A q \in DOMAIN kids[n] : Under(n, q) \in DOMAIN dir
  BY DirField
<1> HIDE DEF dir
<1>2. ASSUME NEW n \in DOMAIN kids, NEW q \in DOMAIN kids[n]
      PROVE  LET p == Under(n, q)
             IN /\ p \in Seq(S) /\ Front(p) \in DOMAIN dir
                /\ \A i \in DOMAIN p : SubSeq(p, 1, i) \in DOMAIN dir
  <2> DEFINE p == Under(n, q)
  <2>1. /\ n \in S /\ q \in Seq(S) /\ <<>> \in DOMAIN kids[n]
        /\ q # <<>> => Front(q) \in DOMAIN kids[n]
        /\ \A i \in DOMAIN q : SubSeq(q, 1, i) \in DOMAIN kids[n]
    BY DEF Rooted, AllRooted
  <2>2. /\ p \in Seq(S)
        /\ SubSeq(p, 1, 1) = Under(n, <<>>)
        /\ \A i \in DOMAIN q : i + 1 \in DOMAIN p /\ SubSeq(p, 1, i + 1) = Under(n, SubSeq(q, 1, i))
    BY <2>1, NamePath
  <2>2a. Front(p) = IF q = <<>> THEN <<>> ELSE Under(n, Front(q))
    BY <2>1, NamePath
  <2>2b. \A i \in DOMAIN p : i = 1 \/ i - 1 \in DOMAIN q
    BY <2>1, NamePath
  <2> HIDE DEF p
  <2>3. Front(p) \in DOMAIN dir
    BY <1>1, <1>1a, <1>1b, <2>1, <2>2, <2>2a
  <2>4. ASSUME NEW i \in DOMAIN p PROVE SubSeq(p, 1, i) \in DOMAIN dir
    <3>1. CASE i = 1
      BY <1>1, <1>1a, <1>1b, <2>1, <2>2, <3>1
    <3>2. ASSUME NEW j \in DOMAIN q, i = j + 1
          PROVE  SubSeq(p, 1, i) \in DOMAIN dir
      <4>1. SubSeq(p, 1, i) = Under(n, SubSeq(q, 1, j))
        BY <2>2, <3>2
      <4> QED BY <1>1, <1>1a, <1>1b, <2>1, <4>1
    <3>3. i = 1 \/ \E j \in DOMAIN q : i = j + 1
      <4>1. i = (i - 1) + 1
        BY <2>2
      <4> QED BY <2>2b, <4>1
    <3> QED BY <3>1, <3>2, <3>3
  <2> QED BY <2>2, <2>3, <2>4 DEF p
<1>3. \A i \in DOMAIN <<>> : FALSE
  OBVIOUS
<1>4. <<>> \in Seq(S)
  OBVIOUS
<1>5. Rooted(S, dir)
  <2> SUFFICES ASSUME NEW p \in DOMAIN dir
               PROVE  /\ p \in Seq(S)
                      /\ p # <<>> => Front(p) \in DOMAIN dir
                      /\ \A i \in DOMAIN p : SubSeq(p, 1, i) \in DOMAIN dir
    BY <1>1 DEF Rooted
  <2>1. CASE p = <<>>
    BY <1>3, <1>4, <2>1
  <2>2. CASE p # <<>>
    BY <1>1, <1>1a, <1>1b, <1>2, <2>2
  <2> QED BY <2>1, <2>2
<1> QED BY <1>5 DEF dir

\* A directory is closed if the fields that can be written are, and those that are
\* files are in a map.
LEMMA DirIsClosed ==
  ASSUME NEW S, NEW kids, AllRooted(S, kids), NEW type \in Directories,
         \A n \in DOMAIN kids : "write" \in kids[n][<<>>].rights =>
           \/ IsClosed(kids[n])
           \/ type \in {"keywords", "numeric"} /\ DOMAIN kids[n] = {<<>>}
  PROVE  IsClosed(Dir(type, kids))
<1> DEFINE dir == Dir(type, kids)
<1>1. <<>> \in DOMAIN dir /\ dir[<<>>].type = type
  BY DirRoot
<1>1b. ASSUME NEW p \in DOMAIN dir, p # <<>>
       PROVE  \E n \in DOMAIN kids : \E q \in DOMAIN kids[n] : p = Under(n, q)
  BY <1>1b, DirEntry
<1>1a. \A n \in DOMAIN kids : \A q \in DOMAIN kids[n] :
         Under(n, q) \in DOMAIN dir /\ dir[Under(n, q)] = kids[n][q]
  BY DirField
<1> HIDE DEF dir
<1>2. dir[<<>>].type = type
  BY <1>1
<1>3. ASSUME NEW n \in DOMAIN kids, NEW q \in DOMAIN kids[n],
             dir[Under(n, q)].type \in {"string", "scalar"},
             \A i \in DOMAIN Under(n, q) : "write" \in dir[SubSeq(Under(n, q), 1, i)].rights
      PROVE  dir[Front(Under(n, q))].type \in {"keywords", "numeric"}
  <2>1. /\ n \in S /\ q \in Seq(S) /\ <<>> \in DOMAIN kids[n]
        /\ q # <<>> => Front(q) \in DOMAIN kids[n]
        /\ \A i \in DOMAIN q : SubSeq(q, 1, i) \in DOMAIN kids[n]
    BY DEF Rooted, AllRooted
  <2> DEFINE p == Under(n, q)
  <2>2. /\ p \in Seq(S) /\ p # <<>>
        /\ SubSeq(p, 1, 1) = Under(n, <<>>)
        /\ \A i \in DOMAIN q : i + 1 \in DOMAIN p /\ SubSeq(p, 1, i + 1) = Under(n, SubSeq(q, 1, i))
    BY <2>1, NamePath
  <2>3. Front(p) = IF q = <<>> THEN <<>> ELSE Under(n, Front(q))
    BY <2>1, NamePath
  <2>4. dir[p].type \in {"string", "scalar"} /\ \A i \in DOMAIN p : "write" \in dir[SubSeq(p, 1, i)].rights
    BY <1>3
  <2>5. dir[p] = kids[n][q]
    BY <1>1a
  <2> HIDE DEF p
  <2>6. "write" \in kids[n][<<>>].rights
    <3>1. 1 \in DOMAIN p
      BY <2>2
    <3> QED BY <1>1a, <2>1, <2>2, <2>4, <3>1
  <2>7. \A i \in DOMAIN q : "write" \in kids[n][SubSeq(q, 1, i)].rights
    <3> TAKE i \in DOMAIN q
    <3>1. "write" \in dir[Under(n, SubSeq(q, 1, i))].rights
      BY <2>2, <2>4
    <3> QED BY <1>1a, <2>1, <3>1
  <2>8. CASE IsClosed(kids[n])
    <3>1. kids[n][Front(q)].type \in {"keywords", "numeric"}
      BY <2>4, <2>5, <2>7, <2>8 DEF IsClosed
    <3>2. q # <<>>
      <4> SUFFICES ASSUME q = <<>> PROVE FALSE
        OBVIOUS
      <4>1. Front(q) = q
        BY DEF Front
      <4> QED BY <2>4, <2>5, <3>1, <4>1
    <3>3. dir[Front(p)] = kids[n][Front(q)]
      BY <1>1a, <2>1, <2>3, <3>2
    <3> QED BY <3>1, <3>3 DEF p
  <2>9. CASE type \in {"keywords", "numeric"} /\ DOMAIN kids[n] = {<<>>}
    <3>1. Front(p) = <<>>
      BY <2>3, <2>9
    <3> QED BY <1>2, <2>9, <3>1 DEF p
  <2> QED BY <2>6, <2>8, <2>9
<1>4. ASSUME NEW p \in DOMAIN dir, dir[p].type \in {"string", "scalar"},
             \A i \in DOMAIN p : "write" \in dir[SubSeq(p, 1, i)].rights
      PROVE  dir[Front(p)].type \in {"keywords", "numeric"}
  <2>1. p # <<>>
    BY <1>2, <1>4 DEF Directories
  <2> QED BY <1>1b, <1>3, <1>4, <2>1
<1> QED BY <1>4 DEF IsClosed, dir

\* A field that is closed if it can be written.
Guarded(S, tree) == Rooted(S, tree) /\ ("write" \in tree[<<>>].rights => IsClosed(tree))

\* Such fields.
AllGuarded(S, kids) == \A n \in DOMAIN kids : n \in S /\ Guarded(S, kids[n])

\* A tree whose files are guarded by the fields on the way to them.
Sound(S, tree) == Rooted(S, tree) /\ IsClosed(tree)

\* A struct of such fields is closed.
LEMMA StructIsSound ==
  ASSUME NEW S, NEW kids, AllGuarded(S, kids)
  PROVE  Sound(S, Struct(kids)) /\ Guarded(S, Struct(kids))
<1>1. AllRooted(S, kids)
  BY DEF AllGuarded, Guarded, AllRooted
<1>2. \A n \in DOMAIN kids : "write" \in kids[n][<<>>].rights => IsClosed(kids[n])
  BY DEF AllGuarded, Guarded
<1>3. "struct" \in Directories
  BY DEF Directories
<1>4. Rooted(S, Dir("struct", kids))
  BY <1>1, DirIsRooted
<1>5. IsClosed(Dir("struct", kids))
  BY <1>1, <1>2, <1>3, DirIsClosed
<1> QED BY <1>4, <1>5 DEF Struct, Guarded, Sound

\* What cannot be written is guarded.
LEMMA RoIsGuarded ==
  ASSUME NEW S, NEW tree, Rooted(S, tree)
  PROVE  Guarded(S, Ro(tree))
<1> DEFINE rights == FieldRights(<<"ro">>)
           new == [tree EXCEPT ![<<>>].rights = rights]
<1>1. "write" \notin rights
  <2>1. \A j \in DOMAIN <<"ro">> : j = 1
    OBVIOUS
  <2>2. 1 \in DOMAIN <<"ro">> /\ <<"ro">>[1] = "ro"
    OBVIOUS
  <2>3. "write" \in rights =>
          \A i \in DOMAIN <<"ro">> : <<"ro">>[i] = Takes("write") =>
            \E j \in DOMAIN <<"ro">> : j > i /\ <<"ro">>[j] = "rw"
    BY DEF FieldRights
  <2> QED BY <2>1, <2>2, <2>3 DEF Takes
<1> HIDE DEF rights
<1>2. DOMAIN new = DOMAIN tree /\ <<>> \in DOMAIN tree /\ "rights" \in DOMAIN tree[<<>>]
  BY DEF Rooted
<1>3. new[<<>>] = [tree[<<>>] EXCEPT !.rights = rights]
  BY <1>2
<1>4. new[<<>>].rights = rights /\ "rights" \in DOMAIN new[<<>>]
  BY <1>2, <1>3
<1> HIDE DEF new
<1>5. Rooted(S, new)
  BY <1>2, <1>4 DEF Rooted
<1>6. Guarded(S, new)
  BY <1>1, <1>4, <1>5 DEF Guarded
<1> QED BY <1>6 DEF new, Ro, Field, rights

\* A tree of one node, which is closed if that is no file.
LEMMA NodeIsRooted ==
  ASSUME NEW S, NEW type, NEW text
  PROVE  /\ Rooted(S, Node(type, text)) /\ DOMAIN Node(type, text) = {<<>>}
         /\ type \notin {"string", "scalar"} => Sound(S, Node(type, text))
<1> DEFINE node == Node(type, text)
<1>1. DOMAIN node = {<<>>} /\ node[<<>>] = NodeOf(type, text)
  BY DEF Node
<1>2. NodeOf(type, text).type = type /\ "rights" \in DOMAIN NodeOf(type, text)
  BY DEF NodeOf
<1> HIDE DEF node
<1>3. <<>> \in Seq(S) /\ DOMAIN <<>> = {}
  OBVIOUS
<1>4. Rooted(S, node)
  BY <1>1, <1>2, <1>3 DEF Rooted
<1>5. type \notin {"string", "scalar"} => IsClosed(node)
  BY <1>1, <1>2 DEF IsClosed
<1> QED BY <1>1, <1>4, <1>5 DEF node, Sound

\* The file value makes no difference, as it holds no text.
LEMMA ValueIsSound ==
  ASSUME NEW S, "value" \in S, NEW tree, Sound(S, tree), NEW type, type \notin {"string", "scalar"}
  PROVE  Sound(S, Value(type, tree))
<1> DEFINE new == Value(type, tree)
           file == <<"value">>
<1>1. /\ DOMAIN new = DOMAIN tree \cup {file}
      /\ \A p \in DOMAIN tree : new[p] = tree[p]
      /\ new[file].type = type \/ file \in DOMAIN tree
  BY DEF Value, NodeOf
<1>2. /\ file \in Seq(S) /\ file # <<>> /\ Front(file) = <<>> /\ \A i \in DOMAIN file : i = 1
      /\ SubSeq(file, 1, 1) = file
  <2>1. file \in Seq(S) /\ Len(file) = 1
    OBVIOUS
  <2> HIDE DEF file
  <2>2. file # <<>> /\ \A i \in DOMAIN file : i = 1
    BY <2>1
  <2>3. SubSeq(file, 1, 0) = <<>>
    BY <2>1
  <2>4. SubSeq(file, 1, 1) = file
    <3>1. 1 \in 0 .. Len(file)
      BY <2>1
    <3> QED BY <2>1, <3>1, Prefix
  <2> QED BY <2>1, <2>2, <2>3, <2>4 DEF Front
<1> HIDE DEF new, file
<1>3. /\ <<>> \in DOMAIN tree /\ "rights" \in DOMAIN tree[<<>>]
      /\ \A p \in DOMAIN tree :
           /\ p \in Seq(S)
           /\ p # <<>> => Front(p) \in DOMAIN tree
           /\ \A i \in DOMAIN p : SubSeq(p, 1, i) \in DOMAIN tree
  BY DEF Sound, Rooted
<1>4. Rooted(S, new)
  BY <1>1, <1>2, <1>3 DEF Rooted
<1>5. IsClosed(new)
  <2> SUFFICES ASSUME NEW p \in DOMAIN new, new[p].type \in {"string", "scalar"},
                      \A i \in DOMAIN p : "write" \in new[SubSeq(p, 1, i)].rights
               PROVE  new[Front(p)].type \in {"keywords", "numeric"}
    BY DEF IsClosed
  <2>1. p \in DOMAIN tree
    BY <1>1
  <2>2. \A i \in DOMAIN p : "write" \in tree[SubSeq(p, 1, i)].rights
    BY <1>1, <1>3, <2>1
  <2>3. tree[Front(p)].type \in {"keywords", "numeric"}
    BY <1>1, <2>1, <2>2 DEF Sound, IsClosed
  <2>4. CASE p = <<>>
    <3>1. Front(p) = p
      BY <2>4 DEF Front
    <3> QED BY <1>1, <2>1, <2>3, <3>1
  <2>5. CASE p # <<>>
    BY <1>1, <1>3, <2>1, <2>3, <2>5
  <2> QED BY <2>4, <2>5
<1> QED BY <1>4, <1>5 DEF new, Sound

\* A map of values is closed, and so is one with a single entry.
LEMMA MapIsSound ==
  ASSUME NEW S, "value_" \in S, NEW type \in {"keywords", "numeric"}, NEW kids,
         \A n \in DOMAIN kids : n \in S /\ \E of, text : kids[n] = Node(of, text)
  PROVE  Sound(S, Dir(type, kids))
<1>1. \A n \in DOMAIN kids : n \in S /\ Rooted(S, kids[n]) /\ DOMAIN kids[n] = {<<>>}
  BY NodeIsRooted
<1>2. AllRooted(S, kids)
  BY <1>1 DEF AllRooted
<1>3. type \in Directories
  BY DEF Directories
<1>4. Rooted(S, Dir(type, kids))
  BY <1>2, DirIsRooted
<1>5. IsClosed(Dir(type, kids))
  BY <1>1, <1>2, <1>3, DirIsClosed
<1> QED BY <1>4, <1>5 DEF Sound

\* A variant with one field is that field.
LEMMA OneField ==
  ASSUME NEW tree
  PROVE  Variant([value_ |-> tree]) = tree
<1> DEFINE kids == [value_ |-> tree]
           n    == CHOOSE n \in DOMAIN kids : TRUE
<1>1. DOMAIN kids = {"value_"} /\ kids["value_"] = tree
  OBVIOUS
<1> HIDE DEF kids
<1>2. n \in DOMAIN kids
  BY <1>1
<1>3. n = "value_"
  BY <1>1, <1>2
<1> HIDE DEF n
<1>4. (IF DOMAIN kids = {n} THEN kids[n] ELSE Struct(kids)) = tree
  BY <1>1, <1>3
<1> QED BY <1>4 DEF Variant, kids, n

\* A function has no map, or one of these.
IsMap(S, tree) ==
  \/ tree = None
  \/ \E m : DOMAIN m \subseteq S /\ (tree = Keywords(m) \/ tree = Numeric(m))

\* They are closed.
LEMMA MapsAreSound ==
  ASSUME NEW S, "value_" \in S, NEW tree, IsMap(S, tree)
  PROVE  Guarded(S, tree)
<1>1. CASE tree = None
  BY <1>1, NodeIsRooted DEF None, Guarded, Sound
<1>2. ASSUME NEW m, DOMAIN m \subseteq S, tree = Keywords(m)
      PROVE  Guarded(S, tree)
  <2> DEFINE kids == [k \in DOMAIN m |-> String(m[k])]
  <2>1. tree = Dir("keywords", kids)
    BY <1>2, OneField DEF Keywords
  <2>2. \A n \in DOMAIN kids : n \in S /\ \E of, text : kids[n] = Node(of, text)
    BY <1>2 DEF String
  <2> HIDE DEF kids
  <2>3. Sound(S, Dir("keywords", kids))
    BY <2>2, MapIsSound
  <2> QED BY <2>1, <2>3 DEF Sound, Guarded
<1>3. ASSUME NEW m, DOMAIN m \subseteq S, tree = Numeric(m)
      PROVE  Guarded(S, tree)
  <2> DEFINE kids == [k \in DOMAIN m |-> Scalar(m[k])]
  <2>1. tree = Dir("numeric", kids)
    BY <1>3, OneField DEF Numeric
  <2>2. \A n \in DOMAIN kids : n \in S /\ \E of, text : kids[n] = Node(of, text)
    BY <1>3 DEF Scalar
  <2> HIDE DEF kids
  <2>3. Sound(S, Dir("numeric", kids))
    BY <2>2, MapIsSound
  <2> QED BY <2>1, <2>3 DEF Sound, Guarded
<1> QED BY <1>1, <1>2, <1>3 DEF IsMap

\* The names of fields in the types of a camera.
FieldNames ==
  {"address", "width", "mask", "range", "default", "description", "value", "value_", "addr",
   "desc", "map", "writable", "channel", "functions", "model", "registers", "scripts", "reset"}

\* The registers, functions and register sets of a configuration.
IsRegister(S, tree) ==
  \E address, some :
    /\ Rooted(S, address)
    /\ \A n \in DOMAIN some : Rooted(S, some[n])
    /\ tree = Register(address, some)

IsFunction(S, tree) ==
  \E addr, desc, map, default :
    /\ Rooted(S, addr) /\ Rooted(S, desc) /\ Rooted(S, default)
    /\ IsMap(S, map)
    /\ tree = Function(addr, desc, map, default)

IsRegisterSet(S, tree) ==
  \E channel, map, functions :
    /\ Rooted(S, channel)
    /\ \A n \in DOMAIN map : n \in S /\ IsRegister(S, map[n])
    /\ \A n \in DOMAIN functions : n \in S /\ IsFunction(S, functions[n])
    /\ tree = RegisterSetting(channel, map, functions)

\* Their fields are read-only, directories, or maps.
LEMMA RegisterIsGuarded ==
  ASSUME NEW S, FieldNames \subseteq S, NEW tree, IsRegister(S, tree)
  PROVE  Guarded(S, tree)
<1>1. PICK address, some :
        /\ Rooted(S, address)
        /\ \A n \in DOMAIN some : Rooted(S, some[n])
        /\ tree = Register(address, some)
  BY DEF IsRegister
<1> DEFINE names   == {"address", "width", "mask", "range", "default", "description"}
           field(n) == CASE n = "address" -> address
                         [] n # "address" /\ n \in DOMAIN some -> some[n]
                         [] OTHER -> None
           kids    == [n \in names |-> Ro(field(n))]
<1>2. \A n \in names : Rooted(S, field(n))
  <2>1. Rooted(S, None)
    BY NodeIsRooted DEF None
  <2> QED BY <1>1, <2>1
<1>3. tree = Value("value", Struct(kids))
  BY <1>1 DEF Register
<1> HIDE DEF field
<1>4. \A n \in names : Guarded(S, Ro(field(n)))
  BY <1>2, RoIsGuarded
<1>5. names \subseteq S /\ "value" \in S
  BY DEF FieldNames
<1> HIDE DEF names
<1>6. AllGuarded(S, kids)
  BY <1>4, <1>5 DEF AllGuarded
<1> HIDE DEF kids
<1>7. Sound(S, Struct(kids))
  BY <1>6, StructIsSound
<1>8. Sound(S, tree)
  BY <1>3, <1>5, <1>7, ValueIsSound
<1> QED BY <1>8 DEF Sound, Guarded

LEMMA FunctionIsGuarded ==
  ASSUME NEW S, FieldNames \subseteq S, NEW tree, IsFunction(S, tree)
  PROVE  Guarded(S, tree)
<1>1. PICK addr, desc, map, default :
        /\ Rooted(S, addr) /\ Rooted(S, desc) /\ Rooted(S, default)
        /\ IsMap(S, map)
        /\ tree = Function(addr, desc, map, default)
  BY DEF IsFunction
<1> DEFINE flag == Ro(Scalar("false"))
           usual == Ro(default)
           left == Ro(addr)
           text == Ro(desc)
           kids == [addr |-> left, desc |-> text, map |-> map, writable |-> flag, default |-> usual]
<1>2. Guarded(S, left) /\ Guarded(S, text)
  BY <1>1, RoIsGuarded
<1>3. Guarded(S, flag) /\ Guarded(S, usual)
  <2>1. Rooted(S, Scalar("false"))
    BY NodeIsRooted DEF Scalar
  <2> QED BY <1>1, <2>1, RoIsGuarded
<1>4. Guarded(S, map)
  <2>1. "value_" \in S
    BY DEF FieldNames
  <2> QED BY <1>1, <2>1, MapsAreSound
<1>5. tree = Value("value", Struct(kids))
  BY <1>1 DEF Function
<1> HIDE DEF flag, usual, left, text
<1>6. DOMAIN kids = {"addr", "desc", "map", "writable", "default"}
  OBVIOUS
<1>7. /\ kids["addr"] = left /\ kids["desc"] = text /\ kids["map"] = map
      /\ kids["writable"] = flag /\ kids["default"] = usual
  OBVIOUS
<1> HIDE DEF kids
<1>8. AllGuarded(S, kids)
  <2>1. ASSUME NEW n \in DOMAIN kids PROVE n \in S
    BY <1>6 DEF FieldNames
  <2>2. ASSUME NEW n \in DOMAIN kids PROVE Guarded(S, kids[n])
    BY <1>2, <1>3, <1>4, <1>6, <1>7
  <2> QED BY <2>1, <2>2 DEF AllGuarded
<1>9. Sound(S, Struct(kids))
  BY <1>8, StructIsSound
<1>10. Sound(S, tree)
  <2>1. "value" \in S
    BY DEF FieldNames
  <2> QED BY <1>5, <1>9, <2>1, ValueIsSound
<1> QED BY <1>10 DEF Sound, Guarded

LEMMA RegisterSetIsGuarded ==
  ASSUME NEW S, FieldNames \subseteq S, NEW tree, IsRegisterSet(S, tree)
  PROVE  Guarded(S, tree)
<1>1. PICK channel, map, functions :
        /\ Rooted(S, channel)
        /\ \A n \in DOMAIN map : n \in S /\ IsRegister(S, map[n])
        /\ \A n \in DOMAIN functions : n \in S /\ IsFunction(S, functions[n])
        /\ tree = RegisterSetting(channel, map, functions)
  BY DEF IsRegisterSet
<1> DEFINE first  == Ro(channel)
           second == Struct(map)
           third  == Struct(functions)
           kids == [channel |-> first, map |-> second, functions |-> third]
<1>2. Guarded(S, first)
  BY <1>1, RoIsGuarded
<1>3. Guarded(S, second)
  <2>1. AllGuarded(S, map)
    BY <1>1, RegisterIsGuarded DEF AllGuarded
  <2> QED BY <2>1, StructIsSound
<1>4. Guarded(S, third)
  <2>1. AllGuarded(S, functions)
    BY <1>1, FunctionIsGuarded DEF AllGuarded
  <2> QED BY <2>1, StructIsSound
<1>5. tree = Struct(kids)
  BY <1>1 DEF RegisterSetting
<1> HIDE DEF first, second, third
<1>6. DOMAIN kids = {"channel", "map", "functions"}
  OBVIOUS
<1>7. kids["channel"] = first /\ kids["map"] = second /\ kids["functions"] = third
  OBVIOUS
<1> HIDE DEF kids
<1>8. AllGuarded(S, kids)
  <2>1. ASSUME NEW n \in DOMAIN kids PROVE n \in S
    BY <1>6 DEF FieldNames
  <2>2. ASSUME NEW n \in DOMAIN kids PROVE Guarded(S, kids[n])
    BY <1>2, <1>3, <1>4, <1>6, <1>7
  <2> QED BY <2>1, <2>2 DEF AllGuarded
<1> QED BY <1>5, <1>8, StructIsSound

-----------------------------------------------------------------------------
(* The theorems.                                                           *)

\* The camera stays a tree of files, whatever is edited, refused, or panics, and
\* the mutexes that a panic loses are those of its register sets.
THEOREM TypeCorrect == Spec => []TypeOK
<1>1. Init => TypeOK
  <2> SUFFICES ASSUME Init PROVE TypeOK
    OBVIOUS
  <2>1. IsCamera(camera)
    BY CamerasAssumption DEF Init
  <2>2. last.path = <<>>
    BY DEF Init
  <2> QED BY <2>1, <2>2 DEF TypeOK
<1>2. TypeOK /\ [Next]_vars => TypeOK'
  <2> SUFFICES ASSUME TypeOK, [Next]_vars PROVE TypeOK'
    OBVIOUS
  <2>1. ASSUME NEW path \in Paths, ReadFile(path)
        PROVE  TypeOK'
    <3>1. PICK result \in Read(camera, path) : camera' = result.state
      BY <2>1 DEF ReadFile
    <3>2. IsCamera(result.state)
      BY CamerasAssumption, ReadKeeps DEF TypeOK
    <3> QED BY <2>1, <3>1, <3>2 DEF ReadFile, TypeOK
  <2>2. ASSUME NEW path \in Paths, NEW word \in Words, WriteFile(path, word)
        PROVE  TypeOK'
    <3>1. PICK result \in Write(camera, path, word) :
            /\ camera' = result.state
            /\ last' = IF result.answer = Err THEN last
                       ELSE [path |-> path, word |-> word, answer |-> result.answer]
      BY <2>2 DEF WriteFile
    <3>2. IsCamera(result.state)
      BY CamerasAssumption, WriteKeeps DEF TypeOK
    <3>3. last'.path \in Paths \cup {<<>>}
      BY <3>1 DEF TypeOK
    <3> QED BY <3>1, <3>2, <3>3 DEF TypeOK
  <2>3. CASE UNCHANGED vars
    BY <2>3 DEF vars, TypeOK
  <2> QED BY <2>1, <2>2, <2>3 DEF Next
<1> QED BY <1>1, <1>2, PTL DEF Spec

\* What is_dir says of a path is what read finds there: the arms of read that
\* expect something else are dead code.
THEOREM Agreement == Spec => []KindsAgree
<1>1. TypeOK => KindsAgree
  BY KindsAgreeOnPath DEF TypeOK, KindsAgree
<1> QED BY <1>1, TypeCorrect, PTL

\* Every entry that a directory lists can be looked up.
THEOREM ListingsAreTrue == Spec => []ListedIsFound
<1>1. TypeOK => ListedIsFound
  BY ListedOnPath DEF TypeOK, ListedIsFound
<1> QED BY <1>1, TypeCorrect, PTL

\* The last edit stays in its file.
THEOREM InvHolds == Spec => []IInv
<1>1. Init => EditIsHeld
  <2>1. Err # Done
    BY DEF Err, Done, Answer
  <2>2. Init => last.answer = Err
    <3>1. \A p, w, a : [path |-> p, word |-> w, answer |-> a].answer = a
      OBVIOUS
    <3>2. Init => last = [path |-> <<>>, word |-> "", answer |-> Err]
      BY DEF Init
    <3> QED BY <3>1, <3>2, Zenon
  <2> QED BY <2>1, <2>2 DEF EditIsHeld
<1>2. TypeOK /\ EditIsHeld /\ [Next]_vars => EditIsHeld'
  <2> SUFFICES ASSUME TypeOK, EditIsHeld, [Next]_vars PROVE EditIsHeld'
    OBVIOUS
  <2>1. CASE Next
    BY <2>1, EditStays DEF IInv
  <2>2. CASE UNCHANGED vars
    BY <2>2 DEF vars, EditIsHeld
  <2> QED BY <2>1, <2>2
<1> QED BY <1>1, <1>2, TypeCorrect, PTL DEF Spec, IInv

\* A word that was written to a file is read there, a number as it is printed,
\* under every spelling of the path.
THEOREM EditsAreReadBack == Spec => []EditIsReadBack
<1>1. IInv => EditIsReadBack
  <2> SUFFICES ASSUME IInv, last.answer = Done,
                      NEW p \in Found(camera.tree, "read", last.path), NEW path \in Paths,
                      camera.tree[p].type \in {"string", "scalar"},
                      p \in Found(camera.tree, "read", path),
                      NEW result \in Read(camera, path), result.answer # Panics
               PROVE  result.answer =
                        Answer("right", IF camera.tree[p].type = "string" THEN {last.word}
                                        ELSE {Numbers[w] : w \in {last.word} \cap DOMAIN Numbers})
    BY DEF EditIsReadBack
  <2>1. IsCamera(camera) /\ Holds(camera.tree[p], last.word)
    BY DEF IInv, TypeOK, EditIsHeld
  <2>2. SetsOf(camera, path) \cap camera.lost = {}
    <3> SUFFICES ASSUME SetsOf(camera, path) \cap camera.lost # {} PROVE FALSE
      OBVIOUS
    <3>1. result = Result(camera, Panics)
      BY DEF Read, Called
    <3> QED BY <3>1 DEF Result
  <2>3. result \in ReadAt(camera, path, p)
    BY <2>1, <2>2, AnswersOfNode
  <2>4. result = Result(camera, Answer("right", {camera.tree[p].text}))
    BY <2>3 DEF ReadAt, Directories
  <2>5. {camera.tree[p].text} = IF camera.tree[p].type = "string" THEN {last.word}
                                ELSE {Numbers[w] : w \in {last.word} \cap DOMAIN Numbers}
    BY <2>1 DEF Holds
  <2> QED BY <2>4, <2>5 DEF Result
<1> QED BY <1>1, InvHolds, PTL

\* A file never becomes a directory nor a directory a file, and no entry comes
\* into being: one vanishes only when its word is given to another entry of its
\* map, or a panic loses its register set for good.
THEOREM KindsStayStable == Spec => KindsAreStable
<1>1. TypeOK /\ TypeOK' /\ [Next]_vars
        => [camera' # camera => \A path \in Paths :
              \A before \in Kinds(path), after \in Kinds(path)' :
                after # before =>
                  \/ after = "panic"
                  \/ /\ before = "file" /\ after = "err"
                     /\ last'.answer = Done
                     /\ \A p \in Found(camera.tree, "read", path) :
                          last'.word = camera.tree[p].text]_vars
  BY KindsStep
<1> QED BY <1>1, TypeCorrect, PTL DEF Spec, KindsAreStable

\* The texts that clients edit are those of value maps, and no others: the
\* configuration of channels, addresses and registers stays as it was loaded.
THEOREM ConfigurationStays == Spec => OnlyMapsAreEdited
<1>1. Init => IsClosed(camera.tree)
  BY CamerasAssumption DEF Init
<1>2. TypeOK /\ IsClosed(camera.tree) /\ [Next]_vars => IsClosed(camera.tree)'
  <2>1. ASSUME UNCHANGED vars PROVE camera' = camera
    BY <2>1 DEF vars
  <2> QED BY <2>1, StepInMaps
<1>3. TypeOK /\ IsClosed(camera.tree) /\ [Next]_vars
        => [camera' # camera => \A p \in DOMAIN camera.tree :
              p \notin DOMAIN camera'.tree \/ camera'.tree[p] # camera.tree[p]
                => camera.tree[Front(p)].type \in {"keywords", "numeric"}]_vars
  BY StepInMaps
<1> QED BY <1>1, <1>2, <1>3, TypeCorrect, PTL DEF Spec, OnlyMapsAreEdited

\* In every camera, whatever its registers, functions and maps, the texts that a
\* client can reach through writable fields are those of value maps: the attributes
\* of the fields keep all others from being written.
THEOREM CamerasAreClosed ==
  ASSUME NEW S, FieldNames \subseteq S,
         NEW registers, \A n \in DOMAIN registers : n \in S /\ IsRegisterSet(S, registers[n])
  PROVE  IsClosed(Camera(registers).tree)
<1> DEFINE empty   == Dir("struct", <<>>)
           reset   == Value("script", empty)
           list    == [reset |-> reset]
           first   == Ro(String("model"))
           second  == Struct(registers)
           third   == Struct(list)
           kids    == [model |-> first, registers |-> second, scripts |-> third]
<1>1. Guarded(S, first)
  <2>1. Rooted(S, String("model"))
    BY NodeIsRooted DEF String
  <2> QED BY <2>1, RoIsGuarded
<1>2. Guarded(S, second)
  <2>1. AllGuarded(S, registers)
    BY RegisterSetIsGuarded DEF AllGuarded
  <2> QED BY <2>1, StructIsSound
<1>3. Guarded(S, third)
  <2>1. AllGuarded(S, <<>>)
    <3>1. DOMAIN <<>> = {}
      OBVIOUS
    <3> QED BY <3>1 DEF AllGuarded
  <2>2. Sound(S, empty)
    BY <2>1, StructIsSound DEF Struct
  <2> HIDE DEF empty
  <2>3. Sound(S, reset)
    <3>1. "value" \in S
      BY DEF FieldNames
    <3> QED BY <2>2, <3>1, ValueIsSound
  <2> HIDE DEF reset
  <2>4. DOMAIN list = {"reset"} /\ list["reset"] = reset
    OBVIOUS
  <2> HIDE DEF list
  <2>5. AllGuarded(S, list)
    <3>1. "reset" \in S
      BY DEF FieldNames
    <3> QED BY <2>3, <2>4, <3>1 DEF AllGuarded, Sound, Guarded
  <2> QED BY <2>5, StructIsSound
<1>4. Camera(registers).tree = Struct(kids)
  BY DEF Camera
<1> HIDE DEF first, second, third
<1>5. DOMAIN kids = {"model", "registers", "scripts"}
  OBVIOUS
<1>6. kids["model"] = first /\ kids["registers"] = second /\ kids["scripts"] = third
  OBVIOUS
<1> HIDE DEF kids
<1>7. AllGuarded(S, kids)
  <2>1. ASSUME NEW n \in DOMAIN kids PROVE n \in S
    BY <1>5 DEF FieldNames
  <2>2. ASSUME NEW n \in DOMAIN kids PROVE Guarded(S, kids[n])
    BY <1>1, <1>2, <1>3, <1>5, <1>6
  <2> QED BY <2>1, <2>2 DEF AllGuarded
<1>8. Sound(S, Struct(kids))
  BY <1>7, StructIsSound
<1> QED BY <1>4, <1>8 DEF Sound

-----------------------------------------------------------------------------
(* The camera is a Fuseable as the wrapper and the caches take it to be.   *)

\* What answers are made of: strings, which the provers do not know the text of a
\* device to be one of.
Strings == STRING \cup {"of the device"}

\* The camera as a Fuseable.
Trait == INSTANCE FuseableTrait
  WITH FuseableIsDir <- IsDir, FuseableRead <- Read, FuseableWrite <- Write, Names <- Strings

\* What read answers at a node.
AnswersAt(tree, p) ==
  CASE tree[p].type \in Directories -> {Answer("left", Listing(tree, p))}
    [] tree[p].type = "script" -> {Err}
    [] tree[p].type = "value" -> {Answer("right", {"of the device"}), Err, Panics}
    [] OTHER -> {Answer("right", {tree[p].text})}

\* The register set of the path is lost.
IsLost(c, path) == SetsOf(c, path) \cap c.lost # {}

\* The results that a call has at a node are its results.
LEMMA CalledAt ==
  ASSUME NEW c, IsCamera(c), NEW path \in Seq(STRING), NEW results,
         ~IsLost(c, path), NEW p \in Found(c.tree, "read", path)
  PROVE  Called(c, "read", path, results) = results[p]
<1>1. Found(c.tree, "read", path) = {p}
  <2>1. \A q \in Found(c.tree, "read", path) : q = p
    BY OneNode DEF IsCamera
  <2> QED BY <2>1
<1>2. UNION {results[q] : q \in {p}} = results[p]
  OBVIOUS
<1> QED BY <1>1, <1>2 DEF Called, IsLost

\* What is_dir says: one answer, and the camera stays as it is.
LEMMA IsDirIs ==
  ASSUME NEW c, IsCamera(c), NEW path \in Seq(STRING)
  PROVE  /\ IsLost(c, path) => IsDir(c, path) = {Result(c, Panics)}
         /\ ~IsLost(c, path) /\ Found(c.tree, "read", path) = {} => IsDir(c, path) = {Result(c, Err)}
         /\ ~IsLost(c, path) => \A p \in Found(c.tree, "read", path) :
              IsDir(c, path) = {Result(c, Answer(KindAt(c, p), {}))}
<1>1. ASSUME ~IsLost(c, path), NEW p \in Found(c.tree, "read", path)
      PROVE  IsDir(c, path) = {Result(c, Answer(KindAt(c, p), {}))}
  <2> DEFINE results == [q \in DOMAIN c.tree |-> {Result(c, Answer(KindAt(c, q), {}))}]
  <2>1. p \in DOMAIN c.tree
    BY DEF Found
  <2>2. results[p] = {Result(c, Answer(KindAt(c, p), {}))}
    BY <2>1
  <2>3. IsDir(c, path) = Called(c, "read", path, results)
    BY DEF IsDir
  <2> HIDE DEF results
  <2> QED BY <1>1, <2>2, <2>3, CalledAt
<1>2. IsLost(c, path) => IsDir(c, path) = {Result(c, Panics)}
  BY DEF IsDir, Called, IsLost
<1>3. ~IsLost(c, path) /\ Found(c.tree, "read", path) = {} => IsDir(c, path) = {Result(c, Err)}
  BY DEF IsDir, Called, IsLost
<1> QED BY <1>1, <1>2, <1>3

\* The same of read.
LEMMA ReadIs ==
  ASSUME NEW c, IsCamera(c), NEW path \in Seq(STRING)
  PROVE  /\ IsLost(c, path) => Read(c, path) = {Result(c, Panics)}
         /\ ~IsLost(c, path) /\ Found(c.tree, "read", path) = {} => Read(c, path) = {Result(c, Err)}
         /\ ~IsLost(c, path) => \A p \in Found(c.tree, "read", path) :
              p \in DOMAIN c.tree /\ Read(c, path) = ReadAt(c, path, p)
<1>1. ASSUME ~IsLost(c, path), NEW p \in Found(c.tree, "read", path)
      PROVE  p \in DOMAIN c.tree /\ Read(c, path) = ReadAt(c, path, p)
  <2> DEFINE results == [q \in DOMAIN c.tree |-> ReadAt(c, path, q)]
  <2>1. p \in DOMAIN c.tree
    BY DEF Found
  <2>2. results[p] = ReadAt(c, path, p)
    BY <2>1
  <2>3. Read(c, path) = Called(c, "read", path, results)
    BY DEF Read
  <2> HIDE DEF results
  <2> QED BY <1>1, <2>1, <2>2, <2>3, CalledAt
<1>2. IsLost(c, path) => Read(c, path) = {Result(c, Panics)}
  BY DEF Read, Called, IsLost
<1>3. ~IsLost(c, path) /\ Found(c.tree, "read", path) = {} => Read(c, path) = {Result(c, Err)}
  BY DEF Read, Called, IsLost
<1> QED BY <1>1, <1>2, <1>3

\* A result has its answer and its camera.
LEMMA ResultIs ==
  ASSUME NEW c, NEW a
  PROVE  Result(c, a).answer = a /\ Result(c, a).state = c
BY DEF Result

\* The answers of a set of one result.
LEMMA OneAnswer ==
  ASSUME NEW c, NEW a
  PROVE  {r.answer : r \in {Result(c, a)}} = {a}
BY ResultIs

\* The answers and cameras of read at a node.
LEMMA ReadAtIs ==
  ASSUME NEW c, IsCamera(c), NEW path, NEW p \in DOMAIN c.tree
  PROVE  /\ {r.answer : r \in ReadAt(c, path, p)} = AnswersAt(c.tree, p)
         /\ \A r \in ReadAt(c, path, p) : r.answer # Panics => r.state = c
<1> DEFINE type == c.tree[p].type
<1>1. CASE type \in Directories
  <2>1. ReadAt(c, path, p) = {Result(c, Answer("left", Listing(c.tree, p)))}
    BY <1>1 DEF ReadAt, Directories
  <2>2. AnswersAt(c.tree, p) = {Answer("left", Listing(c.tree, p))}
    BY <1>1 DEF AnswersAt, Directories
  <2> QED BY <2>1, <2>2, ResultIs, OneAnswer
<1>2. CASE type = "script"
  <2>1. ReadAt(c, path, p) = {Result(c, Err)}
    BY <1>2 DEF ReadAt, Directories
  <2>2. AnswersAt(c.tree, p) = {Err}
    BY <1>2 DEF AnswersAt, Directories
  <2> QED BY <2>1, <2>2, ResultIs, OneAnswer
<1>3. CASE type = "value"
  <2> DEFINE device == Answer("right", {"of the device"})
             ok   == Result(c, device)
             fail == Result(c, Err)
             lose == Losing(c, SetsOf(c, path))
  <2>1. ReadAt(c, path, p) = {ok, fail, lose}
    BY <1>3 DEF ReadAt, Directories, Accessed
  <2>2. ok.answer = device /\ fail.answer = Err /\ lose.answer = Panics
    BY DEF Result, Losing
  <2>3. ok.state = c /\ fail.state = c
    BY DEF Result
  <2>4. AnswersAt(c.tree, p) = {device, Err, Panics}
    BY <1>3 DEF AnswersAt, Directories
  <2> HIDE DEF device, ok, fail, lose
  <2> QED BY <2>1, <2>2, <2>3, <2>4
<1>4. CASE type \notin Directories \cup {"script", "value"}
  <2>1. ReadAt(c, path, p) = {Result(c, Answer("right", {c.tree[p].text}))}
    BY <1>4 DEF ReadAt
  <2>2. AnswersAt(c.tree, p) = {Answer("right", {c.tree[p].text})}
    BY <1>4 DEF AnswersAt
  <2> QED BY <2>1, <2>2, ResultIs, OneAnswer
<1> QED BY <1>1, <1>2, <1>3, <1>4

\* What is said of a path.
LEMMA SaidIs ==
  ASSUME NEW c, IsCamera(c), NEW path \in Seq(STRING)
  PROVE  /\ IsLost(c, path) => \A k \in Trait!Caches : Trait!Said(c, k, path) = {Panics}
         /\ ~IsLost(c, path) /\ Found(c.tree, "read", path) = {} =>
              \A k \in Trait!Caches : Trait!Said(c, k, path) = {Err}
         /\ ~IsLost(c, path) => \A p \in Found(c.tree, "read", path) :
              /\ Trait!Said(c, "kinds", path) = {Answer(KindAt(c, p), {})}
              /\ Trait!Said(c, "lists", path) = AnswersAt(c.tree, p)
<1>1. Trait!Said(c, "kinds", path) = {r.answer : r \in IsDir(c, path)}
  BY DEF Trait!Said
<1>2. Trait!Said(c, "lists", path) = {r.answer : r \in Read(c, path)}
  BY DEF Trait!Said
<1>3. Trait!Caches = {"kinds", "lists"}
  BY DEF Trait!Caches
<1>4. CASE IsLost(c, path)
  <2>1. IsDir(c, path) = {Result(c, Panics)} /\ Read(c, path) = {Result(c, Panics)}
    BY <1>4, IsDirIs, ReadIs
  <2> QED BY <1>1, <1>2, <1>3, <1>4, <2>1, OneAnswer
<1>5. CASE ~IsLost(c, path) /\ Found(c.tree, "read", path) = {}
  <2>1. IsDir(c, path) = {Result(c, Err)} /\ Read(c, path) = {Result(c, Err)}
    BY <1>5, IsDirIs, ReadIs
  <2> QED BY <1>1, <1>2, <1>3, <1>5, <2>1, OneAnswer
<1>6. ASSUME ~IsLost(c, path), NEW p \in Found(c.tree, "read", path)
      PROVE  /\ Trait!Said(c, "kinds", path) = {Answer(KindAt(c, p), {})}
             /\ Trait!Said(c, "lists", path) = AnswersAt(c.tree, p)
  <2>1. IsDir(c, path) = {Result(c, Answer(KindAt(c, p), {}))}
    BY <1>6, IsDirIs
  <2>2. p \in DOMAIN c.tree /\ Read(c, path) = ReadAt(c, path, p)
    BY <1>6, ReadIs
  <2>3. {r.answer : r \in ReadAt(c, path, p)} = AnswersAt(c.tree, p)
    BY <2>2, ReadAtIs
  <2> QED BY <1>1, <1>2, <2>1, <2>2, <2>3, OneAnswer
<1> QED BY <1>4, <1>5, <1>6

-----------------------------------------------------------------------------
\* What a camera d has kept of c after a call: the nodes with their types, but
\* for keywords, and all texts but those of files that are edited.
Follows(c, d) ==
  /\ IsCamera(d)
  /\ c.lost \subseteq d.lost
  /\ DOMAIN d.tree \subseteq DOMAIN c.tree
  /\ \A q \in DOMAIN c.tree \ DOMAIN d.tree :
       c.tree[q].type = "string" /\ (q # <<>> => c.tree[Front(q)].type = "keywords")
  /\ \A q \in DOMAIN d.tree :
       /\ d.tree[q].type = c.tree[q].type /\ d.tree[q].rights = c.tree[q].rights
       /\ d.tree[q].type \notin {"string", "scalar"} => d.tree[q].text = c.tree[q].text
  /\ \A path \in Seq(STRING) :
       /\ SetsOf(d, path) = SetsOf(c, path)
       /\ Found(d.tree, "read", path) = Found(c.tree, "read", path) \cap DOMAIN d.tree

\* Where the tree stays, it is kept.
LEMMA SameTreeFollows ==
  ASSUME NEW c, IsCamera(c), NEW d, IsCamera(d), d.tree = c.tree, c.lost \subseteq d.lost
  PROVE  Follows(c, d)
<1>1. \A path : SetsOf(d, path) = SetsOf(c, path)
  BY DEF SetsOf
<1>2. \A path : Found(d.tree, "read", path) = Found(c.tree, "read", path) \cap DOMAIN d.tree
  BY DEF Found
<1> QED BY <1>1, <1>2 DEF Follows

\* So it is when a file was edited.
LEMMA EditFollows ==
  ASSUME NEW c, IsCamera(c), NEW d, IsCamera(d), d.lost = c.lost,
         NEW w \in DOMAIN c.tree, c.tree[w].type \in {"string", "scalar"}, NEW text \in STRING,
         d.tree = Edited(c.tree, w, text)
  PROVE  Follows(c, d)
<1> DEFINE new == Edited(c.tree, w, text)
<1>1. IsTree(c.tree)
  BY DEF IsCamera
<1>2. /\ DOMAIN new \subseteq DOMAIN c.tree
      /\ \A q \in DOMAIN c.tree \ DOMAIN new : c.tree[Front(q)].type = "keywords"
      /\ \A q \in DOMAIN c.tree \ DOMAIN new : c.tree[q].type = "string"
      /\ \A q \in DOMAIN new : new[q].type = c.tree[q].type
  BY <1>1, EditedNodes
<1>3. \A q \in DOMAIN new : new[q].rights = c.tree[q].rights
  BY <1>1, EditedRights
<1>4. \A q \in DOMAIN new : q # w => new[q] = c.tree[q]
  BY DEF Edited
<1>5. \A path \in Seq(STRING) : SetsOf(d, path) = SetsOf(c, path)
  BY EditedSets
<1>6. \A path \in Seq(STRING) :
        Found(new, "read", path) = Found(c.tree, "read", path) \cap DOMAIN new
  BY <1>1, EditedFound
<1>7. d.tree = new
  OBVIOUS
<1> HIDE DEF new
<1>8. \A q \in DOMAIN new : new[q].type \notin {"string", "scalar"} => new[q].text = c.tree[q].text
  BY <1>2, <1>4
<1> QED BY <1>2, <1>3, <1>5, <1>6, <1>7, <1>8 DEF Follows

\* Reading and writing files keeps all this.
LEMMA AfterFollows ==
  ASSUME NEW c, IsCamera(c), NEW d \in Trait!After(c)
  PROVE  Follows(c, d)
<1>1. Paths \subseteq Seq(STRING)
  BY CamerasAssumption
<1>2. ASSUME NEW path \in Paths, NEW result \in Read(c, path)
      PROVE  Follows(c, result.state)
  <2>1. IsCamera(result.state)
    BY <1>1, ReadKeeps
  <2>2. result.state.tree = c.tree /\ c.lost \subseteq result.state.lost
    BY ReadLeaves
  <2> QED BY <2>1, <2>2, SameTreeFollows
<1>3. ASSUME NEW path \in Paths, NEW word \in Words, NEW result \in Write(c, path, word)
      PROVE  Follows(c, result.state)
  <2>1. IsCamera(result.state)
    BY <1>1, WriteKeeps
  <2>2. CASE result.state.tree = c.tree /\ c.lost \subseteq result.state.lost
    BY <2>1, <2>2, SameTreeFollows
  <2>3. CASE \E p \in Found(c.tree, "write", path) : \E text \in Parsed(c.tree[p], word) :
               /\ c.tree[p].type \in {"string", "scalar"}
               /\ result.state = [c EXCEPT !.tree = Edited(@, p, text)]
    <3>1. PICK p \in Found(c.tree, "write", path) : \E text \in Parsed(c.tree[p], word) :
            /\ c.tree[p].type \in {"string", "scalar"}
            /\ result.state = [c EXCEPT !.tree = Edited(@, p, text)]
      BY <2>3
    <3>2. PICK text \in Parsed(c.tree[p], word) :
            /\ c.tree[p].type \in {"string", "scalar"}
            /\ result.state = [c EXCEPT !.tree = Edited(@, p, text)]
      BY <3>1
    <3>3. p \in DOMAIN c.tree /\ text \in STRING
      BY TreeAssumption DEF Found, Parsed
    <3>4. result.state.tree = Edited(c.tree, p, text) /\ result.state.lost = c.lost
      BY <3>2 DEF IsCamera
    <3>5. c.tree[p].type \in {"string", "scalar"}
      BY <3>2
    <3> DEFINE e == result.state
    <3>6. IsCamera(e) /\ e.tree = Edited(c.tree, p, text) /\ e.lost = c.lost
      BY <2>1, <3>4
    <3> HIDE DEF e
    <3>7. Follows(c, e)
      BY <3>3, <3>5, <3>6, EditFollows
    <3> QED BY <3>7 DEF e
  <2> QED BY <1>1, <2>2, <2>3, WriteEdits
<1>4. d \in {r.state : r \in UNION {Read(c, p) \cup UNION {Write(c, p, w) : w \in Words} : p \in Paths}}
  BY DEF Trait!After
<1>5. PICK path \in Paths : \E r \in Read(c, path) \cup UNION {Write(c, path, w) : w \in Words} : d = r.state
  BY <1>4
<1> QED BY <1>2, <1>3, <1>5

-----------------------------------------------------------------------------
(* The camera behaves as a Fuseable.                                       *)

\* What is lost stays lost, and what leads nowhere leads nowhere.
LEMMA StaysLost ==
  ASSUME NEW c, IsCamera(c), NEW d, Follows(c, d), NEW path \in Seq(STRING)
  PROVE  /\ IsLost(c, path) => IsLost(d, path)
         /\ Found(c.tree, "read", path) = {} => Found(d.tree, "read", path) = {}
BY DEF Follows, IsLost

\* A directory that is not one of keywords keeps its entries, and one of keywords
\* gets none.
LEMMA ListingStays ==
  ASSUME NEW c, IsCamera(c), NEW d, Follows(c, d), NEW p \in DOMAIN d.tree
  PROVE  /\ Listing(d.tree, p) \subseteq Listing(c.tree, p)
         /\ c.tree[p].type # "keywords" => Listing(d.tree, p) = Listing(c.tree, p)
<1> DEFINE Old == {r \in DOMAIN c.tree : r # <<>> /\ Front(r) = p /\ "read" \in c.tree[r].rights}
           New == {r \in DOMAIN d.tree : r # <<>> /\ Front(r) = p /\ "read" \in d.tree[r].rights}
<1>1. Listing(c.tree, p) = {Last(q) : q \in Old} /\ Listing(d.tree, p) = {Last(q) : q \in New}
  BY DEF Listing
<1>2. New \subseteq Old
  BY DEF Follows
<1>3. c.tree[p].type # "keywords" => New = Old
  BY DEF Follows
<1> HIDE DEF Old, New
<1> QED BY <1>1, <1>2, <1>3

\* What is said at a node of a camera that follows.
LEMMA SaidAt ==
  ASSUME NEW c, IsCamera(c), NEW d, Follows(c, d), NEW p \in DOMAIN d.tree
  PROVE  /\ KindAt(d, p) = KindAt(c, p)
         /\ c.tree[p].type \notin {"string", "scalar", "keywords"} =>
              AnswersAt(d.tree, p) = AnswersAt(c.tree, p)
<1>1. d.tree[p].type = c.tree[p].type
  BY DEF Follows
<1>2. c.tree[p].type \notin {"string", "scalar", "keywords"} =>
        d.tree[p].text = c.tree[p].text /\ Listing(d.tree, p) = Listing(c.tree, p)
  BY <1>1, ListingStays DEF Follows
<1> QED BY <1>1, <1>2 DEF KindAt, AnswersAt

\* The paths of which no edit changes what is said: those to everything but texts
\* and the directories of keywords.
Fixed(c) ==
  {path \in Paths :
     \A p \in Found(c.tree, "read", path) : c.tree[p].type \notin {"string", "scalar", "keywords"}}

\* Nothing is said of a fixed path that was not said before, but that it panics.
LEMMA FixedIsStatic ==
  ASSUME NEW c, IsCamera(c), NEW d, Follows(c, d), NEW path \in Fixed(c), NEW k \in Trait!Caches
  PROVE  Trait!Said(d, k, path) \subseteq Trait!Said(c, k, path) \cup {Panics}
<1>1. path \in Seq(STRING) /\ IsCamera(d)
  BY CamerasAssumption DEF Fixed, Follows
<1>2. CASE IsLost(d, path)
  BY <1>1, <1>2, SaidIs
<1>3. CASE ~IsLost(d, path) /\ Found(c.tree, "read", path) = {}
  <2>1. ~IsLost(c, path) /\ Found(d.tree, "read", path) = {}
    BY <1>1, <1>3, StaysLost
  <2>2. Trait!Said(d, k, path) = {Err} /\ Trait!Said(c, k, path) = {Err}
    BY <1>1, <1>3, <2>1, SaidIs
  <2> QED BY <2>2
<1>4. ASSUME ~IsLost(d, path), NEW p \in Found(c.tree, "read", path)
      PROVE  Trait!Said(d, k, path) \subseteq Trait!Said(c, k, path) \cup {Panics}
  <2>1. ~IsLost(c, path)
    BY <1>1, <1>4, StaysLost
  <2>2. c.tree[p].type \notin {"string", "scalar", "keywords"}
    BY DEF Fixed
  <2>3. p \in DOMAIN d.tree /\ p \in Found(d.tree, "read", path)
    BY <1>1, <2>2 DEF Follows, Found
  <2>4. KindAt(d, p) = KindAt(c, p) /\ AnswersAt(d.tree, p) = AnswersAt(c.tree, p)
    BY <2>2, <2>3, SaidAt
  <2>5. /\ Trait!Said(c, "kinds", path) = {Answer(KindAt(c, p), {})}
        /\ Trait!Said(c, "lists", path) = AnswersAt(c.tree, p)
    BY <1>1, <2>1, SaidIs
  <2>6. /\ Trait!Said(d, "kinds", path) = {Answer(KindAt(d, p), {})}
        /\ Trait!Said(d, "lists", path) = AnswersAt(d.tree, p)
    BY <1>1, <1>4, <2>3, SaidIs
  <2>7. k = "kinds" \/ k = "lists"
    BY DEF Trait!Caches
  <2> QED BY <2>4, <2>5, <2>6, <2>7
<1> QED BY <1>2, <1>3, <1>4

LEMMA PanicsIs == Trait!Panicked = Panics
BY DEF Trait!Panicked, Panics, Answer

\* What an answer is.
LEMMA AnswerIs ==
  ASSUME NEW is, NEW of
  PROVE  Answer(is, of).is = is /\ Answer(is, of).of = of
BY DEF Answer

LEMMA ErrorsAre == Err.is = "err" /\ Panics.is = "panic"
BY DEF Err, Panics, Answer

\* There is one answer at a node that is about the tree, or none.
LEMMA OneShapeAt ==
  ASSUME NEW tree, NEW p, NEW a \in AnswersAt(tree, p)
  PROVE  /\ a.is = "left" => tree[p].type \in Directories /\ a = Answer("left", Listing(tree, p))
         /\ a.is = "right" => tree[p].type \notin Directories
         /\ a.is \in Trait!Shapes => AnswersAt(tree, p) = {a}
<1>1. CASE tree[p].type \in Directories
  <2>1. AnswersAt(tree, p) = {Answer("left", Listing(tree, p))}
    BY <1>1 DEF AnswersAt, Directories
  <2> QED BY <1>1, <2>1, AnswerIs
<1>2. CASE tree[p].type \notin Directories
  <2>1. \A b \in AnswersAt(tree, p) : b.is \in {"right", "err", "panic"}
    <3>1. CASE tree[p].type = "script"
      <4>1. AnswersAt(tree, p) = {Err}
        BY <1>2, <3>1 DEF AnswersAt, Directories
      <4> QED BY <4>1, ErrorsAre
    <3>2. CASE tree[p].type = "value"
      <4> DEFINE device == Answer("right", {"of the device"})
      <4>1. AnswersAt(tree, p) = {device, Err, Panics}
        BY <1>2, <3>2 DEF AnswersAt, Directories
      <4>2. device.is = "right"
        BY AnswerIs
      <4> HIDE DEF device
      <4> QED BY <4>1, <4>2, ErrorsAre
    <3>3. CASE tree[p].type \notin {"script", "value"}
      <4>1. AnswersAt(tree, p) = {Answer("right", {tree[p].text})}
        BY <1>2, <3>3 DEF AnswersAt
      <4> QED BY <4>1, AnswerIs
    <3> QED BY <3>1, <3>2, <3>3
  <2> QED BY <1>2, <2>1 DEF Trait!Shapes
<1> QED BY <1>1, <1>2

\* In one camera a path has one kind and one list of entries.
LEMMA OneShape ==
  ASSUME NEW c, IsCamera(c), NEW path \in Seq(STRING),
         NEW k \in Trait!Caches, NEW a \in Trait!Said(c, k, path), a.is \in Trait!Shapes
  PROVE  Trait!Said(c, k, path) = {a}
<1>1. CASE IsLost(c, path)
  BY <1>1, SaidIs
<1>2. CASE ~IsLost(c, path) /\ Found(c.tree, "read", path) = {}
  BY <1>2, SaidIs
<1>3. ASSUME ~IsLost(c, path), NEW p \in Found(c.tree, "read", path)
      PROVE  Trait!Said(c, k, path) = {a}
  <2>1. /\ Trait!Said(c, "kinds", path) = {Answer(KindAt(c, p), {})}
        /\ Trait!Said(c, "lists", path) = AnswersAt(c.tree, p)
    BY <1>3, SaidIs
  <2>2. CASE k = "kinds"
    BY <2>1, <2>2
  <2>3. CASE k = "lists"
    BY <2>1, <2>3, OneShapeAt
  <2> QED BY <2>2, <2>3 DEF Trait!Caches
<1> QED BY <1>1, <1>2, <1>3

\* A path has a text only if it leads to what is no directory.
LEMMA TextIsInFile ==
  ASSUME NEW c, IsCamera(c), NEW path \in Seq(STRING)
  PROVE  Trait!NoText(c, path) <=>
           ~\E p \in Found(c.tree, "read", path) :
              ~IsLost(c, path) /\ c.tree[p].type \notin Directories \cup {"script"}
<1>1. CASE IsLost(c, path)
  <2>1. Trait!Said(c, "lists", path) = {Panics}
    BY <1>1, SaidIs DEF Trait!Caches
  <2> QED BY <1>1, <2>1, ErrorsAre DEF Trait!NoText
<1>2. CASE ~IsLost(c, path) /\ Found(c.tree, "read", path) = {}
  <2>1. Trait!Said(c, "lists", path) = {Err}
    BY <1>2, SaidIs DEF Trait!Caches
  <2> QED BY <1>2, <2>1, ErrorsAre DEF Trait!NoText
<1>3. ASSUME ~IsLost(c, path), NEW p \in Found(c.tree, "read", path)
      PROVE  Trait!NoText(c, path) <=>
               ~\E q \in Found(c.tree, "read", path) :
                  ~IsLost(c, path) /\ c.tree[q].type \notin Directories \cup {"script"}
  <2>1. Trait!Said(c, "lists", path) = AnswersAt(c.tree, p)
    BY <1>3, SaidIs
  <2>2. \A q \in Found(c.tree, "read", path) : q = p
    BY OneNode DEF IsCamera
  <2>3. CASE c.tree[p].type \in Directories
    BY <1>3, <2>1, <2>2, <2>3, OneShapeAt DEF Trait!NoText
  <2>4. CASE c.tree[p].type = "script"
    <3>1. AnswersAt(c.tree, p) = {Err}
      BY <2>4 DEF AnswersAt, Directories
    <3> QED BY <1>3, <2>1, <2>2, <2>4, <3>1, ErrorsAre DEF Trait!NoText
  <2>5. CASE c.tree[p].type \notin Directories \cup {"script"}
    <3>1. \E of : Answer("right", of) \in AnswersAt(c.tree, p)
      BY <2>5 DEF AnswersAt, Directories
    <3> QED BY <1>3, <2>1, <2>2, <2>5, <3>1, AnswerIs DEF Trait!NoText
  <2> QED BY <2>3, <2>4, <2>5
<1> QED BY <1>1, <1>2, <1>3

\* What is a directory has no text.
LEMMA DirHasNoText ==
  ASSUME NEW c, IsCamera(c), NEW path \in Seq(STRING),
         NEW a \in Trait!Said(c, "kinds", path), a.is = "dir"
  PROVE  Trait!NoText(c, path)
<1>1. "kinds" \in Trait!Caches
  BY DEF Trait!Caches
<1>2. ~IsLost(c, path)
  BY <1>1, SaidIs, ErrorsAre
<1>3. \A p \in Found(c.tree, "read", path) : c.tree[p].type \in Directories
  <2> TAKE p \in Found(c.tree, "read", path)
  <2>1. a = Answer(KindAt(c, p), {})
    BY <1>2, SaidIs
  <2> QED BY <2>1, AnswerIs DEF KindAt
<1> QED BY <1>3, TextIsInFile

\* is_dir changes nothing.
LEMMA IsDirStays ==
  ASSUME NEW c, IsCamera(c), NEW path \in Seq(STRING), NEW r \in IsDir(c, path)
  PROVE  r.state = c
<1>1. \E a : IsDir(c, path) = {Result(c, a)}
  <2>1. CASE IsLost(c, path)
    BY <2>1, IsDirIs
  <2>2. CASE ~IsLost(c, path)
    BY <2>2, IsDirIs
  <2> QED BY <2>1, <2>2
<1> QED BY <1>1, ResultIs

\* A read changes the camera only if it panics, and then what is said of a path
\* stays unless the path panics.
LEMMA ReadStays ==
  ASSUME NEW c, IsCamera(c), NEW path \in Seq(STRING), NEW r \in Read(c, path)
  PROVE  r.answer # Panics => r.state = c
<1>1. CASE IsLost(c, path)
  BY <1>1, ReadIs, ResultIs
<1>2. CASE ~IsLost(c, path) /\ Found(c.tree, "read", path) = {}
  BY <1>2, ReadIs, ResultIs
<1>3. ASSUME ~IsLost(c, path), NEW p \in Found(c.tree, "read", path)
      PROVE  r.answer # Panics => r.state = c
  <2>1. p \in DOMAIN c.tree /\ Read(c, path) = ReadAt(c, path, p)
    BY <1>3, ReadIs
  <2>2. \A s \in ReadAt(c, path, p) : s.answer # Panics => s.state = c
    BY <2>1, ReadAtIs
  <2> QED BY <2>1, <2>2
<1> QED BY <1>1, <1>2, <1>3

LEMMA SameTreeSaid ==
  ASSUME NEW c, IsCamera(c), NEW d, IsCamera(d), d.tree = c.tree, c.lost \subseteq d.lost,
         NEW path \in Seq(STRING), NEW k \in Trait!Caches
  PROVE  Trait!Said(d, k, path) \subseteq Trait!Said(c, k, path) \cup {Panics}
<1>1. CASE IsLost(d, path)
  BY <1>1, SaidIs
<1>2. CASE ~IsLost(d, path)
  <2>1. Follows(c, d)
    BY SameTreeFollows
  <2>2. ~IsLost(c, path)
    BY <1>2, <2>1, StaysLost
  <2>3. CASE Found(c.tree, "read", path) = {}
    <3>1. Trait!Said(d, k, path) = {Err} /\ Trait!Said(c, k, path) = {Err}
      BY <1>2, <2>2, <2>3, SaidIs
    <3> QED BY <3>1
  <2>4. ASSUME NEW p \in Found(c.tree, "read", path)
        PROVE  Trait!Said(d, k, path) = Trait!Said(c, k, path)
    <3>1. /\ Trait!Said(c, "kinds", path) = {Answer(KindAt(c, p), {})}
          /\ Trait!Said(c, "lists", path) = AnswersAt(c.tree, p)
      BY <2>2, SaidIs
    <3>2. /\ Trait!Said(d, "kinds", path) = {Answer(KindAt(d, p), {})}
          /\ Trait!Said(d, "lists", path) = AnswersAt(d.tree, p)
      BY <1>2, SaidIs
    <3>3. KindAt(d, p) = KindAt(c, p)
      BY DEF KindAt
    <3> QED BY <3>1, <3>2, <3>3 DEF Trait!Caches
  <2> QED BY <2>3, <2>4
<1> QED BY <1>1, <1>2

\* No text comes into being.
LEMMA NoTextStays ==
  ASSUME NEW c, IsCamera(c), NEW d, Follows(c, d), NEW path \in Seq(STRING), Trait!NoText(c, path)
  PROVE  Trait!NoText(d, path)
<1>1. IsCamera(d)
  BY DEF Follows
<1> SUFFICES ASSUME NEW p \in Found(d.tree, "read", path), ~IsLost(d, path)
             PROVE  d.tree[p].type \in Directories \cup {"script"}
  BY <1>1, TextIsInFile
<1>2. /\ p \in Found(c.tree, "read", path) /\ p \in DOMAIN d.tree
      /\ d.tree[p].type = c.tree[p].type
  BY DEF Follows
<1>3. ~IsLost(c, path)
  BY StaysLost
<1> QED BY <1>2, <1>3, TextIsInFile

\* No entry comes into being.
LEMMA EntriesStay ==
  ASSUME NEW c, IsCamera(c), NEW d, Follows(c, d), NEW path \in Seq(STRING),
         NEW new \in Trait!Said(d, "lists", path), new.is = "left"
  PROVE  \E old \in Trait!Said(c, "lists", path) : old.is = "left" /\ new.of \subseteq old.of
<1>1. IsCamera(d) /\ "lists" \in Trait!Caches
  BY DEF Follows, Trait!Caches
<1>2. ~IsLost(d, path) /\ Found(d.tree, "read", path) # {}
  BY <1>1, SaidIs, ErrorsAre
<1>3. PICK p : p \in Found(d.tree, "read", path)
  BY <1>2
<1>4. new \in AnswersAt(d.tree, p)
  BY <1>1, <1>2, <1>3, SaidIs
<1>5. d.tree[p].type \in Directories /\ new = Answer("left", Listing(d.tree, p))
  BY <1>4, OneShapeAt
<1>6. /\ p \in Found(c.tree, "read", path) /\ p \in DOMAIN d.tree
      /\ d.tree[p].type = c.tree[p].type
  BY <1>3 DEF Follows
<1>7. ~IsLost(c, path)
  BY <1>2, StaysLost
<1> DEFINE old == Answer("left", Listing(c.tree, p))
<1>8. Trait!Said(c, "lists", path) = {old}
  <2>1. AnswersAt(c.tree, p) = {old}
    BY <1>5, <1>6 DEF AnswersAt, Directories
  <2> QED BY <1>6, <1>7, <2>1, SaidIs
<1>9. new.of \subseteq old.of /\ old.is = "left"
  <2>1. Listing(d.tree, p) \subseteq Listing(c.tree, p)
    BY <1>6, ListingStays
  <2>2. new.of = Listing(d.tree, p)
    BY <1>5, AnswerIs
  <2>3. old.of = Listing(c.tree, p) /\ old.is = "left"
    BY AnswerIs
  <2> QED BY <2>1, <2>2, <2>3
<1> HIDE DEF old
<1> QED BY <1>8, <1>9

\* Every camera does what the wrapper and the caches rely on, and what is said of
\* its fixed paths no edit changes: the assumption FuseableBehaves, for the camera.
THEOREM CamerasBehave ==
  ASSUME NEW S, \A c \in S : IsCamera(c),
         NEW Static, \A c \in S : Static \subseteq Fixed(c)
  PROVE  \A c \in S : Trait!Behaves(c, Static)
<1> SUFFICES ASSUME NEW c \in S, NEW path \in Paths
             PROVE  /\ \A k \in Trait!Caches : \A a \in Trait!Said(c, k, path) :
                         a.is \in Trait!Shapes => Trait!Said(c, k, path) = {a}
                    /\ \A a \in Trait!Said(c, "kinds", path) :
                         a.is = "dir" => Trait!NoText(c, path)
                    /\ \A r \in IsDir(c, path) : r.state = c
                    /\ \A r \in Read(c, path) :
                         /\ r.answer # Trait!Panicked => r.state = c
                         /\ \A k \in Trait!Caches, q \in Paths :
                              Trait!Said(r.state, k, q)
                                \subseteq Trait!Said(c, k, q) \cup {Trait!Panicked}
                    /\ \A d \in Trait!After(c) :
                         /\ Trait!NoText(c, path) => Trait!NoText(d, path)
                         /\ \A new \in Trait!Said(d, "lists", path) : new.is = "left" =>
                              \E old \in Trait!Said(c, "lists", path) :
                                old.is = "left" /\ new.of \subseteq old.of
                         /\ path \in Static =>
                              \A k \in Trait!Caches :
                                Trait!Said(d, k, path)
                                  \subseteq Trait!Said(c, k, path) \cup {Trait!Panicked}
  BY DEF Trait!Behaves
<1>1. Paths \subseteq Seq(STRING) /\ path \in Seq(STRING) /\ IsCamera(c)
  BY CamerasAssumption
<1>2. \A k \in Trait!Caches : \A a \in Trait!Said(c, k, path) :
        a.is \in Trait!Shapes => Trait!Said(c, k, path) = {a}
  BY <1>1, OneShape
<1>3. \A a \in Trait!Said(c, "kinds", path) : a.is = "dir" => Trait!NoText(c, path)
  BY <1>1, DirHasNoText
<1>4. \A r \in IsDir(c, path) : r.state = c
  BY <1>1, IsDirStays
<1>5. ASSUME NEW r \in Read(c, path)
      PROVE  /\ r.answer # Trait!Panicked => r.state = c
             /\ \A k \in Trait!Caches, q \in Paths :
                  Trait!Said(r.state, k, q) \subseteq Trait!Said(c, k, q) \cup {Trait!Panicked}
  <2>1. IsCamera(r.state) /\ r.state.tree = c.tree /\ c.lost \subseteq r.state.lost
    BY <1>1, ReadKeeps, ReadLeaves
  <2>2. r.answer # Panics => r.state = c
    BY <1>1, ReadStays
  <2>3. \A k \in Trait!Caches, q \in Paths :
          Trait!Said(r.state, k, q) \subseteq Trait!Said(c, k, q) \cup {Panics}
    BY <1>1, <2>1, SameTreeSaid
  <2> QED BY <2>2, <2>3, PanicsIs
<1>6. ASSUME NEW d \in Trait!After(c)
      PROVE  /\ Trait!NoText(c, path) => Trait!NoText(d, path)
             /\ \A new \in Trait!Said(d, "lists", path) : new.is = "left" =>
                  \E old \in Trait!Said(c, "lists", path) :
                    old.is = "left" /\ new.of \subseteq old.of
             /\ path \in Static =>
                  \A k \in Trait!Caches :
                    Trait!Said(d, k, path) \subseteq Trait!Said(c, k, path) \cup {Trait!Panicked}
  <2>1. Follows(c, d)
    BY <1>1, AfterFollows
  <2>2. Trait!NoText(c, path) => Trait!NoText(d, path)
    BY <1>1, <2>1, NoTextStays
  <2>3. \A new \in Trait!Said(d, "lists", path) : new.is = "left" =>
          \E old \in Trait!Said(c, "lists", path) : old.is = "left" /\ new.of \subseteq old.of
    BY <1>1, <2>1, EntriesStay
  <2>4. path \in Static =>
          \A k \in Trait!Caches : Trait!Said(d, k, path) \subseteq Trait!Said(c, k, path) \cup {Panics}
    BY <1>1, <2>1, FixedIsStatic
  <2> QED BY <2>2, <2>3, <2>4, PanicsIs
<1> QED BY <1>2, <1>3, <1>4, <1>5, <1>6

\* A call leads from a camera to a camera, and the fixed paths stay fixed: what is
\* static for the camera at the start is so for all that calls can make of it.
THEOREM FixedStays ==
  ASSUME NEW c, IsCamera(c), NEW d \in Trait!After(c)
  PROVE  IsCamera(d) /\ Fixed(c) \subseteq Fixed(d)
<1>1. Follows(c, d)
  BY AfterFollows
<1>2. ASSUME NEW path \in Fixed(c), NEW p \in Found(d.tree, "read", path)
      PROVE  d.tree[p].type \notin {"string", "scalar", "keywords"}
  <2>1. path \in Seq(STRING)
    BY CamerasAssumption DEF Fixed
  <2>2. /\ p \in Found(c.tree, "read", path) /\ p \in DOMAIN d.tree
        /\ d.tree[p].type = c.tree[p].type
    BY <1>1, <2>1 DEF Follows
  <2> QED BY <2>2 DEF Fixed
<1> QED BY <1>1, <1>2 DEF Fixed, Follows

\* The results of the calls.
Results(S) == [answer : Trait!Answers, state : S]

LEMMA ResultTyped ==
  ASSUME NEW S, NEW c \in S, NEW a \in Trait!Answers
  PROVE  Result(c, a) \in Results(S)
BY DEF Result, Results

LEMMA AnswersTyped ==
  /\ {Done, Err, Panics} \subseteq Trait!Answers
  /\ \A kind \in {"dir", "file"} : Answer(kind, {}) \in Trait!Answers
  /\ \A kind \in {"left", "right"}, of \in SUBSET Strings : Answer(kind, of) \in Trait!Answers
BY DEF Done, Err, Panics, Answer, Trait!Answers

\* What a directory lists are strings.
LEMMA ListingTyped ==
  ASSUME NEW tree, IsTree(tree), NEW p
  PROVE  Listing(tree, p) \subseteq STRING
<1>1. ASSUME NEW r \in DOMAIN tree, r # <<>>
      PROVE  Last(r) \in STRING
  <2>1. r \in Seq(STRING) /\ Len(r) \in 1 .. Len(r)
    BY <1>1 DEF IsTree
  <2> QED BY <2>1, ElementOfSeq DEF Last
<1> QED BY <1>1 DEF Listing

\* A result is an answer with a camera.
LEMMA AccessIsResult ==
  ASSUME NEW c, NEW path, NEW answer, NEW r \in Accessed(c, path, answer)
  PROVE  r = Result(r.state, r.answer) /\ r.answer \in {answer, Err, Panics}
BY DEF Accessed, Losing, Result

LEMMA ReadTyped ==
  ASSUME NEW c, IsCamera(c), NEW path \in Seq(STRING), NEW r \in Read(c, path)
  PROVE  r = Result(r.state, r.answer) /\ r.answer \in Trait!Answers
<1>1. CASE IsLost(c, path)
  BY <1>1, ReadIs, ResultIs, AnswersTyped
<1>2. CASE ~IsLost(c, path) /\ Found(c.tree, "read", path) = {}
  BY <1>2, ReadIs, ResultIs, AnswersTyped
<1>3. ASSUME ~IsLost(c, path), NEW p \in Found(c.tree, "read", path)
      PROVE  r = Result(r.state, r.answer) /\ r.answer \in Trait!Answers
  <2>1. p \in DOMAIN c.tree /\ r \in ReadAt(c, path, p)
    BY <1>3, ReadIs
  <2>2. {c.tree[p].text} \subseteq Strings /\ Listing(c.tree, p) \subseteq Strings
    BY <2>1, ListingTyped DEF IsCamera, IsTree, Nodes, Strings
  <2>3. CASE c.tree[p].type \in Directories
    <3>1. r = Result(c, Answer("left", Listing(c.tree, p)))
      BY <2>1, <2>3 DEF ReadAt, Directories
    <3> QED BY <2>2, <3>1, ResultIs, AnswersTyped
  <2>4. CASE c.tree[p].type = "script"
    <3>1. r = Result(c, Err)
      BY <2>1, <2>4 DEF ReadAt, Directories
    <3> QED BY <3>1, ResultIs, AnswersTyped
  <2>5. CASE c.tree[p].type = "value"
    <3>1. r \in Accessed(c, path, Answer("right", {"of the device"}))
      BY <2>1, <2>5 DEF ReadAt, Directories
    <3> DEFINE device == Answer("right", {"of the device"})
    <3>2. device \in Trait!Answers
      BY DEF Answer, Trait!Answers, Strings
    <3> HIDE DEF device
    <3>3. r = Result(r.state, r.answer) /\ r.answer \in {device, Err, Panics}
      BY <3>1, AccessIsResult DEF device
    <3> QED BY <3>2, <3>3, AnswersTyped
  <2>6. CASE c.tree[p].type \notin Directories \cup {"script", "value"}
    <3>1. r = Result(c, Answer("right", {c.tree[p].text}))
      BY <2>1, <2>6 DEF ReadAt
    <3> QED BY <2>2, <3>1, ResultIs, AnswersTyped
  <2> QED BY <2>3, <2>4, <2>5, <2>6
<1> QED BY <1>1, <1>2, <1>3

LEMMA WriteTyped ==
  ASSUME NEW c, NEW path, NEW word, NEW r \in Write(c, path, word)
  PROVE  r = Result(r.state, r.answer) /\ r.answer \in {Done, Err, Panics}
<1> DEFINE results == [p \in DOMAIN c.tree |-> WriteAt(c, path, p, word)]
           Fine == r = Result(r.state, r.answer) /\ r.answer \in {Done, Err, Panics}
<1>1. ASSUME NEW d, NEW a \in {Done, Err, Panics}, r = Result(d, a)
      PROVE  Fine
  BY <1>1, ResultIs
<1>2. ASSUME NEW sets, r = Losing(c, sets)
      PROVE  Fine
  BY <1>1, <1>2 DEF Losing
<1>3. ASSUME NEW p \in DOMAIN c.tree, r \in WriteAt(c, path, p, word)
      PROVE  Fine
  <2>1. CASE c.tree[p].type = "script"
    <3>1. r \in ResetResults(c)
      BY <1>3, <2>1 DEF WriteAt
    <3>2. r = Result(c, Done) \/ r = Result(c, Err) \/ \E sets : r = Losing(c, sets)
      BY <3>1 DEF ResetResults
    <3> QED BY <1>1, <1>2, <3>2
  <2>2. CASE c.tree[p].type = "value"
    <3>1. r \in Accessed(c, path, Done)
      BY <1>3, <2>2 DEF WriteAt
    <3> QED BY <3>1, AccessIsResult
  <2>3. CASE c.tree[p].type \notin {"script", "value"}
    <3>1. r = Result(c, Err) \/ \E d : r = Result(d, Done)
      BY <1>3, <2>3 DEF WriteAt, Refused
    <3> QED BY <1>1, <3>1
  <2> QED BY <2>1, <2>2, <2>3
<1> HIDE DEF Fine
<1>4. \/ r = Result(c, Panics) \/ r = Result(c, Err)
      \/ \E p \in Found(c.tree, "write", path) : r \in results[p]
  <2>1. r \in Called(c, "write", path, results)
    BY DEF Write
  <2> HIDE DEF results
  <2> QED BY <2>1 DEF Called
<1>5. \A p \in Found(c.tree, "write", path) : p \in DOMAIN c.tree
  BY DEF Found
<1>6. Fine
  BY <1>1, <1>3, <1>4, <1>5
<1> QED BY <1>6 DEF Fine

\* The results of the calls on a set of cameras that no call leaves are those the
\* trait promises: the types that FuseableTypes asks for, for the camera.
THEOREM CamerasAreTyped ==
  ASSUME NEW S, \A c \in S : IsCamera(c) /\ Trait!After(c) \subseteq S
  PROVE  \A c \in S, path \in Paths :
           /\ IsDir(c, path) \subseteq Results(S)
           /\ Read(c, path) \subseteq Results(S)
           /\ \A word \in Words : Write(c, path, word) \subseteq Results(S)
<1> SUFFICES ASSUME NEW c \in S, NEW path \in Paths
             PROVE  /\ IsDir(c, path) \subseteq Results(S)
                    /\ Read(c, path) \subseteq Results(S)
                    /\ \A word \in Words : Write(c, path, word) \subseteq Results(S)
  OBVIOUS
<1>1. path \in Seq(STRING) /\ IsCamera(c)
  BY CamerasAssumption
<1>2. IsDir(c, path) \subseteq Results(S)
  <2>1. \A p : KindAt(c, p) \in {"dir", "file"}
    BY DEF KindAt
  <2>2. \E a \in Trait!Answers : IsDir(c, path) = {Result(c, a)}
    <3>1. CASE IsLost(c, path)
      BY <1>1, <3>1, IsDirIs, AnswersTyped
    <3>2. CASE ~IsLost(c, path)
      BY <1>1, <2>1, <3>2, IsDirIs, AnswersTyped
    <3> QED BY <3>1, <3>2
  <2> QED BY <2>2, ResultTyped
<1>3. ASSUME NEW r \in Read(c, path)
      PROVE  r \in Results(S)
  <2>1. r.state \in S
    BY <1>3 DEF Trait!After
  <2>2. r = Result(r.state, r.answer) /\ r.answer \in Trait!Answers
    BY <1>1, ReadTyped
  <2> QED BY <2>1, <2>2, ResultTyped
<1>4. ASSUME NEW word \in Words, NEW r \in Write(c, path, word)
      PROVE  r \in Results(S)
  <2>1. r.state \in S
    BY <1>4 DEF Trait!After
  <2>2. r = Result(r.state, r.answer) /\ r.answer \in Trait!Answers
    BY WriteTyped, AnswersTyped
  <2> QED BY <2>1, <2>2, ResultTyped
<1> QED BY <1>2, <1>3, <1>4
================================================================================
