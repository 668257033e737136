----------------------------- MODULE FuseableTrait -----------------------------
(***************************************************************************)
(* The trait Fuseable: the calls of an implementation, and what the        *)
(* wrapper and the caches rely on.  A call in a state has a set of         *)
(* results, each an answer and the next state.                             *)
(***************************************************************************)
CONSTANTS
  Paths,           \* the paths clients ask for
  Words,           \* what they write
  Names,           \* what answers are made of: names of entries, texts
  FuseableIsDir(_, _), FuseableRead(_, _), FuseableWrite(_, _, _)

Answers == [is : {"dir", "file", "left", "right", "ok", "err", "panic"}, of : SUBSET Names]

Panicked == [is |-> "panic", of |-> {}]

\* What an answer about the tree is, other than one about a text in it.
Shapes == {"dir", "file", "left"}

Caches == {"kinds", "lists"}

\* What the calls behind a cache say of a path in state s.
Said(s, c, path) ==
  {r.answer : r \in IF c = "kinds" THEN FuseableIsDir(s, path) ELSE FuseableRead(s, path)}

\* The states after a call in state s.
After(s) ==
  {r.state : r \in UNION {FuseableRead(s, p) \cup UNION {FuseableWrite(s, p, w) : w \in Words} :
                           p \in Paths}}

\* A path has no text to be read.
NoText(s, path) == \A a \in Said(s, "lists", path) : a.is # "right"

\* In one state a path has one kind and one list of entries, and what is a
\* directory has no text.  is_dir changes nothing, and read nothing but that a
\* panic makes paths panic.  No text and no entry comes into being, and what is
\* said of a static path stays as it is, unless the path panics.
Behaves(s, static) ==
  \A p \in Paths :
    /\ \A c \in Caches : \A a \in Said(s, c, p) : a.is \in Shapes => Said(s, c, p) = {a}
    /\ \A a \in Said(s, "kinds", p) : a.is = "dir" => NoText(s, p)
    /\ \A r \in FuseableIsDir(s, p) : r.state = s
    /\ \A r \in FuseableRead(s, p) :
         /\ r.answer # Panicked => r.state = s
         /\ \A c \in Caches, q \in Paths :
              Said(r.state, c, q) \subseteq Said(s, c, q) \cup {Panicked}
    /\ \A s2 \in After(s) :
         /\ NoText(s, p) => NoText(s2, p)
         /\ \A new \in Said(s2, "lists", p) : new.is = "left" =>
              \E old \in Said(s, "lists", p) : old.is = "left" /\ new.of \subseteq old.of
         /\ p \in static =>
              \A c \in Caches : Said(s2, c, p) \subseteq Said(s, c, p) \cup {Panicked}
===============================================================================
