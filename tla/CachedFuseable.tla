---------------------------- MODULE CachedFuseable ----------------------------
(***************************************************************************)
(* The handlers of FuseableWrapper over a Fuseable, with CachedFuseable    *)
(* between the two or without it.  main.rs runs them without, and keeps    *)
(* the wiring with the cache in comments.                                  *)
(*                                                                         *)
(* The Fuseable is a parameter: its states, and the results its calls can  *)
(* have in a state, each an answer and the next state.  The dispatcher of  *)
(* fuse_mt runs getattr, opendir, open and readdir, the pool read and      *)
(* write.                                                                  *)
(*                                                                         *)
(* A call locks `inner`, shared or, for a write, exclusively, and unlocks  *)
(* it when it answers.  To lock it and to look into a cache is one step:   *)
(* what other readers do in between they can as well do before.  A miss    *)
(* calls the Fuseable with the lock of the cache held, lets it go, and     *)
(* locks the cache once more to fill it.                                   *)
(***************************************************************************)
EXTENDS FuseableTrait, Naturals, FiniteSets

CONSTANTS
  Dispatcher,      \* the thread that mounted the file system
  Workers,         \* the threads of the pool
  Nothing,         \* no answer
  States,          \* the states of the Fuseable
  Start,           \* those it starts in
  Static,          \* the paths of which no write changes what is said
  CacheSize,       \* the entries of a cache
  Wirings,         \* TRUE: with the caches
  PanicAbort       \* TRUE in the release profile, where a panic aborts

Threads == Workers \cup {Dispatcher}

Results == [answer : Answers, state : States]

\* The Fuseable has the types of its trait.
ASSUME FuseableTypes ==
  /\ Dispatcher \notin Workers
  /\ Nothing \notin Answers
  /\ CacheSize \in Nat \ {0}
  /\ Wirings \subseteq BOOLEAN /\ PanicAbort \in BOOLEAN
  /\ Start \subseteq States /\ Static \subseteq Paths
  /\ \A s \in States, p \in Paths :
       /\ FuseableIsDir(s, p) \subseteq Results
       /\ FuseableRead(s, p) \subseteq Results
       /\ \A w \in Words : FuseableWrite(s, p, w) \subseteq Results

\* The Fuseable does what the wrapper and the caches rely on.
ASSUME FuseableBehaves == \A s \in States : Behaves(s, Static)

-----------------------------------------------------------------------------
VARIABLES
  cached,      \* the wiring
  fuseable,    \* the state of the Fuseable
  cache,       \* is_dir_cache ("kinds") and read_dir_cache ("lists")
  pending,     \* pending[t]: the call and the answer t is about to cache
  poisoned,    \* the locks that are: of the caches, and "inner"
  opened,      \* the directories that have been opened
  last,        \* the call answered last, its answer and what the handler made of it
  alive        \* the process has not exited

vars == <<cached, fuseable, cache, pending, poisoned, opened, last, alive>>

Init ==
  /\ cached \in Wirings
  /\ fuseable \in Start
  /\ cache = [c \in Caches |-> [p \in Paths |-> Nothing]]
  /\ pending = [t \in Threads |-> Nothing]
  /\ poisoned = {}
  /\ opened = {}
  /\ last = Nothing
  /\ alive = TRUE

-----------------------------------------------------------------------------
(* What the handlers ask the Fuseable, and what they make of the answer.   *)

KindCalls == {"getattr", "opendir", "open"}

Inline == KindCalls \cup {"readdir"}

\* The calls of a thread.  The kernel reads the entries of an opened directory.
Calls(t) ==
  {c \in [name : IF t = Dispatcher THEN Inline ELSE {"read"}, path : Paths] :
     c.name = "readdir" => c.path \in opened}

CacheOf(name) == IF name \in KindCalls THEN "kinds" ELSE "lists"

ResultsOf(c, path) ==
  IF c = "kinds" THEN FuseableIsDir(fuseable, path) ELSE FuseableRead(fuseable, path)

\* Mutant of Keepable: what a file contains is kept, too.
KeepableText(answer) == answer.is \in Shapes \cup {"right"}

\* What the caches keep: whatever is_dir finds, and lists of entries.
Keepable(answer) == answer.is \in Shapes

\* Mutant of Outcome: opendir takes whatever is found.
OutcomeAnyKind(name, answer) ==
  CASE name = "getattr" /\ answer.is \in {"dir", "file"} -> "ok"
    [] name = "opendir" /\ answer.is \in {"dir", "file"} -> "ok"
    [] name = "open" /\ answer.is = "file" -> "ok"
    [] name = "readdir" /\ answer.is = "left" -> "ok"
    [] name = "readdir" /\ answer.is = "right" -> "unimplemented"
    [] name = "read" /\ answer.is = "right" -> "ok"
    [] name = "write" /\ answer.is = "ok" -> "ok"
    [] OTHER -> "err"

\* What a handler makes of an answer; readdir of a file is unimplemented!().
Outcome(name, answer) ==
  CASE name = "getattr" /\ answer.is \in {"dir", "file"} -> "ok"
    [] name = "opendir" /\ answer.is = "dir" -> "ok"
    [] name = "open" /\ answer.is = "file" -> "ok"
    [] name = "readdir" /\ answer.is = "left" -> "ok"
    [] name = "readdir" /\ answer.is = "right" -> "unimplemented"
    [] name = "read" /\ answer.is = "right" -> "ok"
    [] name = "write" /\ answer.is = "ok" -> "ok"
    [] OTHER -> "err"

Report(call, answer, out) ==
  last' = [name |-> call.name, path |-> call.path, answer |-> answer, out |-> out]

\* The handler returns, or panics at unimplemented!() on the main thread.
Reply(call, answer) ==
  LET out == Outcome(call.name, answer)
  IN /\ Report(call, answer, out)
     /\ opened' = IF call.name = "opendir" /\ out = "ok" THEN opened \cup {call.path} ELSE opened
     /\ alive' = (out # "unimplemented")
     /\ UNCHANGED poisoned

\* Mutant of Panic: both caches are behind one lock.
PanicOfBoth(t, call, locks) ==
  /\ Report(call, Panicked, "panic")
  /\ alive' = (~PanicAbort /\ t # Dispatcher)
  /\ poisoned' = poisoned \cup (IF "lists" \in locks THEN Caches ELSE locks)
  /\ UNCHANGED opened

\* The handler panics, which ends the process if panics abort or if t is the
\* main thread; a thread of the pool poisons the locks it holds for itself alone.
Panic(t, call, locks) ==
  /\ Report(call, Panicked, "panic")
  /\ alive' = (~PanicAbort /\ t # Dispatcher)
  /\ poisoned' = poisoned \cup locks
  /\ UNCHANGED opened

-----------------------------------------------------------------------------
(* The steps of a call.                                                    *)

\* Thread t is free to take a call, and `inner` to be locked shared.
Free(t) == alive /\ pending[t] = Nothing

\* Mutant of HashedPath: the path was consumed before it is hashed.
HashedPathConsumed(path) == CHOOSE p \in Paths : TRUE

\* The key of a path is the hash of its names as they were written.
HashedPath(path) == path

\* What the cache that is asked for the call holds.
Kept(call) == cache[CacheOf(call.name)][HashedPath(call.path)]

\* The cache has the answer.
Hit(t, call) ==
  /\ Free(t)
  /\ cached
  /\ poisoned \cap {"inner", CacheOf(call.name)} = {}
  /\ Kept(call) # Nothing
  /\ Reply(call, Kept(call))
  /\ UNCHANGED <<cached, fuseable, cache, pending>>

\* There is no cache, or it has no answer: the Fuseable is called.
Miss(t, call) ==
  /\ Free(t)
  /\ "inner" \notin poisoned
  /\ cached => CacheOf(call.name) \notin poisoned /\ Kept(call) = Nothing
  /\ \E r \in ResultsOf(CacheOf(call.name), call.path) :
       /\ fuseable' = r.state
       /\ \/ /\ r.answer = Panicked
             /\ Panic(t, call, IF cached THEN {CacheOf(call.name)} ELSE {})
             /\ UNCHANGED pending
          \/ /\ r.answer # Panicked
             /\ cached /\ Keepable(r.answer)
             /\ pending' = [pending EXCEPT ![t] = [call |-> call, answer |-> r.answer]]
             /\ UNCHANGED <<poisoned, opened, last, alive>>
          \/ /\ r.answer # Panicked
             /\ ~(cached /\ Keepable(r.answer))
             /\ Reply(call, r.answer)
             /\ UNCHANGED pending
  /\ UNCHANGED <<cached, cache>>

\* Mutant of Filled: nothing goes.
FilledOnly(entries, path, answer) == {[entries EXCEPT ![path] = answer]}

\* A cache with one more answer.  A full cache drops the entry that was used
\* least recently; which one that is, is left open.
Filled(entries, path, answer) ==
  LET others == {p \in Paths \ {path} : entries[p] # Nothing}
      kept   == IF Cardinality(others) < CacheSize THEN {others}
                ELSE {others \ {p} : p \in others}
  IN {[p \in Paths |-> IF p = path THEN answer ELSE IF p \in keep THEN entries[p] ELSE Nothing] :
        keep \in kept}

\* The answer is put into the cache, and given.
Fill(t) ==
  /\ alive
  /\ pending[t] # Nothing
  /\ LET call == pending[t].call
         c    == CacheOf(call.name)
     IN /\ c \notin poisoned
        /\ \E new \in Filled(cache[c], HashedPath(call.path), pending[t].answer) :
             cache' = [cache EXCEPT ![c] = new]
        /\ Reply(call, pending[t].answer)
  /\ pending' = [pending EXCEPT ![t] = Nothing]
  /\ UNCHANGED <<cached, fuseable>>

\* A poisoned lock is unwrapped: that of `inner`, or that of the cache, before
\* the call of the Fuseable or after it.
Unwrap(t, call) ==
  /\ Free(t)
  /\ poisoned \cap ({"inner"} \cup IF cached THEN {CacheOf(call.name)} ELSE {}) # {}
  /\ Panic(t, call, {})
  /\ UNCHANGED <<cached, fuseable, cache, pending>>

UnwrapToFill(t) ==
  /\ alive
  /\ pending[t] # Nothing
  /\ CacheOf(pending[t].call.name) \in poisoned
  /\ Panic(t, pending[t].call, {})
  /\ pending' = [pending EXCEPT ![t] = Nothing]
  /\ UNCHANGED <<cached, fuseable, cache>>

\* Mutant of WriteFile: the lock is let go before the cache is filled.
WriteFileBetween(t, path, word) ==
  /\ Free(t)
  /\ "inner" \notin poisoned
  /\ \E r \in FuseableWrite(fuseable, path, word) :
       /\ fuseable' = r.state
       /\ LET call == [name |-> "write", path |-> path]
          IN IF r.answer = Panicked THEN Panic(t, call, {"inner"}) ELSE Reply(call, r.answer)
  /\ UNCHANGED <<cached, cache, pending>>

\* The caches let a write through, once no call holds `inner` any more.
WriteFile(t, path, word) ==
  /\ Free(t)
  /\ \A u \in Threads : pending[u] = Nothing
  /\ "inner" \notin poisoned
  /\ \E r \in FuseableWrite(fuseable, path, word) :
       /\ fuseable' = r.state
       /\ LET call == [name |-> "write", path |-> path]
          IN IF r.answer = Panicked THEN Panic(t, call, {"inner"}) ELSE Reply(call, r.answer)
  /\ UNCHANGED <<cached, cache, pending>>

\* The process is gone, or a thread of the pool finds `inner` poisoned.
WriteSealed(t, path) ==
  /\ Free(t)
  /\ "inner" \in poisoned
  /\ Panic(t, [name |-> "write", path |-> path], {})
  /\ UNCHANGED <<cached, fuseable, cache, pending>>

Gone == ~alive /\ UNCHANGED vars

Next ==
  \/ \E t \in Threads :
       \/ \E call \in Calls(t) : Hit(t, call) \/ Miss(t, call) \/ Unwrap(t, call)
       \/ Fill(t)
       \/ UnwrapToFill(t)
  \/ \E t \in Workers, path \in Paths :
       \/ \E word \in Words : WriteFile(t, path, word)
       \/ WriteSealed(t, path)
  \/ Gone

Spec == Init /\ [][Next]_vars

-----------------------------------------------------------------------------
(* Properties.                                                             *)

KeptIn(c) == {p \in Paths : cache[c][p] # Nothing}

\* A cache holds what it may keep, and no more than its size.
TypeOK ==
  /\ cached \in BOOLEAN
  /\ fuseable \in States
  /\ cache \in [Caches -> [Paths -> {Nothing} \cup Answers]]
  /\ \A c \in Caches : IsFiniteSet(KeptIn(c)) /\ Cardinality(KeptIn(c)) <= CacheSize
  /\ pending \in [Threads -> {Nothing} \cup
                    [call : [name : Inline \cup {"read"}, path : Paths], answer : Answers]]
  /\ poisoned \subseteq Caches \cup {"inner"}
  /\ opened \subseteq Paths
  /\ alive \in BOOLEAN

\* A read gives the text that the file has when it is answered, never one that a
\* write has replaced since: "file contents are not" static.
ContentsAreFresh ==
  last # Nothing /\ last.name = "read" /\ last.out = "ok"
    => last.answer \in Said(fuseable, "lists", last.path)

\* What is said of the kind or the entries of a static path is what the Fuseable
\* would say of it now, wherever the answer is from and whatever was written in
\* between, if the Fuseable does not panic.
TrueWhereStatic ==
  last # Nothing /\ last.name \in Inline /\ last.path \in Static /\ last.answer.is \in Shapes
    => Said(fuseable, CacheOf(last.name), last.path) \subseteq {last.answer, Panicked}

\* What a thread is about to put into a cache it has unlocked in between is still
\* what the Fuseable says: `inner` stays locked, so no write can slip in.
PendingIsCurrent ==
  \A t \in Threads : pending[t] # Nothing =>
    LET call == pending[t].call
    IN Said(fuseable, CacheOf(call.name), call.path) \subseteq {pending[t].answer, Panicked}

\* A device that panics in a read costs the cache of lists, but never the cache
\* that getattr, opendir and open need: the kinds stay there to be asked for.
KindLockHolds == alive => "kinds" \notin poisoned

\* readdir is never asked for the entries of a file, where it is unimplemented!():
\* what was a directory when it was opened, or when its kind was cached, is one.
NoUnimplemented == last # Nothing => last.out # "unimplemented"

\* A listing lacks no entry that the directory has, though it may have some that
\* an edit has removed: "dir entries are always static" is true of all but the
\* directories of keyword maps.
EntriesAreListed ==
  last # Nothing /\ last.name = "readdir" /\ last.out = "ok" =>
    \A now \in Said(fuseable, "lists", last.path) :
      now.is = "left" => now.of \subseteq last.answer.of
===============================================================================
