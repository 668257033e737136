-------------------------- MODULE CachedFuseableProofs --------------------------
(***************************************************************************)
(* The properties of CachedFuseable for every Fuseable that behaves as     *)
(* FuseableBehaves says, any pool, any paths and caches of any size.       *)
(*                                                                         *)
(* The invariant says what is true of an answer that is kept: it stays     *)
(* true whatever state the calls of the Fuseable lead to.                  *)
(***************************************************************************)
EXTENDS CachedFuseable, FiniteSetTheorems, TLAPS

\* What stays true of an answer that cache c keeps of a path.
Holds(s, c, path, a) ==
  /\ a.is \in Shapes
  /\ c = "kinds" /\ a.is = "dir" => NoText(s, path)
  /\ c = "lists" => \A now \in Said(s, c, path) : now.is = "left" => now.of \subseteq a.of
  /\ path \in Static => Said(s, c, path) \subseteq {a, Panicked}

\* The answer in an entry still holds, and so does that in a pending call, which
\* is even what the Fuseable says.
KeptHolds ==
  \A c \in Caches, p \in Paths : cache[c][p] # Nothing => Holds(fuseable, c, p, cache[c][p])

PendingHolds ==
  \A t \in Threads : pending[t] # Nothing =>
    /\ pending[t].answer.is \in Shapes
    /\ CacheOf(pending[t].call.name) = "kinds" /\ pending[t].answer.is = "dir"
         => NoText(fuseable, pending[t].call.path)
    /\ pending[t].call.name = "readdir" => pending[t].call.path \in opened
    /\ pending[t].call.name \in KindCalls => t = Dispatcher

\* No directory that was opened has a text.
OpenedHolds == \A p \in opened : NoText(fuseable, p)

IInv ==
  /\ TypeOK
  /\ KeptHolds
  /\ PendingHolds
  /\ PendingIsCurrent
  /\ OpenedHolds
  /\ KindLockHolds
  /\ ContentsAreFresh
  /\ TrueWhereStatic
  /\ NoUnimplemented
  /\ EntriesAreListed

-----------------------------------------------------------------------------
(* The Fuseable.                                                           *)

\* What the Fuseable says are answers.
LEMMA SaidTyped ==
  ASSUME NEW s \in States, NEW p \in Paths, NEW c \in Caches
  PROVE  Said(s, c, p) \subseteq Answers
<1>1. FuseableIsDir(s, p) \subseteq Results /\ FuseableRead(s, p) \subseteq Results
  BY FuseableTypes
<1> QED BY <1>1 DEF Said, Results

\* Its calls lead to its states.
LEMMA AfterTyped ==
  ASSUME NEW s \in States
  PROVE  After(s) \subseteq States
<1>1. \A p \in Paths : FuseableRead(s, p) \cup UNION {FuseableWrite(s, p, w) : w \in Words} \subseteq Results
  BY FuseableTypes
<1>2. \A r \in Results : r.state \in States
  BY DEF Results
<1> QED BY <1>1, <1>2, Zenon DEF After

\* What holds of a kept answer holds after every call.
LEMMA HoldsAfter ==
  ASSUME NEW s \in States, NEW s2 \in After(s), NEW c \in Caches, NEW p \in Paths,
         NEW a, Holds(s, c, p, a)
  PROVE  Holds(s2, c, p, a)
<1>1. c = "kinds" /\ a.is = "dir" => NoText(s2, p)
  BY FuseableBehaves DEF Holds, Behaves
<1>2. ASSUME c = "lists", NEW now \in Said(s2, c, p), now.is = "left"
      PROVE  now.of \subseteq a.of
  <2>1. PICK old \in Said(s, "lists", p) : old.is = "left" /\ now.of \subseteq old.of
    BY <1>2, FuseableBehaves DEF Behaves
  <2> QED BY <1>2, <2>1 DEF Holds
<1>3. p \in Static => Said(s2, c, p) \subseteq {a, Panicked}
  BY FuseableBehaves DEF Holds, Behaves
<1> QED BY <1>1, <1>2, <1>3 DEF Holds

\* An answer that is what the Fuseable says, but for panics, may be kept.
LEMMA CurrentHolds ==
  ASSUME NEW s \in States, NEW c \in Caches, NEW p \in Paths, NEW a,
         a.is \in Shapes, c = "kinds" /\ a.is = "dir" => NoText(s, p),
         Said(s, c, p) \subseteq {a, Panicked}
  PROVE  Holds(s, c, p, a)
  BY DEF Holds, Panicked

-----------------------------------------------------------------------------
(* The answers.                                                            *)

\* A call as the handlers make it.
Called(call) ==
  call \in [name : Inline \cup {"read", "write"}, path : Paths]

\* What a handler relies on when it replies with an answer in state s.
Good(s, call, a) ==
  /\ call.name \in KindCalls /\ a.is = "dir" => NoText(s, call.path)
  /\ call.name = "readdir" => a.is # "right"
  /\ call.name = "read" /\ a.is = "right" => a \in Said(s, "lists", call.path)
  /\ call.name \in Inline /\ call.path \in Static /\ a.is \in Shapes
       => Said(s, CacheOf(call.name), call.path) \subseteq {a, Panicked}
  /\ call.name = "readdir" /\ a.is = "left"
       => \A now \in Said(s, "lists", call.path) : now.is = "left" => now.of \subseteq a.of

\* The properties of the last answer.
LastHolds == ContentsAreFresh /\ TrueWhereStatic /\ NoUnimplemented /\ EntriesAreListed

LEMMA KeptIsGood ==
  ASSUME NEW s, NEW call, Called(call), NEW a, Holds(s, CacheOf(call.name), call.path, a)
  PROVE  Good(s, call, a)
<1>1. call.name \in KindCalls => CacheOf(call.name) = "kinds"
  BY DEF CacheOf
<1>2. call.name = "readdir" => CacheOf(call.name) = "lists"
  BY DEF CacheOf, KindCalls
<1>3. a.is # "right"
  BY DEF Holds, Shapes
<1> QED BY <1>1, <1>2, <1>3 DEF Holds, Good

LEMMA SaidIsGood ==
  ASSUME NEW s \in States, NEW call, Called(call), call.name # "write",
         NEW a \in Said(s, CacheOf(call.name), call.path),
         call.name = "readdir" => NoText(s, call.path)
  PROVE  Good(s, call, a)
<1>1. call.path \in Paths /\ CacheOf(call.name) \in Caches
  BY DEF Called, CacheOf, Caches
<1>2. call.name \in KindCalls => CacheOf(call.name) = "kinds"
  BY DEF CacheOf
<1>3. call.name \in {"read", "readdir"} => CacheOf(call.name) = "lists"
  BY DEF CacheOf, KindCalls
<1>4. a.is \in Shapes => Said(s, CacheOf(call.name), call.path) = {a}
  BY <1>1, FuseableBehaves DEF Behaves
<1>5. call.name \in KindCalls /\ a.is = "dir" => NoText(s, call.path)
  BY <1>1, <1>2, FuseableBehaves DEF Behaves
<1>6. call.name = "readdir" => a.is # "right"
  BY <1>3 DEF NoText
<1>7. call.name = "readdir" /\ a.is = "left"
        => \A now \in Said(s, "lists", call.path) : now.is = "left" => now.of \subseteq a.of
  BY <1>3, <1>4 DEF Shapes
<1> QED BY <1>3, <1>4, <1>5, <1>6, <1>7 DEF Good

LEMMA WrittenIsGood ==
  ASSUME NEW s, NEW call, call.name = "write", NEW a
  PROVE  Good(s, call, a)
  BY DEF Good, KindCalls, Inline

\* A reply with a good answer is right, and opens a directory only.
LEMMA ReplyHolds ==
  ASSUME NEW call, Called(call), NEW a, Reply(call, a), Good(fuseable', call, a),
         \A p \in opened : NoText(fuseable', p)
  PROVE  LastHolds' /\ OpenedHolds'
<1> DEFINE out == Outcome(call.name, a)
<1>1. last' = [name |-> call.name, path |-> call.path, answer |-> a, out |-> out]
  BY DEF Reply, Report
<1>2. last'.name = call.name /\ last'.path = call.path /\ last'.answer = a /\ last'.out = out
  BY <1>1
<1>3. call.name = "read" /\ out = "ok" => a.is = "right"
  BY DEF Outcome
<1>4. call.name = "readdir" /\ out = "ok" => a.is = "left"
  BY DEF Outcome
<1>5. call.name = "opendir" /\ out = "ok" => a.is = "dir"
  BY DEF Outcome
<1>6. out = "unimplemented" => call.name = "readdir" /\ a.is = "right"
  BY DEF Outcome
<1>7. ContentsAreFresh'
  BY <1>2, <1>3 DEF ContentsAreFresh, Good
<1>8. TrueWhereStatic'
  BY <1>2 DEF TrueWhereStatic, Good
<1>9. NoUnimplemented'
  BY <1>2, <1>6 DEF NoUnimplemented, Good
<1>10. EntriesAreListed'
  BY <1>2, <1>4 DEF EntriesAreListed, Good
<1>11. OpenedHolds'
  <2>1. opened' \subseteq opened \/ (opened' = opened \cup {call.path} /\ call.name = "opendir" /\ out = "ok")
    BY DEF Reply
  <2> QED BY <1>5, <2>1 DEF OpenedHolds, Good, KindCalls
<1> QED BY <1>7, <1>8, <1>9, <1>10, <1>11 DEF LastHolds

\* A panic says nothing, and poisons a lock of kinds only with the process.
LEMMA PanicHolds ==
  ASSUME NEW t, NEW call, NEW locks, Panic(t, call, locks),
         "kinds" \in locks => t = Dispatcher, "kinds" \notin poisoned
  PROVE  LastHolds' /\ KindLockHolds' /\ opened' = opened
<1>1. last' = [name |-> call.name, path |-> call.path, answer |-> Panicked, out |-> "panic"]
  BY DEF Panic, Report
<1>2. last'.answer = Panicked /\ last'.out = "panic"
  BY <1>1
<1>3. Panicked.is \notin Shapes
  BY DEF Panicked, Shapes
<1>4. ContentsAreFresh' /\ NoUnimplemented' /\ EntriesAreListed'
  BY <1>2 DEF ContentsAreFresh, NoUnimplemented, EntriesAreListed
<1>5. TrueWhereStatic'
  BY <1>2, <1>3 DEF TrueWhereStatic
<1>6. KindLockHolds' /\ opened' = opened
  BY DEF KindLockHolds, Panic
<1> QED BY <1>4, <1>5, <1>6 DEF LastHolds

-----------------------------------------------------------------------------
(* What stays.                                                             *)

\* What is kept, pending or opened holds after every call of the Fuseable.
LEMMA Stays ==
  ASSUME TypeOK, fuseable' = fuseable \/ fuseable' \in After(fuseable)
  PROVE  /\ cache' = cache /\ KeptHolds => KeptHolds'
         /\ OpenedHolds => \A p \in opened : NoText(fuseable', p)
         /\ pending' = pending /\ opened \subseteq opened' /\ PendingHolds => PendingHolds'
<1>1. fuseable \in States /\ opened \subseteq Paths
  BY DEF TypeOK
<1>2. \A p \in Paths : NoText(fuseable, p) => NoText(fuseable', p)
  BY <1>1, FuseableBehaves DEF Behaves
<1>3. ASSUME cache' = cache, KeptHolds PROVE KeptHolds'
  BY <1>1, <1>3, HoldsAfter DEF KeptHolds
<1>4. ASSUME OpenedHolds PROVE \A p \in opened : NoText(fuseable', p)
  BY <1>1, <1>2, <1>4 DEF OpenedHolds
<1>5. ASSUME pending' = pending, opened \subseteq opened', PendingHolds PROVE PendingHolds'
  <2>1. \A t \in Threads : pending[t] # Nothing => pending[t].call.path \in Paths
    BY DEF TypeOK
  <2> QED BY <1>2, <1>5, <2>1 DEF PendingHolds
<1> QED BY <1>3, <1>4, <1>5

\* A read changes nothing that is pending, but that it may panic.
LEMMA ReadKeepsPending ==
  ASSUME TypeOK, PendingIsCurrent, pending' = pending, NEW p \in Paths,
         NEW r \in FuseableRead(fuseable, p), fuseable' = r.state
  PROVE  PendingIsCurrent'
<1> SUFFICES ASSUME NEW t \in Threads, pending[t] # Nothing
             PROVE  Said(fuseable', CacheOf(pending[t].call.name), pending[t].call.path)
                      \subseteq {pending[t].answer, Panicked}
  BY DEF PendingIsCurrent
<1>1. fuseable \in States /\ pending[t].call.path \in Paths
  BY DEF TypeOK
<1>2. CacheOf(pending[t].call.name) \in Caches
  BY DEF CacheOf, Caches
<1>3. Said(fuseable', CacheOf(pending[t].call.name), pending[t].call.path)
        \subseteq Said(fuseable, CacheOf(pending[t].call.name), pending[t].call.path)
                    \cup {Panicked}
  BY <1>1, <1>2, FuseableBehaves DEF Behaves
<1> QED BY <1>3 DEF PendingIsCurrent

-----------------------------------------------------------------------------
(* Types.                                                                  *)

Used(entries) == {p \in Paths : entries[p] # Nothing}

\* The entries of a cache: answers, and not too many.
Sized(entries) ==
  /\ entries \in [Paths -> {Nothing} \cup Answers]
  /\ IsFiniteSet(Used(entries)) /\ Cardinality(Used(entries)) <= CacheSize

\* A cache that is filled has one entry more, or another, and is not too large.
LEMMA FilledTyped ==
  ASSUME NEW entries, Sized(entries), NEW path \in Paths, NEW a \in Answers,
         NEW new \in Filled(entries, path, a)
  PROVE  /\ Sized(new)
         /\ new[path] = a
         /\ \A p \in Paths \ {path} : new[p] = entries[p] \/ new[p] = Nothing
<1> DEFINE others == {p \in Paths \ {path} : entries[p] # Nothing}
           kept   == IF Cardinality(others) < CacheSize THEN {others}
                     ELSE {others \ {p} : p \in others}
           With(keep) == [p \in Paths |-> IF p = path THEN a
                                          ELSE IF p \in keep THEN entries[p] ELSE Nothing]
<1>1. PICK keep \in kept : new = With(keep)
  BY DEF Filled
<1>2. keep \subseteq others
  BY <1>1
<1>3. /\ IsFiniteSet(others) /\ Cardinality(others) \in Nat
      /\ Cardinality(others) <= CacheSize
  <2>1. others \subseteq Used(entries) /\ IsFiniteSet(Used(entries))
    BY DEF Used, Sized
  <2>2. IsFiniteSet(others) /\ Cardinality(others) <= Cardinality(Used(entries))
    BY <2>1, FS_Subset
  <2>3. Cardinality(others) \in Nat /\ Cardinality(Used(entries)) \in Nat
    BY <2>1, <2>2, FS_CardinalityType
  <2> QED BY <2>2, <2>3, FuseableTypes DEF Sized
<1>4. IsFiniteSet(keep) /\ Cardinality(keep) \in Nat /\ Cardinality(keep) < CacheSize
  <2>1. CASE Cardinality(others) < CacheSize
    BY <1>1, <1>3, <2>1
  <2>2. CASE ~(Cardinality(others) < CacheSize)
    <3>1. PICK p \in others : keep = others \ {p}
      BY <1>1, <2>2
    <3>2. IsFiniteSet(keep) /\ Cardinality(keep) = Cardinality(others) - 1
      BY <1>3, <3>1, FS_RemoveElement
    <3> QED BY <1>3, <3>2, FS_CardinalityType, FuseableTypes
  <2> QED BY <2>1, <2>2
<1>5. Used(new) = keep \cup {path}
  BY <1>1, <1>2, FuseableTypes DEF Used
<1>6. path \notin keep
  BY <1>2
<1>7. /\ IsFiniteSet(keep \cup {path})
      /\ Cardinality(keep \cup {path}) = Cardinality(keep) + 1
  BY <1>4, <1>6, FS_AddElement
<1>8. Cardinality(keep \cup {path}) <= CacheSize
  BY <1>4, <1>7, FuseableTypes
<1>9. new \in [Paths -> {Nothing} \cup Answers]
  BY <1>1 DEF Sized
<1>10. new[path] = a /\ \A p \in Paths \ {path} : new[p] = entries[p] \/ new[p] = Nothing
  BY <1>1
<1> QED BY <1>5, <1>7, <1>8, <1>9, <1>10 DEF Sized

\* The calls of a thread are made as the handlers make them.
LEMMA CallsAreCalled ==
  ASSUME NEW t \in Threads, NEW call \in Calls(t)
  PROVE  /\ Called(call) /\ call.name # "write" /\ call.name \in Inline \cup {"read"}
         /\ call.name \in KindCalls => t = Dispatcher
         /\ call.name = "readdir" => call.path \in opened
         /\ call = [name |-> call.name, path |-> call.path]
  BY DEF Calls, Called, Inline, KindCalls

\* Replying and panicking keep the types of what they change.
LEMMA AnsweredTyped ==
  ASSUME TypeOK, NEW call, Called(call),
         \/ \E a : Reply(call, a)
         \/ \E t, locks : locks \subseteq Caches \cup {"inner"} /\ Panic(t, call, locks)
  PROVE  poisoned' \subseteq Caches \cup {"inner"} /\ opened' \subseteq Paths /\ alive' \in BOOLEAN
<1>1. call.path \in Paths
  BY DEF Called
<1>2. ASSUME NEW a, Reply(call, a)
      PROVE  poisoned' \subseteq Caches \cup {"inner"} /\ opened' \subseteq Paths /\ alive' \in BOOLEAN
  <2>1. opened' = opened \/ opened' = opened \cup {call.path}
    BY <1>2 DEF Reply
  <2>2. poisoned' = poisoned /\ alive' \in BOOLEAN
    BY <1>2 DEF Reply
  <2> QED BY <1>1, <2>1, <2>2 DEF TypeOK
<1>3. ASSUME NEW t, NEW locks, locks \subseteq Caches \cup {"inner"}, Panic(t, call, locks)
      PROVE  poisoned' \subseteq Caches \cup {"inner"} /\ opened' \subseteq Paths /\ alive' \in BOOLEAN
  <2>1. opened' = opened /\ poisoned' = poisoned \cup locks
    BY <1>3 DEF Panic
  <2>2. alive' \in BOOLEAN
    BY <1>3 DEF Panic
  <2> QED BY <1>3, <2>1, <2>2 DEF TypeOK
<1> QED BY <1>2, <1>3

-----------------------------------------------------------------------------
(* The steps.                                                              *)

\* The conjuncts that a step which only answers leaves to the lemmas above.
LEMMA AnswerStep ==
  ASSUME IInv, LastHolds', OpenedHolds', KindLockHolds',
         poisoned' \subseteq Caches \cup {"inner"}, opened' \subseteq Paths, alive' \in BOOLEAN,
         UNCHANGED <<cached, cache, pending>>, opened \subseteq opened',
         fuseable' = fuseable \/ fuseable' \in After(fuseable), PendingIsCurrent'
  PROVE  IInv'
<1>1. fuseable' \in States
  BY AfterTyped DEF IInv, TypeOK
<1>2. TypeOK'
  BY <1>1 DEF IInv, TypeOK, KeptIn
<1>3. KeptHolds' /\ PendingHolds'
  BY Stays DEF IInv
<1> QED BY <1>2, <1>3 DEF IInv, LastHolds

LEMMA HitStep ==
  ASSUME IInv, NEW t \in Threads, NEW call \in Calls(t), Hit(t, call)
  PROVE  IInv'
<1>1. Called(call)
  BY CallsAreCalled
<1>2. Reply(call, Kept(call)) /\ UNCHANGED <<cached, fuseable, cache, pending>>
  BY DEF Hit
<1>3. Good(fuseable', call, Kept(call))
  <2>1. call.path \in Paths /\ CacheOf(call.name) \in Caches
    BY <1>1 DEF Called, CacheOf, Caches
  <2>2. Holds(fuseable, CacheOf(call.name), call.path, Kept(call))
    BY <2>1 DEF IInv, KeptHolds, Hit, Kept, HashedPath
  <2> QED BY <1>1, <1>2, <2>2, KeptIsGood
<1>4. LastHolds' /\ OpenedHolds'
  BY <1>1, <1>2, <1>3, ReplyHolds DEF IInv, OpenedHolds
<1>5. poisoned' \subseteq Caches \cup {"inner"} /\ opened' \subseteq Paths /\ alive' \in BOOLEAN
  BY <1>1, <1>2, AnsweredTyped DEF IInv
<1>6. KindLockHolds' /\ opened \subseteq opened'
  BY <1>2 DEF IInv, KindLockHolds, Reply, Hit, Free
<1>7. PendingIsCurrent'
  BY <1>2 DEF IInv, PendingIsCurrent
<1> QED BY <1>2, <1>4, <1>5, <1>6, <1>7, AnswerStep

LEMMA MissStep ==
  ASSUME IInv, NEW t \in Threads, NEW call \in Calls(t), Miss(t, call)
  PROVE  IInv'
<1> DEFINE c == CacheOf(call.name)
<1>1. /\ Called(call) /\ call.name # "write" /\ c \in Caches /\ call.path \in Paths
      /\ call.name \in KindCalls => t = Dispatcher
      /\ call.name = "readdir" => call.path \in opened
  BY CallsAreCalled DEF Called, CacheOf, Caches
<1>2. PICK r \in ResultsOf(c, call.path) :
        /\ fuseable' = r.state
        /\ \/ /\ r.answer = Panicked
              /\ Panic(t, call, IF cached THEN {c} ELSE {})
              /\ UNCHANGED pending
           \/ /\ r.answer # Panicked
              /\ cached /\ Keepable(r.answer)
              /\ pending' = [pending EXCEPT ![t] = [call |-> call, answer |-> r.answer]]
              /\ UNCHANGED <<poisoned, opened, last, alive>>
           \/ /\ r.answer # Panicked
              /\ ~(cached /\ Keepable(r.answer))
              /\ Reply(call, r.answer)
              /\ UNCHANGED pending
  BY Zenon DEF Miss
<1>3. UNCHANGED <<cached, cache>> /\ alive
  BY DEF Miss, Free
<1>4. fuseable \in States /\ "kinds" \notin poisoned
  BY <1>3 DEF IInv, TypeOK, KindLockHolds
<1>5. r \in (IF c = "kinds" THEN FuseableIsDir(fuseable, call.path) ELSE FuseableRead(fuseable, call.path))
  BY DEF ResultsOf
<1>6. r.answer \in Said(fuseable, c, call.path) /\ r.answer \in Answers
  BY <1>1, <1>4, <1>5, SaidTyped DEF Said
<1>7. fuseable' = fuseable \/ (r \in FuseableRead(fuseable, call.path) /\ r.answer = Panicked)
  BY <1>1, <1>2, <1>4, <1>5, FuseableBehaves DEF Behaves
<1>8. fuseable' = fuseable \/ fuseable' \in After(fuseable)
  BY <1>1, <1>2, <1>7 DEF After
<1>9. CASE r.answer = Panicked
  <2>1. Panic(t, call, IF cached THEN {c} ELSE {}) /\ UNCHANGED pending
    BY <1>2, <1>9
  <2>2. c = "kinds" => t = Dispatcher
    BY <1>1 DEF CacheOf
  <2>3. "kinds" \in (IF cached THEN {c} ELSE {}) => t = Dispatcher
    BY <2>2
  <2>4. LastHolds' /\ KindLockHolds' /\ opened' = opened
    BY <1>4, <2>1, <2>3, PanicHolds
  <2>5. (IF cached THEN {c} ELSE {}) \subseteq Caches \cup {"inner"}
    BY <1>1
  <2>6. poisoned' \subseteq Caches \cup {"inner"} /\ opened' \subseteq Paths /\ alive' \in BOOLEAN
    BY <1>1, <2>1, <2>5, AnsweredTyped DEF IInv
  <2>7. OpenedHolds'
    BY <1>8, <2>4, Stays DEF IInv, OpenedHolds
  <2>8. PendingIsCurrent'
    <3>1. CASE fuseable' = fuseable
      BY <2>1, <3>1 DEF IInv, PendingIsCurrent
    <3>2. CASE r \in FuseableRead(fuseable, call.path)
      BY <1>1, <1>2, <2>1, <3>2, ReadKeepsPending DEF IInv
    <3> QED BY <1>7, <3>1, <3>2
  <2> QED BY <1>3, <1>8, <2>1, <2>4, <2>6, <2>7, <2>8, AnswerStep
<1>10. CASE r.answer # Panicked /\ cached /\ Keepable(r.answer)
  <2>1. /\ pending' = [pending EXCEPT ![t] = [call |-> call, answer |-> r.answer]]
        /\ UNCHANGED <<cached, fuseable, cache, poisoned, opened, last, alive>>
    BY <1>2, <1>3, <1>7, <1>10
  <2>2. r.answer.is \in Shapes
    BY <1>10 DEF Keepable
  <2>3. Said(fuseable, c, call.path) = {r.answer}
    BY <1>1, <1>4, <1>6, <2>2, FuseableBehaves DEF Behaves
  <2>4. c = "kinds" /\ r.answer.is = "dir" => NoText(fuseable, call.path)
    BY <1>1, <1>4, <1>6, FuseableBehaves DEF Behaves
  <2>5. [call |-> call, answer |-> r.answer] \in
          [call : [name : Inline \cup {"read"}, path : Paths], answer : Answers]
    BY <1>6, CallsAreCalled DEF Calls, Inline
  <2>6. TypeOK'
    BY <2>1, <2>5 DEF IInv, TypeOK, KeptIn
  <2>7. pending'[t].call = call /\ pending'[t].answer = r.answer
        /\ \A u \in Threads \ {t} : pending'[u] = pending[u]
    BY <2>1 DEF IInv, TypeOK
  <2>8. PendingHolds'
    BY <1>1, <2>1, <2>2, <2>4, <2>7 DEF IInv, PendingHolds
  <2>9. PendingIsCurrent'
    BY <2>1, <2>3, <2>7 DEF IInv, PendingIsCurrent
  <2>10. KeptHolds' /\ OpenedHolds' /\ KindLockHolds' /\ LastHolds'
    BY <2>1 DEF IInv, KeptHolds, OpenedHolds, KindLockHolds, LastHolds, ContentsAreFresh,
                TrueWhereStatic, NoUnimplemented, EntriesAreListed
  <2> QED BY <2>6, <2>8, <2>9, <2>10 DEF IInv, LastHolds
<1>11. CASE r.answer # Panicked /\ ~(cached /\ Keepable(r.answer))
  <2>1. Reply(call, r.answer) /\ UNCHANGED <<cached, fuseable, cache, pending>>
    BY <1>2, <1>3, <1>7, <1>11
  <2>2. call.name = "readdir" => NoText(fuseable, call.path)
    BY <1>1 DEF IInv, OpenedHolds
  <2>3. Good(fuseable', call, r.answer)
    BY <1>1, <1>4, <1>6, <2>1, <2>2, SaidIsGood
  <2>4. LastHolds' /\ OpenedHolds'
    BY <1>1, <2>1, <2>3, ReplyHolds DEF IInv, OpenedHolds
  <2>5. poisoned' \subseteq Caches \cup {"inner"} /\ opened' \subseteq Paths /\ alive' \in BOOLEAN
    BY <1>1, <2>1, AnsweredTyped DEF IInv
  <2>6. KindLockHolds' /\ opened \subseteq opened'
    BY <1>4, <2>1 DEF KindLockHolds, Reply
  <2>7. PendingIsCurrent'
    BY <2>1 DEF IInv, PendingIsCurrent
  <2> QED BY <2>1, <2>4, <2>5, <2>6, <2>7, AnswerStep
<1> QED BY <1>9, <1>10, <1>11

LEMMA FillStep ==
  ASSUME IInv, NEW t \in Threads, Fill(t)
  PROVE  IInv'
<1> DEFINE call == pending[t].call
           a    == pending[t].answer
           c    == CacheOf(call.name)
<1>1. /\ pending[t] # Nothing
      /\ pending[t] \in [call : [name : Inline \cup {"read"}, path : Paths], answer : Answers]
  BY DEF Fill, IInv, TypeOK
<1>2. /\ Called(call) /\ c \in Caches /\ call.path \in Paths /\ a \in Answers
      /\ fuseable \in States
  BY <1>1 DEF Called, CacheOf, Caches, IInv, TypeOK
<1>3. PICK new \in Filled(cache[c], call.path, a) : cache' = [cache EXCEPT ![c] = new]
  BY DEF Fill, HashedPath
<1>4. /\ Reply(call, a) /\ pending' = [pending EXCEPT ![t] = Nothing]
      /\ UNCHANGED <<cached, fuseable>> /\ alive
  BY DEF Fill
<1>5. Holds(fuseable, c, call.path, a)
  <2>1. a.is \in Shapes /\ (c = "kinds" /\ a.is = "dir" => NoText(fuseable, call.path))
    BY <1>1 DEF IInv, PendingHolds
  <2>2. Said(fuseable, c, call.path) \subseteq {a, Panicked}
    BY <1>1 DEF IInv, PendingIsCurrent
  <2> QED BY <1>2, <2>1, <2>2, CurrentHolds
<1>6. Good(fuseable', call, a)
  BY <1>2, <1>4, <1>5, KeptIsGood
<1>7. LastHolds' /\ OpenedHolds'
  BY <1>2, <1>4, <1>6, ReplyHolds DEF IInv, OpenedHolds
<1>8. /\ Sized(new) /\ new[call.path] = a
      /\ \A p \in Paths \ {call.path} : new[p] = cache[c][p] \/ new[p] = Nothing
  <2>1. Sized(cache[c])
    BY <1>2 DEF IInv, TypeOK, KeptIn, Sized, Used
  <2> QED BY <1>2, <1>3, <2>1, FilledTyped
<1>9. cache'[c] = new /\ \A k \in Caches \ {c} : cache'[k] = cache[k]
  BY <1>2, <1>3 DEF IInv, TypeOK
<1>10. TypeOK'
  <2>1. poisoned' \subseteq Caches \cup {"inner"} /\ opened' \subseteq Paths /\ alive' \in BOOLEAN
    BY <1>2, <1>4, AnsweredTyped DEF IInv
  <2>2. cache' \in [Caches -> [Paths -> {Nothing} \cup Answers]]
    BY <1>3, <1>8 DEF IInv, TypeOK, Sized
  <2>3. ASSUME NEW k \in Caches
        PROVE  IsFiniteSet(KeptIn(k)') /\ Cardinality(KeptIn(k)') <= CacheSize
    <3>1. CASE k = c
      BY <1>8, <1>9, <3>1 DEF KeptIn, Sized, Used
    <3>2. CASE k # c
      <4>1. KeptIn(k)' = KeptIn(k)
        BY <1>9, <2>3, <3>2 DEF KeptIn
      <4> QED BY <2>3, <4>1 DEF IInv, TypeOK
    <3> QED BY <3>1, <3>2
  <2>4. pending' \in [Threads -> {Nothing} \cup
                        [call : [name : Inline \cup {"read"}, path : Paths], answer : Answers]]
    BY <1>4 DEF IInv, TypeOK
  <2> QED BY <1>4, <2>1, <2>2, <2>3, <2>4 DEF IInv, TypeOK
<1>11. KeptHolds'
  <2> SUFFICES ASSUME NEW k \in Caches, NEW p \in Paths, cache'[k][p] # Nothing
               PROVE  Holds(fuseable', k, p, cache'[k][p])
    BY DEF KeptHolds
  <2>1. CASE k = c /\ p = call.path
    BY <1>4, <1>5, <1>8, <1>9, <2>1
  <2>2. CASE ~(k = c /\ p = call.path)
    <3>1. cache'[k][p] = cache[k][p]
      BY <1>8, <1>9, <2>2
    <3> QED BY <1>4, <3>1 DEF IInv, KeptHolds
  <2> QED BY <2>1, <2>2
<1>12. \A u \in Threads : pending'[u] = Nothing \/ pending'[u] = pending[u]
  BY <1>4 DEF IInv, TypeOK
<1>13. opened \subseteq opened'
  BY <1>4 DEF Reply
<1>14. PendingHolds' /\ PendingIsCurrent'
  BY <1>4, <1>12, <1>13 DEF IInv, PendingHolds, PendingIsCurrent
<1>15. KindLockHolds'
  BY <1>4 DEF IInv, KindLockHolds, Reply
<1> QED BY <1>7, <1>10, <1>11, <1>14, <1>15 DEF IInv, LastHolds

LEMMA UnwrapStep ==
  ASSUME IInv, NEW t \in Threads, NEW call \in Calls(t), Unwrap(t, call)
  PROVE  IInv'
<1>1. Panic(t, call, {}) /\ UNCHANGED <<cached, fuseable, cache, pending>> /\ alive
  BY DEF Unwrap, Free
<1>2. LastHolds' /\ KindLockHolds' /\ opened' = opened
  BY <1>1, PanicHolds DEF IInv, KindLockHolds
<1>3. poisoned' \subseteq Caches \cup {"inner"} /\ opened' \subseteq Paths /\ alive' \in BOOLEAN
  BY <1>1, AnsweredTyped, CallsAreCalled DEF IInv
<1>4. OpenedHolds' /\ PendingIsCurrent'
  BY <1>1, <1>2 DEF IInv, OpenedHolds, PendingIsCurrent
<1> QED BY <1>1, <1>2, <1>3, <1>4, AnswerStep

LEMMA UnwrapToFillStep ==
  ASSUME IInv, NEW t \in Threads, UnwrapToFill(t)
  PROVE  IInv'
<1> DEFINE call == pending[t].call
<1>1. /\ Panic(t, call, {}) /\ UNCHANGED <<cached, fuseable, cache>> /\ alive
      /\ pending' = [pending EXCEPT ![t] = Nothing]
  BY DEF UnwrapToFill
<1>2. LastHolds' /\ KindLockHolds' /\ opened' = opened
  BY <1>1, PanicHolds DEF IInv, KindLockHolds
<1>3. Called(call)
  BY DEF UnwrapToFill, IInv, TypeOK, Called
<1>4. poisoned' \subseteq Caches \cup {"inner"} /\ opened' \subseteq Paths /\ alive' \in BOOLEAN
  BY <1>1, <1>3, AnsweredTyped DEF IInv
<1>5. TypeOK'
  BY <1>1, <1>4 DEF IInv, TypeOK, KeptIn
<1>6. \A u \in Threads : pending'[u] = Nothing \/ pending'[u] = pending[u]
  BY <1>1 DEF IInv, TypeOK
<1>7. PendingHolds' /\ PendingIsCurrent'
  BY <1>1, <1>2, <1>6 DEF IInv, PendingHolds, PendingIsCurrent
<1>8. KeptHolds' /\ OpenedHolds'
  BY <1>1, <1>2 DEF IInv, KeptHolds, OpenedHolds
<1> QED BY <1>2, <1>5, <1>7, <1>8 DEF IInv, LastHolds

LEMMA WriteStep ==
  ASSUME IInv, NEW t \in Workers, NEW path \in Paths, NEW word \in Words,
         WriteFile(t, path, word)
  PROVE  IInv'
<1> DEFINE call == [name |-> "write", path |-> path]
<1>1. PICK r \in FuseableWrite(fuseable, path, word) :
        /\ fuseable' = r.state
        /\ IF r.answer = Panicked THEN Panic(t, call, {"inner"}) ELSE Reply(call, r.answer)
  BY DEF WriteFile
<1>2. /\ UNCHANGED <<cached, cache, pending>> /\ alive
      /\ \A u \in Threads : pending[u] = Nothing
  BY DEF WriteFile, Free
<1>3. fuseable' \in After(fuseable)
  BY <1>1 DEF After
<1>4. Called(call) /\ call.name = "write"
  BY DEF Called
<1>5. PendingIsCurrent'
  BY <1>2 DEF PendingIsCurrent
<1>6. \A p \in opened : NoText(fuseable', p)
  BY <1>3, Stays DEF IInv
<1>7. LastHolds' /\ OpenedHolds' /\ KindLockHolds' /\ opened \subseteq opened'
  <2>1. CASE r.answer = Panicked
    <3>1. Panic(t, call, {"inner"})
      BY <1>1, <2>1
    <3>2. LastHolds' /\ KindLockHolds' /\ opened' = opened
      BY <1>2, <3>1, PanicHolds DEF IInv, KindLockHolds
    <3> QED BY <1>6, <3>2 DEF OpenedHolds
  <2>2. CASE r.answer # Panicked
    <3>1. Reply(call, r.answer)
      BY <1>1, <2>2
    <3>2. Good(fuseable', call, r.answer)
      BY <1>4, WrittenIsGood
    <3>3. LastHolds' /\ OpenedHolds'
      BY <1>4, <1>6, <3>1, <3>2, ReplyHolds
    <3> QED BY <1>2, <3>1, <3>3 DEF IInv, KindLockHolds, Reply
  <2> QED BY <2>1, <2>2
<1>8. poisoned' \subseteq Caches \cup {"inner"} /\ opened' \subseteq Paths /\ alive' \in BOOLEAN
  BY <1>1, <1>4, AnsweredTyped DEF IInv
<1> QED BY <1>2, <1>3, <1>5, <1>7, <1>8, AnswerStep

LEMMA SealedStep ==
  ASSUME IInv, NEW t \in Workers, NEW path \in Paths, WriteSealed(t, path)
  PROVE  IInv'
<1> DEFINE call == [name |-> "write", path |-> path]
<1>1. Panic(t, call, {}) /\ UNCHANGED <<cached, fuseable, cache, pending>> /\ alive
  BY DEF WriteSealed, Free
<1>2. Called(call)
  BY DEF Called
<1>3. LastHolds' /\ KindLockHolds' /\ opened' = opened
  BY <1>1, PanicHolds DEF IInv, KindLockHolds
<1>4. poisoned' \subseteq Caches \cup {"inner"} /\ opened' \subseteq Paths /\ alive' \in BOOLEAN
  BY <1>1, <1>2, AnsweredTyped DEF IInv
<1>5. OpenedHolds' /\ PendingIsCurrent'
  BY <1>1, <1>3 DEF IInv, OpenedHolds, PendingIsCurrent
<1> QED BY <1>1, <1>3, <1>4, <1>5, AnswerStep

-----------------------------------------------------------------------------
(* The theorems.                                                           *)

LEMMA InitHolds == Init => IInv
<1> SUFFICES ASSUME Init PROVE IInv
  OBVIOUS
<1>1. \A c \in Caches : KeptIn(c) = {}
  BY DEF Init, KeptIn
<1>2. IsFiniteSet({}) /\ Cardinality({}) = 0
  BY FS_EmptySet
<1>3. \A c \in Caches : IsFiniteSet(KeptIn(c)) /\ Cardinality(KeptIn(c)) <= CacheSize
  BY <1>1, <1>2, FuseableTypes
<1>4. cached \in BOOLEAN /\ fuseable \in States /\ alive \in BOOLEAN
  BY FuseableTypes DEF Init
<1>5. TypeOK
  BY <1>3, <1>4 DEF Init, TypeOK
<1>6. KeptHolds /\ PendingHolds /\ PendingIsCurrent /\ OpenedHolds /\ KindLockHolds
  BY DEF Init, KeptHolds, PendingHolds, PendingIsCurrent, OpenedHolds, KindLockHolds
<1>7. ContentsAreFresh /\ TrueWhereStatic /\ NoUnimplemented /\ EntriesAreListed
  BY DEF Init, ContentsAreFresh, TrueWhereStatic, NoUnimplemented, EntriesAreListed
<1> QED BY <1>5, <1>6, <1>7 DEF IInv

LEMMA StutterHolds == IInv /\ UNCHANGED vars => IInv'
<1> SUFFICES ASSUME IInv, UNCHANGED vars PROVE IInv'
  OBVIOUS
<1>1. TypeOK'
  BY DEF vars, IInv, TypeOK, KeptIn
<1>2. KeptHolds' /\ PendingHolds' /\ PendingIsCurrent' /\ OpenedHolds' /\ KindLockHolds'
  BY DEF vars, IInv, KeptHolds, PendingHolds, PendingIsCurrent, OpenedHolds, KindLockHolds
<1>3. ContentsAreFresh' /\ TrueWhereStatic' /\ NoUnimplemented' /\ EntriesAreListed'
  BY DEF vars, IInv, ContentsAreFresh, TrueWhereStatic, NoUnimplemented, EntriesAreListed
<1> QED BY <1>1, <1>2, <1>3 DEF IInv

\* The invariant is inductive: an answer that is kept stays true of every state
\* that the calls of the Fuseable lead to.
THEOREM Invariance == Spec => []IInv
<1>1. ASSUME IInv, [Next]_vars PROVE IInv'
  <2>1. CASE UNCHANGED vars
    BY <1>1, <2>1, StutterHolds
  <2>2. ASSUME NEW t \in Threads, NEW call \in Calls(t),
               Hit(t, call) \/ Miss(t, call) \/ Unwrap(t, call)
        PROVE  IInv'
    BY <1>1, <2>2, HitStep, MissStep, UnwrapStep
  <2>3. ASSUME NEW t \in Threads, Fill(t) \/ UnwrapToFill(t) PROVE IInv'
    BY <1>1, <2>3, FillStep, UnwrapToFillStep
  <2>4. ASSUME NEW t \in Workers, NEW path \in Paths,
               (\E word \in Words : WriteFile(t, path, word)) \/ WriteSealed(t, path)
        PROVE  IInv'
    BY <1>1, <2>4, WriteStep, SealedStep
  <2>5. CASE Gone
    BY <1>1, <2>5, StutterHolds DEF Gone
  <2> QED BY <1>1, <2>1, <2>2, <2>3, <2>4, <2>5 DEF Next
<1> QED BY <1>1, InitHolds, PTL DEF Spec

\* A cache keeps only answers, and no more of them than its size.
THEOREM TypeCorrect == Spec => []TypeOK
<1>1. IInv => TypeOK
  BY DEF IInv
<1> QED BY <1>1, Invariance, PTL

\* A read never gives a text that a write has replaced.
THEOREM FreshContents == Spec => []ContentsAreFresh
<1>1. IInv => ContentsAreFresh
  BY DEF IInv
<1> QED BY <1>1, Invariance, PTL

\* Of a path that no write changes the caches say what the Fuseable says.
THEOREM StaticTruth == Spec => []TrueWhereStatic
<1>1. IInv => TrueWhereStatic
  BY DEF IInv
<1> QED BY <1>1, Invariance, PTL

\* No write slips in between an answer and its way into a cache.
THEOREM CurrentPending == Spec => []PendingIsCurrent
<1>1. IInv => PendingIsCurrent
  BY DEF IInv
<1> QED BY <1>1, Invariance, PTL

\* The lock of the cache of kinds is never poisoned in a process that goes on.
THEOREM KindsToAsk == Spec => []KindLockHolds
<1>1. IInv => KindLockHolds
  BY DEF IInv
<1> QED BY <1>1, Invariance, PTL

\* readdir never meets a file.
THEOREM Implemented == Spec => []NoUnimplemented
<1>1. IInv => NoUnimplemented
  BY DEF IInv
<1> QED BY <1>1, Invariance, PTL

\* No entry that a directory has is missing from its listing.
THEOREM CompleteListings == Spec => []EntriesAreListed
<1>1. IInv => EntriesAreListed
  BY DEF IInv
<1> QED BY <1>1, Invariance, PTL
================================================================================
