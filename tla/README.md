# A verification of axiom-micro-ctrl

`ctrl` is the daemon that shows the registers of a camera sensor as files. It
mounts a FUSE file system in which `registers/<set>/map/<register>/value` and
`registers/<set>/functions/<function>/value` read and write the sensor over I2C
or a memory mapped GPIO block, and `scripts/reset/value` runs a reset sequence.
This directory models it in TLA+, checks the models with TLC and proves the
main results about the request server, the tree of files, the cache, the
slices, the channels, the registers and the value maps with TLAPS.

## The system

| part | code | state | operations |
| --- | --- | --- | --- |
| request server | `fuseable/src/lib.rs` (`FuseableWrapper`), `src/main.rs`, fuse_mt | the queue and the threads of fuse_mt, the `RwLock` `inner` | getattr, opendir, open, readdir (on the thread that mounted), read, write (in the pool) |
| file tree | `sensor.rs` (`Camera`, `RegisterSetting`), `fuseable/src/lib.rs`, `fuseable_derive` | one `Mutex` per register set, the entries of value maps | is_dir, read, write along a path |
| scripts | `sensor.rs` (`Reset`) | none; locks two register sets | write |
| registers, functions | `sensor.rs` (`Register`, `Function`) | none | read_value, write_value, which turn text into bytes and back |
| value maps | `valuemap.rs`, `BiMap` and `HashMap` in `fuseable` | the map, editable | lookup, encode, write of an entry |
| channels | `communication_channel/mod.rs` | the mock flag, the cached device in a `RwLock` | read_value, write_value |
| addresses, slices | `address.rs`, `bit_slice.rs` | none | parse, bytes, slice, slice_write |
| numbers | `parse_num` | none | parse_num, parse_num_mask and the padded forms |
| cache | `CachedFuseable` in `fuseable` (commented out in `main.rs`) | two LRU caches, each behind an `RwLock` | is_dir, read, write |
| configuration | `Deserialize` of `sensor.rs`, `serde_util.rs`, `valuemap.rs` | built once | load |

A request enters through the wrapper, which takes `inner` shared (lookup, read)
or exclusively (write), goes down the tree, locks the mutex of the register set
on its path, and ends in a value file: text becomes bytes (`parse_num`, value
map), the bytes meet the mask and go to the channel, which merges them with what
is in the device if the address is a slice of bits, and transfers them with the
lock of the device held. What is hard here:

- two threads, three levels of locks, operations made of several device
  accesses, and a reset that locks two register sets;
- panics: a pool thread unwinds and poisons the locks it holds exclusively, the
  main thread ends the process, the release build aborts in any case;
- device failures at every access, the partial writes they leave, and the
  device that stays cached after them;
- bits: ranges that cross bytes, masks, padding, byte order;
- maps that are edited while they are used, and answers about the tree that the
  cache, or the kernel, believes after such an edit;
- three calls (is_dir, read, write) written or generated separately for every
  type, which have to agree on what a path is.

What makes each part correct is stated by its properties below; the hazards,
each at its line, are listed in `PROJECT.json`.

## The modules

| module | models | state |
| --- | --- | --- |
| `FuseServer` | the threads, queue, locks, poisoning and device accesses of every request | `op`, `status`, `reply`, `queue`; per thread `job`, `pc`, `held`, `done`; the locks `readers`, `writer`, `sealed`, `mutex`, `poisoned`; the devices `opened`, `devPoisoned`, `trace` |
| `AtomicCamera` | what the daemon promises: a write happens at one instant | `op`, `reply`, `trace`, `alive` |
| `FuseServerAtomic` | the refinement of `AtomicCamera` by `FuseServer` | |
| `FuseServerInv`, `FuseServerProofs` | the inductive invariant, the theorems and the proof of the refinement | |
| `FuseTree` | is_dir, read and write on a path, for every type a camera is made of, as operators | |
| `CameraFiles` | clients that read and write those files | `camera`, `last` |
| `CameraFilesProofs` | the theorems about it | |
| `FuseableTrait` | the trait `Fuseable` over any implementation, and what the caches rely on (`Behaves`) | |
| `CachedFuseable` | the handlers over any `Fuseable`, with the cache between the two or without | `cached`, `fuseable`, `cache`, `pending`, `poisoned`, `opened`, `last`, `alive` |
| `CachedFuseableProofs` | the theorems about it | |
| `BitSlice`, `BitSliceCalls` | `bit_slice.rs` as operators, and a caller | the vector |
| `BitSliceProofs`, `BitSliceCallsProofs` | what the two functions compute, and the theorems about the caller | |
| `CommChannel` | a channel, real or mocked, of either type, with failures | `kind`, `mock`, `mem`, `opened` |
| `RegisterSet` | the value files of registers and of functions without a map, on top of `CommChannel` | that of `CommChannel` |
| `RegisterSetProofs` | the theorems about `CommChannel` and `RegisterSet`, on top of `BitSliceProofs` | |
| `ValueMap` | the value file of a function with a map, and the edits of the map | `shape`, `map`, `field` |
| `ValueMapProofs` | the theorems about it | |
| `ParseNum` | the parsers of numbers as operators from texts to bytes | |
| `AddressParse` | the loading of registers and functions: their addresses and the keys of their maps | `status`, `regs`, `funs` |
| `AddressParseProofs` | the theorems about it and about `ParseNum` | |

`MC*` modules give the constants values for TLC. The modules form two layers.
`FuseServer` and `CachedFuseable` are the concurrent ones. `FuseServer` abstracts
what an access transfers and keeps which request made it, in the variable
`trace`; `CachedFuseable` abstracts the accesses and keeps what is answered, and
`MCCachedFuseable` composes it with `FuseTree`. The others are sequential: they
say what one call on a channel, file or map does. The layers meet in
`Serial` and `ImplementsAtomicCamera`: since the accesses of a request are never
interleaved with those of another writing request, a call is one step of
`CommChannel`, `RegisterSet` and `ValueMap`.

### FuseServer and the code

`DispatchInline` and `DispatchToPool` are fuse_mt's handling of a request,
`TakeJob` a pool thread. `EnterShared`, `EnterExclusive` and `EnterSealed` are
`self.inner.read().unwrap()` and `self.inner.write().unwrap()`. `LockChannel`
and `LockPoisoned` are `self.lock().unwrap()` on a register set, in the order of
the operation's `locks` (for `Reset`: sensor, then sensor_io). `AccessOk`,
`OpenFails`, `TransferFails` and `TransferPanics` are one call of `with_dev`
(its unwrap of a poisoned device lock has no action, it is proved unreachable);
`Refuse`, `HandlerPanics` and `Finish` are the ways a handler ends without one. What a request does is data: `plan` is the list of its device
accesses, computed by `ChannelWrite`, `ValueWrite` and `ResetPlan` from the
calls in the code. In mock mode it is empty; the reset then still locks both register
sets.

Two steps of the code are joined. A device access is one step, because `with_dev`
holds the device's lock, and every path to it holds the register set's mutex.
The answer and the release of the locks are one step; in `read` the reply is sent
inside the `match` whose scrutinee holds the guard, so the guard is released
just after it, which no other thread can tell from together with it.

A getattr with a file handle and truncate are answered without any lock and are
left out.

### The tree, the cache and the code

In `FuseTree` a tree is a function from paths to nodes, and a node has the type
whose implementation of `Fuseable` answers there. `Struct` is what `impl_struct`
of `fuseable_derive` generates (and what a map from strings does), `Variant` what
`impl_enum_variant` does; `FieldRights` is the reading of the attributes `ro`,
`wo`, `rw` and `skip` by `parse_field`; `Vector`, `Keywords`, `Numeric`, `None`,
`String` and `Scalar` are the implementations for vectors, the two kinds of maps,
options and `ToString` types. `Register`, `Function`, `RegisterSetting` and
`Camera` put the camera together with the attributes its types have, and `Value`
adds the file `value` that the hand-written implementations in `sensor.rs` answer
for. `Option` with a value, `Box`, `Arc` and `Mutex` hand calls on and have no
node; the mutex of a register set is the state `lost`.

`Found` is the descent along a path: the matches on `path.next()` of each type,
with the spellings of a key or an index in `Keys` and `Indices` (what `from_str`
and `to_string` make of them) and the types that ignore what is left of the path
(`Swallows`). `IsDir`, `Read` and `Write` return the set of the results a call
can have, each an answer and the camera after it: a device may answer, fail, or
panic, which loses the mutex of its set. `Edited` includes the removal of the
entry whose word is given to another one (`BiMap`). `CameraFiles` makes such
calls one after the other until a write panics, since that poisons `inner`.

`CachedFuseable` has `Fuseable` as a parameter, with `FuseableIsDir`,
`FuseableRead`, `FuseableWrite` for its calls. `Hit` is a lookup that finds an
answer, `Miss` one that calls the Fuseable with the write lock of the cache held
(the guard is a temporary of the `match`), `Fill` the second critical section
that puts the answer in; `Unwrap` and `UnwrapToFill` meet a poisoned lock.
`Outcome` is what each handler of `FuseableWrapper` makes of an answer. The
variable `cached` is the wiring: `main.rs` runs without the cache and has the
other one in comments; both are checked. Which entry a full cache drops is left
open, and distinct paths are taken to have distinct hashes (a collision of the
64 bit hashes would give one path the answer of another).

### The sequential modules and the code

`CommChannel` gives the code's functions as operators that return the set of the
outcomes a call can have (`ok`, `err`, `panic`, the value, the device, whether it
is cached). `AsU64` is where the mapping has a base (or panics, beyond eight
bytes): it takes the first byte for the least significant one, against the
comment on `Address` and as the TODO above `as_u64` fears; the bases of the
shipped memory mapped registers have one byte. An I2C device is sent the base
and is taken to read it as big endian. A byte of data is the set of its bits
that are 1, so `&`, `|`, `!` and the shifts are operations on sets.

`RegisterSet` extends it: a text is the sequence of its hexadecimal digits, `Z` is the letter z, and decimal, octal and binary
texts are covered by the number they denote; `<<>>` is any text the parser
refuses (signs included: a number with a sign never passes the check of its
digits). `ValueMap` scales a byte to 0..3, so that the search for a free value
reaches its carry within a few entries.

In `ParseNum` a text is its radix, its sign and its digits, and a word (a text
that starts with no digit) is its bytes. In `AddressParse` an address is a base
and none, one or two texts of a slice, which is what the regular expression of
`parse_internal` captures. `LoadRegister` and `LoadFunction` are one entry of
the files each; an error or a panic there ends the daemon before it serves. A
register's base that is a name cannot be resolved, a function's can.

Panics are those of a build with overflow checks; in the release build an
inverted slice wraps instead (it is not enumerated, no shipped address has one).

## What is checked

Runs that pass:

| run | question | bounds |
| --- | --- | --- |
| `server_pool` | `Serial`, `OkMeansAll`, `NoCircularWait`, `PoisonHasCulprit`, `DeviceUnwrapSafe`, `SealStopsDevices`, the refinement `ImplementsAtomicCamera` | three requests out of the operations that differ in locks and accesses, the dispatcher and two pool threads |
| `server_answers` | `Answered`: every request is answered unless the process exits | two requests out of all operations, the same threads, weak fairness |
| `camera_files` | `KindsAgree`, `ListedIsFound`, `EditIsReadBack`, `OnlyMapsAreEdited`, `KindsAreStable` | four cameras (keyword maps with and without a default, a numeric map, none), 38 paths, some of them spellings of one file, four words; any number of calls |
| `cached_fuseable` | `ContentsAreFresh`, `TrueWhereStatic`, `PendingIsCurrent`, `KindLockHolds`, `NoUnimplemented`, `EntriesAreListed` | both wirings, caches of two entries, four paths, a map of two entries and what edits make of it, the dispatcher and one pool thread; any number of calls |
| `bit_slice` | `SliceCuts`, `WritePastes`, `FitsIfInside` | all slices up to bit 25, vectors of one to three bytes of three patterns |
| `channel` | `MockIsInert`, `OtherRegistersKept`, `WrittenIsReadBack` | two calls, devices of four bytes, fourteen addresses, bases of one, two and nine bytes |
| `register_set` | `NumberIsHeld`, `MaskIsKept`, `CopyChangesNothing` | two calls, nine files, ten texts, devices of three bytes |
| `value_map` | `WordIsReadBack`, `WordsAreDistinct`, `RefusedEditKeepsMap` | four calls, seven maps, fields of one bit and of two bytes |
| `address_parse` | `BaseAsWritten`, `WidthIsWhole`, `NamingIsInlining`, `KeysAreFound` | one register and one function, twelve bases, ten slices, five widths (the largest overflows the `u8` of a slice), six sets of keys |

Why the bounds suffice. `main.rs` asks for one pool thread; the runs use two,
so that the locks and not the size of the pool keep writes apart, and the
dispatcher is a third. Three requests allow a writer, a waiting request and a
third one on the other side of it; the reset, with two locks and six accesses,
is among them. Two calls are enough for the channel and the files because their
only state is the device and whether it is cached, and each property relates one
or two calls; the initial states supply the devices. The patterns of bytes
have a different bit at each of the places a shift or a mask could lose.
Four calls on a map allow two edits, a write and a read. The paths of
`camera_files` end at, pass through and run beyond a node of every type, and its
runs have no bound on calls, because edits lead to finitely many trees. The
caches of `cached_fuseable` are smaller than its paths are many, so entries are
dropped; one pool thread is what `main.rs` asks for, and with the dispatcher it
is enough for a fill to race a write.

What the two runs show: contents are never cached, so a client reads what was
written last; an answer that is being put into the cache cannot become false in
between, because the handler still holds `inner`. The comment on
`CachedFuseable`, "dir entries are always static", is true of all directories
but those of keyword maps, where an edit removes the entry that had the word: a
cached listing, and the 3600 s the kernel keeps an attribute, then name a file
that is gone, and never lack one (`EntriesAreListed`, `KindsAreStable`). No edit
reaches the configuration of an address, a channel or a register, though the
fields of `Address` and `Slice` are writable by themselves: each way to them
passes a field that is `ro`, or an arm of `write` that refuses.

Fairness. `FairSpec` assumes that each thread that can take a step eventually
does. That is the scheduler's promise, and for the locks it is what std gives as
long as there are finitely many requests: `Answered` is about executions with
finitely many. Neither std nor the model promises that a writer gets its turn
while new readers keep coming.

Deadlock is checked in the server and cache runs (`Quiet` and `Gone` let a
finished daemon stand still); the sequential runs stop at their bound on calls,
and `camera_files` where a panic has sealed the tree.

Runs that find a disagreement between the code and its comments:

| run | what happens |
| --- | --- |
| `channel_bits` | writing a field of bits writes zeros to the other bits of its bytes, because `write_value` merges with a value that `read_value` has cut already; a field that starts at bit 8 or later panics, and a slice of whole bytes behind the first is written at the base of the address |
| `channel_unbounded` | an address without a slice is never written: a mocked channel panics |
| `bit_slice_endian` | `slice` takes the first byte for the least significant, its comment for the most significant |

The consequence of a panic in a write is visible in `FuseServer`: the request is
answered EIO, `inner` is poisoned, and the next lookup ends the process
(`EnterSealed` on the dispatcher).

## What is proved

`FuseServerProofs` proves, for any number of pool threads, channels and requests
and any menu of operations that the code can perform (`ServerAssumption`), with
or without aborting panics:

- `Invariance`: `Spec => []IInv`, and from it `TypeCorrect`, `Serializable`,
  `OkIsTrue`, `PoisonContained` and `NoDeadlock` for the invariants of the runs;
- `DeviceLocksSafe`: `DeviceUnwrapSafe`, from the further invariant `DeviceInv`
  (a mutex that is held is not poisoned, and a device lock only together with
  the mutex of its register set);
- `SealedIsQuiet`: the action property `SealStopsDevices`.

None of the properties is inductive by itself. `Serial`, that the accesses of a
request stay together, is kept by an access only if nobody else's access came
after the request's last one, so `TraceInv` says that the accesses of the thread
that writes are the last ones of the trace; that needs `InnerInv`, that a thread
inside the wrapper with a write is its only occupant; which needs `JobInv` and
`MutexInv`, where every thread is and what it holds. `IInv` is the conjunction of
the four with the properties. The proof that a step keeps it has one lemma per
kind of step (`BeginKeeps`, `DispatchToPoolKeeps`, `EnterSharedKeeps`,
`EnterExclusiveKeeps`, `LockChannelKeeps`, `AccessOkKeeps`, `LeaveKeeps`,
`AbortKeeps`); all ways a handler ends are instances of `LeaveKeeps` and
`AbortKeeps`, which `StepCases` sorts out. `NoDeadlock` follows from the
invariant because only `Reset` locks two register sets, and it is a writer.

Its second half proves `Refinement`: `Spec => ImplementsAtomicCamera`,
in both build profiles, so that no run is needed for the one in which panics
abort. Three kinds of step are visible to the abstract camera: a read's access, a
thread that leaves its handler, and a panic that ends the process (`AccessMaps`,
`LeaveMaps`, `AbortMaps`); every other step stutters (`SilentSteps`). A write
becomes visible as one block when it leaves, which needs `BlockInv`: its accesses
are the last of the trace, in the order of its plan.

`CachedFuseableProofs` proves all seven invariants of `cached_fuseable` for any
pool, any paths, any size of the caches and any Fuseable that satisfies
`FuseableTypes` and `FuseableBehaves`; TLC checks both for the camera of the run, and
`CameraFilesProofs` proves them for every camera (below).
The invariant `IInv` says what stays true of a kept answer (`Holds`): its
directory has no text, its listing lacks nothing, and on a static path it is what
the Fuseable says. `FuseableBehaves` makes this stable under every call
(`HoldsAfter`), and the lemmas per action (`HitStep`, `MissStep`, `FillStep`,
`WriteStep`, ...) carry it from an answer to the cache, from the cache to the
client.

`CameraFilesProofs` proves, for any cameras and any paths (`TreeAssumption`,
`CamerasAssumption`):

- `TypeCorrect`: the camera stays a tree whose entries are found under the names
  they are listed by, whatever is edited or lost (`EditedIsTree`: what an edit
  removes has no entries below it, because maps of keywords hold strings);
- `Agreement`: `KindsAgree`. A path leads to at most one node (`OneNode`: two
  nodes it leads to differ first at some name, but both have the name the path
  gives there), so is_dir and read answer from the same node, and their
  answers are compared type by type;
- `ListingsAreTrue`: `ListedIsFound`, from the tree and from what `Listing`
  leaves out;
- `EditsAreReadBack`: `EditIsReadBack`. Its invariant `EditIsHeld` is about the
  node, not the answer: whatever the path of the last edit leads to holds the
  word. A write that is refused, or a device that fails or panics, leaves the
  node alone, and the file is found under every spelling by `OneNode`;
- `KindsStayStable`: `KindsAreStable`, step by step: what `Edited` takes out of
  the tree is the entry that had the word (`EditedGone`), everything else keeps
  its type and its place (`EditedKinds`);
- `ConfigurationStays`: `OnlyMapsAreEdited`. It rests on `IsClosed`: on the way
  to a text that is not in a map there is a field that refuses writes. Edits
  keep this (`EditedIsClosed`), and of the cameras at the start it is assumed;
- `CamerasAreClosed` discharges that assumption for every camera there can be:
  whatever the registers, functions and maps of a configuration, the attributes
  of the types they are made of close the tree. It goes through the types from
  the inside out: a constructor is *guarded* if nothing below it can be written,
  *sound* if only the entries of maps can (`RoIsGuarded`, `ValueIsSound`,
  `MapIsSound`, `RegisterIsGuarded`, `FunctionIsGuarded`, ...);
- `CamerasBehave`, `CamerasAreTyped` and `FixedStays`: a camera is a Fuseable as the
  theorems of `CachedFuseableProofs` assume one, so those theorems are about
  `Camera`, whatever its registers, functions and maps. Take for the states any set of
  cameras that no call leaves, and for the static paths those that lead to no
  text and to no map of keywords (`Fixed`; edits keep them so). The fact behind
  it is `Follows`: a call keeps every node but keywords, with its type and rights,
  every text but those of files, and every lost register set. What is said of a path is
  then read off the one node it leads to (`SaidIs`).

`BitSliceProofs` proves what the loops of `bit_slice.rs` compute, for vectors and
values of any length: `SliceIsCut` and `SliceWriteIsPaste` equate the byte-wise
code, with its shifts and carries, with the definition that moves single bits.
The loops are recursive functions of the number of bytes done; what they compute is
proved by the least byte at which it would fail (`LeastNumber`, from the
library's `WFMin`). `BitSliceCallsProofs` turns this into the properties of the
run, for any set of vectors and values of bytes and any slices that are not
empty (`BytesAssumption`): `BoundsAreExact` (`FitsIfInside`), `SliceCutsAlways`,
`SliceWritePastesAlways`, from the invariant `Vector` that the caller's vector
stays one of bytes (`VectorsStay`).

`RegisterSetProofs` proves about the calls on a channel, for both types of channel, mocked or not, any device,
any values and any addresses with or without a slice (`ChannelAssumption`):
`TypeCorrect`; `MockStaysInert`; `OthersAreKept`, for which a write that stops
halfway is followed byte by byte (`OverwrittenSpares`); and
`WrittenIsAlwaysReadBack`. The last one needs to know now what a later read will
give: `LastWriteIsHeld` says that after a successful write the device gives
the written value under that address (`Gives`), which for a slice is that a cut
out of a paste is what was pasted (`CutOfPaste`), and every call
but a write keeps the device. As the property itself it leaves out slices of
whole bytes behind the first, where `channel_bits` shows the code to be wrong.

It also proves the three properties of the files of registers, for any files,
texts and devices (`FilesAssumption`, `ChannelAssumption`). A number is the set of its bits, and
`HasBits` says that a vector of bytes has them in its order: the bytes of a
number do (`BytesOfIs`), zeros in front change nothing (`PadFrontIs`), the mask
of a text has the bits the text names (`MaskIsNamed`) and the text that is read
has those of the bytes (`HexBits`). `NumberIsAlwaysHeld` and `MaskIsAlwaysKept`
follow from what a write to the channel changes at most, and all of it when it
succeeds (`PutGives`), bit by bit (`BitAtIs`). `CopyNeverChanges` needs an
invariant, `ReadIsHeld`: what was read last is the text of the bytes the device
has, and they are within its end, so that writing them back cannot panic.

`ValueMapProofs` proves, for maps of any shape and any size of a byte
(`SizesAssumption`, `MapsAssumption`): `TypeCorrect`; `WordsStayDistinct`, that a
keyword map stays a bijection through any edits; `RefusalKeepsMap`; and
`WordIsAlwaysReadBack`. `WordsAreDistinct` is inductive together with the type of
the map (`MapTyped`); the word that is read back needs in addition that the
field holds an encoding of the last word by the present map
(`WordIsEncoded`). That the search for a value without a key ends with one that
has none is a count: it looks at one candidate more than the map has entries,
and the candidates are distinct (`FreeIsFree`).

`AddressParseProofs` proves the four invariants of `AddressParse`, for any texts,
widths and keys of value maps (`TextsAssumption` gives only their types and the
form the regular expression leaves of a slice). The inductive invariant (`InvHolds`)
says where what is loaded came from: every register is the parse of its own text,
every function that of its text with the registers there are *now*, which holds
because functions are loaded after all registers. The rest is about the parsers,
for texts of any length:

- a fold over the digits has a value and only one (`RunningExists`,
  `RunningUnique`), and so has the division of a number into bytes
  (`SplitsUpTo`, `SplitsAgree`); both are recursive functions, and both facts are
  proved by the least place where they would fail;
- `ParsedKeepsDigits`: the bytes that `parse_num_padded` puts in front, computed from the
  bits of the digits less the leading zeros of the number's own bytes, are
  exactly those the text has and the BigInt lost, for hexadecimal and binary texts
  (for octal ones they need not be, see the hazards). This is `BaseAsWritten`
  (`BasesAreAlwaysAsWritten`);
- `WholeSlice` and `SameSlice` follow the checked arithmetic of the ends of a slice:
  `WidthIsAlwaysWhole`, `NamingAlwaysInlines`;
- `DisplayIsParsed` (what `to_string` prints `from_str` reads back, for every vector of
  bytes) and `DisplayTellsApart` give `KeysAreAlwaysFound`.

Only model-checked: `Answered` (liveness under fairness is out of the prover's
reach), and that the code violates what its comments say, in the three runs that
expect a violation. Every other property of a run is stated by a theorem.

## What is not modelled, and the plan

Not modelled: reading the configuration files (a conversion of data before the
daemon serves, up to the addresses and keys that `AddressParse` loads), `parse_num_mask_padded` (without a
caller), virtual fields and unit variants in the derive (no type of the camera
has them), what the kernel makes of an attribute with error 0 or of a listing that
calls files directories, the register tables and `convert.py` (data), logging.

Simplified, with no property that depends on it:

- `FuseServer`: a panic on the dispatcher ends the process in one step, where a
  debug build first unwinds and a pool thread may run a little longer.
- `ValueMap`: NaN, and numbers of more than eight bytes in `Fixed` and `Float` maps,
  are left out.
- `FuseTree`: one parser, `Numbers`, stands for those of all scalars, so a text like
  `1.0` is also taken for an entry of a `Fixed` map, which refuses it in the code.
  is_dir, read and write share one descent (`Found`), as the implementations of
  each type follow a path in the same way: that they do is read, not checked.
- `AddressParse`: texts that do not match the regular expression of an address,
  where the code panics before the daemon serves, are not enumerated.
- `Answered` does not tell whether a device is kept open between requests, and
  `OtherRegistersKept` places a register where the code does: neither covers the
  hazards of `with_dev` and of `as_u64`, which have no property.

What could come next: the two layers in one module, `FuseServer` with the bytes that
its accesses transfer, so that `NumberIsHeld` or `MaskIsKept` is stated of
concurrent requests rather than of calls that `Serial` keeps apart.
