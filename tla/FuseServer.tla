------------------------------ MODULE FuseServer ------------------------------
(***************************************************************************)
(* The daemon as a concurrent server of file-system requests.              *)
(*                                                                         *)
(* main.rs mounts FuseableWrapper(Camera) with fuse_mt and one pool        *)
(* thread.  The thread that mounted (the dispatcher) runs getattr, opendir,*)
(* readdir and open itself and queues read and write for the pool.  Every  *)
(* handler takes the RwLock `inner` of the wrapper, shared or exclusive,   *)
(* then the Mutex of each register set (channel) it enters, then works on  *)
(* the devices of those channels.                                          *)
(*                                                                         *)
(* Register contents are abstracted to the trace of device accesses: what  *)
(* an access transfers is a function of its request and of what the        *)
(* earlier accesses of the trace left in the device, so the order of the   *)
(* trace is all that concurrency can change.                               *)
(***************************************************************************)
EXTENDS Naturals, Sequences

CONSTANTS
  Dispatcher,   \* the thread that runs fuse_mt::mount
  Workers,      \* the threads of fuse_mt's pool (main.rs asks for one)
  Nobody,       \* "no thread" and "no request"
  Channels,     \* the register sets of the camera, one channel each
  Sensor,       \* registers["sensor"]
  SensorIo,     \* registers["sensor_io"]
  Requests,     \* the requests of one execution: the bound of the model
  Menu,         \* the operations the requests are drawn from
  PanicAbort    \* TRUE in the release profile, where a panic aborts

Threads == Workers \cup {Dispatcher}

-----------------------------------------------------------------------------
(* What a handler does, as the device accesses it makes, in order.         *)

ReadReal(c)  == << [chan |-> c, dir |-> "read"] >>
WriteReal(c) == << [chan |-> c, dir |-> "write"] >>

\* CommChannel::write_value: a slice that is not made of whole bytes is
\* read, merged and written back.
ChannelWrite(c, sliced) ==
  IF sliced THEN ReadReal(c) \o WriteReal(c) ELSE WriteReal(c)

\* Register::write_value and Function::write_value: a masked number is
\* first merged with the current value.
ValueWrite(c, masked, sliced) ==
  IF masked THEN ReadReal(c) \o ChannelWrite(c, sliced)
            ELSE ChannelWrite(c, sliced)

\* Reset::write: raise and lower the reset line, a register of whole bytes,
\* then two functions of one bit each, software_reset and stream.
ResetPlan ==
  ChannelWrite(SensorIo, FALSE) \o ChannelWrite(SensorIo, FALSE)
    \o ChannelWrite(Sensor, TRUE) \o ChannelWrite(Sensor, TRUE)

\* An operation: the Fuseable method, the mutexes in the order they are
\* locked, the accesses.
Op(call, locks, plan) == [call |-> call, locks |-> locks, plan |-> plan]

\* Paths outside registers/<c> lock no mutex.  In mock mode no operation has an
\* access, the reset still locks both register sets; of a camera without a
\* sensor_io it panics as a write that has locked the sensor alone can.
Places == {<<>>} \cup {<<c>> : c \in Channels}

Operations ==
       {Op("is_dir", l, <<>>) : l \in Places}
  \cup {Op("read", l, <<>>) : l \in Places}
  \cup {Op("write", l, <<>>) : l \in Places}
  \cup {Op("read", <<c>>, ReadReal(c)) : c \in Channels}
  \cup {Op("write", <<c>>, ValueWrite(c, m, s)) :
          c \in Channels, m \in BOOLEAN, s \in BOOLEAN}
  \cup {Op("write", <<Sensor, SensorIo>>, plan) : plan \in {<<>>, ResetPlan}}

ASSUME ServerAssumption ==
  /\ Dispatcher \notin Workers
  /\ Nobody \notin Threads \cup Requests
  /\ Sensor \in Channels
  /\ SensorIo \in Channels
  /\ Sensor # SensorIo
  /\ Menu \subseteq Operations
  /\ PanicAbort \in BOOLEAN

-----------------------------------------------------------------------------
VARIABLES
  op,         \* op[r]: what request r asks for; fixed in Init
  status,     \* status[r]: where request r is
  reply,      \* reply[r]: the answer sent to the kernel
  queue,      \* the requests waiting for a pool thread
  job,        \* job[t]: the request thread t works on
  pc,         \* pc[t]: idle, at the door of `inner`, or inside
  held,       \* held[t]: how many mutexes of its operation t has locked
  done,       \* done[t]: how many accesses of its operation t has made
  readers,    \* the threads that hold `inner` shared
  writer,     \* the thread that holds `inner` exclusively
  sealed,     \* `inner` is poisoned
  mutex,      \* mutex[c]: the thread that locked register set c
  poisoned,   \* the register sets whose mutex is poisoned
  opened,     \* the channels whose device is cached (dev is Some)
  devPoisoned,\* the channels whose device lock is poisoned
  trace,      \* the device accesses so far
  alive       \* the process has not exited

threadVars == <<job, pc, held, done>>
lockVars   == <<readers, writer, sealed, mutex, poisoned>>
devVars    == <<opened, devPoisoned, trace>>
vars == <<op, status, reply, queue, threadVars, lockVars, devVars, alive>>

Init ==
  /\ op \in [Requests -> Menu]
  /\ status = [r \in Requests |-> "pending"]
  /\ reply = [r \in Requests |-> "none"]
  /\ queue = <<>>
  /\ job = [t \in Threads |-> Nobody]
  /\ pc = [t \in Threads |-> "idle"]
  /\ held = [t \in Threads |-> 0]
  /\ done = [t \in Threads |-> 0]
  /\ readers = {}
  /\ writer = Nobody
  /\ sealed = FALSE
  /\ mutex = [c \in Channels |-> Nobody]
  /\ poisoned = {}
  /\ opened = {}
  /\ devPoisoned = {}
  /\ trace = <<>>
  /\ alive = TRUE

\* The operation thread t works on, and the channel of its next access.
Doing(t)  == op[job[t]]
Target(t) == Doing(t).plan[done[t] + 1].chan

\* The mutexes thread t holds.
Locked(t) == {c \in Channels : mutex[c] = t}

\* Thread t holds every lock its operation needs.
Ready(t) ==
  /\ alive
  /\ pc[t] = "inside"
  /\ held[t] = Len(Doing(t).locks)

-----------------------------------------------------------------------------
(* Leaving a handler.                                                      *)

\* Mutant of Release: the access counter of the thread is not cleared.
ReleaseKeepsDone(t, answer) ==
  /\ reply' = [reply EXCEPT ![job[t]] = answer]
  /\ status' = [status EXCEPT ![job[t]] = "replied"]
  /\ job' = [job EXCEPT ![t] = Nobody]
  /\ pc' = [pc EXCEPT ![t] = "idle"]
  /\ held' = [held EXCEPT ![t] = 0]
  /\ done' = done
  /\ readers' = readers \ {t}
  /\ writer' = IF writer = t THEN Nobody ELSE writer
  /\ mutex' = [c \in Channels |-> IF mutex[c] = t THEN Nobody ELSE mutex[c]]

\* The guards of `inner` and of the mutexes are dropped and the answer goes
\* to the kernel.
Release(t, answer) ==
  /\ reply' = [reply EXCEPT ![job[t]] = answer]
  /\ status' = [status EXCEPT ![job[t]] = "replied"]
  /\ job' = [job EXCEPT ![t] = Nobody]
  /\ pc' = [pc EXCEPT ![t] = "idle"]
  /\ held' = [held EXCEPT ![t] = 0]
  /\ done' = [done EXCEPT ![t] = 0]
  /\ readers' = readers \ {t}
  /\ writer' = IF writer = t THEN Nobody ELSE writer
  /\ mutex' = [c \in Channels |-> IF mutex[c] = t THEN Nobody ELSE mutex[c]]

\* The handler of t returned Ok or Err: nothing is poisoned.
Return(t, answer) ==
  /\ Release(t, answer)
  /\ UNCHANGED <<op, queue, sealed, poisoned, alive>>

\* Mutant of Panic: `inner` is a Mutex, which every panic poisons.
PanicSeals(t) ==
  IF PanicAbort \/ t = Dispatcher
    THEN /\ alive' = FALSE
         /\ UNCHANGED <<op, status, reply, queue, threadVars, lockVars>>
    ELSE /\ Release(t, "eio")
         /\ sealed' = TRUE
         /\ poisoned' = poisoned \cup Locked(t)
         /\ UNCHANGED <<op, queue, alive>>

\* Mutant of Panic: the mutexes of the register sets do not poison.
PanicKeepsMutexes(t) ==
  IF PanicAbort \/ t = Dispatcher
    THEN /\ alive' = FALSE
         /\ UNCHANGED <<op, status, reply, queue, threadVars, lockVars>>
    ELSE /\ Release(t, "eio")
         /\ sealed' = (sealed \/ writer = t)
         /\ UNCHANGED <<op, queue, poisoned, alive>>

\* The handler of t panicked.  The process exits if panics abort or if t is
\* the main thread.  A pool thread unwinds: the exclusive guards it drops
\* poison their locks (a shared guard of `inner` does not), the unanswered
\* request is answered EIO and the pool replaces the thread.
Panic(t) ==
  IF PanicAbort \/ t = Dispatcher
    THEN /\ alive' = FALSE
         /\ UNCHANGED <<op, status, reply, queue, threadVars, lockVars>>
    ELSE /\ Release(t, "eio")
         /\ sealed' = (sealed \/ writer = t)
         /\ poisoned' = poisoned \cup Locked(t)
         /\ UNCHANGED <<op, queue, alive>>

-----------------------------------------------------------------------------
(* The dispatcher and the pool.                                            *)

\* getattr, opendir, open and readdir run on the dispatcher's thread.
DispatchInline(r) ==
  /\ alive
  /\ pc[Dispatcher] = "idle"
  /\ status[r] = "pending"
  /\ op[r].call = "is_dir"
  /\ status' = [status EXCEPT ![r] = "active"]
  /\ job' = [job EXCEPT ![Dispatcher] = r]
  /\ pc' = [pc EXCEPT ![Dispatcher] = "entering"]
  /\ UNCHANGED <<op, reply, queue, held, done, lockVars, devVars, alive>>

\* read and write are queued for the pool.
DispatchToPool(r) ==
  /\ alive
  /\ pc[Dispatcher] = "idle"
  /\ status[r] = "pending"
  /\ op[r].call # "is_dir"
  /\ status' = [status EXCEPT ![r] = "queued"]
  /\ queue' = Append(queue, r)
  /\ UNCHANGED <<op, reply, threadVars, lockVars, devVars, alive>>

\* A free pool thread takes the oldest job.
TakeJob(w) ==
  /\ alive
  /\ pc[w] = "idle"
  /\ queue # <<>>
  /\ queue' = Tail(queue)
  /\ status' = [status EXCEPT ![Head(queue)] = "active"]
  /\ job' = [job EXCEPT ![w] = Head(queue)]
  /\ pc' = [pc EXCEPT ![w] = "entering"]
  /\ UNCHANGED <<op, reply, held, done, lockVars, devVars, alive>>

-----------------------------------------------------------------------------
(* Taking the locks.                                                       *)

\* Mutants of EnterShared: a read does not wait for a writer (no lock in read);
\* a poisoned `inner` is used as if nothing had happened (into_inner).
EnterSharedBesideWriter(t) ==
  /\ alive
  /\ pc[t] = "entering"
  /\ Doing(t).call # "write"
  /\ ~sealed
  /\ readers' = readers \cup {t}
  /\ pc' = [pc EXCEPT ![t] = "inside"]
  /\ UNCHANGED <<op, status, reply, queue, job, held, done, writer, sealed,
                 mutex, poisoned, devVars, alive>>

EnterSharedPoisoned(t) ==
  /\ alive
  /\ pc[t] = "entering"
  /\ Doing(t).call # "write"
  /\ writer = Nobody
  /\ readers' = readers \cup {t}
  /\ pc' = [pc EXCEPT ![t] = "inside"]
  /\ UNCHANGED <<op, status, reply, queue, job, held, done, writer, sealed,
                 mutex, poisoned, devVars, alive>>

\* self.inner.read().unwrap()
EnterShared(t) ==
  /\ alive
  /\ pc[t] = "entering"
  /\ Doing(t).call # "write"
  /\ writer = Nobody
  /\ ~sealed
  /\ readers' = readers \cup {t}
  /\ pc' = [pc EXCEPT ![t] = "inside"]
  /\ UNCHANGED <<op, status, reply, queue, job, held, done, writer, sealed,
                 mutex, poisoned, devVars, alive>>

\* Mutant of EnterExclusive: the writer does not wait for the other writers.
EnterExclusiveTwice(t) ==
  /\ alive
  /\ pc[t] = "entering"
  /\ Doing(t).call = "write"
  /\ readers = {}
  /\ ~sealed
  /\ writer' = t
  /\ pc' = [pc EXCEPT ![t] = "inside"]
  /\ UNCHANGED <<op, status, reply, queue, job, held, done, readers, sealed,
                 mutex, poisoned, devVars, alive>>

\* self.inner.write().unwrap()
EnterExclusive(t) ==
  /\ alive
  /\ pc[t] = "entering"
  /\ Doing(t).call = "write"
  /\ writer = Nobody
  /\ readers = {}
  /\ ~sealed
  /\ writer' = t
  /\ pc' = [pc EXCEPT ![t] = "inside"]
  /\ UNCHANGED <<op, status, reply, queue, job, held, done, readers, sealed,
                 mutex, poisoned, devVars, alive>>

\* The unwrap of a poisoned `inner` panics.
EnterSealed(t) ==
  /\ alive
  /\ pc[t] = "entering"
  /\ sealed
  /\ writer = Nobody
  /\ Doing(t).call = "write" => readers = {}
  /\ Panic(t)
  /\ UNCHANGED devVars

\* self.lock().unwrap() on the next register set, once it is free.
LockChannel(t) ==
  /\ alive
  /\ pc[t] = "inside"
  /\ held[t] < Len(Doing(t).locks)
  /\ LET c == Doing(t).locks[held[t] + 1]
     IN /\ mutex[c] = Nobody
        /\ c \notin poisoned
        /\ mutex' = [mutex EXCEPT ![c] = t]
  /\ held' = [held EXCEPT ![t] = @ + 1]
  /\ UNCHANGED <<op, status, reply, queue, job, pc, done, readers, writer,
                 sealed, poisoned, devVars, alive>>

\* The unwrap of a poisoned mutex panics.
LockPoisoned(t) ==
  /\ alive
  /\ pc[t] = "inside"
  /\ held[t] < Len(Doing(t).locks)
  /\ mutex[Doing(t).locks[held[t] + 1]] = Nobody
  /\ Doing(t).locks[held[t] + 1] \in poisoned
  /\ Panic(t)
  /\ UNCHANGED devVars

-----------------------------------------------------------------------------
(* Working on the devices.  with_dev holds the lock of the device for the  *)
(* whole access, and the mutex of the channel is held around it: an access *)
(* is one step.  No action stands for a panic of dev.write().unwrap():     *)
(* DeviceUnwrapSafe says that no thread gets as far as a poisoned device.  *)

Record(t) == trace' = Append(trace, [req |-> job[t], step |-> done[t] + 1])

\* with_dev opens the device if it is not cached, and the transfer succeeds.
AccessOk(t) ==
  /\ Ready(t)
  /\ done[t] < Len(Doing(t).plan)
  /\ Target(t) \notin devPoisoned
  /\ opened' = opened \cup {Target(t)}
  /\ Record(t)
  /\ done' = [done EXCEPT ![t] = @ + 1]
  /\ UNCHANGED <<op, status, reply, queue, job, pc, held, lockVars,
                 devPoisoned, alive>>

\* Mutant of OpenFails: the device is tried again until it can be opened.
OpenRetries(t) ==
  /\ Ready(t)
  /\ done[t] < Len(Doing(t).plan)
  /\ Target(t) \notin opened \cup devPoisoned
  /\ mutex' = [c \in Channels |-> IF mutex[c] = t THEN Nobody ELSE mutex[c]]
  /\ held' = [held EXCEPT ![t] = 0]
  /\ UNCHANGED <<op, status, reply, queue, job, pc, done, readers, writer,
                 sealed, poisoned, devVars, alive>>

\* The device cannot be opened: it stays None and the error is returned.
OpenFails(t) ==
  /\ Ready(t)
  /\ done[t] < Len(Doing(t).plan)
  /\ Target(t) \notin opened \cup devPoisoned
  /\ Return(t, "err")
  /\ UNCHANGED devVars

\* Mutant of TransferFails: the error of a transfer is dropped.
TransferFailsSilently(t) ==
  /\ Ready(t)
  /\ done[t] < Len(Doing(t).plan)
  /\ Target(t) \notin devPoisoned
  /\ opened' = opened \cup {Target(t)}
  /\ Record(t) \/ UNCHANGED trace
  /\ Return(t, "ok")
  /\ UNCHANGED devPoisoned

\* The transfer fails: the device stays cached; a failed transfer may still
\* have reached the device.
TransferFails(t) ==
  /\ Ready(t)
  /\ done[t] < Len(Doing(t).plan)
  /\ Target(t) \notin devPoisoned
  /\ opened' = opened \cup {Target(t)}
  /\ Record(t) \/ UNCHANGED trace
  /\ Return(t, "err")
  /\ UNCHANGED devPoisoned

\* The transfer panics with the device locked (an index beyond the mapping).
TransferPanics(t) ==
  /\ Ready(t)
  /\ done[t] < Len(Doing(t).plan)
  /\ Target(t) \notin devPoisoned
  /\ opened' = opened \cup {Target(t)}
  /\ devPoisoned' = devPoisoned \cup {Target(t)}
  /\ Record(t) \/ UNCHANGED trace
  /\ Panic(t)

\* The handler returns Err by itself: the path or the value is refused before
\* the first access, the value read is in no value map, or the value map of a
\* function that Reset writes has no "0" or no "1".
Refuse(t) ==
  /\ Ready(t)
  /\ \/ done[t] = 0
     \/ Doing(t).call = "read"
     \/ Doing(t).plan = ResetPlan /\ done[t] \in {2, 4}
  /\ Return(t, "err")
  /\ UNCHANGED devVars

\* The handler panics between accesses (an index of a byte vector, a missing
\* width).
HandlerPanics(t) ==
  /\ Ready(t)
  /\ Doing(t).call # "is_dir"
  /\ Panic(t)
  /\ UNCHANGED devVars

\* The handler returns Ok.
Finish(t) ==
  /\ Ready(t)
  /\ done[t] = Len(Doing(t).plan)
  /\ Return(t, "ok")
  /\ UNCHANGED devVars

\* Nothing is left to do: every request is answered, or the process is gone.
Quiet ==
  /\ ~alive \/ \A r \in Requests : status[r] = "replied"
  /\ UNCHANGED vars

-----------------------------------------------------------------------------
Enter(t) == EnterShared(t) \/ EnterExclusive(t) \/ EnterSealed(t)

Work(t) ==
  \/ AccessOk(t)
  \/ OpenFails(t)
  \/ TransferFails(t)
  \/ TransferPanics(t)
  \/ Refuse(t)
  \/ HandlerPanics(t)
  \/ Finish(t)

Step(t) == Enter(t) \/ LockChannel(t) \/ LockPoisoned(t) \/ Work(t)

Dispatch == \E r \in Requests : DispatchInline(r) \/ DispatchToPool(r)

Next ==
  \/ Dispatch
  \/ \E w \in Workers : TakeJob(w)
  \/ \E t \in Threads : Step(t)
  \/ Quiet

Spec == Init /\ [][Next]_vars

\* Every thread that can move eventually does: the operating system runs all
\* threads of the process.
Fairness ==
  /\ WF_vars(Dispatch)
  /\ \A w \in Workers : WF_vars(TakeJob(w))
  /\ \A t \in Threads : WF_vars(Step(t))

FairSpec == Spec /\ Fairness

-----------------------------------------------------------------------------
(* Properties.                                                             *)

\* The state is well typed, and a thread that is not inside a handler counts
\* no locks and no accesses.
TypeOK ==
  /\ op \in [Requests -> Menu]
  /\ status \in [Requests -> {"pending", "queued", "active", "replied"}]
  /\ reply \in [Requests -> {"none", "ok", "err", "eio"}]
  /\ queue \in Seq(Requests)
  /\ job \in [Threads -> Requests \cup {Nobody}]
  /\ pc \in [Threads -> {"idle", "entering", "inside"}]
  /\ held \in [Threads -> Nat]
  /\ done \in [Threads -> Nat]
  /\ readers \in SUBSET Threads
  /\ writer \in Threads \cup {Nobody}
  /\ sealed \in BOOLEAN
  /\ mutex \in [Channels -> Threads \cup {Nobody}]
  /\ poisoned \in SUBSET Channels
  /\ opened \in SUBSET Channels
  /\ devPoisoned \in SUBSET Channels
  /\ trace \in Seq([req : Requests, step : Nat])
  /\ alive \in BOOLEAN
  /\ \A t \in Threads : pc[t] # "inside" => held[t] = 0 /\ done[t] = 0

\* The requests are served one after the other as far as the devices can tell:
\* between two accesses of a handler there is none of another.  A
\* read-modify-write loses no update, and nobody reads a sensor that a Reset
\* has half reset.
Serial ==
  \A i, j, k \in DOMAIN trace :
    i < j /\ j < k /\ trace[i].req = trace[k].req
      => trace[j].req = trace[i].req

\* Request r has made the first k accesses of its plan, and no other.
MadeExactly(r, k) ==
  /\ \A i \in DOMAIN trace : trace[i].req = r => trace[i].step \in 1 .. k
  /\ \A n \in 1 .. k : \E i \in DOMAIN trace : trace[i] = [req |-> r, step |-> n]

\* A request answered ok has made every access of its plan; whatever its
\* answer, what it made is a beginning of the plan.  A Reset that stops at an
\* error after raising the reset line can leave it raised, but never says ok.
OkMeansAll ==
  \A r \in Requests :
    /\ \E k \in 0 .. Len(op[r].plan) : MadeExactly(r, k)
    /\ reply[r] = "ok" => MadeExactly(r, Len(op[r].plan))

\* A thread that waits for a mutex waits for one whose holder has all its
\* locks: no cycle of threads waits for one another.
NoCircularWait ==
  \A t \in Threads :
    pc[t] = "inside" /\ held[t] < Len(Doing(t).locks)
      => LET u == mutex[Doing(t).locks[held[t] + 1]]
         IN u # Nobody => pc[u] = "inside" /\ held[u] = Len(Doing(u).locks)

\* Only a write that ended in a panic seals the whole file system, and only a
\* panic under its mutex poisons a register set: a read that panics costs the
\* register set it was in, no other.
PoisonHasCulprit ==
  /\ sealed => \E r \in Requests : op[r].call = "write" /\ reply[r] = "eio"
  /\ \A c \in poisoned :
       \E r \in Requests :
         reply[r] = "eio" /\ \E i \in DOMAIN op[r].locks : op[r].locks[i] = c

\* The lock of a device is poisoned only together with the mutex of its
\* register set, which every request locks first: dev.write().unwrap() in
\* with_dev never panics, a device lost to a panic is never half used.
DeviceUnwrapSafe ==
  alive =>
    /\ devPoisoned \subseteq poisoned
    /\ \A t \in Threads :
         Ready(t) /\ done[t] < Len(Doing(t).plan) => Target(t) \notin devPoisoned

\* Once a write has panicked no device is touched again: a camera whose
\* registers may be half written is not driven further.
SealStopsDevices == [][sealed => trace' = trace /\ sealed']_vars

\* Every request is answered, or the process is gone and the kernel answers.
Answered ==
  \A r \in Requests : <>(reply[r] # "none" \/ ~alive)
===============================================================================
