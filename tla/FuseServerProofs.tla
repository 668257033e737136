--------------------------- MODULE FuseServerProofs ---------------------------
(***************************************************************************)
(* Proofs that the safety properties of FuseServer hold, and that it       *)
(* implements AtomicCamera, for any number of pool threads, register sets  *)
(* and requests, for any menu of operations of the code and both build     *)
(* profiles.                                                               *)
(***************************************************************************)
EXTENDS FuseServerInv, FuseServerAtomic, SequenceTheorems, TLAPS

-----------------------------------------------------------------------------
(* The operations.                                                         *)

Accesses(S) == [chan : S, dir : {"read", "write"}]

\* The channels whose mutex an operation takes.
Sites(o) == {o.locks[i] : i \in DOMAIN o.locks}

\* What the locking discipline relies on: only a write takes two mutexes, two
\* different ones, only a write makes more than one access, and an operation
\* accesses only channels whose mutex it takes.
OpOK(o) ==
  /\ o.call \in {"is_dir", "read", "write"}
  /\ o.locks \in Seq(Channels)
  /\ o.plan \in Seq(Accesses(Sites(o)))
  /\ Len(o.locks) > 1 => o.call = "write"
  /\ \A i, j \in DOMAIN o.locks : o.locks[i] = o.locks[j] => i = j
  /\ Len(o.plan) > 1 => o.call = "write"

\* The accesses of a value write are well formed.
LEMMA PlansOK ==
  ASSUME NEW S, NEW c \in S, NEW m \in BOOLEAN, NEW s \in BOOLEAN
  PROVE  /\ ReadReal(c) \in Seq(Accesses(S)) /\ Len(ReadReal(c)) = 1
         /\ ChannelWrite(c, s) \in Seq(Accesses(S))
         /\ ValueWrite(c, m, s) \in Seq(Accesses(S))
<1>1. ReadReal(c) \in Seq(Accesses(S)) /\ Len(ReadReal(c)) = 1
  BY DEF ReadReal, Accesses
<1>2. WriteReal(c) \in Seq(Accesses(S))
  BY DEF WriteReal, Accesses
<1>3. ChannelWrite(c, s) \in Seq(Accesses(S))
  BY <1>1, <1>2 DEF ChannelWrite
<1>4. QED
  BY <1>1, <1>3 DEF ValueWrite

\* So are those of Reset.
LEMMA ResetPlanOK ==
  ASSUME NEW S, Sensor \in S, SensorIo \in S
  PROVE  ResetPlan \in Seq(Accesses(S))
<1>1. /\ ChannelWrite(SensorIo, FALSE) \in Seq(Accesses(S))
      /\ ChannelWrite(Sensor, TRUE) \in Seq(Accesses(S))
  BY PlansOK
<1>2. \A a, b \in Seq(Accesses(S)) : a \o b \in Seq(Accesses(S))
  OBVIOUS
<1>3. ChannelWrite(SensorIo, FALSE) \o ChannelWrite(SensorIo, FALSE)
        \in Seq(Accesses(S))
  BY <1>1, <1>2, Zenon
<1>4. ChannelWrite(SensorIo, FALSE) \o ChannelWrite(SensorIo, FALSE)
        \o ChannelWrite(Sensor, TRUE) \in Seq(Accesses(S))
  BY <1>1, <1>2, <1>3, Zenon
<1>5. QED
  BY <1>1, <1>2, <1>4, Zenon DEF ResetPlan

\* Every operation of the code has the shape OpOK asks for.
LEMMA OperationsOK == \A o \in Menu : OpOK(o)
<1>1. SUFFICES ASSUME NEW o \in Operations PROVE OpOK(o)
  BY ServerAssumption
<1>2. \A l \in Places : /\ l \in Seq(Channels) /\ Len(l) <= 1
                        /\ \A i, j \in DOMAIN l : l[i] = l[j] => i = j
  <2>1. TAKE l \in Places
  <2>2. CASE l = <<>>
    BY <2>2
  <2>3. CASE \E c \in Channels : l = <<c>>
    BY <2>3
  <2>4. QED
    BY <2>2, <2>3 DEF Places
<1>3. Len(<<>>) = 0 /\ \A S : <<>> \in Seq(S)
  OBVIOUS
<1>4. CASE \E k \in {"is_dir", "read", "write"}, l \in Places : o = Op(k, l, <<>>)
  BY <1>2, <1>3, <1>4 DEF OpOK, Op
<1>5. CASE \E c \in Channels : o = Op("read", <<c>>, ReadReal(c))
  <2>1. PICK c \in Channels : o = Op("read", <<c>>, ReadReal(c))
    BY <1>5
  <2>2. o.call = "read" /\ o.locks = <<c>> /\ o.plan = ReadReal(c)
    BY <2>1 DEF Op
  <2>3. /\ o.locks \in Seq(Channels) /\ Len(o.locks) = 1
        /\ \A i, j \in DOMAIN o.locks : o.locks[i] = o.locks[j] => i = j
    BY <2>2
  <2>4. ReadReal(c) \in Seq(Accesses(Sites(o))) /\ Len(ReadReal(c)) = 1
    <3>1. c \in Sites(o)
      BY <2>2 DEF Sites
    <3>2. QED
      BY <3>1, PlansOK, Zenon
  <2>5. QED
    BY <2>2, <2>3, <2>4 DEF OpOK
<1>6. CASE \E c \in Channels, m, s \in BOOLEAN :
             o = Op("write", <<c>>, ValueWrite(c, m, s))
  <2>1. PICK c \in Channels, m \in BOOLEAN, s \in BOOLEAN :
             o = Op("write", <<c>>, ValueWrite(c, m, s))
    BY <1>6
  <2>2. o.call = "write" /\ o.locks = <<c>> /\ o.plan = ValueWrite(c, m, s)
    BY <2>1 DEF Op
  <2>3. /\ o.locks \in Seq(Channels) /\ Len(o.locks) = 1
        /\ \A i, j \in DOMAIN o.locks : o.locks[i] = o.locks[j] => i = j
    BY <2>2
  <2>4. ValueWrite(c, m, s) \in Seq(Accesses(Sites(o)))
    <3>1. c \in Sites(o)
      BY <2>2 DEF Sites
    <3>2. QED
      BY <3>1, PlansOK, Zenon
  <2>5. QED
    BY <2>2, <2>3, <2>4 DEF OpOK
<1>7. CASE \E plan \in {<<>>, ResetPlan} : o = Op("write", <<Sensor, SensorIo>>, plan)
  <2>1. /\ <<Sensor, SensorIo>> \in Seq(Channels)
        /\ \A i, j \in DOMAIN <<Sensor, SensorIo>> :
             <<Sensor, SensorIo>>[i] = <<Sensor, SensorIo>>[j] => i = j
    BY ServerAssumption
  <2>2. o.call = "write" /\ o.locks = <<Sensor, SensorIo>> /\ o.plan \in {<<>>, ResetPlan}
    BY <1>7 DEF Op
  <2>3. Sensor \in Sites(o) /\ SensorIo \in Sites(o)
    <3>1. /\ 1 \in DOMAIN o.locks /\ o.locks[1] = Sensor
          /\ 2 \in DOMAIN o.locks /\ o.locks[2] = SensorIo
      BY <2>2
    <3>2. QED
      BY <3>1 DEF Sites
  <2>4. \A plan \in {<<>>, ResetPlan} : plan \in Seq(Accesses(Sites(o)))
    BY <1>3, <2>3, ResetPlanOK
  <2>5. QED
    BY <2>1, <2>2, <2>4 DEF OpOK
<1>8. QED
  BY <1>4, <1>5, <1>6, <1>7 DEF Operations

-----------------------------------------------------------------------------
(* The steps, sorted by what they do to the locks and the trace.           *)

\* A thread with a job works on an operation of the menu.
LEMMA ActiveThread ==
  ASSUME TypeOK, JobInv, NEW t \in Threads, pc[t] # "idle"
  PROVE  /\ job[t] \in Requests
         /\ job[t] # Nobody
         /\ status[job[t]] = "active"
         /\ Doing(t) = op[job[t]]
         /\ OpOK(Doing(t))
<1>1. job[t] \in Requests /\ job[t] # Nobody
  BY ServerAssumption DEF TypeOK, JobInv
<1>2. op[job[t]] \in Menu
  BY <1>1 DEF TypeOK
<1>3. QED
  BY <1>1, <1>2, OperationsOK DEF JobInv, Doing

\* The trace stays, or the next access of t is appended to it.
Extended(t) ==
  \/ trace' = trace
  \/ Ready(t) /\ done[t] < Len(Doing(t).plan) /\ Record(t)

\* Thread t leaves its handler and its request is answered.
Leave(t, answer) ==
  /\ alive
  /\ pc[t] # "idle"
  /\ Release(t, answer)
  /\ Extended(t)
  /\ answer = "ok" =>
       /\ Ready(t)
       /\ done[t] = Len(Doing(t).plan)
       /\ trace' = trace
  /\ \/ UNCHANGED <<sealed, poisoned>>
     \/ /\ answer = "eio"
        /\ sealed' = (sealed \/ writer = t)
        /\ poisoned' = poisoned \cup Locked(t)
  /\ opened' \in SUBSET Channels
  /\ devPoisoned' \in SUBSET Channels
  /\ UNCHANGED <<op, queue, alive>>

\* A panic of thread t ends the process.
Abort(t) ==
  /\ alive
  /\ alive' = FALSE
  /\ pc[t] # "idle"
  /\ Extended(t)
  /\ opened' \in SUBSET Channels
  /\ devPoisoned' \in SUBSET Channels
  /\ UNCHANGED <<op, status, reply, queue, threadVars, lockVars>>

\* What a panicking thread does is one or the other.
LEMMA PanicLeavesOrAborts ==
  ASSUME TypeOK, NEW t \in Threads, alive, pc[t] # "idle", Panic(t), Extended(t),
         opened' \in SUBSET Channels, devPoisoned' \in SUBSET Channels
  PROVE  Abort(t) \/ Leave(t, "eio")
<1>1. CASE PanicAbort \/ t = Dispatcher
  BY <1>1 DEF Panic, Abort
<1>2. CASE ~(PanicAbort \/ t = Dispatcher)
  BY <1>2 DEF Panic, Leave
<1>3. QED
  BY <1>1, <1>2

\* The channel of the next access is one of the camera.
LEMMA TargetOK ==
  ASSUME TypeOK, JobInv, NEW t \in Threads, Ready(t),
         done[t] < Len(Doing(t).plan)
  PROVE  Target(t) \in Sites(Doing(t)) /\ Target(t) \in Channels
<1>1. Doing(t).plan \in Seq(Accesses(Sites(Doing(t))))
  BY ActiveThread DEF Ready, OpOK
<1>2. done[t] + 1 \in 1 .. Len(Doing(t).plan)
  BY <1>1 DEF TypeOK
<1>3. Doing(t).plan[done[t] + 1] \in Accesses(Sites(Doing(t)))
  BY <1>1, <1>2
<1>4. Target(t) \in Sites(Doing(t))
  BY <1>3 DEF Target, Accesses
<1>5. Doing(t).locks \in Seq(Channels)
  BY ActiveThread DEF Ready, OpOK
<1>6. QED
  BY <1>4, <1>5 DEF Sites

\* The steps of a thread.
LEMMA StepCases ==
  ASSUME TypeOK, JobInv, NEW t \in Threads, Step(t)
  PROVE  \/ EnterShared(t) \/ EnterExclusive(t)
         \/ LockChannel(t) \/ AccessOk(t)
         \/ Abort(t) \/ \E a \in {"ok", "err", "eio"} : Leave(t, a)
<1>1. /\ opened \in SUBSET Channels
      /\ devPoisoned \in SUBSET Channels
  BY DEF TypeOK
<1>2. CASE EnterSealed(t)
  BY <1>1, <1>2, PanicLeavesOrAborts DEF EnterSealed, devVars, Extended
<1>3. CASE LockPoisoned(t)
  BY <1>1, <1>3, PanicLeavesOrAborts DEF LockPoisoned, devVars, Extended
<1>4. CASE OpenFails(t)
  BY <1>1, <1>4 DEF OpenFails, Return, Leave, Extended, devVars, Ready
<1>5. CASE TransferFails(t)
  BY <1>1, <1>5, TargetOK DEF TransferFails, Return, Leave, Extended, Ready
<1>6. CASE TransferPanics(t)
  <2>1. /\ opened' \in SUBSET Channels
        /\ devPoisoned' \in SUBSET Channels
    BY <1>1, <1>6, TargetOK DEF TransferPanics
  <2>2. Extended(t) /\ alive /\ pc[t] # "idle" /\ Panic(t)
    BY <1>6 DEF TransferPanics, Extended, Ready
  <2>3. QED
    BY <2>1, <2>2, PanicLeavesOrAborts
<1>7. CASE Refuse(t)
  BY <1>1, <1>7 DEF Refuse, Return, Leave, Extended, devVars, Ready
<1>8. CASE HandlerPanics(t)
  BY <1>1, <1>8, PanicLeavesOrAborts DEF HandlerPanics, devVars, Extended, Ready
<1>9. CASE Finish(t)
  BY <1>1, <1>9 DEF Finish, Return, Leave, Extended, devVars, Ready
<1>10. QED
  BY <1>2, <1>3, <1>4, <1>5, <1>6, <1>7, <1>8, <1>9
  DEF Step, Enter, Work

-----------------------------------------------------------------------------
(* The trace.                                                              *)

\* What a request has made does not change while the trace does not.
LEMMA MadeSame ==
  ASSUME trace' = trace, NEW r, NEW k
  PROVE  MadeExactly(r, k)' <=> MadeExactly(r, k)
BY DEF MadeExactly

LEMMA SeqElements ==
  ASSUME NEW S, NEW s \in Seq(S)
  PROVE  \A i \in DOMAIN s : s[i] \in S
OBVIOUS

\* One entry, e, is added at the end of the trace.
Longer(e) ==
  /\ trace \in Seq([req : Requests, step : Nat])
  /\ trace' \in Seq([req : Requests, step : Nat])
  /\ Len(trace) \in Nat
  /\ DOMAIN trace = 1 .. Len(trace)
  /\ DOMAIN trace' = 1 .. Len(trace) + 1
  /\ Len(trace') = Len(trace) + 1
  /\ \A i \in 1 .. Len(trace) : trace'[i] = trace[i]
  /\ trace'[Len(trace) + 1] = e

\* That is what an access does.
LEMMA RecordTrace ==
  ASSUME TypeOK, JobInv, NEW t \in Threads, pc[t] # "idle", Record(t)
  PROVE  Longer([req |-> job[t], step |-> done[t] + 1])
<1>1. [req |-> job[t], step |-> done[t] + 1] \in [req : Requests, step : Nat]
  BY ActiveThread DEF TypeOK
<1>2. trace \in Seq([req : Requests, step : Nat])
  BY DEF TypeOK
<1>3. QED
  BY <1>1, <1>2 DEF Record, Longer

\* An access makes the next step of its request, and none of another.
LEMMA RecordMade ==
  ASSUME TypeOK, JobInv, NEW t \in Threads, pc[t] # "idle", Record(t)
  PROVE  /\ MadeExactly(job[t], done[t]) =>
              \A r, k : r = job[t] /\ k = done[t] + 1 => MadeExactly(r, k)'
         /\ \A r, k : r # job[t] /\ MadeExactly(r, k) => MadeExactly(r, k)'
<1> DEFINE e == [req |-> job[t], step |-> done[t] + 1]
<1>1. done[t] \in Nat /\ Longer(e)
  BY RecordTrace DEF TypeOK
<1> HIDE DEF e
<1>2. ASSUME MadeExactly(job[t], done[t]), NEW r, NEW k,
             r = job[t], k = done[t] + 1
      PROVE  MadeExactly(r, k)'
  <2>1. e = [req |-> r, step |-> k]
    BY <1>2 DEF e
  <2>2. ASSUME NEW i \in DOMAIN trace', trace'[i].req = r
        PROVE  trace'[i].step \in 1 .. k
    <3>1. CASE i = Len(trace) + 1
      BY <3>1, <2>1, <1>1, <1>2 DEF Longer
    <3>2. CASE i # Len(trace) + 1
      <4>1. i \in DOMAIN trace /\ trace'[i] = trace[i]
        BY <3>2, <2>2, <1>1 DEF Longer
      <4>2. trace[i].step \in 1 .. done[t]
        BY <4>1, <2>2, <1>2 DEF MadeExactly
      <4>3. QED
        BY <4>1, <4>2, <1>1, <1>2
    <3>3. QED
      BY <3>1, <3>2
  <2>3. ASSUME NEW n \in 1 .. k
        PROVE  \E i \in DOMAIN trace' : trace'[i] = [req |-> r, step |-> n]
    <3>1. CASE n = k
      BY <3>1, <2>1, <1>1, SMTT(30) DEF Longer
    <3>2. CASE n # k
      <4>1. n \in 1 .. done[t]
        BY <3>2, <1>1, <1>2
      <4>2. PICK i \in DOMAIN trace : trace[i] = [req |-> r, step |-> n]
        BY <4>1, <1>2 DEF MadeExactly
      <4>3. QED
        BY <4>2, <1>1 DEF Longer
    <3>3. QED
      BY <3>1, <3>2
  <2>4. QED
    BY <2>2, <2>3 DEF MadeExactly
<1>3. ASSUME NEW r, NEW k, r # job[t], MadeExactly(r, k)
      PROVE  MadeExactly(r, k)'
  <2>1. e.req = job[t]
    BY DEF e
  <2>2. \A i \in DOMAIN trace' : trace'[i].req = r => trace'[i].step \in 1 .. k
    BY <1>1, <1>3, <2>1 DEF MadeExactly, Longer
  <2>3. ASSUME NEW n \in 1 .. k
        PROVE  \E i \in DOMAIN trace' : trace'[i] = [req |-> r, step |-> n]
    <3>1. PICK i \in DOMAIN trace : trace[i] = [req |-> r, step |-> n]
      BY <1>3 DEF MadeExactly
    <3>2. QED
      BY <3>1, <1>1 DEF Longer
  <2>4. QED
    BY <2>2, <2>3 DEF MadeExactly
<1>4. QED
  BY <1>2, <1>3

\* Before its next access, the accesses a request has made are the last of the
\* trace: a writer is alone, and a read makes only one.
LEMMA LastAccesses ==
  ASSUME IInv, NEW t \in Threads, Ready(t), done[t] < Len(Doing(t).plan)
  PROVE  \A i \in DOMAIN trace :
           trace[i].req = job[t] <=> i > Len(trace) - done[t]
<1>1. pc[t] = "inside" /\ alive
  BY DEF Ready
<1>2. CASE Doing(t).call = "write"
  <2>1. writer = t
    BY <1>1, <1>2 DEF IInv, InnerInv
  <2>2. QED
    BY <1>1, <2>1 DEF IInv, TraceInv
<1>3. CASE Doing(t).call # "write"
  <2>1. OpOK(Doing(t)) /\ job[t] # Nobody
    BY <1>1, ActiveThread DEF IInv
  <2>2. done[t] = 0
    BY <1>3, <2>1 DEF OpOK, IInv, TypeOK
  <2>3. MadeExactly(job[t], 0)
    BY <1>1, <2>1, <2>2 DEF IInv, TraceInv
  <2>4. \A i \in DOMAIN trace : trace[i].req # job[t]
    BY <2>3 DEF MadeExactly
  <2>5. QED
    BY <2>2, <2>4 DEF IInv, TypeOK
<1>4. QED
  BY <1>2, <1>3

\* So an access keeps the requests apart.
LEMMA ExtendedSerial ==
  ASSUME IInv, NEW t \in Threads, pc[t] # "idle", Extended(t)
  PROVE  Serial'
<1>1. CASE trace' = trace
  BY <1>1 DEF IInv, Serial
<1>2. CASE Ready(t) /\ done[t] < Len(Doing(t).plan) /\ Record(t)
  <2> DEFINE e == [req |-> job[t], step |-> done[t] + 1]
  <2>1. Longer(e) /\ e.req = job[t]
    BY <1>2, RecordTrace DEF IInv
  <2> HIDE DEF e
  <2>2. \A i \in DOMAIN trace : trace[i].req = job[t] <=> i > Len(trace) - done[t]
    BY <1>2, LastAccesses
  <2>3. done[t] \in Nat /\ Serial
    BY DEF IInv, TypeOK
  <2>4. SUFFICES ASSUME NEW i \in DOMAIN trace', NEW j \in DOMAIN trace',
                        NEW k \in DOMAIN trace',
                        i < j, j < k, trace'[i].req = trace'[k].req
                 PROVE  trace'[j].req = trace'[i].req
    BY DEF Serial
  <2>5. /\ i \in DOMAIN trace /\ trace'[i] = trace[i]
        /\ j \in DOMAIN trace /\ trace'[j] = trace[j]
    BY <2>1, <2>4 DEF Longer
  <2>6. CASE k \in DOMAIN trace
    <3>1. trace'[k] = trace[k]
      BY <2>1, <2>6 DEF Longer
    <3>2. QED
      BY <3>1, <2>3, <2>4, <2>5, <2>6 DEF Serial
  <2>7. CASE k = Len(trace) + 1
    <3>1. trace[i].req = job[t]
      BY <2>1, <2>4, <2>5, <2>7 DEF Longer
    <3>2. i > Len(trace) - done[t] /\ i < j
      BY <3>1, <2>2, <2>4, <2>5
    <3>3. j > Len(trace) - done[t]
      BY <3>2, <2>1, <2>3, <2>5 DEF Longer
    <3>4. trace[j].req = job[t]
      BY <3>3, <2>2, <2>5
    <3>5. QED
      BY <2>5, <3>1, <3>4
  <2>8. QED
    BY <2>1, <2>6, <2>7 DEF Longer
<1>3. QED
  BY <1>1, <1>2 DEF Extended

-----------------------------------------------------------------------------
(* The invariant holds initially.                                          *)

LEMMA InitIInv == Init => IInv
<1> SUFFICES ASSUME Init PROVE IInv
  OBVIOUS
<1>1. /\ trace = <<>> /\ queue = <<>> /\ DOMAIN trace = {} /\ DOMAIN queue = {}
      /\ Len(trace) = 0
  BY DEF Init
<1>2. TypeOK
  <2>1. /\ trace \in Seq([req : Requests, step : Nat]) /\ queue \in Seq(Requests)
        /\ 0 \in Nat
    BY <1>1
  <2>2. /\ status \in [Requests -> {"pending", "queued", "active", "replied"}]
        /\ reply \in [Requests -> {"none", "ok", "err", "eio"}]
        /\ job \in [Threads -> Requests \cup {Nobody}]
        /\ pc \in [Threads -> {"idle", "entering", "inside"}]
        /\ held \in [Threads -> Nat]
        /\ done \in [Threads -> Nat]
        /\ mutex \in [Channels -> Threads \cup {Nobody}]
    BY <2>1 DEF Init
  <2>3. \A t \in Threads : held[t] = 0 /\ done[t] = 0
    BY DEF Init
  <2>4. QED
    BY <2>1, <2>2, <2>3 DEF Init, TypeOK
<1>3. JobInv
  BY <1>1, ServerAssumption DEF Init, JobInv, Threads
<1>4. InnerInv
  BY ServerAssumption DEF Init, InnerInv, Threads
<1>5. MutexInv
  BY ServerAssumption DEF Init, MutexInv, Threads
<1>6. TraceInv
  BY <1>1, ServerAssumption DEF Init, TraceInv, Threads
<1>7. Serial
  BY <1>1 DEF Serial
<1>8. OkMeansAll
  <2>1. \A r \in Requests : MadeExactly(r, 0)
    BY <1>1 DEF MadeExactly
  <2>2. \A r \in Requests : Len(op[r].plan) \in Nat
    BY <1>2, OperationsOK DEF TypeOK, OpOK
  <2>3. \A r \in Requests : reply[r] # "ok"
    BY DEF Init
  <2>4. QED
    BY <2>1, <2>2, <2>3 DEF OkMeansAll
<1>9. PoisonHasCulprit
  BY DEF Init, PoisonHasCulprit
<1>10. QED
  BY <1>2, <1>3, <1>4, <1>5, <1>6, <1>7, <1>8, <1>9 DEF IInv

-----------------------------------------------------------------------------
(* Every step keeps it.                                                    *)

\* What only speaks of the trace, the answers and the poison is kept by a step
\* that changes none of them.
LEMMA QuietStep ==
  ASSUME IInv, UNCHANGED <<op, reply, trace, sealed, poisoned>>
  PROVE  Serial' /\ OkMeansAll' /\ PoisonHasCulprit'
<1>1. Serial'
  BY DEF IInv, Serial
<1>2. OkMeansAll'
  BY MadeSame DEF IInv, OkMeansAll
<1>3. PoisonHasCulprit'
  BY DEF IInv, PoisonHasCulprit
<1>4. QED
  BY <1>1, <1>2, <1>3

\* Thread t starts to work on request r.
Begin(t, r) ==
  /\ alive
  /\ pc[t] = "idle"
  /\ \/ status[r] = "pending" /\ queue' = queue
     \/ queue # <<>> /\ r = Head(queue) /\ queue' = Tail(queue)
  /\ status' = [status EXCEPT ![r] = "active"]
  /\ job' = [job EXCEPT ![t] = r]
  /\ pc' = [pc EXCEPT ![t] = "entering"]
  /\ UNCHANGED <<op, reply, held, done, lockVars, devVars, alive>>

LEMMA BeginKeeps ==
  ASSUME IInv, NEW t \in Threads, NEW r \in Requests, Begin(t, r)
  PROVE  IInv'
<1>1. /\ TypeOK /\ JobInv /\ InnerInv /\ MutexInv /\ TraceInv
      /\ r # Nobody /\ Nobody \notin Threads
  BY ServerAssumption DEF IInv
<1>2. /\ queue \in Seq(Requests)
      /\ queue' \in Seq(Requests)
      /\ status[r] \in {"pending", "queued"}
      /\ \A i \in DOMAIN queue' :
           /\ queue'[i] # r
           /\ \E j \in DOMAIN queue : queue'[i] = queue[j]
      /\ \A i, j \in DOMAIN queue' : queue'[i] = queue'[j] => i = j
  <2>1. CASE status[r] = "pending" /\ queue' = queue
    BY <1>1, <2>1 DEF TypeOK, JobInv
  <2>2. CASE queue # <<>> /\ r = Head(queue) /\ queue' = Tail(queue)
    <3>1. /\ queue \in Seq(Requests) /\ Len(queue) \in Nat \ {0}
          /\ DOMAIN queue = 1 .. Len(queue)
      BY <1>1, <2>2 DEF TypeOK
    <3>2. /\ queue' \in Seq(Requests) /\ DOMAIN queue' = 1 .. Len(queue) - 1
          /\ \A i \in 1 .. Len(queue) - 1 : queue'[i] = queue[i + 1]
          /\ r = queue[1]
      BY <3>1, <2>2
    <3>3. \A i \in 1 .. Len(queue) - 1 : i + 1 \in DOMAIN queue /\ i + 1 # 1
      BY <3>1
    <3>4. 1 \in DOMAIN queue
      BY <3>1
    <3>5. status[r] = "queued"
      BY <1>1, <3>2, <3>4 DEF JobInv
    <3>6. \A i \in DOMAIN queue' :
            queue'[i] # r /\ \E j \in DOMAIN queue : queue'[i] = queue[j]
      BY <1>1, <3>2, <3>3, <3>4 DEF JobInv
    <3>7. \A i, j \in DOMAIN queue' : queue'[i] = queue'[j] => i = j
      <4>1. TAKE i, j \in DOMAIN queue'
      <4>2. HAVE queue'[i] = queue'[j]
      <4>3. i + 1 = j + 1
        BY <4>2, <1>1, <3>2, <3>3 DEF JobInv
      <4>4. QED
        BY <4>3, <3>1, <3>2
    <3>8. QED
      BY <3>1, <3>2, <3>5, <3>6, <3>7
  <2>3. QED
    BY <2>1, <2>2 DEF Begin
<1>3. TypeOK'
  BY <1>1, <1>2 DEF Begin, TypeOK, lockVars, devVars
<1>4. JobInv'
  <2>1. \A u \in Threads : job[u] # r
    BY <1>1, <1>2 DEF JobInv
  <2>2. /\ \A u \in Threads : job'[u] = IF u = t THEN r ELSE job[u]
        /\ \A u \in Threads : pc'[u] = IF u = t THEN "entering" ELSE pc[u]
        /\ \A q \in Requests : status'[q] = IF q = r THEN "active" ELSE status[q]
        /\ reply' = reply
    BY <1>1 DEF Begin, TypeOK
  <2>3. \A i \in DOMAIN queue' : status'[queue'[i]] = "queued"
    BY <1>1, <1>2, <2>2 DEF TypeOK, JobInv
  <2>4. \A u \in Threads : job[u] # Nobody => job[u] \in Requests
    BY <1>1 DEF TypeOK
  <2>5. reply[r] = "none"
    BY <1>1, <1>2 DEF JobInv
  <2>6. QED
    BY <1>1, <1>2, <2>1, <2>2, <2>3, <2>4, <2>5 DEF JobInv
<1>5. InnerInv'
  BY <1>1 DEF Begin, TypeOK, InnerInv, lockVars, Doing
<1>6. MutexInv'
  <2>1. /\ mutex' = mutex /\ held' = held /\ done' = done /\ op' = op
        /\ pc[t] = "idle" /\ pc'[t] = "entering"
        /\ \A u \in Threads \ {t} : pc'[u] = pc[u] /\ job'[u] = job[u]
    BY <1>1 DEF Begin, TypeOK, lockVars
  <2>2. \A c \in Channels : mutex[c] # t
    BY <1>1, <2>1 DEF MutexInv
  <2>3. QED
    BY <1>1, <2>1, <2>2 DEF MutexInv, Doing
<1>7. TraceInv'
  <2>1. trace \in Seq([req : Requests, step : Nat])
    BY <1>1 DEF TypeOK
  <2>2. \A i \in DOMAIN trace : trace[i].req \in Requests /\ trace[i].req # r
    <3>1. \A i \in DOMAIN trace : trace[i] \in [req : Requests, step : Nat]
      BY <2>1, SeqElements
    <3>2. QED
      BY <1>1, <1>2, <3>1 DEF TraceInv
  <2>3. /\ trace' = trace /\ alive' = alive /\ writer' = writer /\ done' = done
        /\ \A u \in Threads : job'[u] = IF u = t THEN r ELSE job[u]
        /\ \A q \in Requests : status'[q] = IF q = r THEN "active" ELSE status[q]
    BY <1>1 DEF Begin, TypeOK, lockVars, devVars
  <2>4. MadeExactly(r, 0) /\ done[t] = 0 /\ writer # t
    BY <1>1, <2>2 DEF MadeExactly, Begin, TypeOK, InnerInv
  <2>5. \A i \in DOMAIN trace' : status'[trace'[i].req] \in {"active", "replied"}
    BY <1>1, <2>2, <2>3 DEF TraceInv
  <2>6. ASSUME NEW u \in Threads, alive, job'[u] # Nobody
        PROVE  MadeExactly(job[u], done[u])'
    <3>1. \A q, k : MadeExactly(q, k)' <=> MadeExactly(q, k)
      BY <2>3, MadeSame
    <3>2. MadeExactly(job'[u], done'[u])
      BY <1>1, <2>3, <2>4, <2>6 DEF TraceInv
    <3>3. QED
      BY <3>1, <3>2
  <2>7. QED
    BY <1>1, <2>3, <2>4, <2>5, <2>6 DEF TraceInv
<1>8. Serial' /\ OkMeansAll' /\ PoisonHasCulprit'
  BY QuietStep DEF Begin, lockVars, devVars
<1>9. QED
  BY <1>3, <1>4, <1>5, <1>6, <1>7, <1>8 DEF IInv

LEMMA DispatchToPoolKeeps ==
  ASSUME IInv, NEW r \in Requests, DispatchToPool(r)
  PROVE  IInv'
<1>1. /\ TypeOK /\ JobInv /\ InnerInv /\ MutexInv /\ TraceInv
      /\ status[r] = "pending"
  BY DEF IInv, DispatchToPool
<1>2. /\ queue \in Seq(Requests) /\ queue' \in Seq(Requests)
      /\ Len(queue) \in Nat
      /\ DOMAIN queue = 1 .. Len(queue)
      /\ DOMAIN queue' = 1 .. Len(queue) + 1
      /\ \A i \in 1 .. Len(queue) : queue'[i] = queue[i]
      /\ queue'[Len(queue) + 1] = r
  BY <1>1 DEF DispatchToPool, TypeOK
<1>3. /\ \A q \in Requests : status'[q] = IF q = r THEN "queued" ELSE status[q]
      /\ UNCHANGED <<op, reply, job, pc, held, done, readers, writer, sealed>>
      /\ UNCHANGED <<mutex, poisoned, opened, devPoisoned, trace, alive>>
  BY <1>1 DEF DispatchToPool, TypeOK, threadVars, lockVars, devVars
<1>4. TypeOK'
  BY <1>1, <1>2 DEF DispatchToPool, TypeOK, threadVars, lockVars, devVars
<1>5. JobInv'
  <2>1. \A i \in 1 .. Len(queue) : queue[i] # r /\ queue[i] \in Requests
    BY <1>1, <1>2 DEF JobInv
  <2>2. \A i \in DOMAIN queue' : status'[queue'[i]] = "queued"
    BY <1>1, <1>2, <1>3, <2>1 DEF JobInv
  <2>3. \A i, j \in DOMAIN queue' : queue'[i] = queue'[j] => i = j
    BY <1>1, <1>2, <2>1 DEF JobInv
  <2>4. \A t \in Threads : job[t] # Nobody => job[t] \in Requests /\ job[t] # r
    BY <1>1 DEF JobInv, TypeOK
  <2>5. QED
    BY <1>1, <1>3, <2>2, <2>3, <2>4 DEF JobInv
<1>6. InnerInv' /\ MutexInv'
  BY <1>1, <1>3 DEF InnerInv, MutexInv, Doing
<1>7. TraceInv'
  <2>1. \A i \in DOMAIN trace : trace[i] \in [req : Requests, step : Nat]
    BY <1>1, SeqElements DEF TypeOK
  <2>2. \A i \in DOMAIN trace : trace[i].req # r
    BY <1>1 DEF TraceInv
  <2>3. \A q, k : MadeExactly(q, k)' <=> MadeExactly(q, k)
    BY <1>3, MadeSame
  <2>4. \A i \in DOMAIN trace' : status'[trace'[i].req] \in {"active", "replied"}
    BY <1>1, <1>3, <2>1, <2>2 DEF TraceInv
  <2>5. QED
    BY <1>1, <1>3, <2>3, <2>4 DEF TraceInv
<1>8. Serial' /\ OkMeansAll' /\ PoisonHasCulprit'
  BY <1>3, QuietStep
<1>9. QED
  BY <1>4, <1>5, <1>6, <1>7, <1>8 DEF IInv

\* What only speaks of the requests is kept by a step that changes none.
LEMMA SameJobs ==
  ASSUME JobInv, UNCHANGED <<status, reply, queue, job>>,
         \A t \in Threads : pc'[t] = "idle" <=> pc[t] = "idle"
  PROVE  JobInv'
BY DEF JobInv

LEMMA EnterSharedKeeps ==
  ASSUME IInv, NEW t \in Threads, EnterShared(t)
  PROVE  IInv'
<1>1. /\ TypeOK /\ JobInv /\ InnerInv /\ MutexInv /\ TraceInv
      /\ held[t] = 0 /\ done[t] = 0 /\ Nobody \notin Threads
  BY ServerAssumption DEF IInv, EnterShared, TypeOK, Threads
<1>2. /\ pc[t] = "entering" /\ Doing(t).call # "write" /\ writer = Nobody /\ ~sealed
      /\ \A u \in Threads : pc'[u] = IF u = t THEN "inside" ELSE pc[u]
      /\ readers' = readers \cup {t}
      /\ UNCHANGED <<op, status, reply, queue, job, held, done, writer, sealed>>
      /\ UNCHANGED <<mutex, poisoned, opened, devPoisoned, trace, alive>>
  BY <1>1 DEF EnterShared, TypeOK, devVars
<1>3. TypeOK'
  BY <1>1, <1>2 DEF EnterShared, TypeOK
<1>4. JobInv'
  BY <1>1, <1>2, SameJobs
<1>5. InnerInv'
  BY <1>1, <1>2 DEF InnerInv, Doing
<1>6. MutexInv'
  <2>1. \A c \in Channels : mutex[c] # t
    BY <1>1, <1>2 DEF MutexInv
  <2>2. Len(Doing(t).locks) \in Nat /\ Len(Doing(t).plan) \in Nat
    BY <1>1, <1>2, ActiveThread DEF OpOK
  <2>3. QED
    BY <1>1, <1>2, <2>1, <2>2 DEF MutexInv, Doing
<1>7. TraceInv'
  <2>1. \A q, k : MadeExactly(q, k)' <=> MadeExactly(q, k)
    BY <1>2, MadeSame
  <2>2. QED
    BY <1>1, <1>2, <2>1 DEF TraceInv
<1>8. Serial' /\ OkMeansAll' /\ PoisonHasCulprit'
  BY <1>2, QuietStep
<1>9. QED
  BY <1>3, <1>4, <1>5, <1>6, <1>7, <1>8 DEF IInv

LEMMA EnterExclusiveKeeps ==
  ASSUME IInv, NEW t \in Threads, EnterExclusive(t)
  PROVE  IInv'
<1>1. /\ TypeOK /\ JobInv /\ InnerInv /\ MutexInv /\ TraceInv
      /\ held[t] = 0 /\ done[t] = 0 /\ Nobody \notin Threads
  BY ServerAssumption DEF IInv, EnterExclusive, TypeOK, Threads
<1>2. /\ pc[t] = "entering" /\ Doing(t).call = "write" /\ writer = Nobody
      /\ readers = {} /\ ~sealed
      /\ \A u \in Threads : pc'[u] = IF u = t THEN "inside" ELSE pc[u]
      /\ writer' = t
      /\ UNCHANGED <<op, status, reply, queue, job, held, done, readers, sealed>>
      /\ UNCHANGED <<mutex, poisoned, opened, devPoisoned, trace, alive>>
  BY <1>1 DEF EnterExclusive, TypeOK, devVars
<1>3. TypeOK'
  BY <1>1, <1>2 DEF EnterExclusive, TypeOK
<1>4. JobInv'
  BY <1>1, <1>2, SameJobs
<1>5. InnerInv'
  BY <1>1, <1>2 DEF InnerInv, Doing
<1>6. MutexInv'
  <2>1. \A c \in Channels : mutex[c] # t
    BY <1>1, <1>2 DEF MutexInv
  <2>2. Len(Doing(t).locks) \in Nat /\ Len(Doing(t).plan) \in Nat
    BY <1>1, <1>2, ActiveThread DEF OpOK
  <2>3. QED
    BY <1>1, <1>2, <2>1, <2>2 DEF MutexInv, Doing
<1>7. TraceInv'
  <2>1. \A q, k : MadeExactly(q, k)' <=> MadeExactly(q, k)
    BY <1>2, MadeSame
  <2>2. /\ trace \in Seq([req : Requests, step : Nat]) /\ Len(trace) \in Nat
        /\ DOMAIN trace = 1 .. Len(trace)
    BY <1>1 DEF TypeOK
  <2>3. alive => MadeExactly(job[t], 0)
    BY <1>1, <1>2 DEF TraceInv, JobInv
  <2>4. alive => \A i \in DOMAIN trace : trace[i].req # job[t]
    BY <2>3 DEF MadeExactly
  <2>5. alive => \A i \in DOMAIN trace :
          trace[i].req = job[t] <=> i > Len(trace) - done[t]
    BY <1>1, <2>2, <2>4
  <2>6. QED
    BY <1>1, <1>2, <2>1, <2>2, <2>5 DEF TraceInv
<1>8. Serial' /\ OkMeansAll' /\ PoisonHasCulprit'
  BY <1>2, QuietStep
<1>9. QED
  BY <1>3, <1>4, <1>5, <1>6, <1>7, <1>8 DEF IInv

LEMMA LockChannelKeeps ==
  ASSUME IInv, NEW t \in Threads, LockChannel(t)
  PROVE  IInv'
<1> DEFINE c == Doing(t).locks[held[t] + 1]
<1>1. /\ TypeOK /\ JobInv /\ InnerInv /\ MutexInv /\ TraceInv
      /\ Nobody \notin Threads /\ pc[t] = "inside" /\ held[t] \in Nat
      /\ held[t] < Len(Doing(t).locks)
  BY ServerAssumption DEF IInv, LockChannel, TypeOK, Threads
<1>2. Doing(t).locks \in Seq(Channels) /\ Len(Doing(t).locks) \in Nat
  BY <1>1, ActiveThread DEF OpOK
<1>3. c \in Channels
  BY <1>1, <1>2
<1>4. /\ mutex[c] = Nobody
      /\ \A e \in Channels : mutex'[e] = IF e = c THEN t ELSE mutex[e]
      /\ \A u \in Threads : held'[u] = IF u = t THEN held[t] + 1 ELSE held[u]
      /\ UNCHANGED <<op, status, reply, queue, job, pc, done, readers, writer>>
      /\ UNCHANGED <<sealed, poisoned, opened, devPoisoned, trace, alive>>
  BY <1>1, <1>3 DEF LockChannel, TypeOK, devVars
<1>5. TypeOK'
  BY <1>1, <1>3, <1>4 DEF LockChannel, TypeOK
<1>6. JobInv'
  BY <1>1, <1>4, SameJobs
<1>7. InnerInv'
  BY <1>1, <1>4 DEF InnerInv, Doing
<1>8. MutexInv'
  <2>1. \A i \in 1 .. held[t] : Doing(t).locks[i] # c
    BY <1>1, <1>3, <1>4 DEF MutexInv
  <2>2. \A e \in Channels, u \in Threads :
          mutex'[e] = u <=> /\ pc'[u] = "inside"
                            /\ \E i \in 1 .. held'[u] : Doing(u).locks[i] = e
    <3>1. TAKE e \in Channels, u \in Threads
    <3>2. CASE u = t
      <4>1. (\E i \in 1 .. held[t] + 1 : Doing(t).locks[i] = e)
              <=> e = c \/ \E i \in 1 .. held[t] : Doing(t).locks[i] = e
        BY <1>1
      <4>2. QED
        BY <3>2, <4>1, <1>1, <1>3, <1>4 DEF MutexInv
    <3>3. CASE u # t
      BY <3>3, <1>1, <1>3, <1>4 DEF MutexInv
    <3>4. QED
      BY <3>2, <3>3
  <2>3. done[t] = 0
    BY <1>1, <1>2 DEF MutexInv, TypeOK
  <2>4. \A u \in Threads : pc'[u] = "inside" =>
          /\ held'[u] <= Len(Doing(u).locks)
          /\ done'[u] <= Len(Doing(u).plan)
          /\ done'[u] > 0 => held'[u] = Len(Doing(u).locks)
    BY <1>1, <1>2, <1>4, <2>3 DEF MutexInv
  <2>5. QED
    BY <1>4, <2>2, <2>4 DEF MutexInv, Doing
<1>9. TraceInv'
  <2>1. \A q, k : MadeExactly(q, k)' <=> MadeExactly(q, k)
    BY <1>4, MadeSame
  <2>2. QED
    BY <1>1, <1>4, <2>1 DEF TraceInv
<1>10. Serial' /\ OkMeansAll' /\ PoisonHasCulprit'
  BY <1>4, QuietStep
<1>11. QED
  BY <1>5, <1>6, <1>7, <1>8, <1>9, <1>10 DEF IInv

\* The lengths of what thread t works on.
LEMMA ActiveLengths ==
  ASSUME TypeOK, JobInv, NEW t \in Threads, pc[t] # "idle"
  PROVE  /\ Len(Doing(t).locks) \in Nat
         /\ Len(Doing(t).plan) \in Nat
         /\ held[t] \in Nat
         /\ done[t] \in Nat
         /\ Doing(t).call # "write" => Len(Doing(t).plan) <= 1
<1>1. /\ Doing(t).locks \in Seq(Channels)
      /\ Doing(t).plan \in Seq(Accesses(Sites(Doing(t))))
  BY ActiveThread DEF OpOK
<1>2. QED
  BY <1>1, ActiveThread DEF OpOK, TypeOK

\* Whoever is inside besides t is no writer, and t then is none either.
LEMMA OneWriter ==
  ASSUME IInv, NEW t \in Threads, NEW u \in Threads, t # u,
         pc[t] = "inside", writer = u
  PROVE  FALSE
<1>1. t \notin readers /\ writer # t
  BY ServerAssumption DEF IInv, InnerInv, Threads
<1>2. QED
  BY <1>1 DEF IInv, InnerInv

\* What has been made, after t extended the trace or not.
LEMMA ExtendedMade ==
  ASSUME IInv, NEW t \in Threads, pc[t] # "idle", alive, Extended(t), op' = op
  PROVE  /\ \A r, k : r # job[t] /\ MadeExactly(r, k) => MadeExactly(r, k)'
         /\ \A r : r = job[t] =>
              \E k \in 0 .. Len(Doing(t).plan) : MadeExactly(r, k)'
<1>1. /\ TypeOK /\ JobInv /\ TraceInv /\ MutexInv /\ job[t] # Nobody
      /\ Len(Doing(t).plan) \in Nat /\ done[t] \in Nat
  BY ActiveThread, ActiveLengths DEF IInv
<1>2. MadeExactly(job[t], done[t])
  BY <1>1 DEF TraceInv
<1>3. done[t] <= Len(Doing(t).plan)
  BY <1>1 DEF MutexInv, TypeOK
<1>4. CASE trace' = trace
  <2>1. \A r, k : MadeExactly(r, k)' <=> MadeExactly(r, k)
    BY <1>4, MadeSame
  <2>2. done[t] \in 0 .. Len(Doing(t).plan)
    BY <1>1, <1>3
  <2>3. QED
    BY <1>2, <2>1, <2>2
<1>5. CASE Ready(t) /\ done[t] < Len(Doing(t).plan) /\ Record(t)
  <2>1. done[t] + 1 \in 0 .. Len(Doing(t).plan)
    BY <1>1, <1>5
  <2>2. \A r, k : r = job[t] /\ k = done[t] + 1 => MadeExactly(r, k)'
    BY <1>1, <1>2, <1>5, RecordMade
  <2>3. \A r, k : r # job[t] /\ MadeExactly(r, k) => MadeExactly(r, k)'
    BY <1>1, <1>5, RecordMade
  <2>4. QED
    BY <2>1, <2>2, <2>3
<1>6. QED
  BY <1>4, <1>5 DEF Extended

LEMMA AccessOkKeeps ==
  ASSUME IInv, NEW t \in Threads, AccessOk(t)
  PROVE  IInv'
<1> DEFINE e == [req |-> job[t], step |-> done[t] + 1]
<1>1. /\ TypeOK /\ JobInv /\ InnerInv /\ MutexInv /\ TraceInv /\ OkMeansAll
      /\ Nobody \notin Threads /\ alive /\ pc[t] = "inside" /\ Ready(t)
      /\ held[t] = Len(Doing(t).locks)
      /\ job[t] \in Requests /\ job[t] # Nobody /\ status[job[t]] = "active"
      /\ done[t] \in Nat /\ Len(Doing(t).plan) \in Nat
      /\ done[t] < Len(Doing(t).plan)
  BY ServerAssumption, ActiveThread, ActiveLengths
  DEF IInv, AccessOk, Ready, Threads
<1>2. /\ Record(t) /\ Longer(e) /\ e.req = job[t]
  BY <1>1, RecordTrace DEF AccessOk
<1> HIDE DEF e
<1>3. /\ \A u \in Threads : done'[u] = IF u = t THEN done[t] + 1 ELSE done[u]
      /\ opened' \in SUBSET Channels
      /\ UNCHANGED <<op, status, reply, queue, job, pc, held, readers, writer>>
      /\ UNCHANGED <<sealed, mutex, poisoned, devPoisoned, alive>>
  BY <1>1, TargetOK DEF AccessOk, TypeOK, lockVars
<1>4. TypeOK'
  BY <1>1, <1>2, <1>3 DEF AccessOk, TypeOK, Longer
<1>5. JobInv' /\ InnerInv' /\ MutexInv'
  <2>1. JobInv'
    BY <1>1, <1>3, SameJobs
  <2>2. InnerInv'
    BY <1>1, <1>3 DEF InnerInv, Doing
  <2>3. MutexInv'
    BY <1>1, <1>3 DEF MutexInv, Doing
  <2>4. QED
    BY <2>1, <2>2, <2>3
<1>6. TraceInv'
  <2>1. \A i \in DOMAIN trace' : status'[trace'[i].req] \in {"active", "replied"}
    BY <1>1, <1>2, <1>3, SMTT(30) DEF TraceInv, Longer
  <2>2. ASSUME NEW u \in Threads, job[u] # Nobody
        PROVE  MadeExactly(job[u], done[u])'
    <3>1. MadeExactly(job[u], done[u])
      BY <1>1, <2>2 DEF TraceInv
    <3>2. CASE u = t
      <4>1. \A r, k : r = job[t] /\ k = done[t] + 1 => MadeExactly(r, k)'
        BY <1>1, <1>2, <3>1, <3>2, RecordMade
      <4>2. QED
        BY <4>1, <3>2, <1>3
    <3>3. CASE u # t
      <4>1. job[u] # job[t]
        BY <1>1, <2>2, <3>3 DEF JobInv
      <4>2. \A r, k : r # job[t] /\ MadeExactly(r, k) => MadeExactly(r, k)'
        BY <1>1, <1>2, RecordMade
      <4>3. QED
        BY <3>1, <3>3, <4>1, <4>2, <1>3
    <3>4. QED
      BY <3>2, <3>3
  <2>3. ASSUME NEW u \in Threads, writer = u
        PROVE  /\ done'[u] <= Len(trace')
               /\ \A i \in DOMAIN trace' :
                    trace'[i].req = job[u] <=> i > Len(trace') - done'[u]
    <3>1. u = t
      BY <1>1, <2>3, OneWriter
    <3>2. /\ done[t] <= Len(trace)
          /\ \A i \in DOMAIN trace :
               trace[i].req = job[t] <=> i > Len(trace) - done[t]
      BY <1>1, <2>3, <3>1 DEF TraceInv
    <3>3. Len(trace') - done'[t] = Len(trace) - done[t]
      BY <1>1, <1>2, <1>3 DEF Longer
    <3>4. done'[t] <= Len(trace')
      BY <1>1, <1>2, <1>3, <3>2 DEF Longer
    <3>5. ASSUME NEW i \in DOMAIN trace'
          PROVE  trace'[i].req = job[t] <=> i > Len(trace) - done[t]
      <4>1. CASE i \in DOMAIN trace
        BY <4>1, <3>2, <1>2 DEF Longer
      <4>2. CASE i = Len(trace) + 1
        BY <4>2, <1>1, <1>2 DEF Longer
      <4>3. QED
        BY <4>1, <4>2, <1>2 DEF Longer
    <3>6. QED
      BY <3>1, <3>3, <3>4, <3>5
  <2>4. QED
    BY <1>3, <2>1, <2>2, <2>3 DEF TraceInv
<1>7. Extended(t)
  BY <1>1, <1>2 DEF Extended
<1>8. Serial'
  BY <1>1, <1>7, ExtendedSerial
<1>9. OkMeansAll'
  <2>1. ASSUME NEW r \in Requests
        PROVE  \E k \in 0 .. Len(op[r].plan) : MadeExactly(r, k)'
    <3>1. CASE r = job[t]
      BY <3>1, <1>1, <1>3, <1>7, ExtendedMade DEF Doing
    <3>2. CASE r # job[t]
      <4>1. PICK k \in 0 .. Len(op[r].plan) : MadeExactly(r, k)
        BY <1>1 DEF OkMeansAll
      <4>2. MadeExactly(r, k)'
        BY <4>1, <3>2, <1>1, <1>2, RecordMade
      <4>3. QED
        BY <4>2
    <3>3. QED
      BY <3>1, <3>2
  <2>2. ASSUME NEW r \in Requests, reply[r] = "ok"
        PROVE  MadeExactly(r, Len(op[r].plan))'
    <3>1. r # job[t]
      BY <1>1, <2>2 DEF JobInv
    <3>2. \A k : MadeExactly(r, k) => MadeExactly(r, k)'
      BY <3>1, <1>1, <1>2, RecordMade
    <3>3. MadeExactly(r, Len(op[r].plan))
      BY <1>1, <2>2 DEF OkMeansAll
    <3>4. QED
      BY <3>2, <3>3, <1>3
  <2>3. QED
    BY <1>3, <2>1, <2>2 DEF OkMeansAll
<1>10. PoisonHasCulprit'
  BY <1>3 DEF IInv, PoisonHasCulprit
<1>11. QED
  BY <1>4, <1>5, <1>6, <1>8, <1>9, <1>10 DEF IInv

LEMMA AbortKeeps ==
  ASSUME IInv, NEW t \in Threads, Abort(t)
  PROVE  IInv'
<1>1. /\ TypeOK /\ JobInv /\ InnerInv /\ MutexInv /\ TraceInv /\ OkMeansAll
      /\ alive /\ pc[t] # "idle" /\ Extended(t)
      /\ job[t] \in Requests /\ status[job[t]] = "active"
  BY ActiveThread DEF IInv, Abort
<1>2. /\ alive' = FALSE
      /\ opened' \in SUBSET Channels /\ devPoisoned' \in SUBSET Channels
      /\ UNCHANGED <<op, status, reply, queue, job, pc, held, done, readers>>
      /\ UNCHANGED <<writer, sealed, mutex, poisoned>>
  BY DEF Abort, threadVars, lockVars
<1>3. /\ trace' \in Seq([req : Requests, step : Nat])
      /\ \A i \in DOMAIN trace' : status[trace'[i].req] \in {"active", "replied"}
  <2>1. CASE trace' = trace
    BY <1>1, <2>1 DEF TypeOK, TraceInv
  <2>2. CASE Record(t)
    <3> DEFINE e == [req |-> job[t], step |-> done[t] + 1]
    <3>1. Longer(e) /\ e.req = job[t]
      BY <1>1, <2>2, RecordTrace
    <3> HIDE DEF e
    <3>2. QED
      BY <1>1, <3>1 DEF Longer, TraceInv
  <2>3. QED
    BY <1>1, <2>1, <2>2 DEF Extended
<1>4. TypeOK'
  BY <1>1, <1>2, <1>3 DEF TypeOK
<1>5. JobInv'
  BY <1>1, <1>2, SameJobs
<1>6. InnerInv' /\ MutexInv'
  BY <1>1, <1>2 DEF InnerInv, MutexInv, Doing
<1>7. TraceInv'
  BY <1>2, <1>3 DEF TraceInv
<1>8. Serial'
  BY <1>1, ExtendedSerial
<1>9. OkMeansAll'
  <2>1. /\ \A r, k : r # job[t] /\ MadeExactly(r, k) => MadeExactly(r, k)'
        /\ \E k \in 0 .. Len(op[job[t]].plan) :
             \A r : r = job[t] => MadeExactly(r, k)'
    BY <1>1, <1>2, ExtendedMade DEF Doing
  <2>2. ASSUME NEW r \in Requests
        PROVE  \E k \in 0 .. Len(op[r].plan) : MadeExactly(r, k)'
    BY <1>1, <2>1 DEF OkMeansAll
  <2>3. ASSUME NEW r \in Requests, reply[r] = "ok"
        PROVE  MadeExactly(r, Len(op[r].plan))'
    <3>1. r # job[t]
      BY <1>1, <2>3 DEF JobInv
    <3>2. MadeExactly(r, Len(op[r].plan))
      BY <1>1, <2>3 DEF OkMeansAll
    <3>3. QED
      BY <2>1, <3>1, <3>2, <1>2
  <2>4. QED
    BY <1>2, <2>2, <2>3 DEF OkMeansAll
<1>10. PoisonHasCulprit'
  BY <1>2 DEF IInv, PoisonHasCulprit
<1>11. QED
  BY <1>4, <1>5, <1>6, <1>7, <1>8, <1>9, <1>10 DEF IInv

LEMMA LeaveKeeps ==
  ASSUME IInv, NEW t \in Threads, NEW a \in {"ok", "err", "eio"}, Leave(t, a)
  PROVE  IInv'
<1>1. /\ TypeOK /\ JobInv /\ InnerInv /\ MutexInv /\ TraceInv /\ OkMeansAll
      /\ PoisonHasCulprit /\ Nobody \notin Threads
      /\ alive /\ pc[t] # "idle" /\ Extended(t)
      /\ job[t] \in Requests /\ job[t] # Nobody /\ status[job[t]] = "active"
  BY ServerAssumption, ActiveThread DEF IInv, Leave, Threads
<1>2. /\ \A r \in Requests : reply'[r] = IF r = job[t] THEN a ELSE reply[r]
      /\ \A r \in Requests :
           status'[r] = IF r = job[t] THEN "replied" ELSE status[r]
      /\ \A u \in Threads : job'[u] = IF u = t THEN Nobody ELSE job[u]
      /\ \A u \in Threads : pc'[u] = IF u = t THEN "idle" ELSE pc[u]
      /\ \A u \in Threads : held'[u] = IF u = t THEN 0 ELSE held[u]
      /\ \A u \in Threads : done'[u] = IF u = t THEN 0 ELSE done[u]
      /\ readers' = readers \ {t}
      /\ writer' = IF writer = t THEN Nobody ELSE writer
      /\ \A c \in Channels : mutex'[c] = IF mutex[c] = t THEN Nobody ELSE mutex[c]
      /\ op' = op /\ queue' = queue /\ alive' = alive
  BY <1>1 DEF Leave, Release, TypeOK
<1>3. /\ trace' \in Seq([req : Requests, step : Nat])
      /\ \A i \in DOMAIN trace' : status[trace'[i].req] \in {"active", "replied"}
  <2>1. CASE trace' = trace
    BY <1>1, <2>1 DEF TypeOK, TraceInv
  <2>2. CASE Record(t)
    <3> DEFINE e == [req |-> job[t], step |-> done[t] + 1]
    <3>1. Longer(e) /\ e.req = job[t]
      BY <1>1, <2>2, RecordTrace
    <3> HIDE DEF e
    <3>2. QED
      BY <1>1, <3>1 DEF Longer, TraceInv
  <2>3. QED
    BY <1>1, <2>1, <2>2 DEF Extended
<1>4. TypeOK'
  <2>1. sealed' \in BOOLEAN /\ poisoned' \in SUBSET Channels
    BY <1>1 DEF Leave, TypeOK, Locked
  <2>2. /\ reply' \in [Requests -> {"none", "ok", "err", "eio"}]
        /\ status' \in [Requests -> {"pending", "queued", "active", "replied"}]
        /\ job' \in [Threads -> Requests \cup {Nobody}]
        /\ pc' \in [Threads -> {"idle", "entering", "inside"}]
        /\ held' \in [Threads -> Nat]
        /\ done' \in [Threads -> Nat]
        /\ mutex' \in [Channels -> Threads \cup {Nobody}]
    BY <1>1 DEF Leave, Release, TypeOK
  <2>3. readers' \in SUBSET Threads /\ writer' \in Threads \cup {Nobody}
    BY <1>1, <1>2 DEF TypeOK
  <2>4. opened' \in SUBSET Channels /\ devPoisoned' \in SUBSET Channels
    BY DEF Leave
  <2>5. \A u \in Threads : pc'[u] # "inside" => held'[u] = 0 /\ done'[u] = 0
    BY <1>1, <1>2 DEF TypeOK
  <2>6. QED
    BY <1>1, <1>2, <1>3, <2>1, <2>2, <2>3, <2>4, <2>5 DEF TypeOK
<1>5. JobInv'
  <2>1. \A u \in Threads : u # t /\ job[u] # Nobody =>
          job[u] \in Requests /\ job[u] # job[t]
    BY <1>1 DEF JobInv, TypeOK
  <2>2. \A i \in DOMAIN queue : queue[i] \in Requests /\ queue[i] # job[t]
    BY <1>1, SeqElements DEF JobInv, TypeOK
  <2>3. QED
    BY <1>1, <1>2, <2>1, <2>2 DEF JobInv
<1>6. InnerInv'
  <2>1. /\ \A u \in Threads :
             u \in readers' <=> pc'[u] = "inside" /\ op'[job'[u]].call # "write"
        /\ \A u \in Threads :
             writer' = u <=> pc'[u] = "inside" /\ op'[job'[u]].call = "write"
        /\ writer' # Nobody => readers' = {}
    BY <1>1, <1>2 DEF InnerInv, Doing
  <2>2. ASSUME sealed', NEW u \in Threads PROVE pc'[u] # "inside"
    <3>1. CASE u = t
      BY <3>1, <1>2
    <3>2. CASE u # t /\ sealed
      BY <3>2, <1>1, <1>2 DEF InnerInv
    <3>3. CASE u # t /\ writer = t
      BY <3>3, <1>1, <1>2 DEF InnerInv
    <3>4. QED
      BY <2>2, <3>1, <3>2, <3>3 DEF Leave
  <2>3. QED
    BY <2>1, <2>2 DEF InnerInv, Doing
<1>7. MutexInv'
  <2>1. \A c \in Channels, u \in Threads :
          mutex'[c] = u <=> /\ pc'[u] = "inside"
                            /\ \E i \in 1 .. held'[u] : op'[job'[u]].locks[i] = c
    BY <1>1, <1>2 DEF MutexInv, Doing
  <2>2. \A u \in Threads : pc'[u] = "inside" =>
          /\ held'[u] <= Len(op'[job'[u]].locks)
          /\ done'[u] <= Len(op'[job'[u]].plan)
          /\ done'[u] > 0 => held'[u] = Len(op'[job'[u]].locks)
    BY <1>1, <1>2 DEF MutexInv, Doing
  <2>3. QED
    BY <2>1, <2>2 DEF MutexInv, Doing
<1>8. /\ \A r, k : r # job[t] /\ MadeExactly(r, k) => MadeExactly(r, k)'
      /\ \E k \in 0 .. Len(op[job[t]].plan) :
           \A r : r = job[t] => MadeExactly(r, k)'
  BY <1>1, <1>2, ExtendedMade DEF Doing
<1>9. TraceInv'
  <2>1. \A i \in DOMAIN trace' : status'[trace'[i].req] \in {"active", "replied"}
    <3>1. \A i \in DOMAIN trace' : trace'[i] \in [req : Requests, step : Nat]
      BY <1>3, SeqElements
    <3>2. QED
      BY <1>2, <1>3, <3>1
  <2>2. ASSUME NEW u \in Threads, job'[u] # Nobody
        PROVE  MadeExactly(job[u], done[u])'
    <3>1. u # t /\ job'[u] = job[u] /\ done'[u] = done[u] /\ job[u] # job[t]
      BY <1>1, <1>2, <2>2 DEF JobInv
    <3>2. MadeExactly(job[u], done[u])
      BY <1>1, <2>2, <3>1 DEF TraceInv
    <3>3. QED
      BY <1>8, <3>1, <3>2
  <2>3. ASSUME NEW u \in Threads, writer' = u
        PROVE  /\ done'[u] <= Len(trace')
               /\ \A i \in DOMAIN trace' :
                    trace'[i].req = job'[u] <=> i > Len(trace') - done'[u]
    <3>1. u # t /\ writer = u /\ done'[u] = done[u] /\ job'[u] = job[u]
      BY <1>1, <1>2, <2>3
    <3>2. trace' = trace
      BY <1>1, <3>1, OneWriter DEF Extended, Ready
    <3>3. QED
      BY <1>1, <3>1, <3>2 DEF TraceInv
  <2>4. QED
    BY <2>1, <2>2, <2>3 DEF TraceInv
<1>10. Serial'
  BY <1>1, ExtendedSerial
<1>11. OkMeansAll'
  <2>1. ASSUME NEW r \in Requests
        PROVE  \E k \in 0 .. Len(op[r].plan) : MadeExactly(r, k)'
    BY <1>1, <1>8 DEF OkMeansAll
  <2>2. ASSUME NEW r \in Requests, reply'[r] = "ok"
        PROVE  MadeExactly(r, Len(op[r].plan))'
    <3>1. CASE r = job[t]
      <4>1. a = "ok" /\ trace' = trace /\ done[t] = Len(op[r].plan)
        BY <1>2, <2>2, <3>1 DEF Leave, Doing
      <4>2. MadeExactly(r, Len(op[r].plan))
        BY <1>1, <3>1, <4>1 DEF TraceInv
      <4>3. \A k : MadeExactly(r, k)' <=> MadeExactly(r, k)
        BY <4>1, MadeSame
      <4>4. QED
        BY <1>2, <4>2, <4>3
    <3>2. CASE r # job[t]
      <4>1. MadeExactly(r, Len(op[r].plan))
        BY <1>1, <1>2, <2>2, <3>2 DEF OkMeansAll
      <4>2. QED
        BY <1>2, <1>8, <3>2, <4>1
    <3>3. QED
      BY <3>1, <3>2
  <2>3. QED
    BY <1>2, <2>1, <2>2 DEF OkMeansAll
<1>12. PoisonHasCulprit'
  <2>1. \A r \in Requests : reply[r] # "none" => r # job[t]
    BY <1>1 DEF JobInv
  <2>2. ASSUME sealed'
        PROVE  \E r \in Requests : op'[r].call = "write" /\ reply'[r] = "eio"
    <3>1. CASE sealed
      BY <3>1, <1>1, <1>2, <2>1 DEF PoisonHasCulprit
    <3>2. CASE writer = t /\ a = "eio"
      BY <3>2, <1>1, <1>2 DEF InnerInv, Doing
    <3>3. QED
      BY <2>2, <3>1, <3>2 DEF Leave
  <2>3. ASSUME NEW c \in poisoned'
        PROVE  \E r \in Requests :
                 reply'[r] = "eio" /\ \E i \in DOMAIN op'[r].locks : op'[r].locks[i] = c
    <3>1. CASE c \in poisoned
      BY <3>1, <1>1, <1>2, <2>1 DEF PoisonHasCulprit
    <3>2. CASE c \in Locked(t) /\ a = "eio"
      <4>1. PICK i \in 1 .. held[t] : Doing(t).locks[i] = c
        BY <3>2, <1>1 DEF Locked, MutexInv
      <4>2. pc[t] = "inside" /\ held[t] <= Len(Doing(t).locks)
        BY <3>2, <1>1 DEF Locked, MutexInv
      <4>3. i \in DOMAIN Doing(t).locks
        <5>1. Doing(t).locks \in Seq(Channels) /\ held[t] \in Nat
          BY <1>1, ActiveThread DEF OpOK, TypeOK
        <5>2. QED
          BY <4>1, <4>2, <5>1
      <4>4. QED
        BY <3>2, <4>1, <4>3, <1>1, <1>2 DEF Doing
    <3>3. QED
      BY <2>3, <3>1, <3>2 DEF Leave
  <2>4. QED
    BY <2>2, <2>3 DEF PoisonHasCulprit
<1>13. QED
  BY <1>4, <1>5, <1>6, <1>7, <1>9, <1>10, <1>11, <1>12 DEF IInv

-----------------------------------------------------------------------------
(* The theorems.                                                           *)

LEMMA NextKeeps ==
  ASSUME IInv, [Next]_vars
  PROVE  IInv'
<1>1. TypeOK /\ JobInv
  BY DEF IInv
<1>2. ASSUME NEW r \in Requests, DispatchInline(r) PROVE IInv'
  <2>1. Begin(Dispatcher, r) /\ Dispatcher \in Threads
    BY <1>2 DEF DispatchInline, Begin, Threads
  <2>2. QED
    BY <2>1, BeginKeeps
<1>3. ASSUME NEW w \in Workers, TakeJob(w) PROVE IInv'
  <2>1. Head(queue) \in Requests
    BY <1>1, <1>3 DEF TakeJob, TypeOK
  <2>2. Begin(w, Head(queue)) /\ w \in Threads
    BY <1>3 DEF TakeJob, Begin, Threads
  <2>3. QED
    BY <2>1, <2>2, BeginKeeps
<1>4. ASSUME NEW t \in Threads, Step(t) PROVE IInv'
  BY <1>1, <1>4, StepCases, EnterSharedKeeps, EnterExclusiveKeeps,
     LockChannelKeeps, AccessOkKeeps, AbortKeeps, LeaveKeeps
<1>5. CASE UNCHANGED vars
  <2>1. UNCHANGED <<op, status, reply, queue, job, pc, held, done, readers,
                    writer, sealed, mutex, poisoned, opened, devPoisoned, trace,
                    alive>>
    BY <1>5 DEF vars, threadVars, lockVars, devVars
  <2>2. Serial' /\ OkMeansAll' /\ PoisonHasCulprit'
    BY <2>1, QuietStep
  <2>3. TypeOK' /\ JobInv' /\ InnerInv' /\ MutexInv'
    BY <2>1 DEF IInv, TypeOK, JobInv, InnerInv, MutexInv, Doing
  <2>4. TraceInv'
    <3>1. \A r, k : MadeExactly(r, k)' <=> MadeExactly(r, k)
      BY <2>1, MadeSame
    <3>2. QED
      BY <2>1, <3>1 DEF IInv, TraceInv
  <2>5. QED
    BY <2>2, <2>3, <2>4 DEF IInv
<1>6. QED
  BY <1>2, <1>3, <1>4, <1>5, DispatchToPoolKeeps DEF Next, Dispatch, Quiet

\* The invariant that the following theorems rest on holds in every execution
\* of the daemon.
THEOREM Invariance == Spec => []IInv
<1>1. Init => IInv
  BY InitIInv
<1>2. IInv /\ [Next]_vars => IInv'
  BY NextKeeps
<1>3. QED
  BY <1>1, <1>2, PTL DEF Spec

\* The state of the threads, locks and devices stays well typed, and a thread
\* outside its handler has let go of everything.
THEOREM TypeCorrect == Spec => []TypeOK
<1>1. IInv => TypeOK
  BY DEF IInv
<1>2. QED
  BY <1>1, Invariance, PTL

\* Requests never interleave on the devices, however many pool threads run:
\* no read-modify-write of a register loses an update of another request.
THEOREM Serializable == Spec => []Serial
<1>1. IInv => Serial
  BY DEF IInv
<1>2. QED
  BY <1>1, Invariance, PTL

\* "ok" is never said of a request that has not done all its accesses.
THEOREM OkIsTrue == Spec => []OkMeansAll
<1>1. IInv => OkMeansAll
  BY DEF IInv
<1>2. QED
  BY <1>1, Invariance, PTL

\* A poisoned lock always goes back to a request that panicked under it.
THEOREM PoisonContained == Spec => []PoisonHasCulprit
<1>1. IInv => PoisonHasCulprit
  BY DEF IInv
<1>2. QED
  BY <1>1, Invariance, PTL

\* The two mutexes of Reset cannot deadlock with any other request.
THEOREM NoDeadlock == Spec => []NoCircularWait
<1>1. IInv => NoCircularWait
  <2> SUFFICES ASSUME IInv, NEW t \in Threads, pc[t] = "inside",
                      held[t] < Len(Doing(t).locks),
                      NEW u, u = mutex[Doing(t).locks[held[t] + 1]], u # Nobody
               PROVE  pc[u] = "inside" /\ held[u] = Len(Doing(u).locks)
    BY DEF NoCircularWait
  <2> DEFINE c == Doing(t).locks[held[t] + 1]
  <2>1. /\ TypeOK /\ JobInv /\ InnerInv /\ MutexInv
        /\ OpOK(Doing(t)) /\ held[t] \in Nat
    BY ActiveThread DEF IInv, TypeOK
  <2>2. c \in Channels /\ u \in Threads
    <3>1. Doing(t).locks \in Seq(Channels)
      BY <2>1 DEF OpOK
    <3>2. c \in Channels
      BY <2>1, <3>1
    <3>3. QED
      BY <2>1, <3>2 DEF TypeOK
  <2>3. pc[u] = "inside" /\ \E i \in 1 .. held[u] : Doing(u).locks[i] = c
    BY <2>1, <2>2 DEF MutexInv
  <2>4. OpOK(Doing(u)) /\ Len(Doing(u).locks) \in Nat /\ held[u] \in Nat
    BY <2>1, <2>2, <2>3, ActiveThread, ActiveLengths
  <2>5. held[u] >= 1 /\ held[u] <= Len(Doing(u).locks)
    BY <2>1, <2>2, <2>3, <2>4 DEF MutexInv
  <2>6. CASE Len(Doing(u).locks) <= 1
    BY <2>3, <2>4, <2>5, <2>6
  <2>7. CASE Len(Doing(u).locks) > 1
    <3>1. writer = u
      BY <2>1, <2>2, <2>3, <2>4, <2>7 DEF OpOK, InnerInv
    <3>2. u = t
      BY <2>2, <3>1, OneWriter
    <3>3. PICK i \in 1 .. held[t] : Doing(t).locks[i] = c
      BY <2>3, <3>2
    <3>4. i \in DOMAIN Doing(t).locks /\ held[t] + 1 \in DOMAIN Doing(t).locks
      BY <2>1, <3>3 DEF OpOK
    <3>5. i = held[t] + 1
      BY <2>1, <3>3, <3>4 DEF OpOK
    <3>6. QED
      BY <2>1, <3>3, <3>5
  <2>8. QED
    BY <2>4, <2>6, <2>7
<1>2. QED
  BY <1>1, Invariance, PTL

\* After a write has panicked, no request reaches a device any more.
THEOREM SealedIsQuiet == Spec => SealStopsDevices
<1>1. IInv /\ [Next]_vars => [sealed => trace' = trace /\ sealed']_vars
  <2> SUFFICES ASSUME IInv, Next, sealed PROVE trace' = trace /\ sealed'
    OBVIOUS
  <2>1. TypeOK /\ JobInv /\ \A t \in Threads : pc[t] # "inside"
    BY DEF IInv, InnerInv
  <2>2. ASSUME NEW t \in Threads, Step(t) PROVE trace' = trace /\ sealed'
    BY <2>1, <2>2, StepCases
    DEF EnterShared, EnterExclusive, LockChannel, AccessOk, Abort, Leave,
        Extended, Ready, lockVars
  <2>3. QED
    BY <2>2 DEF Next, Dispatch, DispatchInline, DispatchToPool, TakeJob, Quiet,
                vars, lockVars, devVars
<1>2. QED
  BY <1>1, Invariance, PTL DEF Spec, SealStopsDevices

-----------------------------------------------------------------------------
(* The devices.                                                            *)

\* What a thread that panics or returns does to the locks keeps DeviceInv, as
\* long as it poisons no device but those of mutexes it holds.
LEMMA ReleaseKeepsDevices ==
  ASSUME TypeOK, DeviceInv, NEW t \in Threads, NEW a, Release(t, a),
         alive' = alive,
         \/ /\ poisoned' = poisoned
            /\ devPoisoned' = devPoisoned
         \/ /\ poisoned' = poisoned \cup Locked(t)
            /\ devPoisoned' \subseteq devPoisoned \cup Locked(t)
  PROVE  DeviceInv'
<1>1. \A c \in Channels : mutex'[c] = IF mutex[c] = t THEN Nobody ELSE mutex[c]
  BY DEF Release
<1>2. ASSUME NEW c \in Channels, mutex'[c] # Nobody PROVE c \notin poisoned'
  <2>1. mutex[c] # t /\ mutex[c] # Nobody
    BY <1>1, <1>2
  <2>2. QED
    BY <2>1 DEF DeviceInv, Locked
<1>3. alive' => devPoisoned' \subseteq poisoned'
  BY DEF DeviceInv
<1>4. QED
  BY <1>2, <1>3 DEF DeviceInv

\* A panic that poisons at most the device of a held mutex keeps DeviceInv.
LEMMA PanicKeepsDevices ==
  ASSUME TypeOK, DeviceInv, NEW t \in Threads, Panic(t),
         devPoisoned' \subseteq devPoisoned \cup Locked(t)
  PROVE  DeviceInv'
<1>1. CASE PanicAbort \/ t = Dispatcher
  BY <1>1 DEF Panic, DeviceInv, lockVars
<1>2. CASE ~(PanicAbort \/ t = Dispatcher)
  BY <1>2, ReleaseKeepsDevices DEF Panic
<1>3. QED
  BY <1>1, <1>2

\* A thread that has all its locks holds the mutex of its next device.
LEMMA TargetIsLocked ==
  ASSUME IInv, NEW t \in Threads, Ready(t), done[t] < Len(Doing(t).plan)
  PROVE  Target(t) \in Locked(t)
<1>1. /\ pc[t] = "inside" /\ held[t] = Len(Doing(t).locks)
      /\ Target(t) \in Sites(Doing(t)) /\ Target(t) \in Channels
      /\ Doing(t).locks \in Seq(Channels)
  BY TargetOK, ActiveThread DEF IInv, Ready, OpOK
<1>2. PICK i \in 1 .. held[t] : Doing(t).locks[i] = Target(t)
  BY <1>1 DEF Sites
<1>3. mutex[Target(t)] = t
  BY <1>1, <1>2 DEF IInv, MutexInv
<1>4. QED
  BY <1>1, <1>3 DEF Locked

\* Every step of a thread keeps DeviceInv.
LEMMA StepKeepsDevices ==
  ASSUME IInv, DeviceInv, NEW t \in Threads, Step(t)
  PROVE  DeviceInv'
<1>1. TypeOK
  BY DEF IInv
<1>2. CASE EnterShared(t) \/ EnterExclusive(t) \/ AccessOk(t)
  BY <1>2 DEF EnterShared, EnterExclusive, AccessOk, DeviceInv, lockVars, devVars
<1>3. CASE LockChannel(t)
  BY <1>1, <1>3 DEF LockChannel, DeviceInv, TypeOK, devVars
<1>4. CASE EnterSealed(t) \/ LockPoisoned(t) \/ HandlerPanics(t)
  BY <1>1, <1>4, PanicKeepsDevices
  DEF EnterSealed, LockPoisoned, HandlerPanics, devVars
<1>5. CASE TransferPanics(t)
  <2>1. Target(t) \in Locked(t)
    BY <1>5, TargetIsLocked DEF TransferPanics
  <2>2. QED
    BY <1>1, <1>5, <2>1, PanicKeepsDevices DEF TransferPanics
<1>6. CASE OpenFails(t) \/ TransferFails(t) \/ Refuse(t) \/ Finish(t)
  <2>1. /\ Return(t, "ok") \/ Return(t, "err")
        /\ devPoisoned' = devPoisoned
    BY <1>6 DEF OpenFails, TransferFails, Refuse, Finish, devVars
  <2>2. ASSUME NEW a, Return(t, a) PROVE DeviceInv'
    <3>1. Release(t, a) /\ poisoned' = poisoned /\ alive' = alive
      BY <2>2 DEF Return
    <3>2. QED
      BY <1>1, <2>1, <3>1, ReleaseKeepsDevices
  <2>3. QED
    BY <2>1, <2>2
<1>7. QED
  BY <1>2, <1>3, <1>4, <1>5, <1>6 DEF Step, Enter, Work

\* No thread ever meets a poisoned device lock, since it meets the poisoned
\* mutex of the register set first: the unwrap in with_dev cannot panic.
THEOREM DeviceLocksSafe == Spec => []DeviceUnwrapSafe
<1>1. Init => DeviceInv
  BY DEF Init, DeviceInv
<1>2. IInv /\ DeviceInv /\ [Next]_vars => DeviceInv'
  <2> SUFFICES ASSUME IInv, DeviceInv, [Next]_vars PROVE DeviceInv'
    OBVIOUS
  <2>1. CASE UNCHANGED vars
    BY <2>1 DEF DeviceInv, vars, lockVars, devVars
  <2>2. CASE Dispatch \/ (\E w \in Workers : TakeJob(w)) \/ Quiet
    BY <2>2 DEF Dispatch, DispatchInline, DispatchToPool, TakeJob, Quiet,
                DeviceInv, vars, lockVars, devVars
  <2>3. CASE \E t \in Threads : Step(t)
    BY <2>3, StepKeepsDevices
  <2>4. QED
    BY <2>1, <2>2, <2>3 DEF Next
<1>3. IInv /\ DeviceInv => DeviceUnwrapSafe
  <2> SUFFICES ASSUME IInv, DeviceInv, alive
               PROVE  /\ devPoisoned \subseteq poisoned
                      /\ \A t \in Threads :
                           Ready(t) /\ done[t] < Len(Doing(t).plan)
                             => Target(t) \notin devPoisoned
    BY DEF DeviceUnwrapSafe
  <2>1. devPoisoned \subseteq poisoned
    BY DEF DeviceInv
  <2>2. ASSUME NEW t \in Threads, Ready(t), done[t] < Len(Doing(t).plan)
        PROVE  Target(t) \notin devPoisoned
    <3>1. Target(t) \in Channels /\ mutex[Target(t)] = t
      BY <2>2, TargetIsLocked DEF Locked
    <3>2. t # Nobody
      BY ServerAssumption
    <3>3. QED
      BY <2>1, <3>1, <3>2 DEF DeviceInv
  <2>3. QED
    BY <2>1, <2>2
<1>4. QED
  BY <1>1, <1>2, <1>3, Invariance, PTL DEF Spec

-----------------------------------------------------------------------------
(* FuseServer implements AtomicCamera.  Only three kinds of step are       *)
(* visible to the abstract camera: a read that accesses its device, a      *)
(* thread that leaves its handler, and a panic that ends the process.  What*)
(* a writer has done is invisible until it leaves, and then appears as one *)
(* block: for this the steps of the writer must be the last of the trace,  *)
(* in their order, which is the invariant BlockInv.                        *)

Entry == [req : Requests, step : Nat]

\* The accesses of the writer are the last of the trace, in their order.
BlockInv ==
  alive => \A t \in Threads : writer = t =>
    \A i \in 1 .. done[t] : trace[Len(trace) - done[t] + i] = [req |-> job[t], step |-> i]

-----------------------------------------------------------------------------
(* Sequences.                                                              *)

\* A prefix of a sequence.
LEMMA Prefix ==
  ASSUME NEW S, NEW s \in Seq(S), NEW n \in 0 .. Len(s)
  PROVE  /\ SubSeq(s, 1, n) \in Seq(S)
         /\ Len(SubSeq(s, 1, n)) = n
         /\ \A i \in 1 .. n : SubSeq(s, 1, n)[i] = s[i]
         /\ n = Len(s) => SubSeq(s, 1, n) = s
<1>1. \A i \in 1 .. n : s[i] \in S
  OBVIOUS
<1>2. /\ SubSeq(s, 1, n) \in Seq(S)
      /\ Len(SubSeq(s, 1, n)) = IF 1 <= n THEN n - 1 + 1 ELSE 0
      /\ \A i \in 1 .. n - 1 + 1 : SubSeq(s, 1, n)[i] = s[1 + i - 1]
  BY <1>1, SubSeqProperties
<1>3. Len(SubSeq(s, 1, n)) = n /\ \A i \in 1 .. n : SubSeq(s, 1, n)[i] = s[i]
  BY <1>2
<1>4. n = Len(s) => SubSeq(s, 1, n) = s
  BY <1>2, <1>3, SeqEqual
<1> QED BY <1>2, <1>3, <1>4

\* It is a prefix of every longer one.
LEMMA PrefixOfAppend ==
  ASSUME NEW S, NEW s \in Seq(S), NEW e \in S, NEW n \in 0 .. Len(s)
  PROVE  SubSeq(Append(s, e), 1, n) = SubSeq(s, 1, n)
<1>1. /\ Append(s, e) \in Seq(S) /\ Len(Append(s, e)) = Len(s) + 1
      /\ \A i \in 1 .. n : Append(s, e)[i] = s[i]
  BY AppendProperties
<1>2. n \in 0 .. Len(Append(s, e))
  BY <1>1
<1>3. /\ SubSeq(Append(s, e), 1, n) \in Seq(S) /\ Len(SubSeq(Append(s, e), 1, n)) = n
      /\ \A i \in 1 .. n : SubSeq(Append(s, e), 1, n)[i] = Append(s, e)[i]
  BY <1>1, <1>2, Prefix
<1>4. /\ SubSeq(s, 1, n) \in Seq(S) /\ Len(SubSeq(s, 1, n)) = n
      /\ \A i \in 1 .. n : SubSeq(s, 1, n)[i] = s[i]
  BY Prefix
<1> QED BY <1>1, <1>3, <1>4, SeqEqual

\* A sequence is a prefix and what is behind it.
LEMMA PrefixAndRest ==
  ASSUME NEW S, NEW s \in Seq(S), NEW n \in 0 .. Len(s), NEW b \in Seq(S),
         Len(b) = Len(s) - n, \A i \in 1 .. Len(b) : b[i] = s[n + i]
  PROVE  s = SubSeq(s, 1, n) \o b
<1> DEFINE p == SubSeq(s, 1, n)
<1>1. p \in Seq(S) /\ Len(p) = n /\ \A i \in 1 .. n : p[i] = s[i]
  BY Prefix
<1> HIDE DEF p
<1>2. /\ p \o b \in Seq(S) /\ Len(p \o b) = Len(p) + Len(b)
      /\ \A i \in 1 .. Len(p) + Len(b) : (p \o b)[i] = IF i <= Len(p) THEN p[i] ELSE b[i - Len(p)]
  BY <1>1, ConcatProperties
<1>3. ASSUME NEW i \in 1 .. Len(s) PROVE s[i] = (p \o b)[i]
  <2>1. CASE i <= n
    BY <1>1, <1>2, <2>1
  <2>2. CASE ~(i <= n)
    <3>1. i - n \in 1 .. Len(b) /\ n + (i - n) = i
      BY <2>2
    <3>2. b[i - n] = s[i]
      BY <3>1
    <3> QED BY <1>1, <1>2, <2>2, <3>2
  <2> QED BY <2>1, <2>2
<1>4. Len(s) = Len(p \o b)
  BY <1>1, <1>2
<1>5. s = p \o b
  BY <1>2, <1>3, <1>4, SeqEqual
<1> QED BY <1>5 DEF p

\* The first accesses of a request.
LEMMA BlockIs ==
  ASSUME NEW r \in Requests, NEW k \in Nat
  PROVE  /\ Atomic!Block(r, k) \in Seq(Entry)
         /\ Len(Atomic!Block(r, k)) = k
         /\ \A i \in 1 .. k : Atomic!Block(r, k)[i] = [req |-> r, step |-> i]
  BY DEF Atomic!Block, Entry

-----------------------------------------------------------------------------
(* Steps that the abstract camera does not see.                            *)

Silent ==
  /\ UNCHANGED <<op, reply, trace, writer, alive>>
  /\ writer # Nobody => done'[writer] = done[writer] /\ job'[writer] = job[writer]

\* Dispatching, waiting and locking are.
LEMMA SilentSteps ==
  ASSUME IInv,
         \/ Dispatch
         \/ \E w \in Workers : TakeJob(w)
         \/ \E t \in Threads : EnterShared(t) \/ LockChannel(t)
         \/ UNCHANGED vars
  PROVE  Silent
<1>1. \A t \in Threads : writer = t => pc[t] = "inside"
  BY DEF IInv, InnerInv
<1>2. writer # Nobody => writer \in Threads
  BY DEF IInv, TypeOK
<1>3. ASSUME NEW t \in Threads, NEW r \in Requests, Begin(t, r) PROVE Silent
  BY <1>1, <1>2, <1>3 DEF Begin, Silent, lockVars, devVars, IInv, TypeOK
<1>4. CASE Dispatch
  <2>1. ASSUME NEW r \in Requests, DispatchInline(r) PROVE Silent
    BY <1>3, <2>1 DEF DispatchInline, Begin, Threads
  <2>2. ASSUME NEW r \in Requests, DispatchToPool(r) PROVE Silent
    BY <2>2 DEF DispatchToPool, Silent, threadVars, lockVars, devVars
  <2> QED BY <1>4, <2>1, <2>2 DEF Dispatch
<1>5. ASSUME NEW w \in Workers, TakeJob(w) PROVE Silent
  <2>1. Head(queue) \in Requests
    BY <1>5 DEF TakeJob, IInv, TypeOK
  <2> QED BY <1>3, <1>5, <2>1 DEF TakeJob, Begin, Threads
<1>6. ASSUME NEW t \in Threads, EnterShared(t) \/ LockChannel(t) PROVE Silent
  BY <1>6 DEF EnterShared, LockChannel, Silent, devVars
<1>7. CASE UNCHANGED vars
  BY <1>7 DEF vars, threadVars, lockVars, devVars, Silent
<1> QED BY <1>4, <1>5, <1>6, <1>7

\* They change nothing that it sees.
LEMMA SilentStutters ==
  ASSUME Silent
  PROVE  UNCHANGED Atomic!vars
  BY DEF Silent, Atomic!vars, Visible

-----------------------------------------------------------------------------
(* The block of the writer.                                                *)

LEMMA BlockKeeps ==
  ASSUME IInv, BlockInv, [Next]_vars
  PROVE  BlockInv'
<1>1. \A t \in Threads : writer = t => pc[t] = "inside" /\ t # Nobody
  BY ServerAssumption DEF IInv, InnerInv, Threads
<1>2. CASE Silent
  BY <1>1, <1>2 DEF Silent, BlockInv
<1>3. ASSUME NEW t \in Threads, EnterExclusive(t) PROVE BlockInv'
  <2>1. writer' = t /\ done' = done /\ done[t] = 0
    BY <1>3 DEF EnterExclusive, IInv, TypeOK
  <2> QED BY <2>1 DEF BlockInv
<1>4. ASSUME NEW t \in Threads, AccessOk(t) PROVE BlockInv'
  <2>1. /\ pc[t] = "inside" /\ alive /\ Record(t)
        /\ done' = [done EXCEPT ![t] = @ + 1]
        /\ UNCHANGED <<job, writer, alive>>
    BY <1>4 DEF AccessOk, Ready, lockVars
  <2>2. Longer([req |-> job[t], step |-> done[t] + 1])
    BY <2>1, RecordTrace DEF IInv
  <2>3. done[t] \in Nat /\ done'[t] = done[t] + 1
    BY <2>1 DEF IInv, TypeOK
  <2> SUFFICES ASSUME NEW u \in Threads, writer = u, NEW i \in 1 .. done'[u]
               PROVE  trace'[Len(trace') - done'[u] + i] = [req |-> job[u], step |-> i]
    BY <2>1 DEF BlockInv
  <2>4. u = t
    BY <2>1, OneWriter
  <2>5. Len(trace') - done'[u] + i = Len(trace) - done[t] + i
    BY <2>2, <2>3, <2>4 DEF Longer
  <2>6. done[t] <= Len(trace)
    BY <2>1, <2>4 DEF IInv, TraceInv
  <2>7. CASE i = done[t] + 1
    BY <2>2, <2>3, <2>4, <2>5, <2>7, SMTT(30) DEF Longer
  <2>8. CASE i # done[t] + 1
    <3>1. i \in 1 .. done[t] /\ Len(trace) - done[t] + i \in 1 .. Len(trace)
      BY <2>2, <2>3, <2>4, <2>6, <2>8, SMTT(30) DEF Longer
    <3>2. trace[Len(trace) - done[t] + i] = [req |-> job[t], step |-> i]
      BY <2>1, <2>4, <3>1 DEF BlockInv
    <3> QED BY <2>2, <2>4, <2>5, <3>1, <3>2 DEF Longer
  <2> QED BY <2>7, <2>8
<1>5. ASSUME NEW t \in Threads, Abort(t) PROVE BlockInv'
  BY <1>5 DEF Abort, BlockInv
<1>6. ASSUME NEW t \in Threads, NEW a, Leave(t, a) PROVE BlockInv'
  <2>1. /\ writer' = IF writer = t THEN Nobody ELSE writer
        /\ job' = [job EXCEPT ![t] = Nobody]
        /\ done' = [done EXCEPT ![t] = 0]
        /\ alive' = alive /\ Extended(t)
    BY <1>6 DEF Leave, Release
  <2> SUFFICES ASSUME alive, NEW u \in Threads, writer' = u
               PROVE  \A i \in 1 .. done'[u] :
                        trace'[Len(trace') - done'[u] + i] = [req |-> job'[u], step |-> i]
    BY <2>1 DEF BlockInv
  <2>2. u # t /\ writer = u
    BY <2>1, ServerAssumption DEF Threads
  <2>3. pc[t] # "inside"
    BY <2>2, OneWriter
  <2>4. trace' = trace
    BY <2>1, <2>3 DEF Extended, Ready
  <2>5. job'[u] = job[u] /\ done'[u] = done[u]
    BY <2>1, <2>2 DEF IInv, TypeOK
  <2> QED BY <2>2, <2>4, <2>5 DEF BlockInv
<1>7. ASSUME NEW t \in Threads, Step(t) PROVE BlockInv'
  <2>1. CASE EnterShared(t) \/ LockChannel(t)
    BY <1>2, <2>1, SilentSteps
  <2> QED BY <1>3, <1>4, <1>5, <1>6, <1>7, <2>1, StepCases DEF IInv
<1>8. CASE UNCHANGED vars
  BY <1>2, <1>8, SilentSteps
<1>9. CASE Dispatch \/ \E w \in Workers : TakeJob(w)
  BY <1>2, <1>9, SilentSteps
<1> QED BY <1>7, <1>8, <1>9 DEF Next, Quiet

\* The steps of a writer that leaves or dies appear as one block.
LEMMA WriterBlock ==
  ASSUME IInv, BlockInv, alive, NEW t \in Threads, writer = t, Extended(t)
  PROVE  /\ Visible = SubSeq(trace, 1, Len(trace) - done[t])
         /\ \E k \in 0 .. Len(Doing(t).plan) :
              /\ trace' = Visible \o Atomic!Block(job[t], k)
              /\ trace' = trace => k = done[t]
<1> DEFINE n == Len(trace) - done[t]
<1>1. /\ pc[t] = "inside" /\ t # Nobody /\ job[t] \in Requests /\ job[t] # Nobody
      /\ done[t] \in Nat /\ Len(Doing(t).plan) \in Nat /\ done[t] <= Len(Doing(t).plan)
      /\ done[t] <= Len(trace) /\ trace \in Seq(Entry) /\ Len(trace) \in Nat
  <2>1. pc[t] = "inside" /\ t # Nobody
    BY ServerAssumption DEF IInv, InnerInv, Threads
  <2> QED BY <2>1, ActiveThread, ActiveLengths DEF IInv, TraceInv, MutexInv, TypeOK, Entry
<1>2. n \in 0 .. Len(trace)
  BY <1>1
<1>3. Visible = SubSeq(trace, 1, n)
  BY <1>1 DEF Visible
<1>4. \A i \in 1 .. done[t] : trace[n + i] = [req |-> job[t], step |-> i]
  BY DEF BlockInv
<1>5. CASE trace' = trace
  <2>1. /\ Atomic!Block(job[t], done[t]) \in Seq(Entry)
        /\ Len(Atomic!Block(job[t], done[t])) = done[t]
        /\ \A i \in 1 .. done[t] : Atomic!Block(job[t], done[t])[i] = [req |-> job[t], step |-> i]
    BY <1>1, BlockIs
  <2>2. Len(Atomic!Block(job[t], done[t])) = Len(trace) - n
    BY <1>1, <2>1
  <2>3. \A i \in 1 .. Len(Atomic!Block(job[t], done[t])) :
           Atomic!Block(job[t], done[t])[i] = trace[n + i]
    BY <1>4, <2>1
  <2>4. trace = SubSeq(trace, 1, n) \o Atomic!Block(job[t], done[t])
    BY <1>1, <1>2, <2>1, <2>2, <2>3, PrefixAndRest
  <2>5. done[t] \in 0 .. Len(Doing(t).plan)
    BY <1>1
  <2> QED BY <1>3, <1>5, <2>4, <2>5
<1>6. CASE Ready(t) /\ done[t] < Len(Doing(t).plan) /\ Record(t)
  <2> DEFINE e == [req |-> job[t], step |-> done[t] + 1]
             b == Atomic!Block(job[t], done[t] + 1)
  <2>1. Longer(e)
    BY <1>1, <1>6, RecordTrace DEF IInv
  <2>2. e \in Entry /\ trace' = Append(trace, e)
    BY <1>1, <1>6 DEF Entry, Record
  <2>3. /\ b \in Seq(Entry) /\ Len(b) = done[t] + 1
        /\ \A i \in 1 .. done[t] + 1 : b[i] = [req |-> job[t], step |-> i]
    <3>1. job[t] \in Requests /\ done[t] + 1 \in Nat
      BY <1>1
    <3> QED BY <3>1, BlockIs, Zenon
  <2> HIDE DEF b
  <2>4. /\ trace' \in Seq(Entry) /\ n \in 0 .. Len(trace') /\ Len(b) = Len(trace') - n
    BY <1>1, <1>2, <2>1, <2>3 DEF Longer, Entry
  <2>5. ASSUME NEW i \in 1 .. Len(b) PROVE b[i] = trace'[n + i]
    <3>1. CASE i = done[t] + 1
      <4>1. n + i = Len(trace) + 1
        BY <1>1, <3>1
      <4> QED BY <2>1, <2>3, <3>1, <4>1 DEF Longer
    <3>2. CASE i # done[t] + 1
      <4>1. i \in 1 .. done[t] /\ n + i \in 1 .. Len(trace)
        BY <1>1, <2>3, <3>2
      <4> QED BY <1>4, <2>1, <2>3, <4>1 DEF Longer
    <3> QED BY <3>1, <3>2
  <2>6. trace' = SubSeq(trace', 1, n) \o b
    BY <2>3, <2>4, <2>5, PrefixAndRest
  <2>7. SubSeq(trace', 1, n) = SubSeq(trace, 1, n)
    BY <1>1, <1>2, <2>2, PrefixOfAppend
  <2>8. trace' # trace
    BY <1>1, <2>1 DEF Longer
  <2>9. done[t] + 1 \in 0 .. Len(Doing(t).plan)
    BY <1>1, <1>6
  <2> QED BY <1>3, <2>6, <2>7, <2>8, <2>9 DEF b
<1> QED BY <1>3, <1>5, <1>6 DEF Extended

\* A thread inside that does not write sees no writer.
LEMMA NoWriter ==
  ASSUME IInv, NEW t \in Threads, pc[t] = "inside", Doing(t).call # "write"
  PROVE  writer = Nobody /\ Visible = trace
  BY DEF IInv, InnerInv, Visible

\* A lookup accesses no device.
LEMMA LookupsPlan == \A o \in Menu : o.call = "is_dir" => o.plan = <<>>
  BY ServerAssumption DEF Operations, Op

\* A read that accesses its device had not done so before, and is done with it.
LEMMA ReaderLooks ==
  ASSUME IInv, NEW t \in Threads, Ready(t), Doing(t).call # "write",
         done[t] < Len(Doing(t).plan), Record(t)
  PROVE  /\ Doing(t).call = "read"
         /\ ~Atomic!Seen(job[t])
         /\ trace' = Visible \o Atomic!Block(job[t], Len(Doing(t).plan))
<1>1. /\ pc[t] = "inside" /\ alive /\ job[t] \in Requests /\ job[t] # Nobody
      /\ done[t] \in Nat /\ Len(Doing(t).plan) \in Nat /\ Len(Doing(t).plan) <= 1
      /\ OpOK(Doing(t)) /\ Doing(t) \in Menu
  BY ActiveThread, ActiveLengths DEF Ready, IInv, TypeOK
<1>2. done[t] = 0 /\ Len(Doing(t).plan) = 1
  <2> DEFINE l == Len(Doing(t).plan)
  <2>1. l \in Nat /\ l <= 1 /\ done[t] \in Nat /\ done[t] < l
    BY <1>1
  <2> HIDE DEF l
  <2>2. done[t] = 0 /\ l = 1
    BY <2>1
  <2> QED BY <2>2 DEF l
<1>3. Doing(t).call = "read"
  <2>1. Len(<<>>) = 0
    OBVIOUS
  <2>2. ASSUME Doing(t).plan = <<>> PROVE FALSE
    <3>1. Len(Doing(t).plan) = Len(<<>>)
      BY <2>2
    <3>2. 1 = 0
      BY <1>2, <2>1, <3>1, Zenon
    <3> QED BY <3>2, SMT
  <2> QED BY <1>1, <2>2, LookupsPlan DEF OpOK
<1>4. Visible = trace
  BY <1>1, NoWriter
<1>5. MadeExactly(job[t], 0)
  BY <1>1, <1>2 DEF IInv, TraceInv
<1>6. ~Atomic!Seen(job[t])
  BY <1>4, <1>5 DEF Atomic!Seen, MadeExactly
<1>7. trace' = trace \o Atomic!Block(job[t], 1)
  <2> DEFINE e == [req |-> job[t], step |-> 1]
  <2>1. /\ Atomic!Block(job[t], 1) \in Seq(Entry) /\ Len(Atomic!Block(job[t], 1)) = 1
        /\ Atomic!Block(job[t], 1)[1] = e
    <3>1. job[t] \in Requests /\ 1 \in Nat /\ 1 \in 1 .. 1
      BY <1>1
    <3> QED BY <3>1, BlockIs, Zenon
  <2>2. Atomic!Block(job[t], 1) = <<e>>
    <3>1. e \in Entry
      BY <1>1 DEF Entry
    <3> QED BY <2>1, <3>1, SeqEqual
  <2>3. trace' = Append(trace, e)
    BY <1>2 DEF Record
  <2>4. trace \in Seq(Entry) /\ e \in Entry
    BY <1>1 DEF IInv, TypeOK, Entry
  <2> QED BY <2>2, <2>3, <2>4, AppendIsConcat
<1> QED BY <1>2, <1>3, <1>4, <1>6, <1>7

-----------------------------------------------------------------------------
(* Steps that it sees.                                                     *)

\* The request of a thread that is at work is open.
LEMMA OpenRequest ==
  ASSUME IInv, alive, NEW t \in Threads, pc[t] # "idle"
  PROVE  job[t] \in Requests /\ Atomic!Open(job[t]) /\ Doing(t) = op[job[t]]
<1>1. job[t] \in Requests /\ status[job[t]] = "active" /\ Doing(t) = op[job[t]]
  BY ActiveThread DEF IInv
<1>2. reply[job[t]] = "none"
  BY <1>1 DEF IInv, JobInv
<1> QED BY <1>1, <1>2 DEF Atomic!Open

\* An access is a look at the device, or hidden in the block of the writer.
LEMMA AccessMaps ==
  ASSUME IInv, NEW t \in Threads, AccessOk(t)
  PROVE  [Atomic!Next]_(Atomic!vars)
<1>1. /\ pc[t] = "inside" /\ alive /\ Ready(t) /\ Record(t) /\ done[t] < Len(Doing(t).plan)
      /\ done' = [done EXCEPT ![t] = @ + 1]
      /\ UNCHANGED <<op, reply, job, writer, alive>>
  BY DEF AccessOk, Ready, lockVars
<1>2. CASE Doing(t).call = "write"
  <2> DEFINE e == [req |-> job[t], step |-> done[t] + 1]
             n == Len(trace) - done[t]
  <2>1. /\ writer = t /\ writer' = t /\ t # Nobody /\ alive'
        /\ done[t] \in Nat /\ done'[t] = done[t] + 1 /\ done[t] <= Len(trace)
        /\ trace \in Seq(Entry) /\ Len(trace) \in Nat
    BY <1>1, <1>2, ServerAssumption DEF IInv, InnerInv, TraceInv, TypeOK, Threads, Entry
  <2>2. e \in Entry /\ trace' = Append(trace, e)
    BY <1>1, <2>1, OpenRequest DEF Entry, Record
  <2>3. Len(trace') = Len(trace) + 1
    BY <2>1, <2>2, AppendProperties
  <2>4. n \in 0 .. Len(trace) /\ Len(trace') - done'[t] = n
    BY <2>1, <2>3
  <2>5. Visible = SubSeq(trace, 1, n) /\ Visible' = SubSeq(trace', 1, n)
    BY <1>1, <2>1, <2>4 DEF Visible
  <2>6. SubSeq(trace', 1, n) = SubSeq(trace, 1, n)
    BY <2>1, <2>2, <2>4, PrefixOfAppend
  <2> QED BY <1>1, <2>5, <2>6 DEF Atomic!vars
<1>3. CASE Doing(t).call # "write"
  <2>1. /\ job[t] \in Requests /\ Atomic!Open(job[t]) /\ Doing(t) = op[job[t]]
        /\ Doing(t).call = "read" /\ ~Atomic!Seen(job[t])
        /\ trace' = Visible \o Atomic!Block(job[t], Len(Doing(t).plan))
        /\ writer = Nobody
    BY <1>1, <1>3, OpenRequest, ReaderLooks, NoWriter
  <2>2. Visible' = trace'
    BY <1>1, <2>1 DEF Visible
  <2>3. Atomic!Look(job[t])
    BY <1>1, <2>1, <2>2 DEF Atomic!Look
  <2> QED BY <2>1, <2>3 DEF Atomic!Next
<1> QED BY <1>2, <1>3

\* Who leaves the handler answers, with its write or with what it looked at.
LEMMA LeaveMaps ==
  ASSUME IInv, BlockInv, NEW t \in Threads, NEW a \in {"ok", "err", "eio"}, Leave(t, a)
  PROVE  [Atomic!Next]_(Atomic!vars)
<1>1. /\ alive /\ alive' = alive /\ op' = op /\ pc[t] # "idle" /\ Extended(t)
      /\ reply' = [reply EXCEPT ![job[t]] = a]
      /\ writer' = IF writer = t THEN Nobody ELSE writer
      /\ done' = [done EXCEPT ![t] = 0]
      /\ a = "ok" => Ready(t) /\ done[t] = Len(Doing(t).plan) /\ trace' = trace
  BY DEF Leave, Release
<1>2. job[t] \in Requests /\ Atomic!Open(job[t]) /\ Doing(t) = op[job[t]]
  BY <1>1, OpenRequest
<1>3. CASE writer = t
  <2>1. Doing(t).call = "write"
    BY <1>3 DEF IInv, InnerInv
  <2>2. PICK k \in 0 .. Len(Doing(t).plan) :
          /\ trace' = Visible \o Atomic!Block(job[t], k)
          /\ trace' = trace => k = done[t]
    BY <1>1, <1>3, WriterBlock
  <2>3. Visible' = trace'
    BY <1>1, <1>3 DEF Visible
  <2>4. a = "ok" => k = Len(op[job[t]].plan)
    BY <1>1, <1>2, <2>2
  <2>5. Atomic!Write(job[t])
    <3>1. k \in 0 .. Len(op[job[t]].plan)
      BY <1>2, <2>2
    <3> QED BY <1>1, <1>2, <2>1, <2>2, <2>3, <2>4, <3>1 DEF Atomic!Write
  <2> QED BY <1>2, <2>5 DEF Atomic!Next
<1>4. CASE writer # t /\ trace' = trace
  <2>1. writer' = writer /\ (writer # Nobody => done'[writer] = done[writer])
    BY <1>1, <1>4 DEF IInv, TypeOK
  <2>2. Visible' = Visible
    BY <1>1, <1>4, <2>1 DEF Visible
  <2>3. CASE Doing(t).call = "write"
    <3>1. pc[t] # "inside" /\ a # "ok"
      BY <1>1, <1>4, <2>3 DEF IInv, InnerInv, Ready
    <3>2. Len(Doing(t).plan) \in Nat
      BY <1>1, ActiveLengths DEF IInv
    <3>3. 0 \in 0 .. Len(op[job[t]].plan)
      BY <1>2, <3>2
    <3>4. Atomic!Block(job[t], 0) = <<>>
      BY DEF Atomic!Block
    <3>5. Visible \in Seq(Entry)
      <4>1. trace \in Seq(Entry)
        BY DEF IInv, TypeOK, Entry
      <4>2. CASE writer = Nobody
        BY <4>1, <4>2 DEF Visible
      <4>3. CASE writer # Nobody
        <5>1. writer \in Threads
          BY <4>3 DEF IInv, TypeOK
        <5>2. Len(trace) - done[writer] \in 0 .. Len(trace)
          BY <1>1, <5>1 DEF IInv, TraceInv, TypeOK
        <5> QED BY <1>1, <4>1, <4>3, <5>2, Prefix DEF Visible
      <4> QED BY <4>2, <4>3
    <3>6. Visible' = Visible \o Atomic!Block(job[t], 0)
      BY <2>2, <3>4, <3>5, ConcatEmptySeq
    <3>7. Atomic!Write(job[t])
      BY <1>1, <1>2, <2>3, <3>1, <3>3, <3>6 DEF Atomic!Write
    <3> QED BY <1>2, <3>7 DEF Atomic!Next
  <2>4. CASE Doing(t).call # "write"
    <3>1. a = "ok" => Atomic!Seen(job[t]) \/ op[job[t]].plan = <<>>
      <4> SUFFICES ASSUME a = "ok", Doing(t).plan # <<>> PROVE Atomic!Seen(job[t])
        BY <1>2
      <4>1. /\ pc[t] = "inside" /\ job[t] # Nobody /\ OpOK(Doing(t))
            /\ done[t] = Len(Doing(t).plan)
        BY <1>1, ActiveThread DEF Ready, IInv
      <4>2. done[t] \in Nat /\ done[t] # 0
        BY <4>1, EmptySeq DEF OpOK
      <4>3. MadeExactly(job[t], done[t])
        BY <1>1, <4>1 DEF IInv, TraceInv
      <4>4. 1 \in 1 .. done[t]
        BY <4>2
      <4>5. PICK i \in DOMAIN trace : trace[i] = [req |-> job[t], step |-> 1]
        BY <4>3, <4>4 DEF MadeExactly
      <4>6. Visible = trace
        BY <2>4, <4>1, NoWriter
      <4> QED BY <4>5, <4>6 DEF Atomic!Seen
    <3>2. Atomic!Answer(job[t])
      BY <1>1, <1>2, <2>2, <2>4, <3>1 DEF Atomic!Answer
    <3> QED BY <1>2, <3>2 DEF Atomic!Next
  <2> QED BY <2>3, <2>4
<1>5. CASE writer # t /\ trace' # trace
  <2>1. Ready(t) /\ done[t] < Len(Doing(t).plan) /\ Record(t) /\ a # "ok"
    BY <1>1, <1>5 DEF Extended
  <2>2. Doing(t).call # "write" /\ pc[t] = "inside"
    BY <1>5, <2>1 DEF IInv, InnerInv, Ready
  <2>3. /\ Doing(t).call = "read" /\ ~Atomic!Seen(job[t]) /\ writer = Nobody
        /\ trace' = Visible \o Atomic!Block(job[t], Len(Doing(t).plan))
    BY <2>1, <2>2, ReaderLooks, NoWriter
  <2>4. Visible' = trace'
    BY <1>1, <1>5, <2>3 DEF Visible
  <2>5. Atomic!LookFails(job[t])
    BY <1>1, <1>2, <2>1, <2>3, <2>4 DEF Atomic!LookFails
  <2> QED BY <1>2, <2>5 DEF Atomic!Next
<1> QED BY <1>3, <1>4, <1>5

\* A panic that ends the process shows the accesses of the one who writes, or
\* that of the one who looks.
LEMMA AbortMaps ==
  ASSUME IInv, BlockInv, NEW t \in Threads, Abort(t)
  PROVE  [Atomic!Next]_(Atomic!vars)
<1> SUFFICES Atomic!Crash
  BY DEF Atomic!Next
<1>1. /\ alive /\ ~alive' /\ alive' = FALSE /\ pc[t] # "idle" /\ Extended(t)
      /\ op' = op /\ reply' = reply
  BY DEF Abort
<1>2. Visible' = trace'
  BY <1>1 DEF Visible
<1>3. ASSUME NEW u \in Threads, pc[u] # "idle", ~Atomic!Seen(job[u]),
             NEW k \in 0 .. Len(Doing(u).plan), trace' = Visible \o Atomic!Block(job[u], k),
             Visible \in Seq(Entry)
      PROVE  Atomic!Crash
  <2>1. job[u] \in Requests /\ reply[job[u]] = "none" /\ Doing(u) = op[job[u]]
    BY <1>1, <1>3, OpenRequest DEF Atomic!Open
  <2>2. CASE k = 0
    <3>1. Atomic!Block(job[u], 0) = <<>>
      BY DEF Atomic!Block
    <3>2. Visible' = Visible
      BY <1>2, <1>3, <2>2, <3>1, ConcatEmptySeq
    <3> QED BY <1>1, <3>2 DEF Atomic!Crash
  <2>3. CASE k # 0
    <3>1. Len(Doing(u).plan) \in Nat
      BY <1>3, ActiveLengths DEF IInv
    <3>2. k \in 1 .. Len(op[job[u]].plan)
      BY <2>1, <2>3, <3>1
    <3> QED BY <1>1, <1>2, <1>3, <2>1, <3>2 DEF Atomic!Crash
  <2> QED BY <2>2, <2>3
<1>4. trace \in Seq(Entry) /\ Len(trace) \in Nat /\ DOMAIN trace = 1 .. Len(trace)
  BY DEF IInv, TypeOK, Entry
<1>5. CASE writer = Nobody
  <2>1. Visible = trace
    BY <1>5 DEF Visible
  <2>2. CASE trace' = trace
    BY <1>1, <1>2, <2>1, <2>2 DEF Atomic!Crash
  <2>3. CASE trace' # trace
    <3>1. Ready(t) /\ done[t] < Len(Doing(t).plan) /\ Record(t)
      BY <1>1, <2>3 DEF Extended
    <3>2. t # Nobody /\ Doing(t).call # "write"
      BY <1>5, <3>1, ServerAssumption DEF IInv, InnerInv, Ready, Threads
    <3>3. /\ ~Atomic!Seen(job[t])
          /\ trace' = Visible \o Atomic!Block(job[t], Len(Doing(t).plan))
      BY <3>1, <3>2, ReaderLooks
    <3>4. Len(Doing(t).plan) \in 0 .. Len(Doing(t).plan)
      BY <1>1, ActiveLengths DEF IInv
    <3> QED BY <1>1, <1>3, <1>4, <2>1, <3>3, <3>4
  <2> QED BY <2>2, <2>3
<1>6. CASE writer # Nobody
  <2>1. PICK u \in Threads : writer = u
    BY <1>6 DEF IInv, TypeOK
  <2>2. pc[u] = "inside" /\ done[u] \in Nat /\ done[u] <= Len(trace)
    BY <1>1, <2>1 DEF IInv, InnerInv, TraceInv, TypeOK
  <2>3. Extended(u)
    <3>1. CASE trace' = trace
      BY <3>1 DEF Extended
    <3>2. CASE trace' # trace
      <4>1. Ready(t)
        BY <1>1, <3>2 DEF Extended
      <4>2. t = u
        BY <2>1, <4>1, OneWriter DEF Ready
      <4> QED BY <1>1, <4>2
    <3> QED BY <3>1, <3>2
  <2>4. /\ Visible = SubSeq(trace, 1, Len(trace) - done[u])
        /\ \E k \in 0 .. Len(Doing(u).plan) : trace' = Visible \o Atomic!Block(job[u], k)
    BY <1>1, <2>1, <2>3, WriterBlock
  <2>5. PICK k \in 0 .. Len(Doing(u).plan) : trace' = Visible \o Atomic!Block(job[u], k)
    BY <2>4
  <2>6. Len(trace) - done[u] \in 0 .. Len(trace)
    BY <1>4, <2>2
  <2>7. /\ Visible \in Seq(Entry) /\ Len(Visible) = Len(trace) - done[u]
        /\ \A i \in 1 .. Len(trace) - done[u] : Visible[i] = trace[i]
    BY <1>4, <2>4, <2>6, Prefix
  <2>8. ~Atomic!Seen(job[u])
    <3>1. \A i \in 1 .. Len(trace) - done[u] : trace[i].req # job[u]
      BY <1>1, <1>4, <2>1, <2>2 DEF IInv, TraceInv
    <3>2. DOMAIN Visible = 1 .. Len(trace) - done[u]
      BY <2>7
    <3> QED BY <2>7, <3>1, <3>2 DEF Atomic!Seen
  <2> QED BY <1>3, <2>2, <2>5, <2>7, <2>8
<1> QED BY <1>5, <1>6

-----------------------------------------------------------------------------
\* Together with IInv the order of the writer's accesses is inductive.
THEOREM BlockInvariance == Spec => []BlockInv
<1>1. Init => BlockInv
  BY ServerAssumption DEF Init, BlockInv, Threads
<1>2. IInv /\ BlockInv /\ [Next]_vars => BlockInv'
  BY BlockKeeps
<1> QED BY <1>1, <1>2, Invariance, PTL DEF Spec

\* The daemon implements the camera whose requests take effect one at a time,
\* whatever panics, whether a panic aborts or unwinds, however many pool threads
\* there are.
THEOREM Refinement == Spec => ImplementsAtomicCamera
<1>1. Init => Atomic!Init
  BY DEF Init, Atomic!Init, Visible
<1>2. ASSUME IInv, BlockInv, [Next]_vars PROVE [Atomic!Next]_(Atomic!vars)
  <2>1. ASSUME NEW t \in Threads, Step(t) PROVE [Atomic!Next]_(Atomic!vars)
    <3>1. CASE EnterShared(t) \/ LockChannel(t)
      BY <1>2, <3>1, SilentSteps, SilentStutters
    <3>2. CASE EnterExclusive(t)
      <4>1. /\ writer = Nobody /\ done' = done /\ writer' = t /\ t # Nobody
            /\ UNCHANGED <<op, reply, trace, alive>> /\ done[t] = 0
        BY <1>2, <3>2, ServerAssumption DEF EnterExclusive, devVars, IInv, TypeOK, Threads
      <4>2. trace \in Seq(Entry) /\ Len(trace) \in 0 .. Len(trace) /\ Len(trace) - 0 = Len(trace)
        BY <1>2 DEF IInv, TypeOK, Entry
      <4>3. SubSeq(trace, 1, Len(trace)) = trace
        BY <4>2, Prefix
      <4>4. Visible = trace /\ Visible' = trace
        BY <4>1, <4>2, <4>3 DEF Visible
      <4> QED BY <4>1, <4>4 DEF Atomic!vars
    <3> QED BY <1>2, <2>1, <3>1, <3>2, StepCases, AccessMaps, AbortMaps, LeaveMaps DEF IInv
  <2>2. CASE UNCHANGED vars \/ Dispatch \/ \E w \in Workers : TakeJob(w)
    BY <1>2, <2>2, SilentSteps, SilentStutters
  <2> QED BY <1>2, <2>1, <2>2 DEF Next, Quiet
<1> QED BY <1>1, <1>2, Invariance, BlockInvariance, PTL DEF Spec, ImplementsAtomicCamera, Atomic!Spec
===============================================================================
