----------------------------- MODULE FuseServerInv -----------------------------
(***************************************************************************)
(* The inductive invariant behind the safety properties of FuseServer: who *)
(* holds which lock follows from where each thread is, and the trace ends  *)
(* with the accesses of the thread that writes.                            *)
(***************************************************************************)
EXTENDS FuseServer

\* A thread has a job unless it is idle, nobody shares a job, and a request is
\* where its status says.
JobInv ==
  /\ \A t \in Threads : job[t] = Nobody <=> pc[t] = "idle"
  /\ \A t \in Threads : job[t] # Nobody => status[job[t]] = "active"
  /\ \A t, u \in Threads : job[t] = job[u] /\ job[t] # Nobody => t = u
  /\ \A i \in DOMAIN queue : status[queue[i]] = "queued"
  /\ \A i, j \in DOMAIN queue : queue[i] = queue[j] => i = j
  /\ \A r \in Requests : status[r] = "replied" <=> reply[r] # "none"

\* `inner` is held by the threads inside: shared, or by one alone; once it is
\* poisoned nobody is inside.
InnerInv ==
  /\ \A t \in Threads :
       t \in readers <=> pc[t] = "inside" /\ Doing(t).call # "write"
  /\ \A t \in Threads :
       writer = t <=> pc[t] = "inside" /\ Doing(t).call = "write"
  /\ writer # Nobody => readers = {}
  /\ sealed => \A t \in Threads : pc[t] # "inside"

\* A thread holds exactly the mutexes it counts, and accesses no device before
\* it holds all of them.
MutexInv ==
  /\ \A c \in Channels, t \in Threads :
       mutex[c] = t <=> /\ pc[t] = "inside"
                        /\ \E i \in 1 .. held[t] : Doing(t).locks[i] = c
  /\ \A t \in Threads :
       pc[t] = "inside" =>
         /\ held[t] <= Len(Doing(t).locks)
         /\ done[t] <= Len(Doing(t).plan)
         /\ done[t] > 0 => held[t] = Len(Doing(t).locks)

\* Only requests that were started are in the trace; while the process lives,
\* a thread has made as many accesses as it counts, and those of the writer
\* are the last of the trace.
TraceInv ==
  /\ \A i \in DOMAIN trace : status[trace[i].req] \in {"active", "replied"}
  /\ alive => \A t \in Threads : job[t] # Nobody => MadeExactly(job[t], done[t])
  /\ alive => \A t \in Threads : writer = t =>
       /\ done[t] <= Len(trace)
       /\ \A i \in DOMAIN trace :
            trace[i].req = job[t] <=> i > Len(trace) - done[t]

IInv ==
  /\ TypeOK
  /\ JobInv
  /\ InnerInv
  /\ MutexInv
  /\ TraceInv
  /\ Serial
  /\ OkMeansAll
  /\ PoisonHasCulprit

\* The invariant behind DeviceUnwrapSafe, on top of IInv: a mutex that is held
\* is not poisoned, and a device lock is
\* poisoned only if the mutex of its register set is.
DeviceInv ==
  /\ \A c \in Channels : mutex[c] # Nobody => c \notin poisoned
  /\ alive => devPoisoned \subseteq poisoned
===============================================================================
