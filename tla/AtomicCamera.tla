---------------------------- MODULE AtomicCamera ----------------------------
(***************************************************************************)
(* What the daemon promises to whoever uses its files: requests take effect*)
(* on the devices one at a time.  A write happens in one instant, together *)
(* with its answer; a read looks at a device in one instant, some time     *)
(* before its answer.  A write that fails may have made only the beginning *)
(* of its accesses, but never says ok then.  The process may end at any    *)
(* instant, in the middle of at most one write.                            *)
(***************************************************************************)
EXTENDS Naturals, Sequences

CONSTANTS
  Requests,     \* the requests of one execution
  Menu          \* the operations they are drawn from: see FuseServer

VARIABLES
  op,           \* op[r]: what request r asks for
  reply,        \* reply[r]: the answer sent to the kernel
  trace,        \* the device accesses so far
  alive         \* the process has not exited

vars == <<op, reply, trace, alive>>

Init ==
  /\ op \in [Requests -> Menu]
  /\ reply = [r \in Requests |-> "none"]
  /\ trace = <<>>
  /\ alive = TRUE

\* The first k accesses of request r, back to back.
Block(r, k) == [i \in 1 .. k |-> [req |-> r, step |-> i]]

\* Request r has accessed a device.
Seen(r) == \E i \in DOMAIN trace : trace[i].req = r

Open(r) == alive /\ reply[r] = "none"

\* A write takes effect and is answered.
Write(r) ==
  /\ Open(r)
  /\ op[r].call = "write"
  /\ \E k \in 0 .. Len(op[r].plan), answer \in {"ok", "err", "eio"} :
       /\ answer = "ok" => k = Len(op[r].plan)
       /\ trace' = trace \o Block(r, k)
       /\ reply' = [reply EXCEPT ![r] = answer]
  /\ UNCHANGED <<op, alive>>

\* A read looks at its device.
Look(r) ==
  /\ Open(r)
  /\ op[r].call = "read"
  /\ ~Seen(r)
  /\ trace' = trace \o Block(r, Len(op[r].plan))
  /\ UNCHANGED <<op, reply, alive>>

\* A read that failed in the device is answered with the error.
LookFails(r) ==
  /\ Open(r)
  /\ op[r].call = "read"
  /\ ~Seen(r)
  /\ trace' = trace \o Block(r, Len(op[r].plan))
  /\ reply' \in {[reply EXCEPT ![r] = a] : a \in {"err", "eio"}}
  /\ UNCHANGED <<op, alive>>

\* A lookup or a read is answered.
Answer(r) ==
  /\ Open(r)
  /\ op[r].call # "write"
  /\ \E answer \in {"ok", "err", "eio"} :
       /\ answer = "ok" => Seen(r) \/ op[r].plan = <<>>
       /\ reply' = [reply EXCEPT ![r] = answer]
  /\ UNCHANGED <<op, trace, alive>>

\* The process ends, perhaps in the middle of one request.
Crash ==
  /\ alive
  /\ alive' = FALSE
  /\ \/ trace' = trace
     \/ \E r \in Requests :
          /\ reply[r] = "none"
          /\ ~Seen(r)
          /\ \E k \in 1 .. Len(op[r].plan) : trace' = trace \o Block(r, k)
  /\ UNCHANGED <<op, reply>>

Next ==
  \/ \E r \in Requests : Write(r) \/ Look(r) \/ LookFails(r) \/ Answer(r)
  \/ Crash

Spec == Init /\ [][Next]_vars
=============================================================================
