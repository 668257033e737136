--------------------------- MODULE FuseServerAtomic ---------------------------
(* FuseServer implements AtomicCamera: the locks make the requests atomic.  *)
EXTENDS FuseServer

\* What the camera has been told as far as a client may know: the accesses of
\* a write that is still under way do not count before it is answered.
Visible ==
  IF alive /\ writer # Nobody
    THEN SubSeq(trace, 1, Len(trace) - done[writer])
    ELSE trace

Atomic == INSTANCE AtomicCamera WITH trace <- Visible

\* Every execution of the daemon looks like one in which each write, with its
\* answer, happens at once and each read looks at its device at once: this is
\* what `inner` taken in read and write of FuseableWrapper is for.
ImplementsAtomicCamera == Atomic!Spec
===============================================================================
