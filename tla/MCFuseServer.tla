---------------------------- MODULE MCFuseServer ----------------------------
(* Finite instances of FuseServer for TLC.                                 *)
EXTENDS FuseServerInv, FuseServerAtomic, TLC

CONSTANTS d, w1, w2, r1, r2, r3, sensor, sensor_io, nobody

\* One operation of each kind that behaves differently from the others: a
\* path lookup, a read of a register value, a write of whole bytes, a write of
\* a slice, a write of a masked slice, the edit of a value map, the reset.
FullMenu ==
  {Op("is_dir", <<sensor>>, <<>>), Op("is_dir", <<>>, <<>>),
   Op("read", <<sensor>>, ReadReal(sensor)),
   Op("read", <<sensor_io>>, ReadReal(sensor_io)),
   Op("write", <<sensor>>, <<>>),
   Op("write", <<sensor_io>>, ValueWrite(sensor_io, FALSE, FALSE)),
   Op("write", <<sensor>>, ValueWrite(sensor, TRUE, TRUE)),
   Op("write", <<sensor, sensor_io>>, ResetPlan)}

\* All the operations that differ in what they lock and access.
EveryOperation == Operations

RequestSymmetry == Permutations({r1, r2, r3})
=============================================================================
