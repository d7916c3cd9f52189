---------------------------- MODULE MCAtomicFile ----------------------------
(* Small instances of AtomicFile: two timestamped reports, or two runs in   *)
(* overwrite mode that share one name.                                      *)
EXTENDS AtomicFile

MCTimestamped == [r \in Runs |-> r]
MCOverwrite   == [r \in Runs |-> 1]
MCTargets     == {MCTimestamped, MCOverwrite}

Faults(dsk, kill, power) ==
  [k \in FaultKinds |-> CASE k = "disk" -> dsk [] k = "kill" -> kill [] k = "power" -> power]

MCFaults == Faults(2, 1, 1)
=============================================================================
