----------------------------- MODULE MCTransmit -----------------------------
(* Small instances of Transmit for TLC. *)
EXTENDS Transmit

\* Scans are numbers here: scan 1 is cut into two batches, the others into one,
\* and the names sort by scan.  A run may spool scan 2 before scan 1, so the
\* order of the names is not the order of creation.
MCNumBatches == [s \in Scans |-> IF s = 1 THEN 2 ELSE 1]

MCDirRank == [n \in Names |-> 2 * n[1] + (IF n[2] = "own" THEN 0 ELSE 1)]

\* Budgets: how many faults of each kind a behaviour may hold.
Budget(crash, net, dsk, restart, garble, respool) ==
  [k \in Kinds |-> CASE k = "crash" -> crash [] k = "net" -> net
                     [] k = "disk" -> dsk [] k = "restart" -> restart
                     [] k = "garble" -> garble [] k = "respool" -> respool]

SoloFaults   == Budget(1, 1, 1, 1, 0, 0)
SharedFaults == Budget(1, 1, 0, 0, 1, 1)
=============================================================================
