---------------------------- MODULE MCHeartbeat -----------------------------
(* Small instances of Heartbeat. *)
EXTENDS Heartbeat

Kinds(crash, record, write, source, delete, edit, force) ==
  [k \in FaultKinds |-> CASE k = "crash" -> crash [] k = "record" -> record [] k = "write" -> write
                          [] k = "source" -> source [] k = "delete" -> delete
                          [] k = "edit" -> edit [] k = "force" -> force]

MCAll    == Kinds(1, 1, 1, 1, 1, 1, 1)
=============================================================================
