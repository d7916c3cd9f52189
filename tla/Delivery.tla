------------------------------ MODULE Delivery ------------------------------
(***************************************************************************)
(* What the upload path promises, with the spool directory, the requests,  *)
(* the crashes and the renames left out: a scan that was queued stays      *)
(* queued until the server has it, and what the server has it keeps.       *)
(* transmitReport ("what makes resumption real") and docs/FLAGS.md         *)
(* ("removed only once the server has accepted and reconciled it") state   *)
(* it in words.  Module Transmit implements it.                            *)
(***************************************************************************)
CONSTANT Scans

VARIABLES
  begun,      \* scans a run has begun to spool and not answered for
  queued,     \* scans that wait in the spool
  delivered   \* scans the server accepted and reconciled

vars == <<begun, queued, delivered>>

Init == begun = {} /\ queued = {} /\ delivered = {}

Begin(s) ==
  /\ s \in Scans \ (begun \union queued \union delivered)
  /\ begun' = begun \union {s}
  /\ UNCHANGED <<queued, delivered>>

\* The run answers for the scan: from here on it is in the queue.
Answer(s) ==
  /\ s \in begun \ queued
  /\ begun' = begun \ {s}
  /\ queued' = queued \union {s}
  /\ UNCHANGED delivered

\* A run that was killed or failed left a scan a later run will send, or
\* --transmit-from queues a delivered scan again.
Enqueue(s) ==
  /\ s \in (begun \union delivered) \ queued
  /\ queued' = queued \union {s}
  /\ UNCHANGED <<begun, delivered>>

\* A scan nobody has answered for may be sent by another run, from the files
\* its own run is about to give up.
Deliver(s) ==
  /\ s \in (queued \union begun) \ delivered
  /\ delivered' = delivered \union {s}
  /\ UNCHANGED <<begun, queued>>

Remove(s) ==
  /\ s \in queued \intersect delivered
  /\ queued' = queued \ {s}
  /\ UNCHANGED <<begun, delivered>>

Next == \E s \in Scans : Begin(s) \/ Answer(s) \/ Enqueue(s) \/ Deliver(s) \/ Remove(s)

Spec == Init /\ [][Next]_vars
=============================================================================
