------------------------------ MODULE MCScanRun ------------------------------
(* A small instance of ScanRun. *)
EXTENDS ScanRun
=============================================================================
