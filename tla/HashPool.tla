------------------------------ MODULE HashPool ------------------------------
(***************************************************************************)
(* The worker pool of HashComponents (internal/scan/hash.go): one feeder,  *)
(* Workers, a goroutine that closes the results once every worker has      *)
(* returned, and the caller, which collects until they are closed.  Both   *)
(* channels are unbuffered, so a send and its receive are one step.  The   *)
(* pool ends early when the context of the scan is done; module ScanRun    *)
(* says what becomes of a scan whose pool did.                             *)
(***************************************************************************)
EXTENDS FiniteSets

CONSTANTS
  Files,     \* the files that back one component each: the keys of `paths`
  Workers    \* as many as --parallelism or the CPUs say

VARIABLES
  cancelled,  \* ctx.Err() # nil
  unfed,      \* the paths the feeder has not sent
  fed,        \* the work channel is closed
  job,        \* what each worker has received and not dealt with, {} or {p}
  at,         \* "idle", "got", "send" or "gone", for each worker
  collecting, \* the caller ranges over the results
  digests,    \* the paths whose digest it has
  unreadable  \* the paths a worker could not hash (history)

pool == <<unfed, fed, job, at, collecting, digests, unreadable>>

PoolTypeOK ==
  /\ unfed \subseteq Files
  /\ fed \in BOOLEAN
  /\ job \in [Workers -> {{}} \union {{p} : p \in Files}]
  /\ at \in [Workers -> {"idle", "got", "send", "gone"}]
  /\ collecting \in BOOLEAN
  /\ digests \subseteq Files
  /\ unreadable \subseteq Files

PoolInit ==
  /\ unfed = Files
  /\ fed = FALSE
  /\ job = [w \in Workers |-> {}]
  /\ at = [w \in Workers |-> "idle"]
  /\ collecting = (Files # {})
  /\ digests = {}
  /\ unreadable = {}

\* A path passes from the feeder to a worker that waits in its range.  The
\* map is walked in any order, and with a cancelled context the feeder's
\* select may still take this case.
Feed(w) ==
  /\ ~fed /\ at[w] = "idle"
  /\ \E p \in unfed :
       /\ unfed' = unfed \ {p}
       /\ job' = [job EXCEPT ![w] = {p}]
  /\ at' = [at EXCEPT ![w] = "got"]
  /\ UNCHANGED <<fed, collecting, digests, unreadable>>

\* The feeder returns, and its defer closes the work channel.
FeederEnds ==
  /\ ~fed
  /\ unfed = {} \/ cancelled
  /\ fed' = TRUE
  /\ UNCHANGED <<unfed, job, at, collecting, digests, unreadable>>

\* A worker looks at the context, and then hashes the file.  It may have
\* looked before the context was done; a file it cannot hash is skipped.
Hash(w) ==
  /\ at[w] = "got"
  /\ \/ /\ at' = [at EXCEPT ![w] = "send"]
        /\ UNCHANGED <<job, unreadable>>
     \/ /\ at' = [at EXCEPT ![w] = "idle"]
        /\ job' = [job EXCEPT ![w] = {}]
        /\ unreadable' = unreadable \union job[w]
  /\ UNCHANGED <<unfed, fed, collecting, digests>>

\* A digest passes from a worker to the caller.
Collect(w) ==
  /\ at[w] = "send" /\ collecting
  /\ digests' = digests \union job[w]
  /\ at' = [at EXCEPT ![w] = "idle"]
  /\ job' = [job EXCEPT ![w] = {}]
  /\ UNCHANGED <<unfed, fed, collecting, unreadable>>

\* A worker returns: the work is over, or the context is done when it looks,
\* which loses what it holds.
WorkerEnds(w) ==
  /\ \/ at[w] = "idle" /\ fed
     \/ at[w] \in {"got", "send"} /\ cancelled
  /\ at' = [at EXCEPT ![w] = "gone"]
  /\ job' = [job EXCEPT ![w] = {}]
  /\ UNCHANGED <<unfed, fed, collecting, digests, unreadable>>

\* wg.Wait returns, the results are closed, and so the caller's range ends.
CloseResults ==
  /\ collecting
  /\ \A w \in Workers : at[w] = "gone"
  /\ collecting' = FALSE
  /\ UNCHANGED <<unfed, fed, job, at, digests, unreadable>>

PoolStep ==
  \/ \E w \in Workers : Feed(w) \/ Hash(w) \/ Collect(w) \/ WorkerEnds(w)
  \/ FeederEnds
  \/ CloseResults
=============================================================================
