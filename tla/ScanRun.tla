------------------------------ MODULE ScanRun -------------------------------
(***************************************************************************)
(* One scanning run of swinv: run() of cmd/swinv/main.go from the moment   *)
(* the flags are parsed, scan.Run, the two goroutines that run beside the  *)
(* scan (the deadline watchdog and the heartbeat with its stack dump), and *)
(* the exit code.  The hash stage is the pool of module HashPool.  The     *)
(* files are those of module AtomicFile, the digest --heartbeat records is *)
(* in module Heartbeat and the upload in module Transmit: each is one step *)
(* here, with the outcomes run() tells apart.                              *)
(*                                                                         *)
(* Left out: --stdout, which writes one format and never uploads; the      *)
(* containers, whose reading no exit code depends on; the other modes,     *)
(* which do not scan; and the Windows collector behind platformScan.       *)
(***************************************************************************)
EXTENDS Naturals, FiniteSets

CONSTANTS
  Sources,     \* the package databases probeSources looks for
  NumFormats,  \* how many formats --format names
  Timeout,     \* --timeout, in units of the clock
  Grace,       \* watchdogGrace
  WorldBudget, \* bound: how often a database may change under the scan
  Files,       \* of HashPool
  Workers      \* of HashPool

ASSUME ScanRunConstants ==
  /\ NumFormats \in Nat \ {0}      \* parseFormats refuses an empty list
  /\ Timeout \in Nat \ {0}         \* validated in parseFlags
  /\ Grace \in Nat
  /\ WorldBudget \in Nat
  /\ Workers # {}                  \* 0 stands for the CPUs

\* A database as Stat, Open and ReadDir find it.
Databases == {"absent", "empty", "unreadable", "full"}

exitOK           == 0
exitIncomplete   == 1
exitUsage        == 2
exitFatal        == 3
exitTimeout      == 4
exitSourceFailed == 5
exitTransmit     == 6

VARIABLES
  opts,       \* the flags that steer the run
  pc,         \* where run() is
  exit,       \* the exit code, once pc is "ended"
  deadline,   \* time left to ctx
  watchdog,   \* "off", "armed", "fired" or "stopped"
  dogLeft,    \* time left to the watchdog's timer
  beat,       \* "off", "ticking", "dumping" or "stopped"
  dumped,     \* dumpAt is nil
  world,      \* the databases on the host
  spell,      \* what each has been since the run cataloged (history)
  changes,    \* how often one may still change
  sockets,    \* "ok" (read, or skipped) or "error": the services source
  found,      \* the sources that contributed a component
  scanErr,    \* what scan.Run returned: "none", "deadline" or "failed"
  incomplete, \* Scan.Incomplete
  failed,     \* failedSources
  written,    \* how many formats are on disk
  page,       \* the HTML report is on disk
  upload,     \* "none", "delivered" or "kept"
  unfed, fed, job, at, collecting, digests, unreadable   \* of HashPool

hashing  == <<unfed, fed, job, at, collecting, digests, unreadable>>
beside   == <<watchdog, dogLeft, beat, dumped>>
host     == <<world, spell, changes>>
result   == <<sockets, found, scanErr, incomplete, failed>>
products == <<written, page, upload>>
vars     == <<opts, pc, exit, deadline, beside, host, result, products, hashing>>

Expired == deadline = 0     \* ctx.Err() # nil

Pool == INSTANCE HashPool WITH cancelled <- Expired

TypeOK ==
  /\ opts \in [{"hash", "html", "transmit", "requireComplete", "catalogers"} -> BOOLEAN]
  /\ pc \in {"setup", "stop", "join", "assemble", "write", "html",
             "transmit", "verdict", "ended",
             "preflight", "source", "catalog", "hash", "check"}
  /\ exit \in exitOK..exitTransmit
  /\ deadline \in 0..Timeout
  /\ watchdog \in {"off", "armed", "fired", "stopped"}
  /\ dogLeft \in 0..(Timeout + Grace)
  /\ beat \in {"off", "ticking", "dumping", "stopped"}
  /\ dumped \in BOOLEAN
  /\ world \in [Sources -> Databases]
  /\ spell \in [Sources -> SUBSET Databases]
  /\ changes \in 0..WorldBudget
  /\ sockets \in {"ok", "error"}
  /\ found \subseteq Sources
  /\ scanErr \in {"none", "deadline", "failed"}
  /\ incomplete \in BOOLEAN
  /\ failed \subseteq Sources \union {"services"}
  /\ written \in 0..NumFormats
  /\ page \in BOOLEAN
  /\ upload \in {"none", "delivered", "kept"}
  /\ Pool!PoolTypeOK

Init ==
  /\ opts \in [{"hash", "html", "transmit", "requireComplete", "catalogers"} -> BOOLEAN]
  /\ opts.requireComplete => opts.transmit   \* of no effect without it
  /\ pc = "setup"
  /\ exit = exitOK
  /\ deadline = Timeout
  /\ watchdog = "off" /\ dogLeft = 0
  /\ beat = "off" /\ dumped = FALSE
  /\ world \in [Sources -> Databases]
  /\ spell = [s \in Sources |-> {world[s]}]
  /\ changes = WorldBudget
  /\ sockets = "ok"
  /\ found = {}
  /\ scanErr = "none"
  /\ incomplete = FALSE
  /\ failed = {}
  /\ written = 0 /\ page = FALSE
  /\ upload = "none"
  /\ Pool!PoolInit

Exits(code) ==
  /\ pc' = "ended"
  /\ exit' = code

Goes(next) ==
  /\ pc' = next
  /\ UNCHANGED exit

(***************************************************************************)
(* Before the scan                                                         *)
(***************************************************************************)

\* A baseline, an output directory or a machine id the run cannot do without.
SetupFails ==
  /\ pc = "setup"
  /\ \E code \in {exitUsage, exitFatal} : Exits(code)
  /\ UNCHANGED <<opts, deadline, beside, host, result, products, hashing>>

\* Mutant: the watchdog is not started.
StartUnwatched ==
  /\ pc = "setup"
  /\ sockets' \in {"ok", "error"}
  /\ beat' = "ticking"
  /\ Goes("preflight")
  /\ UNCHANGED <<opts, deadline, watchdog, dogLeft, dumped, host, found, scanErr, incomplete,
                 failed, products, hashing>>

\* listenSnapshot, and then both goroutines start.
StartScan ==
  /\ pc = "setup"
  /\ sockets' \in {"ok", "error"}
  /\ beat' = "ticking"
  /\ watchdog' = "armed"
  /\ dogLeft' = Timeout + Grace
  /\ Goes("preflight")
  /\ UNCHANGED <<opts, deadline, dumped, host, found, scanErr, incomplete, failed,
                 products, hashing>>

(***************************************************************************)
(* scan.Run                                                                *)
(***************************************************************************)

\* An error that is the context's, or that comes when the context is done,
\* is told apart from every other (contextError).
ScanFails ==
  /\ scanErr' = IF Expired THEN "deadline" ELSE "failed"
  /\ Goes("stop")

\* Patterns are checked, and links quarantined, by a walk that ends early
\* when the context is done; the context is checked again after it.
Preflight ==
  /\ pc = "preflight"
  /\ \/ ScanFails
     \/ ~Expired /\ Goes("source") /\ UNCHANGED scanErr
  /\ UNCHANGED <<opts, deadline, beside, host, sockets, found, incomplete, failed,
                 products, hashing>>

GetSource ==
  /\ pc = "source"
  /\ \/ ScanFails
     \/ Goes("catalog") /\ UNCHANGED scanErr
  /\ UNCHANGED <<opts, deadline, beside, host, sockets, found, incomplete, failed,
                 products, hashing>>

\* CreateSBOM returns an inventory, whether or not the context is done: the
\* index is built by a walk that does not look.  A database it can read need
\* not yield anything.
Catalog ==
  /\ pc = "catalog"
  /\ \E some \in SUBSET {s \in Sources : world[s] = "full"} : found' = some
  /\ Goes(IF opts.hash /\ Files # {} THEN "hash" ELSE "check")
  /\ UNCHANGED <<opts, deadline, beside, host, sockets, scanErr, incomplete, failed,
                 products, hashing>>

\* CreateSBOM returns an error.  That of a cataloger leaves an inventory with
\* nothing in it, and so nothing to hash.
CatalogFails ==
  /\ pc = "catalog"
  /\ IF Expired
       THEN ScanFails /\ UNCHANGED incomplete
       ELSE incomplete' = TRUE /\ Goes("check") /\ UNCHANGED scanErr
  /\ UNCHANGED <<opts, deadline, beside, host, sockets, found, failed, products, hashing>>

HashStep ==
  /\ pc = "hash"
  /\ Pool!PoolStep
  /\ UNCHANGED <<opts, pc, exit, deadline, beside, host, result, products>>

HashEnds ==
  /\ pc = "hash" /\ ~collecting
  /\ Goes("check")
  /\ UNCHANGED <<opts, deadline, beside, host, result, products, hashing>>

\* Mutant: what was collected is returned, and the context not looked at.
CheckNothing ==
  /\ pc = "check"
  /\ scanErr' = "none"
  /\ Goes("stop")
  /\ UNCHANGED <<opts, deadline, beside, host, sockets, found, incomplete, failed,
                 products, hashing>>

\* The last look at the context before scan.Run returns.
Check ==
  /\ pc = "check"
  /\ scanErr' = IF Expired THEN "deadline" ELSE "none"
  /\ Goes("stop")
  /\ UNCHANGED <<opts, deadline, beside, host, sockets, found, incomplete, failed,
                 products, hashing>>

(***************************************************************************)
(* The watchdog, the heartbeat, the clock and the host                     *)
(***************************************************************************)

\* The goroutine leaves its select through the timer.
WatchdogFires ==
  /\ watchdog = "armed" /\ dogLeft = 0
  /\ watchdog' = "fired"
  /\ UNCHANGED <<opts, pc, exit, deadline, dogLeft, beat, dumped, host, result, products, hashing>>

\* os.Exit, wherever run() is by then.
WatchdogExits ==
  /\ watchdog = "fired" /\ pc # "ended"
  /\ Exits(exitTimeout)
  /\ UNCHANGED <<opts, deadline, beside, host, result, products, hashing>>

\* stopWatchdog closes a channel, and does not wait for the goroutine.
StopWatchdog ==
  /\ pc = "stop"
  /\ watchdog' = IF watchdog = "armed" THEN "stopped" ELSE watchdog
  /\ dogLeft' = 0
  /\ Goes("join")
  /\ UNCHANGED <<opts, deadline, beat, dumped, host, result, products, hashing>>

\* --debug-stacks-after: the one dump, at any time or never, which the loop does
\* not leave early.
DumpStarts ==
  /\ beat = "ticking" /\ ~dumped /\ pc # "ended"
  /\ beat' = "dumping" /\ dumped' = TRUE
  /\ UNCHANGED <<opts, pc, exit, deadline, watchdog, dogLeft, host, result, products, hashing>>

DumpEnds ==
  /\ beat = "dumping" /\ pc # "ended"
  /\ beat' = "ticking"
  /\ UNCHANGED <<opts, pc, exit, deadline, watchdog, dogLeft, dumped, host, result, products, hashing>>

\* done is closed when run() is at "join".
BeatEnds ==
  /\ beat = "ticking" /\ pc = "join"
  /\ beat' = "stopped"
  /\ UNCHANGED <<opts, pc, exit, deadline, watchdog, dogLeft, dumped, host, result, products, hashing>>

Sooner(t) == IF t = 0 THEN 0 ELSE t - 1

Tick ==
  /\ pc # "ended"
  /\ deadline > 0 \/ dogLeft > 0
  /\ deadline' = Sooner(deadline)
  /\ dogLeft' = Sooner(dogLeft)
  /\ UNCHANGED <<opts, pc, exit, watchdog, beat, dumped, host, result, products, hashing>>

\* A package manager, between the run's two looks at the databases: one when
\* it catalogs and one when it probes.  A change before the first is another
\* initial world, and one long before the second as good as one just before.
DatabaseChanges ==
  /\ changes > 0 /\ pc = "assemble"
  /\ changes' = changes - 1
  /\ \E s \in Sources, d \in Databases :
       /\ d # world[s]
       /\ world' = [world EXCEPT ![s] = d]
       /\ spell' = [spell EXCEPT ![s] = @ \union {d}]
  /\ UNCHANGED <<opts, pc, exit, deadline, beside, result, products, hashing>>

(***************************************************************************)
(* After the scan                                                          *)
(***************************************************************************)

\* stopHeartbeat has waited; an error of the scan ends the run.
Join ==
  /\ pc = "join" /\ beat = "stopped"
  /\ CASE scanErr = "deadline" -> Exits(exitTimeout)
       [] scanErr = "failed"   -> Exits(exitFatal)
       [] scanErr = "none"     -> Goes("assemble")
  /\ UNCHANGED <<opts, deadline, beside, host, result, products, hashing>>

\* Mutant: a database that opens is a database that was read.
StatusOfProbe(s) ==
  CASE world[s] = "absent"     -> "skipped"
    [] world[s] = "unreadable" -> "error"
    [] world[s] = "empty"      -> "skipped"
    [] world[s] = "full"       -> "ok"

\* sourceStatuses: the verdict on a probed database needs what the probe finds
\* now and what the scan got from it.
Status(s) ==
  CASE world[s] = "absent"     -> "skipped"
    [] world[s] = "unreadable" -> "error"
    [] world[s] = "empty"      -> "skipped"
    [] world[s] = "full"       -> IF s \in found THEN "ok" ELSE "error"

\* buildManifest.  Under --catalogers a source that yielded nothing is one
\* the operator left out.
Assemble ==
  /\ pc = "assemble"
  /\ failed' = {s \in Sources : Status(s) = "error" /\ (opts.catalogers => s \in found)}
                 \union (IF sockets = "error" THEN {"services"} ELSE {})
  /\ incomplete' = (incomplete \/ failed' # {})
  /\ Goes("write")
  /\ UNCHANGED <<opts, deadline, beside, host, sockets, found, scanErr, products, hashing>>

\* writeFiles, one format after the other.  What fails may be what follows a
\* file that is there already: its directory's fsync, or a sidecar.
WriteFile ==
  /\ pc = "write"
  /\ written' = written + 1
  /\ Goes(IF written' = NumFormats THEN "html" ELSE "write")
  /\ UNCHANGED <<opts, deadline, beside, host, result, page, upload, hashing>>

WriteFails ==
  /\ pc = "write"
  /\ written' \in {written, written + 1}
  /\ Exits(exitFatal)
  /\ UNCHANGED <<opts, deadline, beside, host, result, page, upload, hashing>>

WritePage ==
  /\ pc = "html"
  /\ \/ page' = opts.html /\ Goes("transmit")
     \/ opts.html /\ page' \in BOOLEAN /\ Exits(exitFatal)
  /\ UNCHANGED <<opts, deadline, beside, host, result, written, upload, hashing>>

\* A partial inventory is withheld unless --transmit-require-complete=false.
MaySend == opts.transmit /\ ~(opts.requireComplete /\ failed # {})

\* transmitReport, which has a deadline of its own.
Transmit ==
  /\ pc = "transmit"
  /\ IF MaySend THEN upload' \in {"delivered", "kept"} ELSE UNCHANGED upload
  /\ Goes("verdict")
  /\ UNCHANGED <<opts, deadline, beside, host, result, written, page, hashing>>

\* Mutant: the upload outranks a source that failed.
CodeUploadFirst ==
  IF upload # "none"
    THEN IF upload = "kept" THEN exitTransmit ELSE exitOK
    ELSE IF failed # {} THEN exitSourceFailed
         ELSE IF incomplete THEN exitIncomplete ELSE exitOK

\* The exit code of a run that got to the end: a source that failed outranks
\* the upload, and the upload an incomplete inventory.
Code ==
  CASE failed # {}                      -> exitSourceFailed
    [] failed = {} /\ upload = "kept"   -> exitTransmit
    [] failed = {} /\ upload # "kept"   -> IF incomplete THEN exitIncomplete ELSE exitOK

Verdict ==
  /\ pc = "verdict"
  /\ Exits(Code)
  /\ UNCHANGED <<opts, deadline, beside, host, result, products, hashing>>

Stages    == Preflight \/ GetSource \/ Catalog \/ CatalogFails \/ HashStep \/ HashEnds
After     == Check \/ StopWatchdog \/ Join \/ Assemble \/ WriteFile \/ WriteFails \/ WritePage
               \/ Transmit \/ Verdict
Goroutine == WatchdogFires \/ WatchdogExits \/ DumpEnds \/ BeatEnds

Next ==
  \/ SetupFails \/ StartScan
  \/ Stages
  \/ After
  \/ Goroutine
  \/ DumpStarts
  \/ Tick
  \/ DatabaseChanges

Spec == Init /\ [][Next]_vars

\* Nothing makes a stage of the scan return: that is what the watchdog is for.
\* The other steps of run(), the goroutines and the clock do go on.
FairSpec ==
  /\ Spec
  /\ WF_vars(SetupFails \/ StartScan)
  /\ WF_vars(After)
  /\ WF_vars(WatchdogFires) /\ WF_vars(WatchdogExits)
  /\ WF_vars(DumpEnds) /\ WF_vars(BeatEnds)
  /\ WF_vars(Tick)

(***************************************************************************)
(* Properties                                                              *)
(***************************************************************************)

Ended(code) == pc = "ended" /\ exit = code

\* A database that was there since the run cataloged, never empty, and gave
\* nothing.
Lost(s) == spell[s] \subseteq {"unreadable", "full"} /\ s \notin found

\* Exit 0 is what a timer checks ("complete inventory written", main.go): every
\* format and the page are there, no cataloger failed, the sockets were read or
\* were not asked for, nothing that was there all along was lost, and the
\* upload, if any, is reconciled.
ExitOKMeansComplete ==
  Ended(exitOK) =>
    /\ written = NumFormats /\ page = opts.html
    /\ ~incomplete /\ sockets # "error"
    /\ opts.catalogers \/ \A s \in Sources : ~Lost(s)
    /\ opts.transmit = (upload = "delivered")

\* A run that writes its reports and lost a source says so with exit 5,
\* whatever the upload did and however the database came to yield nothing
\* (FLAGS.md: "It outranks 1 and 6").
LostSourceIsLoud ==
  (~opts.catalogers /\ \E s \in Sources : Lost(s)) =>
    ~\E code \in {exitOK, exitIncomplete, exitTransmit} : Ended(code)

\* No report of a scan that the deadline cut short: with --hash every file of
\* a report was hashed or could not be.  The pool gives up what it holds when
\* the context is done, and its warning is not what stops the report.
ReportIsWhole ==
  (written > 0 /\ opts.hash /\ ~incomplete /\ failed = {}) =>
    Files = digests \union unreadable

\* The copy on disk comes before the upload and is never conditional on it,
\* and an inventory that lost a source goes out only when the operator said so.
LocalCopyFirst ==
  upload # "none" =>
    /\ written = NumFormats /\ page = opts.html
    /\ opts.requireComplete => failed = {} /\ sockets # "error"

\* A run ends, also when a stage of the scan never returns: the deadline is a
\* promise of the run, not of the scan.
Terminates == <>(pc = "ended")
=============================================================================
