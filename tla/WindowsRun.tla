----------------------------- MODULE WindowsRun -----------------------------
(***************************************************************************)
(* The inventory of a Windows host (internal/wincollect,                   *)
(* cmd/swinv/platform_windows.go and pescope_windows.go): the registry,    *)
(* the Master File Table of each volume under --full-scan, the version     *)
(* resources of what no product covers, read by a pool of workers, and     *)
(* the import tables; beside a deadline and somebody who changes the disk. *)
(***************************************************************************)
EXTENDS Mft, PeLink

CONSTANTS
  Disks,          \* contents of the volumes the run may start on
  Installed,      \* sets of install locations the registry may list
  Specs,          \* lists of volumes the operator may give
  Ntfs,           \* volumes with a Master File Table
  ExecutableNames, ManifestNames, NoVersionNames,
  PeImports,      \* what the files of a path import
  Workers,        \* of the extraction and of the probe
  BatchSize,      \* records of one answer of the kernel
  MaxChanges      \* bound on changes of the disk

\* A Master File Table: records of these fields, no two of one index.
IsMft(mft) ==
  /\ IsFiniteSet(mft)
  /\ \A r \in mft :
       /\ r = [ref |-> r.ref, parent |-> r.parent, name |-> r.name, dir |-> r.dir]
       /\ r.ref = [index |-> r.ref.index, seq |-> r.ref.seq] /\ r.ref.index \in Nat
       /\ r.parent = [index |-> r.parent.index, seq |-> r.parent.seq]
       /\ \A s \in mft : s.ref.index = r.ref.index => s = r
ASSUME DiskConstants ==
  /\ \A d \in Disks : Ntfs \subseteq DOMAIN d /\ \A v \in DOMAIN d : IsMft(d[v])
  /\ \A s \in Specs : s \in Seq(Range(s))
  /\ BatchSize \in Nat \ {0}

VARIABLES
  disk,           \* volume -> set of records
  changes,
  touched,        \* history: volume and reference of what was deleted or moved
  expired,        \* the deadline of the run has passed
  peExpired,      \* that of the probe
  fullScan, elevated, spec,   \* options, and the token of the process
  pc,
  volumes,        \* volumes still to read; the head is under way
  cursor, dirs, candidates,   \* the enumeration under way
  res,            \* the result so far
  toOpen,         \* executables no product accounts for, still to hand out
  manifests,
  queue,          \* "open" or "closed", the channel of the pool under way
  worker,         \* worker -> the path in its hands, or Idle
  cache,          \* files whose imports were parsed
  links,          \* executable -> its links
  exit
diskVars == <<disk, changes, touched>>
enumVars == <<volumes, cursor, dirs, candidates>>
poolVars == <<toOpen, queue, worker>>
peVars   == <<peExpired, cache, links>>
options  == <<fullScan, elevated, spec>>
vars == <<diskVars, expired, options, pc, enumVars, res, manifests, poolVars, peVars, exit>>

Idle == <<>>
NoResult == [products |-> {}, manifests |-> {}, pe |-> {}, opened |-> {}, executables |-> {},
             asked |-> {}, incomplete |-> FALSE, warnings |-> {}]

----------------------------------------------------------------------------
(* The disk *)

\* One directory up, on the disk as it is, with the references that were passed.
TrueUp(mft, s) ==
  LET parents == {d \in mft : d.dir /\ d.ref.index = s.at.index}
      d == CHOOSE q \in parents : TRUE
  IN  IF s.at.index = RootFileIndex.index \/ parents = {} THEN s
      ELSE [at |-> d.parent, path |-> <<d.name>> \o s.path, passed |-> s.passed \cup {d.ref}]

\* The way from the root to a directory.
Way(mft, from) ==
  LET above[depth \in 0..MaxPathDepth] ==
        IF depth = 0 THEN {[at |-> from, path |-> <<>>, passed |-> {}]}
        ELSE {TrueUp(mft, s) : s \in above[depth - 1]}
  IN  CHOOSE s \in above[MaxPathDepth] : TRUE
TruePath(volume, r) == <<volume>> \o Way(disk[volume], r.parent).path \o <<r.name>>
FilesOf(volume) == {TruePath(volume, r) : r \in {s \in disk[volume] : ~s.dir}}
Files == UNION {FilesOf(v) : v \in DOMAIN disk}

Init ==
  /\ disk \in Disks /\ changes = 0 /\ touched = {} /\ expired = FALSE
  /\ fullScan \in BOOLEAN /\ elevated \in BOOLEAN /\ spec \in Specs
  /\ pc = "registry" /\ volumes = <<>> /\ cursor = 0 /\ dirs = <<>> /\ candidates = {}
  /\ res = NoResult /\ toOpen = {} /\ manifests = {}
  /\ queue = "open" /\ worker = [w \in Workers |-> Idle]
  /\ peExpired = FALSE /\ cache = {} /\ links = <<>> /\ exit = -1

Expire ==
  /\ ~expired /\ pc \in {"volume", "records", "extract"}
  /\ expired' = TRUE
  /\ UNCHANGED <<diskVars, options, pc, enumVars, res, manifests, poolVars, peVars, exit>>
PeExpire ==
  /\ ~peExpired /\ pc \in {"parse", "assemble"}
  /\ peExpired' = TRUE
  /\ UNCHANGED <<diskVars, expired, options, pc, enumVars, res, manifests, poolVars, cache, links, exit>>

\* A file or an empty directory is deleted, or a record goes to another directory.
ChangeDisk ==
  /\ changes < MaxChanges /\ pc = "records"
  /\ LET v == Head(volumes)
     IN  \E r \in disk[v] :
           \/ /\ ~\E s \in disk[v] : s.parent.index = r.ref.index
              /\ disk' = [disk EXCEPT ![v] = @ \ {r}]
              /\ touched' = touched \cup {<<v, r.ref>>}
           \/ \E d \in {s \in disk[v] : s.dir /\ s.ref # r.ref /\ s.parent.index # r.ref.index} :
                /\ d.ref.index # r.parent.index
                /\ disk' = [disk EXCEPT ![v] = (@ \ {r}) \cup {[r EXCEPT !.parent = d.ref]}]
                /\ touched' = touched \cup {<<v, r.ref>>}
  /\ changes' = changes + 1
  /\ UNCHANGED <<expired, options, pc, enumVars, res, manifests, poolVars, peVars, exit>>

----------------------------------------------------------------------------
(* wincollect.Collect *)

Failed(code) ==
  /\ pc' = "done" /\ exit' = code
  /\ UNCHANGED <<diskVars, expired, options, enumVars, res, manifests, poolVars, peVars>>

\* The uninstall keys; without them there is no inventory.  Store packages and updates
\* that cannot be read cost a warning each.
ReadRegistry ==
  /\ pc = "registry"
  /\ \/ Failed(3)
     \/ \E products \in Installed, lost \in SUBSET {"appx", "updates"} :
          /\ res' = [res EXCEPT !.products = products, !.warnings = lost]
          /\ volumes' = IF fullScan THEN ParseVolumes(spec) ELSE <<>>
          /\ pc' = IF fullScan THEN "volume" ELSE "report"
          /\ UNCHANGED <<diskVars, expired, options, cursor, dirs, candidates, manifests, poolVars,
                         peVars, exit>>

\* A volume that has no table, or may not be opened, leaves the inventory incomplete.
OpenVolume ==
  /\ pc = "volume" /\ volumes # <<>>
  /\ IF expired THEN Failed(4)
     ELSE IF Head(volumes) \in Ntfs /\ elevated
     THEN /\ pc' = "records" /\ cursor' = 0 /\ dirs' = <<>> /\ candidates' = {}
          /\ UNCHANGED <<diskVars, expired, options, volumes, res, manifests, poolVars, peVars, exit>>
     ELSE /\ res' = [res EXCEPT !.incomplete = TRUE, !.warnings = @ \cup {Head(volumes)}]
          /\ volumes' = Tail(volumes)
          /\ UNCHANGED <<diskVars, expired, options, pc, cursor, dirs, candidates, manifests, poolVars,
                         peVars, exit>>

Keep(r) == ~r.dir /\ r.name \in ExecutableNames \cup ManifestNames

\* One answer of the kernel: directories are kept for the paths, files if they are wanted.
ReadRecords ==
  /\ pc = "records"
  /\ LET batch == RecordsFrom(disk[Head(volumes)], cursor, BatchSize)
     IN  IF expired THEN Failed(4)
         ELSE /\ batch # {}
              /\ cursor' = NextCursor(batch) /\ dirs' = WithDirs(dirs, batch)
              /\ candidates' = candidates \cup {r \in batch : Keep(r)}
              /\ UNCHANGED <<diskVars, expired, options, pc, volumes, res, manifests, poolVars, peVars, exit>>

\* Mutant: a location covers whatever begins with its letters.
CoversByLetters(known, path) ==
  \E l \in known : IsPrefix(l, path)
                   \/ (Len(l) < Len(path) /\ l[Len(l)] = "qt" /\ path[Len(l)] = "qtcreator")

\* Inside an install location.
Covers(known, path) == \E l \in known : IsStrictPrefix(l, path)

\* The operating system's files and the Store's, which have sources of their own.
OSOrStoreTerritory(path) == Len(path) > 2 /\ path[2] \in {"windows", "windowsapps"}

\* What the table of a volume gave is sorted out: an entry without a path is dropped.
EndVolume ==
  /\ pc = "records" /\ ~expired /\ RecordsFrom(disk[Head(volumes)], cursor, BatchSize) = {}
  /\ LET found == {e \in BuildResult(Head(volumes), dirs, candidates) :
                     e.path # <<>> /\ ~OSOrStoreTerritory(e.path)}
         exes  == {e.path : e \in {f \in found : f.name \in ExecutableNames}}
     IN  /\ res' = [res EXCEPT !.executables = @ \cup exes]
         /\ manifests' = manifests \cup {e.path : e \in {f \in found : f.name \in ManifestNames}}
         /\ toOpen' = toOpen \cup {p \in exes : ~Covers(res.products, p)}
  /\ volumes' = Tail(volumes) /\ pc' = "volume"
  /\ UNCHANGED <<diskVars, expired, options, cursor, dirs, candidates, queue, worker, peVars, exit>>

\* A manifest that is gone by now, or describes no package, is skipped.
CollectLanguagePackages ==
  /\ pc = "volume" /\ volumes = <<>>
  /\ res' = [res EXCEPT !.manifests = manifests \cap Files, !.asked = toOpen]
  /\ pc' = IF toOpen = {} THEN "report" ELSE "extract"
  /\ UNCHANGED <<diskVars, expired, options, enumVars, manifests, poolVars, peVars, exit>>

----------------------------------------------------------------------------
(* extractAll: a feeder and its workers *)

Feed(w) ==
  /\ pc = "extract" /\ queue = "open" /\ toOpen # {} /\ worker[w] = Idle
  /\ LET p == CHOOSE x \in toOpen : TRUE
     IN  worker' = [worker EXCEPT ![w] = p] /\ toOpen' = toOpen \ {p}
  /\ UNCHANGED <<diskVars, expired, options, pc, enumVars, res, manifests, queue, peVars, exit>>

\* Opening a file, reading its version resource if there is one; an error is dropped.
Extract(w) ==
  /\ pc = "extract" /\ worker[w] # Idle
  /\ LET p == worker[w]
     IN  res' = [res EXCEPT !.opened = @ \cup {p},
                   !.pe = @ \cup (IF p \in Files /\ p[Len(p)] \notin NoVersionNames THEN {p} ELSE {})]
  /\ worker' = [worker EXCEPT ![w] = Idle]
  /\ UNCHANGED <<diskVars, expired, options, pc, enumVars, manifests, toOpen, queue, peVars, exit>>

\* Mutant: the feeder leaves at the deadline without closing the channel.
FeedStopsOpen ==
  /\ pc = "extract" /\ queue = "open" /\ (toOpen = {} \/ expired)
  /\ queue' = (IF expired THEN "abandoned" ELSE "closed")
  /\ UNCHANGED <<diskVars, expired, options, pc, enumVars, res, manifests, toOpen, worker, peVars, exit>>

\* The channel is closed when everything is handed out, and when the deadline has passed.
FeedStops ==
  /\ pc = "extract" /\ queue = "open" /\ (toOpen = {} \/ expired)
  /\ queue' = "closed"
  /\ UNCHANGED <<diskVars, expired, options, pc, enumVars, res, manifests, toOpen, worker, peVars, exit>>

ExtractEnds ==
  /\ pc = "extract" /\ queue = "closed" /\ \A w \in Workers : worker[w] = Idle
  /\ pc' = "report" /\ queue' = "open"
  /\ UNCHANGED <<diskVars, expired, options, enumVars, res, manifests, toOpen, worker, peVars, exit>>

----------------------------------------------------------------------------
(* attachPELinks, with a deadline of its own *)

StartProbe ==
  /\ pc = "report"
  /\ IF res.executables = {} THEN pc' = "write" /\ UNCHANGED toOpen
     ELSE pc' = "parse" /\ toOpen' = res.executables
  /\ UNCHANGED <<diskVars, expired, options, enumVars, res, manifests, queue, worker, peVars, exit>>

HandOut(w) ==
  /\ pc = "parse" /\ queue = "open" /\ ~peExpired /\ toOpen # {} /\ worker[w] = Idle
  /\ LET p == CHOOSE x \in toOpen : TRUE
     IN  worker' = [worker EXCEPT ![w] = p] /\ toOpen' = toOpen \ {p}
  /\ UNCHANGED <<diskVars, expired, options, pc, enumVars, res, manifests, queue, peVars, exit>>

\* A parse begun after the deadline is none, and is not remembered as one.
Parse(w) ==
  /\ pc = "parse" /\ worker[w] # Idle
  /\ cache' = IF peExpired THEN cache ELSE cache \cup {worker[w]}
  /\ worker' = [worker EXCEPT ![w] = Idle]
  /\ UNCHANGED <<diskVars, expired, options, pc, enumVars, res, manifests, toOpen, queue, peExpired, links, exit>>

ParseEnds ==
  /\ pc = "parse" /\ (toOpen = {} \/ peExpired) /\ \A w \in Workers : worker[w] = Idle
  /\ pc' = "assemble" /\ toOpen' = res.executables
  /\ UNCHANGED <<diskVars, expired, options, enumVars, res, manifests, queue, worker, peVars, exit>>

\* One binary after the other, to the end whatever the deadline: it only stops new parses.
Assemble ==
  /\ pc = "assemble" /\ toOpen # {}
  /\ LET exe == CHOOSE x \in toOpen : TRUE
         got == PeProbe(PeImports, Files, cache, peExpired, exe)
     IN  /\ toOpen' = toOpen \ {exe} /\ cache' = cache \cup got.parsed
         /\ links' = [e \in DOMAIN links \cup {exe} |-> IF e = exe THEN got.out ELSE links[e]]
  /\ UNCHANGED <<diskVars, expired, options, pc, enumVars, res, manifests, queue, worker, peExpired, exit>>

\* Mutant: partial is what was not parsed of the list.
AbortedByList == \E p \in res.executables : p \notin cache

\* The deadline passed before the last binary was done.
Aborted == peExpired

Deliver ==
  /\ pc = "assemble" /\ toOpen = {}
  /\ res' = [res EXCEPT !.warnings = @ \cup (IF Aborted THEN {"partial"} ELSE {})]
  /\ pc' = "write"
  /\ UNCHANGED <<diskVars, expired, options, enumVars, manifests, poolVars, peVars, exit>>

Write ==
  /\ pc = "write"
  /\ exit' = (IF res.incomplete THEN 1 ELSE 0) /\ pc' = "done"
  /\ UNCHANGED <<diskVars, expired, options, enumVars, res, manifests, poolVars, peVars>>

Stopped == pc = "done" /\ UNCHANGED vars

Collect ==
  ReadRegistry \/ OpenVolume \/ ReadRecords \/ EndVolume \/ CollectLanguagePackages
Extraction == FeedStops \/ ExtractEnds \/ \E w \in Workers : Feed(w) \/ Extract(w)
Probing ==
  StartProbe \/ ParseEnds \/ Assemble \/ Deliver \/ \E w \in Workers : HandOut(w) \/ Parse(w)

Next == Collect \/ Extraction \/ Probing \/ Write \/ Expire \/ PeExpire \/ ChangeDisk \/ Stopped

\* The goroutines run; a deadline passes or not, the disk changes or not.
Spec == Init /\ [][Next]_vars /\ WF_vars(Collect) /\ WF_vars(Extraction) /\ WF_vars(Probing)
        /\ WF_vars(Write)

----------------------------------------------------------------------------
(* Properties *)

\* A file nobody touched: neither it nor a directory above it was deleted or moved.  One
\* that lies deeper than maxPathDepth has no path to be found under.
Untouched(v, r) ==
  LET way == Way(disk[v], r.parent)
  IN  ~r.dir /\ way.at.index = RootFileIndex.index
      /\ \A ref \in way.passed \cup {r.ref} : <<v, ref>> \notin touched

\* A full scan with time enough sees every executable and every manifest nobody touched
\* on the volumes it says it read, whatever moved or went beside them: in a product, or
\* opened; none hidden by a product beside it, none for want of a path
\* (wincollect/locations.go, usn/path.go).
FullScanSeesAll ==
  exit = 0 /\ fullScan /\ ~expired =>
    \A v \in Range(ParseVolumes(spec)) : \A r \in disk[v] :
      LET p == TruePath(v, r)
      IN  Untouched(v, r) /\ ~OSOrStoreTerritory(p) =>
            /\ r.name \in ManifestNames => p \in res.manifests
            /\ r.name \in ExecutableNames =>
                 p \in res.executables /\ (p \in res.opened \/ \E l \in res.products : IsStrictPrefix(l, p))

\* The links of a report are all there are on a disk that holds still, or it warns that
\* they are partial, also when only the parse of somebody else's library came too late
\* (pelink.go:337-340).
PartialIsSaid ==
  pc = "done" /\ links # <<>> /\ "partial" \notin res.warnings =>
    \A exe \in DOMAIN links : links[exe] = PeProbe(PeImports, Files, {}, FALSE, exe).out

\* The run ends: no pool waits for a channel nobody closes.
CollectEnds == <>(pc = "done")

\* Exit 0 is said of a complete inventory only: nothing that was to be opened is left
\* (docs/FLAGS.md:809).  Not what the code does: extractAll returns at the deadline
\* without an error and without a mark.
SuccessIsComplete == exit = 0 => res.asked \subseteq res.opened
=============================================================================
