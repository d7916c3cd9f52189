----------------------------- MODULE AtomicFile -----------------------------
(***************************************************************************)
(* AtomicWriteFile and UpdateSymlink of internal/output, as writeFiles in  *)
(* cmd/swinv calls them: a run stages its report beside the target, renames *)
(* it into place, syncs the directory, and then moves the "-latest" link.  *)
(*                                                                         *)
(* Several runs share the directory.  A run may be killed between any two  *)
(* steps, any file operation may fail, and the power may go: then every    *)
(* rename that no fsync of the directory followed may turn out to have     *)
(* happened or not, and a file that was not fsynced has lost data.         *)
(***************************************************************************)
EXTENDS Naturals

CONSTANTS
  Runs,       \* runs of the program that write a report
  Paths,      \* report file names
  Targets,    \* the choices of a path for each run, as name templates give them
  DirSync,    \* whether the file system implements fsync of a directory
  Budget,     \* Budget[k]: how many faults of kind k may happen
  NoFile      \* no file, or no link

FaultKinds == {"disk", "kill", "power"}

\* A file: the run whose report it is, whether all of it is in the file,
\* whether that has reached the disk, and whether the mode is --perm.
File == [by : Runs, whole : BOOLEAN, synced : BOOLEAN, moded : BOOLEAN]

ASSUME FileConstants ==
  /\ Targets \subseteq [Runs -> Paths]
  /\ DirSync \in BOOLEAN
  /\ Budget \in [FaultKinds -> Nat]
  /\ NoFile \notin Paths /\ NoFile \notin File

VARIABLES
  target,    \* target[r]: the report of run r, in this behaviour
  file,      \* file[t]: what path t names
  link,      \* the path the "-latest" link points at
  staged,    \* staged[r]: the temporary file of run r
  tlink,     \* tlink[r]: the temporary link of run r exists
  onDisk,    \* onDisk[t]: what t may name after a power loss
  linkDisk,  \* what the link may be after a power loss
  at,        \* at[r]: the operation run r is at
  returned,    \* returned[r]: what AtomicWriteFile of run r returned
  newer,     \* newer[r]: runs that replaced the target after r did (history)
  left       \* faults still to happen

memory == <<file, link, staged, tlink>>
disk   == <<onDisk, linkDisk>>
fileVars   == <<target, memory, disk, at, returned, newer, left>>

PCs == {"clear", "create", "write", "flush", "sync", "chmod", "close", "rename",
        "syncdir", "unstage", "unlink", "symlink", "relink", "droplink",
        "synclink", "end"}

FileTypeOK ==
  /\ target \in Targets
  /\ file \in [Paths -> File \union {NoFile}]
  /\ link \in Paths \union {NoFile}
  /\ staged \in [Runs -> File \union {NoFile}]
  /\ tlink \in [Runs -> BOOLEAN]
  /\ onDisk \in [Paths -> SUBSET (File \union {NoFile})]
  /\ linkDisk \subseteq Paths \union {NoFile}
  /\ at \in [Runs -> PCs]
  /\ returned \in [Runs -> {"none", "ok", "failed"}]
  /\ newer \in [Runs -> SUBSET Runs]
  /\ left \in [FaultKinds -> Nat]

FileInit ==
  /\ target \in Targets
  /\ file = [t \in Paths |-> NoFile]
  /\ link = NoFile
  /\ staged = [r \in Runs |-> NoFile]
  /\ tlink = [r \in Runs |-> FALSE]
  /\ onDisk = [t \in Paths |-> {NoFile}]
  /\ linkDisk = {NoFile}
  /\ at = [r \in Runs |-> "clear"]
  /\ returned = [r \in Runs |-> "none"]
  /\ newer = [r \in Runs |-> {}]
  /\ left = Budget

-----------------------------------------------------------------------------
Spend(k) == left[k] > 0 /\ left' = [left EXCEPT ![k] = @ - 1]

Step(r, from, to) == at[r] = from /\ at' = [at EXCEPT ![r] = to]

Stage(r, f) == staged' = [staged EXCEPT ![r] = f]

\* An operation before the rename fails, or fn panics: the deferred function
\* removes the temporary file, if there is one by then.
FailsTo(r, next) ==
  /\ Spend("disk")
  /\ at' = [at EXCEPT ![r] = next]
  /\ returned' = [returned EXCEPT ![r] = "failed"]

\* clearStaleTemp removes a name that no live run of this version stages at.
ClearStale(r) ==
  /\ \/ Step(r, "clear", "create") /\ UNCHANGED <<returned, left>>
     \/ at[r] = "clear" /\ FailsTo(r, "end")
  /\ UNCHANGED <<memory, disk, newer>>

\* CreateTemp: a name of its own, mode 0600.
Create(r) ==
  /\ \/ /\ Step(r, "create", "write")
        /\ Stage(r, [by |-> r, whole |-> FALSE, synced |-> FALSE, moded |-> FALSE])
        /\ UNCHANGED <<returned, left>>
     \/ at[r] = "create" /\ FailsTo(r, "end") /\ UNCHANGED staged
  /\ UNCHANGED <<file, link, tlink, disk, newer>>

\* fn writes through a buffer: the last part is not in the file yet.
Write(r) ==
  /\ \/ Step(r, "write", "flush") /\ UNCHANGED <<returned, left>>
     \/ at[r] = "write" /\ FailsTo(r, "unstage")
  /\ UNCHANGED <<memory, disk, newer>>

FlushFile(r) ==
  /\ \/ /\ Step(r, "flush", "sync")
        /\ Stage(r, [staged[r] EXCEPT !.whole = TRUE])
        /\ UNCHANGED <<returned, left>>
     \/ at[r] = "flush" /\ FailsTo(r, "unstage") /\ UNCHANGED staged
  /\ UNCHANGED <<file, link, tlink, disk, newer>>

\* Mutant: no fsync of the file.
SyncNothing(r) ==
  /\ Step(r, "sync", "chmod")
  /\ UNCHANGED <<memory, disk, returned, newer, left>>

SyncFile(r) ==
  /\ \/ /\ Step(r, "sync", "chmod")
        /\ Stage(r, [staged[r] EXCEPT !.synced = TRUE])
        /\ UNCHANGED <<returned, left>>
     \/ at[r] = "sync" /\ FailsTo(r, "unstage") /\ UNCHANGED staged
  /\ UNCHANGED <<file, link, tlink, disk, newer>>

Chmod(r) ==
  /\ \/ /\ Step(r, "chmod", "close")
        /\ Stage(r, [staged[r] EXCEPT !.moded = TRUE])
        /\ UNCHANGED <<returned, left>>
     \/ at[r] = "chmod" /\ FailsTo(r, "unstage") /\ UNCHANGED staged
  /\ UNCHANGED <<file, link, tlink, disk, newer>>

CloseFile(r) ==
  /\ \/ Step(r, "close", "rename") /\ UNCHANGED <<returned, left>>
     \/ at[r] = "close" /\ FailsTo(r, "unstage")
  /\ UNCHANGED <<memory, disk, newer>>

\* The temporary name goes, the target names the new file; on disk the target
\* may name it from now on, or what it could name before.
Rename(r) ==
  /\ \/ LET t == target[r] IN
          /\ Step(r, "rename", "syncdir")
          /\ file' = [file EXCEPT ![t] = staged[r]]
          /\ onDisk' = [onDisk EXCEPT ![t] = @ \union {staged[r]}]
          /\ newer' = [q \in Runs |-> IF q # r /\ target[q] = t
                                      THEN newer[q] \union {r} ELSE newer[q]]
          /\ Stage(r, NoFile)
          /\ UNCHANGED <<returned, left>>
     \/ /\ at[r] = "rename" /\ FailsTo(r, "unstage")
        /\ UNCHANGED <<file, onDisk, newer, staged>>
  /\ UNCHANGED <<link, tlink, linkDisk>>

\* The deferred os.Remove(tmp), whose own error is dropped.
Unstage(r) ==
  /\ Step(r, "unstage", "end")
  /\ \/ Stage(r, NoFile) /\ UNCHANGED left
     \/ Spend("disk") /\ UNCHANGED staged
  /\ UNCHANGED <<file, link, tlink, disk, returned, newer>>

\* Mutant: no fsync of the directory.
DirUnsynced == UNCHANGED disk

\* fsync of the directory makes what it holds now the only outcome of a power
\* loss; where it is not implemented, syncDir says it was done.
DirSynced ==
  IF DirSync
  THEN /\ onDisk' = [t \in Paths |-> {file[t]}]
       /\ linkDisk' = {link}
  ELSE UNCHANGED disk

SyncDir(r) ==
  /\ \/ /\ Step(r, "syncdir", "unlink")
        /\ DirSynced
        /\ returned' = [returned EXCEPT ![r] = "ok"]
        /\ UNCHANGED left
     \/ at[r] = "syncdir" /\ FailsTo(r, "end") /\ UNCHANGED disk
  /\ UNCHANGED <<memory, newer>>

-----------------------------------------------------------------------------
(* UpdateSymlink, after the report is written.  Its failure is a warning.  *)

LinkFailsTo(r, next) == Spend("disk") /\ at' = [at EXCEPT ![r] = next]

RemoveStaleLink(r) ==
  /\ \/ /\ Step(r, "unlink", "symlink")
        /\ tlink' = [tlink EXCEPT ![r] = FALSE]
        /\ UNCHANGED left
     \/ at[r] = "unlink" /\ LinkFailsTo(r, "end") /\ UNCHANGED tlink
  /\ UNCHANGED <<file, link, staged, disk, returned, newer>>

CreateLink(r) ==
  /\ \/ /\ Step(r, "symlink", "relink")
        /\ tlink' = [tlink EXCEPT ![r] = TRUE]
        /\ UNCHANGED left
     \/ at[r] = "symlink" /\ LinkFailsTo(r, "end") /\ UNCHANGED tlink
  /\ UNCHANGED <<file, link, staged, disk, returned, newer>>

Relink(r) ==
  /\ \/ /\ Step(r, "relink", "synclink")
        /\ link' = target[r]
        /\ linkDisk' = linkDisk \union {target[r]}
        /\ tlink' = [tlink EXCEPT ![r] = FALSE]
        /\ UNCHANGED left
     \/ at[r] = "relink" /\ LinkFailsTo(r, "droplink") /\ UNCHANGED <<link, linkDisk, tlink>>
  /\ UNCHANGED <<file, staged, onDisk, returned, newer>>

DropLink(r) ==
  /\ Step(r, "droplink", "end")
  /\ \/ tlink' = [tlink EXCEPT ![r] = FALSE] /\ UNCHANGED left
     \/ Spend("disk") /\ UNCHANGED tlink
  /\ UNCHANGED <<file, link, staged, disk, returned, newer>>

SyncLink(r) ==
  /\ \/ Step(r, "synclink", "end") /\ DirSynced /\ UNCHANGED left
     \/ at[r] = "synclink" /\ LinkFailsTo(r, "end") /\ UNCHANGED disk
  /\ UNCHANGED <<memory, returned, newer>>

-----------------------------------------------------------------------------
(* The environment.                                                        *)

\* SIGKILL, or os.Exit of the watchdog: deferred functions do not run.
Kill(r) ==
  /\ at[r] # "end"
  /\ Spend("kill")
  /\ at' = [at EXCEPT ![r] = "end"]
  /\ UNCHANGED <<memory, disk, returned, newer>>

\* What is left of a file after a power loss.
Survives(f) == IF f = NoFile THEN NoFile ELSE [f EXCEPT !.whole = @ /\ f.synced]

PowerLoss ==
  /\ Spend("power")
  /\ \E after \in [Paths -> UNION {onDisk[t] : t \in Paths}] :
       /\ \A t \in Paths : after[t] \in onDisk[t]
       /\ file' = [t \in Paths |-> Survives(after[t])]
  /\ \E l \in linkDisk : link' = l
  /\ onDisk' = [t \in Paths |-> {file'[t]}]
  /\ linkDisk' = {link'}
  /\ staged' = [r \in Runs |-> Survives(staged[r])]
  /\ at' = [r \in Runs |-> IF at[r] = "clear" THEN "clear" ELSE "end"]
  /\ UNCHANGED <<tlink, returned, newer>>

-----------------------------------------------------------------------------
Acts(r) ==
  \/ ClearStale(r) \/ Create(r) \/ Write(r) \/ FlushFile(r) \/ SyncFile(r)
  \/ Chmod(r) \/ CloseFile(r) \/ Rename(r) \/ Unstage(r) \/ SyncDir(r)
  \/ RemoveStaleLink(r) \/ CreateLink(r) \/ Relink(r) \/ DropLink(r) \/ SyncLink(r)

AllEnded == (\A r \in Runs : at[r] = "end") /\ UNCHANGED fileVars

FileNext ==
  \/ (\E r \in Runs : Acts(r) \/ Kill(r)) /\ UNCHANGED target
  \/ PowerLoss /\ UNCHANGED target
  \/ AllEnded

FileSpec == FileInit /\ [][FileNext]_fileVars

-----------------------------------------------------------------------------
(* Properties.                                                             *)

\* "A reader never observes a partial file": whatever was killed, failed or
\* lost with the power, every report in the directory is complete and has the
\* mode that was asked for.
ReadersSeeWhole ==
  \A t \in Paths : file[t] # NoFile => file[t].whole /\ file[t].moded

\* A write that returned success survives a power loss: its target names that
\* report or the report of a run that renamed later.
SuccessSurvives ==
  \A r \in Runs : returned[r] = "ok" =>
    LET f == file[target[r]] IN f # NoFile /\ f.by \in {r} \union newer[r]

\* The latest link never dangles, not even after a power loss: the report is
\* durable before the link that names it can be.
LinkNeverDangles == link # NoFile => file[link] # NoFile

=============================================================================
