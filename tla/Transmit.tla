------------------------------ MODULE Transmit ------------------------------
(***************************************************************************)
(* The upload path of swinv: the spool directory under --out, the runs     *)
(* that fill and drain it (transmitReport and runTransmitSend in           *)
(* cmd/swinv, Send in internal/transmit), and the ingest server as far as  *)
(* the client relies on it.                                                *)
(*                                                                         *)
(* Several processes may work over one spool directory: a timer may fire   *)
(* while a manual run is in flight.  A step of a process is one operation  *)
(* on one file or one request, so every interleaving at that grain, a kill *)
(* between any two steps, and the error return of every operation are      *)
(* behaviours of the model.                                                *)
(*                                                                         *)
(* A request stands for a whole call of Client.do, retries included: it    *)
(* succeeds, or it fails with the server having seen it or not; module     *)
(* Retry looks inside.  A file write stands for output.AtomicWriteFile,    *)
(* which module AtomicFile looks inside.                                   *)
(***************************************************************************)
EXTENDS Naturals, FiniteSets

CONSTANTS
  Procs,         \* the runs that may be under way at the same time
  Scans,         \* scan identifiers, newScanID's values
  ForeignScans,  \* scans found in the spool, collected for another endpoint
  NumBatches,    \* NumBatches[s]: how many batches EachBatch cuts scan s into
  DirRank,       \* DirRank[n]: place of name n in os.ReadDir's sorted answer
  Mints,         \* whether the server mints identifiers of its own
  FaultBudget,   \* FaultBudget[k]: how many faults of kind k may happen
  NoScan,        \* no scan
  NoSpool        \* no spool

Kinds == {"crash", "net", "disk", "restart", "garble", "respool"}

ASSUME ConstantsAssumption ==
  /\ ForeignScans \subseteq Scans
  /\ NumBatches \in [Scans -> Nat]
  /\ Mints \in BOOLEAN
  /\ FaultBudget \in [Kinds -> Nat]
  /\ NoScan \notin Scans

(***************************************************************************)
(* A spool is named after the identifier of its scan: the scan's own, or   *)
(* the one the server minted for it.  Distinct identifiers have distinct   *)
(* sanitized names.                                                        *)
(***************************************************************************)
Names  == Scans \X {"own", "minted"}
Own(s) == <<s, "own">>

ASSUME DirRankAssumption == DirRank \in [Names -> Nat]

(***************************************************************************)
(* A Spool in memory: its name and the two fields of SpoolState that       *)
(* decide anything, acked_batches and created_at.                          *)
(***************************************************************************)
Spool      == [name : Names, acked : Nat, created : Nat]
ScanOf(sp) == sp.name[1]
HasBelow(S, k) == \A i \in 0..k : i < k => i \in S

Batches(s) == {i \in 0..NumBatches[s] : i < NumBatches[s]}

VARIABLES
  payload,     \* payload[n]: the file n.ndjson is in the spool directory
  st,          \* st[n]: n.state.json is absent, readable or unreadable
  acked,       \* acked[n]: acked_batches in that file
  created,     \* created[n]: created_at in that file
  sid,         \* sid[s]: how the server knows scan s
  stored,      \* stored[s]: the batches of s the server holds
  accepted,    \* accepted[s]: the batches of s it ever took (history)
  reconciled,  \* reconciled[s]: it closed s with a verdict of equal counts
  late,        \* batch requests the client gave up on, still under way
  pc,          \* pc[p]: where process p is
  want,        \* want[p]: the scan p has to spool itself
  listing,     \* listing[p]: what is left of p's directory listing
  queue,       \* queue[p]: the spools p has still to send
  fresh,       \* fresh[p]: the spool p made, sent after the queue
  sorted,      \* sorted[p]: Pending reached its sort
  warned,      \* warned[p]: p said that spools belong to a different server
  cur,         \* cur[p]: the spool p is sending
  idx,         \* idx[p]: the batch index p is at
  exit,        \* exit[p]: the exit code of p's run, so far
  promised,    \* promised[p]: the scans p's run set out to send (history)
  taken,       \* scan identifiers in use
  spooled,     \* scans whose NewSpool returned without an error (history)
  clock,       \* time.Now, as far as created_at needs it
  budget       \* faults still to happen

files  == <<st, acked, created>>
disk   == <<payload, files>>
server == <<sid, stored, accepted, reconciled, late>>
plan   == <<want, listing, queue, fresh, sorted, warned, promised>>
hist   == <<taken, spooled, clock>>
vars   == <<disk, server, pc, plan, cur, idx, exit, hist, budget>>

PCs == {"idle", "list", "count", "payload", "state", "unspool", "next", "open", "rename", "adopt",
        "forget", "status", "read", "post", "ack", "close", "tidy1", "tidy2"}

TypeOK ==
  /\ payload \in [Names -> BOOLEAN]
  /\ st \in [Names -> {"none", "ok", "garbled"}]
  /\ acked \in [Names -> Nat]
  /\ created \in [Names -> Nat]
  /\ sid \in [Scans -> {"unknown", "own", "minted"}]
  /\ stored \in [Scans -> SUBSET Nat]
  /\ accepted \in [Scans -> SUBSET Nat]
  /\ reconciled \in [Scans -> BOOLEAN]
  /\ late \subseteq Scans \X Nat
  /\ pc \in [Procs -> PCs]
  /\ want \in [Procs -> Scans \union {NoScan}]
  /\ listing \in [Procs -> SUBSET Names]
  /\ queue \in [Procs -> SUBSET Spool]
  /\ fresh \in [Procs -> SUBSET Spool]
  /\ sorted \in [Procs -> BOOLEAN]
  /\ warned \in [Procs -> BOOLEAN]
  /\ cur \in [Procs -> Spool \union {NoSpool}]
  /\ idx \in [Procs -> Nat]
  /\ exit \in [Procs -> {"ok", "failed", "killed"}]
  /\ promised \in [Procs -> SUBSET Scans]
  /\ taken \subseteq Scans
  /\ spooled \subseteq Scans
  /\ clock \in Nat
  /\ budget \in [Kinds -> Nat]

Init ==
  /\ payload = [n \in Names |-> \E s \in ForeignScans : n = Own(s)]
  /\ st = [n \in Names |-> IF payload[n] THEN "ok" ELSE "none"]
  /\ acked = [n \in Names |-> 0]
  /\ created = [n \in Names |-> 0]
  /\ sid = [s \in Scans |-> "unknown"]
  /\ stored = [s \in Scans |-> {}]
  /\ accepted = [s \in Scans |-> {}]
  /\ reconciled = [s \in Scans |-> FALSE]
  /\ late = {}
  /\ pc = [p \in Procs |-> "idle"]
  /\ want = [p \in Procs |-> NoScan]
  /\ listing = [p \in Procs |-> {}]
  /\ queue = [p \in Procs |-> {}]
  /\ fresh = [p \in Procs |-> {}]
  /\ sorted = [p \in Procs |-> FALSE]
  /\ warned = [p \in Procs |-> FALSE]
  /\ cur = [p \in Procs |-> NoSpool]
  /\ idx = [p \in Procs |-> 0]
  /\ exit = [p \in Procs |-> "ok"]
  /\ promised = [p \in Procs |-> {}]
  /\ taken = ForeignScans
  /\ spooled = {}
  /\ clock = 1
  /\ budget = FaultBudget

-----------------------------------------------------------------------------
(* Faults, and the shared shapes of the steps of a process.                *)

Spend(k) == budget[k] > 0 /\ budget' = [budget EXCEPT ![k] = @ - 1]

Goto(p, l) == pc' = [pc EXCEPT ![p] = l]

\* saveState: AtomicWriteFile replaces the state file as a whole, and makes
\* one where there is none.
SaveState(n, a, c) ==
  /\ st' = [st EXCEPT ![n] = "ok"]
  /\ acked' = [acked EXCEPT ![n] = a]
  /\ created' = [created EXCEPT ![n] = c]

\* A saveState that returns an error: nothing happened, or the rename did
\* and the fsync of the directory after it failed.
SaveStateFails(n, a, c) ==
  /\ Spend("disk")
  /\ SaveState(n, a, c) \/ UNCHANGED files

\* Mutant: the failure is reported, and the exit code forgotten.
GiveUpQuietly(p) ==
  /\ cur' = [cur EXCEPT ![p] = NoSpool]
  /\ idx' = [idx EXCEPT ![p] = 0]
  /\ Goto(p, "next")
  /\ UNCHANGED exit

\* sendOne's error returns: say so, remember exit code 6, keep the spool.
GiveUp(p) ==
  /\ exit' = [exit EXCEPT ![p] = "failed"]
  /\ cur' = [cur EXCEPT ![p] = NoSpool]
  /\ idx' = [idx EXCEPT ![p] = 0]
  /\ Goto(p, "next")

-----------------------------------------------------------------------------
(* A run starts.  transmitReport carries a scan of its own, --transmit-only *)
(* none, --transmit-from the file of an earlier scan, under its identifier. *)

Scope(p, s) ==
  /\ pc[p] = "idle"
  /\ want' = [want EXCEPT ![p] = s]
  /\ listing' = [listing EXCEPT ![p] = {n \in Names : st[n] # "none"}]
  /\ queue' = [queue EXCEPT ![p] = {}]
  /\ fresh' = [fresh EXCEPT ![p] = {}]
  /\ sorted' = [sorted EXCEPT ![p] = FALSE]
  /\ warned' = [warned EXCEPT ![p] = FALSE]
  /\ promised' = [promised EXCEPT ![p] = {}]
  /\ exit' = [exit EXCEPT ![p] = "ok"]
  /\ Goto(p, "list")
  /\ UNCHANGED <<disk, server, cur, idx, spooled, clock>>

TransmitReport(p) ==
  \E s \in Scans \ taken :
    /\ Scope(p, s)
    /\ taken' = taken \union {s}
    /\ UNCHANGED budget

TransmitOnly(p) == Scope(p, NoScan) /\ UNCHANGED <<taken, budget>>

TransmitFrom(p) ==
  \E s \in spooled :
    /\ Scope(p, s)
    /\ Spend("respool")
    /\ UNCHANGED taken

-----------------------------------------------------------------------------
(* Pending: the listing is read once, then one state file after another.   *)

\* Mutant: the endpoint of a spool is not compared.
OursWhateverEndpoint(n) == payload[n]

\* The spools Pending(dir, endpoint) would return for a name whose state
\* file is readable.
Ours(n) == n[1] \notin ForeignScans /\ payload[n]

Loaded(n) == [name |-> n, acked |-> acked[n], created |-> created[n]]

LoadNext(p) ==
  /\ pc[p] = "list"
  /\ \E n \in listing[p] :
       /\ \A m \in listing[p] : DirRank[n] <= DirRank[m]
       /\ \/ /\ st[n] = "ok"
             /\ listing' = [listing EXCEPT ![p] = @ \ {n}]
             /\ IF Ours(n)
                THEN /\ queue' = [queue EXCEPT ![p] = @ \union {Loaded(n)}]
                     /\ promised' = [promised EXCEPT ![p] = @ \union {n[1]}]
                ELSE UNCHANGED <<queue, promised>>
             /\ UNCHANGED pc
          \* loadSpool failed: the file is unreadable, or went away since
          \* the listing.  The spools read so far come back, unsorted.
          \/ /\ st[n] # "ok"
             /\ listing' = [listing EXCEPT ![p] = {}]
             /\ Goto(p, "count")
             /\ UNCHANGED <<queue, promised>>
  /\ UNCHANGED <<disk, server, want, fresh, sorted, warned, cur, idx, exit, hist, budget>>

PendingReturns(p) ==
  /\ pc[p] = "list"
  /\ listing[p] = {}
  /\ sorted' = [sorted EXCEPT ![p] = TRUE]
  /\ Goto(p, "count")
  /\ UNCHANGED <<disk, server, want, listing, queue, fresh, warned, promised, cur,
                 idx, exit, hist, budget>>

\* Pending(dir, ""), called for its length alone: every state file of the
\* directory that reads, whatever its endpoint and with or without a payload.
CountAll(p) ==
  /\ pc[p] = "count"
  /\ warned' = [warned EXCEPT ![p] =
                  /\ \A n \in Names : st[n] # "garbled"
                  /\ Cardinality({n \in Names : st[n] # "none"}) > Cardinality(queue[p])]
  /\ Goto(p, "payload")
  /\ UNCHANGED <<disk, server, want, listing, queue, fresh, sorted, promised, cur,
                 idx, exit, hist, budget>>

-----------------------------------------------------------------------------
(* NewSpool: the payload first, the state file second.                     *)

NoNewSpool(p) ==
  /\ pc[p] = "payload"
  /\ want[p] = NoScan
  /\ Goto(p, "next")
  /\ UNCHANGED <<disk, server, plan, cur, idx, exit, hist, budget>>

\* An error of NewSpool ends the run: the backlog is not sent either.
SpoolingFails(p) ==
  /\ exit' = [exit EXCEPT ![p] = "failed"]
  /\ queue' = [queue EXCEPT ![p] = {}]
  /\ want' = [want EXCEPT ![p] = NoScan]
  /\ Goto(p, "next")

WritePayload(p) ==
  /\ pc[p] = "payload"
  /\ want[p] # NoScan
  /\ LET n == Own(want[p]) IN
       \/ /\ payload' = [payload EXCEPT ![n] = TRUE]
          /\ Goto(p, "state")
          /\ UNCHANGED <<exit, queue, want, budget>>
       \/ /\ Spend("disk")
          /\ payload' = [payload EXCEPT ![n] = TRUE] \/ UNCHANGED payload
          /\ SpoolingFails(p)
  /\ UNCHANGED <<files, server, listing, fresh, sorted, warned, promised, cur, idx,
                 hist>>

WriteState(p) ==
  /\ pc[p] = "state"
  /\ LET n == Own(want[p]) IN
       \/ /\ SaveState(n, 0, clock)
          /\ fresh' = [fresh EXCEPT ![p] =
                         {[name |-> n, acked |-> 0, created |-> clock]}]
          /\ promised' = [promised EXCEPT ![p] = @ \union {want[p]}]
          /\ spooled' = spooled \union {want[p]}
          /\ want' = [want EXCEPT ![p] = NoScan]
          /\ Goto(p, "next")
          /\ UNCHANGED budget
       \/ /\ SaveStateFails(n, 0, clock)
          /\ Goto(p, "unspool")
          /\ UNCHANGED <<want, fresh, promised, spooled>>
  /\ clock' = clock + 1
  /\ UNCHANGED <<payload, server, listing, queue, sorted, warned, cur, idx, exit, taken>>

\* The error of this removal is dropped; a disk in trouble may fail it too.
Unspool(p) ==
  /\ pc[p] = "unspool"
  /\ \/ payload' = [payload EXCEPT ![Own(want[p])] = FALSE] /\ UNCHANGED budget
     \/ Spend("disk") /\ UNCHANGED payload
  /\ SpoolingFails(p)
  /\ UNCHANGED <<files, server, listing, fresh, sorted, warned, promised, cur, idx,
                 hist>>

-----------------------------------------------------------------------------
(* The send loop of transmitReport and runTransmitSend.                    *)

\* created_at orders the queue once Pending sorted it, the directory listing
\* when it did not get there.
Rank(p, sp) == IF sorted[p] THEN sp.created ELSE DirRank[sp.name]

\* What comes next: the queue in order, the fresh spool after it.
IsNext(p, sp) ==
  \/ sp \in queue[p] /\ \A o \in queue[p] : Rank(p, sp) <= Rank(p, o)
  \/ sp \in fresh[p] /\ queue[p] = {}

\* sendOne and Send read the payload before the first request: Records
\* counts it, Manifest takes line 1.
SendNext(p) ==
  /\ pc[p] = "next"
  /\ \E sp \in queue[p] \union fresh[p] :
       /\ IsNext(p, sp)
       /\ queue' = [queue EXCEPT ![p] = @ \ {sp}]
       /\ fresh' = IF sp \in queue[p] THEN fresh ELSE [fresh EXCEPT ![p] = {}]
       /\ IF payload[sp.name]
          THEN /\ cur' = [cur EXCEPT ![p] = sp]
               /\ Goto(p, "open")
               /\ UNCHANGED <<idx, exit>>
          ELSE GiveUp(p)
  /\ UNCHANGED <<disk, server, want, listing, sorted, warned, promised, hist, budget>>

RunEnds(p) ==
  /\ pc[p] = "next"
  /\ queue[p] = {}
  /\ fresh[p] = {}
  /\ Goto(p, "idle")
  /\ UNCHANGED <<disk, server, plan, cur, idx, exit, hist, budget>>

-----------------------------------------------------------------------------
(* Requests.  A request that fails reached the server or did not.          *)

\* The first batch index the server still needs.
ResumePoints(s) ==
  {k \in 0..NumBatches[s] : k \notin stored[s] /\ HasBelow(stored[s], k)}

\* What the server answers to an open: the identifier it has for the scan,
\* or on the first open the scan's own, or one it mints.
ServerIds(s) ==
  IF sid[s] # "unknown" THEN {sid[s]}
  ELSE {"own"} \union IF Mints THEN {"minted"} ELSE {}

RequestFails(p) == Spend("net") /\ GiveUp(p)

\* Where Send goes once the scan is open under the spool's name: the status
\* is asked for when the spool remembers acknowledged batches.
AfterOpen(sp) == IF sp.acked > 0 THEN "status" ELSE "read"

OpenScan(p) ==
  /\ pc[p] = "open"
  /\ LET s == ScanOf(cur[p]) IN
       \/ /\ \E id \in ServerIds(s), k \in ResumePoints(s) :
               /\ sid' = [sid EXCEPT ![s] = id]
               /\ idx' = [idx EXCEPT ![p] = k]
               /\ Goto(p, IF <<s, id>> = cur[p].name
                          THEN AfterOpen(cur[p]) ELSE "rename")
          /\ UNCHANGED <<cur, exit, budget>>
       \/ /\ RequestFails(p)
          /\ \/ \E id \in ServerIds(s) : sid' = [sid EXCEPT ![s] = id]
             \/ UNCHANGED sid
  /\ UNCHANGED <<disk, stored, accepted, reconciled, late, plan, hist>>

(* SetScanID: rename the payload, write a state file beside it, remove the *)
(* old one.                                                                *)

NewName(p) == <<ScanOf(cur[p]), sid[ScanOf(cur[p])]>>

RenamePayload(p) ==
  /\ pc[p] = "rename"
  /\ \/ /\ payload[cur[p].name]
        /\ payload' = [payload EXCEPT ![cur[p].name] = FALSE, ![NewName(p)] = TRUE]
        /\ Goto(p, "adopt")
        /\ UNCHANGED <<cur, idx, exit, budget>>
     \/ /\ ~payload[cur[p].name]
        /\ GiveUp(p)
        /\ UNCHANGED <<payload, budget>>
     \/ /\ Spend("disk")
        /\ GiveUp(p)
        /\ UNCHANGED payload
  /\ UNCHANGED <<files, server, plan, hist>>

AdoptState(p) ==
  /\ pc[p] = "adopt"
  /\ \/ /\ SaveState(NewName(p), cur[p].acked, cur[p].created)
        /\ Goto(p, "forget")
        /\ UNCHANGED <<cur, idx, exit, budget>>
     \/ /\ SaveStateFails(NewName(p), cur[p].acked, cur[p].created)
        /\ GiveUp(p)
  /\ UNCHANGED <<payload, server, plan, hist>>

\* The error of this removal is dropped.
ForgetOldState(p) ==
  /\ pc[p] = "forget"
  /\ \/ st' = [st EXCEPT ![cur[p].name] = "none"] /\ UNCHANGED budget
     \/ Spend("disk") /\ UNCHANGED st
  /\ cur' = [cur EXCEPT ![p].name = NewName(p)]
  /\ Goto(p, AfterOpen(cur[p]))
  /\ UNCHANGED <<payload, acked, created, server, plan, idx, exit, hist>>

\* Mutant: the state file says where to resume.
AskNobody(p) ==
  /\ pc[p] = "status"
  /\ idx' = [idx EXCEPT ![p] = cur[p].acked]
  /\ Goto(p, "read")
  /\ UNCHANGED <<disk, server, plan, cur, exit, hist, budget>>

AskStatus(p) ==
  /\ pc[p] = "status"
  /\ \/ /\ \E k \in ResumePoints(ScanOf(cur[p])) : idx' = [idx EXCEPT ![p] = k]
        /\ Goto(p, "read")
        /\ UNCHANGED <<cur, exit, budget>>
     \/ RequestFails(p)
  /\ UNCHANGED <<disk, server, plan, hist>>

\* EachBatch opens the payload once and reads it through that descriptor.
OpenPayload(p) ==
  /\ pc[p] = "read"
  /\ IF payload[cur[p].name]
     THEN Goto(p, "post") /\ UNCHANGED <<cur, idx, exit>>
     ELSE GiveUp(p)
  /\ UNCHANGED <<disk, server, plan, hist, budget>>

Take(s, i) ==
  /\ stored' = [stored EXCEPT ![s] = @ \union {i}]
  /\ accepted' = [accepted EXCEPT ![s] = @ \union {i}]

\* Mutant: the batch is acknowledged whatever came of the request.
PostUnchecked(p) ==
  /\ pc[p] = "post"
  /\ idx[p] < NumBatches[ScanOf(cur[p])]
  /\ \/ Take(ScanOf(cur[p]), idx[p]) /\ UNCHANGED budget
     \/ Spend("net") /\ UNCHANGED <<stored, accepted>>
  /\ Goto(p, "ack")
  /\ UNCHANGED <<disk, sid, reconciled, late, plan, cur, idx, exit, hist>>

PostBatch(p) ==
  /\ pc[p] = "post"
  /\ LET s == ScanOf(cur[p]) IN
       /\ idx[p] < NumBatches[s]
       /\ \/ /\ Take(s, idx[p])
             /\ Goto(p, "ack")
             /\ UNCHANGED <<cur, idx, exit, late, budget>>
          \/ /\ RequestFails(p)
             /\ \/ Take(s, idx[p]) /\ UNCHANGED late
                \/ late' = late \union {<<s, idx[p]>>} /\ UNCHANGED <<stored, accepted>>
                \/ UNCHANGED <<stored, accepted, late>>
  /\ UNCHANGED <<disk, sid, reconciled, plan, hist>>

\* Ack, in the callback of EachBatch, after the server's answer.
Ack(p) ==
  /\ pc[p] = "ack"
  /\ LET k == idx[p] + 1 IN
       \/ /\ k <= cur[p].acked
          /\ idx' = [idx EXCEPT ![p] = k]
          /\ Goto(p, "post")
          /\ UNCHANGED <<files, cur, exit, budget>>
       \/ /\ k > cur[p].acked
          /\ SaveState(cur[p].name, k, cur[p].created)
          /\ cur' = [cur EXCEPT ![p].acked = k]
          /\ idx' = [idx EXCEPT ![p] = k]
          /\ Goto(p, "post")
          /\ UNCHANGED <<exit, budget>>
       \/ /\ k > cur[p].acked
          /\ SaveStateFails(cur[p].name, k, cur[p].created)
          /\ GiveUp(p)
  /\ UNCHANGED <<payload, server, plan, hist>>

BatchesDone(p) ==
  /\ pc[p] = "post"
  /\ idx[p] >= NumBatches[ScanOf(cur[p])]
  /\ Goto(p, "close")
  /\ UNCHANGED <<disk, server, plan, cur, idx, exit, hist, budget>>

\* Mutant: the verdict, or the lack of one, is not looked at.
CloseUnchecked(p) ==
  /\ pc[p] = "close"
  /\ LET s == ScanOf(cur[p]) IN
       \/ reconciled' = [reconciled EXCEPT ![s] = @ \/ stored[s] = Batches(s)]
          /\ UNCHANGED budget
       \/ Spend("net") /\ UNCHANGED reconciled
  /\ Goto(p, "tidy1")
  /\ UNCHANGED <<disk, sid, stored, accepted, late, plan, cur, idx, exit, hist>>

\* The server compares what the manifest declared with what it holds: equal
\* counts reconcile, others are a 409 or a verdict that says so.
CloseScan(p) ==
  /\ pc[p] = "close"
  /\ LET s    == ScanOf(cur[p])
         holds == stored[s] = Batches(s)
     IN \/ /\ holds
           /\ reconciled' = [reconciled EXCEPT ![s] = TRUE]
           /\ Goto(p, "tidy1")
           /\ UNCHANGED <<cur, idx, exit, budget>>
        \/ ~holds /\ GiveUp(p) /\ UNCHANGED <<reconciled, budget>>
        \/ /\ RequestFails(p)
           /\ \/ reconciled' = [reconciled EXCEPT ![s] = @ \/ holds]
              \/ UNCHANGED reconciled
  /\ UNCHANGED <<disk, sid, stored, accepted, late, plan, hist>>

(* Done: the payload, then the state file.  A removal that fails is a      *)
(* warning, and the run goes on to the other file.                         *)

RemovePayload(p) ==
  /\ pc[p] = "tidy1"
  /\ \/ payload' = [payload EXCEPT ![cur[p].name] = FALSE] /\ UNCHANGED budget
     \/ Spend("disk") /\ UNCHANGED payload
  /\ Goto(p, "tidy2")
  /\ UNCHANGED <<files, server, plan, cur, idx, exit, hist>>

RemoveState(p) ==
  /\ pc[p] = "tidy2"
  /\ \/ st' = [st EXCEPT ![cur[p].name] = "none"] /\ UNCHANGED budget
     \/ Spend("disk") /\ UNCHANGED st
  /\ cur' = [cur EXCEPT ![p] = NoSpool]
  /\ idx' = [idx EXCEPT ![p] = 0]
  /\ Goto(p, "next")
  /\ UNCHANGED <<payload, acked, created, server, plan, exit, hist>>

-----------------------------------------------------------------------------
(* The environment.                                                        *)

\* The process dies: SIGKILL, a systemd timeout, a power cut.
Crash(p) ==
  /\ pc[p] # "idle"
  /\ Spend("crash")
  /\ Goto(p, "idle")
  /\ exit' = [exit EXCEPT ![p] = "killed"]
  /\ cur' = [cur EXCEPT ![p] = NoSpool]
  /\ idx' = [idx EXCEPT ![p] = 0]
  /\ want' = [want EXCEPT ![p] = NoScan]
  /\ listing' = [listing EXCEPT ![p] = {}]
  /\ queue' = [queue EXCEPT ![p] = {}]
  /\ fresh' = [fresh EXCEPT ![p] = {}]
  /\ UNCHANGED <<disk, server, sorted, warned, promised, hist>>

\* A server that restarts loses batches of a scan it has not closed.
ServerRestarts ==
  /\ Spend("restart")
  /\ \E s \in Scans :
       /\ ~reconciled[s]
       /\ \E kept \in SUBSET stored[s] : stored' = [stored EXCEPT ![s] = kept]
  /\ UNCHANGED <<disk, sid, accepted, reconciled, late, pc, plan, cur, idx, exit, hist>>

\* A request the client gave up on reaches the server after all.
LateBatch ==
  /\ \E r \in late : Take(r[1], r[2]) /\ late' = late \ {r}
  /\ UNCHANGED <<disk, sid, reconciled, pc, plan, cur, idx, exit, hist, budget>>

\* A state file becomes unreadable: edited by hand, or a disk that lied.
GarbleState ==
  /\ Spend("garble")
  /\ \E n \in Names : st[n] = "ok" /\ st' = [st EXCEPT ![n] = "garbled"]
  /\ UNCHANGED <<payload, acked, created, server, pc, plan, cur, idx, exit, hist>>

-----------------------------------------------------------------------------
Starts(p) == TransmitReport(p) \/ TransmitOnly(p)

Works(p) ==
  \/ LoadNext(p) \/ PendingReturns(p) \/ CountAll(p)
  \/ NoNewSpool(p) \/ WritePayload(p) \/ WriteState(p) \/ Unspool(p)
  \/ SendNext(p) \/ RunEnds(p)
  \/ OpenScan(p) \/ RenamePayload(p) \/ AdoptState(p) \/ ForgetOldState(p)
  \/ AskStatus(p) \/ OpenPayload(p) \/ PostBatch(p) \/ Ack(p) \/ BatchesDone(p)
  \/ CloseScan(p) \/ RemovePayload(p) \/ RemoveState(p)

Environment == ServerRestarts \/ LateBatch \/ GarbleState

Next ==
  \/ \E p \in Procs : Starts(p) \/ TransmitFrom(p) \/ Works(p) \/ Crash(p)
  \/ Environment

Spec == Init /\ [][Next]_vars

\* A timer starts runs again and again, and a process that can take a step
\* takes one.  Nothing is assumed of the environment.
Fairness == \A p \in Procs : WF_vars(Starts(p)) /\ WF_vars(Works(p))

FairSpec == Spec /\ Fairness

-----------------------------------------------------------------------------
(* Properties.                                                             *)

\* A state file never runs ahead of the server: every batch below
\* acked_batches was taken by the server at some time.  Send acknowledges
\* after the 2xx and never before.
AckedNeverAhead ==
  \A n \in Names : st[n] = "ok" => HasBelow(accepted[n[1]], acked[n])

\* The upload has no silent hole: whatever the interleaving of runs, crashes
\* and restarts of the server, a process that is about to read, post,
\* acknowledge or close at index k is past no batch the server never took.
NeverSkips ==
  \A p \in Procs : pc[p] \in {"read", "post", "ack", "close"} =>
    HasBelow(accepted[ScanOf(cur[p])], idx[p])

\* There is a payload of scan s, under one name or the other.
HasPayload(s) == \E n \in Names : n[1] = s /\ payload[n]

\* A spooled scan leaves the disk only after the server reconciled it: not by
\* a crash, not by a failed rename, not by the work of another run.
RemovedOnlyWhenReconciled ==
  [][\A s \in spooled : HasPayload(s) /\ ~HasPayload(s)' => reconciled[s]]_vars

\* A later run will find scan s: a payload with a readable state file beside it.
Findable(s) == \E n \in Names : n[1] = s /\ payload[n] /\ st[n] = "ok"

\* Every spooled scan the server has not reconciled is one a later run will
\* find, as long as the server goes by the identifier the run gave it.
StaysDeliverable ==
  \A s \in spooled : ~reconciled[s] /\ sid[s] # "minted" => Findable(s)

\* Exit code 0 is the promise a timer checks: every scan the run set out to
\* send, its backlog included, has been reconciled.
ExitOKMeansDelivered ==
  \A p \in Procs : pc[p] = "idle" /\ exit[p] = "ok" =>
    \A s \in promised[p] : reconciled[s]

\* The abstract view: a scan is queued while a payload of it is on the disk
\* that NewSpool answered for, or that has a state file and no NewSpool at
\* work on it.  (NewSpool may die between the two files and its answer, or
\* fail and leave both: the fsync after the rename of the state file fails,
\* and the removal of the payload.  A later run sends that scan.)
Queued(s) ==
  /\ HasPayload(s)
  /\ \/ s \in spooled
     \/ /\ \E n \in Names : n[1] = s /\ st[n] # "none"
        /\ \A p \in Procs : want[p] # s

Abstract == INSTANCE Delivery WITH
  begun     <- taken \ (spooled \union ForeignScans),
  queued    <- {s \in Scans \ ForeignScans : Queued(s)},
  delivered <- {s \in Scans : reconciled[s]}

\* Every behaviour of the spool, the runs and the server is one of Delivery:
\* nothing leaves the queue undelivered, nothing delivered is forgotten, and
\* the server closes no scan that is neither queued nor still being spooled.
ImplementsDelivery == Abstract!Spec

\* A backlog collected for another server is neither sent to this one nor
\* lost, no run opens it and nothing removes it; and a run that could read the
\* whole spool, and whose queue no other run has shortened since, says that it
\* is there.
ForeignStaysPut ==
  /\ [](\A s \in ForeignScans : sid[s] = "unknown" /\ stored[s] = {} /\ payload[Own(s)])
  /\ [][\A p \in Procs :
          pc[p] = "count" /\ pc'[p] = "payload" /\ sorted[p] /\ ForeignScans # {} =>
            \/ warned'[p] \/ \E n \in Names : st[n] = "garbled"
            \/ \E c \in queue[p] : st[c.name] = "none"]_vars

\* Every spooled scan is delivered in the end, once the faults are over, unless
\* the server gave it a name of its own and it was lost on the way to that name.
EventuallyReconciled ==
  \A s \in Scans : s \in spooled ~> reconciled[s] \/ (sid[s] = "minted" /\ ~Findable(s))

=============================================================================
