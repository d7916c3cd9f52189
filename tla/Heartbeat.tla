----------------------------- MODULE Heartbeat ------------------------------
(***************************************************************************)
(* --heartbeat: what one run remembers for the next (cmd/swinv,             *)
(* heartbeat_state.go), in the order in which run() in main.go uses it:    *)
(* scan, applyHeartbeat, writeFiles, and the upload of the stream unless a *)
(* failed source withholds it.                                             *)
(*                                                                         *)
(* The state file is read as a whole and written as a whole, and several   *)
(* hosts may keep it in one output directory.  The consumer of the NDJSON  *)
(* stream is the server when there is a --transmit, and whoever collects   *)
(* the files otherwise; module Transmit covers what happens to a stream    *)
(* once it is spooled.                                                     *)
(***************************************************************************)
EXTENDS Naturals

CONSTANTS
  Hosts,         \* the hosts that write to one output directory, one run each
  Inventories,   \* inventories; equal ones have equal digests
  FullInterval,  \* --full-interval; 0 never forces a full list
  Transmits,     \* whether the run has a --transmit
  MaxTime,       \* bound on time
  Faults,        \* Faults[k]: how many faults of kind k may happen
  Unknown        \* no inventory

FaultKinds == {"crash", "record", "write", "source", "delete", "edit", "force"}

ASSUME HeartbeatConstants ==
  /\ FullInterval \in Nat /\ MaxTime \in Nat
  /\ Transmits \in BOOLEAN
  /\ Faults \in [FaultKinds -> Nat]
  /\ Unknown \notin Inventories

Times == 0..MaxTime

\* An entry of heartbeatState.Hosts; an Unknown digest stands for no entry.
Entry   == [digest : Inventories \union {Unknown}, fullAt : Times]
NoEntry == [digest |-> Unknown, fullAt |-> 0]

VARIABLES
  time,       \* the time
  inventory,  \* what is installed on each host
  state,      \* the state file
  pc,         \* "idle", "read", "record", "files" or "send", for each host's run
  seen,       \* the inventory the run found
  began,      \* Scan.StartedAt
  degraded,   \* a source of the run failed
  snapshot,   \* the state the run read
  full,       \* the run carries the full list
  have,       \* the last full list the consumer got from the host
  fullSent,   \* when the scan behind that list began (history)
  lostAt,     \* when a full scan began that never got there, the last (history)
  previous,   \* the inventory of the host's previous scan (history)
  left        \* faults still to happen

world == <<time, inventory>>
run   == <<pc, seen, began, degraded, snapshot, full>>
hist  == <<have, fullSent, lostAt, previous>>
vars  == <<world, state, run, hist, left>>

TypeOK ==
  /\ time \in Times
  /\ inventory \in [Hosts -> Inventories]
  /\ state \in [Hosts -> Entry]
  /\ pc \in [Hosts -> {"idle", "read", "record", "files", "send"}]
  /\ seen \in [Hosts -> Inventories \union {Unknown}]
  /\ began \in [Hosts -> Times]
  /\ degraded \in [Hosts -> BOOLEAN]
  /\ snapshot \in [Hosts -> [Hosts -> Entry]]
  /\ full \in [Hosts -> BOOLEAN]
  /\ have \in [Hosts -> Inventories \union {Unknown}]
  /\ fullSent \in [Hosts -> Times]
  /\ lostAt \in [Hosts -> Times]
  /\ previous \in [Hosts -> Inventories \union {Unknown}]
  /\ left \in [FaultKinds -> Nat]

NoEntries == [h \in Hosts |-> NoEntry]

Init ==
  /\ time = 0
  /\ inventory \in [Hosts -> Inventories]
  /\ state = NoEntries
  /\ pc = [h \in Hosts |-> "idle"]
  /\ seen = [h \in Hosts |-> Unknown]
  /\ began = [h \in Hosts |-> 0]
  /\ degraded = [h \in Hosts |-> FALSE]
  /\ snapshot = [h \in Hosts |-> NoEntries]
  /\ full = [h \in Hosts |-> FALSE]
  /\ have = [h \in Hosts |-> Unknown]
  /\ fullSent = [h \in Hosts |-> 0]
  /\ lostAt = [h \in Hosts |-> 0]
  /\ previous = [h \in Hosts |-> Unknown]
  /\ left = Faults

-----------------------------------------------------------------------------
Spend(k) == left[k] > 0 /\ left' = [left EXCEPT ![k] = @ - 1]

Move(h, from, to) == pc[h] = from /\ pc' = [pc EXCEPT ![h] = to]

\* Every run ends in the same idle state: nothing of it is kept but the file.
Ends(h) ==
  /\ pc' = [pc EXCEPT ![h] = "idle"]
  /\ seen' = [seen EXCEPT ![h] = Unknown]
  /\ began' = [began EXCEPT ![h] = 0]
  /\ degraded' = [degraded EXCEPT ![h] = FALSE]
  /\ snapshot' = [snapshot EXCEPT ![h] = NoEntries]
  /\ full' = [full EXCEPT ![h] = FALSE]

\* The scan, from its start to the report.
Scan(h) ==
  /\ Move(h, "idle", "read")
  /\ seen' = [seen EXCEPT ![h] = inventory[h]]
  /\ began' = [began EXCEPT ![h] = time]
  /\ \/ degraded' = [degraded EXCEPT ![h] = FALSE] /\ UNCHANGED left
     \/ degraded' = [degraded EXCEPT ![h] = TRUE] /\ Spend("source")
  /\ UNCHANGED <<world, state, snapshot, full, hist>>

\* Mutant: a full list when more than the interval has passed.
IntervalPast(h, e) == FullInterval > 0 /\ began[h] > e.fullAt + FullInterval

\* The reasons of applyHeartbeat for a full list, after --force-full.
\* now.Sub(FullAt) is negative when FullAt lies in the future.
IntervalOver(h, e) == FullInterval > 0 /\ began[h] >= e.fullAt + FullInterval

\* Mutant: the digest is recorded and never compared.
MustSendWhenDue(h, e) == e.digest = Unknown \/ IntervalOver(h, e)

MustSendFull(h, e) ==
  \/ e.digest = Unknown
  \/ e.digest # seen[h]
  \/ IntervalOver(h, e)

\* The state is written only when a full list goes out.
AfterRead(sendsFull) == IF sendsFull THEN "record" ELSE "files"

ReadState(h) ==
  /\ pc[h] = "read"
  /\ snapshot' = [snapshot EXCEPT ![h] = state]
  /\ previous' = [previous EXCEPT ![h] = seen[h]]
  /\ \/ UNCHANGED left /\ full' = [full EXCEPT ![h] = MustSendFull(h, state[h])]
     \/ Spend("force") /\ full' = [full EXCEPT ![h] = TRUE]
  /\ pc' = [pc EXCEPT ![h] = AfterRead(full'[h])]
  /\ UNCHANGED <<world, state, seen, began, degraded, have, fullSent, lostAt>>

Recorded(h) == [digest |-> seen[h], fullAt |-> began[h]]

\* The whole file is written from the run's own snapshot, with its own entry
\* replaced.  A write that fails is a warning of the report; it may fail
\* after the rename.
RecordState(h) ==
  /\ Move(h, "record", "files")
  /\ LET wrote == state' = [snapshot[h] EXCEPT ![h] = Recorded(h)]
     IN \/ wrote /\ UNCHANGED left
        \/ Spend("record") /\ (wrote \/ UNCHANGED state)
  /\ UNCHANGED <<world, seen, began, degraded, snapshot, full, hist>>

\* The consumer gets the stream of h: a full list, or the heartbeat alone.
Receive(h) ==
  /\ IF full[h]
     THEN /\ have' = [have EXCEPT ![h] = seen[h]]
          /\ fullSent' = [fullSent EXCEPT ![h] = began[h]]
     ELSE UNCHANGED <<have, fullSent>>
  /\ UNCHANGED <<lostAt, previous>>

\* The run ends and its stream reaches nobody.
Lose(h) ==
  /\ lostAt' = IF full[h] THEN [lostAt EXCEPT ![h] = began[h]] ELSE lostAt
  /\ UNCHANGED <<have, fullSent, previous>>

WriteFiles(h) ==
  /\ pc[h] = "files"
  /\ \/ IF Transmits
        THEN /\ pc' = [pc EXCEPT ![h] = "send"]
             /\ UNCHANGED <<seen, began, degraded, snapshot, full, hist, left>>
        ELSE Ends(h) /\ Receive(h) /\ UNCHANGED left
     \* exitFatal: nothing is uploaded either.
     \/ Spend("write") /\ Ends(h) /\ Lose(h)
  /\ UNCHANGED <<world, state>>

\* --transmit-require-complete, on by default, withholds a degraded scan.
Upload(h) ==
  /\ pc[h] = "send"
  /\ IF degraded[h] THEN Lose(h) ELSE Receive(h)
  /\ Ends(h)
  /\ UNCHANGED <<world, state, left>>

-----------------------------------------------------------------------------
(* The environment.                                                        *)

Crash(h) ==
  /\ pc[h] # "idle"
  /\ Spend("crash")
  /\ Ends(h)
  /\ Lose(h)
  /\ UNCHANGED <<world, state>>

\* Software is installed or removed.
Change(h) ==
  /\ \E i \in Inventories \ {inventory[h]} : inventory' = [inventory EXCEPT ![h] = i]
  /\ UNCHANGED <<time, state, run, hist, left>>

Tick ==
  /\ time < MaxTime
  /\ time' = time + 1
  /\ UNCHANGED <<inventory, state, run, hist, left>>

\* The file is deleted, or does not parse: the next reader knows nothing.
DeleteState ==
  /\ Spend("delete")
  /\ state' = NoEntries
  /\ UNCHANGED <<world, run, hist>>

\* The full_emitted_at of an entry is edited by hand.
EditState ==
  /\ Spend("edit")
  /\ \E h \in Hosts, t \in Times : state' = [state EXCEPT ![h].fullAt = t]
  /\ UNCHANGED <<world, run, hist>>

-----------------------------------------------------------------------------
Acts(h) == Scan(h) \/ ReadState(h) \/ RecordState(h) \/ WriteFiles(h) \/ Upload(h)

Next ==
  \/ \E h \in Hosts : Acts(h) \/ Crash(h) \/ Change(h)
  \/ Tick \/ DeleteState \/ EditState

Spec == Init /\ [][Next]_vars

-----------------------------------------------------------------------------
(* Properties.                                                             *)

\* The stream of h is about to reach its consumer and says "unchanged".
SaysUnchanged(h) ==
  /\ pc[h] = (IF Transmits THEN "send" ELSE "files")
  /\ ~full[h] /\ ~degraded[h]

\* None of these faults has happened so far.
Unspent(ks) == \A k \in ks : left[k] = Faults[k]
Losses      == {"crash", "record", "write", "source"}

\* As long as no list was lost and no entry kept from the file, a stream that
\* carries the heartbeat alone is true, whatever became of the state file in
\* other ways: the last full list the consumer has is what the scan found.
UnchangedIsTrue ==
  Unspent(Losses) => \A h \in Hosts : SaysUnchanged(h) => have[h] = seen[h]

\* What --full-interval is for: a stream that is untrue, because a list that
\* was recorded never arrived or one that arrived was not recorded, is less
\* than an interval younger than the last full scan, arrived or not.
UntruthIsBounded ==
  Unspent({"edit"}) => \A h \in Hosts : SaysUnchanged(h) /\ have[h] # seen[h] =>
    \/ began[h] < lostAt[h] + FullInterval
    \/ began[h] < fullSent[h] + FullInterval

=============================================================================
