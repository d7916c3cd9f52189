------------------------------ MODULE Batching ------------------------------
(***************************************************************************)
(* How Spool.EachBatch (internal/transmit/spool.go) cuts a payload into    *)
(* numbered batches, and how Send resumes among them: the uploads of one   *)
(* scan, some of which die, against a server that keeps a batch by its     *)
(* index.  A payload is the sequence of the lengths of its lines, their    *)
(* terminators excluded; a batch is the sequence of the line numbers in it. *)
(***************************************************************************)
EXTENDS Naturals, SequencesExt

CONSTANTS
  Payloads,  \* payloads to try: line 1 is the manifest, 0 is a blank line
  Limits,    \* records of the two limits, lines and bytes
  MaxTries   \* how many uploads may be started

ASSUME BatchingConstants ==
  /\ \A y \in Payloads : y \in Seq(Nat) /\ y # <<>> /\ y[1] > 0
  /\ \A l \in Limits : l.lines \in Nat \ {0} /\ l.bytes \in Nat \ {0}
  /\ MaxTries \in Nat

VARIABLES
  payload,  \* the spooled lines
  limits,   \* the limits the state file records
  stored,   \* the batches the server keeps, index 0 first
  pc,       \* "idle", "walk" or "closed"
  start,    \* the batch index the server said to resume from
  pos,      \* the line EachBatch reads next
  batch,    \* the batch it is filling
  index,    \* that batch's index
  tries     \* uploads started

walk == <<pos, batch, index>>
vars == <<payload, limits, stored, pc, start, walk, tries>>

\* The record lines: line 1 is the manifest, and blank lines are none.
IsRecord(n) == n > 1 /\ payload[n] > 0
RecordLines == SelectSeq([n \in 1..Len(payload) |-> n], IsRecord)

\* Bytes of a batch b of lines with lengths y: each line and its newline.
BytesIn(y, b) == FoldLeft(LAMBDA sum, n : sum + y[n] + 1, 0, b)

Bytes(b) == BytesIn(payload, b)

TypeOK ==
  /\ payload \in Payloads /\ limits \in Limits
  /\ stored \in Seq(Seq(1..Len(payload)))
  /\ pc \in {"idle", "walk", "closed"}
  /\ start \in Nat /\ index \in Nat
  /\ pos \in 1..(Len(payload) + 1)
  /\ batch \in Seq(1..Len(payload))
  /\ tries \in 0..MaxTries

Init ==
  /\ payload \in Payloads /\ limits \in Limits
  /\ stored = <<>> /\ pc = "idle" /\ start = 0
  /\ pos = 1 /\ batch = <<>> /\ index = 0
  /\ tries = 0

UploadGoesOn ==
  /\ pc = "idle" /\ tries < MaxTries
  /\ tries' = tries + 1
  /\ start' = Len(stored)
  /\ batch' = <<>> /\ index' = 0
  /\ pc' = "walk"
  /\ UNCHANGED <<payload, limits, stored, pos>>

\* Send opens the scan, learns where to resume, and starts EachBatch.
Upload ==
  /\ pc = "idle" /\ tries < MaxTries
  /\ tries' = tries + 1
  /\ start' = Len(stored)
  /\ pos' = 1 /\ batch' = <<>> /\ index' = 0
  /\ pc' = "walk"
  /\ UNCHANGED <<payload, limits, stored>>

-----------------------------------------------------------------------------
(* flush and the callback of Send.                                         *)

\* The server keeps a batch under its index; one it has already it drops.
Keep == stored' = IF index = Len(stored) THEN Append(stored, batch) ELSE stored

NextBatch == batch' = <<>> /\ index' = index + 1

\* An index below the resume point is walked past, not sent.
SkipBatch == index < start /\ NextBatch /\ UNCHANGED <<stored, pc>>

PostBatch == index >= start /\ Keep /\ NextBatch /\ UNCHANGED pc

\* The request fails, or the process dies: the server has the batch or not.
PostFails ==
  /\ index >= start
  /\ Keep \/ UNCHANGED stored
  /\ pc' = "idle"
  /\ UNCHANGED <<batch, index>>

Flush ==
  /\ SkipBatch \/ PostBatch \/ PostFails
  /\ UNCHANGED <<payload, limits, start, pos, tries>>

\* The batch has as many lines as it may.
Full == Len(batch) >= limits.lines

\* The line at pos would take the batch past the byte limit.
Overflows == batch # <<>> /\ Bytes(batch) + payload[pos] + 1 > limits.bytes

FlushFull == pc = "walk" /\ Full /\ Flush

FlushBefore ==
  /\ pc = "walk" /\ ~Full
  /\ pos <= Len(payload) /\ IsRecord(pos) /\ Overflows
  /\ Flush

\* Mutant: the first line of a batch is read from the buffer of the one before.
AddStaleLine ==
  /\ pc = "walk" /\ ~Full
  /\ pos <= Len(payload) /\ IsRecord(pos) /\ ~Overflows
  /\ batch' = Append(batch, IF batch = <<>> /\ IsRecord(pos - 1) THEN pos - 1 ELSE pos)
  /\ pos' = pos + 1
  /\ UNCHANGED <<payload, limits, stored, pc, start, index, tries>>

\* A record goes into the batch, alone when it is larger than the limit.
AddLine ==
  /\ pc = "walk" /\ ~Full
  /\ pos <= Len(payload) /\ IsRecord(pos) /\ ~Overflows
  /\ batch' = Append(batch, pos)
  /\ pos' = pos + 1
  /\ UNCHANGED <<payload, limits, stored, pc, start, index, tries>>

\* The manifest was delivered by the open call; blank lines carry nothing.
SkipLine ==
  /\ pc = "walk" /\ ~Full
  /\ pos <= Len(payload) /\ ~IsRecord(pos)
  /\ pos' = pos + 1
  /\ UNCHANGED <<payload, limits, stored, pc, start, batch, index, tries>>

\* flush at the end of the file sends what is left, if anything is.
FlushLast ==
  /\ pc = "walk" /\ ~Full
  /\ pos > Len(payload) /\ batch # <<>>
  /\ Flush

\* The walk is over: the server compares what it stored with the manifest.
Close ==
  /\ pc = "walk" /\ pos > Len(payload) /\ batch = <<>>
  /\ pc' = IF Len(FlattenSeq(stored)) = Len(RecordLines) THEN "closed" ELSE "idle"
  /\ UNCHANGED <<payload, limits, stored, start, walk, tries>>

Ended == (pc = "closed" \/ (pc = "idle" /\ tries = MaxTries)) /\ UNCHANGED vars

Next ==
  \/ Upload \/ FlushFull \/ FlushBefore \/ AddLine \/ SkipLine \/ FlushLast
  \/ Close \/ Ended

Spec == Init /\ [][Next]_vars

-----------------------------------------------------------------------------
(* Properties.                                                             *)

\* A scan that closes reconciled holds exactly the records, not just as many:
\* nothing but records, every one of them, each once and in the payload's
\* order through all the batches.
ClosedMeansComplete ==
  pc = "closed" =>
    /\ \A b \in Range(stored) : \A n \in Range(b) : IsRecord(n)
    /\ \A n \in DOMAIN payload : IsRecord(n) => \E b \in Range(stored) : n \in Range(b)
    /\ \A k, m \in DOMAIN stored : \A i \in DOMAIN stored[k], j \in DOMAIN stored[m] :
         k < m \/ (k = m /\ i < j) => stored[k][i] < stored[m][j]

\* "Batch 7 means the same records on a resume as it did on the run that died"
\* (EachBatch): when a batch is sent or skipped under an index the server has,
\* it is the batch the server has.
SameBatchOnResume ==
  [][index' = index + 1 /\ index < Len(stored) => batch = stored[index + 1]]_vars
=============================================================================
